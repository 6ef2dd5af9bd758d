---------------------------- MODULE Dht11Proofs ----------------------------
(***************************************************************************)
(* For any number of readers, any frames and bytes of any size: the mutex  *)
(* protects the store, the handler is installed only while its reader      *)
(* waits, what a reader decodes are the edges of its own transmission with *)
(* none missing between them, the decoder finds in them every frame that   *)
(* has a meaning and has come to its end, and the driver keeps the promise *)
(* of SensorReads.                                                         *)
(***************************************************************************)
EXTENDS Dht11, SequenceTheorems, FiniteSetTheorems, WellFoundedInduction, TLAPS

\* The steps of dht11_read_raw between mutex_lock and mutex_unlock.
Inside == Label \ {"idle", "want"}

\* The reader inside is the one that holds the mutex.
MutexInv == \A r \in Reader : pc[r] \in Inside <=> lock = r

\* The handler is installed only by a reader that waits or is about to free it,
\* and the store is armed only inside.
HandlerInv ==
  /\ irq => \E r \in Reader : pc[r] \in {"wait", "free"}
  /\ lock = NoReader => num_edges = -1

\* The parts of TypeOK the argument needs.
Types ==
  /\ lock \in Reader \cup {NoReader}
  /\ num_edges \in -1..DHT11_EDGES_PER_READ
  /\ irq \in BOOLEAN
  /\ pc \in [Reader -> Label]
  /\ ret \in [Reader -> {"none", "done", "timeout", "killed"}]

IInv == Types /\ MutexInv /\ HandlerInv

\* The array of edges has room for every number the handler counts to.
LEMMA EdgesPositive == DHT11_EDGES_PER_READ \in Nat /\ DHT11_EDGES_PER_READ > 0
  BY FrameAssumption DEF DHT11_EDGES_PER_READ, DHT11_BITS_PER_READ, DHT11_EDGES_PREAMBLE

\* Every step keeps the mutex, the handler and the types.
LEMMA IInvStep == IInv /\ [Next]_vars => IInv'
<1> SUFFICES ASSUME IInv, [Next]_vars PROVE IInv'
  OBVIOUS
<1> USE EdgesPositive, ReaderAssumption
    DEF IInv, Types, MutexInv, HandlerInv, Inside, Label, device, store, sensor, Goto
<1>1. ASSUME NEW r \in Reader, Call(r) PROVE IInv'
  BY <1>1 DEF Call
<1>2. ASSUME NEW r \in Reader, Acquire(r) PROVE IInv'
  BY <1>2 DEF Acquire
<1>3. ASSUME NEW r \in Reader, UseValues(r) PROVE IInv'
  BY <1>3 DEF UseValues
<1>4. ASSUME NEW r \in Reader, Begin(r) PROVE IInv'
  BY <1>4 DEF Begin
<1>5. ASSUME NEW r \in Reader, RefuseClock(r) PROVE IInv'
  BY <1>5 DEF RefuseClock
<1>6. ASSUME NEW r \in Reader, Start(r) PROVE IInv'
  BY <1>6 DEF Start
<1>7. ASSUME NEW r \in Reader, RequestIrq(r) PROVE IInv'
  <2>1. Types' /\ MutexInv'
    BY <1>7 DEF RequestIrq
  <2>2. pc'[r] = "wait" \/ (pc'[r] = "err" /\ UNCHANGED irq)
    BY <1>7 DEF RequestIrq
  <2>3. \A s \in Reader : pc[s] \in Inside => s = r
    BY <1>7 DEF RequestIrq
  <2>4. irq => FALSE
    BY <1>7, <2>3 DEF RequestIrq
  <2>5. HandlerInv'
    BY <1>7, <2>2, <2>4 DEF RequestIrq
  <2>q. QED
    BY <2>1, <2>5
<1>8. ASSUME NEW r \in Reader, Completed(r) \/ TimedOut(r) \/ Killed(r) PROVE IInv'
  BY <1>8 DEF Completed, TimedOut, Killed, Waited
<1>9. ASSUME NEW r \in Reader, FreeIrq(r) PROVE IInv'
  BY <1>9 DEF FreeIrq
<1>10. ASSUME NEW r \in Reader, DecodeEdges(r) PROVE IInv'
  BY <1>10 DEF DecodeEdges
<1>11. ASSUME NEW r \in Reader, Return(r) PROVE IInv'
  BY <1>11 DEF Return
<1>12. CASE Edge
  BY <1>12 DEF Edge, Armed
<1>13. CASE Expire
  BY <1>13 DEF Expire
<1>14. CASE UNCHANGED vars
  BY <1>14 DEF vars
<1>q. QED
  BY <1>1, <1>2, <1>3, <1>4, <1>5, <1>6, <1>7, <1>8, <1>9, <1>10, <1>11, <1>12,
     <1>13, <1>14 DEF Next, Read

\* The mutex, the handler and the types are in order in every behaviour.
THEOREM IInvHolds == Spec => []IInv
<1>1. Init => IInv
  <2> SUFFICES ASSUME Init PROVE IInv
    OBVIOUS
  <2>1. Types
    <3>1. lock \in Reader \cup {NoReader} /\ irq \in BOOLEAN
      BY DEF Init
    <3>2. num_edges \in -1..DHT11_EDGES_PER_READ
      BY EdgesPositive DEF Init
    <3>3. pc \in [Reader -> Label]
      BY DEF Init, Label
    <3>4. ret \in [Reader -> {"none", "done", "timeout", "killed"}]
      BY DEF Init
    <3>q. QED
      BY <3>1, <3>2, <3>3, <3>4 DEF Types
  <2>2. MutexInv
    BY ReaderAssumption DEF Init, MutexInv, Inside, Label
  <2>3. HandlerInv
    BY DEF Init, HandlerInv
  <2>q. QED
    BY <2>1, <2>2, <2>3 DEF IInv
<1>q. QED
  BY <1>1, IInvStep, PTL DEF Spec

\* However a read ended, the handler is gone and num_edges is -1 once the mutex is
\* free, for any number of readers.
THEOREM StoreQuiet == Spec => []QuietWhenFree
<1>1. IInv => QuietWhenFree
  <2> SUFFICES ASSUME IInv PROVE QuietWhenFree
    OBVIOUS
  <2>1. irq => lock # NoReader /\ pc[lock] \in {"wait", "free"}
    <3> SUFFICES ASSUME irq PROVE lock # NoReader /\ pc[lock] \in {"wait", "free"}
      OBVIOUS
    <3>1. PICK r \in Reader : pc[r] \in {"wait", "free"}
      BY DEF IInv, HandlerInv
    <3>2. lock = r
      BY <3>1 DEF IInv, MutexInv, Inside, Label
    <3>q. QED
      BY <3>1, <3>2, ReaderAssumption
  <2>q. QED
    BY <2>1 DEF QuietWhenFree, IInv, HandlerInv
<1>q. QED
  BY <1>1, IInvHolds, PTL

\* Only one reader is between mutex_lock and mutex_unlock.
THEOREM OneReaderInside ==
  Spec => [](\A r, s \in Reader : pc[r] \in Inside /\ pc[s] \in Inside => r = s)
<1>1. IInv => \A r, s \in Reader : pc[r] \in Inside /\ pc[s] \in Inside => r = s
  BY DEF IInv, MutexInv
<1>q. QED
  BY <1>1, IInvHolds, PTL

-----------------------------------------------------------------------------
(* The edges that a reader decodes.                                         *)

Last == DHT11_EDGES_PER_READ + 1

\* The handler has stored the sensor's edges up to the last one sent, but for the first k.
Run(k) ==
  /\ k + num_edges <= sent /\ num_edges >= 0
  /\ edges = Window(frame, k, num_edges)
  /\ irq /\ num_edges < DHT11_EDGES_PER_READ => k + num_edges = sent

\* Before the handler is installed nothing is stored; then one run; and a completion is
\* one of this transmission.  A run stored to the end of the last bit is of a frame that
\* was heard whole, and no other.
EdgesInv ==
  /\ sent \in 0..Last /\ whole \in BOOLEAN
  /\ \A r \in Reader :
       /\ pc[r] \in {"start", "request"} => num_edges = 0 /\ edges = <<>> /\ ~done
       /\ pc[r] \in {"wait", "free", "decode"} => \E k \in Nat : Run(k)
       /\ pc[r] \in {"start", "request", "wait"} /\ done => num_edges = DHT11_EDGES_PER_READ
       /\ pc[r] = "free" /\ ret[r] = "done" => num_edges = DHT11_EDGES_PER_READ
       /\ pc[r] = "free" => ret[r] \in {"done", "timeout", "killed"}
       /\ pc[r] \in {"wait", "free"} => irq
       /\ pc[r] \in {"request", "wait", "free"} => whole
       /\ pc[r] = "decode" =>
            /\ ~irq /\ num_edges >= DHT11_EDGES_PER_READ - 1
            /\ \E k \in Nat : Run(k) /\ (whole <=> k + num_edges >= DHT11_EDGES_PER_READ)

\* A wave is a sequence, whose parts grow edge by edge.
LEMMA WaveGrows ==
  ASSUME NEW f, NEW m \in Nat, NEW n \in Nat, m <= n, n < Last
  PROVE  SubSeq(Wave(f), m + 1, n + 1) = Append(SubSeq(Wave(f), m + 1, n), Wave(f)[n + 1])
<1> DEFINE w == Wave(f)
           S == {w[k] : k \in 1..Last}
<1>1. Last \in Nat
  BY EdgesPositive DEF Last
<1>2. w \in [1..Last -> S]
  BY DEF Wave, Last
<1> HIDE DEF w, S
<1>3. w \in Seq(S) /\ Len(w) = Last
  BY <1>1, <1>2, SeqDef
<1>4. m + 1 \in 1..Len(w) /\ n + 1 \in (m + 1)..Len(w)
  BY <1>1, <1>3
<1>5. SubSeq(w, m + 1, n + 1) = SubSeq(w, m + 1, (n + 1) - 1) \o <<w[n + 1]>>
  BY <1>3, <1>4, SubSeqRecursiveSecond
<1>6. (n + 1) - 1 = n
  OBVIOUS
<1>7. w[n + 1] \in S /\ \A i \in (m + 1)..n : w[i] \in S
  BY <1>1, <1>2
<1>8. SubSeq(w, m + 1, n) \in Seq(S)
  BY <1>7, SubSeqProperties
<1>9. SubSeq(w, m + 1, n) \o <<w[n + 1]>> = Append(SubSeq(w, m + 1, n), w[n + 1])
  BY <1>7, <1>8, AppendIsConcat
<1>q. QED
  BY <1>5, <1>6, <1>9 DEF w

\* Who is inside is alone there.
LEMMA AloneInside ==
  ASSUME IInv, NEW r \in Reader, pc[r] \in Inside, NEW s \in Reader, s # r
  PROVE  pc[s] \in {"idle", "want"}
  BY DEF IInv, MutexInv, Types, Inside

\* The handler adds the next edge to the run, if it stores one at all.
LEMMA EdgeStep == IInv /\ EdgesInv /\ Edge => EdgesInv'
<1> SUFFICES ASSUME IInv, EdgesInv, Edge PROVE EdgesInv'
  OBVIOUS
<1>1. sent \in 0..Last /\ sent < Last /\ sent' = sent + 1 /\ Last \in Nat
      /\ UNCHANGED <<irq, frame, whole, pc, ret>>
  BY EdgesPositive DEF EdgesInv, Edge, Sending, Last
<1>2. CASE ~Armed
  <2>1. UNCHANGED <<num_edges, edges, done>>
    BY <1>2 DEF Edge, store
  <2>2. ASSUME NEW k \in Nat, Run(k) PROVE Run(k)'
    <3>1. num_edges \in Nat /\ k + num_edges <= sent' /\ edges' = edges
      BY <1>1, <2>1, <2>2, EdgesPositive DEF Run, IInv, Types
    <3>2. ~(irq /\ num_edges < DHT11_EDGES_PER_READ)
      BY <1>2, <3>1, EdgesPositive DEF Armed
    <3>q. QED
      BY <1>1, <2>1, <2>2, <3>1, <3>2 DEF Run
  <2>q. QED
    BY <1>1, <2>1, <2>2 DEF EdgesInv
<1>3. CASE Armed
  <2>1. PICK r \in Reader : pc[r] \in {"wait", "free"}
    BY <1>3 DEF Armed, IInv, HandlerInv
  <2>2. \A s \in Reader : s # r => pc[s] \in {"idle", "want"}
    BY <2>1, AloneInside DEF Inside, Label
  <2>3. PICK k \in Nat : Run(k)
    BY <2>1 DEF EdgesInv
  <2>4. num_edges \in Nat /\ num_edges < DHT11_EDGES_PER_READ /\ irq /\ k + num_edges = sent
    BY <1>3, <2>3, EdgesPositive DEF Armed, Run
  <2>5. /\ edges' = Append(edges, Wave(frame)[sent']) /\ num_edges' = num_edges + 1
        /\ done' => done \/ num_edges' >= DHT11_EDGES_PER_READ
    BY <1>3 DEF Edge
  <2>6. edges' = Window(frame, k, num_edges')
    <3>1. /\ k + num_edges \in Nat /\ k <= k + num_edges /\ k + num_edges < Last
          /\ (k + num_edges) + 1 = sent' /\ (k + num_edges) + 1 = k + num_edges'
      BY <1>1, <2>4, <2>5
    <3>q. QED
      BY <2>3, <2>5, <3>1, WaveGrows DEF Run, Window
  <2>7. Run(k)'
    BY <1>1, <2>4, <2>5, <2>6 DEF Run
  <2>8. done' => num_edges' = DHT11_EDGES_PER_READ \/ done
    BY <2>4, <2>5, EdgesPositive
  <2>9. ret[r] # "done" \/ pc[r] # "free"
    BY <2>4, EdgesPositive DEF EdgesInv
  <2>10. pc[r] = "wait" => ~done
    BY <2>4, EdgesPositive DEF EdgesInv
  <2>11. whole /\ whole'
    BY <1>1, <2>1 DEF EdgesInv
  <2>q. QED
    BY <1>1, <2>1, <2>2, <2>7, <2>8, <2>9, <2>10, <2>11 DEF EdgesInv
<1>q. QED
  BY <1>2, <1>3

\* Every step keeps the edges stored a window of the sensor's wave.
LEMMA EdgesStep == IInv /\ EdgesInv /\ [Next]_vars => EdgesInv'
<1> SUFFICES ASSUME IInv, EdgesInv, [Next]_vars PROVE EdgesInv'
  OBVIOUS
<1>1. ASSUME UNCHANGED <<num_edges, edges, done, irq, frame, sent, whole, ret>>,
             \A s \in Reader : pc'[s] = pc[s] \/ pc'[s] \in {"idle", "want", "check", "ok", "err"}
      PROVE  EdgesInv'
  <2>1. \A k : Run(k)' <=> Run(k)
    BY <1>1 DEF Run
  <2>q. QED
    BY <1>1, <2>1 DEF EdgesInv
<1>2. ASSUME NEW r \in Reader,
             Call(r) \/ Acquire(r) \/ UseValues(r) \/ RefuseClock(r) \/ DecodeEdges(r)
      PROVE  EdgesInv'
  BY <1>1, <1>2 DEF Call, Acquire, UseValues, RefuseClock, DecodeEdges, Goto, store, sensor,
                    IInv, Types
<1>3. ASSUME NEW r \in Reader, pc[r] \in Inside,
             \A s \in Reader \ {r} : pc'[s] = pc[s]
      PROVE  \A s \in Reader \ {r} : pc'[s] \in {"idle", "want"}
  BY <1>3, AloneInside
<1>4. ASSUME NEW r \in Reader, Begin(r) PROVE EdgesInv'
  <2>1. pc' = [pc EXCEPT ![r] = "start"] /\ pc[r] = "check"
        /\ num_edges' = 0 /\ edges' = <<>> /\ ~done' /\ UNCHANGED <<sent, whole>>
    BY <1>4 DEF Begin, Goto, sensor
  <2>2. pc'[r] = "start" /\ \A s \in Reader \ {r} : pc'[s] \in {"idle", "want"}
    BY <1>3, <2>1 DEF IInv, Types, Inside, Label
  <2>q. QED
    BY <2>1, <2>2 DEF EdgesInv
<1>5. ASSUME NEW r \in Reader, Start(r) PROVE EdgesInv'
  <2>1. pc[r] = "start" /\ UNCHANGED <<num_edges, edges, done>>
        /\ \/ pc' = [pc EXCEPT ![r] = "request"] /\ whole' = TRUE
           \/ pc' = [pc EXCEPT ![r] = "err"] /\ whole' = whole
    BY <1>5 DEF Start, Goto, store, sensor
  <2>2. /\ pc'[r] \in {"request", "err"} /\ (pc'[r] = "request" => whole' = TRUE)
        /\ \A s \in Reader \ {r} : pc'[s] \in {"idle", "want"}
    BY <1>3, <2>1 DEF IInv, Types, Inside, Label
  <2>3. sent' \in 0..Last
    BY <1>5, EdgesPositive DEF Start, sensor, EdgesInv, Last
  <2>4. whole' \in BOOLEAN
    BY <2>1 DEF EdgesInv
  <2>q. QED
    BY <2>1, <2>2, <2>3, <2>4 DEF EdgesInv
<1>6. ASSUME NEW r \in Reader, RequestIrq(r) PROVE EdgesInv'
  <2>1. /\ pc[r] = "request" /\ UNCHANGED <<num_edges, edges, done, frame, sent, whole>>
        /\ \/ pc' = [pc EXCEPT ![r] = "wait"] /\ irq' = TRUE
           \/ pc' = [pc EXCEPT ![r] = "err"]
    BY <1>6 DEF RequestIrq, Goto, store, sensor
  <2>2. /\ pc'[r] \in {"wait", "err"} /\ (pc'[r] = "wait" => irq')
        /\ \A s \in Reader \ {r} : pc'[s] \in {"idle", "want"}
    BY <1>3, <2>1 DEF IInv, Types, Inside, Label
  <2>3. num_edges = 0 /\ edges = <<>> /\ ~done /\ sent \in Nat
    BY <2>1 DEF EdgesInv
  <2>4. Window(frame, sent, 0) = <<>>
    BY <2>3, SubSeqEmpty DEF Window
  <2>5. Run(sent)'
    BY <2>1, <2>3, <2>4 DEF Run
  <2>q. QED
    BY <2>1, <2>2, <2>3, <2>5 DEF EdgesInv
<1>7. ASSUME NEW r \in Reader, Completed(r) \/ TimedOut(r) \/ Killed(r) PROVE EdgesInv'
  <2>1. PICK result \in {"done", "timeout", "killed"} : Waited(r, result)
    BY <1>7 DEF Completed, TimedOut, Killed
  <2>2. /\ pc[r] = "wait" /\ UNCHANGED <<num_edges, edges, irq, frame, sent, whole>>
        /\ pc' = [pc EXCEPT ![r] = "free"] /\ ret' = [ret EXCEPT ![r] = result]
        /\ result = "done" => done
    BY <2>1 DEF Waited, Goto, sensor
  <2>3. /\ pc'[r] = "free" /\ ret'[r] = result
        /\ \A s \in Reader \ {r} : pc'[s] \in {"idle", "want"}
    BY <1>3, <2>2 DEF IInv, Types, Inside, Label
  <2>4. \A k : Run(k)' <=> Run(k)
    BY <2>2 DEF Run
  <2>q. QED
    BY <2>1, <2>2, <2>3, <2>4 DEF EdgesInv
<1>8. ASSUME NEW r \in Reader, FreeIrq(r) PROVE EdgesInv'
  <2>1. /\ pc[r] = "free" /\ UNCHANGED <<num_edges, edges, frame, sent, ret>> /\ irq' = FALSE
        /\ pc' = [pc EXCEPT ![r] =
                    IF \/ ret[r] = "killed"
                       \/ ret[r] = "timeout" /\ num_edges < DHT11_EDGES_PER_READ - 1
                    THEN "err" ELSE "decode"]
    BY <1>8 DEF FreeIrq, Goto, store, sensor
  <2>2. \A s \in Reader \ {r} : pc'[s] \in {"idle", "want"}
    BY <1>3, <2>1 DEF IInv, Types, Inside, Label
  <2>3. /\ pc'[r] \in {"err", "decode"}
        /\ pc'[r] = "decode" => num_edges >= DHT11_EDGES_PER_READ - 1
    BY <2>1, EdgesPositive DEF EdgesInv, IInv, Types
  <2>4. \A k : Run(k) => Run(k)'
    BY <2>1 DEF Run
  <2>5. PICK k \in Nat : Run(k)
    BY <2>1 DEF EdgesInv
  <2>6. whole' = (sent >= DHT11_EDGES_PER_READ)
    BY <1>8 DEF FreeIrq, Hear
  <2>7. whole' <=> k + num_edges >= DHT11_EDGES_PER_READ
    <3>1. irq
      BY <2>1 DEF EdgesInv
    <3>2. k + num_edges <= sent /\ (num_edges < DHT11_EDGES_PER_READ => k + num_edges = sent)
      BY <2>5, <3>1 DEF Run
    <3>3. num_edges \in Int /\ sent \in Int /\ num_edges <= DHT11_EDGES_PER_READ
      BY EdgesPositive DEF EdgesInv, Last, IInv, Types
    <3>4. sent >= DHT11_EDGES_PER_READ <=> k + num_edges >= DHT11_EDGES_PER_READ
      BY <3>2, <3>3, EdgesPositive
    <3>q. QED
      BY <2>6, <3>4
  <2>8. pc'[r] = "decode" =>
          \E i \in Nat : Run(i)' /\ (whole' <=> i + num_edges' >= DHT11_EDGES_PER_READ)
    BY <2>1, <2>4, <2>5, <2>7
  <2>9. whole' \in BOOLEAN
    BY <2>6
  <2>q. QED
    BY <2>1, <2>2, <2>3, <2>4, <2>8, <2>9 DEF EdgesInv
<1>9. ASSUME NEW r \in Reader, Return(r) PROVE EdgesInv'
  <2>1. pc[r] \in {"ok", "err"} /\ pc' = [pc EXCEPT ![r] = "idle"] /\ UNCHANGED <<sent, whole>>
    BY <1>9 DEF Return, Goto, sensor
  <2>2. pc'[r] = "idle" /\ \A s \in Reader \ {r} : pc'[s] \in {"idle", "want"}
    BY <1>3, <2>1 DEF IInv, Types, Inside, Label
  <2>q. QED
    BY <2>1, <2>2 DEF EdgesInv
<1>10. CASE Expire
  BY <1>1, <1>10 DEF Expire, store, sensor
<1>11. CASE UNCHANGED vars
  BY <1>1, <1>11 DEF vars
<1>q. QED
  BY <1>2, <1>4, <1>5, <1>6, <1>7, <1>8, <1>9, <1>10, <1>11, EdgeStep DEF Next, Read

\* So they are in every behaviour.
LEMMA EdgesHold == Spec => [](IInv /\ EdgesInv)
<1>1. Init => EdgesInv
  BY EdgesPositive DEF Init, EdgesInv, Last
<1>q. QED
  BY <1>1, EdgesStep, IInvHolds, PTL DEF Spec

\* The decoder runs on enough edges, all of one transmission and none missing between
\* them, for any readers and frames.
THEOREM DecodesOwnEdges == Spec => []OwnEdges
<1>1. IInv /\ EdgesInv => OwnEdges
  <2> SUFFICES ASSUME IInv, EdgesInv, NEW r \in Reader, pc[r] = "decode"
               PROVE  /\ num_edges >= DHT11_EDGES_PER_READ - 1
                      /\ \E k \in 0..2 : edges = Window(frame, k, num_edges)
    BY DEF OwnEdges
  <2>1. PICK k \in Nat : Run(k)
    BY DEF EdgesInv
  <2>2. num_edges >= DHT11_EDGES_PER_READ - 1 /\ sent <= DHT11_EDGES_PER_READ + 1
        /\ sent \in Int /\ num_edges \in Int
    BY EdgesPositive DEF EdgesInv, Last, IInv, Types
  <2>3. k \in 0..2
    BY <2>1, <2>2, EdgesPositive DEF Run
  <2>q. QED
    BY <2>1, <2>2, <2>3 DEF Run
<1>q. QED
  BY <1>1, EdgesHold, PTL

-----------------------------------------------------------------------------
(* Numbers.                                                                 *)

\* Every set of numbers that is not empty has a least one.
LEMMA LeastNat ==
  ASSUME NEW T \in SUBSET Nat, T # {}
  PROVE  \E m \in T : \A k \in T : m <= k
<1> DEFINE R == {ss \in Nat \X Nat : ss[1] < ss[2]}
<1>1. IsWellFoundedOn(R, Nat)
  BY NatLessThanWellFounded DEF OpToRel
<1> HIDE DEF R
<1>2. PICK m \in T : \A k \in T : ~(<<k, m>> \in R)
  BY <1>1, WFMin
<1>3. \A k \in T : ~(k < m)
  BY <1>2 DEF R
<1>q. QED
  BY <1>3

\* Induction, over the members of a set.
LEMMA SetInduction ==
  ASSUME NEW S, 0 \in S, \A n \in Nat : n \in S => n + 1 \in S
  PROVE  Nat \subseteq S
<1> SUFFICES ASSUME Nat \ S # {} PROVE FALSE
  OBVIOUS
<1>1. PICK m \in Nat \ S : \A k \in Nat \ S : m <= k
  BY LeastNat
<1>2. m - 1 \in Nat /\ m - 1 \in S
  BY <1>1
<1>q. QED
  BY <1>1, <1>2

\* 2 ^ n counts the subsets of 1..n.
LEMMA Subsets ==
  ASSUME NEW n \in Nat
  PROVE  /\ IsFiniteSet(SUBSET (1..n)) /\ Cardinality(SUBSET (1..n)) = 2 ^ n
         /\ 2 ^ n \in Nat
<1>1. IsFiniteSet(1..n) /\ Cardinality(1..n) = n
  BY FS_Interval
<1>2. IsFiniteSet(SUBSET (1..n)) /\ Cardinality(SUBSET (1..n)) = 2 ^ n
  BY <1>1, FS_SUBSET
<1>q. QED
  BY <1>2, FS_CardinalityType

\* Powers of two, as the numbers of subsets that they count.
LEMMA Doubling ==
  ASSUME NEW n \in Nat
  PROVE  2 ^ n \in Nat \ {0} /\ 2 ^ (n + 1) = 2 * 2 ^ n /\ 2 ^ 0 = 1
<1> DEFINE A == SUBSET (1..n)
           B == {T \cup {n + 1} : T \in A}
           f == [T \in A |-> T \cup {n + 1}]
<1>1. SUBSET (1..(n + 1)) = A \cup B
  <2>1. 1..(n + 1) = (1..n) \cup {n + 1}
    OBVIOUS
  <2>2. ASSUME NEW T \in SUBSET (1..(n + 1)), n + 1 \in T PROVE T \in B
    <3>1. T \ {n + 1} \in A /\ (T \ {n + 1}) \cup {n + 1} = T
      BY <2>1, <2>2
    <3>q. QED
      BY <3>1
  <2>q. QED
    BY <2>1, <2>2
<1>2. A \cap B = {}
  OBVIOUS
<1>3. f \in [A -> B]
  OBVIOUS
<1>4. \A T, U \in A : T \cup {n + 1} = U \cup {n + 1} => T = U
  <2>1. n + 1 \notin 1..n
    OBVIOUS
  <2>q. QED
    BY <2>1
<1>5. ExistsBijection(A, B)
  <2>1. f \in Injection(A, B)
    BY <1>3, <1>4 DEF Injection, IsInjective
  <2>2. f \in Surjection(A, B)
    BY <1>3 DEF Surjection
  <2>q. QED
    BY <2>1, <2>2 DEF ExistsBijection, Bijection
<1>6. IsFiniteSet(A) /\ Cardinality(A) = 2 ^ n /\ 2 ^ n \in Nat
  BY Subsets
<1>7. A # {}
  OBVIOUS
<1> HIDE DEF A, B, f
<1>8. Cardinality(A \cup B) = 2 ^ (n + 1) /\ 2 ^ (n + 1) \in Nat
  <2>1. n + 1 \in Nat
    OBVIOUS
  <2>2. Cardinality(SUBSET (1..(n + 1))) = 2 ^ (n + 1) /\ 2 ^ (n + 1) \in Nat
    BY <2>1, Subsets
  <2>q. QED
    BY <1>1, <2>2
<1>9. IsFiniteSet(B) /\ Cardinality(B) = 2 ^ n
  BY <1>5, <1>6, FS_Bijection
<1>10. Cardinality(A \cup B) = 2 ^ n + 2 ^ n - 0
  BY <1>2, <1>6, <1>9, FS_Union, FS_EmptySet
<1>11. 2 ^ n # 0
  BY <1>6, <1>7, FS_EmptySet
<1>q. QED
  BY <1>6, <1>8, <1>10, <1>11

\* Quotient and remainder are unique.
LEMMA DivUnique ==
  ASSUME NEW e \in Nat \ {0}, NEW a \in Nat, NEW s \in 0..(e - 1)
  PROVE  (e * a + s) \div e = a /\ (e * a + s) % e = s
  OBVIOUS

\* Each bit more of a quotient doubles it.
LEMMA Halve ==
  ASSUME NEW x \in Nat, NEW d \in Nat \ {0}
  PROVE  x \div d = 2 * (x \div (2 * d)) + ((x \div d) % 2)
  OBVIOUS
\* g[j] is what the first j of the m bits b[1], ..., b[m] say, most significant bit first.
Reads(g, b, m) == g[0] = 0 /\ \A j \in 1..m : g[j] = 2 * g[j - 1] + b[j]

\* Any m bits can be read,
LEMMA Recurrence ==
  ASSUME NEW m \in Nat, NEW b \in [1..m -> 0..1]
  PROVE  \E g \in [0..m -> Nat] : Reads(g, b, m)
<1> DEFINE S == {k \in Nat : k <= m => \E g \in [0..k -> Nat] : Reads(g, b, k)}
<1>1. 0 \in S
  <2>1. [j \in 0..0 |-> 0] \in [0..0 -> Nat] /\ Reads([j \in 0..0 |-> 0], b, 0)
    BY DEF Reads
  <2>q. QED
    BY <2>1
<1>2. ASSUME NEW n \in Nat, n \in S PROVE n + 1 \in S
  <2>1. ASSUME n + 1 <= m PROVE \E g \in [0..(n + 1) -> Nat] : Reads(g, b, n + 1)
    <3>1. PICK g \in [0..n -> Nat] : Reads(g, b, n)
      BY <1>2, <2>1
    <3> DEFINE h == [j \in 0..(n + 1) |-> IF j = n + 1 THEN 2 * g[n] + b[n + 1] ELSE g[j]]
    <3>2. b[n + 1] \in 0..1
      BY <2>1
    <3>3. h \in [0..(n + 1) -> Nat] /\ h[0] = 0
      BY <3>1, <3>2 DEF Reads
    <3>4. ASSUME NEW j \in 1..(n + 1) PROVE h[j] = 2 * h[j - 1] + b[j]
      <4>1. CASE j = n + 1
        BY <4>1
      <4>2. CASE j # n + 1
        <5>1. j \in 1..n /\ h[j] = g[j] /\ h[j - 1] = g[j - 1]
          BY <4>2
        <5>q. QED
          BY <3>1, <5>1 DEF Reads
      <4>q. QED
        BY <4>1, <4>2
    <3>q. QED
      BY <3>3, <3>4 DEF Reads
  <2>q. QED
    BY <2>1
<1>3. m \in S
  <2> HIDE DEF S
  <2>q. QED
    BY <1>1, <1>2, SetInduction
<1>q. QED
  BY <1>3

\* and in one way only.
LEMMA RecurrenceUnique ==
  ASSUME NEW m \in Nat, NEW b, NEW g, NEW h,
         Reads(g, b, m), Reads(h, b, m)
  PROVE  \A j \in 0..m : h[j] = g[j]
<1> DEFINE T == {j \in 0..m : h[j] # g[j]}
<1> SUFFICES ASSUME T # {} PROVE FALSE
  OBVIOUS
<1>1. PICK k \in T : \A j \in T : k <= j
  <2>1. T \in SUBSET Nat
    OBVIOUS
  <2> HIDE DEF T
  <2>q. QED
    BY <2>1, LeastNat
<1>2. k \in 1..m
  BY DEF Reads
<1>3. k - 1 \in 0..m /\ h[k - 1] = g[k - 1]
  <2>1. k - 1 \in 0..m /\ ~(k <= k - 1)
    BY <1>2
  <2>q. QED
    BY <1>1, <2>1
<1>4. h[k] = g[k]
  BY <1>2, <1>3 DEF Reads
<1>q. QED
  BY <1>4

\* What the loop of dht11_decode_byte computes, step by step.
LEMMA ByteSteps ==
  ASSUME NEW bits \in [0..(DHT11_BITS_PER_READ - 1) -> 0..1], NEW n \in 0..4
  PROVE  \E g \in [0..ByteBits -> Nat] :
           /\ DecodeByte(bits, n) = g[ByteBits]
           /\ g[0] = 0
           /\ \A j \in 1..ByteBits : g[j] = 2 * g[j - 1] + bits[n * ByteBits + j - 1]
<1> DEFINE b == [j \in 1..ByteBits |-> bits[n * ByteBits + j - 1]]
           Eq(g) == g = [j \in 0..ByteBits |->
                      IF j = 0 THEN 0 ELSE 2 * g[j - 1] + bits[n * ByteBits + j - 1]]
           h == CHOOSE g : Eq(g)
<1>1. ByteBits \in Nat /\ ByteBits > 0
  BY FrameAssumption
<1>2. DecodeByte(bits, n) = h[ByteBits]
  BY DEF DecodeByte
<1>3. b \in [1..ByteBits -> 0..1]
  <2>1. ASSUME NEW j \in 1..ByteBits PROVE n * ByteBits + j - 1 \in 0..(DHT11_BITS_PER_READ - 1)
    BY <1>1 DEF DHT11_BITS_PER_READ
  <2>q. QED
    BY <2>1
<1>4. \A j \in 1..ByteBits : b[j] = bits[n * ByteBits + j - 1]
  OBVIOUS
<1> HIDE DEF b
<1>5. PICK g \in [0..ByteBits -> Nat] : Reads(g, b, ByteBits)
  BY <1>1, <1>3, Recurrence
<1>6. Eq(g)
  BY <1>1, <1>4, <1>5 DEF Reads
<1>7. Eq(h)
  BY <1>6
<1> HIDE DEF h
<1>8. Reads(h, b, ByteBits)
  BY <1>1, <1>4, <1>7 DEF Reads
<1>9. h[ByteBits] = g[ByteBits]
  BY <1>1, <1>5, <1>8, RecurrenceUnique
<1>q. QED
  BY <1>2, <1>4, <1>5, <1>9 DEF Reads

\* Whoever receives the bits of a byte, most significant bit first, reads the byte.
LEMMA ByteRead ==
  ASSUME NEW bits \in [0..(DHT11_BITS_PER_READ - 1) -> 0..1], NEW n \in 0..4,
         NEW x \in 0..(Base - 1),
         \A j \in 1..ByteBits : bits[n * ByteBits + j - 1] = (x \div 2 ^ (ByteBits - j)) % 2
  PROVE  DecodeByte(bits, n) = x
<1> DEFINE b == [j \in 1..ByteBits |-> bits[n * ByteBits + j - 1]]
           h == [j \in 0..ByteBits |-> x \div 2 ^ (ByteBits - j)]
<1>1. ByteBits \in Nat /\ ByteBits > 0
  BY FrameAssumption
<1>2. PICK g \in [0..ByteBits -> Nat] :
           /\ DecodeByte(bits, n) = g[ByteBits]
           /\ g[0] = 0
           /\ \A j \in 1..ByteBits : g[j] = 2 * g[j - 1] + bits[n * ByteBits + j - 1]
  BY ByteSteps
<1>3. Reads(g, b, ByteBits)
  BY <1>2 DEF Reads
<1>4. h[0] = 0
  <2>1. x \in Nat /\ x < 2 ^ ByteBits /\ 2 ^ ByteBits \in Nat \ {0}
    BY <1>1, Doubling DEF Base
  <2>2. x \div 2 ^ ByteBits = 0
    BY <2>1
  <2>q. QED
    BY <1>1, <2>2
<1>5. ASSUME NEW j \in 1..ByteBits PROVE h[j] = 2 * h[j - 1] + b[j]
  <2> DEFINE d == 2 ^ (ByteBits - j)
  <2>1. ByteBits - j \in Nat /\ ByteBits - (j - 1) = (ByteBits - j) + 1
    BY <1>1
  <2>2. d \in Nat \ {0} /\ 2 ^ (ByteBits - (j - 1)) = 2 * d
    BY <2>1, Doubling
  <2>3. x \in Nat
    BY <1>1, Doubling DEF Base
  <2>4. h[j] = x \div d /\ b[j] = (x \div d) % 2
    BY <1>1
  <2>5. h[j - 1] = x \div (2 * d)
    <3>1. j - 1 \in 0..ByteBits
      BY <1>1
    <3>2. h[j - 1] = x \div 2 ^ (ByteBits - (j - 1))
      BY <3>1
    <3>q. QED
      BY <2>2, <3>2
  <2> HIDE DEF d, h, b
  <2>q. QED
    BY <2>2, <2>3, <2>4, <2>5, Halve
<1>6. Reads(h, b, ByteBits)
  BY <1>4, <1>5 DEF Reads
<1>7. h[ByteBits] = x
  <2>1. x \in Nat /\ ByteBits - ByteBits = 0
    BY <1>1, Doubling DEF Base
  <2>2. x \div 2 ^ 0 = x
    BY <2>1, Doubling
  <2>q. QED
    BY <1>1, <2>1, <2>2
<1> HIDE DEF h, b
<1>8. g[ByteBits] = h[ByteBits]
  BY <1>1, <1>3, <1>6, RecurrenceUnique
<1>q. QED
  BY <1>2, <1>7, <1>8

\* Bytes of any size: found at the offset where the frame starts, the long and
\* short times that dht11_decode (147) and dht11_decode_byte (118) read are the
\* bytes of the frame again.
THEOREM FrameRead ==
  ASSUME NEW f \in Frame, NEW stored, NEW offset,
         \A i \in 0..(DHT11_BITS_PER_READ - 1) :
           stored[offset + 2 * i + 3].long <=> FrameBit(f, i)
  PROVE  DecodeFrame(stored, offset) = f
<1> DEFINE bits == StoredBits(stored, offset)
<1>1. ByteBits \in Nat /\ ByteBits > 0 /\ DHT11_BITS_PER_READ = 5 * ByteBits
  BY FrameAssumption DEF DHT11_BITS_PER_READ
<1>2. bits \in [0..(DHT11_BITS_PER_READ - 1) -> 0..1]
  BY DEF StoredBits
<1>3. \A i \in 0..(DHT11_BITS_PER_READ - 1) : bits[i] = IF FrameBit(f, i) THEN 1 ELSE 0
  BY DEF StoredBits
<1> HIDE DEF bits
<1>4. ASSUME NEW n \in 0..4 PROVE DecodeByte(bits, n) = f[n + 1]
  <2>1. f[n + 1] \in 0..(Base - 1) /\ f[n + 1] \in Nat
    <3>1. n + 1 \in 1..5 /\ Base \in Nat
      BY <1>1, Doubling DEF Base
    <3>q. QED
      BY <3>1 DEF Frame
  <2>2. ASSUME NEW j \in 1..ByteBits
        PROVE  bits[n * ByteBits + j - 1] = (f[n + 1] \div 2 ^ (ByteBits - j)) % 2
    <3> DEFINE i == n * ByteBits + j - 1
               d == 2 ^ (ByteBits - j)
    <3>1. i \in 0..(DHT11_BITS_PER_READ - 1)
      BY <1>1
    <3>2. i \div ByteBits = n /\ i % ByteBits = j - 1
      <4>1. j - 1 \in 0..(ByteBits - 1) /\ i = ByteBits * n + (j - 1)
        BY <1>1
      <4>q. QED
        BY <1>1, <4>1, DivUnique
    <3>3. ByteBits - 1 - (i % ByteBits) = ByteBits - j
      BY <1>1, <3>2
    <3>4. FrameBit(f, i) <=> (f[n + 1] \div d) % 2 = 1
      BY <3>2, <3>3 DEF FrameBit
    <3>5. d \in Nat \ {0}
      BY <1>1, Doubling
    <3> HIDE DEF d, i
    <3>6. (f[n + 1] \div d) % 2 \in 0..1
      BY <2>1, <3>5
    <3>7. bits[i] = (f[n + 1] \div d) % 2
      BY <1>3, <3>1, <3>4, <3>6
    <3>q. QED
      BY <3>7 DEF d, i
  <2>q. QED
    BY <1>2, <2>1, <2>2, ByteRead
<1>5. f \in [1..5 -> 0..(Base - 1)]
  BY DEF Frame
<1>6. ASSUME NEW n \in 1..5 PROVE DecodeByte(bits, n - 1) = f[n]
  <2>1. n - 1 \in 0..4 /\ (n - 1) + 1 = n
    OBVIOUS
  <2>q. QED
    BY <1>4, <2>1
<1>7. DecodeFrame(stored, offset) = [n \in 1..5 |-> DecodeByte(bits, n - 1)]
  BY DEF DecodeFrame, bits
<1>q. QED
  BY <1>5, <1>6, <1>7

\* The array is one bit shorter than the wave.
LEMMA Sizes ==
  /\ DHT11_BITS_PER_READ \in Nat /\ DHT11_BITS_PER_READ >= 5
  /\ DHT11_EDGES_PER_READ = 2 * DHT11_BITS_PER_READ + 3
  /\ Last = 2 * DHT11_BITS_PER_READ + 4
  BY FrameAssumption
     DEF DHT11_EDGES_PER_READ, DHT11_BITS_PER_READ, DHT11_EDGES_PREAMBLE, Last

-----------------------------------------------------------------------------
(* The decoder on a window of a frame's wave.                               *)

\* The edges of a window are those of the wave.
LEMMA WindowEdges ==
  ASSUME NEW f, NEW k \in Nat, NEW n \in Nat, k + n <= Last
  PROVE  /\ Len(Window(f, k, n)) = n
         /\ \A i \in 1..n :
              /\ Window(f, k, n)[i].value = (k + i - 1) % 2
              /\ Window(f, k, n)[i].long <=>
                   (k + i) % 2 = 0 \/ k + i <= 3 \/ FrameBit(f, (k + i - 5) \div 2)
<1> DEFINE w == Wave(f)
           S == {w[m] : m \in 1..Last}
<1>1. Last \in Nat
  BY Sizes
<1>2. \A m \in (k + 1)..(k + n) : w[m] \in S
  BY <1>1
<1>3. ASSUME NEW m \in 1..Last
      PROVE  /\ w[m].value = (m - 1) % 2
             /\ w[m].long <=> m % 2 = 0 \/ m <= 3 \/ FrameBit(f, (m - 5) \div 2)
  BY <1>1 DEF Wave, Last
<1> HIDE DEF w, S
<1>4. /\ Len(SubSeq(w, k + 1, k + n)) = n
      /\ \A i \in 1..n : SubSeq(w, k + 1, k + n)[i] = w[k + i]
  BY <1>1, <1>2, SubSeqProperties
<1>5. ASSUME NEW i \in 1..n
      PROVE  /\ Window(f, k, n)[i].value = (k + i - 1) % 2
             /\ Window(f, k, n)[i].long <=>
                  (k + i) % 2 = 0 \/ k + i <= 3 \/ FrameBit(f, (k + i - 5) \div 2)
  <2>1. Window(f, k, n)[i] = w[k + i]
    BY <1>4 DEF Window, w
  <2>2. k + i \in 1..Last
    BY <1>1
  <2>q. QED
    BY <1>3, <2>1, <2>2
<1>q. QED
  BY <1>4, <1>5 DEF Window, w

\* The windows that a reader may come to decode.
Whole(k, n) ==
  /\ k \in 0..2 /\ n \in {DHT11_EDGES_PER_READ - 1, DHT11_EDGES_PER_READ}
  /\ k + n <= Last /\ (k = 0 => n = DHT11_EDGES_PER_READ)

\* The search tries the offset at which the frame starts, and before it at most one,
\* which the synchronisation test refuses.
LEMMA RightOffset ==
  ASSUME NEW f \in Frame, NEW k, NEW n, Whole(k, n)
  PROVE  LET w == Window(f, k, n)
         IN  /\ FirstOffset(w) \in {2 - k, 3 - k}
             /\ Synced(w, 2 - k) /\ DecodeFrame(w, 2 - k) = f
             /\ FirstOffset(w) = 3 - k => ~Synced(w, 3 - k)
<1> DEFINE w == Window(f, k, n)
<1>1. /\ Len(w) = n
      /\ \A i \in 1..n :
           /\ w[i].value = (k + i - 1) % 2
           /\ w[i].long <=> (k + i) % 2 = 0 \/ k + i <= 3 \/ FrameBit(f, (k + i - 5) \div 2)
  <2>1. k \in Nat /\ n \in Nat /\ k + n <= Last
    BY Sizes DEF Whole
  <2>q. QED
    BY <2>1, WindowEdges
<1> HIDE DEF w
<1>2. FirstOffset(w) \in {2 - k, 3 - k}
  BY <1>1, Sizes DEF Whole, FirstOffset, DHT11_EDGES_PREAMBLE
<1>3. ASSUME NEW i \in 0..(DHT11_BITS_PER_READ - 1)
      PROVE  w[(2 - k) + 2 * i + 2].value = 1
  <2>1. (2 - k) + 2 * i + 2 \in 1..n /\ k + ((2 - k) + 2 * i + 2) - 1 = 2 * (i + 1) + 1
    BY Sizes DEF Whole
  <2>q. QED
    BY <1>1, <2>1
<1>4. ASSUME NEW i \in 0..(DHT11_BITS_PER_READ - 1)
      PROVE  w[(2 - k) + 2 * i + 3].long <=> FrameBit(f, i)
  <2> DEFINE e == (2 - k) + 2 * i + 3
  <2>1. e \in 1..n /\ k \in Int /\ e \in Int /\ k + e = 2 * i + 5
    BY Sizes DEF Whole
  <2>2. (k + e) % 2 = 1 /\ ~(k + e <= 3) /\ (k + e - 5) \div 2 = i
    <3> HIDE DEF e
    <3>1. i \in Nat /\ k + e = 2 * i + 5 /\ k + e - 5 = 2 * i
      BY <2>1, Sizes
    <3>q. QED
      BY <3>1
  <2> HIDE DEF e
  <2>3. w[e].long <=> FrameBit(f, i)
    <3>1. w[e].long <=>
            (k + e) % 2 = 0 \/ k + e <= 3 \/ FrameBit(f, (k + e - 5) \div 2)
      BY <1>1, <2>1
    <3>q. QED
      BY <2>2, <3>1
  <2>q. QED
    BY <2>3 DEF e
<1>5. ~Synced(w, 3 - k)
  <2>1. (3 - k) + 2 * 0 + 2 \in 1..n /\ k + ((3 - k) + 2 * 0 + 2) - 1 = 2 * 2
    BY Sizes DEF Whole
  <2>2. w[(3 - k) + 2 * 0 + 2].value = 0
    BY <1>1, <2>1
  <2>q. QED
    BY <2>2, Sizes DEF Synced
<1>6. Synced(w, 2 - k)
  BY <1>3 DEF Synced
<1>7. DecodeFrame(w, 2 - k) = f
  BY <1>4, FrameRead
<1>q. QED
  BY <1>2, <1>5, <1>6, <1>7 DEF w

\* What a frame means is found in every such window of its wave.
LEMMA SoundFound ==
  ASSUME NEW f \in Frame, Sound(f), NEW k, NEW n, Whole(k, n)
  PROVE  LET s == Search(Window(f, k, n))
         IN  s.ok /\ s.stamped /\ s.values = Meaning(f)
<1> DEFINE w == Window(f, k, n)
           first == FirstOffset(w)
           good == {o \in 0..first : Decode(w, o) = "ok"}
<1>1. /\ first \in {2 - k, 3 - k} /\ k \in 0..2
      /\ Synced(w, 2 - k) /\ DecodeFrame(w, 2 - k) = f
      /\ first = 3 - k => ~Synced(w, 3 - k)
  BY RightOffset DEF Whole
<1> HIDE DEF w, first
<1>2. Decode(w, 2 - k) = "ok"
  BY <1>1 DEF Decode, Sound
<1>3. first = 3 - k => Decode(w, 3 - k) # "ok"
  BY <1>1 DEF Decode
<1>4. 2 - k \in good /\ \A o \in good : o <= 2 - k
  BY <1>1, <1>2, <1>3
<1>5. Max(good) = 2 - k
  BY <1>1, <1>4 DEF Max
<1>6. good # {}
  BY <1>4
<1>7. 2 - k \in (2 - k)..first
  BY <1>1
<1>q. QED
  BY <1>1, <1>2, <1>5, <1>6, <1>7 DEF Search, w, first

\* Before the frame's first bit the line was high for long, so one bit too early the
\* decoder reads the frame shifted.
LEMMA ShiftedRead ==
  ASSUME NEW f, NEW n \in Nat, n >= DHT11_EDGES_PER_READ - 1, n <= Last
  PROVE  DecodeFrame(Window(f, 0, n), 0) = Shifted(f)
<1> DEFINE w == Window(f, 0, n)
           bits == [i \in 0..(DHT11_BITS_PER_READ - 1) |->
                      IF i = 0 \/ FrameBit(f, i - 1) THEN 1 ELSE 0]
<1>1. \A i \in 1..n : w[i].long <=> i % 2 = 0 \/ i <= 3 \/ FrameBit(f, (i - 5) \div 2)
  <2>1. \A i \in 1..n : w[i].long <=>
          (0 + i) % 2 = 0 \/ 0 + i <= 3 \/ FrameBit(f, (0 + i - 5) \div 2)
    BY WindowEdges
  <2>2. \A i \in 1..n : 0 + i = i
    OBVIOUS
  <2> HIDE DEF w
  <2>q. QED
    BY <2>1, <2>2
<1> HIDE DEF w
<1>2. ASSUME NEW i \in 0..(DHT11_BITS_PER_READ - 1)
      PROVE  w[0 + 2 * i + 3].long <=> i = 0 \/ FrameBit(f, i - 1)
  <2> DEFINE e == 0 + 2 * i + 3
  <2>1. e \in 1..n /\ e % 2 = 1 /\ (e <= 3 <=> i = 0) /\ (e - 5) \div 2 = i - 1
    <3>1. i \in Int /\ e = 2 * i + 3 /\ e - 5 = 2 * (i - 1)
      BY Sizes
    <3> HIDE DEF e
    <3>2. e \in 1..n /\ (e <= 3 <=> i = 0)
      BY <3>1, Sizes
    <3>3. e % 2 = 1 /\ (e - 5) \div 2 = i - 1
      BY <3>1
    <3>q. QED
      BY <3>2, <3>3
  <2> HIDE DEF e
  <2>2. w[e].long <=> i = 0 \/ FrameBit(f, i - 1)
    BY <1>1, <2>1
  <2>q. QED
    BY <2>2 DEF e
<1>3. StoredBits(w, 0) = bits
  BY <1>2 DEF StoredBits
<1> HIDE DEF bits
<1>4. DecodeFrame(w, 0) = [m \in 1..5 |-> DecodeByte(bits, m - 1)]
  BY <1>3 DEF DecodeFrame
<1>q. QED
  BY <1>4 DEF Shifted, w, bits

\* At every other offset the pulses are out of step with the bits.
LEMMA OutOfStep ==
  ASSUME NEW f, NEW k \in Nat, NEW n \in Nat, k + n <= Last, NEW o \in Nat,
         o + 2 <= n, (k + o) % 2 = 1
  PROVE  ~Synced(Window(f, k, n), o)
<1>1. o + 2 * 0 + 2 \in 1..n /\ o + 2 * 0 + 2 = o + 2
  OBVIOUS
<1>2. Window(f, k, n)[o + 2].value = (k + (o + 2) - 1) % 2
  BY <1>1, WindowEdges
<1>3. (k + (o + 2) - 1) % 2 = 0
  OBVIOUS
<1>4. 0 \in 0..(DHT11_BITS_PER_READ - 1)
  BY Sizes
<1>q. QED
  BY <1>1, <1>2, <1>3, <1>4 DEF Synced

\* So whatever the decoder takes from a whole frame is that frame, or that frame shifted;
LEMMA WholeTaken ==
  ASSUME NEW f \in Frame, NEW k, NEW n, Whole(k, n),
         NEW o \in 0..FirstOffset(Window(f, k, n)), Decode(Window(f, k, n), o) # "eio"
  PROVE  DecodeFrame(Window(f, k, n), o) \in {f, Shifted(f)}
<1> DEFINE w == Window(f, k, n)
<1>1. /\ FirstOffset(w) \in {2 - k, 3 - k} /\ k \in 0..2 /\ n \in Nat /\ k + n <= Last
      /\ DecodeFrame(w, 2 - k) = f
      /\ FirstOffset(w) = 3 - k => ~Synced(w, 3 - k)
      /\ n >= DHT11_EDGES_PER_READ - 1 /\ n <= Last
  BY RightOffset, Sizes DEF Whole
<1>2. Synced(w, o)
  BY DEF Decode
<1>3. CASE k + o = 2
  <2>1. o = 2 - k
    BY <1>1, <1>3
  <2>q. QED
    BY <1>1, <2>1
<1>4. CASE k + o = 1
  <2>1. o \in Nat /\ o + 2 <= n /\ (k + o) % 2 = 1
    BY <1>1, <1>4, Sizes
  <2>q. QED
    BY <1>1, <1>2, <2>1, OutOfStep
<1>5. CASE k + o = 0
  <2>1. k = 0 /\ o = 0
    BY <1>1, <1>5
  <2>q. QED
    BY <1>1, <2>1, ShiftedRead
<1>6. CASE k + o = 3
  <2>1. o = 3 - k /\ FirstOffset(w) = 3 - k
    BY <1>1, <1>6
  <2>q. QED
    BY <1>1, <1>2, <2>1
<1>7. k + o \in 0..3
  BY <1>1
<1>q. QED
  BY <1>3, <1>4, <1>5, <1>6, <1>7

\* and from one whose last bit has not been heard it can only take it shifted.
LEMMA CutTaken ==
  ASSUME NEW f, NEW n, n = DHT11_EDGES_PER_READ - 1,
         NEW o \in 0..FirstOffset(Window(f, 0, n)), Decode(Window(f, 0, n), o) # "eio"
  PROVE  DecodeFrame(Window(f, 0, n), o) = Shifted(f)
<1>1. n \in Nat /\ 0 + n <= Last /\ n >= 3 /\ n <= Last
  BY Sizes
<1>2. FirstOffset(Window(f, 0, n)) = 1
  <2>1. Len(Window(f, 0, n)) = n
    BY <1>1, WindowEdges
  <2>q. QED
    BY <2>1, Sizes DEF FirstOffset, DHT11_EDGES_PREAMBLE
<1>3. Synced(Window(f, 0, n), o)
  BY DEF Decode
<1>4. o # 1
  <2>1. ~Synced(Window(f, 0, n), 1)
    BY <1>1, OutOfStep
  <2>q. QED
    BY <1>3, <2>1
<1>5. o = 0
  BY <1>2, <1>4
<1>q. QED
  BY <1>1, <1>5, ShiftedRead

-----------------------------------------------------------------------------
(* What a reader decodes.                                                   *)

\* The edges that a reader comes to decode are one of the windows treated above.
LEMMA WholeAtDecode ==
  ASSUME IInv, EdgesInv, NEW r \in Reader, pc[r] = "decode"
  PROVE  \E k \in 0..2 :
           /\ edges = Window(frame, k, num_edges)
           /\ IF whole THEN Whole(k, num_edges)
                       ELSE k = 0 /\ num_edges = DHT11_EDGES_PER_READ - 1
<1>1. PICK k \in Nat : Run(k) /\ (whole <=> k + num_edges >= DHT11_EDGES_PER_READ)
  BY DEF EdgesInv
<1>2. /\ num_edges \in Int /\ num_edges <= DHT11_EDGES_PER_READ
      /\ num_edges >= DHT11_EDGES_PER_READ - 1 /\ k + num_edges <= Last
  BY <1>1, Sizes DEF EdgesInv, IInv, Types, Run
<1>3. k \in 0..2
  BY <1>2, Sizes
<1>4. whole => Whole(k, num_edges)
  BY <1>1, <1>2, <1>3, Sizes DEF Whole
<1>5. ~whole => k = 0 /\ num_edges = DHT11_EDGES_PER_READ - 1
  BY <1>1, <1>2, <1>3, Sizes
<1>q. QED
  BY <1>1, <1>3, <1>4, <1>5 DEF Run

\* Whatever edges a reader has lost and whether its wait completed or ran out, at any edge:
\* if the last bit was heard, the search would find the meaning of every frame that
\* has one, for bytes of any size, and if not, no edge was lost.
THEOREM SoundFramesFound == Spec => []SoundFramesDecode
<1>1. ASSUME NEW k, NEW n, Whole(k, n) PROVE <<k, n>> \notin Misread
  <2> SUFFICES ASSUME NEW c \in Case, ~Right(c), <<c[2], c[3]>> = <<k, n>> PROVE FALSE
    BY DEF Misread
  <2>1. c[1] \in Frame /\ Sound(c[1]) /\ c[2] = k /\ c[3] = n
    BY DEF Case
  <2>q. QED
    BY <1>1, <2>1, SoundFound DEF Right
<1>2. IInv /\ EdgesInv => SoundFramesDecode
  <2> SUFFICES ASSUME IInv, EdgesInv, NEW r \in Reader, pc[r] = "decode"
               PROVE  \E k \in 0..2 :
                        /\ IF whole
                             THEN k + num_edges \in
                                    {DHT11_EDGES_PER_READ, DHT11_EDGES_PER_READ + 1}
                             ELSE k = 0 /\ num_edges = DHT11_EDGES_PER_READ - 1
                        /\ edges = Window(frame, k, num_edges)
                        /\ whole => <<k, num_edges>> \notin Misread
    BY DEF SoundFramesDecode
  <2>1. PICK k \in 0..2 :
           /\ edges = Window(frame, k, num_edges)
           /\ IF whole THEN Whole(k, num_edges)
                       ELSE k = 0 /\ num_edges = DHT11_EDGES_PER_READ - 1
    BY WholeAtDecode
  <2>2. whole => k + num_edges \in {DHT11_EDGES_PER_READ, DHT11_EDGES_PER_READ + 1}
    BY <2>1, Sizes DEF Whole, Last
  <2>3. whole => <<k, num_edges>> \notin Misread
    BY <1>1, <2>1
  <2>q. QED
    BY <2>1, <2>2, <2>3
<1>q. QED
  BY <1>2, EdgesHold, PTL

-----------------------------------------------------------------------------
(* Types.                                                                   *)

\* The edges that the sensor may send.
SentEdges == {Wave(f)[m] : f \in Frames, m \in 1..Last}

\* num_edges counts the edges stored, and the values are numbers.
StoreInv ==
  /\ edges \in Seq(SentEdges) /\ Len(edges) <= DHT11_EDGES_PER_READ
  /\ num_edges >= 0 => Len(edges) = num_edges
  /\ frame \in Frames
  /\ values \in [temperature : Int, humidity : Int]

Switches == fresh \in BOOLEAN /\ done \in BOOLEAN /\ irq \in BOOLEAN

\* Whatever is decoded, right or wrong, the bytes are numbers.
LEMMA BytesAreNumbers ==
  ASSUME NEW stored, NEW offset
  PROVE  DecodeFrame(stored, offset) \in [1..5 -> Nat]
<1> DEFINE bits == StoredBits(stored, offset)
<1>1. bits \in [0..(DHT11_BITS_PER_READ - 1) -> 0..1]
  BY DEF StoredBits
<1> HIDE DEF bits
<1>2. ASSUME NEW n \in 1..5 PROVE DecodeByte(bits, n - 1) \in Nat
  <2>1. n - 1 \in 0..4 /\ ByteBits \in 0..ByteBits
    BY FrameAssumption
  <2>2. PICK g \in [0..ByteBits -> Nat] : DecodeByte(bits, n - 1) = g[ByteBits]
    BY <1>1, <2>1, ByteSteps
  <2>q. QED
    BY <2>1, <2>2
<1>q. QED
  BY <1>2 DEF DecodeFrame, bits

\* Bytes that are numbers mean values that are numbers.
LEMMA MeaningType ==
  ASSUME NEW f \in [1..5 -> Nat]
  PROVE  Meaning(f) \in [temperature : Int, humidity : Int]
<1>1. Base \in Nat \ {0} /\ Base \div 2 \in Nat \ {0}
  <2>1. ByteBits - 1 \in Nat /\ (ByteBits - 1) + 1 = ByteBits
    BY FrameAssumption
  <2>2. 2 ^ (ByteBits - 1) \in Nat \ {0} /\ Base = 2 * 2 ^ (ByteBits - 1)
    BY <2>1, Doubling DEF Base
  <2>q. QED
    BY <2>2
<1>2. f[1] \in Nat /\ f[2] \in Nat /\ f[3] \in Nat /\ f[4] \in Nat
  OBVIOUS
<1> DEFINE high == f[3] % (Base \div 2)
           sign == IF f[3] >= Base \div 2 THEN -100 ELSE 100
<1>3. high \in Int /\ sign \in Int
  BY <1>1, <1>2
<1>4. high * Base \in Int /\ f[1] * Base \in Int
  <2> HIDE DEF high
  <2>q. QED
    BY <1>1, <1>2, <1>3
<1>5. (high * Base + f[4]) * sign \in Int /\ (f[1] * Base + f[2]) * 100 \in Int
  <2> HIDE DEF high, sign
  <2>q. QED
    BY <1>2, <1>3, <1>4
<1>q. QED
  BY <1>2, <1>5 DEF Meaning, Dht22Values, Dht11Values

\* The flags stay Boolean.
LEMMA SwitchesStep == Switches /\ [Next]_vars => Switches'
<1> SUFFICES ASSUME Switches, [Next]_vars PROVE Switches'
  OBVIOUS
<1> USE DEF Switches, device, store, sensor
<1>1. ASSUME NEW r \in Reader, Call(r) \/ Acquire(r) \/ UseValues(r) \/ RefuseClock(r)
                               \/ Start(r)
      PROVE  Switches'
  BY <1>1 DEF Call, Acquire, UseValues, RefuseClock, Start
<1>2. ASSUME NEW r \in Reader, Begin(r) PROVE Switches'
  BY <1>2 DEF Begin
<1>3. ASSUME NEW r \in Reader, RequestIrq(r) PROVE Switches'
  BY <1>3 DEF RequestIrq
<1>4. ASSUME NEW r \in Reader, Completed(r) \/ TimedOut(r) \/ Killed(r) PROVE Switches'
  BY <1>4, ZenonT(30) DEF Completed, TimedOut, Killed, Waited
<1>5. ASSUME NEW r \in Reader, FreeIrq(r) PROVE Switches'
  BY <1>5 DEF FreeIrq
<1>6. ASSUME NEW r \in Reader, DecodeEdges(r) PROVE Switches'
  BY <1>6, ZenonT(30) DEF DecodeEdges
<1>7. ASSUME NEW r \in Reader, Return(r) PROVE Switches'
  BY <1>7 DEF Return
<1>8. CASE Edge
  BY <1>8, ZenonT(30) DEF Edge
<1>9. CASE Expire
  BY <1>9 DEF Expire
<1>10. CASE UNCHANGED vars
  BY <1>10 DEF vars
<1>q. QED
  BY <1>1, <1>2, <1>3, <1>4, <1>5, <1>6, <1>7, <1>8, <1>9, <1>10 DEF Next, Read

\* The edges stored stay countable and the values numbers.
LEMMA StoreStep == IInv /\ EdgesInv /\ StoreInv /\ [Next]_vars => StoreInv'
<1> SUFFICES ASSUME IInv, EdgesInv, StoreInv, [Next]_vars PROVE StoreInv'
  OBVIOUS
<1> USE EdgesPositive DEF StoreInv, device, store, sensor
<1>1. ASSUME UNCHANGED <<num_edges, edges, frame, values>> PROVE StoreInv'
  BY <1>1
<1>2. ASSUME NEW r \in Reader,
             Call(r) \/ Acquire(r) \/ UseValues(r) \/ RefuseClock(r) \/ RequestIrq(r)
               \/ Completed(r) \/ TimedOut(r) \/ Killed(r) \/ FreeIrq(r)
      PROVE  StoreInv'
  BY <1>1, <1>2 DEF Call, Acquire, UseValues, RefuseClock, RequestIrq, Completed, TimedOut,
                    Killed, Waited, FreeIrq
<1>3. ASSUME NEW r \in Reader, Begin(r) PROVE StoreInv'
  BY <1>3 DEF Begin
<1>4. ASSUME NEW r \in Reader, Start(r) PROVE StoreInv'
  BY <1>4 DEF Start
<1>5. ASSUME NEW r \in Reader, DecodeEdges(r) PROVE StoreInv'
  <2>1. UNCHANGED <<num_edges, edges, frame>>
    BY <1>5 DEF DecodeEdges
  <2>2. values' = values \/ (values' = Search(edges).values /\ Search(edges).ok)
    BY <1>5 DEF DecodeEdges
  <2>3. Search(edges).ok => \E o : Search(edges).values = Meaning(DecodeFrame(edges, o))
    BY DEF Search
  <2>q. QED
    BY <2>1, <2>2, <2>3, BytesAreNumbers, MeaningType
<1>6. ASSUME NEW r \in Reader, Return(r) PROVE StoreInv'
  BY <1>6 DEF Return
<1>7. CASE Edge
  <2>1. UNCHANGED <<frame, values>>
    BY <1>7 DEF Edge
  <2>2. CASE Armed
    <3>1. edges' = Append(edges, Wave(frame)[sent']) /\ num_edges' = num_edges + 1
      BY <1>7, <2>2 DEF Edge
    <3>2. sent' \in 1..Last
      BY <1>7 DEF Edge, EdgesInv, Sending, Last
    <3>3. Wave(frame)[sent'] \in SentEdges
      BY <3>2 DEF SentEdges
    <3>4. num_edges \in 0..(DHT11_EDGES_PER_READ - 1) /\ Len(edges) = num_edges
      BY <2>2 DEF Armed
    <3>q. QED
      BY <2>1, <3>1, <3>3, <3>4
  <2>3. CASE ~Armed
    BY <1>7, <2>1, <2>3 DEF Edge
  <2>q. QED
    BY <2>2, <2>3
<1>8. CASE Expire
  BY <1>1, <1>8 DEF Expire
<1>9. CASE UNCHANGED vars
  BY <1>1, <1>9 DEF vars
<1>q. QED
  BY <1>2, <1>3, <1>4, <1>5, <1>6, <1>7, <1>8, <1>9 DEF Next, Read

\* They are so at first.
LEMMA StoreInit == Init => StoreInv
  BY EdgesPositive DEF Init, StoreInv, NoValues

\* Type correctness: no edge is ever stored past the end of the array, and what is
\* decoded are numbers.
THEOREM TypesHold == Spec => []TypeOK
<1>1. Init => Switches
  BY Zenon DEF Init, Switches
<1>2. IInv /\ EdgesInv /\ StoreInv /\ Switches => TypeOK
  BY DEF IInv, Types, EdgesInv, Last, StoreInv, Switches, TypeOK
<1>q. QED
  BY <1>1, <1>2, StoreInit, StoreStep, SwitchesStep, EdgesHold, PTL DEF Spec

-----------------------------------------------------------------------------
(* The promise made to readers.                                             *)

\* Taken of SensorReads.
Takeable ==
  CASE whole /\ Sound(frame) -> {frame}
    [] whole /\ ~Sound(frame) -> {frame, Shifted(frame)}
    [] ~whole -> {Shifted(frame)}

\* The values are used again only as long as they are those of what the sensor sent
\* last, as far as it can be told; a reader that measures has found that they are not.
FreshInv ==
  /\ fresh => \E f \in Takeable : ChecksumOk(f) /\ (Sound(f) => values = Meaning(f))
  /\ \A r \in Reader : pc[r] \in {"start", "request", "wait", "free", "decode"} => ~fresh

\* What the search makes of the edges of any frame.
LEMMA Answered ==
  ASSUME IInv, EdgesInv, frame \in Frames, NEW r \in Reader, pc[r] = "decode"
  PROVE  /\ FirstOffset(edges) >= 0
         /\ Search(edges).ok =>
              /\ Search(edges).stamped
              /\ \E f \in Takeable : /\ ChecksumOk(f) /\ Sound(f)
                                     /\ Search(edges).values = Meaning(f)
         /\ Search(edges).stamped /\ ~Search(edges).ok =>
              \E f \in Takeable : ChecksumOk(f) /\ ~Sound(f)
<1> DEFINE first == FirstOffset(edges)
           good == {o \in 0..first : Decode(edges, o) = "ok"}
<1>1. PICK k \in 0..2 :
         /\ edges = Window(frame, k, num_edges)
         /\ IF whole THEN Whole(k, num_edges)
                     ELSE k = 0 /\ num_edges = DHT11_EDGES_PER_READ - 1
  BY WholeAtDecode
<1>2. frame \in Frame
  BY ReaderAssumption
<1>3. first \in 0..3
  <2>1. CASE whole
    <3>1. FirstOffset(Window(frame, k, num_edges)) \in {2 - k, 3 - k}
      BY <1>1, <1>2, <2>1, RightOffset
    <3>q. QED
      BY <1>1, <3>1, <2>1, Sizes DEF Whole, FirstOffset, DHT11_EDGES_PREAMBLE
  <2>2. CASE ~whole
    <3>1. Len(edges) = num_edges /\ num_edges = DHT11_EDGES_PER_READ - 1
      BY <1>1, <2>2, WindowEdges, Sizes
    <3>q. QED
      BY <3>1, Sizes DEF FirstOffset, DHT11_EDGES_PREAMBLE
  <2>q. QED
    BY <2>1, <2>2
<1>4. CASE whole /\ Sound(frame)
  <2>1. /\ Search(edges).ok /\ Search(edges).stamped
        /\ Search(edges).values = Meaning(frame)
    BY <1>1, <1>2, <1>4, SoundFound
  <2>2. frame \in Takeable /\ ChecksumOk(frame)
    BY <1>4 DEF Takeable, Sound
  <2>q. QED
    BY <1>3, <1>4, <2>1, <2>2
<1>5. CASE ~(whole /\ Sound(frame))
  <2>1. ASSUME NEW o \in 0..first, Decode(edges, o) # "eio"
        PROVE  DecodeFrame(edges, o) \in Takeable
    <3>1. whole => DecodeFrame(edges, o) \in {frame, Shifted(frame)}
      BY <1>1, <1>2, <2>1, WholeTaken
    <3>2. ~whole => DecodeFrame(edges, o) = Shifted(frame)
      BY <1>1, <2>1, CutTaken
    <3>q. QED
      BY <1>5, <3>1, <3>2 DEF Takeable
  <2>2. ASSUME NEW o \in 0..first, Decode(edges, o) # "eio"
        PROVE  /\ ChecksumOk(DecodeFrame(edges, o))
               /\ Sound(DecodeFrame(edges, o)) <=> Decode(edges, o) = "ok"
    BY <2>2 DEF Decode
  <2> HIDE DEF first
  <2>3. ASSUME Search(edges).ok
        PROVE  /\ Max(good) \in good /\ Search(edges).stamped
               /\ Search(edges).values = Meaning(DecodeFrame(edges, Max(good)))
    <3>1. good # {}
      BY <2>3 DEF Search, first
    <3>2. good \subseteq 0..3
      BY <1>3
    <3>3. \E m \in good : \A o \in good : o <= m
      <4> HIDE DEF good
      <4>1. CASE 3 \in good
        BY <3>2, <4>1
      <4>2. CASE 3 \notin good /\ 2 \in good
        BY <3>2, <4>2
      <4>3. CASE 3 \notin good /\ 2 \notin good /\ 1 \in good
        BY <3>2, <4>3
      <4>4. CASE 3 \notin good /\ 2 \notin good /\ 1 \notin good
        <5>1. \A o \in good : o = 0
          BY <3>2, <4>4
        <5>q. QED
          BY <3>1, <5>1
      <4>q. QED
        BY <4>1, <4>2, <4>3, <4>4
    <3>4. Max(good) \in good
      BY <3>2, <3>3 DEF Max
    <3>5. Max(good) \in Max(good)..first /\ Decode(edges, Max(good)) # "eio"
      BY <1>3, <3>4
    <3>q. QED
      BY <3>1, <3>4, <3>5 DEF Search, first
  <2>4. ASSUME Search(edges).stamped, ~Search(edges).ok
        PROVE  \E o \in 0..first : Decode(edges, o) # "eio" /\ Decode(edges, o) # "ok"
    BY <1>3, <2>4 DEF Search, first
  <2>5. ASSUME Search(edges).ok
        PROVE  /\ Search(edges).stamped
               /\ \E f \in Takeable : /\ ChecksumOk(f) /\ Sound(f)
                                      /\ Search(edges).values = Meaning(f)
    <3>1. Max(good) \in 0..first /\ Decode(edges, Max(good)) = "ok"
      BY <2>3, <2>5
    <3> HIDE DEF good
    <3>2. /\ DecodeFrame(edges, Max(good)) \in Takeable
          /\ ChecksumOk(DecodeFrame(edges, Max(good)))
          /\ Sound(DecodeFrame(edges, Max(good)))
      BY <2>1, <2>2, <3>1
    <3>q. QED
      BY <2>3, <2>5, <3>2
  <2>6. ASSUME Search(edges).stamped, ~Search(edges).ok
        PROVE  \E f \in Takeable : ChecksumOk(f) /\ ~Sound(f)
    <3>1. PICK o \in 0..first : Decode(edges, o) # "eio" /\ Decode(edges, o) # "ok"
      BY <2>4, <2>6
    <3>q. QED
      BY <2>1, <2>2, <3>1
  <2>7. FirstOffset(edges) >= 0
    BY <1>3 DEF first
  <2>q. QED
    BY <2>5, <2>6, <2>7
<1>q. QED
  BY <1>4, <1>5

\* The kept values stay those of the last frame as long as they may be used.
LEMMA FreshStep ==
  IInv /\ EdgesInv /\ StoreInv /\ FreshInv /\ [Next]_vars => FreshInv'
<1> SUFFICES ASSUME IInv, EdgesInv, StoreInv, FreshInv, [Next]_vars PROVE FreshInv'
  OBVIOUS
<1>0. UNCHANGED <<frame, whole>> => Takeable' = Takeable
  BY DEF Takeable
<1> USE <1>0 DEF FreshInv, IInv, Types, Inside, Label, MutexInv, device, store, sensor, Goto
<1>1. ASSUME NEW r \in Reader, Call(r) PROVE FreshInv'
  BY <1>1 DEF Call
<1>2. ASSUME NEW r \in Reader, Acquire(r) PROVE FreshInv'
  BY <1>2 DEF Acquire
<1>3. ASSUME NEW r \in Reader, UseValues(r) PROVE FreshInv'
  BY <1>3 DEF UseValues
<1>4. ASSUME NEW r \in Reader, Begin(r) PROVE FreshInv'
  BY <1>4 DEF Begin
<1>5. ASSUME NEW r \in Reader, RefuseClock(r) PROVE FreshInv'
  BY <1>5 DEF RefuseClock
<1>6. ASSUME NEW r \in Reader, Start(r) PROVE FreshInv'
  <2>1. ~fresh' /\ (pc' = [pc EXCEPT ![r] = "request"] \/ pc' = [pc EXCEPT ![r] = "err"])
    BY <1>6 DEF Start
  <2>q. QED
    BY <2>1
<1>7. ASSUME NEW r \in Reader, RequestIrq(r) PROVE FreshInv'
  BY <1>7 DEF RequestIrq
<1>8. ASSUME NEW r \in Reader, Completed(r) \/ TimedOut(r) \/ Killed(r) PROVE FreshInv'
  BY <1>8 DEF Completed, TimedOut, Killed, Waited
<1>9. ASSUME NEW r \in Reader, FreeIrq(r) PROVE FreshInv'
  BY <1>9 DEF FreeIrq
<1>10. ASSUME NEW r \in Reader, DecodeEdges(r) PROVE FreshInv'
  <2>1. pc[r] = "decode" /\ ~fresh /\ UNCHANGED <<frame, whole>>
    BY <1>10 DEF DecodeEdges
  <2>2. pc'[r] \in {"ok", "err"} /\ \A s \in Reader : s # r => pc'[s] \in {"idle", "want"}
    <3>1. \A s \in Reader : s # r => pc'[s] = pc[s] /\ pc[s] \in {"idle", "want"}
      BY <1>10, <2>1, AloneInside DEF DecodeEdges
    <3>q. QED
      BY <1>10, <3>1 DEF DecodeEdges
  <2>3. ~(FirstOffset(edges) < 0)
    <3>1. FirstOffset(edges) >= 0 /\ FirstOffset(edges) \in Int
      BY <2>1, Answered, Sizes DEF StoreInv, FirstOffset, DHT11_EDGES_PREAMBLE
    <3>q. QED
      BY <3>1
  <2>4. (fresh' => Search(edges).stamped) /\ (Search(edges).ok => values' = Search(edges).values)
    BY <1>10, <2>1, <2>3 DEF DecodeEdges
  <2>5. fresh' => \E f \in Takeable : ChecksumOk(f) /\ (Sound(f) => values' = Meaning(f))
    <3>1. ASSUME Search(edges).ok
          PROVE  \E f \in Takeable : ChecksumOk(f) /\ (Sound(f) => values' = Meaning(f))
      BY <2>1, <2>4, <3>1, Answered DEF StoreInv
    <3>2. ASSUME fresh', ~Search(edges).ok
          PROVE  \E f \in Takeable : ChecksumOk(f) /\ (Sound(f) => values' = Meaning(f))
      BY <2>1, <2>4, <3>2, Answered DEF StoreInv
    <3>q. QED
      BY <3>1, <3>2
  <2>6. Takeable' = Takeable
    BY <1>0, <2>1
  <2>q. QED
    BY <2>1, <2>2, <2>5, <2>6
<1>11. ASSUME NEW r \in Reader, Return(r) PROVE FreshInv'
  BY <1>11 DEF Return
<1>12. CASE Edge
  BY <1>12 DEF Edge
<1>13. CASE Expire
  BY <1>13 DEF Expire
<1>14. CASE UNCHANGED vars
  BY <1>14 DEF vars
<1>q. QED
  BY <1>1, <1>2, <1>3, <1>4, <1>5, <1>6, <1>7, <1>8, <1>9, <1>10, <1>11, <1>12,
     <1>13, <1>14 DEF Next, Read

\* SensorReads has the same frames and takes the same from them.
LEMMA SameFrames ==
  /\ Sensor!Taken = Takeable
  /\ \A f : /\ Sensor!ChecksumOk(f) <=> ChecksumOk(f)
            /\ Sensor!Sound(f) <=> Sound(f)
            /\ Sensor!Meaning(f) = Meaning(f)
<1>1. Sensor!Base = Base /\ Sensor!DHT11_BITS_PER_READ = DHT11_BITS_PER_READ
  BY DEF Sensor!Base, Base, Sensor!DHT11_BITS_PER_READ, DHT11_BITS_PER_READ
<1>2. ASSUME NEW f
      PROVE  /\ Sensor!ChecksumOk(f) <=> ChecksumOk(f)
             /\ Sensor!IsDht22(f) <=> IsDht22(f)
             /\ Sensor!IsDht11(f) <=> IsDht11(f)
  BY <1>1 DEF Sensor!ChecksumOk, ChecksumOk, Sensor!IsDht22, IsDht22, Sensor!IsDht11, IsDht11
<1>3. ASSUME NEW f PROVE Sensor!Sound(f) <=> Sound(f)
  BY <1>2 DEF Sensor!Sound, Sound
<1>4. ASSUME NEW f PROVE Sensor!Meaning(f) = Meaning(f)
  <2>1. /\ Sensor!Dht22Values(f) = Dht22Values(f)
        /\ Sensor!Dht11Values(f) = Dht11Values(f)
    BY <1>1 DEF Sensor!Dht22Values, Dht22Values, Sensor!Dht11Values, Dht11Values
  <2>q. QED
    BY <1>2, <2>1 DEF Sensor!Meaning, Meaning
<1>5. Sensor!Shifted(frame) = Shifted(frame)
  BY DEF Sensor!Shifted, Shifted, Sensor!DecodeByte, DecodeByte, Sensor!FrameBit, FrameBit,
         Sensor!DHT11_BITS_PER_READ, DHT11_BITS_PER_READ
<1>6. Sensor!Taken = Takeable
  BY <1>3, <1>5 DEF Sensor!Taken, Takeable
<1>q. QED
  BY <1>2, <1>3, <1>4, <1>6

\* Each step is one of SensorReads, or none that its readers could see.
LEMMA SensorStep ==
  IInv /\ EdgesInv /\ StoreInv /\ FreshInv /\ [Next]_vars => [Sensor!Next]_(Sensor!vars)
<1> SUFFICES ASSUME IInv, EdgesInv, StoreInv, FreshInv, [Next]_vars
             PROVE  [Sensor!Next]_(Sensor!vars)
  OBVIOUS
<1> USE DEF device, store, sensor, Goto
<1> DEFINE Seen(label) == IF label \in {"idle", "ok", "err"} THEN label ELSE "reading"
<1>1. pc \in [Reader -> Label] /\ \A r \in Reader : Stage[r] = Seen(pc[r])
  BY DEF IInv, Types, Stage
<1>2. ASSUME NEW r \in Reader, NEW label, pc' = [pc EXCEPT ![r] = label]
      PROVE  Stage' = [Stage EXCEPT ![r] = Seen(label)]
  BY <1>1, <1>2 DEF Stage
<1>3. ASSUME NEW r \in Reader, NEW label, pc' = [pc EXCEPT ![r] = label],
             Seen(label) = Seen(pc[r])
      PROVE  Stage' = Stage
  <2>1. Stage' = [Stage EXCEPT ![r] = Stage[r]]
    BY <1>1, <1>2, <1>3
  <2>q. QED
    BY <2>1 DEF Stage
<1>4. ASSUME NEW r \in Reader, pc[r] \in Inside \ {"ok", "err"}
      PROVE  Sensor!NoneAnswered /\ Stage[r] = "reading"
  <2>1. \A s \in Reader : s # r => pc[s] \in {"idle", "want"}
    BY <1>4, AloneInside
  <2>q. QED
    BY <1>1, <1>4, <2>1 DEF Sensor!NoneAnswered, Inside, Label
<1> HIDE DEF Seen
<1>5. ASSUME NEW r \in Reader, pc[r] \in Inside \ {"ok", "err"}, UNCHANGED <<frame, values>>,
             whole' \in {whole, FALSE}, pc' = [pc EXCEPT ![r] = "err"]
      PROVE  Sensor!Fail(r)
  <2>1. Stage' = [Stage EXCEPT ![r] = "err"]
    BY <1>2, <1>5 DEF Seen
  <2>q. QED
    BY <1>4, <1>5, <2>1 DEF Sensor!Fail, Sensor!Goto
<1>6. ASSUME NEW r \in Reader, pc[r] \in Inside \ {"ok", "err"}, UNCHANGED <<frame, whole>>,
             pc' = [pc EXCEPT ![r] = "ok"],
             NEW f \in Takeable, ChecksumOk(f),
             values' = IF Sound(f) THEN Meaning(f) ELSE values
      PROVE  Sensor!Succeed(r)
  <2>1. Stage' = [Stage EXCEPT ![r] = "ok"]
    BY <1>2, <1>6 DEF Seen
  <2>2. f \in Sensor!Taken /\ Sensor!ChecksumOk(f)
        /\ values' = IF Sensor!Sound(f) THEN Sensor!Meaning(f) ELSE values
    BY <1>6, SameFrames
  <2>q. QED
    BY <1>4, <1>6, <2>1, <2>2 DEF Sensor!Succeed, Sensor!Goto
<1>7. ASSUME UNCHANGED <<pc, frame, whole, values>> PROVE UNCHANGED Sensor!vars
  BY <1>7 DEF Stage, Sensor!vars
<1>8. ASSUME NEW r \in Reader, NEW label, pc' = [pc EXCEPT ![r] = label],
             UNCHANGED <<frame, whole, values>>, Seen(label) = Seen(pc[r])
      PROVE  UNCHANGED Sensor!vars
  BY <1>3, <1>8 DEF Sensor!vars
<1>9. ASSUME NEW r \in Reader, Call(r) PROVE Sensor!Call(r)
  <2>1. pc[r] = "idle" /\ pc' = [pc EXCEPT ![r] = "want"] /\ UNCHANGED <<frame, whole, values>>
    BY <1>9 DEF Call
  <2>2. Stage[r] = "idle" /\ Stage' = [Stage EXCEPT ![r] = "reading"]
    BY <1>1, <1>2, <2>1 DEF Seen
  <2>q. QED
    BY <2>1, <2>2 DEF Sensor!Call, Sensor!Goto
<1>10. ASSUME NEW r \in Reader, Acquire(r) \/ Begin(r) PROVE UNCHANGED Sensor!vars
  BY <1>8, <1>10 DEF Acquire, Begin, Seen
<1>11. ASSUME NEW r \in Reader, UseValues(r) PROVE Sensor!Succeed(r)
  <2>1. /\ pc[r] = "check" /\ fresh /\ UNCHANGED <<frame, whole, values>>
        /\ pc' = [pc EXCEPT ![r] = "ok"] /\ pc[r] \in Inside \ {"ok", "err"}
    BY <1>11 DEF UseValues, Inside, Label
  <2>2. PICK f \in Takeable : ChecksumOk(f) /\ (Sound(f) => values = Meaning(f))
    BY <2>1 DEF FreshInv
  <2>3. values' = IF Sound(f) THEN Meaning(f) ELSE values
    BY <2>1, <2>2
  <2>q. QED
    BY <1>6, <2>1, <2>2, <2>3
<1>12. ASSUME NEW r \in Reader, RefuseClock(r) PROVE Sensor!Fail(r)
  BY <1>5, <1>12 DEF RefuseClock, Inside, Label
<1>13. ASSUME NEW r \in Reader, Start(r) PROVE Sensor!Measure \/ Sensor!Fail(r)
  <2>1. pc[r] = "start" /\ pc[r] \in Inside \ {"ok", "err"}
    BY <1>13 DEF Start, Inside, Label
  <2>2. CASE /\ pc' = [pc EXCEPT ![r] = "request"] /\ frame' \in Frames /\ whole' = TRUE
            /\ UNCHANGED values
    <3>1. Stage' = Stage
      BY <1>3, <2>1, <2>2 DEF Seen
    <3>q. QED
      BY <1>4, <2>1, <2>2, <3>1 DEF Sensor!Measure
  <2>3. CASE pc' = [pc EXCEPT ![r] = "err"] /\ UNCHANGED <<frame, whole, values>>
    BY <1>5, <2>1, <2>3
  <2>q. QED
    BY <1>13, <2>2, <2>3 DEF Start
<1>14. ASSUME NEW r \in Reader, RequestIrq(r) PROVE UNCHANGED Sensor!vars \/ Sensor!Fail(r)
  <2>1. /\ pc[r] = "request" /\ pc[r] \in Inside \ {"ok", "err"} /\ UNCHANGED <<frame, whole, values>>
        /\ pc' = [pc EXCEPT ![r] = "wait"] \/ pc' = [pc EXCEPT ![r] = "err"]
    BY <1>14 DEF RequestIrq, Inside, Label
  <2>q. QED
    BY <1>5, <1>8, <2>1 DEF Seen
<1>15. ASSUME NEW r \in Reader, Completed(r) \/ TimedOut(r) \/ Killed(r)
       PROVE  UNCHANGED Sensor!vars
  BY <1>8, <1>15 DEF Completed, TimedOut, Killed, Waited, Seen
<1>16. ASSUME NEW r \in Reader, FreeIrq(r)
       PROVE  UNCHANGED Sensor!vars \/ Sensor!Cut \/ Sensor!Fail(r)
  <2>1. /\ pc[r] = "free" /\ pc[r] \in Inside \ {"ok", "err"} /\ UNCHANGED <<frame, values>>
        /\ pc' = [pc EXCEPT ![r] = "decode"] \/ pc' = [pc EXCEPT ![r] = "err"]
    BY <1>16 DEF FreeIrq, Inside, Label
  <2>2. whole = TRUE /\ whole' \in {whole, FALSE}
    <3>1. whole' = (sent >= DHT11_EDGES_PER_READ)
      BY <1>16 DEF FreeIrq, Hear
    <3>2. whole = TRUE
      BY <2>1 DEF EdgesInv
    <3>3. whole' \in BOOLEAN
      BY <3>1
    <3>q. QED
      BY <3>2, <3>3
  <2>3. CASE pc' = [pc EXCEPT ![r] = "err"]
    BY <1>5, <2>1, <2>2, <2>3
  <2>4. CASE pc' = [pc EXCEPT ![r] = "decode"]
    <3>1. Stage' = Stage
      BY <1>3, <2>1, <2>4 DEF Seen
    <3>2. CASE whole' = whole
      BY <2>1, <3>1, <3>2 DEF Sensor!vars
    <3>3. CASE whole' = FALSE
      BY <1>4, <2>1, <3>1, <3>3 DEF Sensor!Cut
    <3>q. QED
      BY <2>2, <3>2, <3>3
  <2>q. QED
    BY <2>1, <2>3, <2>4
<1>17. ASSUME NEW r \in Reader, DecodeEdges(r) PROVE Sensor!Succeed(r) \/ Sensor!Fail(r)
  <2>1. pc[r] = "decode" /\ pc[r] \in Inside \ {"ok", "err"} /\ UNCHANGED <<frame, whole>>
    BY <1>17 DEF DecodeEdges, Inside, Label
  <2>2. ~(FirstOffset(edges) < 0)
    <3>1. FirstOffset(edges) >= 0 /\ FirstOffset(edges) \in Int
      BY <2>1, Answered, Sizes DEF StoreInv, FirstOffset, DHT11_EDGES_PREAMBLE
    <3>q. QED
      BY <3>1
  <2>3. CASE Search(edges).ok
    <3>1. pc' = [pc EXCEPT ![r] = "ok"] /\ values' = Search(edges).values
      BY <1>17, <2>2, <2>3 DEF DecodeEdges
    <3>2. PICK f \in Takeable :
             ChecksumOk(f) /\ Sound(f) /\ Search(edges).values = Meaning(f)
      BY <2>1, <2>3, Answered DEF StoreInv
    <3>3. values' = IF Sound(f) THEN Meaning(f) ELSE values
      BY <3>1, <3>2
    <3>q. QED
      BY <1>6, <2>1, <3>1, <3>2, <3>3
  <2>4. CASE ~Search(edges).ok
    <3>1. pc' = [pc EXCEPT ![r] = "err"] /\ values' = values
      BY <1>17, <2>2, <2>4 DEF DecodeEdges
    <3>q. QED
      BY <1>5, <2>1, <3>1
  <2>q. QED
    BY <2>3, <2>4
<1>18. ASSUME NEW r \in Reader, Return(r) PROVE Sensor!Return(r)
  <2>1. pc[r] \in {"ok", "err"} /\ pc' = [pc EXCEPT ![r] = "idle"] /\ UNCHANGED <<frame, whole, values>>
    BY <1>18 DEF Return
  <2>2. Stage[r] \in {"ok", "err"} /\ Stage' = [Stage EXCEPT ![r] = "idle"]
    BY <1>1, <1>2, <2>1 DEF Seen
  <2>q. QED
    BY <2>1, <2>2 DEF Sensor!Return, Sensor!Goto
<1>19. CASE Edge \/ Expire \/ UNCHANGED vars
  BY <1>7, <1>19 DEF Edge, Expire, vars
<1>q. QED
  BY <1>9, <1>10, <1>11, <1>12, <1>13, <1>14, <1>15, <1>16, <1>17, <1>18, <1>19
     DEF Next, Read, Sensor!Next

\* The driver implements SensorReads for any readers, any frames and a sensor that may stop
\* anywhere: a read that succeeds, from the sensor or from the values of an earlier read,
\* returns what the sensor sent last if that is sound and came to its end, or one of the
\* other answers that SensorReads names, and nobody starts the sensor before that
\* answer is returned.
THEOREM SensorImplemented == Spec => SensorSpec
<1>1. Init => StoreInv /\ FreshInv /\ Sensor!Init
  BY StoreInit DEF Init, FreshInv, Sensor!Init, Stage, NoValues
<1>2. IInv /\ EdgesInv /\ StoreInv /\ FreshInv /\ [Next]_vars => FreshInv'
  BY FreshStep
<1>3. IInv /\ EdgesInv /\ StoreInv /\ FreshInv /\ [Next]_vars => [Sensor!Next]_(Sensor!vars)
  BY SensorStep
<1>q. QED
  BY <1>1, <1>2, <1>3, StoreStep, EdgesHold, PTL DEF Spec, SensorSpec, Sensor!Spec

=============================================================================
