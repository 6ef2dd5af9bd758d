---------------------------- MODULE Dht11kmProofs ----------------------------
(***************************************************************************)
(* For any number of processes and tries and bytes of any size: until a    *)
(* process passes the test of Device_Open while another is between its     *)
(* test and its increment, the unlocked counter keeps the device to one    *)
(* opener, however opens and closes race, and the retries make up for what *)
(* those who close take away; processes that come one after the other      *)
(* leave the interrupt as they found it and read "OK" only with the bytes  *)
(* that the sensor sent for them.                                          *)
(***************************************************************************)
EXTENDS Dht11km, FiniteSetTheorems, TLAPS

\* The types the argument needs.
Types ==
  /\ Device_Open \in Int
  /\ pc \in [Proc -> Label]
  /\ seen \in [Proc -> Int]

\* One process at most has passed the test, on its way to the increment or beyond.
Exclusive ==
  \A p, q \in Proc : pc[p] \in Counted \cup Incrementing /\ pc[q] \in Counted \cup Incrementing
                      => p = q

\* The counter and the copies of it that are about to be stored.
Copies ==
  /\ Device_Open \in {0, 1}
  /\ Device_Open = 1 <=> \E p \in Proc : pc[p] \in Counted
  /\ \A p \in Proc : pc[p] = "store" => seen[p] = 0
  /\ \A p \in Proc : pc[p] = "drop" => seen[p] = 1

\* Neither is ever mended once two processes have met at the test.
IInv == Types /\ (~met => Exclusive /\ Copies)

\* That they met is not forgotten.
LEMMA MetStays == [Next]_vars /\ ~met' => ~met
<1>1. ASSUME NEW p \in Proc, Check(p), ~met' PROVE ~met
  BY <1>1, Zenon DEF Check
<1>2. ASSUME Edge \/ UNCHANGED vars PROVE met' = met
  BY <1>2 DEF Edge, vars, history
<1>3. ASSUME NEW p \in Proc,
             \/ Call(p) \/ Load(p) \/ Store(p) \/ Reset(p) \/ Release(p) \/ Setup(p)
             \/ Enable(p) \/ Reply(p) \/ Close(p) \/ Drop(p) \/ Toggle(p) \/ Free(p)
      PROVE  met' = met
  BY <1>3 DEF Call, Load, Store, Reset, Release, Setup, Enable, Reply, Close, Drop, Toggle,
              Free, history
<1>q. QED
  BY <1>1, <1>2, <1>3 DEF Next, Step

\* Every step keeps the count and the exclusion.
LEMMA IInvStep == IInv /\ [Next]_vars => IInv'
<1> SUFFICES ASSUME IInv, [Next]_vars PROVE IInv'
  OBVIOUS
<1>0. ~met' => ~met
  BY MetStays
<1> USE DEF IInv, Types, Exclusive, Copies, Counted, Incrementing, Label, Opening, Clearing,
            Goto, locals
<1>1. CASE Edge
  BY <1>0, <1>1 DEF Edge
<1>2. ASSUME NEW p \in Proc, Call(p) PROVE IInv'
  BY <1>0, <1>2 DEF Call
<1>3. ASSUME NEW p \in Proc, Check(p) PROVE IInv'
  <2>1. /\ pc[p] = "check" /\ UNCHANGED <<Device_Open, seen>>
        /\ \/ pc' = [pc EXCEPT ![p] = "closed"]
           \/ Device_Open = 0 /\ pc' = [pc EXCEPT ![p] = "load"]
    BY <1>3 DEF Check
  <2>2. pc' = [pc EXCEPT ![p] = "load"] /\ ~met' => ~Meets(p)
    <3> SUFFICES ASSUME pc'[p] = "load", ~met' PROVE ~Meets(p)
      OBVIOUS
    <3>1. CASE Device_Open # 0
      BY <1>3, <3>1 DEF Check
    <3>2. CASE Device_Open = 0
      BY <1>3, <3>2, Zenon DEF Check
    <3>q. QED
      BY <3>1, <3>2
  <2>q. QED
    BY <1>0, <2>1, <2>2 DEF Meets
<1>4. ASSUME NEW p \in Proc, Load(p) PROVE IInv'
  BY <1>0, <1>4 DEF Load
<1>5. ASSUME NEW p \in Proc, Store(p) PROVE IInv'
  BY <1>0, <1>5 DEF Store
<1>6. ASSUME NEW p \in Proc, Reset(p) PROVE IInv'
  BY <1>0, <1>6 DEF Reset
<1>7. ASSUME NEW p \in Proc, Release(p) PROVE IInv'
  BY <1>0, <1>7 DEF Release
<1>8. ASSUME NEW p \in Proc, Setup(p) PROVE IInv'
  BY <1>0, <1>8 DEF Setup
<1>9. ASSUME NEW p \in Proc, Enable(p) PROVE IInv'
  BY <1>0, <1>9 DEF Enable
<1>10. ASSUME NEW p \in Proc, Reply(p) PROVE IInv'
  BY <1>0, <1>10 DEF Reply, Answer, Retry
<1>11. ASSUME NEW p \in Proc, Close(p) PROVE IInv'
  BY <1>0, <1>11 DEF Close
<1>12. ASSUME NEW p \in Proc, Drop(p) PROVE IInv'
  BY <1>0, <1>12 DEF Drop
<1>13. ASSUME NEW p \in Proc, Toggle(p) PROVE IInv'
  BY <1>0, <1>13 DEF Toggle
<1>14. ASSUME NEW p \in Proc, Free(p) PROVE IInv'
  BY <1>0, <1>14 DEF Free
<1>15. CASE UNCHANGED vars
  BY <1>0, <1>15 DEF vars
<1>q. QED
  BY <1>1, <1>2, <1>3, <1>4, <1>5, <1>6, <1>7, <1>8, <1>9, <1>10, <1>11, <1>12, <1>13,
     <1>14, <1>15 DEF Next, Step

\* At first nobody has the device,
LEMMA IInvInit == Init => IInv
  BY DEF Init, IInv, Types, Exclusive, Copies, Counted, Incrementing, Label, Opening, Clearing

\* and the count is right until two processes meet at the test.
LEMMA IInvHolds == Spec => []IInv
  BY IInvInit, IInvStep, PTL DEF Spec

\* Whatever races with what, Device_Open counts the processes that hold the device, and
\* that is one at most, as long as no process has passed the test between another's test
\* and its increment: opens that overlap in any other way, and closes, do no harm.
THEOREM OpensCounted == Spec => []OpenCounts
<1>1. IInv => OpenCounts
  <2> SUFFICES ASSUME IInv, ~met PROVE OpenCounts
    BY DEF OpenCounts
  <2> DEFINE Holders == {p \in Proc : pc[p] \in Counted}
  <2>1. CASE Holders = {}
    <3>1. Cardinality(Holders) = 0
      BY <2>1, FS_EmptySet
    <3>2. Device_Open = 0
      BY <2>1 DEF IInv, Copies
    <3>q. QED
      BY <3>1, <3>2 DEF OpenCounts
  <2>2. CASE Holders # {}
    <3>1. PICK p \in Proc : pc[p] \in Counted
      BY <2>2
    <3>2. Holders = {p}
      BY <3>1 DEF IInv, Exclusive
    <3>3. Cardinality(Holders) = 1
      BY <3>2, FS_Singleton
    <3>4. Device_Open = 1
      BY <3>1 DEF IInv, Copies
    <3>q. QED
      BY <3>3, <3>4 DEF OpenCounts
  <2>q. QED
    BY <2>1, <2>2
<1>2. Spec => []IInv
  BY IInvHolds
<1>q. QED
  BY <1>1, <1>2, PTL

-----------------------------------------------------------------------------
(* The interrupt, for processes that come one after the other.              *)

\* One process at most has anything to do with the device.
Alone == race = "none" =>
  \A p, q \in Proc : pc[p] # "closed" /\ pc[q] # "closed" => p = q

Undetected == Opening \cup {"reset", "release", "setup"}
Detected   == {"reply", "opened", "drop", "toggle", "retoggle"}

\* What clear_interrupts and setup_interrupts have left at each step: the exclusive or
\* always meets a detection that is on.
Toggled == race = "none" =>
  /\ \A p \in Proc :
       /\ pc[p] \in Undetected => ~detect /\ ~handler
       /\ pc[p] = "enable" => ~detect /\ handler
       /\ pc[p] \in Detected => detect /\ handler
       /\ pc[p] \in {"free", "refree"} => ~detect /\ handler
  /\ (\A p \in Proc : pc[p] = "closed") => ~detect /\ ~handler

IrqInv == pc \in [Proc -> Label] /\ Alone /\ Toggled

\* Every step keeps detection and handler as the step of the only process demands.
LEMMA IrqInvStep == ~IrqTaken /\ IrqInv /\ [Next]_vars => IrqInv'
<1> SUFFICES ASSUME ~IrqTaken, IrqInv, [Next]_vars PROVE IrqInv'
  OBVIOUS
<1> USE DEF IrqInv, Alone, Toggled, Undetected, Detected, Label, Opening, Clearing, Goto,
            gpio, locals, history
<1>1. CASE Edge
  BY <1>1 DEF Edge
<1>2. ASSUME NEW p \in Proc, Call(p) PROVE IrqInv'
  BY <1>2 DEF Call
<1>3. ASSUME NEW p \in Proc, Check(p) PROVE IrqInv'
  BY <1>3 DEF Check
<1>4. ASSUME NEW p \in Proc, Load(p) PROVE IrqInv'
  BY <1>4 DEF Load
<1>5. ASSUME NEW p \in Proc, Store(p) PROVE IrqInv'
  BY <1>5 DEF Store
<1>6. ASSUME NEW p \in Proc, Reset(p) PROVE IrqInv'
  BY <1>6 DEF Reset
<1>7. ASSUME NEW p \in Proc, Release(p) PROVE IrqInv'
  BY <1>7 DEF Release
<1>8. ASSUME NEW p \in Proc, Setup(p) PROVE IrqInv'
  BY <1>8 DEF Setup
<1>9. ASSUME NEW p \in Proc, Enable(p) PROVE IrqInv'
  BY <1>9 DEF Enable
<1>10. ASSUME NEW p \in Proc, Reply(p) PROVE IrqInv'
  BY <1>10 DEF Reply, Answer, Retry
<1>11. ASSUME NEW p \in Proc, Close(p) PROVE IrqInv'
  BY <1>11 DEF Close
<1>12. ASSUME NEW p \in Proc, Drop(p) PROVE IrqInv'
  BY <1>12 DEF Drop
<1>13. ASSUME NEW p \in Proc, Toggle(p) PROVE IrqInv'
  BY <1>13 DEF Toggle
<1>14. ASSUME NEW p \in Proc, Free(p) PROVE IrqInv'
  BY <1>14 DEF Free
<1>15. CASE UNCHANGED vars
  BY <1>15 DEF vars
<1>q. QED
  BY <1>1, <1>2, <1>3, <1>4, <1>5, <1>6, <1>7, <1>8, <1>9, <1>10, <1>11, <1>12, <1>13,
     <1>14, <1>15 DEF Next, Step

\* Unless another driver owns the interrupt, a closed device detects no edges and owns
\* no interrupt, and an open one does both, for any number of tries.
THEOREM IrqQuiet == ASSUME ~IrqTaken PROVE Spec => []QuietWhenClosed
<1>1. Init => IrqInv
  BY DEF Init, IrqInv, Alone, Toggled, Undetected, Detected, Label, Opening, Clearing
<1>2. IrqInv /\ [Next]_vars => IrqInv'
  BY IrqInvStep
<1>3. IrqInv => QuietWhenClosed
  BY DEF IrqInv, Toggled, Detected, QuietWhenClosed
<1>q. QED
  BY <1>1, <1>2, <1>3, PTL DEF Spec

-----------------------------------------------------------------------------
(* Numbers.                                                                 *)

\* 2 ^ n counts the subsets of 1..n.
LEMMA Subsets ==
  ASSUME NEW n \in Nat
  PROVE  /\ IsFiniteSet(SUBSET (1..n)) /\ Cardinality(SUBSET (1..n)) = 2 ^ n
         /\ 2 ^ n \in Nat
<1>1. IsFiniteSet(1..n) /\ Cardinality(1..n) = n
  BY FS_Interval
<1>2. IsFiniteSet(SUBSET (1..n)) /\ Cardinality(SUBSET (1..n)) = 2 ^ n
  BY <1>1, FS_SUBSET
<1>q. QED
  BY <1>2, FS_CardinalityType

\* Powers of two, as the numbers of subsets that they count.
LEMMA Doubling ==
  ASSUME NEW n \in Nat
  PROVE  2 ^ n \in Nat \ {0} /\ 2 ^ (n + 1) = 2 * 2 ^ n /\ 2 ^ 0 = 1
<1> DEFINE A == SUBSET (1..n)
           B == {T \cup {n + 1} : T \in A}
           f == [T \in A |-> T \cup {n + 1}]
<1>1. SUBSET (1..(n + 1)) = A \cup B
  <2>1. 1..(n + 1) = (1..n) \cup {n + 1}
    OBVIOUS
  <2>2. ASSUME NEW T \in SUBSET (1..(n + 1)), n + 1 \in T PROVE T \in B
    <3>1. T \ {n + 1} \in A /\ (T \ {n + 1}) \cup {n + 1} = T
      BY <2>1, <2>2
    <3>q. QED
      BY <3>1
  <2>q. QED
    BY <2>1, <2>2
<1>2. A \cap B = {}
  OBVIOUS
<1>3. f \in [A -> B]
  OBVIOUS
<1>4. \A T, U \in A : T \cup {n + 1} = U \cup {n + 1} => T = U
  <2>1. n + 1 \notin 1..n
    OBVIOUS
  <2>q. QED
    BY <2>1
<1>5. ExistsBijection(A, B)
  <2>1. f \in Injection(A, B)
    BY <1>3, <1>4 DEF Injection, IsInjective
  <2>2. f \in Surjection(A, B)
    BY <1>3 DEF Surjection
  <2>q. QED
    BY <2>1, <2>2 DEF ExistsBijection, Bijection
<1>6. IsFiniteSet(A) /\ Cardinality(A) = 2 ^ n /\ 2 ^ n \in Nat
  BY Subsets
<1>7. A # {}
  OBVIOUS
<1> HIDE DEF A, B, f
<1>8. Cardinality(A \cup B) = 2 ^ (n + 1) /\ 2 ^ (n + 1) \in Nat
  <2>1. n + 1 \in Nat
    OBVIOUS
  <2>2. Cardinality(SUBSET (1..(n + 1))) = 2 ^ (n + 1) /\ 2 ^ (n + 1) \in Nat
    BY <2>1, Subsets
  <2>q. QED
    BY <1>1, <2>2
<1>9. IsFiniteSet(B) /\ Cardinality(B) = 2 ^ n
  BY <1>5, <1>6, FS_Bijection
<1>10. Cardinality(A \cup B) = 2 ^ n + 2 ^ n - 0
  BY <1>2, <1>6, <1>9, FS_Union, FS_EmptySet
<1>11. 2 ^ n # 0
  BY <1>6, <1>7, FS_EmptySet
<1>q. QED
  BY <1>6, <1>8, <1>10, <1>11

\* Quotient and remainder are unique.
LEMMA DivUnique ==
  ASSUME NEW e \in Nat \ {0}, NEW a \in Nat, NEW s \in 0..(e - 1)
  PROVE  (e * a + s) \div e = a /\ (e * a + s) % e = s
  OBVIOUS

\* Each bit more of a quotient doubles it.
LEMMA Halve ==
  ASSUME NEW x \in Nat, NEW d \in Nat \ {0}
  PROVE  x \div d = 2 * (x \div (2 * d)) + ((x \div d) % 2)
  OBVIOUS

-----------------------------------------------------------------------------
(* What the handler has received.                                           *)

\* The value of the bit that came last, and of the lowest bit of a byte at the end.
Unit == 2 ^ (ByteBits - bitcount)

\* Nothing is beyond the byte that is being received, and what is still missing of it
\* fits into it.
ReceivedInv ==
  /\ started \in BOOLEAN /\ bitcount \in 0..(ByteBits - 1) /\ bytecount \in Nat
  /\ dht \in [1..5 -> Nat]
  /\ \A n \in 1..5 :
       /\ n <= bytecount => dht[n] <= 2 ^ ByteBits - 1
       /\ n = bytecount + 1 => dht[n] + Unit <= 2 ^ ByteBits
       /\ n > bytecount + 1 => dht[n] = 0

\* A byte has a bit at least, and each bit is worth twice the next one.
LEMMA Units ==
  /\ ByteBits \in Nat \ {0} /\ 2 ^ ByteBits \in Nat \ {0}
  /\ \A b \in 0..(ByteBits - 1) :
       /\ 2 ^ (ByteBits - 1 - b) \in Nat \ {0}
       /\ 2 ^ (ByteBits - b) = 2 * 2 ^ (ByteBits - 1 - b)
       /\ b + 1 = ByteBits => 2 ^ (ByteBits - 1 - b) = 1
<1>1. ByteBits \in Nat \ {0}
  BY KmAssumption
<1>2. ASSUME NEW b \in 0..(ByteBits - 1)
      PROVE  /\ ByteBits - 1 - b \in Nat /\ ByteBits - b = (ByteBits - 1 - b) + 1
             /\ b + 1 = ByteBits => ByteBits - 1 - b = 0
  BY <1>1
<1>3. 2 ^ ByteBits \in Nat \ {0}
  BY <1>1, Doubling
<1>4. ASSUME NEW b \in 0..(ByteBits - 1)
      PROVE  /\ 2 ^ (ByteBits - 1 - b) \in Nat \ {0}
             /\ 2 ^ (ByteBits - b) = 2 * 2 ^ (ByteBits - 1 - b)
             /\ b + 1 = ByteBits => 2 ^ (ByteBits - 1 - b) = 1
  <2>1. /\ 2 ^ (ByteBits - 1 - b) \in Nat \ {0}
        /\ 2 ^ ((ByteBits - 1 - b) + 1) = 2 * 2 ^ (ByteBits - 1 - b)
    BY <1>2, Doubling
  <2>2. b + 1 = ByteBits => 2 ^ (ByteBits - 1 - b) = 1
    BY <1>2, Doubling
  <2>q. QED
    BY <1>2, <2>1, <2>2
<1>q. QED
  BY <1>1, <1>3, <1>4

\* What NextBit makes of the place value.
LEMMA NextUnit ==
  ASSUME ReceivedInv, NextBit
  PROVE  /\ bitcount' \in 0..(ByteBits - 1) /\ bytecount' \in Nat
         /\ \/ /\ bytecount' = bytecount + 1 /\ bitcount' = 0 /\ bitcount + 1 = ByteBits
               /\ Unit = 2 /\ Unit' = 2 ^ ByteBits /\ 2 ^ (ByteBits - 1 - bitcount) = 1
            \/ /\ bytecount' = bytecount /\ bitcount' = bitcount + 1
               /\ Unit' = 2 ^ (ByteBits - 1 - bitcount) /\ Unit = 2 * Unit'
<1>1. ByteBits \in Nat \ {0} /\ bitcount \in 0..(ByteBits - 1) /\ bytecount \in Nat
  BY Units DEF ReceivedInv
<1>2. CASE bitcount + 1 = ByteBits
  <2>1. bitcount' = 0 /\ bytecount' = bytecount + 1
    BY <1>2 DEF NextBit
  <2>2. ByteBits - bitcount' = ByteBits
    BY <1>1, <2>1
  <2>3. Unit' = 2 ^ ByteBits
    BY <2>2 DEF Unit
  <2>4. Unit = 2 /\ 2 ^ (ByteBits - 1 - bitcount) = 1
    BY <1>1, <1>2, Units DEF Unit
  <2>q. QED
    BY <1>1, <1>2, <2>1, <2>3, <2>4
<1>3. CASE bitcount + 1 # ByteBits
  <2>1. bitcount' = bitcount + 1 /\ bytecount' = bytecount
    BY <1>3 DEF NextBit
  <2>2. ByteBits - bitcount' = ByteBits - 1 - bitcount
    BY <1>1, <2>1
  <2>3. Unit' = 2 ^ (ByteBits - 1 - bitcount)
    BY <2>2 DEF Unit
  <2>4. Unit = 2 * Unit'
    BY <1>1, <2>3, Units DEF Unit
  <2>q. QED
    BY <1>1, <1>3, <2>1, <2>3, <2>4
<1>q. QED
  BY <1>2, <1>3

\* A bit, taken or not, leaves room for the rest of its byte.
LEMMA BitReceived ==
  ASSUME ReceivedInv, NextBit, UNCHANGED started, dht' = dht \/ dht' = WithBit
  PROVE  ReceivedInv'
<1> DEFINE bit == 2 ^ (ByteBits - 1 - bitcount)
<1>1. /\ bit \in Nat \ {0} /\ Unit = 2 * bit /\ 2 ^ ByteBits \in Nat \ {0}
      /\ bytecount \in Nat /\ dht \in [1..5 -> Nat]
  BY Units DEF ReceivedInv, Unit
<1>2. /\ bitcount' \in 0..(ByteBits - 1) /\ bytecount' \in Nat
      /\ \/ bytecount' = bytecount + 1 /\ Unit' = 2 ^ ByteBits /\ bit = 1
         \/ bytecount' = bytecount /\ Unit' = bit
  BY NextUnit
<1>3. /\ dht' \in [1..5 -> Nat]
      /\ \A n \in 1..5 : /\ n # bytecount + 1 => dht'[n] = dht[n]
                         /\ n = bytecount + 1 => dht'[n] <= dht[n] + bit
  <2>1. CASE dht' = dht
    BY <1>1, <2>1
  <2>2. CASE dht' = WithBit /\ bytecount < 5
    <3>1. dht' = [dht EXCEPT ![bytecount + 1] = @ + bit]
      BY <2>2 DEF WithBit
    <3> HIDE DEF bit
    <3>2. bytecount + 1 \in 1..5 /\ dht[bytecount + 1] + bit \in Nat
      BY <1>1, <2>2
    <3>q. QED
      BY <1>1, <3>1, <3>2
  <2>3. CASE dht' = WithBit /\ ~(bytecount < 5)
    BY <1>1, <2>3 DEF WithBit
  <2>q. QED
    BY <2>1, <2>2, <2>3
<1>4. ASSUME NEW n \in 1..5
      PROVE  /\ n <= bytecount' => dht'[n] <= 2 ^ ByteBits - 1
             /\ n = bytecount' + 1 => dht'[n] + Unit' <= 2 ^ ByteBits
             /\ n > bytecount' + 1 => dht'[n] = 0
  <2>1. /\ n <= bytecount => dht[n] <= 2 ^ ByteBits - 1
        /\ n = bytecount + 1 => dht[n] + Unit <= 2 ^ ByteBits
        /\ n > bytecount + 1 => dht[n] = 0
        /\ dht[n] \in Nat /\ dht'[n] \in Nat
    BY <1>1, <1>3 DEF ReceivedInv
  <2> DEFINE all == 2 ^ ByteBits
             old == Unit
             new == Unit'
  <2> HIDE DEF bit, all, old, new
  <2>2. /\ n <= bytecount => dht[n] <= all - 1
        /\ n = bytecount + 1 => dht[n] + old <= all
        /\ n > bytecount + 1 => dht[n] = 0
        /\ all \in Nat /\ old = 2 * bit
        /\ \/ bytecount' = bytecount + 1 /\ new = all /\ bit = 1
           \/ bytecount' = bytecount /\ new = bit
    BY <1>1, <1>2, <2>1 DEF all, old, new
  <2>3. /\ n # bytecount + 1 => dht'[n] = dht[n]
        /\ n = bytecount + 1 => dht'[n] <= dht[n] + bit
    BY <1>3
  <2>4. /\ n <= bytecount' => dht'[n] <= all - 1
        /\ n = bytecount' + 1 => dht'[n] + new <= all
        /\ n > bytecount' + 1 => dht'[n] = 0
    BY <1>1, <2>1, <2>2, <2>3
  <2>q. QED
    BY <2>4 DEF all, new
<1>5. started' \in BOOLEAN
  BY DEF ReceivedInv
<1>q. QED
  BY <1>2, <1>3, <1>4, <1>5 DEF ReceivedInv

\* An edge brings a bit, or changes at most `started'.
LEMMA EdgeReceives ==
  ASSUME Edge
  PROVE  \/ /\ NextBit /\ UNCHANGED started /\ (dht' = dht \/ dht' = WithBit)
            /\ started /\ Level(sent') = 0 /\ Capped(elapsed + Pulse(sent')) <= 80
         \/ /\ UNCHANGED <<bitcount, bytecount, dht>>
            /\ started' \in BOOLEAN \/ started' = started
<1>1. CASE detect /\ handler
  <2> DEFINE data == Capped(elapsed + Pulse(sent'))
             level == Level(sent')
  <2>1. Receive(level, data)
    BY <1>1 DEF Edge, Interrupt
  <2> HIDE DEF data, level
  <2>2. \/ /\ NextBit /\ UNCHANGED started /\ (dht' = dht \/ dht' = WithBit)
           /\ started /\ level = 0 /\ data <= 80
        \/ /\ UNCHANGED <<bitcount, bytecount, dht>>
           /\ started' \in BOOLEAN \/ started' = started
    BY <2>1 DEF Receive
  <2>q. QED
    BY <2>2 DEF data, level
<1>2. CASE ~(detect /\ handler)
  BY <1>2 DEF Edge, Interrupt, received
<1>q. QED
  BY <1>1, <1>2

\* Every step keeps what has been received within its bytes.
LEMMA ReceivedStep == ReceivedInv /\ [Next]_vars => ReceivedInv'
<1> SUFFICES ASSUME ReceivedInv, [Next]_vars PROVE ReceivedInv'
  OBVIOUS
<1>1. ASSUME UNCHANGED <<bitcount, bytecount, dht>>, started' \in BOOLEAN PROVE ReceivedInv'
  <2>1. Unit' = Unit
    BY <1>1 DEF Unit
  <2>q. QED
    BY <1>1, <2>1 DEF ReceivedInv
<1>2. ASSUME UNCHANGED received PROVE ReceivedInv'
  BY <1>1, <1>2 DEF received, ReceivedInv
<1>3. CASE Edge
  BY <1>1, <1>3, EdgeReceives, BitReceived DEF ReceivedInv
<1>4. ASSUME NEW p \in Proc, Reset(p) PROVE ReceivedInv'
  <2>1. started' = FALSE /\ bitcount' = 0 /\ bytecount' = 0 /\ dht' = Zero
    BY <1>4 DEF Reset
  <2>2. ByteBits \in Nat \ {0} /\ 2 ^ ByteBits \in Nat \ {0} /\ ByteBits - 0 = ByteBits
    BY Units
  <2>3. Unit' = 2 ^ ByteBits
    BY <2>1, <2>2 DEF Unit
  <2>4. Zero \in [1..5 -> Nat] /\ \A n \in 1..5 : Zero[n] = 0
    BY DEF Zero
  <2>5. ASSUME NEW n \in 1..5
        PROVE  /\ n <= bytecount' => dht'[n] <= 2 ^ ByteBits - 1
               /\ n = bytecount' + 1 => dht'[n] + Unit' <= 2 ^ ByteBits
               /\ n > bytecount' + 1 => dht'[n] = 0
    BY <2>1, <2>2, <2>3, <2>4
  <2>6. bitcount' \in 0..(ByteBits - 1) /\ bytecount' \in Nat
    BY <2>1, <2>2
  <2>7. started' \in BOOLEAN /\ dht' \in [1..5 -> Nat]
    BY <2>1, <2>4, Zenon
  <2>q. QED
    BY <2>5, <2>6, <2>7, Zenon DEF ReceivedInv
<1>5. ASSUME NEW p \in Proc, Release(p) PROVE ReceivedInv'
  <2>1. UNCHANGED <<bitcount, bytecount, dht>> /\ started' = (started \/ (detect /\ handler))
    BY <1>5 DEF Release
  <2>2. started' \in BOOLEAN
    BY <2>1, ZenonT(30)
  <2>q. QED
    BY <1>1, <2>1, <2>2
<1>6. ASSUME NEW p \in Proc,
             Call(p) \/ Check(p) \/ Load(p) \/ Store(p) \/ Setup(p) \/ Enable(p) \/ Reply(p)
               \/ Close(p) \/ Drop(p) \/ Toggle(p) \/ Free(p)
      PROVE  UNCHANGED received
  BY <1>6 DEF Call, Check, Load, Store, Setup, Enable, Reply, Close, Drop, Toggle, Free
<1>7. CASE UNCHANGED vars
  BY <1>2, <1>7 DEF vars, received
<1>q. QED
  BY <1>2, <1>3, <1>4, <1>5, <1>6, <1>7 DEF Next, Step

\* A try follows only on fewer than Tries others.
TriesInv ==
  /\ pc \in [Proc -> Label] /\ retry \in [Proc -> 0..Tries]
  /\ \A p \in Proc :
       pc[p] \in {"reset", "release", "setup", "enable", "reply", "retoggle", "refree"}
         => retry[p] < Tries

\* Every step keeps the tries within their number.
LEMMA TriesStep == TriesInv /\ [Next]_vars => TriesInv'
<1> SUFFICES ASSUME TriesInv, [Next]_vars PROVE TriesInv'
  OBVIOUS
<1>0. Tries \in Nat \ {0}
  BY KmAssumption
<1> USE <1>0 DEF TriesInv, Label, Opening, Clearing, Goto, locals
<1>1. CASE Edge
  BY <1>1 DEF Edge
<1>2. ASSUME NEW p \in Proc, Call(p) \/ Check(p) \/ Load(p) PROVE TriesInv'
  BY <1>2 DEF Call, Check, Load
<1>3. ASSUME NEW p \in Proc, Store(p) PROVE TriesInv'
  BY <1>3 DEF Store
<1>4. ASSUME NEW p \in Proc, Reset(p) \/ Release(p) \/ Setup(p) \/ Enable(p) PROVE TriesInv'
  BY <1>4 DEF Reset, Release, Setup, Enable
<1>5. ASSUME NEW p \in Proc, Reply(p) PROVE TriesInv'
  BY <1>5 DEF Reply, Answer, Retry
<1>6. ASSUME NEW p \in Proc, Close(p) \/ Drop(p) PROVE TriesInv'
  BY <1>6 DEF Close, Drop
<1>7. ASSUME NEW p \in Proc, Toggle(p) \/ Free(p) PROVE TriesInv'
  BY <1>7 DEF Toggle, Free
<1>8. CASE UNCHANGED vars
  BY <1>8 DEF vars
<1>q. QED
  BY <1>1, <1>2, <1>3, <1>4, <1>5, <1>6, <1>7, <1>8 DEF Next, Step

\* The other types.
PlainTypes ==
  /\ Device_Open \in Int /\ elapsed \in 0..Long
  /\ msg \in [dht : [1..5 -> 0..(2 ^ ByteBits - 1)], ok : BOOLEAN]
  /\ frame \in Frames /\ preamble \in Preambles /\ sent \in 0..Edges
  /\ seen \in [Proc -> Int] /\ race \in Races

Flags ==
  detect \in BOOLEAN /\ handler \in BOOLEAN /\ fault \in BOOLEAN /\ met \in BOOLEAN

\* A message of five bytes is what a reply leaves.
LEMMA BytesInRange ==
  ASSUME ReceivedInv PROVE dht \in [1..5 -> 0..(2 ^ ByteBits - 1)]
<1>1. ASSUME NEW n \in 1..5 PROVE dht[n] \in 0..(2 ^ ByteBits - 1)
  <2>1. Unit \in Nat \ {0} /\ 2 ^ ByteBits \in Nat \ {0}
    <3>1. ByteBits - bitcount \in Nat
      BY Units DEF ReceivedInv
    <3>q. QED
      BY <3>1, Units, Doubling DEF Unit
  <2>2. n <= bytecount \/ n = bytecount + 1 \/ n > bytecount + 1
    BY DEF ReceivedInv
  <2>3. /\ n <= bytecount => dht[n] <= 2 ^ ByteBits - 1
        /\ n = bytecount + 1 => dht[n] + Unit <= 2 ^ ByteBits
        /\ n > bytecount + 1 => dht[n] = 0
        /\ dht[n] \in Nat
    BY DEF ReceivedInv
  <2>q. QED
    BY <2>1, <2>2, <2>3
<1>q. QED
  BY <1>1 DEF ReceivedInv

\* Every step keeps the flags Boolean,
LEMMA FlagsStep == Flags /\ [Next]_vars => Flags'
<1> SUFFICES ASSUME Flags, [Next]_vars PROVE Flags'
  OBVIOUS
<1> USE DEF Flags, gpio, history
<1>1. CASE Edge
  BY <1>1 DEF Edge
<1>2. ASSUME NEW p \in Proc, Call(p) \/ Load(p) \/ Reset(p) PROVE Flags'
  BY <1>2 DEF Call, Load, Reset
<1>11. ASSUME NEW p \in Proc, Check(p) PROVE Flags'
  <2>1. CASE Device_Open # 0
    BY <1>11, <2>1 DEF Check
  <2>2. CASE Device_Open = 0
    <3>1. met' = (met \/ Meets(p))
      BY <1>11, <2>2, Zenon DEF Check
    <3>2. met' \in BOOLEAN
      BY <3>1, Zenon
    <3>q. QED
      BY <1>11, <3>2 DEF Check
  <2>q. QED
    BY <2>1, <2>2
<1>3. ASSUME NEW p \in Proc, Store(p) PROVE Flags'
  BY <1>3 DEF Store
<1>4. ASSUME NEW p \in Proc, Release(p) PROVE Flags'
  <2>1. /\ fault' = (fault \/ sent' # 0 \/ ~Valid(frame'))
        /\ UNCHANGED <<detect, handler, met>>
    BY <1>4 DEF Release
  <2>q. QED
    BY <2>1, ZenonT(30)
<1>5. ASSUME NEW p \in Proc, Setup(p) PROVE Flags'
  BY <1>5 DEF Setup
<1>6. ASSUME NEW p \in Proc, Enable(p) PROVE Flags'
  BY <1>6 DEF Enable
<1>7. ASSUME NEW p \in Proc, Reply(p) \/ Close(p) \/ Drop(p) PROVE Flags'
  BY <1>7 DEF Reply, Close, Drop
<1>8. ASSUME NEW p \in Proc, Toggle(p) PROVE Flags'
  BY <1>8, ZenonT(30) DEF Toggle
<1>9. ASSUME NEW p \in Proc, Free(p) PROVE Flags'
  BY <1>9 DEF Free
<1>10. CASE UNCHANGED vars
  BY <1>10 DEF vars
<1>q. QED
  BY <1>1, <1>2, <1>3, <1>4, <1>5, <1>6, <1>7, <1>8, <1>9, <1>10, <1>11 DEF Next, Step

\* and the rest within its types.
LEMMA PlainStep == PlainTypes /\ ReceivedInv /\ [Next]_vars => PlainTypes'
<1> SUFFICES ASSUME PlainTypes, ReceivedInv, [Next]_vars PROVE PlainTypes'
  OBVIOUS
<1> USE DEF PlainTypes, sensor, locals, history
<1>0. Edges \in Nat
  BY Units DEF Edges
<1>1. CASE Edge
  <2>1. sent' \in 0..Edges
    BY <1>0, <1>1 DEF Edge, Sending
  <2>2. elapsed' \in 0..Long
    <3>1. \A k : Pulse(k) \in Nat
      BY KmAssumption DEF Pulse
    <3>2. elapsed' = 0 \/ elapsed' = Capped(elapsed + Pulse(sent'))
      BY <1>1 DEF Edge, Interrupt
    <3>q. QED
      BY <3>1, <3>2 DEF Capped, Long
  <2>q. QED
    BY <1>1, <2>1, <2>2 DEF Edge
<1>2. ASSUME NEW p \in Proc, Call(p) \/ Check(p) \/ Load(p) \/ Store(p) PROVE PlainTypes'
  BY <1>2 DEF Call, Check, Load, Store
<1>3. ASSUME NEW p \in Proc, Reset(p) \/ Release(p) PROVE PlainTypes'
  BY <1>0, <1>3 DEF Reset, Release, Long
<1>4. ASSUME NEW p \in Proc, Setup(p) \/ Enable(p) PROVE PlainTypes'
  BY <1>4 DEF Setup, Enable
<1>5. ASSUME NEW p \in Proc, Reply(p) PROVE PlainTypes'
  <2>1. \/ UNCHANGED msg
        \/ msg' = [dht |-> dht, ok |-> TRUE]
        \/ msg' = [dht |-> dht, ok |-> FALSE]
    BY <1>5 DEF Reply, Answer, Retry
  <2>2. UNCHANGED <<Device_Open, elapsed, frame, preamble, sent, seen, race>>
    BY <1>5 DEF Reply
  <2>3. msg' \in [dht : [1..5 -> 0..(2 ^ ByteBits - 1)], ok : BOOLEAN]
    <3>1. dht \in [1..5 -> 0..(2 ^ ByteBits - 1)]
      BY BytesInRange
    <3> DEFINE Bytes == [1..5 -> 0..(2 ^ ByteBits - 1)]
    <3> HIDE DEF Bytes
    <3>2. msg \in [dht : Bytes, ok : BOOLEAN] /\ dht \in Bytes
      BY <3>1 DEF Bytes
    <3>3. /\ [dht |-> dht, ok |-> TRUE] \in [dht : Bytes, ok : BOOLEAN]
          /\ [dht |-> dht, ok |-> FALSE] \in [dht : Bytes, ok : BOOLEAN]
      BY <3>2
    <3>4. msg' \in [dht : Bytes, ok : BOOLEAN]
      BY <2>1, <3>2, <3>3, Zenon
    <3>q. QED
      BY <3>4 DEF Bytes
  <2>q. QED
    BY <2>2, <2>3
<1>6. ASSUME NEW p \in Proc, Close(p) \/ Drop(p) \/ Toggle(p) \/ Free(p) PROVE PlainTypes'
  BY <1>6 DEF Close, Drop, Toggle, Free
<1>7. CASE UNCHANGED vars
  BY <1>7 DEF vars
<1>q. QED
  BY <1>1, <1>2, <1>3, <1>4, <1>5, <1>6, <1>7 DEF Next, Step

-----------------------------------------------------------------------------
(* How much has been received, by processes that come one after the other.  *)

\* The bits received, as a number, and nothing received.
Bits == bytecount * ByteBits + bitcount

Nothing == bitcount = 0 /\ bytecount = 0 /\ dht = Zero

\* The handler does not take the sensor's start pulse for a bit.
LongStart == \A t \in Preambles : t > 80

\* Each bit received is one more.
LEMMA OneBitMore == ASSUME ReceivedInv, NextBit PROVE Bits' = Bits + 1
<1>1. ByteBits \in Nat \ {0} /\ bitcount \in 0..(ByteBits - 1) /\ bytecount \in Nat
  BY Units DEF ReceivedInv
<1>2. CASE bitcount + 1 = ByteBits
  <2>1. bitcount' = 0 /\ bytecount' = bytecount + 1
    BY <1>2 DEF NextBit
  <2>2. Bits' = (bytecount + 1) * ByteBits
    BY <1>1, <2>1 DEF Bits
  <2>q. QED
    BY <1>1, <1>2, <2>2 DEF Bits
<1>3. CASE bitcount + 1 # ByteBits
  BY <1>1, <1>3 DEF NextBit, Bits
<1>q. QED
  BY <1>2, <1>3

\* Whoever opens a device that nobody else has, or tries again, finds no handler.
OffInv ==
  /\ pc \in [Proc -> Label] /\ Alone
  /\ race = "none" =>
       /\ ~met
       /\ \A p \in Proc : pc[p] \in Undetected => ~handler
       /\ (\A p \in Proc : pc[p] = "closed") => ~handler

\* Every step keeps that.
LEMMA OffStep == OffInv /\ [Next]_vars => OffInv'
<1> SUFFICES ASSUME OffInv, [Next]_vars PROVE OffInv'
  OBVIOUS
<1> USE DEF OffInv, Alone, Undetected, Label, Opening, Clearing, Goto, gpio, locals, history
<1>1. CASE Edge
  BY <1>1 DEF Edge
<1>2. ASSUME NEW p \in Proc, Call(p) PROVE OffInv'
  BY <1>2 DEF Call
<1>3. ASSUME NEW p \in Proc, Load(p) \/ Store(p) PROVE OffInv'
  BY <1>3 DEF Load, Store
<1>4. ASSUME NEW p \in Proc, Reset(p) \/ Release(p) PROVE OffInv'
  BY <1>4 DEF Reset, Release
<1>5. ASSUME NEW p \in Proc, Setup(p) \/ Enable(p) PROVE OffInv'
  BY <1>5 DEF Setup, Enable
<1>6. ASSUME NEW p \in Proc, Reply(p) PROVE OffInv'
  BY <1>6 DEF Reply, Answer, Retry
<1>7. ASSUME NEW p \in Proc, Close(p) \/ Drop(p) PROVE OffInv'
  BY <1>7 DEF Close, Drop
<1>8. ASSUME NEW p \in Proc, Toggle(p) PROVE OffInv'
  BY <1>8 DEF Toggle
<1>9. ASSUME NEW p \in Proc, Free(p) PROVE OffInv'
  BY <1>9 DEF Free
<1>11. ASSUME NEW p \in Proc, Check(p) PROVE OffInv'
  <2>1. race = "none" => ~Meets(p)
    BY <1>11 DEF Check, Meets, Incrementing
  <2>2. race = "none" => ~met'
    BY <1>11, <2>1, Zenon DEF Check, OffInv
  <2>q. QED
    BY <1>11, <2>2 DEF Check
<1>10. CASE UNCHANGED vars
  BY <1>10 DEF vars
<1>q. QED
  BY <1>1, <1>2, <1>3, <1>4, <1>5, <1>6, <1>7, <1>8, <1>9, <1>10, <1>11 DEF Next, Step

\* Two edges of the sensor end each bit, after the first three.
CountInv == race = "none" =>
  /\ sent = 0 => ~started
  /\ Bits > 0 => 2 * Bits + 3 <= sent
  /\ \A p \in Proc : pc[p] = "release" => Nothing /\ ~started /\ sent = Edges

\* An edge that ends a bit is the second of two.
LEMMA OddEdge ==
  ASSUME NEW s \in Nat, (s + 1) % 2 = 0, s # 1, s # 3, NEW b \in Nat, b > 0 => 2 * b + 3 < s
  PROVE  2 * (b + 1) + 3 <= s
  OBVIOUS

\* Every step keeps the bits behind the edges.
LEMMA CountStep ==
  LongStart /\ PlainTypes /\ ReceivedInv /\ OffInv /\ CountInv /\ [Next]_vars => CountInv'
<1> SUFFICES ASSUME LongStart, PlainTypes, ReceivedInv, OffInv, CountInv, [Next]_vars,
                    race' = "none"
             PROVE  CountInv'
  BY DEF CountInv
<1>0. race = "none" /\ Edges \in Nat \ {0} /\ sent \in 0..Edges /\ Bits \in Nat
  <2>1. ByteBits \in Nat \ {0} /\ bitcount \in Nat /\ bytecount \in Nat
    BY Units DEF ReceivedInv
  <2>2. bytecount * ByteBits \in Nat
    BY <2>1
  <2>3. race' = race
    BY DEF Next, Step, Edge, Call, Check, Load, Store, Reset, Release, Setup, Enable, Reply,
           Close, Drop, Toggle, Free, vars, history
  <2>q. QED
    BY <2>1, <2>2, <2>3 DEF Edges, Bits, PlainTypes
<1>1. ASSUME UNCHANGED <<started, bitcount, bytecount, dht, sent>>,
             \A p \in Proc : pc'[p] = "release" => pc[p] = "release"
      PROVE  CountInv'
  <2>1. Bits' = Bits /\ (Nothing <=> Nothing') /\ (started <=> started') /\ sent' = sent
    BY <1>1 DEF Bits, Nothing
  <2>q. QED
    BY <1>0, <1>1, <2>1 DEF CountInv
<1>2. CASE Edge
  <2>1. /\ sent < Edges /\ sent' = sent + 1 /\ UNCHANGED <<pc, preamble>>
    BY <1>2 DEF Edge, Sending
  <2>2. \A p \in Proc : pc'[p] # "release"
    BY <1>0, <2>1 DEF CountInv
  <2>3. CASE UNCHANGED <<bitcount, bytecount, dht>>
    <3>1. Bits' = Bits
      BY <2>3 DEF Bits
    <3>q. QED
      BY <1>0, <2>1, <2>2, <3>1 DEF CountInv
  <2>4. CASE /\ NextBit /\ started /\ Level(sent') = 0
             /\ Capped(elapsed + Pulse(sent')) <= 80
    <3>1. Bits' = Bits + 1
      BY <2>4, OneBitMore
    <3>2. sent' # 1
      BY <1>0, <2>1, <2>4 DEF CountInv
    <3>3. sent' # 3
      <4>1. preamble > 80 /\ preamble \in Nat /\ elapsed \in Nat
        BY KmAssumption DEF LongStart, PlainTypes
      <4>2. Pulse(3) = preamble
        BY DEF Pulse
      <4>q. QED
        BY <2>4, <4>1, <4>2 DEF Capped, Long
    <3>4. 2 * (Bits + 1) + 3 <= sent'
      <4>1. sent' \in Nat /\ (sent' + 1) % 2 = 0
        BY <1>0, <2>1, <2>4 DEF Level
      <4>2. Bits > 0 => 2 * Bits + 3 < sent'
        BY <1>0, <2>1 DEF CountInv
      <4>q. QED
        BY <1>0, <3>2, <3>3, <4>1, <4>2, OddEdge
    <3>q. QED
      BY <1>0, <2>1, <2>2, <3>1, <3>4 DEF CountInv
  <2>q. QED
    BY <1>2, <2>3, <2>4, EdgeReceives
<1>3. ASSUME NEW p \in Proc, Reset(p) PROVE CountInv'
  <2>1. started' = FALSE /\ bitcount' = 0 /\ bytecount' = 0 /\ dht' = Zero /\ sent' = Edges
    BY <1>3 DEF Reset
  <2>2. Bits' = 0 /\ Nothing'
    BY <2>1, Units DEF Bits, Nothing, Zero
  <2>q. QED
    BY <1>0, <2>1, <2>2 DEF CountInv
<1>4. ASSUME NEW p \in Proc, Release(p) PROVE CountInv'
  <2>1. pc[p] = "release" /\ UNCHANGED <<bitcount, bytecount, dht>>
    BY <1>4 DEF Release
  <2>2. Nothing /\ ~started /\ ~handler
    BY <1>0, <2>1 DEF CountInv, OffInv, Undetected
  <2>3. ~started'
    BY <1>4, <2>2 DEF Release
  <2>4. Bits' = 0
    BY <2>1, <2>2, Units DEF Bits, Nothing
  <2>5. \A q \in Proc : pc'[q] # "release"
    <3>1. pc' = [pc EXCEPT ![p] = "setup"]
      BY <1>4 DEF Release, Goto
    <3>2. \A q \in Proc : q # p => pc[q] = "closed"
      BY <1>0, <2>1 DEF OffInv, Alone
    <3>q. QED
      BY <3>1, <3>2 DEF OffInv
  <2>q. QED
    BY <2>3, <2>4, <2>5 DEF CountInv
<1>5. ASSUME NEW p \in Proc, Call(p) \/ Check(p) \/ Load(p) \/ Store(p) PROVE CountInv'
  BY <1>1, <1>5 DEF Call, Check, Load, Store, Goto, received, sensor, OffInv
<1>6. ASSUME NEW p \in Proc, Setup(p) \/ Enable(p) \/ Reply(p) PROVE CountInv'
  BY <1>1, <1>6 DEF Setup, Enable, Reply, Answer, Retry, Goto, received, sensor, OffInv
<1>7. ASSUME NEW p \in Proc, Close(p) \/ Drop(p) \/ Toggle(p) \/ Free(p) PROVE CountInv'
  BY <1>1, <1>7 DEF Close, Drop, Toggle, Free, Goto, received, sensor, OffInv
<1>8. CASE UNCHANGED vars
  BY <1>1, <1>8 DEF vars
<1>q. QED
  BY <1>2, <1>3, <1>4, <1>5, <1>6, <1>7, <1>8 DEF Next, Step

\* At first nothing has been received,
LEMMA ReceivedInit == Init => ReceivedInv
<1> SUFFICES ASSUME Init PROVE ReceivedInv
  OBVIOUS
<1>1. /\ bitcount = 0 /\ bytecount = 0 /\ dht = Zero /\ started \in BOOLEAN
      /\ Zero \in [1..5 -> Nat] /\ \A n \in 1..5 : Zero[n] = 0
  BY DEF Init, Zero
<1>2. ByteBits \in Nat \ {0} /\ 2 ^ ByteBits \in Nat \ {0} /\ ByteBits - 0 = ByteBits
  BY Units
<1>3. Unit = 2 ^ ByteBits
  BY <1>1, <1>2 DEF Unit
<1>4. ASSUME NEW n \in 1..5
      PROVE  /\ n <= bytecount => dht[n] <= 2 ^ ByteBits - 1
             /\ n = bytecount + 1 => dht[n] + Unit <= 2 ^ ByteBits
             /\ n > bytecount + 1 => dht[n] = 0
  BY <1>1, <1>2, <1>3
<1>5. bitcount \in 0..(ByteBits - 1) /\ bytecount \in Nat
  BY <1>1, <1>2
<1>q. QED
  BY <1>1, <1>4, <1>5 DEF ReceivedInv

\* and the rest is of its types.
LEMMA PlainInit == Init => PlainTypes
<1> SUFFICES ASSUME Init PROVE PlainTypes
  OBVIOUS
<1>1. Edges \in Nat /\ Zero \in [1..5 -> 0..(2 ^ ByteBits - 1)]
  BY Units DEF Edges, Zero
<1>2. msg \in [dht : [1..5 -> 0..(2 ^ ByteBits - 1)], ok : BOOLEAN]
  <2> DEFINE Bytes == [1..5 -> 0..(2 ^ ByteBits - 1)]
  <2>1. Zero \in Bytes /\ msg = [dht |-> Zero, ok |-> FALSE]
    BY <1>1 DEF Init
  <2> HIDE DEF Bytes
  <2>2. msg \in [dht : Bytes, ok : BOOLEAN]
    BY <2>1
  <2>q. QED
    BY <2>2 DEF Bytes
<1>q. QED
  BY <1>1, <1>2 DEF Init, PlainTypes, Long

\* Types of all variables, and no sixth byte: the handler counts no more bits than
\* dht[5] holds, in the first try as in the last.
THEOREM TypesHold == ASSUME LongStart PROVE Spec => []TypeOK
<1>1. Init => TriesInv /\ OffInv
  BY KmAssumption DEF Init, TriesInv, OffInv, Alone, Undetected, Label, Opening, Clearing
<1>2. Init => Flags
  BY DEF Init, Flags
<1>3. Init => CountInv
  <2>1. Init => Bits = 0 /\ sent = Edges /\ Edges # 0 /\ \A p \in Proc : pc[p] # "release"
    BY Units DEF Init, Bits, Edges
  <2>q. QED
    BY <2>1 DEF CountInv
<1>4. ReceivedInv /\ PlainTypes /\ TriesInv /\ Flags /\ CountInv => TypeOK
  <2> SUFFICES ASSUME ReceivedInv, PlainTypes, TriesInv, Flags, CountInv PROVE TypeOK
    OBVIOUS
  <2>1. race = "none" => bytecount * ByteBits + bitcount <= 5 * ByteBits
    <3>1. ByteBits \in Nat \ {0} /\ bitcount \in Nat /\ bytecount \in Nat
      BY Units DEF ReceivedInv
    <3>2. Bits \in Nat
      BY <3>1 DEF Bits
    <3>3. race = "none" => Bits <= 5 * ByteBits
      BY <3>1, <3>2 DEF CountInv, PlainTypes, Edges
    <3>q. QED
      BY <3>3 DEF Bits
  <2>2. dht \in [1..5 -> 0..(2 ^ ByteBits - 1)]
    BY BytesInRange
  <2>q. QED
    BY <2>1, <2>2 DEF TypeOK, ReceivedInv, PlainTypes, TriesInv, Flags
<1>5. PlainTypes /\ ReceivedInv /\ OffInv /\ CountInv /\ [Next]_vars => CountInv'
  BY CountStep
<1>q. QED
  BY ReceivedInit, PlainInit, <1>1, <1>2, <1>3, <1>4, <1>5, ReceivedStep, PlainStep,
     TriesStep, OffStep, FlagsStep, PTL DEF Spec

-----------------------------------------------------------------------------
(* An answer received without a gap.                                        *)

\* The bits received are those of the frame, from its first on.
Prefix ==
  \A n \in 1..5 :
    dht[n] = IF n <= bytecount THEN frame[n]
             ELSE IF n = bytecount + 1 THEN (frame[n] \div Unit) * Unit ELSE 0

\* The handler has seen each edge so far and taken for bits those that end one.
Tracking ==
  /\ handler /\ detect /\ elapsed = 0
  /\ started <=> sent >= 2
  /\ IF sent <= 4 THEN Bits = 0 ELSE sent \in {3 + 2 * Bits, 4 + 2 * Bits}
  /\ Prefix

\* Nothing received is the prefix of any frame.
LEMMA EmptyPrefix == ASSUME PlainTypes, Nothing PROVE Prefix
<1>1. \A n \in 1..5 : frame[n] \in 0..(2 ^ ByteBits - 1) /\ dht[n] = 0
  BY KmAssumption DEF PlainTypes, Nothing, Zero
<1>2. Unit = 2 ^ ByteBits /\ 2 ^ ByteBits \in Nat \ {0} /\ bytecount = 0
  <2>1. ByteBits - bitcount = ByteBits
    BY Units DEF Nothing
  <2>q. QED
    BY <2>1, Units DEF Unit, Nothing
<1>3. ASSUME NEW n \in 1..5 PROVE (frame[n] \div Unit) * Unit = 0
  <2> DEFINE all == 2 ^ ByteBits
             f == frame[n]
  <2>1. f \in Nat /\ f < all /\ all \in Nat \ {0} /\ Unit = all
    BY <1>1, <1>2
  <2> HIDE DEF all, f
  <2>2. f \div all = 0
    BY <2>1
  <2>3. (f \div all) * all = 0
    BY <2>1, <2>2
  <2>q. QED
    BY <2>1, <2>3 DEF f
<1>q. QED
  BY <1>1, <1>2, <1>3 DEF Prefix

\* The next bit of the frame makes a longer prefix.
LEMMA LongerPrefix ==
  ASSUME PlainTypes, ReceivedInv, Prefix, NextBit, frame' = frame, bytecount < 5,
         NEW bit, bit = 2 ^ (ByteBits - 1 - bitcount),
         dht' = IF (frame[bytecount + 1] \div bit) % 2 = 1 THEN WithBit ELSE dht
  PROVE  Prefix'
<1> DEFINE all == 2 ^ ByteBits
           m == bytecount + 1
           f == frame[m]
           b == (f \div bit) % 2
<1>1. /\ bit \in Nat \ {0} /\ Unit = 2 * bit /\ all \in Nat \ {0}
      /\ bytecount \in Nat /\ m \in 1..5 /\ dht \in [1..5 -> Nat]
  BY Units DEF ReceivedInv, Unit
<1>2. \A n \in 1..5 : frame[n] \in Nat /\ frame[n] < all
  BY <1>1, KmAssumption DEF PlainTypes
<1>3. \/ bytecount' = m /\ Unit' = all /\ bit = 1
      \/ bytecount' = bytecount /\ Unit' = bit
  BY NextUnit
<1>4. \A n \in 1..5 : n # m => dht'[n] = dht[n]
  BY <1>1 DEF WithBit
<1>5. f \in Nat /\ f \div bit = 2 * (f \div (2 * bit)) + b /\ b \in 0..1
  <2>1. f \in Nat
    BY <1>1, <1>2
  <2> HIDE DEF f
  <2>2. f \div bit = 2 * (f \div (2 * bit)) + ((f \div bit) % 2)
    BY <1>1, <2>1, Halve
  <2>3. (f \div bit) % 2 \in 0..1
    BY <1>1, <2>1
  <2>q. QED
    BY <2>1, <2>2, <2>3
<1>6. dht'[m] = (f \div bit) * bit
  <2>1. dht[m] = (f \div (2 * bit)) * (2 * bit)
    BY <1>1 DEF Prefix
  <2>2. dht'[m] = dht[m] + b * bit
    <3>1. CASE b = 1
      <4>1. dht' = [dht EXCEPT ![m] = @ + bit]
        BY <3>1 DEF WithBit
      <4>q. QED
        BY <1>1, <3>1, <4>1
    <3>2. CASE b = 0
      <4>1. dht' = dht
        BY <3>2
      <4>q. QED
        BY <1>1, <3>2, <4>1
    <3>q. QED
      BY <1>5, <3>1, <3>2
  <2> DEFINE h == f \div (2 * bit)
             g == f \div bit
  <2>3. h \in Nat /\ g = 2 * h + b /\ b \in 0..1
    <3>1. 2 * bit \in Nat \ {0}
      BY <1>1
    <3>2. h \in Nat
      BY <1>5, <3>1
    <3>q. QED
      BY <1>5, <3>2
  <2> HIDE DEF h, g, b
  <2>4. h * (2 * bit) + b * bit = (2 * h + b) * bit
    BY <1>1, <2>3
  <2>q. QED
    BY <2>1, <2>2, <2>3, <2>4 DEF h, g
<1> HIDE DEF all, f, b
<1>7. ASSUME NEW n \in 1..5, n # m
      PROVE  dht'[n] = IF n < m THEN frame[n] ELSE 0
  BY <1>1, <1>4, <1>7 DEF Prefix
<1>8. CASE bytecount' = m /\ Unit' = all /\ bit = 1
  <2>1. dht'[m] = frame[m]
    BY <1>5, <1>6, <1>8 DEF f
  <2>2. ASSUME NEW n \in 1..5 PROVE (frame[n] \div all) * all = 0
    <3> DEFINE x == frame[n]
    <3>1. x \in Nat /\ x < all
      BY <1>2
    <3> HIDE DEF x
    <3>2. x \div all = 0
      BY <1>1, <3>1
    <3>3. (x \div all) * all = 0
      BY <1>1, <3>2
    <3>q. QED
      BY <3>3 DEF x
  <2>3. ASSUME NEW n \in 1..5
        PROVE  dht'[n] = IF n <= bytecount' THEN frame'[n]
                         ELSE IF n = bytecount' + 1 THEN (frame'[n] \div Unit') * Unit' ELSE 0
    <3>1. CASE n < m
      BY <1>1, <1>7, <1>8, <3>1
    <3>2. CASE n = m
      BY <1>1, <1>8, <2>1, <3>2
    <3>3. CASE n > m
      BY <1>1, <1>7, <1>8, <2>2, <3>3
    <3>q. QED
      BY <1>1, <3>1, <3>2, <3>3
  <2>q. QED
    BY <2>3 DEF Prefix
<1>9. CASE bytecount' = bytecount /\ Unit' = bit
  <2>1. ASSUME NEW n \in 1..5
        PROVE  dht'[n] = IF n <= bytecount' THEN frame'[n]
                         ELSE IF n = bytecount' + 1 THEN (frame'[n] \div Unit') * Unit' ELSE 0
    BY <1>1, <1>6, <1>7, <1>9 DEF f
  <2>q. QED
    BY <2>1 DEF Prefix
<1>q. QED
  BY <1>3, <1>8, <1>9

\* The sensor's edges keep the handler in step.
LEMMA TrackingEdge ==
  ASSUME LongStart, PlainTypes, ReceivedInv, Tracking, Edge
  PROVE  Tracking'
<1> DEFINE k == sent + 1
           data == Capped(elapsed + Pulse(k))
<1>1. /\ ByteBits \in Nat \ {0} /\ bitcount \in 0..(ByteBits - 1) /\ bytecount \in Nat
      /\ sent \in Nat /\ sent < 4 + 10 * ByteBits /\ Bits \in Nat
      /\ preamble \in Nat /\ preamble > 80
  <2>1. ByteBits \in Nat \ {0} /\ bitcount \in 0..(ByteBits - 1) /\ bytecount \in Nat
    BY Units DEF ReceivedInv
  <2>q. QED
    BY <2>1, KmAssumption DEF Edge, Sending, Edges, Bits, PlainTypes, LongStart
<1>2. /\ sent' = k /\ UNCHANGED <<handler, detect, frame, preamble>>
      /\ Receive(Level(k), data) /\ elapsed' = 0
  BY DEF Edge, Interrupt, Tracking, gpio
<1>3. data = IF Pulse(k) > 100 THEN 100 ELSE Pulse(k)
  <2>1. Pulse(k) \in Nat
    BY <1>1 DEF Pulse
  <2>q. QED
    BY <2>1 DEF Tracking, Capped, Long
<1>4. /\ k \in Nat /\ k >= 1 /\ Level(k) \in {0, 1} /\ (Level(k) = 0 <=> k % 2 = 1)
  BY <1>1 DEF Level
<1>5. CASE k > 4 /\ k % 2 = 1
  <2>1. k = 5 + 2 * Bits /\ (k - 5) \div 2 = Bits
    <3>1. sent > 4 => sent \in {3 + 2 * Bits, 4 + 2 * Bits}
      BY <1>1 DEF Tracking
    <3>2. sent = 4 => Bits = 0
      BY DEF Tracking
    <3>q. QED
      BY <1>1, <1>5, <3>1, <3>2
  <2> DEFINE bit == 2 ^ (ByteBits - 1 - bitcount)
             b == (frame[bytecount + 1] \div bit) % 2
  <2>2. FrameBit(frame, Bits) = b
    <3>1. Bits = ByteBits * bytecount + bitcount
      BY <1>1 DEF Bits
    <3>2. Bits \div ByteBits = bytecount /\ Bits % ByteBits = bitcount
      BY <1>1, <3>1, DivUnique
    <3>q. QED
      BY <3>2 DEF FrameBit
  <2>3. bytecount < 5
    <3>1. Bits < 5 * ByteBits
      BY <1>1, <2>1
    <3>2. bytecount >= 5 => bytecount * ByteBits >= 5 * ByteBits
      BY <1>1
    <3>3. bytecount * ByteBits \in Nat
      BY <1>1
    <3>q. QED
      BY <1>1, <3>1, <3>2, <3>3 DEF Bits
  <2>4. b \in 0..1
    <3>1. bit \in Nat \ {0} /\ frame[bytecount + 1] \in Nat
      BY <1>1, <2>3, Units, KmAssumption DEF PlainTypes
    <3> HIDE DEF bit
    <3>q. QED
      BY <3>1
  <2>5. Pulse(k) = IF b = 1 THEN 70 ELSE 26
    <3>1. k # 1 /\ k # 2 /\ k # 3 /\ k > 3 /\ Level(k) = 0
      BY <1>4, <1>5
    <3>2. Pulse(k) = IF FrameBit(frame, (k - 5) \div 2) = 1 THEN 70 ELSE 26
      BY <3>1, Zenon DEF Pulse
    <3>q. QED
      BY <2>1, <2>2, <3>2
  <2>6. started
    BY <1>1, <1>5 DEF Tracking
  <2>7. /\ NextBit /\ UNCHANGED started
        /\ dht' = IF b = 1 THEN WithBit ELSE dht
    <3>1. data = IF b = 1 THEN 70 ELSE 26
      BY <1>3, <2>5
    <3>2. Level(k) = 0 /\ data >= 15 /\ data <= 80 /\ (data > 60 <=> b = 1)
      BY <1>4, <1>5, <3>1
    <3> HIDE DEF data, b
    <3>q. QED
      BY <1>2, <2>6, <3>2 DEF Receive
  <2>8. Prefix'
    <3> HIDE DEF bit
    <3>q. QED
      BY <1>2, <2>3, <2>7, LongerPrefix DEF Tracking, bit
  <2>9. Bits' = Bits + 1
    BY <2>7, OneBitMore
  <2>10. sent' > 4 /\ sent' = 3 + 2 * Bits'
    BY <1>1, <1>2, <1>5, <2>1, <2>9
  <2>q. QED
    BY <1>2, <2>6, <2>7, <2>8, <2>10 DEF Tracking
<1>6. CASE ~(k > 4 /\ k % 2 = 1)
  <2>1. ~(Level(k) = 0 /\ started /\ data >= 15 /\ data <= 80)
    <3>1. CASE k = 1
      BY <1>1, <3>1 DEF Tracking
    <3>2. CASE k = 3
      <4>1. Pulse(k) = preamble
        BY <3>2 DEF Pulse
      <4>q. QED
        BY <1>1, <1>3, <4>1
    <3>3. CASE k # 1 /\ k # 3
      BY <1>4, <1>6, <3>3
    <3>q. QED
      BY <3>1, <3>2, <3>3
  <2>2. /\ started' = (started \/ (Level(k) = 1 /\ data > 40))
        /\ UNCHANGED <<bitcount, bytecount, dht>>
    <3> HIDE DEF data
    <3>q. QED
      BY <1>2, <2>1 DEF Receive
  <2>3. started' <=> sent' >= 2
    <3>1. CASE k = 1
      <4>1. ~started /\ Level(k) # 1 /\ ~(sent' >= 2)
        BY <1>1, <1>2, <1>4, <3>1 DEF Tracking
      <4>q. QED
        BY <2>2, <4>1, Zenon
    <3>2. CASE k = 2
      <4>1. Pulse(k) = 80 /\ Level(k) = 1
        BY <3>2 DEF Pulse, Level
      <4>2. data > 40 /\ sent' >= 2
        BY <1>2, <1>3, <3>2, <4>1
      <4>q. QED
        BY <2>2, <4>1, <4>2, Zenon
    <3>3. CASE k > 2
      <4>1. started /\ sent' >= 2
        BY <1>1, <1>2, <3>3 DEF Tracking
      <4>q. QED
        BY <2>2, <4>1, Zenon
    <3>q. QED
      BY <1>4, <3>1, <3>2, <3>3
  <2>4. Bits' = Bits /\ Unit' = Unit /\ Prefix'
    BY <1>2, <2>2 DEF Bits, Unit, Prefix, Tracking
  <2>5. IF sent' <= 4 THEN Bits' = 0 ELSE sent' \in {3 + 2 * Bits', 4 + 2 * Bits'}
    BY <1>1, <1>2, <1>6, <2>4 DEF Tracking
  <2>q. QED
    BY <1>2, <2>3, <2>4, <2>5 DEF Tracking
<1>q. QED
  BY <1>5, <1>6

\* At the end the whole frame is there.
LEMMA TrackingEnd ==
  ASSUME PlainTypes, ReceivedInv, Tracking, ~Sending
  PROVE  dht = frame
<1>1. /\ ByteBits \in Nat \ {0} /\ bitcount \in 0..(ByteBits - 1) /\ bytecount \in Nat
      /\ sent = 4 + 10 * ByteBits /\ Bits \in Nat
  <2>1. ByteBits \in Nat \ {0} /\ bitcount \in 0..(ByteBits - 1) /\ bytecount \in Nat
    BY Units DEF ReceivedInv
  <2>q. QED
    BY <2>1 DEF Sending, Edges, Bits, PlainTypes
<1>2. Bits = 5 * ByteBits
  <2>1. sent \in {3 + 2 * Bits, 4 + 2 * Bits}
    BY <1>1 DEF Tracking
  <2>q. QED
    BY <1>1, <2>1
<1>3. bytecount = 5
  <2>1. Bits = ByteBits * bytecount + bitcount /\ Bits = ByteBits * 5 + 0
    BY <1>1, <1>2 DEF Bits
  <2>2. Bits \div ByteBits = bytecount
    BY <1>1, <2>1, DivUnique
  <2>3. Bits \div ByteBits = 5
    BY <1>1, <2>1, DivUnique
  <2>q. QED
    BY <2>2, <2>3
<1>4. \A n \in 1..5 : dht[n] = frame[n]
  BY <1>3 DEF Tracking, Prefix
<1>5. dht \in [1..5 -> Nat] /\ frame \in [1..5 -> 0..(2 ^ ByteBits - 1)]
  BY KmAssumption DEF ReceivedInv, PlainTypes
<1>q. QED
  BY <1>4, <1>5

-----------------------------------------------------------------------------
(* From the start pulse to the message, with the interrupts set up in time. *)

\* Nothing comes before the interrupts are set up.
Phases == \A p \in Proc :
  /\ pc[p] = "release" => Nothing /\ sent = Edges
  /\ pc[p] \in {"setup", "enable"} => Nothing /\ (sent = Edges \/ (sent = 0 /\ elapsed = 0))

OneHolder == \A p, q \in Proc : pc[p] \in Counted /\ pc[q] \in Counted => p = q

\* Every step of a sensor that is not late keeps that, for one holder of the device.
LEMMA PhasesStep ==
  ~Late /\ pc \in [Proc -> Label] /\ sent \in 0..Edges /\ OneHolder /\ Phases /\ [Next]_vars
    => Phases'
<1> SUFFICES ASSUME ~Late, pc \in [Proc -> Label], sent \in 0..Edges, OneHolder, Phases,
                    [Next]_vars
             PROVE  Phases'
  OBVIOUS
<1>1. ASSUME UNCHANGED <<bitcount, bytecount, dht, sent, elapsed>>,
             \A q \in Proc : /\ pc'[q] = "release" => pc[q] = "release"
                             /\ pc'[q] \in {"setup", "enable"} => pc[q] \in {"setup", "enable"}
      PROVE  Phases'
  <2>1. Nothing' <=> Nothing
    BY <1>1 DEF Nothing
  <2>q. QED
    BY <1>1, <2>1 DEF Phases
<1>2. CASE Edge
  <2>1. /\ UNCHANGED pc /\ sent < Edges /\ sent \in Int /\ Edges \in Int
        /\ \A q \in Proc : pc[q] \notin {"setup", "enable"}
    BY <1>2, Units DEF Edge, Sending, SetupPending, Edges
  <2>q. QED
    BY <2>1 DEF Phases
<1>3. ASSUME NEW p \in Proc, Reset(p) PROVE Phases'
  <2>1. bitcount' = 0 /\ bytecount' = 0 /\ dht' = Zero /\ sent' = Edges
    BY <1>3 DEF Reset
  <2>q. QED
    BY <2>1 DEF Phases, Nothing, Zero
<1>4. ASSUME NEW p \in Proc, Release(p) PROVE Phases'
  <2>1. /\ pc[p] = "release" /\ pc' = [pc EXCEPT ![p] = "setup"] /\ elapsed' = 0
        /\ UNCHANGED <<bitcount, bytecount, dht>> /\ sent' \in {0, Edges}
    BY <1>4 DEF Release, Goto
  <2>2. Nothing'
    BY <2>1 DEF Phases, Nothing, Zero
  <2>3. \A q \in Proc : pc'[q] # "release"
    BY <2>1 DEF OneHolder, Counted, Label, Opening, Clearing
  <2>4. sent' = Edges \/ (sent' = 0 /\ elapsed' = 0)
    BY <2>1
  <2>5. Edges' = Edges
    BY DEF Edges
  <2>q. QED
    BY <2>2, <2>3, <2>4, <2>5 DEF Phases
<1>5. ASSUME NEW p \in Proc, Call(p) \/ Check(p) \/ Load(p) \/ Store(p) PROVE Phases'
  BY <1>1, <1>5 DEF Call, Check, Load, Store, Goto, received, sensor
<1>6. ASSUME NEW p \in Proc, Setup(p) \/ Enable(p) \/ Reply(p) PROVE Phases'
  BY <1>1, <1>6 DEF Setup, Enable, Reply, Answer, Retry, Goto, received, sensor
<1>7. ASSUME NEW p \in Proc, Close(p) \/ Drop(p) \/ Toggle(p) \/ Free(p) PROVE Phases'
  BY <1>1, <1>7 DEF Close, Drop, Toggle, Free, Goto, received, sensor
<1>8. CASE UNCHANGED vars
  BY <1>1, <1>8 DEF vars
<1>q. QED
  BY <1>2, <1>3, <1>4, <1>5, <1>6, <1>7, <1>8 DEF Next, Step

\* A try that is set up in order is in step with the sensor, or has nothing.
TrustInv == race = "none" =>
  /\ Phases
  /\ \A p \in Proc :
       /\ pc[p] \in {"release", "setup", "enable"} => ~started
       /\ pc[p] = "enable" => handler
       /\ pc[p] = "reply" => Tracking \/ (Nothing /\ (~handler \/ ~Sending))
  /\ \A p \in Proc : pc[p] = "opened" /\ msg.ok => msg.dht = frame /\ Valid(frame)

\* Every step keeps that.
LEMMA TrustStep ==
  LongStart /\ ~Late /\ PlainTypes /\ ReceivedInv /\ OffInv /\ TrustInv /\ [Next]_vars
    => TrustInv'
<1> SUFFICES ASSUME LongStart, ~Late, PlainTypes, ReceivedInv, OffInv, TrustInv, [Next]_vars,
                    race' = "none"
             PROVE  TrustInv'
  BY DEF TrustInv
<1> DEFINE Try(p) ==
             /\ pc[p] \in {"release", "setup", "enable"} => ~started
             /\ pc[p] = "enable" => handler
             /\ pc[p] = "reply" => Tracking \/ (Nothing /\ (~handler \/ ~Sending))
           Said(p) == pc[p] = "opened" /\ msg.ok => msg.dht = frame /\ Valid(frame)
<1>0. /\ race = "none" /\ pc \in [Proc -> Label] /\ sent \in 0..Edges
      /\ Phases /\ \A p \in Proc : Try(p) /\ Said(p)
      /\ \A p, q \in Proc : pc[p] # "closed" /\ q # p => pc[q] = "closed"
  <2>1. race' = race
    BY DEF Next, Step, Edge, Call, Check, Load, Store, Reset, Release, Setup, Enable, Reply,
           Close, Drop, Toggle, Free, vars, history
  <2>q. QED
    BY <2>1 DEF TrustInv, PlainTypes, OffInv, Alone
<1>1. Phases'
  <2>1. OneHolder
    BY <1>0 DEF OneHolder, Counted
  <2>q. QED
    BY <1>0, <2>1, PhasesStep
<1>2. ASSUME \A p \in Proc : Try(p)' /\ Said(p)' PROVE TrustInv'
  BY <1>1, <1>2 DEF TrustInv
<1> HIDE DEF Try, Said
<1>3. ASSUME NEW p \in Proc, NEW label, pc[p] # "closed" \/ \A q \in Proc : pc[q] = "closed",
             pc' = [pc EXCEPT ![p] = label], Try(p)', Said(p)'
      PROVE  TrustInv'
  <2>1. ASSUME NEW q \in Proc, q # p PROVE pc'[q] = "closed"
    BY <1>0, <1>3, <2>1
  <2>2. ASSUME NEW q \in Proc, q # p PROVE Try(q)' /\ Said(q)'
    BY <2>1, <2>2 DEF Try, Said
  <2>q. QED
    BY <1>2, <1>3, <2>2
<1>4. ASSUME NEW p \in Proc, NEW label, pc[p] # "closed" \/ \A q \in Proc : pc[q] = "closed",
             pc' = [pc EXCEPT ![p] = label],
             label \notin {"release", "setup", "enable", "reply", "opened"}
      PROVE  TrustInv'
  <2>1. pc'[p] = label
    BY <1>0, <1>4
  <2>2. Try(p)' /\ Said(p)'
    BY <1>4, <2>1 DEF Try, Said
  <2>q. QED
    BY <1>3, <1>4, <2>2
<1>5. CASE Edge
  <2>1. /\ UNCHANGED <<pc, handler, msg, frame>> /\ sent < Edges
        /\ \A q \in Proc : pc[q] \notin {"setup", "enable"}
    BY <1>5 DEF Edge, Sending, SetupPending, gpio
  <2>2. \A q \in Proc : pc[q] # "release"
    BY <1>0, <2>1, Units DEF Phases, Edges
  <2>3. Tracking => Tracking'
    BY <1>5, TrackingEdge
  <2>4. ~handler => UNCHANGED received
    BY <1>5 DEF Edge, Interrupt
  <2>5. Nothing /\ ~handler => Nothing' /\ ~handler'
    BY <2>1, <2>4 DEF Nothing, Zero, received
  <2>6. ASSUME NEW q \in Proc PROVE Try(q)' /\ Said(q)'
    <3>1. Try(q)'
      BY <1>0, <2>1, <2>2, <2>3, <2>5 DEF Try, Sending
    <3>2. Said(q)'
      BY <1>0, <2>1 DEF Said, Valid
    <3>q. QED
      BY <3>1, <3>2
  <2>q. QED
    BY <1>2, <2>6
<1>6. ASSUME NEW p \in Proc, Call(p) \/ Check(p) \/ Load(p) \/ Store(p) PROVE TrustInv'
  <2>1. \E label \in {"check", "closed", "load", "store", "reset"} :
          pc' = [pc EXCEPT ![p] = label]
    BY <1>6 DEF Call, Check, Load, Store, Goto
  <2>2. pc[p] # "closed" \/ \A q \in Proc : pc[q] = "closed"
    BY <1>0, <1>6 DEF Call, Check, Load, Store
  <2>q. QED
    BY <1>4, <2>1, <2>2
<1>7. ASSUME NEW p \in Proc, Reset(p) PROVE TrustInv'
  <2>1. pc[p] = "reset" /\ pc' = [pc EXCEPT ![p] = "release"] /\ started' = FALSE
    BY <1>7 DEF Reset, Goto
  <2>2. pc'[p] = "release"
    BY <1>0, <2>1
  <2>3. Try(p)' /\ Said(p)'
    BY <2>1, <2>2 DEF Try, Said
  <2>q. QED
    BY <1>3, <2>1, <2>3
<1>8. ASSUME NEW p \in Proc, Release(p) PROVE TrustInv'
  <2>1. /\ pc[p] = "release" /\ pc' = [pc EXCEPT ![p] = "setup"]
        /\ started' = (started \/ (detect /\ handler))
    BY <1>8 DEF Release, Goto
  <2>2. ~handler /\ ~started
    BY <1>0, <2>1 DEF OffInv, Undetected, Try
  <2>3. pc'[p] = "setup" /\ ~started'
    BY <1>0, <2>1, <2>2
  <2>4. Try(p)' /\ Said(p)'
    BY <2>3 DEF Try, Said
  <2>q. QED
    BY <1>3, <2>1, <2>4
<1>9. ASSUME NEW p \in Proc, Setup(p) PROVE TrustInv'
  <2>1. /\ pc[p] = "setup" /\ UNCHANGED <<received, sensor>>
        /\ \/ pc' = [pc EXCEPT ![p] = "enable"] /\ handler' = TRUE
           \/ pc' = [pc EXCEPT ![p] = "reply"] /\ UNCHANGED handler
    BY <1>9 DEF Setup, Goto
  <2>2. ~handler /\ ~started /\ Nothing
    BY <1>0, <2>1 DEF OffInv, Undetected, Try, Phases
  <2>3. ~started' /\ Nothing'
    BY <2>1, <2>2 DEF received, Nothing, Zero
  <2>4. CASE pc' = [pc EXCEPT ![p] = "enable"] /\ handler' = TRUE
    <3>1. pc'[p] = "enable"
      BY <1>0, <2>4
    <3>2. Try(p)' /\ Said(p)'
      BY <2>3, <2>4, <3>1 DEF Try, Said
    <3>q. QED
      BY <1>3, <2>1, <2>4, <3>2
  <2>5. CASE pc' = [pc EXCEPT ![p] = "reply"] /\ UNCHANGED handler
    <3>1. pc'[p] = "reply"
      BY <1>0, <2>5
    <3>2. Try(p)' /\ Said(p)'
      BY <2>2, <2>3, <2>5, <3>1 DEF Try, Said
    <3>q. QED
      BY <1>3, <2>1, <2>5, <3>2
  <2>q. QED
    BY <2>1, <2>4, <2>5
<1>10. ASSUME NEW p \in Proc, Enable(p) PROVE TrustInv'
  <2>1. /\ pc[p] = "enable" /\ pc' = [pc EXCEPT ![p] = "reply"] /\ detect' = TRUE
        /\ UNCHANGED <<received, elapsed, handler, sensor>>
    BY <1>10 DEF Enable, Goto
  <2>2. /\ handler /\ ~started /\ Nothing
        /\ sent = Edges \/ (sent = 0 /\ elapsed = 0)
    BY <1>0, <2>1 DEF Try, Phases
  <2>3. Nothing' /\ Unit' = Unit /\ (Prefix => Prefix') /\ Bits' = 0
    BY <2>1, <2>2, Units DEF received, sensor, Nothing, Zero, Unit, Prefix, Bits
  <2>4. CASE sent = Edges
    <3>1. ~Sending'
      BY <2>1, <2>4, Units DEF Sending, Edges, sensor
    <3>2. pc'[p] = "reply"
      BY <1>0, <2>1
    <3>3. Try(p)' /\ Said(p)'
      BY <2>3, <3>1, <3>2 DEF Try, Said
    <3>q. QED
      BY <1>3, <2>1, <3>3
  <2>5. CASE sent = 0 /\ elapsed = 0
    <3>1. Prefix
      BY <2>2, EmptyPrefix
    <3>2. handler' /\ detect' /\ ~started' /\ sent' = 0 /\ elapsed' = 0
      BY <2>1, <2>2, <2>5 DEF received, sensor
    <3>3. Tracking'
      BY <2>3, <3>1, <3>2 DEF Tracking
    <3>4. pc'[p] = "reply"
      BY <1>0, <2>1
    <3>5. Try(p)' /\ Said(p)'
      BY <3>3, <3>4 DEF Try, Said
    <3>q. QED
      BY <1>3, <2>1, <3>5
  <2>q. QED
    BY <2>2, <2>4, <2>5
<1>11. ASSUME NEW p \in Proc, Reply(p) PROVE TrustInv'
  <2>1. pc[p] = "reply" /\ ~Sending /\ UNCHANGED frame
    BY <1>0, <1>11 DEF Reply, sensor, OffInv
  <2>2. \/ pc' = [pc EXCEPT ![p] = "retoggle"]
        \/ pc' = [pc EXCEPT ![p] = "opened"] /\ msg' = [dht |-> dht, ok |-> FALSE]
        \/ pc' = [pc EXCEPT ![p] = "opened"] /\ msg' = [dht |-> dht, ok |-> TRUE] /\ Valid(dht)
    BY <1>11 DEF Reply, Answer, Retry, Goto
  <2>3. CASE pc' = [pc EXCEPT ![p] = "retoggle"]
    BY <1>4, <2>1, <2>3
  <2>4. CASE pc' = [pc EXCEPT ![p] = "opened"] /\ msg' = [dht |-> dht, ok |-> FALSE]
    <3>1. pc'[p] = "opened" /\ ~msg'.ok
      BY <1>0, <2>4
    <3>2. Try(p)' /\ Said(p)'
      BY <3>1 DEF Try, Said
    <3>q. QED
      BY <1>3, <2>1, <2>4, <3>2
  <2>5. CASE /\ pc' = [pc EXCEPT ![p] = "opened"] /\ msg' = [dht |-> dht, ok |-> TRUE]
             /\ Valid(dht)
    <3>1. pc'[p] = "opened" /\ msg'.dht = dht
      BY <1>0, <2>5
    <3>2. ~Nothing
      BY <2>5 DEF Nothing, Valid, Zero
    <3>3. Tracking
      BY <1>0, <2>1, <3>2 DEF Try
    <3>4. dht = frame
      BY <2>1, <3>3, TrackingEnd
    <3>5. Valid(frame')
      BY <2>1, <2>5, <3>4
    <3>6. Try(p)' /\ Said(p)'
      BY <2>1, <3>1, <3>4, <3>5 DEF Try, Said
    <3>q. QED
      BY <1>3, <2>1, <2>5, <3>6
  <2>q. QED
    BY <2>2, <2>3, <2>4, <2>5
<1>12. ASSUME NEW p \in Proc, Close(p) \/ Drop(p) \/ Toggle(p) \/ Free(p) PROVE TrustInv'
  <2>1. /\ pc[p] # "closed"
        /\ \E label \in {"drop", "toggle", "free", "refree", "closed", "reset"} :
             pc' = [pc EXCEPT ![p] = label]
    BY <1>12 DEF Close, Drop, Toggle, Free, Goto
  <2>q. QED
    BY <1>4, <2>1
<1>13. CASE UNCHANGED vars
  BY <1>0, <1>1, <1>13
     DEF vars, TrustInv, Try, Said, Tracking, Nothing, Sending, Prefix, Unit, Bits, Valid
<1>q. QED
  BY <1>5, <1>6, <1>7, <1>8, <1>9, <1>10, <1>11, <1>12, <1>13 DEF Next, Step

\* For processes that come one after the other, any number of tries, a sensor that may be
\* silent or send wrong sums, and whoever owns the interrupt: a file that says "OK" has
\* the bytes that the sensor sent for it, if the interrupts were set up in time.
THEOREM OkIsTrue == ASSUME LongStart, ~Late PROVE Spec => []Trustworthy
<1>1. Init => OffInv
  BY DEF Init, OffInv, Alone, Undetected, Label, Opening, Clearing
<1>2. Init => TrustInv
  BY DEF Init, TrustInv, Phases
<1>3. PlainTypes /\ ReceivedInv /\ OffInv /\ TrustInv /\ [Next]_vars => TrustInv'
  BY TrustStep
<1>4. TrustInv => Trustworthy
  BY DEF TrustInv, Trustworthy
<1>q. QED
  BY <1>1, <1>2, <1>3, <1>4, ReceivedInit, PlainInit, ReceivedStep, PlainStep, OffStep,
     PTL DEF Spec

-----------------------------------------------------------------------------
(* How many tries the processes that still close can spoil.                 *)

\* A process that has decremented Device_Open still flips the detection and then frees
\* the interrupt, and each of these spoils one try at most.
Left == Cardinality({q \in Proc : pc[q] \in Clearing})
          + Cardinality({q \in Proc : pc[q] = "toggle"})

Most == 2 * (Cardinality(Proc) - 1)

Unready == IF handler /\ ~started THEN 0 ELSE 1
Spoiled == IF Tracking THEN 0 ELSE 1

\* The tries made, the one that is spoiled and those that can still be are not more than
\* the closing processes account for and the first, which may find their handler.
Health(p) == ~fault =>
  /\ pc[p] \in {"reset", "release", "setup"} =>
       /\ retry[p] + Left <= Most + (IF retry[p] = 0 THEN 0 ELSE 1)
       /\ retry[p] > 0 => ~handler
  /\ pc[p] \in {"release", "setup"} /\ retry[p] > 0 => ~started
  /\ pc[p] = "enable" => retry[p] + Left + Unready <= Most + 1
  /\ pc[p] = "reply" => retry[p] + Left + Spoiled <= Most + 1
  /\ pc[p] \in {"setup", "enable", "reply"} => Valid(frame)
  /\ pc[p] \in {"setup", "enable"} => sent = 0
  /\ pc[p] \in {"retoggle", "refree"} => retry[p] > 0 /\ retry[p] + Left <= Most + 1
  /\ pc[p] = "opened" => msg.ok

\* The number is one, and its parts are counted for finitely many processes.
LEMMA LeftCounts ==
  ASSUME IsFiniteSet(Proc)
  PROVE  /\ Left \in Nat /\ Cardinality(Proc) \in Nat /\ Most \in Int
         /\ \A p \in Proc : pc[p] \notin Clearing => Left <= Most
<1> DEFINE A == {q \in Proc : pc[q] \in Clearing}
           B == {q \in Proc : pc[q] = "toggle"}
<1>1. /\ IsFiniteSet(A) /\ Cardinality(A) \in Nat /\ IsFiniteSet(B) /\ Cardinality(B) \in Nat
      /\ Cardinality(Proc) \in Nat
  <2>1. A \subseteq Proc /\ B \subseteq Proc
    OBVIOUS
  <2> HIDE DEF A, B
  <2>q. QED
    BY <2>1, FS_Subset, FS_CardinalityType
<1>2. ASSUME NEW p \in Proc, pc[p] \notin Clearing
      PROVE  Cardinality(A) <= Cardinality(Proc) - 1 /\ Cardinality(B) <= Cardinality(Proc) - 1
  <2> DEFINE Rest == Proc \ {p}
  <2>1. A \subseteq Rest /\ B \subseteq Rest
    BY <1>2 DEF Clearing
  <2>2. IsFiniteSet(Rest) /\ Cardinality(Rest) = Cardinality(Proc) - 1
    BY FS_RemoveElement
  <2> HIDE DEF A, B, Rest
  <2>q. QED
    BY <2>1, <2>2, FS_Subset
<1>3. Left = Cardinality(A) + Cardinality(B)
  BY DEF Left
<1> HIDE DEF A, B
<1>4. Left \in Nat /\ Most \in Int
  BY <1>1, <1>3 DEF Most
<1>5. ASSUME NEW p \in Proc, pc[p] \notin Clearing PROVE Left <= Most
  BY <1>1, <1>2, <1>3, <1>5 DEF Most
<1>q. QED
  BY <1>1, <1>4, <1>5

\* A step outside clear_interrupts leaves it as it is.
LEMMA LeftSame ==
  ASSUME pc \in [Proc -> Label], NEW p \in Proc, NEW label, pc' = [pc EXCEPT ![p] = label],
         pc[p] \notin Clearing, label \notin Clearing
  PROVE  Left' = Left
<1>1. \A q \in Proc : /\ pc'[q] \in Clearing <=> pc[q] \in Clearing
                      /\ pc'[q] = "toggle" <=> pc[q] = "toggle"
  BY DEF Clearing
<1>2. /\ {q \in Proc : pc'[q] \in Clearing} = {q \in Proc : pc[q] \in Clearing}
      /\ {q \in Proc : pc'[q] = "toggle"} = {q \in Proc : pc[q] = "toggle"}
  BY <1>1
<1>q. QED
  BY <1>2 DEF Left

\* Each of the two steps of a process that closes lowers it.
LEMMA LeftLess ==
  ASSUME IsFiniteSet(Proc), pc \in [Proc -> Label], NEW p \in Proc,
         \/ pc[p] = "toggle" /\ pc' = [pc EXCEPT ![p] = "free"]
         \/ pc[p] = "free" /\ pc' = [pc EXCEPT ![p] = "closed"]
  PROVE  Left' = Left - 1
<1> DEFINE A == {q \in Proc : pc[q] \in Clearing}
           B == {q \in Proc : pc[q] = "toggle"}
           A2 == {q \in Proc : pc'[q] \in Clearing}
           B2 == {q \in Proc : pc'[q] = "toggle"}
<1>1. IsFiniteSet(A) /\ IsFiniteSet(B)
  <2>1. A \subseteq Proc /\ B \subseteq Proc
    OBVIOUS
  <2> HIDE DEF A, B
  <2>q. QED
    BY <2>1, FS_Subset
<1>2. Cardinality(A) \in Nat /\ Cardinality(B) \in Nat
  BY <1>1, FS_CardinalityType
<1>3. Left = Cardinality(A) + Cardinality(B) /\ Left' = Cardinality(A2) + Cardinality(B2)
  BY DEF Left, Clearing
<1>4. CASE pc[p] = "toggle" /\ pc' = [pc EXCEPT ![p] = "free"]
  <2>1. A2 = A /\ B2 = B \ {p} /\ p \in B
    BY <1>4 DEF Clearing
  <2> HIDE DEF A, B, A2, B2
  <2>2. Cardinality(B2) = Cardinality(B) - 1
    BY <1>1, <2>1, FS_RemoveElement
  <2>q. QED
    BY <1>2, <1>3, <2>1, <2>2
<1>5. CASE pc[p] = "free" /\ pc' = [pc EXCEPT ![p] = "closed"]
  <2>1. A2 = A \ {p} /\ B2 = B /\ p \in A
    BY <1>5 DEF Clearing
  <2> HIDE DEF A, B, A2, B2
  <2>2. Cardinality(A2) = Cardinality(A) - 1
    BY <1>1, <2>1, FS_RemoveElement
  <2>q. QED
    BY <1>2, <1>3, <2>1, <2>2
<1>q. QED
  BY <1>4, <1>5

HealthInv == Phases /\ \A p \in Proc : Health(p)

\* Every step keeps the account.
LEMMA HealthStep ==
  ASSUME LongStart, ~Late, ~IrqTaken, IsFiniteSet(Proc), Tries >= 2 * Cardinality(Proc),
         PlainTypes, ReceivedInv, TriesInv, IInv, HealthInv, [Next]_vars, ~met'
  PROVE  HealthInv'
<1>0. ~met
  BY MetStays
<1>1. /\ pc \in [Proc -> Label] /\ retry \in [Proc -> 0..Tries] /\ sent \in 0..Edges
      /\ Tries \in Nat /\ Edges \in Nat \ {0}
  BY Units, KmAssumption DEF TriesInv, PlainTypes, Edges
<1>2. /\ OneHolder /\ Phases
      /\ \A p, q \in Proc : pc[p] \in Counted /\ q # p => pc[q] \notin Counted
  BY <1>0 DEF IInv, Exclusive, OneHolder, HealthInv
<1>3. Phases'
  BY <1>1, <1>2, PhasesStep
<1>4. /\ Left \in Nat /\ Cardinality(Proc) \in Nat /\ Most \in Int
      /\ \A p \in Proc : pc[p] \notin Clearing => Left <= Most
  BY LeftCounts
<1>5. \A p \in Proc : Health(p)
  BY DEF HealthInv
<1>6. ASSUME \A p \in Proc : Health(p)' PROVE HealthInv'
  BY <1>3, <1>6 DEF HealthInv
<1>7. ASSUME NEW p, pc'[p] \notin Counted \/ pc'[p] = "drop" PROVE Health(p)'
  BY <1>7 DEF Health, Counted, Label, Opening, Clearing
<1>8. ASSUME NEW p \in Proc, pc[p] \in Counted, NEW label, pc' = [pc EXCEPT ![p] = label],
             Health(p)'
      PROVE  HealthInv'
  <2>1. ASSUME NEW q \in Proc, q # p PROVE Health(q)'
    <3>1. pc'[q] \notin Counted
      BY <1>1, <1>2, <1>8, <2>1
    <3>q. QED
      BY <1>7, <3>1
  <2>q. QED
    BY <1>6, <1>8, <2>1
<1>9. ASSUME UNCHANGED <<received, elapsed, gpio, sensor, fault, msg, retry>>,
             \A p \in Proc : pc'[p] \in Counted \ {"drop"} => pc'[p] = pc[p] /\ Left' = Left
      PROVE  HealthInv'
  <2>1. /\ UNCHANGED <<started, bitcount, bytecount, dht, elapsed, detect, handler, frame>>
        /\ UNCHANGED <<sent, fault, msg, retry>>
    BY <1>9 DEF received, gpio, sensor
  <2>2. /\ Unready' = Unready /\ Spoiled' = Spoiled
        /\ Valid(frame') <=> Valid(frame)
    BY <2>1 DEF Unready, Spoiled, Tracking, Prefix, Unit, Bits
  <2>3. ASSUME NEW p \in Proc, pc'[p] \in Counted \ {"drop"} PROVE Health(p)'
    <3>1. pc'[p] = pc[p] /\ Left' = Left /\ Health(p) /\ retry'[p] = retry[p]
      BY <1>5, <1>9, <2>1, <2>3
    <3>2. Most' = Most
      BY DEF Most
    <3>q. QED
      BY <2>1, <2>2, <3>1, <3>2 DEF Health
  <2>q. QED
    BY <1>6, <1>7, <2>3
<1>10. CASE Edge
  <2>1. /\ UNCHANGED <<pc, handler, msg, frame, retry, fault>> /\ sent < Edges
        /\ \A q \in Proc : pc[q] \notin {"setup", "enable"}
    BY <1>10 DEF Edge, Sending, SetupPending, gpio, locals, history
  <2>2. \A q \in Proc : pc[q] # "release"
    BY <1>1, <1>2, <2>1 DEF Phases
  <2>3. Spoiled' <= Spoiled /\ Spoiled' \in 0..1 /\ Spoiled \in 0..1
    BY <1>10, TrackingEdge DEF Spoiled
  <2>4. Left' = Left /\ Most' = Most
    BY <2>1 DEF Left, Most
  <2>5. ASSUME NEW p \in Proc PROVE Health(p)'
    <3>1. Health(p) /\ pc[p] \notin {"release", "setup", "enable"} /\ retry[p] \in Nat
      BY <1>1, <1>5, <2>1, <2>2
    <3>2. retry'[p] = retry[p] /\ pc'[p] = pc[p] /\ Valid(frame') = Valid(frame)
      BY <2>1
    <3>3. pc[p] = "reply" /\ ~fault => retry[p] + Left + Spoiled' <= Most + 1
      BY <1>4, <2>3, <3>1 DEF Health
    <3>q. QED
      BY <2>1, <2>4, <3>1, <3>2, <3>3 DEF Health
  <2>q. QED
    BY <1>6, <2>5
<1>11. ASSUME NEW p \in Proc, Call(p) \/ Check(p) \/ Load(p) \/ Close(p) PROVE HealthInv'
  <2>1. /\ UNCHANGED <<received, elapsed, gpio, sensor, fault, msg, retry>>
        /\ pc[p] \in {"closed", "check", "load", "opened"}
        /\ \E label \in {"check", "closed", "load", "store", "drop"} :
             pc' = [pc EXCEPT ![p] = label]
    BY <1>11 DEF Call, Check, Load, Close, Goto, locals, history
  <2>2. PICK label \in {"check", "closed", "load", "store", "drop"} :
             pc' = [pc EXCEPT ![p] = label]
    BY <2>1
  <2>3. Left' = Left
    BY <1>1, <2>1, <2>2, LeftSame DEF Clearing
  <2>4. ASSUME NEW q \in Proc, pc'[q] \in Counted \ {"drop"} PROVE pc'[q] = pc[q]
    BY <1>1, <2>2, <2>4 DEF Counted, Label, Opening, Clearing
  <2>q. QED
    BY <1>9, <2>1, <2>3, <2>4
<1>12. ASSUME NEW p \in Proc, Store(p) PROVE HealthInv'
  <2>1. /\ pc[p] = "store" /\ pc' = [pc EXCEPT ![p] = "reset"]
        /\ retry' = [retry EXCEPT ![p] = 0] /\ UNCHANGED gpio
    BY <1>12 DEF Store, Goto
  <2>2. Left' = Left /\ Left <= Most
    BY <1>1, <1>4, <2>1, LeftSame DEF Clearing
  <2>3. pc'[p] = "reset" /\ retry'[p] = 0 /\ Most' = Most
    BY <1>1, <2>1 DEF Most
  <2>4. Health(p)'
    BY <1>4, <2>2, <2>3 DEF Health
  <2>5. ASSUME NEW q \in Proc, q # p PROVE Health(q)'
    <3>1. pc'[q] \notin Counted
      BY <1>0, <1>1, <2>1, <2>5 DEF IInv, Exclusive, Incrementing
    <3>q. QED
      BY <1>7, <3>1
  <2>q. QED
    BY <1>6, <2>4, <2>5
<1>13. ASSUME NEW p \in Proc, Reset(p) PROVE HealthInv'
  <2>1. /\ pc[p] = "reset" /\ pc' = [pc EXCEPT ![p] = "release"] /\ started' = FALSE
        /\ UNCHANGED <<handler, retry, fault>>
    BY <1>13 DEF Reset, Goto, gpio, locals, history
  <2>2. Left' = Left /\ pc'[p] = "release" /\ Most' = Most
    BY <1>1, <2>1, LeftSame DEF Clearing, Most
  <2>3. Health(p)'
    BY <1>5, <2>1, <2>2 DEF Health
  <2>q. QED
    BY <1>8, <2>1, <2>3 DEF Counted, Label, Opening, Clearing
<1>14. ASSUME NEW p \in Proc, Release(p) PROVE HealthInv'
  <2>1. /\ pc[p] = "release" /\ pc' = [pc EXCEPT ![p] = "setup"]
        /\ started' = (started \/ (detect /\ handler)) /\ UNCHANGED <<handler, retry>>
        /\ fault' = (fault \/ sent' # 0 \/ ~Valid(frame'))
    BY <1>14 DEF Release, Goto, gpio, locals
  <2>2. Left' = Left /\ pc'[p] = "setup" /\ Most' = Most
    BY <1>1, <2>1, LeftSame DEF Clearing, Most
  <2>3. ~fault' => ~fault /\ sent' = 0 /\ Valid(frame')
    BY <2>1, Zenon
  <2>4. ~handler /\ ~started => ~started'
    BY <2>1, Zenon
  <2>5. Health(p)'
    BY <1>5, <2>1, <2>2, <2>3, <2>4 DEF Health
  <2>q. QED
    BY <1>8, <2>1, <2>5 DEF Counted, Label, Opening, Clearing
<1>15. ASSUME NEW p \in Proc, Setup(p) PROVE HealthInv'
  <2>1. /\ pc[p] = "setup" /\ UNCHANGED <<started, frame, sent, retry, fault>>
        /\ \/ ~handler /\ handler' = TRUE /\ pc' = [pc EXCEPT ![p] = "enable"]
           \/ handler /\ pc' = [pc EXCEPT ![p] = "reply"]
    BY <1>15 DEF Setup, Goto, received, sensor, locals, history
  <2>2. Left' = Left /\ Most' = Most
    BY <1>1, <2>1, LeftSame DEF Clearing, Most
  <2>3. /\ retry[p] \in Nat /\ Spoiled' \in 0..1 /\ Unready' \in 0..1
        /\ Valid(frame') <=> Valid(frame)
    BY <1>1, <2>1 DEF Spoiled, Unready
  <2>4. CASE handler' = TRUE /\ pc' = [pc EXCEPT ![p] = "enable"]
    <3>1. pc'[p] = "enable"
      BY <1>1, <2>4
    <3>2. ~started => Unready' = 0
      BY <2>1, <2>4 DEF Unready
    <3>3. ~fault => retry[p] + Left + Unready' <= Most + 1
      BY <1>4, <1>5, <2>1, <2>3, <3>2 DEF Health
    <3>4. Health(p)'
      BY <1>5, <2>1, <2>2, <2>3, <3>1, <3>3 DEF Health
    <3>q. QED
      BY <1>8, <2>1, <2>4, <3>4 DEF Counted, Label, Opening, Clearing
  <2>5. CASE handler /\ pc' = [pc EXCEPT ![p] = "reply"]
    <3>1. pc'[p] = "reply"
      BY <1>1, <2>5
    <3>2. ~fault => retry[p] + Left + Spoiled' <= Most + 1
      BY <1>4, <1>5, <2>1, <2>3, <2>5 DEF Health
    <3>3. Health(p)'
      BY <1>5, <2>1, <2>2, <2>3, <3>1, <3>2 DEF Health
    <3>q. QED
      BY <1>8, <2>1, <2>5, <3>3 DEF Counted, Label, Opening, Clearing
  <2>q. QED
    BY <2>1, <2>4, <2>5
<1>16. ASSUME NEW p \in Proc, Enable(p) PROVE HealthInv'
  <2>1. /\ pc[p] = "enable" /\ pc' = [pc EXCEPT ![p] = "reply"] /\ detect' = TRUE
        /\ UNCHANGED <<started, bitcount, bytecount, dht, elapsed, handler>>
        /\ UNCHANGED <<frame, sent, retry, fault>>
    BY <1>16 DEF Enable, Goto, received, sensor, locals, history
  <2>2. Left' = Left /\ pc'[p] = "reply" /\ Most' = Most
    BY <1>1, <2>1, LeftSame DEF Clearing, Most
  <2>3. /\ retry[p] \in Nat /\ Spoiled' \in 0..1 /\ Unready \in 0..1
        /\ Valid(frame') <=> Valid(frame)
    BY <1>1, <2>1 DEF Spoiled, Unready
  <2>4. ~fault /\ Unready = 0 => Spoiled' = 0
    <3> SUFFICES ASSUME ~fault, Unready = 0 PROVE Tracking'
      BY DEF Spoiled
    <3>1. handler /\ ~started /\ sent = 0
      BY <1>5, <2>1 DEF Health, Unready
    <3>2. Nothing /\ elapsed = 0
      BY <1>1, <1>2, <2>1, <3>1 DEF Phases
    <3>3. Prefix /\ Bits = 0
      BY <3>2, EmptyPrefix, Units DEF Bits, Nothing
    <3>4. Prefix' /\ Bits' = 0
      BY <2>1, <3>3 DEF Prefix, Unit, Bits
    <3>q. QED
      BY <2>1, <3>1, <3>2, <3>4 DEF Tracking
  <2>5. ~fault => retry[p] + Left + Spoiled' <= Most + 1
    BY <1>4, <1>5, <2>1, <2>3, <2>4 DEF Health
  <2>6. Health(p)'
    BY <1>5, <2>1, <2>2, <2>3, <2>5 DEF Health
  <2>q. QED
    BY <1>8, <2>1, <2>6 DEF Counted, Label, Opening, Clearing
<1>17. ASSUME NEW p \in Proc, Reply(p) PROVE HealthInv'
  <2>1. pc[p] = "reply" /\ ~Sending /\ UNCHANGED fault
    BY <1>0, <1>17 DEF Reply, history
  <2>2. CASE Valid(dht)
    <3>1. pc' = [pc EXCEPT ![p] = "opened"] /\ msg' = [dht |-> dht, ok |-> TRUE]
      BY <1>17, <2>2 DEF Reply, Answer, Retry, Goto
    <3>2. pc'[p] = "opened" /\ msg'.ok
      BY <1>1, <3>1
    <3>3. Health(p)'
      BY <3>2 DEF Health
    <3>q. QED
      BY <1>8, <2>1, <3>1, <3>3 DEF Counted, Label, Opening, Clearing
  <2>3. CASE ~Valid(dht) /\ fault
    <3>1. Health(p)'
      BY <2>1, <2>3 DEF Health
    <3>2. \E label : pc' = [pc EXCEPT ![p] = label]
      BY <1>17, <2>3 DEF Reply, Answer, Retry, Goto
    <3>q. QED
      BY <1>8, <2>1, <3>1, <3>2 DEF Counted, Label, Opening, Clearing
  <2>4. CASE ~Valid(dht) /\ ~fault
    <3>1. ~Tracking
      <4>1. Valid(frame)
        BY <1>5, <2>1, <2>4 DEF Health
      <4>q. QED
        BY <2>1, <2>4, <4>1, TrackingEnd
    <3>2. retry[p] \in Nat /\ retry[p] + Left + 1 <= Most + 1
      BY <1>1, <1>5, <2>1, <2>4, <3>1 DEF Health, Spoiled
    <3>3. retry[p] + 1 < Tries
      BY <1>1, <1>4, <3>2 DEF Most
    <3>4. retry' = [retry EXCEPT ![p] = @ + 1]
      <4>1. retry[p] + 1 # Tries
        BY <1>1, <3>2, <3>3
      <4>2. Retry(p, "retoggle")
        BY <1>17, <2>4, <4>1, Zenon DEF Reply
      <4>q. QED
        BY <4>2 DEF Retry
    <3>5. retry'[p] = retry[p] + 1 /\ retry'[p] # Tries
      BY <1>1, <3>2, <3>3, <3>4
    <3>6. pc' = [pc EXCEPT ![p] = "retoggle"]
      BY <1>17, <2>4, <3>5 DEF Reply, Answer, Retry, Goto
    <3>7. Left' = Left /\ pc'[p] = "retoggle" /\ Most' = Most
      BY <1>1, <2>1, <3>6, LeftSame DEF Clearing, Most
    <3>8. retry'[p] > 0 /\ retry'[p] + Left' <= Most' + 1
      BY <1>4, <3>2, <3>5, <3>7
    <3>9. Health(p)'
      BY <3>7, <3>8 DEF Health
    <3>q. QED
      BY <1>8, <2>1, <3>6, <3>9 DEF Counted, Label, Opening, Clearing
  <2>q. QED
    BY <2>2, <2>3, <2>4
<1>18. ASSUME NEW p \in Proc, Drop(p) PROVE HealthInv'
  <2>1. pc[p] = "drop" /\ pc' = [pc EXCEPT ![p] = "toggle"]
    BY <1>18 DEF Drop, Goto
  <2>2. Health(p)'
    BY <1>1, <1>7, <2>1 DEF Counted, Clearing
  <2>q. QED
    BY <1>8, <2>1, <2>2 DEF Counted, Label, Opening, Clearing
<1>19. ASSUME NEW p \in Proc, Toggle(p) PROVE HealthInv'
  <2>1. UNCHANGED <<started, handler, msg, frame, sent, retry, fault>>
    BY <1>19 DEF Toggle, received, sensor, locals, history
  <2>2. CASE pc[p] = "retoggle"
    <3>1. pc' = [pc EXCEPT ![p] = "refree"]
      BY <1>19, <2>2 DEF Toggle, Goto
    <3>2. Left' = Left /\ pc'[p] = "refree" /\ Most' = Most
      BY <1>1, <2>2, <3>1, LeftSame DEF Clearing, Most
    <3>3. Health(p)'
      BY <1>5, <2>1, <2>2, <3>2 DEF Health
    <3>q. QED
      BY <1>8, <2>2, <3>1, <3>3 DEF Counted, Label, Opening, Clearing
  <2>3. CASE pc[p] = "toggle"
    <3>1. pc' = [pc EXCEPT ![p] = "free"]
      BY <1>19, <2>3 DEF Toggle, Goto
    <3>2. Left' = Left - 1 /\ Most' = Most
      BY <1>1, <2>3, <3>1, LeftLess DEF Most
    <3>3. ASSUME NEW q \in Proc PROVE Health(q)'
      <4>1. CASE q = p
        <5>1. pc'[q] \notin Counted
          BY <1>1, <3>1, <4>1 DEF Counted, Clearing
        <5>q. QED
          BY <1>7, <5>1
      <4>2. CASE q # p
        <5>1. pc'[q] = pc[q] /\ retry'[q] = retry[q] /\ retry[q] \in Nat
          BY <1>1, <2>1, <3>1, <4>2
        <5>2. /\ Unready' = Unready /\ Unready \in 0..1 /\ Spoiled \in 0..1
              /\ Spoiled' \in 0..1 /\ Valid(frame') = Valid(frame)
          BY <2>1 DEF Unready, Spoiled
        <5>3. pc[q] = "reply" /\ ~fault => retry[q] + Left' + Spoiled' <= Most + 1
          BY <1>4, <1>5, <3>2, <5>1, <5>2 DEF Health
        <5>q. QED
          BY <1>4, <1>5, <2>1, <3>2, <5>1, <5>2, <5>3 DEF Health
      <4>q. QED
        BY <4>1, <4>2
    <3>q. QED
      BY <1>6, <3>3
  <2>q. QED
    BY <1>19, <2>2, <2>3 DEF Toggle
<1>20. ASSUME NEW p \in Proc, Free(p) PROVE HealthInv'
  <2>1. /\ UNCHANGED <<started, msg, frame, sent, retry, fault>> /\ handler' = FALSE
    BY <1>20 DEF Free, received, sensor, locals, history
  <2>2. CASE pc[p] = "refree"
    <3>1. pc' = [pc EXCEPT ![p] = "reset"]
      BY <1>20, <2>2 DEF Free, Goto
    <3>2. Left' = Left /\ pc'[p] = "reset" /\ Most' = Most
      BY <1>1, <2>2, <3>1, LeftSame DEF Clearing, Most
    <3>3. Health(p)'
      BY <1>1, <1>5, <2>1, <2>2, <3>2 DEF Health
    <3>q. QED
      BY <1>8, <2>2, <3>1, <3>3 DEF Counted, Label, Opening, Clearing
  <2>3. CASE pc[p] = "free"
    <3>1. pc' = [pc EXCEPT ![p] = "closed"]
      BY <1>20, <2>3 DEF Free, Goto
    <3>2. Left' = Left - 1 /\ Most' = Most
      BY <1>1, <2>3, <3>1, LeftLess DEF Most
    <3>3. ASSUME NEW q \in Proc PROVE Health(q)'
      <4>1. CASE q = p
        <5>1. pc'[q] \notin Counted
          BY <1>1, <3>1, <4>1 DEF Counted
        <5>q. QED
          BY <1>7, <5>1
      <4>2. CASE q # p
        <5>1. pc'[q] = pc[q] /\ retry'[q] = retry[q] /\ retry[q] \in Nat
          BY <1>1, <2>1, <3>1, <4>2
        <5>2. /\ Unready' \in 0..1 /\ Unready \in 0..1 /\ Spoiled \in 0..1
              /\ Spoiled' \in 0..1 /\ Valid(frame') = Valid(frame)
          BY <2>1 DEF Unready, Spoiled
        <5>3. /\ pc[q] = "reply" /\ ~fault => retry[q] + Left' + Spoiled' <= Most + 1
              /\ pc[q] = "enable" /\ ~fault => retry[q] + Left' + Unready' <= Most + 1
          BY <1>4, <1>5, <3>2, <5>1, <5>2 DEF Health
        <5>q. QED
          BY <1>4, <1>5, <2>1, <3>2, <5>1, <5>2, <5>3 DEF Health
      <4>q. QED
        BY <4>1, <4>2
    <3>q. QED
      BY <1>6, <3>3
  <2>q. QED
    BY <1>20, <2>2, <2>3 DEF Free
<1>21. CASE UNCHANGED vars
  <2>1. Left' = Left /\ UNCHANGED pc
    BY <1>21 DEF vars, Left
  <2>q. QED
    BY <1>9, <1>21, <2>1 DEF vars, received, gpio, sensor
<1>q. QED
  BY <1>10, <1>11, <1>12, <1>13, <1>14, <1>15, <1>16, <1>17, <1>18, <1>19, <1>20, <1>21
     DEF Next, Step

\* For any number of processes, until one passes the test of Device_Open between
\* another's test and its increment, two tries for each make up for everything that those
\* still closing take away from the one that opens: it reads a sensor that answers each
\* try rightly.
THEOREM HealthyAnswered ==
  ASSUME LongStart, ~Late, ~IrqTaken, IsFiniteSet(Proc), Tries >= 2 * Cardinality(Proc)
  PROVE  Spec => []HealthyAnswer
<1> DEFINE HInv == ~met => HealthInv
<1>1. Init => TriesInv
  BY KmAssumption DEF Init, TriesInv, Label, Opening, Clearing
<1>2. Init => HInv
  BY DEF Init, HealthInv, Phases, Health
<1>3. PlainTypes /\ ReceivedInv /\ TriesInv /\ IInv /\ HInv /\ [Next]_vars => HInv'
  BY HealthStep, MetStays
<1>4. HInv => HealthyAnswer
  BY DEF HealthInv, Health, HealthyAnswer
<1> HIDE DEF HInv
<1>q. QED
  BY <1>1, <1>2, <1>3, <1>4, IInvHolds, ReceivedInit, PlainInit, ReceivedStep, PlainStep,
     TriesStep, PTL DEF Spec

=============================================================================
