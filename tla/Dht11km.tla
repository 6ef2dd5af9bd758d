------------------------------- MODULE Dht11km -------------------------------
(***************************************************************************)
(* DHT11_RPI/dht11km/dht11km.c: opening the device runs the whole          *)
(* transmission, up to Tries times, with static variables that the         *)
(* interrupt handler fills and no lock around them.  Processes open and    *)
(* close the device; the sensor answers a start pulse edge by edge.        *)
(*                                                                         *)
(* Durations are in microseconds, a byte has ByteBits bits.  detect stands *)
(* for the rising and the falling edge enable, which always change         *)
(* together.  A write to dht past its end changes nothing that is modelled.*)
(***************************************************************************)
EXTENDS Integers, Sequences, FiniteSets

CONSTANTS
  Proc,       \* processes that open the device
  Tries,      \* transmissions per open; 5 in the code
  ByteBits,   \* bits in a byte; 8 in the code
  Frames,     \* the frames the sensor may send
  Preambles,  \* how long its high start pulse may be measured
  Silent,     \* may the sensor fail to answer?
  Late,       \* may it answer before the interrupts are set up?
  Races,      \* what other processes may do while one opens the device: nothing
              \* ("none"), all but open it, too ("close"), or anything ("open")
  IrqTaken    \* may another driver own the interrupt?

ASSUME KmAssumption ==
  /\ Tries \in Nat \ {0} /\ ByteBits \in Nat \ {0}
  /\ Frames \subseteq [1..5 -> 0..(2 ^ ByteBits - 1)]
  /\ Preambles \subseteq Nat
  /\ Silent \in BOOLEAN /\ Late \in BOOLEAN
  /\ IrqTaken \in BOOLEAN
  /\ Races \subseteq {"none", "close", "open"}

VARIABLES
  Device_Open,
  started, bitcount, bytecount, dht,  \* what the handler has received
  elapsed,                            \* time since lasttv
  detect, handler,                    \* edge detection; is the irq ours?
  msg,
  frame, preamble, sent,              \* the sensor
  pc, seen, retry,                    \* each process: where, Device_Open as loaded, retry
  race,                               \* the one of Races that this behaviour has
  fault,                              \* has the sensor failed since the last opener came?
  met                                 \* has a process passed the test of Device_Open while
                                      \* another was between its test and its increment?

vars == <<Device_Open, started, bitcount, bytecount, dht, elapsed, detect, handler,
          msg, frame, preamble, sent, pc, seen, retry, race, fault, met>>

received == <<started, bitcount, bytecount, dht>>
sensor   == <<frame, preamble, sent>>
gpio     == <<detect, handler>>
locals   == <<seen, retry>>
history  == <<race, fault, met>>

Opening == {"check", "load", "store"}
Clearing == {"toggle", "free"}
Label == {"closed", "opened", "reset", "release", "setup", "enable", "reply",
          "retoggle", "refree", "drop"} \cup Opening \cup Clearing

Zero == [n \in 1..5 |-> 0]

\* dht[0..3] add up to dht[4], which is not 0.
Valid(d) == d[1] + d[2] + d[3] + d[4] = d[5] /\ d[5] > 0

\* Longer than every threshold of the handler.
Long == 100
Capped(t) == IF t > Long THEN Long ELSE t

-----------------------------------------------------------------------------
(* The sensor.                                                              *)

Edges == 4 + 10 * ByteBits

FrameBit(f, i) ==
  (f[(i \div ByteBits) + 1] \div 2 ^ (ByteBits - 1 - (i % ByteBits))) % 2

\* The line's level after edge k, and the length of the pulse the edge ends.
Level(k) == (k + 1) % 2

Pulse(k) ==
  CASE k = 1                -> 30
    [] k = 2                -> 80
    [] k = 3                -> preamble
    [] k > 3 /\ Level(k) = 1 -> 50
    [] OTHER                -> IF FrameBit(frame, (k - 5) \div 2) = 1 THEN 70 ELSE 26

Sending == sent < Edges

-----------------------------------------------------------------------------

Init ==
  /\ Device_Open = 0
  /\ started = FALSE /\ bitcount = 0 /\ bytecount = 0 /\ dht = Zero
  /\ elapsed = Long
  /\ detect = FALSE /\ handler = FALSE
  /\ msg = [dht |-> Zero, ok |-> FALSE]
  /\ frame \in Frames /\ preamble \in Preambles /\ sent = Edges
  /\ pc = [p \in Proc |-> "closed"]
  /\ seen = [p \in Proc |-> 0]
  /\ retry = [p \in Proc |-> 0]
  /\ race \in Races /\ fault = FALSE /\ met = FALSE

Goto(p, label) == pc' = [pc EXCEPT ![p] = label]

-----------------------------------------------------------------------------
(* irq_handler, run for an edge if detection is on and the irq is ours.     *)

NextBit ==
  IF bitcount + 1 = ByteBits
    THEN bitcount' = 0 /\ bytecount' = bytecount + 1
    ELSE bitcount' = bitcount + 1 /\ UNCHANGED bytecount

\* dht[bytecount] | (0x80 >> bitcount)
WithBit ==
  IF bytecount < 5
    THEN [dht EXCEPT ![bytecount + 1] = @ + 2 ^ (ByteBits - 1 - bitcount)]
    ELSE dht

\* The long pulse is taken for a bit.
ReceiveStart(level, data) ==
  IF level = 0 /\ started /\ data >= 15
    THEN /\ dht' = IF data > 60 THEN WithBit ELSE dht
         /\ NextBit
         /\ UNCHANGED started
    ELSE /\ started' = (started \/ (level = 1 /\ data > 40))
         /\ UNCHANGED <<bitcount, bytecount, dht>>

Receive(level, data) ==
  IF level = 0 /\ started /\ data >= 15 /\ data <= 80
    THEN /\ dht' = IF data > 60 THEN WithBit ELSE dht
         /\ NextBit
         /\ UNCHANGED started
    ELSE /\ started' = (started \/ (level = 1 /\ data > 40))
         /\ UNCHANGED <<bitcount, bytecount, dht>>

Interrupt(level, time) ==
  LET data == Capped(elapsed + time)
  IN  IF detect /\ handler
        THEN Receive(level, data) /\ elapsed' = 0
        ELSE elapsed' = data /\ UNCHANGED received

SetupPending == \E p \in Proc : pc[p] \in {"setup", "enable"}

Edge ==
  /\ Sending
  /\ Late \/ ~SetupPending
  /\ sent' = sent + 1
  /\ Interrupt(Level(sent'), Pulse(sent'))
  /\ UNCHANGED <<Device_Open, gpio, msg, frame, preamble, pc, locals, history>>

-----------------------------------------------------------------------------
(* read_dht11, the open.                                                    *)

Call(p) ==
  /\ pc[p] = "closed"
  /\ \/ race = "none" /\ \A q \in Proc : pc[q] = "closed"
     \/ race = "close" /\ \A q \in Proc : pc[q] \notin Opening
     \/ race = "open"
  /\ Goto(p, "check")
  /\ UNCHANGED <<Device_Open, received, elapsed, gpio, msg, sensor, locals, history>>

Incrementing == {"load", "store"}

Meets(p) == \E q \in Proc \ {p} : pc[q] \in Incrementing

\* Without the test.
CheckNothing(p) ==
  /\ pc[p] = "check"
  /\ Goto(p, "load")
  /\ met' = (met \/ Meets(p))
  /\ UNCHANGED <<Device_Open, received, elapsed, gpio, msg, sensor, locals, race, fault>>

Check(p) ==
  /\ pc[p] = "check"
  /\ IF Device_Open # 0 THEN Goto(p, "closed") /\ UNCHANGED met
                        ELSE Goto(p, "load") /\ met' = (met \/ Meets(p))
  /\ UNCHANGED <<Device_Open, received, elapsed, gpio, msg, sensor, locals, race, fault>>

\* Device_Open++ is a load and a store.
Load(p) ==
  /\ pc[p] = "load"
  /\ seen' = [seen EXCEPT ![p] = Device_Open]
  /\ Goto(p, "store")
  /\ UNCHANGED <<Device_Open, received, elapsed, gpio, msg, sensor, retry, history>>

Store(p) ==
  /\ pc[p] = "store"
  /\ Device_Open' = seen[p] + 1
  /\ retry' = [retry EXCEPT ![p] = 0]
  /\ fault' = FALSE
  /\ Goto(p, "reset")
  /\ UNCHANGED <<received, elapsed, gpio, msg, sensor, seen, race, met>>

\* The bytes are cleared only before the first try.
ResetFirst(p) ==
  /\ pc[p] = "reset"
  /\ started' = FALSE /\ bitcount' = 0 /\ bytecount' = 0
  /\ dht' = IF retry[p] = 0 THEN Zero ELSE dht
  /\ elapsed' = Long
  /\ sent' = Edges
  /\ Goto(p, "release")
  /\ UNCHANGED <<Device_Open, gpio, msg, frame, preamble, locals, history>>

\* start_read: the results are cleared and the line is pulled low for 20 ms, which
\* stops a sensor that is sending.  The handler ignores the edge if it runs.
Reset(p) ==
  /\ pc[p] = "reset"
  /\ started' = FALSE /\ bitcount' = 0 /\ bytecount' = 0 /\ dht' = Zero
  /\ elapsed' = Long
  /\ sent' = Edges
  /\ Goto(p, "release")
  /\ UNCHANGED <<Device_Open, gpio, msg, frame, preamble, locals, history>>

\* The line goes high again, an edge that a handler still installed takes for a
\* start; lasttv is set, and the sensor may answer.
Release(p) ==
  /\ pc[p] = "release"
  /\ started' = (started \/ (detect /\ handler))
  /\ elapsed' = 0
  /\ \/ sent' = 0 /\ frame' \in Frames /\ preamble' \in Preambles
     \/ Silent /\ sent' = Edges /\ UNCHANGED <<frame, preamble>>
  /\ fault' = (fault \/ sent' # 0 \/ ~Valid(frame'))
  /\ Goto(p, "setup")
  /\ UNCHANGED <<Device_Open, bitcount, bytecount, dht, gpio, msg, locals, race, met>>

\* setup_interrupts; its result is not looked at.
Setup(p) ==
  /\ pc[p] = "setup"
  /\ \/ /\ ~handler
        /\ handler' = TRUE
        /\ Goto(p, "enable")
     \/ /\ handler \/ IrqTaken
        /\ Goto(p, "reply")
        /\ UNCHANGED handler
  /\ UNCHANGED <<Device_Open, received, elapsed, detect, msg, sensor, locals, history>>

Enable(p) ==
  /\ pc[p] = "enable"
  /\ detect' = TRUE
  /\ Goto(p, "reply")
  /\ UNCHANGED <<Device_Open, received, elapsed, handler, msg, sensor, locals, history>>

\* The open ends with a message, which stands for its bytes and for "OK" or "BAD", and
\* with it the local variable retry.
Answer(p, ok) ==
  /\ msg' = [dht |-> dht, ok |-> ok]
  /\ retry' = [retry EXCEPT ![p] = 0]
  /\ Goto(p, "opened")

Retry(p, label) ==
  /\ retry' = [retry EXCEPT ![p] = @ + 1]
  /\ Goto(p, label)
  /\ UNCHANGED msg

\* The number of tries is not limited.
ReplyForEver(p) ==
  /\ pc[p] = "reply"
  /\ Sending => met
  /\ \/ Valid(dht) /\ Answer(p, TRUE)
     \/ /\ ~Valid(dht)
        /\ Goto(p, "retoggle")
        /\ UNCHANGED <<msg, retry>>
  /\ UNCHANGED <<Device_Open, received, elapsed, gpio, sensor, seen, history>>

\* The next try starts without clear_interrupts.
ReplyKeepsIrq(p) ==
  /\ pc[p] = "reply"
  /\ Sending => met
  /\ \/ Valid(dht) /\ Answer(p, TRUE)
     \/ ~Valid(dht) /\ retry[p] + 1 = Tries /\ Answer(p, FALSE)
     \/ ~Valid(dht) /\ retry[p] + 1 # Tries /\ Retry(p, "reset")
  /\ UNCHANGED <<Device_Open, received, elapsed, gpio, sensor, seen, history>>

\* clear_interrupts comes before the test for the last try.
ReplyClearsLast(p) ==
  /\ pc[p] = "reply"
  /\ Sending => met
  /\ \/ Valid(dht) /\ Answer(p, TRUE) /\ UNCHANGED detect
     \/ ~Valid(dht) /\ retry[p] + 1 = Tries /\ Answer(p, FALSE) /\ detect' = ~detect
     \/ ~Valid(dht) /\ retry[p] + 1 # Tries /\ Retry(p, "retoggle") /\ UNCHANGED detect
  /\ UNCHANGED <<Device_Open, received, elapsed, handler, sensor, seen, history>>

\* mdelay(10) outlasts the sensor, unless another process has started it meanwhile.
Reply(p) ==
  /\ pc[p] = "reply"
  /\ Sending => met
  /\ \/ Valid(dht) /\ Answer(p, TRUE)
     \/ ~Valid(dht) /\ retry[p] + 1 = Tries /\ Answer(p, FALSE)
     \/ ~Valid(dht) /\ retry[p] + 1 # Tries /\ Retry(p, "retoggle")
  /\ UNCHANGED <<Device_Open, received, elapsed, gpio, sensor, seen, history>>

-----------------------------------------------------------------------------
(* close_dht11, and clear_interrupts in both callers.                       *)

Close(p) ==
  /\ pc[p] = "opened"
  /\ seen' = [seen EXCEPT ![p] = Device_Open]
  /\ Goto(p, "drop")
  /\ UNCHANGED <<Device_Open, received, elapsed, gpio, msg, sensor, retry, history>>

Drop(p) ==
  /\ pc[p] = "drop"
  /\ Device_Open' = seen[p] - 1
  /\ Goto(p, "toggle")
  /\ UNCHANGED <<received, elapsed, gpio, msg, sensor, locals, history>>

\* The exclusive or turns detection off only if it was on.
Toggle(p) ==
  /\ pc[p] \in {"toggle", "retoggle"}
  /\ detect' = ~detect
  /\ Goto(p, IF pc[p] = "toggle" THEN "free" ELSE "refree")
  /\ UNCHANGED <<Device_Open, received, elapsed, handler, msg, sensor, locals, history>>

Free(p) ==
  /\ pc[p] \in {"free", "refree"}
  /\ handler' = FALSE
  /\ Goto(p, IF pc[p] = "free" THEN "closed" ELSE "reset")
  /\ UNCHANGED <<Device_Open, received, elapsed, detect, msg, sensor, locals, history>>

-----------------------------------------------------------------------------

Step(p) ==
  \/ Check(p) \/ Load(p) \/ Store(p) \/ Reset(p) \/ Release(p) \/ Setup(p) \/ Enable(p)
  \/ Reply(p) \/ Drop(p) \/ Toggle(p) \/ Free(p)

Next == Edge \/ \E p \in Proc : Call(p) \/ Close(p) \/ Step(p)

\* A system call that has begun goes on, and so does the sensor; nobody has to open
\* or close.
Fairness == WF_vars(Edge) /\ \A p \in Proc : WF_vars(Step(p))

Spec == Init /\ [][Next]_vars

FairSpec == Spec /\ Fairness

-----------------------------------------------------------------------------
(* Properties.                                                              *)

\* Types; and the handler never counts more bits than dht[5] holds, though it tests
\* no bound of its own (157).
TypeOK ==
  /\ Device_Open \in Int
  /\ started \in BOOLEAN /\ bitcount \in 0..(ByteBits - 1) /\ bytecount \in Nat
  /\ dht \in [1..5 -> 0..(2 ^ ByteBits - 1)]
  /\ elapsed \in 0..Long
  /\ detect \in BOOLEAN /\ handler \in BOOLEAN
  /\ msg \in [dht : [1..5 -> 0..(2 ^ ByteBits - 1)], ok : BOOLEAN]
  /\ frame \in Frames /\ preamble \in Preambles /\ sent \in 0..Edges
  /\ pc \in [Proc -> Label]
  /\ seen \in [Proc -> Int]
  /\ retry \in [Proc -> 0..Tries]
  /\ race \in Races /\ fault \in BOOLEAN /\ met \in BOOLEAN
  /\ race = "none" => bytecount * ByteBits + bitcount <= 5 * ByteBits

\* A file says "OK" only with the bytes the sensor sent for it, whatever earlier
\* tries and earlier files left behind (281: "if the result is trustworthy or not").
Trustworthy ==
  \A p \in Proc :
    race = "none" /\ pc[p] = "opened" /\ msg.ok => msg.dht = frame /\ Valid(frame)

\* A closed device detects no edges and owns no interrupt, and an open one does both,
\* however many tries it took.
QuietWhenClosed == race = "none" =>
  /\ (\A p \in Proc : pc[p] = "closed") => ~detect /\ ~handler
  /\ (\E p \in Proc : pc[p] = "opened") => detect /\ handler

Counted == Label \ (Opening \cup Clearing \cup {"closed"})

\* Device_Open is the number of processes that passed its increment and not yet
\* its decrement, and that is at most one (96: "Used to prevent multiple access to
\* device"), until two processes have passed the test before either has incremented it.
OpenCounts == ~met =>
  /\ Device_Open = Cardinality({p \in Proc : pc[p] \in Counted})
  /\ Device_Open <= 1

\* A sensor that always answers is read, even if another process that is still
\* closing the file takes the interrupt away from the one that opens it; until two
\* processes have passed the test as above.
HealthyAnswer == ~met => \A p \in Proc : pc[p] = "opened" /\ ~fault => msg.ok

\* Every open returns, with or without a result.
OpenReturns == \A p \in Proc : pc[p] = "check" ~> pc[p] \in {"opened", "closed"}

=============================================================================
