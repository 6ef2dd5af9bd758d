----------------------------- MODULE PhyLedProofs -----------------------------
(***************************************************************************)
(* For any set of threads, any duration and any horizon: what the threads  *)
(* overwrite in one another's `end' never cuts a blink short, and the last *)
(* one leaves the LED dark and the GPIO free.                              *)
(***************************************************************************)
EXTENDS PhyLed, TLAPS

\* Every time that was read is in the past, whoever stored it.
Times ==
  /\ now \in Nat /\ end \in Int /\ end <= now
  /\ start \in [Thread -> Int] /\ read \in [Thread -> Int] /\ reported \in [Thread -> Int]
  /\ \A t \in Thread : start[t] <= now /\ read[t] <= now /\ reported[t] <= now
  /\ pc \in [Thread -> Label]

\* A thread that has read the clock once did so after its report.
StartedAfter ==
  \A t \in Thread : pc[t] \notin {"none", "begin", "stamp"} => start[t] >= reported[t]

\* Who holds the LED on, and the GPIO.
Lit  == led => \E t \in Thread : pc[t] = "off"
Held == requested => \E t \in Thread : Blinking(t)

IInv == Times /\ StartedAfter /\ LongEnough /\ Lit /\ Held

-----------------------------------------------------------------------------

LEMMA IInvInit == Init => IInv
  BY LedAssumption DEF Init, IInv, Times, StartedAfter, LongEnough, Lit, Held, Label

\* The clock only moves away from every time that was read.
LEMMA TickStep == IInv /\ Tick => IInv'
<1> SUFFICES ASSUME IInv, Tick PROVE IInv'
  OBVIOUS
<1>1. now' = now + 1 /\ UNCHANGED <<led, requested, end, start, read, reported, pc>>
  BY DEF Tick, gpio, times
<1>2. Times' /\ StartedAfter' /\ LongEnough'
  BY <1>1, LedAssumption DEF IInv, Times, StartedAfter, LongEnough
<1>3. Lit' /\ Held'
  BY <1>1 DEF IInv, Lit, Held, Blinking
<1>q. QED
  BY <1>2, <1>3 DEF IInv

LEMMA ReportStep == ASSUME NEW t \in Thread PROVE IInv /\ Report(t) => IInv'
<1> SUFFICES ASSUME IInv, Report(t) PROVE IInv'
  OBVIOUS
<1>1. Times'
  BY DEF IInv, Times, Report, Step, gpio, Label
<1>2. StartedAfter' /\ LongEnough'
  BY DEF IInv, Times, StartedAfter, LongEnough, Report, Step, gpio
<1>3. Lit' /\ Held'
  BY DEF IInv, Times, Lit, Held, Blinking, Report, Step, gpio
<1>q. QED
  BY <1>1, <1>2, <1>3 DEF IInv

\* The steps of a thread keep the times in order.
LEMMA BlinkTimes ==
  ASSUME NEW t \in Thread PROVE IInv /\ Blink(t) => Times' /\ StartedAfter' /\ LongEnough'
<1> SUFFICES ASSUME IInv, Blink(t) PROVE Times' /\ StartedAfter' /\ LongEnough'
  OBVIOUS
<1> USE LedAssumption DEF IInv, Times, StartedAfter, LongEnough, Step, gpio, times, Label
<1>1. CASE Begin(t)
  BY <1>1 DEF Begin
<1>2. CASE Stamp(t)
  BY <1>2 DEF Stamp
<1>3. CASE Test(t)
  BY <1>3 DEF Test
<1>4. CASE Read(t)
  BY <1>4 DEF Read
<1>5. CASE Store(t)
  BY <1>5 DEF Store
<1>6. CASE On(t)
  BY <1>6 DEF On
<1>7. CASE Off(t)
  BY <1>7 DEF Off
<1>8. CASE Free(t)
  BY <1>8 DEF Free
<1>q. QED
  BY <1>1, <1>2, <1>3, <1>4, <1>5, <1>6, <1>7, <1>8 DEF Blink

\* A thread that leaves the LED's "on" takes the light with it, and one that ends the GPIO.
LEMMA BlinkGpio ==
  ASSUME NEW t \in Thread PROVE IInv /\ Blink(t) => Lit' /\ Held'
<1> SUFFICES ASSUME IInv, Blink(t) PROVE Lit' /\ Held'
  OBVIOUS
<1> USE DEF IInv, Times, Lit, Held, Blinking, Step, gpio, times, Label
<1>1. CASE Begin(t)
  BY <1>1, LedAssumption DEF Begin
<1>2. CASE Stamp(t)
  BY <1>2 DEF Stamp
<1>3. CASE Test(t)
  BY <1>3 DEF Test
<1>4. CASE Read(t)
  BY <1>4 DEF Read
<1>5. CASE Store(t)
  BY <1>5 DEF Store
<1>6. CASE On(t)
  BY <1>6 DEF On
<1>7. CASE Off(t)
  BY <1>7 DEF Off
<1>8. CASE Free(t)
  BY <1>8 DEF Free
<1>q. QED
  BY <1>1, <1>2, <1>3, <1>4, <1>5, <1>6, <1>7, <1>8 DEF Blink

LEMMA IInvStep == IInv /\ [Next]_vars => IInv'
<1>1. IInv /\ UNCHANGED vars => IInv'
  BY DEF vars, IInv, Times, StartedAfter, LongEnough, Lit, Held, Blinking
<1>2. ASSUME NEW t \in Thread PROVE IInv /\ Blink(t) => IInv'
  BY BlinkTimes, BlinkGpio DEF IInv
<1>q. QED
  BY <1>1, <1>2, TickStep, ReportStep DEF Next

THEOREM IInvHolds == Spec => []IInv
  BY IInvInit, IInvStep, PTL DEF Spec

\* No thread stops blinking before Duration has passed since the report it stands for,
\* though `end' is the work of all of them.
THEOREM BlinksLongEnough == Spec => []LongEnough
<1>1. IInv => LongEnough
  BY DEF IInv
<1>q. QED
  BY <1>1, IInvHolds, PTL

\* The last thread to blink leaves the LED dark and the GPIO free.
THEOREM LeftDark == Spec => []DarkInTheEnd
<1>1. IInv => DarkInTheEnd
  BY DEF IInv, Lit, Held, DarkInTheEnd, Blinking, Label
<1>q. QED
  BY <1>1, IInvHolds, PTL

=============================================================================
