-------------------------------- MODULE PhyLed --------------------------------
(***************************************************************************)
(* The LED that Ethernet_Failed_Led/phy.c blinks when it reports a lost    *)
(* link: phy_print_status starts a kernel thread for each report, and the  *)
(* threads share the LED, its GPIO and the static variable `end' of        *)
(* gpio_blink, with no lock.                                               *)
(* Time is in seconds, as gpio_blink compares it (tv_sec); the clock is    *)
(* not set back while a thread runs.                                       *)
(***************************************************************************)
EXTENDS Integers

CONSTANTS
  Thread,    \* the threads that may run at once
  Duration,  \* seconds a thread blinks for; 5 in the code
  Horizon,   \* bound on the clock
  GpioValid  \* gpio_is_valid(led_green)

ASSUME LedAssumption ==
  /\ Duration \in Nat \ {0}
  /\ Horizon \in Nat
  /\ GpioValid \in BOOLEAN

VARIABLES
  led,        \* does the LED shine?
  requested,  \* is the GPIO requested?
  end,        \* end.tv_sec, shared by the threads
  start,      \* start.tv_sec of each thread
  read,       \* what do_gettimeofday has read and not yet stored in end
  pc,         \* where each thread is in gpio_blink
  now,        \* the clock
  reported    \* history: when the link was reported for which a thread blinks

vars == <<led, requested, end, start, read, pc, now, reported>>

gpio == <<led, requested>>
times == <<start, read, reported>>

Label == {"none", "begin", "stamp", "test", "read", "store", "on", "off", "free"}

Init ==
  /\ led = FALSE /\ requested = FALSE
  /\ end = 0 /\ now = 0
  /\ start = [t \in Thread |-> 0] /\ read = [t \in Thread |-> 0]
  /\ reported = [t \in Thread |-> 0]
  /\ pc = [t \in Thread |-> "none"]

\* Thread t is at label `from' and goes on at `to'.
Step(t, from, to) == pc[t] = from /\ pc' = [pc EXCEPT ![t] = to]

-----------------------------------------------------------------------------
(* phy_print_status with no link; kthread_run may also fail, which leaves   *)
(* everything as it was.                                                    *)

Report(t) ==
  /\ now + Duration <= Horizon
  /\ Step(t, "none", "begin")
  /\ reported' = [reported EXCEPT ![t] = now]
  /\ UNCHANGED <<gpio, end, start, read, now>>

-----------------------------------------------------------------------------
(* function_thread: gpio_blink.                                             *)

\* A GPIO that nobody has requested is requested by gpio_direction_output.
Begin(t) ==
  /\ Step(t, "begin", IF GpioValid THEN "stamp" ELSE "none")
  /\ led' = (led /\ ~GpioValid) /\ requested' = (requested \/ GpioValid)
  /\ UNCHANGED <<end, times, now>>

\* Without do_gettimeofday(&start).
StampNot(t) ==
  /\ Step(t, "stamp", "test")
  /\ start' = [start EXCEPT ![t] = 0]
  /\ UNCHANGED <<gpio, end, read, now, reported>>

\* do_gettimeofday(&start)
Stamp(t) ==
  /\ Step(t, "stamp", "test")
  /\ start' = [start EXCEPT ![t] = now]
  /\ UNCHANGED <<gpio, end, read, now, reported>>

\* Waits for the time of its own, which another thread may have stepped over.
TestExactly(t) ==
  /\ Step(t, "test", IF end - start[t] # Duration THEN "read" ELSE "free")
  /\ UNCHANGED <<gpio, end, times, now>>

\* while (end.tv_sec - start.tv_sec < 5), of whatever thread `end' is
Test(t) ==
  /\ Step(t, "test", IF end - start[t] < Duration THEN "read" ELSE "free")
  /\ UNCHANGED <<gpio, end, times, now>>

\* do_gettimeofday(&end) reads the clock ...
Read(t) ==
  /\ Step(t, "read", "store")
  /\ read' = [read EXCEPT ![t] = now]
  /\ UNCHANGED <<gpio, end, start, now, reported>>

\* ... and stores what it read, which may be older than what `end' is by now.
Store(t) ==
  /\ Step(t, "store", "on")
  /\ end' = read[t]
  /\ read' = [read EXCEPT ![t] = 0]
  /\ UNCHANGED <<gpio, start, now, reported>>

On(t) ==
  /\ Step(t, "on", "off")
  /\ led' = TRUE
  /\ UNCHANGED <<requested, end, times, now>>

\* An LED that is taken to shine at 0.
OffActiveLow(t) ==
  /\ Step(t, "off", "test")
  /\ led' = TRUE
  /\ UNCHANGED <<requested, end, times, now>>

Off(t) ==
  /\ Step(t, "off", "test")
  /\ led' = FALSE
  /\ UNCHANGED <<requested, end, times, now>>

\* gpio_free, while the others may still blink; the thread's locals are gone.
Free(t) ==
  /\ Step(t, "free", "none")
  /\ requested' = FALSE
  /\ start' = [start EXCEPT ![t] = 0] /\ reported' = [reported EXCEPT ![t] = 0]
  /\ UNCHANGED <<led, end, read, now>>

Blink(t) ==
  Begin(t) \/ Stamp(t) \/ Test(t) \/ Read(t) \/ Store(t) \/ On(t) \/ Off(t) \/ Free(t)

\* The bound: the clock stops at Horizon, and a thread has begun by then or has the
\* time it needs.
Tick ==
  /\ now < Horizon
  /\ now + Duration < Horizon \/ \A t \in Thread : pc[t] \notin {"begin", "stamp"}
  /\ now' = now + 1
  /\ UNCHANGED <<gpio, end, times, pc>>

Next == Tick \/ \E t \in Thread : Report(t) \/ Blink(t)

\* Threads are scheduled (msleep returns), and time goes on.
Fairness == WF_vars(Tick) /\ \A t \in Thread : WF_vars(Blink(t))

Spec == Init /\ [][Next]_vars

FairSpec == Spec /\ Fairness

-----------------------------------------------------------------------------
(* Properties.                                                              *)

\* Types; the clock is ahead of everything that was read from it.
TypeOK ==
  /\ led \in BOOLEAN /\ requested \in BOOLEAN
  /\ now \in 0..Horizon
  /\ end \in 0..now
  /\ start \in [Thread -> 0..now] /\ read \in [Thread -> 0..now]
  /\ reported \in [Thread -> 0..now]
  /\ pc \in [Thread -> Label]

Blinking(t) == pc[t] \in Label \ {"none", "begin"}

\* Whoever was the last to blink has left the LED dark and the GPIO free, though each
\* thread frees the GPIO under the others and switches the LED on over their "off".
DarkInTheEnd == (\A t \in Thread : ~Blinking(t)) => ~led /\ ~requested

\* No thread stops before Duration has passed since its own report, though the
\* variable it tests may be the work of another thread or an earlier report.
LongEnough == \A t \in Thread : pc[t] = "free" => now - reported[t] >= Duration

\* Every report's thread ends, though the others keep overwriting `end', at times
\* with an older time.
EveryBlinkEnds == \A t \in Thread : pc[t] = "begin" ~> pc[t] = "none"

=============================================================================
