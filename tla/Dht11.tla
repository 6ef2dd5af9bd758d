-------------------------------- MODULE Dht11 --------------------------------
(***************************************************************************)
(* Humid_Dht11/dht11.c: readers call dht11_read_raw concurrently, the      *)
(* sensor sends a frame after each start pulse, and the interrupt handler  *)
(* stores its edges while it is installed.  Time is abstracted to whether  *)
(* the last values are still valid and to the wait's running out, which it *)
(* may do between any two edges: a sensor that stops in the middle of a    *)
(* frame looks the same to the driver.                                     *)
(***************************************************************************)
EXTENDS Dht11Frame

CONSTANTS
  Reader,    \* processes that read from sysfs
  NoReader,  \* the mutex is free
  Frames,    \* the frames the sensor may send
  Faults     \* may the gpio, the irq or the clock refuse?

ASSUME ReaderAssumption ==
  NoReader \notin Reader /\ Frames \subseteq Frame /\ Faults \in BOOLEAN

VARIABLES
  lock,        \* holder of dht11->lock
  fresh,       \* timestamp + DHT11_DATA_VALID_TIME has not passed
  values,      \* temperature and humidity
  num_edges, edges,
  done,        \* the completion
  irq,         \* dht11_handle_irq is installed
  frame, sent, \* what the sensor sends, and how many edges it has sent
  whole,       \* history: had it sent its last bit when the handler was removed?
  pc, ret      \* where each reader is and what its wait returned

vars == <<lock, fresh, values, num_edges, edges, done, irq, frame, sent, whole,
          pc, ret>>

device == <<fresh, values>>
store  == <<num_edges, edges, done>>
sensor == <<frame, sent, whole>>

Label == {"idle", "want", "check", "start", "request", "wait", "free", "decode",
          "ok", "err"}

NoValues == [temperature |-> 0, humidity |-> 0]

\* dht11_probe makes the first read find the timestamp expired.
Init ==
  /\ lock = NoReader
  /\ fresh = FALSE /\ values = NoValues
  /\ num_edges = -1 /\ edges = <<>> /\ done = FALSE
  /\ irq = FALSE
  /\ frame \in Frames /\ sent = DHT11_EDGES_PER_READ + 1 /\ whole = TRUE
  /\ pc = [r \in Reader |-> "idle"]
  /\ ret = [r \in Reader |-> "none"]

Goto(r, label) == pc' = [pc EXCEPT ![r] = label]

-----------------------------------------------------------------------------
(* dht11_read_raw.                                                          *)

Call(r) ==
  /\ pc[r] = "idle"
  /\ Goto(r, "want")
  /\ UNCHANGED <<lock, device, store, irq, sensor, ret>>

Acquire(r) ==
  /\ pc[r] = "want"
  /\ lock = NoReader
  /\ lock' = r
  /\ Goto(r, "check")
  /\ UNCHANGED <<device, store, irq, sensor, ret>>

UseValues(r) ==
  /\ pc[r] = "check"
  /\ fresh
  /\ Goto(r, "ok")
  /\ UNCHANGED <<lock, device, store, irq, sensor, ret>>

\* Without reinit_completion.
BeginNoReinit(r) ==
  /\ pc[r] = "check"
  /\ ~fresh
  /\ num_edges' = 0 /\ edges' = <<>>
  /\ Goto(r, "start")
  /\ UNCHANGED <<lock, device, done, irq, sensor, ret>>

\* reinit_completion and num_edges = 0 arm the handler; a clock that is too
\* coarse is refused before.
Begin(r) ==
  /\ pc[r] = "check"
  /\ ~fresh
  /\ num_edges' = 0 /\ edges' = <<>> /\ done' = FALSE
  /\ Goto(r, "start")
  /\ UNCHANGED <<lock, device, irq, sensor, ret>>

RefuseClock(r) ==
  /\ pc[r] = "check"
  /\ ~fresh /\ Faults
  /\ Goto(r, "err")
  /\ UNCHANGED <<lock, device, store, irq, sensor, ret>>

\* A failing gpio returns at once, with the mutex held.
StartKeepsLock(r) ==
  /\ pc[r] = "start"
  /\ \/ /\ Goto(r, "request")
        /\ frame' \in Frames /\ sent' \in {0, DHT11_EDGES_PER_READ + 1} /\ whole' = TRUE
     \/ /\ Faults
        /\ Goto(r, "idle")
        /\ UNCHANGED sensor
  /\ UNCHANGED <<lock, device, store, irq, ret>>

\* The start pulse: the line is driven low and let go, which ends what the sensor was
\* sending; it answers with a frame, or not at all.
Start(r) ==
  /\ pc[r] = "start"
  /\ \/ /\ Goto(r, "request")
        /\ frame' \in Frames /\ sent' \in {0, DHT11_EDGES_PER_READ + 1} /\ whole' = TRUE
     \/ /\ Faults
        /\ Goto(r, "err")
        /\ UNCHANGED sensor
  /\ UNCHANGED <<lock, device, store, irq, ret>>

RequestIrq(r) ==
  /\ pc[r] = "request"
  /\ \/ Goto(r, "wait") /\ irq' = TRUE
     \/ Faults /\ Goto(r, "err") /\ UNCHANGED irq
  /\ UNCHANGED <<lock, device, store, sensor, ret>>

Sending == sent < DHT11_EDGES_PER_READ + 1

\* wait_for_completion_killable_timeout: a second of HZ, whatever the sensor does.
Waited(r, result) ==
  /\ pc[r] = "wait"
  /\ IF result = "done" THEN done /\ done' = FALSE ELSE ~done /\ UNCHANGED done
  /\ ret' = [ret EXCEPT ![r] = result]
  /\ Goto(r, "free")
  /\ UNCHANGED <<lock, device, num_edges, edges, irq, sensor>>

Completed(r) == Waited(r, "done")
TimedOut(r)  == Waited(r, "timeout")
Killed(r)    == Waited(r, "killed")

\* The falling edge that ends the last bit is the last but one of a wave.
Hear == whole' = (sent >= DHT11_EDGES_PER_READ)

\* The killed reader leaves before free_irq.
FreeIrqUnlessKilled(r) ==
  /\ pc[r] = "free"
  /\ irq' = (ret[r] = "killed") /\ Hear
  /\ Goto(r, IF \/ ret[r] = "killed"
                \/ ret[r] = "timeout" /\ num_edges < DHT11_EDGES_PER_READ - 1
             THEN "err" ELSE "decode")
  /\ UNCHANGED <<lock, device, store, frame, sent, ret>>

\* The least number of edges is taken two too low.
FreeIrqTooFew(r) ==
  /\ pc[r] = "free"
  /\ irq' = FALSE /\ Hear
  /\ Goto(r, IF \/ ret[r] = "killed"
                \/ ret[r] = "timeout" /\ num_edges < DHT11_EDGES_PER_READ - 3
             THEN "err" ELSE "decode")
  /\ UNCHANGED <<lock, device, store, frame, sent, ret>>

\* free_irq, until which edges are still stored; then the tests of the wait's result.
FreeIrq(r) ==
  /\ pc[r] = "free"
  /\ irq' = FALSE /\ Hear
  /\ Goto(r, IF \/ ret[r] = "killed"
                \/ ret[r] = "timeout" /\ num_edges < DHT11_EDGES_PER_READ - 1
             THEN "err" ELSE "decode")
  /\ UNCHANGED <<lock, device, store, frame, sent, ret>>

\* With no offset to try, ret would still be what the wait returned.
DecodeEdges(r) ==
  /\ pc[r] = "decode"
  /\ IF FirstOffset(edges) < 0
       THEN /\ Goto(r, IF ret[r] = "timeout" THEN "ok" ELSE "err")
            /\ UNCHANGED device
       ELSE LET s == Search(edges)
            IN  /\ Goto(r, IF s.ok THEN "ok" ELSE "err")
                /\ fresh' = (fresh \/ s.stamped)
                /\ values' = IF s.ok THEN s.values ELSE values
  /\ UNCHANGED <<lock, store, irq, sensor, ret>>

\* The label err: of the code, where a successful read ends too.
Return(r) ==
  /\ pc[r] \in {"ok", "err"}
  /\ num_edges' = -1
  /\ lock' = NoReader
  /\ Goto(r, "idle")
  /\ ret' = [ret EXCEPT ![r] = "none"]
  /\ UNCHANGED <<device, edges, done, irq, sensor>>

-----------------------------------------------------------------------------
(* dht11_handle_irq, run for an edge of the sensor; the clock.              *)

\* One edge too many.
ArmedPastEnd == irq /\ num_edges \in 0..DHT11_EDGES_PER_READ

Armed == irq /\ num_edges \in 0..(DHT11_EDGES_PER_READ - 1)

Edge ==
  /\ Sending
  /\ sent' = sent + 1
  /\ IF Armed
       THEN /\ edges' = Append(edges, Wave(frame)[sent'])
            /\ num_edges' = num_edges + 1
            /\ done' = (done \/ num_edges' >= DHT11_EDGES_PER_READ)
       ELSE UNCHANGED store
  /\ UNCHANGED <<lock, device, irq, frame, whole, pc, ret>>

Expire ==
  /\ fresh
  /\ fresh' = FALSE
  /\ UNCHANGED <<lock, values, store, irq, sensor, pc, ret>>

Read(r) ==
  \/ UseValues(r) \/ Begin(r) \/ RefuseClock(r) \/ Start(r) \/ RequestIrq(r)
  \/ Completed(r) \/ TimedOut(r) \/ FreeIrq(r) \/ DecodeEdges(r) \/ Return(r)

Next ==
  \/ \E r \in Reader : Call(r) \/ Acquire(r) \/ Read(r) \/ Killed(r)
  \/ Edge
  \/ Expire

\* A reader that holds the mutex goes on; the wait ends at the latest with its
\* timeout, whatever the sensor does.  The mutex is handed to each waiter in the end.
Fairness == \A r \in Reader : WF_vars(Read(r)) /\ SF_vars(Acquire(r))

Spec == Init /\ [][Next]_vars

FairSpec == Spec /\ Fairness

-----------------------------------------------------------------------------
(* Properties.                                                              *)

\* Types; edges never grows past the array it stands for.
TypeOK ==
  /\ lock \in Reader \cup {NoReader}
  /\ fresh \in BOOLEAN /\ done \in BOOLEAN /\ irq \in BOOLEAN
  /\ values \in [temperature : Int, humidity : Int]
  /\ num_edges \in -1..DHT11_EDGES_PER_READ
  /\ Len(edges) <= DHT11_EDGES_PER_READ
  /\ frame \in Frames /\ sent \in 0..(DHT11_EDGES_PER_READ + 1) /\ whole \in BOOLEAN
  /\ pc \in [Reader -> Label]
  /\ ret \in [Reader -> {"none", "done", "timeout", "killed"}]

\* The decoder runs on enough edges, all of one transmission, none missing
\* between them: a completion or an edge left over from an earlier read that
\* timed out or was killed never gets into this one.
OwnEdges ==
  \A r \in Reader :
    pc[r] = "decode" =>
      /\ num_edges >= DHT11_EDGES_PER_READ - 1
      /\ \E k \in 0..2 : edges = Window(frame, k, num_edges)

\* A frame that means something, and edges of it that a read has stored, to the end of
\* its last bit.
Case == {c \in {f \in Frame : Sound(f)} \X (0..2)
                \X {DHT11_EDGES_PER_READ - 1, DHT11_EDGES_PER_READ} :
           c[2] + c[3] \in {DHT11_EDGES_PER_READ, DHT11_EDGES_PER_READ + 1}}

Right(c) ==
  LET found == Search(Window(c[1], c[2], c[3]))
  IN  found.ok /\ found.stamped /\ found.values = Meaning(c[1])

\* The windows through which some frame is read as anything but what it means.
Misread == {<<c[2], c[3]>> : c \in {c \in Case : ~Right(c)}}

\* A reader that comes to decode has the frame to its last bit, and then the search
\* (261-267) gives it the values of every frame that means something, at the one offset
\* of the three where the frame starts, however many of the first edges were lost and
\* whether the wait completed or ran out between the last edges.  The one exception
\* that the test at 255 lets through: no edge was lost and the wait ran out, or
\* the sensor fell silent, just before the last bit.
SoundFramesDecode ==
  \A r \in Reader : pc[r] = "decode" =>
    \E k \in 0..2 :
      /\ IF whole THEN k + num_edges \in {DHT11_EDGES_PER_READ, DHT11_EDGES_PER_READ + 1}
                  ELSE k = 0 /\ num_edges = DHT11_EDGES_PER_READ - 1
      /\ edges = Window(frame, k, num_edges)
      /\ whole => <<k, num_edges>> \notin Misread

\* However a read ended, once the mutex is free the handler is gone and
\* num_edges says "no transmission in progress" (95).
QuietWhenFree ==
  /\ lock = NoReader => num_edges = -1
  /\ irq => lock # NoReader /\ pc[lock] \in {"wait", "free"}

\* A reader's stage as SensorReads has it.
Stage ==
  [r \in Reader |-> IF pc[r] \in {"idle", "ok", "err"} THEN pc[r] ELSE "reading"]

\* The driver implements SensorReads: a read that succeeds, from the sensor or from the
\* values of the last two seconds (208), returns what the sensor sent last if that
\* was a sound frame and came to its end; it says what else an answer may be; and no
\* other reader starts the sensor before that answer has been returned.
Sensor == INSTANCE SensorReads WITH stage <- Stage
SensorSpec == Sensor!Spec

\* Every read ends, though the sensor may be silent and other readers keep coming.
EveryReadEnds == \A r \in Reader : pc[r] = "want" ~> pc[r] = "idle"

=============================================================================
