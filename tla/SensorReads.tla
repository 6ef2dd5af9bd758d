----------------------------- MODULE SensorReads -----------------------------
(***************************************************************************)
(* What a DHT11 promises the processes that read it through                *)
(* Humid_Dht11/dht11.c, without its edges, interrupt, wait and cache: a    *)
(* read that succeeds returns what the sensor sent last, if that was sound *)
(* and came to its end, and a new measurement never comes between a        *)
(* reader's answer and its return.                                         *)
(***************************************************************************)
EXTENDS Dht11Frame

CONSTANTS Reader, Frames

VARIABLES
  stage,   \* "idle", "reading", "ok" or "err" for each reader
  frame,   \* what the sensor sent last
  whole,   \* did it come to its last bit while somebody listened?
  values   \* what the driver keeps of it

vars == <<stage, frame, whole, values>>

Init ==
  /\ stage = [r \in Reader |-> "idle"]
  /\ frame \in Frames /\ whole = TRUE
  /\ values = [temperature |-> 0, humidity |-> 0]

Goto(r, s) == stage' = [stage EXCEPT ![r] = s]

\* Nobody has an answer that has not been given to its caller yet.
NoneAnswered == \A r \in Reader : stage[r] \in {"idle", "reading"}

Call(r) ==
  /\ stage[r] = "idle"
  /\ Goto(r, "reading")
  /\ UNCHANGED <<frame, whole, values>>

\* The sensor is asked for one reader at a time, who has no answer yet.
Measure ==
  /\ NoneAnswered /\ \E r \in Reader : stage[r] = "reading"
  /\ frame' \in Frames /\ whole' = TRUE
  /\ UNCHANGED <<stage, values>>

\* It stops, or takes too long.
Cut ==
  /\ NoneAnswered /\ \E r \in Reader : stage[r] = "reading"
  /\ whole' = FALSE
  /\ UNCHANGED <<stage, frame, values>>

\* The frames that an answer may be taken from: the one sent, if it is sound and whole.
\* Otherwise it may also be read one bit too early, which its sum need not betray; and if it
\* is cut, in no other way.
Taken ==
  CASE whole /\ Sound(frame) -> {frame}
    [] whole /\ ~Sound(frame) -> {frame, Shifted(frame)}
    [] ~whole -> {Shifted(frame)}

\* A sum that is right is enough for an answer, but if the frame is one of neither sensor
\* the answer is the one before it (161-173).
Succeed(r) ==
  /\ NoneAnswered /\ stage[r] = "reading"
  /\ \E f \in Taken : /\ ChecksumOk(f)
                      /\ values' = IF Sound(f) THEN Meaning(f) ELSE values
  /\ Goto(r, "ok")
  /\ UNCHANGED <<frame, whole>>

Fail(r) ==
  /\ NoneAnswered /\ stage[r] = "reading"
  /\ whole' \in {whole, FALSE}
  /\ Goto(r, "err")
  /\ UNCHANGED <<frame, values>>

Return(r) ==
  /\ stage[r] \in {"ok", "err"}
  /\ Goto(r, "idle")
  /\ UNCHANGED <<frame, whole, values>>

Next == Measure \/ Cut \/ \E r \in Reader : Call(r) \/ Succeed(r) \/ Fail(r) \/ Return(r)

Spec == Init /\ [][Next]_vars

=============================================================================
