------------------------------ MODULE MCKthread ------------------------------
(***************************************************************************)
(* Kthread with thread.c, cut down to two threads, and one LED module.     *)
(***************************************************************************)
EXTENDS Kthread, TLC

CONSTANTS stopper, led, t1, t2, blinker

TwoAndOne == stopper :> <<t1, t2>> @@ led :> <<blinker>>

=============================================================================
