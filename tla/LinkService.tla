----------------------------- MODULE LinkService -----------------------------
(***************************************************************************)
(* What the PHY layer promises the MAC driver that uses it, without its    *)
(* interrupts, workers and timeouts: the driver connects a PHY, starts and *)
(* stops it and disconnects it, and in between the carrier comes and goes. *)
(* Only a call of the driver starts a PHY, the carrier comes on only in a  *)
(* PHY that was started, and a PHY that is not connected changes nothing.  *)
(***************************************************************************)
VARIABLES
  mode,     \* "detached", "ready", "started" or "halted"
  calling,  \* is a call of the driver (or of ethtool) under way?
  carrier

vars == <<mode, calling, carrier>>

Init == mode = "detached" /\ calling = FALSE /\ carrier = FALSE

\* A call begins or ends; phy_connect and phy_start take effect at their beginning.
Call == calling' # calling /\ UNCHANGED <<mode, carrier>>

Connect ==
  /\ ~calling /\ mode = "detached"
  /\ mode' = "ready" /\ carrier' = FALSE
  /\ calling' \in BOOLEAN

Start ==
  /\ ~calling /\ mode \in {"ready", "halted"}
  /\ mode' = "started" /\ calling' = TRUE
  /\ UNCHANGED carrier

\* ethtool's restart of the negotiation also starts a PHY that was never started,
\* but not one that was halted.
Restart ==
  /\ calling /\ mode = "ready"
  /\ mode' = "started" /\ calling' = FALSE
  /\ UNCHANGED carrier

\* phy_stop, or an error at any time
Halt ==
  /\ mode \in {"ready", "started"}
  /\ mode' = "halted"
  /\ UNCHANGED <<calling, carrier>>

CarrierOn ==
  /\ mode = "started" /\ carrier' = TRUE
  /\ UNCHANGED <<mode, calling>>

CarrierOff ==
  /\ mode \in {"started", "halted"} /\ carrier' = FALSE
  /\ UNCHANGED <<mode, calling>>

\* The carrier is left as it is.
Disconnect ==
  /\ calling /\ mode # "detached"
  /\ mode' = "detached" /\ calling' = FALSE
  /\ UNCHANGED carrier

Next ==
  Call \/ Connect \/ Start \/ Restart \/ Halt \/ CarrierOn \/ CarrierOff \/ Disconnect

Spec == Init /\ [][Next]_vars

=============================================================================
