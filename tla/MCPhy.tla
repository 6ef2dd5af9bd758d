-------------------------------- MODULE MCPhy --------------------------------
(***************************************************************************)
(* Phy instantiated for TLC: the liveness of the link state machine under  *)
(* FairSpec, and what the comments of phy.c promise of it.                 *)
(***************************************************************************)
EXTENDS Phy

\* History: did phy_suspend, which runs after the machine's unlock (1206), come
\* after a phy_start that had already resumed the PHY?
VARIABLE overtaken

Watch == overtaken' = (~powered' /\ (overtaken \/ (powered /\ state # "HALTED")))

WatchedInit == Init /\ overtaken = FALSE

WatchedSpec == WatchedInit /\ [][Next /\ Watch]_<<vars, overtaken>>

WatchedFairSpec == WatchedSpec /\ Fairness

-----------------------------------------------------------------------------
(* What the machine brings about.                                           *)

\* A PHY that the driver has started is not left suspended, or about to be resumed,
\* unless phy_suspend overtook the phy_resume of that start.
StartedIsPowered ==
  session = "attached" /\ state # "HALTED" /\ ~powered =>
    overtaken \/ pc["user"] = "resume"

\* The driver has started the PHY and leaves it alone.
Tracking ==
  /\ session = "attached" /\ UserAt("idle") /\ state \notin {"READY", "HALTED"}
  /\ ~overtaken

\* A halted, polled PHY whose link was up has its carrier taken away (1155), unless the
\* driver starts it again first.
HaltDropsCarrier ==
  irq = "POLL" /\ state = "HALTED" /\ link ~> ~carrier \/ state # "HALTED"

\* The cable changes for ever, or the MAC reports for ever.
Disturbed == []<><<CableChange \/ MacInterrupt>>_vars

\* Whatever was plugged, stopped and restarted before, a polled PHY that is left alone
\* ends up running if it has a partner, and without link and carrier if it has none
\* (and negotiates), from any state of the machine.
PolledLinkTracked ==
  \/ []<>(irq = "POLL" /\ Tracking =>
             IF cable THEN state = "RUNNING" /\ carrier
                      ELSE autoneg => ~link /\ ~carrier)
  \/ Disturbed

Settled == Tracking /\ state \in {"RUNNING", "NOLINK", "CHANGELINK"}

\* No link change is lost between interrupt, worker and machine: while the
\* machine only moves between these three states, link ends up as the cable is.
LinkTracked ==
  []<>(irq = "VALID" /\ Settled => link = cable) \/ Disturbed

\* The same with phy_mac_interrupt (1226): once the MAC has reported the link and
\* is silent, the machine's state agrees with it.  A MAC that reports without
\* end could postpone the machine for ever: each report cancels it once more.
MacLinkTracked ==
  \/ []<>(irq = "IGNORE" /\ Settled /\ link = cable =>
             state = IF link THEN "RUNNING" ELSE "NOLINK")
  \/ Disturbed

-----------------------------------------------------------------------------
(* What the comments say and the code does not do.                          *)

\* 967: "PHY_HALTED shall guarantee phy_change() will not reenable interrupts."
HaltedNotReenabled ==
  [][state = "HALTED" /\ state' = "HALTED" => (intr_on' => intr_on)]_vars

\* 754-755: phy_error "tells the controller the link is down".
ErrorDropsCarrier == state = "HALTED" /\ link ~> ~carrier \/ state # "HALTED"

=============================================================================
