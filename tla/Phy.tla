--------------------------------- MODULE Phy ---------------------------------
(***************************************************************************)
(* The PHY layer of Ethernet_Failed_Led/phy.c: the link state machine      *)
(* (phy_state_machine), the interrupt path (phy_interrupt, phy_change) and *)
(* the calls a MAC driver makes (phy_start, phy_stop, phy_start_aneg,      *)
(* phy_start_interrupts, phy_stop_interrupts, phy_stop_machine).           *)
(*                                                                         *)
(* Three threads share one phy_device:                                     *)
(*   "user"     the MAC driver and ethtool, serialised by rtnl_lock();     *)
(*   "change"   the worker that runs phydev->phy_queue   (phy_change);     *)
(*   "machine"  the worker that runs phydev->state_queue                   *)
(*              (phy_state_machine).                                       *)
(* The hard interrupt handler and the hardware are actions of their own.   *)
(* A section under phydev->lock is one step; what the code does between    *)
(* two such sections is a step of its own, named by the thread's label.    *)
(***************************************************************************)
EXTENDS Integers

CONSTANTS
  IrqModes,      \* what phydev->irq may be: a subset of IrqMode
  AnTimeout,     \* PHY_AN_TIMEOUT, in runs of the state machine
  ForceTimeout,  \* PHY_FORCE_TIMEOUT, likewise
  Faults,        \* may a register access or request_irq fail?
  SharedLine,    \* may another device on the line interrupt?
  DidInterrupt,  \* does the PHY driver implement did_interrupt?
  Restarts       \* may config_aneg restart a finished negotiation?

IrqMode == {"POLL", "IGNORE", "VALID"}

ASSUME PhyAssumption ==
  /\ IrqModes \subseteq IrqMode
  /\ AnTimeout \in Nat
  /\ ForceTimeout \in Nat
  /\ {Faults, SharedLine, DidInterrupt, Restarts} \subseteq BOOLEAN

VARIABLES
  \* fields of struct phy_device
  state, irq, autoneg, link, link_timeout,
  \* phydev->irq_disable, the line's disable depth in the kernel, and
  \* whether phy_interrupt is installed on it
  irq_disable, depth, handler,
  \* is the work item pending?
  phy_queue, state_queue,
  \* netif_carrier_ok() of the attached device
  carrier,
  \* the PHY: link partner present, auto-negotiation complete, interrupt
  \* status latched, interrupts enabled, not suspended
  cable, negotiated, latched, intr_on, powered,
  \* where each thread is, how many phy_error() calls it has still to make,
  \* and how far the MAC driver is through connect ... disconnect
  pc, errs, session

phydev  == <<state, irq, autoneg, link, link_timeout>>
line    == <<irq_disable, depth, handler>>
works   == <<phy_queue, state_queue>>
phy     == <<cable, negotiated, latched, intr_on, powered>>
control == <<pc, errs, session>>

vars == <<state, irq, autoneg, link, link_timeout, irq_disable, depth, handler,
          phy_queue, state_queue, carrier, cable, negotiated, latched, intr_on,
          powered, pc, errs, session>>

PhyState == {"DOWN", "STARTING", "READY", "PENDING", "UP", "AN", "RUNNING",
             "NOLINK", "FORCING", "CHANGELINK", "HALTED", "RESUMING"}

\* The states after PHY_UP in enum phy_state: `phydev->state > PHY_UP'.
BeyondUp == {"AN", "RUNNING", "NOLINK", "FORCING", "CHANGELINK", "HALTED",
             "RESUMING"}

BeforeUp == {"DOWN", "STARTING", "READY", "PENDING"}

Thread == {"user", "change", "machine"}

Label == {"idle", "halt", "cancel", "flush", "queue",
          "start_irq", "enable_intr", "resume", "aneg", "disable", "free",
          "cancel_work", "drain", "cancel_stop", "flush_stop", "stop",
          "lock", "enable_line", "check", "config", "ignore",
          "suspend", "done"}

-----------------------------------------------------------------------------
Init ==
  /\ state = "READY" /\ irq \in IrqModes /\ autoneg \in BOOLEAN
  /\ link = FALSE /\ link_timeout = 0
  /\ irq_disable = 0 /\ depth = 0 /\ handler = FALSE
  /\ phy_queue = FALSE /\ state_queue = FALSE
  /\ carrier = FALSE
  /\ cable \in BOOLEAN /\ negotiated = FALSE /\ latched = FALSE
  /\ intr_on = FALSE /\ powered = TRUE
  /\ pc = [t \in Thread |-> "idle"]
  /\ errs = [t \in Thread |-> 0]
  /\ session = "detached"

Goto(t, label) == pc' = [pc EXCEPT ![t] = label]

\* phy_interrupt_is_valid()
IrqIsValid == irq = "VALID"

\* What reading the PHY's status register shows.
LinkUp == cable /\ powered

-----------------------------------------------------------------------------
(* phy_error and phy_trigger_machine, run by any of the three threads.      *)

\* A thread inside cancel_delayed_work_sync(&phydev->state_queue): the work
\* is marked as being cancelled and cannot be queued by anybody.
Flushing == \E t \in Thread : pc[t] \in {"flush", "flush_stop"}

\* queue_delayed_work(..., &phydev->state_queue, ...)
QueueMachine == state_queue' = (state_queue \/ ~Flushing)

\* Where a thread goes on after phy_trigger_machine.
Return(t) == IF t = "machine" THEN "done"
             ELSE IF t = "user" /\ session = "stopping" THEN "free" ELSE "idle"

\* phy_error: HALTED under the lock, then phy_trigger_machine
Halt(t) ==
  /\ pc[t] = "halt"
  /\ state' = "HALTED"
  /\ errs' = [errs EXCEPT ![t] = @ - 1]
  /\ Goto(t, "cancel")
  /\ UNCHANGED <<irq, autoneg, link, link_timeout, line, works, carrier, phy,
                 session>>

\* cancel_delayed_work_sync takes the work off the queue ...
Cancel(t) ==
  /\ pc[t] \in {"cancel", "cancel_stop"}
  /\ ~Flushing
  /\ state_queue' = FALSE
  /\ Goto(t, IF pc[t] = "cancel" THEN "flush" ELSE "flush_stop")
  /\ UNCHANGED <<phydev, line, phy_queue, carrier, phy, errs, session>>

\* ... and waits for an execution that is under way to end.
Flush(t) ==
  /\ pc[t] \in {"flush", "flush_stop"}
  /\ pc["machine"] = "idle"
  /\ Goto(t, IF pc[t] = "flush" THEN "queue" ELSE "stop")
  /\ UNCHANGED <<phydev, line, works, carrier, phy, errs, session>>

\* The end of phy_trigger_machine; a caller that reports an error twice
\* starts phy_error again.
Queue(t) ==
  /\ pc[t] = "queue"
  /\ QueueMachine
  /\ Goto(t, IF errs[t] > 0 THEN "halt" ELSE Return(t))
  /\ UNCHANGED <<phydev, line, phy_queue, carrier, phy, errs, session>>


\* A phy_start_aneg that forgets the test at 685.
StartAnegHalted(t, next, failed, e) ==
  /\ pc[t] = "aneg"
  /\ Goto(t, next)
  /\ state' = IF autoneg THEN "AN" ELSE "FORCING"
  /\ link_timeout' = IF autoneg THEN AnTimeout ELSE ForceTimeout
  /\ UNCHANGED <<irq, autoneg, link, line, works, carrier, phy, errs, session>>

\* One that forgets to restart the countdown at 688 and 691.
StartAnegNoTimeout(t, next, failed, e) ==
  /\ pc[t] = "aneg"
  /\ Goto(t, next)
  /\ state' = IF state = "HALTED" THEN state ELSE IF autoneg THEN "AN" ELSE "FORCING"
  /\ UNCHANGED <<irq, autoneg, link, link_timeout, line, works, carrier, phy,
                 errs, session>>

\* phy_start_aneg by thread t, which goes on at label `next' or, when the PHY
\* driver's config_aneg fails, at `failed' with e calls of phy_error to make.
StartAneg(t, next, failed, e) ==
  /\ pc[t] = "aneg"
  /\ \/ /\ Faults
        /\ Goto(t, failed)
        /\ errs' = [errs EXCEPT ![t] = e]
        /\ UNCHANGED <<state, link_timeout, negotiated>>
     \/ /\ Goto(t, next)
        /\ UNCHANGED negotiated \/ (Restarts /\ negotiated' = FALSE)
        /\ IF state = "HALTED"
             THEN UNCHANGED <<state, link_timeout>>
             ELSE /\ state' = IF autoneg THEN "AN" ELSE "FORCING"
                  /\ link_timeout' = IF autoneg THEN AnTimeout ELSE ForceTimeout
        /\ UNCHANGED errs
  /\ UNCHANGED <<irq, autoneg, link, line, works, carrier, cable, latched,
                 intr_on, powered, session>>

-----------------------------------------------------------------------------
(* The MAC driver's calls and ethtool's, in the order rtnl_lock() allows.   *)

UserAt(label) == pc["user"] = label

\* phy_connect: attach and reset, start the machine, then the interrupts
Connect ==
  /\ UserAt("idle") /\ session = "detached"
  /\ session' = "attached"
  /\ state' = "READY"
  /\ powered' = TRUE /\ negotiated' = FALSE /\ carrier' = FALSE
  /\ QueueMachine
  /\ Goto("user", IF IrqIsValid THEN "start_irq" ELSE "idle")
  /\ UNCHANGED <<irq, autoneg, link, link_timeout, line, phy_queue, cable,
                 latched, intr_on, errs>>

\* phy_start_interrupts up to request_irq, which may refuse the line
StartInterrupts ==
  /\ UserAt("start_irq")
  /\ irq_disable' = 0
  /\ \/ /\ handler' = TRUE
        /\ Goto("user", "enable_intr")
        /\ UNCHANGED irq
     \/ /\ Faults
        /\ irq' = "POLL"
        /\ Goto("user", "idle")
        /\ UNCHANGED handler
  /\ UNCHANGED <<state, autoneg, link, link_timeout, depth, works, carrier,
                 phy, errs, session>>

\* phy_enable_interrupts: clear, then enable.  A failure may come after the clear.
IntrEnabled == latched' = FALSE /\ intr_on' = TRUE
IntrNotEnabled ==
  Faults /\ UNCHANGED intr_on /\ (UNCHANGED latched \/ latched' = FALSE)

EnableIntr ==
  /\ UserAt("enable_intr")
  /\ IntrEnabled \/ IntrNotEnabled
  /\ Goto("user", "idle")
  /\ UNCHANGED <<phydev, line, works, carrier, cable, negotiated, powered,
                 errs, session>>


\* A phy_start that leaves the PHY suspended.
PhyStartNoResume ==
  /\ UserAt("idle") /\ session = "attached"
  /\ state \in {"STARTING", "READY", "HALTED"}
  /\ state' = IF state = "READY" THEN "UP"
              ELSE IF state = "STARTING" THEN "PENDING" ELSE "RESUMING"
  /\ Goto("user", "cancel")
  /\ IF state = "HALTED" /\ irq # "POLL" THEN IntrEnabled ELSE UNCHANGED <<latched, intr_on>>
  /\ UNCHANGED <<irq, autoneg, link, link_timeout, line, works, carrier, cable,
                 negotiated, powered, errs, session>>

\* phy_start, under the lock
PhyStart ==
  /\ UserAt("idle") /\ session = "attached"
  /\ \/ /\ state \in {"STARTING", "READY"}
        /\ state' = IF state = "READY" THEN "UP" ELSE "PENDING"
        /\ Goto("user", "cancel")
        /\ UNCHANGED <<latched, intr_on>>
     \/ /\ state = "HALTED" /\ irq = "POLL"
        /\ state' = "RESUMING"
        /\ Goto("user", "resume")
        /\ UNCHANGED <<latched, intr_on>>
     \/ /\ state = "HALTED" /\ irq # "POLL"
        /\ \/ IntrEnabled /\ state' = "RESUMING" /\ Goto("user", "resume")
           \/ IntrNotEnabled /\ Goto("user", "cancel") /\ UNCHANGED state
     \/ /\ state \notin {"STARTING", "READY", "HALTED"}
        /\ Goto("user", "cancel")
        /\ UNCHANGED <<state, latched, intr_on>>
  /\ UNCHANGED <<irq, autoneg, link, link_timeout, line, works, carrier, cable,
                 negotiated, powered, errs, session>>

\* phy_start after the unlock: phy_resume, then phy_trigger_machine.  The link
\* of a PHY that was suspended comes up, which it latches.
Resume ==
  /\ UserAt("resume")
  /\ powered' = TRUE
  /\ latched' = (latched \/ (IrqIsValid /\ cable /\ ~powered))
  /\ Goto("user", "cancel")
  /\ UNCHANGED <<phydev, line, works, carrier, cable, negotiated, intr_on, errs,
                 session>>

\* phy_stop, which ignores what the register accesses return
PhyStop ==
  /\ UserAt("idle") /\ session = "attached"
  /\ state # "HALTED"
  /\ state' = "HALTED"
  /\ IF IrqIsValid
       THEN /\ intr_on' = FALSE \/ (Faults /\ UNCHANGED intr_on)
            /\ latched' = FALSE \/ (Faults /\ UNCHANGED latched)
       ELSE UNCHANGED <<intr_on, latched>>
  /\ UNCHANGED <<irq, autoneg, link, link_timeout, line, works, carrier, cable,
                 negotiated, powered, control>>

\* phy_ethtool_sset and its two variants: autoneg is set without the lock,
\* then phy_start_aneg takes it
SetAutoneg ==
  /\ UserAt("idle") /\ session = "attached"
  /\ autoneg' \in BOOLEAN
  /\ Goto("user", "aneg")
  /\ UNCHANGED <<state, irq, link, link_timeout, line, works, carrier, phy,
                 errs, session>>

\* phy_disconnect: phy_stop_interrupts if the irq is valid, then phy_stop_machine
Disconnect ==
  /\ UserAt("idle") /\ session = "attached"
  /\ session' = "stopping"
  /\ Goto("user", IF IrqIsValid THEN "disable" ELSE "cancel_stop")
  /\ UNCHANGED <<phydev, line, works, carrier, phy, errs>>

\* phy_disable_interrupts: disable, then clear.  A failure, which may come
\* after the first write, makes it and then its caller run phy_error.
DisableIntr(t, next) ==
  /\ \/ /\ intr_on' = FALSE /\ latched' = FALSE
        /\ Goto(t, next)
        /\ UNCHANGED errs
     \/ /\ Faults
        /\ UNCHANGED latched /\ (UNCHANGED intr_on \/ intr_on' = FALSE)
        /\ Goto(t, "halt")
        /\ errs' = [errs EXCEPT ![t] = 2]
  /\ UNCHANGED <<phydev, line, works, carrier, cable, negotiated, powered,
                 session>>

StopInterrupts == UserAt("disable") /\ DisableIntr("user", "free")

FreeIrq ==
  /\ UserAt("free")
  /\ handler' = FALSE
  /\ Goto("user", "cancel_work")
  /\ UNCHANGED <<phydev, irq_disable, depth, works, carrier, phy, errs, session>>


\* cancel_work, without waiting for a phy_change that is running.
CancelWorkNoSync ==
  /\ UserAt("cancel_work")
  /\ phy_queue' = FALSE
  /\ Goto("user", "drain")
  /\ UNCHANGED <<phydev, line, state_queue, carrier, phy, errs, session>>

\* cancel_work_sync(&phydev->phy_queue)
CancelWork ==
  /\ UserAt("cancel_work")
  /\ pc["change"] = "idle"
  /\ phy_queue' = FALSE
  /\ Goto("user", "drain")
  /\ UNCHANGED <<phydev, line, state_queue, carrier, phy, errs, session>>


\* The loop at 890 with its bound off by one.
DrainOnceMore ==
  /\ UserAt("drain")
  /\ irq_disable' = irq_disable - 1
  /\ IF irq_disable' >= -1
       THEN depth' = depth - 1 /\ UNCHANGED pc
       ELSE Goto("user", "cancel_stop") /\ UNCHANGED depth
  /\ UNCHANGED <<phydev, handler, works, carrier, phy, errs, session>>

\* while (atomic_dec_return(&phydev->irq_disable) >= 0) enable_irq(phydev->irq)
Drain ==
  /\ UserAt("drain")
  /\ irq_disable' = irq_disable - 1
  /\ IF irq_disable' >= 0
       THEN depth' = depth - 1 /\ UNCHANGED pc
       ELSE Goto("user", "cancel_stop") /\ UNCHANGED depth
  /\ UNCHANGED <<phydev, handler, works, carrier, phy, errs, session>>

\* phy_stop_machine under the lock; phy_disconnect then detaches the PHY
StopMachine ==
  /\ UserAt("stop")
  /\ state' = IF state \in BeyondUp THEN "UP" ELSE state
  /\ session' = "detached"
  /\ Goto("user", "idle")
  /\ UNCHANGED <<irq, autoneg, link, link_timeout, line, works, carrier, phy,
                 errs>>

-----------------------------------------------------------------------------
(* The interrupt handler and the worker that runs phy_change.               *)

LineOff == depth' = depth + 1 /\ irq_disable' = irq_disable + 1
LineOn  == depth' = depth - 1 /\ irq_disable' = irq_disable - 1

\* phy_interrupt, when it does not return IRQ_NONE
PhyInterrupt ==
  /\ handler /\ depth = 0
  /\ SharedLine \/ (latched /\ intr_on)
  /\ state # "HALTED"
  /\ LineOff
  /\ phy_queue' = TRUE
  /\ UNCHANGED <<phydev, handler, state_queue, carrier, phy, control>>


\* A phy_mac_interrupt that only notes the link.
MacInterruptNoWork ==
  /\ irq = "IGNORE" /\ session # "detached"
  /\ link' = LinkUp
  /\ UNCHANGED <<state, irq, autoneg, link_timeout, line, works, carrier, phy,
                 control>>

\* phy_mac_interrupt, for a MAC that watches the link itself
MacInterrupt ==
  /\ irq = "IGNORE" /\ session # "detached"
  /\ link' = LinkUp
  /\ phy_queue' = TRUE
  /\ UNCHANGED <<state, irq, autoneg, link_timeout, line, state_queue, carrier,
                 phy, control>>

ChangeAt(label) == pc["change"] = label

ChStart ==
  /\ ChangeAt("idle") /\ phy_queue
  /\ phy_queue' = FALSE
  /\ Goto("change", IF ~IrqIsValid THEN "lock"
                    ELSE IF DidInterrupt /\ ~latched THEN "ignore"
                    ELSE "disable")
  /\ UNCHANGED <<phydev, line, state_queue, carrier, phy, errs, session>>

ChDisable == ChangeAt("disable") /\ DisableIntr("change", "lock")


\* A phy_change that wakes the machine from PHY_RUNNING only.
ChLockRunning ==
  /\ ChangeAt("lock")
  /\ state' = IF state = "RUNNING" THEN "CHANGELINK" ELSE state
  /\ Goto("change", IF IrqIsValid THEN "enable_line" ELSE "cancel")
  /\ UNCHANGED <<irq, autoneg, link, link_timeout, line, works, carrier, phy,
                 errs, session>>

ChLock ==
  /\ ChangeAt("lock")
  /\ state' = IF state \in {"RUNNING", "NOLINK"} THEN "CHANGELINK" ELSE state
  /\ Goto("change", IF IrqIsValid THEN "enable_line" ELSE "cancel")
  /\ UNCHANGED <<irq, autoneg, link, link_timeout, line, works, carrier, phy,
                 errs, session>>


ChEnableLine ==
  /\ ChangeAt("enable_line")
  /\ LineOn
  /\ Goto("change", "check")
  /\ UNCHANGED <<phydev, handler, works, carrier, phy, errs, session>>


\* Reenables only for a link change.
ChCheckChangelink ==
  /\ ChangeAt("check")
  /\ Goto("change", IF state = "CHANGELINK" THEN "config" ELSE "cancel")
  /\ UNCHANGED <<phydev, line, works, carrier, phy, errs, session>>

\* PHY_HALTED != phydev->state, read without the lock ...
ChCheck ==
  /\ ChangeAt("check")
  /\ Goto("change", IF state # "HALTED" THEN "config" ELSE "cancel")
  /\ UNCHANGED <<phydev, line, works, carrier, phy, errs, session>>


\* Without the atomic_inc at 936.
ChConfigUncounted ==
  /\ ChangeAt("config")
  /\ \/ /\ intr_on' = TRUE
        /\ Goto("change", "cancel")
        /\ UNCHANGED <<depth, errs>>
     \/ /\ Faults
        /\ depth' = depth + 1
        /\ Goto("change", "halt")
        /\ errs' = [errs EXCEPT !["change"] = 1]
        /\ UNCHANGED intr_on
  /\ UNCHANGED <<phydev, irq_disable, handler, works, carrier, cable, negotiated,
                 latched, powered, session>>

\* ... and the register write it decides about
ChConfig ==
  /\ ChangeAt("config")
  /\ \/ /\ intr_on' = TRUE
        /\ Goto("change", "cancel")
        /\ UNCHANGED <<irq_disable, depth, errs>>
     \/ /\ Faults
        /\ LineOff
        /\ Goto("change", "halt")
        /\ errs' = [errs EXCEPT !["change"] = 1]
        /\ UNCHANGED intr_on
  /\ UNCHANGED <<phydev, handler, works, carrier, cable, negotiated, latched,
                 powered, session>>

ChIgnore ==
  /\ ChangeAt("ignore")
  /\ LineOn
  /\ Goto("change", "idle")
  /\ UNCHANGED <<phydev, handler, works, carrier, phy, errs, session>>

-----------------------------------------------------------------------------
(* phy_state_machine: one action per case, then the steps after the unlock. *)

\* The machine runs with the PHY in state s and leaves the lock for label `next'.
SmCase(s, next) ==
  /\ pc["machine"] = "idle" /\ state_queue
  /\ state = s
  /\ state_queue' = FALSE
  /\ Goto("machine", next)
  /\ UNCHANGED <<irq, autoneg, line, phy_queue, cable, negotiated, latched,
                 powered, session>>


\* Without netif_carrier_on.
RunningNoCarrier == state' = "RUNNING" /\ UNCHANGED carrier

Running == state' = "RUNNING" /\ carrier' = TRUE

SmIdle ==
  /\ state \in BeforeUp
  /\ SmCase(state, "done")
  /\ UNCHANGED <<state, link, link_timeout, carrier, intr_on, errs>>

SmUp ==
  /\ SmCase("UP", "aneg")
  /\ link_timeout' = AnTimeout
  /\ UNCHANGED <<state, link, carrier, intr_on, errs>>

\* 0 == phydev->link_timeout--: time to start over
Tick(s) ==
  /\ SmCase(s, IF link_timeout = 0 THEN "aneg" ELSE "done")
  /\ link_timeout' = link_timeout - 1
  /\ UNCHANGED <<state, carrier>>


SmAn ==
  /\ \/ /\ ~LinkUp /\ SmCase("AN", "done")
        /\ state' = "NOLINK" /\ carrier' = FALSE
        /\ UNCHANGED link_timeout
     \/ /\ LinkUp /\ negotiated /\ SmCase("AN", "done")
        /\ Running
        /\ UNCHANGED link_timeout
     \/ LinkUp /\ ~negotiated /\ Tick("AN")
  /\ link' = LinkUp
  /\ UNCHANGED <<intr_on, errs>>


\* PHY_NOLINK waits for an interrupt that a polled PHY never raises.
SmNolinkWaits ==
  /\ SmCase("NOLINK", "done")
  /\ UNCHANGED <<state, link, link_timeout, carrier, intr_on, errs>>

SmNolink ==
  /\ SmCase("NOLINK", "done")
  /\ \/ /\ IrqIsValid \/ ~LinkUp
        /\ link' = IF IrqIsValid THEN link ELSE LinkUp
        /\ UNCHANGED <<state, link_timeout, carrier>>
     \/ /\ ~IrqIsValid /\ LinkUp
        /\ link' = TRUE
        /\ \/ autoneg /\ ~negotiated /\ state' = "AN" /\ link_timeout' = AnTimeout
              /\ UNCHANGED carrier
           \/ (autoneg => negotiated) /\ Running /\ UNCHANGED link_timeout
  /\ UNCHANGED <<intr_on, errs>>

SmForcing ==
  /\ \/ LinkUp /\ SmCase("FORCING", "done") /\ Running /\ UNCHANGED link_timeout
     \/ ~LinkUp /\ Tick("FORCING")
  /\ link' = LinkUp
  /\ UNCHANGED <<intr_on, errs>>

SmRunning ==
  /\ SmCase("RUNNING", "done")
  /\ IF irq = "POLL"
       THEN /\ link' = LinkUp
            /\ state' = IF link' # link THEN "CHANGELINK" ELSE "RUNNING"
       ELSE UNCHANGED <<state, link>>
  /\ UNCHANGED <<link_timeout, carrier, intr_on, errs>>

\* The interrupt is enabled last and under the same lock; that write may fail.
SmChangelink ==
  /\ link' = LinkUp /\ carrier' = LinkUp
  /\ state' = IF LinkUp THEN "RUNNING" ELSE "NOLINK"
  /\ \/ /\ SmCase("CHANGELINK", "done")
        /\ intr_on' = (intr_on \/ IrqIsValid)
        /\ UNCHANGED errs
     \/ /\ Faults /\ IrqIsValid
        /\ SmCase("CHANGELINK", "halt")
        /\ errs' = [errs EXCEPT !["machine"] = 1]
        /\ UNCHANGED intr_on
  /\ UNCHANGED link_timeout


\* Clears link but forgets the carrier.
SmHaltedKeepsCarrier ==
  /\ SmCase("HALTED", IF link THEN "suspend" ELSE "done")
  /\ link' = FALSE
  /\ UNCHANGED <<state, link_timeout, carrier, intr_on, errs>>

\* The carrier is dropped, and the PHY suspended, only if link was set.
SmHalted ==
  /\ SmCase("HALTED", IF link THEN "suspend" ELSE "done")
  /\ link' = FALSE
  /\ carrier' = (carrier /\ ~link)
  /\ UNCHANGED <<state, link_timeout, intr_on, errs>>

SmResuming ==
  /\ SmCase("RESUMING", "done")
  /\ \/ /\ autoneg /\ ~negotiated
        /\ state' = "AN" /\ link_timeout' = AnTimeout
        /\ UNCHANGED <<link, carrier>>
     \/ /\ autoneg => negotiated
        /\ link' = LinkUp
        /\ IF LinkUp THEN Running ELSE state' = "NOLINK" /\ UNCHANGED carrier
        /\ UNCHANGED link_timeout
  /\ UNCHANGED <<intr_on, errs>>

\* A register read fails.  phy_read_status may have set link before that.
SmReadFails ==
  /\ Faults
  /\ \/ state \in {"AN", "FORCING", "CHANGELINK", "RESUMING"}
     \/ state = "NOLINK" /\ ~IrqIsValid
     \/ state = "RUNNING" /\ irq = "POLL"
  /\ SmCase(state, "halt")
  /\ errs' = [errs EXCEPT !["machine"] = 1]
  /\ UNCHANGED link \/ (state # "FORCING" /\ link' = LinkUp)
  /\ UNCHANGED <<state, link_timeout, carrier, intr_on>>

\* phy_suspend
Suspend ==
  /\ pc["machine"] = "suspend"
  /\ powered' = FALSE /\ negotiated' = FALSE
  /\ Goto("machine", "done")
  /\ UNCHANGED <<phydev, line, works, carrier, cable, latched, intr_on, errs,
                 session>>


\* Only a polled PHY queues its state machine again.
SmDone ==
  /\ pc["machine"] = "done"
  /\ IF irq = "POLL" THEN QueueMachine ELSE UNCHANGED state_queue
  /\ Goto("machine", "idle")
  /\ UNCHANGED <<phydev, line, phy_queue, carrier, phy, errs, session>>

-----------------------------------------------------------------------------
(* The hardware.  The interrupt status is followed only where it is looked  *)
(* at, that is with a valid interrupt.                                      *)

\* The cable is plugged in or pulled; a powered PHY latches its interrupt.
CableChange ==
  /\ cable' = ~cable
  /\ negotiated' = FALSE
  /\ latched' = (latched \/ (IrqIsValid /\ powered))
  /\ UNCHANGED <<phydev, line, works, carrier, intr_on, powered, control>>

NegotiationCompletes ==
  /\ LinkUp /\ autoneg /\ ~negotiated
  /\ negotiated' = TRUE /\ latched' = (latched \/ IrqIsValid)
  /\ UNCHANGED <<phydev, line, works, carrier, cable, intr_on, powered, control>>

-----------------------------------------------------------------------------
UserAneg    == StartAneg("user", "idle", "idle", 0)
MachineAneg == StartAneg("machine", "done", "halt", 1)

UserCall == Connect \/ PhyStart \/ PhyStop \/ SetAutoneg \/ Disconnect

UserStep == StartInterrupts \/ EnableIntr \/ Resume \/ UserAneg \/ StopInterrupts
              \/ FreeIrq \/ CancelWork \/ Drain \/ StopMachine

ChangeStep == ChStart \/ ChDisable \/ ChLock \/ ChEnableLine \/ ChCheck
                \/ ChConfig \/ ChIgnore

MachineCase == SmIdle \/ SmUp \/ SmAn \/ SmNolink \/ SmForcing \/ SmRunning
                 \/ SmChangelink \/ SmHalted \/ SmResuming \/ SmReadFails

MachineStep == MachineCase \/ MachineAneg \/ Suspend \/ SmDone

Trigger(t) == Halt(t) \/ Cancel(t) \/ Flush(t) \/ Queue(t)

Next ==
  \/ UserCall \/ UserStep \/ ChangeStep \/ MachineStep
  \/ \E t \in Thread : Trigger(t)
  \/ PhyInterrupt \/ MacInterrupt
  \/ CableChange \/ NegotiationCompletes

\* A call once begun is carried on, the workers run what is queued, the
\* interrupt is taken and a negotiation ends.  The driver need not call, and
\* nobody need touch the cable.
Fairness ==
  /\ WF_vars(UserStep \/ Trigger("user"))
  /\ WF_vars(ChangeStep \/ Trigger("change"))
  /\ WF_vars(MachineStep \/ Trigger("machine"))
  /\ \A t \in Thread : SF_vars(Cancel(t))
  /\ WF_vars(PhyInterrupt) /\ WF_vars(NegotiationCompletes)

Spec == Init /\ [][Next]_vars

FairSpec == Spec /\ Fairness

-----------------------------------------------------------------------------
(* Safety.                                                                  *)

Flags ==
  /\ autoneg \in BOOLEAN /\ link \in BOOLEAN /\ handler \in BOOLEAN
  /\ phy_queue \in BOOLEAN /\ state_queue \in BOOLEAN /\ carrier \in BOOLEAN
  /\ cable \in BOOLEAN /\ negotiated \in BOOLEAN /\ latched \in BOOLEAN
  /\ intr_on \in BOOLEAN /\ powered \in BOOLEAN

\* Every variable keeps its type; in particular irq_disable and link_timeout, which
\* the code lets run one below zero (890, 1079), go no further.
TypeOK ==
  /\ Flags
  /\ state \in PhyState /\ irq \in IrqMode
  /\ link_timeout \in Nat \cup {-1}
  /\ irq_disable \in Nat \cup {-1} /\ depth \in Nat
  /\ pc \in [Thread -> Label]
  /\ errs \in [Thread -> 0..2]
  /\ session \in {"detached", "attached", "stopping"}

\* From request_irq to the end of the loop in phy_stop_interrupts.
OwnsLine == handler \/ pc["user"] \in {"cancel_work", "drain"}

\* How many times phy_change has yet to enable the line again.
Owed == (IF phy_queue THEN 1 ELSE 0)
          + (IF pc["change"] \in {"disable", "lock", "enable_line", "ignore"}
               THEN 1 ELSE 0)

\* phydev->irq_disable counts exactly how deep the PHY has disabled the shared
\* line, so phy_change never enables it more often than phy_interrupt disabled
\* it, and when phy_stop_interrupts has given the line back (891 on) it is
\* enabled for the other devices, whatever failed or raced before.
IrqBalanced ==
  IF OwnsLine
    THEN /\ depth = irq_disable
         /\ IrqIsValid /\ depth >= Owed
    ELSE depth = 0

\* With OwnsLine for the ownership, the layer uses the line as IrqLine says: it
\* enables only what it disabled, and lets go of an enabled line, in every
\* interleaving of phy_interrupt, phy_change and phy_stop_interrupts.
Line == INSTANCE IrqLine WITH owned <- OwnsLine
LineSpec == Line!Spec

\* The mode a MAC driver sees.
Mode == IF session = "detached" THEN "detached"
        ELSE IF state \in BeforeUp THEN "ready"
        ELSE IF state = "HALTED" THEN "halted" ELSE "started"

\* The layer implements LinkService: no worker that raced a call starts a halted PHY
\* or turns the carrier on in one that is halted, not started or detached.
Link == INSTANCE LinkService WITH mode <- Mode, calling <- pc["user"] # "idle"
LinkSpec == Link!Spec

\* PHY_RUNNING is never seen without the carrier: no interleaving of
\* phy_start_aneg, phy_change, phy_stop and the machine loses netif_carrier_on.
RunningHasCarrier == state = "RUNNING" => carrier

\* While the machine sleeps the countdown of PHY_AN and PHY_FORCING has not
\* passed zero: `0 == phydev->link_timeout--' would never be true again.
TimeoutArmed ==
  pc["machine"] = "idle" /\ state \in {"AN", "FORCING"} => link_timeout >= 0

\* Once phy_disconnect has returned nothing of the PHY layer is queued or
\* running, though a worker may have been about to queue the machine again.
DetachedIsIdle ==
  session = "detached" /\ irq # "IGNORE" =>
    /\ ~phy_queue /\ ~state_queue
    /\ pc["change"] = "idle" /\ pc["machine"] = "idle"

\* With no register access failing, once every thread is done a PHY that was
\* not halted can interrupt: phy_change's disable and enable (911, 922) never
\* cancel out what phy_start enabled meanwhile.
IrqLive ==
  /\ session = "attached" /\ IrqIsValid /\ state # "HALTED"
  /\ pc["user"] = "idle" /\ pc["change"] = "idle" /\ ~phy_queue
  => handler /\ depth = 0 /\ intr_on

\* Only a call of the MAC driver takes the PHY out of PHY_HALTED; a worker that
\* raced phy_stop (phy_change at 915, phy_start_aneg at 685) does not.
HaltedIsSticky ==
  [][state = "HALTED" /\ state' # "HALTED" =>
       pc'["user"] # pc["user"] \/ session' # session]_vars

=============================================================================
