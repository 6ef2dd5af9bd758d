------------------------------ MODULE PhyProofs ------------------------------
(***************************************************************************)
(* Safety of the PHY layer for every value of the constants.  IInv is the  *)
(* inductive invariant: who owns the interrupt line in each phase of the   *)
(* driver's session, which labels each thread can be at, and what is still *)
(* queued while the layer is taken down.  On it rests that the layer       *)
(* implements its abstract specifications, IrqLine and LinkService.        *)
(***************************************************************************)
EXTENDS MCPhy, TLAPS

-----------------------------------------------------------------------------
(* The inductive invariant.                                                 *)

\* The machine never leaves "flush": it would have to wait for itself.
MachineLabels ==
  pc["machine"] \in {"idle", "aneg", "suspend", "done", "halt", "cancel", "flush"}

ChangeLabels ==
  pc["change"] \in {"idle", "disable", "lock", "enable_line", "check", "config",
                    "ignore", "halt", "cancel", "flush", "queue"}

UserLabels ==
  pc["user"] \in {"idle", "halt", "cancel", "flush", "queue", "start_irq",
                  "enable_intr", "resume", "aneg", "disable", "free",
                  "cancel_work", "drain", "cancel_stop", "flush_stop", "stop"}

\* A thread in phy_error has a call to make.
ErrorsLeft == \A t \in Thread : pc[t] = "halt" => errs[t] >= 1

\* The session follows the user's label.
SessionInv ==
  /\ pc["user"] = "idle" => session # "stopping"
  /\ pc["user"] \in {"start_irq", "enable_intr", "resume", "aneg"}
       => session = "attached"
  /\ pc["user"] \in {"disable", "free", "cancel_work", "drain", "cancel_stop",
                     "flush_stop", "stop"} => session = "stopping"
  /\ pc["user"] \in {"halt", "cancel", "flush", "queue"} => session # "detached"

\* When phy_interrupt is installed.
HandlerInv ==
  /\ handler =>
       /\ IrqIsValid /\ session # "detached"
       /\ pc["user"] \notin {"start_irq", "cancel_work", "drain", "cancel_stop",
                             "flush_stop", "stop"}
  /\ session = "attached" /\ IrqIsValid /\ pc["user"] # "start_irq" => handler
  /\ pc["user"] \in {"disable", "free"} => handler
  /\ session = "stopping" /\ pc["user"] \in {"halt", "cancel", "flush", "queue"}
       => handler
  /\ pc["user"] \in {"start_irq", "cancel_work", "drain"} => IrqIsValid

\* Without the line, and while it is drained, phy_change has nothing to do.
ChangeInv ==
  /\ irq # "IGNORE" /\ (~OwnsLine \/ pc["user"] = "drain") =>
       ~phy_queue /\ pc["change"] = "idle"
  /\ pc["change"] \in {"disable", "enable_line", "check", "config", "ignore"}
       => IrqIsValid

\* TimeoutArmed also holds while the machine has only to queue itself again.
TimeoutInv ==
  pc["machine"] \in {"idle", "done", "suspend"} /\ state \in {"AN", "FORCING"}
    => link_timeout >= 0

\* phy_stop_machine leaves nothing behind.
StopInv ==
  irq # "IGNORE" =>
    /\ pc["user"] \in {"flush_stop", "stop"} \/ session = "detached"
         => ~state_queue
    /\ pc["user"] = "stop" \/ session = "detached" => pc["machine"] = "idle"

Labels == MachineLabels /\ ChangeLabels /\ UserLabels

IInv == /\ TypeOK /\ Labels /\ ErrorsLeft
        /\ SessionInv /\ HandlerInv /\ ChangeInv /\ IrqBalanced
        /\ TimeoutInv /\ StopInv


-----------------------------------------------------------------------------
(* Every step preserves every part of it.                                   *)

\* The Boolean fields.
LEMMA FlagsStep == IInv /\ [Next]_vars => Flags'
<1> SUFFICES ASSUME IInv, [Next]_vars PROVE Flags'
  OBVIOUS
<1> USE PhyAssumption DEF IInv, TypeOK, Flags, SmCase, LinkUp, Flushing, vars,
      phydev, line, works, phy, control, Goto, UserAt, ChangeAt, Thread,
      QueueMachine
<1>1. CASE UserCall
  <2>1. CASE Connect
    BY <2>1, ZenonT(30) DEF Connect
  <2>2. CASE PhyStart
    BY <2>2, ZenonT(30) DEF PhyStart, IntrEnabled, IntrNotEnabled
  <2>3. CASE PhyStop
    BY <2>3, ZenonT(30) DEF PhyStop
  <2>4. CASE SetAutoneg
    BY <2>4, ZenonT(30) DEF SetAutoneg
  <2>5. CASE Disconnect
    BY <2>5, ZenonT(30) DEF Disconnect
  <2>q. QED
    BY <1>1, <2>1, <2>2, <2>3, <2>4, <2>5 DEF UserCall
<1>2. CASE UserStep
  <2>1. CASE StartInterrupts
    BY <2>1, ZenonT(30) DEF StartInterrupts
  <2>2. CASE EnableIntr
    BY <2>2, ZenonT(30) DEF EnableIntr, IntrEnabled, IntrNotEnabled
  <2>3. CASE Resume
    BY <2>3, ZenonT(30) DEF Resume
  <2>4. CASE UserAneg
    BY <2>4, ZenonT(30) DEF UserAneg, StartAneg
  <2>5. CASE StopInterrupts
    BY <2>5, ZenonT(30) DEF StopInterrupts, DisableIntr
  <2>6. CASE FreeIrq
    BY <2>6, ZenonT(30) DEF FreeIrq
  <2>7. CASE CancelWork
    BY <2>7, ZenonT(30) DEF CancelWork
  <2>8. CASE Drain
    BY <2>8, ZenonT(30) DEF Drain
  <2>9. CASE StopMachine
    BY <2>9, ZenonT(30) DEF StopMachine, BeyondUp
  <2>q. QED
    BY <1>2, <2>1, <2>2, <2>3, <2>4, <2>5, <2>6, <2>7, <2>8, <2>9 DEF UserStep
<1>3. CASE ChangeStep
  <2>1. CASE ChStart
    BY <2>1, ZenonT(30) DEF ChStart
  <2>2. CASE ChDisable
    BY <2>2, ZenonT(30) DEF ChDisable, DisableIntr
  <2>3. CASE ChLock
    BY <2>3, ZenonT(30) DEF ChLock
  <2>4. CASE ChEnableLine
    BY <2>4, ZenonT(30) DEF ChEnableLine, LineOn
  <2>5. CASE ChCheck
    BY <2>5, ZenonT(30) DEF ChCheck
  <2>6. CASE ChConfig
    BY <2>6, ZenonT(30) DEF ChConfig, LineOff
  <2>7. CASE ChIgnore
    BY <2>7, ZenonT(30) DEF ChIgnore, LineOn
  <2>q. QED
    BY <1>3, <2>1, <2>2, <2>3, <2>4, <2>5, <2>6, <2>7 DEF ChangeStep
<1>4. CASE MachineCase
  <2>1. CASE SmIdle
    BY <2>1, ZenonT(30) DEF SmIdle
  <2>2. CASE SmUp
    BY <2>2, ZenonT(30) DEF SmUp
  <2>3. CASE SmAn
    BY <2>3, ZenonT(30) DEF SmAn, Tick, Running
  <2>4. CASE SmNolink
    BY <2>4, ZenonT(30) DEF SmNolink, Running
  <2>5. CASE SmForcing
    BY <2>5, ZenonT(30) DEF SmForcing, Tick, Running
  <2>6. CASE SmRunning
    BY <2>6, ZenonT(30) DEF SmRunning
  <2>7. CASE SmChangelink
    BY <2>7, ZenonT(30) DEF SmChangelink
  <2>8. CASE SmHalted
    BY <2>8, ZenonT(30) DEF SmHalted
  <2>9. CASE SmResuming
    BY <2>9, ZenonT(30) DEF SmResuming, Running
  <2>10. CASE SmReadFails
    BY <2>10, ZenonT(30) DEF SmReadFails
  <2>q. QED
    BY <1>4, <2>1, <2>2, <2>3, <2>4, <2>5, <2>6, <2>7, <2>8, <2>9, <2>10 DEF
         MachineCase
<1>5. CASE MachineAneg
  BY <1>5, ZenonT(30) DEF MachineAneg, StartAneg
<1>6. CASE Suspend
  BY <1>6, ZenonT(30) DEF Suspend
<1>7. CASE SmDone
  BY <1>7, ZenonT(30) DEF SmDone
<1>8. CASE PhyInterrupt
  BY <1>8, ZenonT(30) DEF PhyInterrupt, LineOff
<1>9. CASE MacInterrupt
  BY <1>9, ZenonT(30) DEF MacInterrupt
<1>10. CASE CableChange
  BY <1>10, ZenonT(30) DEF CableChange
<1>11. CASE NegotiationCompletes
  BY <1>11, ZenonT(30) DEF NegotiationCompletes
<1>12. ASSUME NEW t \in Thread, Trigger(t) PROVE Flags'
  <2>1. CASE Halt(t)
    BY <2>1, ZenonT(30) DEF Halt
  <2>2. CASE Cancel(t)
    BY <2>2, ZenonT(30) DEF Cancel
  <2>3. CASE Flush(t)
    BY <2>3, ZenonT(30) DEF Flush
  <2>4. CASE Queue(t)
    BY <2>4, ZenonT(30) DEF Queue
  <2>q. QED
    BY <1>12, <2>1, <2>2, <2>3, <2>4 DEF Trigger
<1>13. CASE UNCHANGED vars
  BY <1>13, Zenon
<1>q. QED
  BY <1>1, <1>2, <1>3, <1>4, <1>5, <1>6, <1>7, <1>8, <1>9, <1>10, <1>11, <1>12,
       <1>13 DEF Next, MachineStep

\* The other fields.  irq_disable stays above -2 because Drain starts balanced,
\* link_timeout because the machine ticks only from zero on.
LEMMA TypesStep == IInv /\ [Next]_vars /\ Flags' => TypeOK'
<1> SUFFICES ASSUME IInv, [Next]_vars, Flags' PROVE TypeOK'
  OBVIOUS
<1> USE PhyAssumption DEF IInv, TypeOK, IrqBalanced, OwnsLine, Owed, ChangeInv,
      HandlerInv, IrqIsValid, ErrorsLeft, TimeoutInv, SmCase, PhyState,
      IrqMode, Label, LinkUp, Flushing, vars, phydev, line, works, phy,
      control, Goto, UserAt, ChangeAt, Thread, QueueMachine
<1>1. CASE UserCall
  BY <1>1 DEF UserCall, Connect, PhyStart, PhyStop, SetAutoneg, Disconnect,
       IntrEnabled, IntrNotEnabled
<1>2. CASE UserStep
  BY <1>2 DEF UserStep, StartInterrupts, EnableIntr, Resume, UserAneg,
       StopInterrupts, FreeIrq, CancelWork, Drain, StopMachine, IntrEnabled,
       IntrNotEnabled, StartAneg, DisableIntr, BeyondUp
<1>3. CASE ChangeStep
  BY <1>3 DEF ChangeStep, ChStart, ChDisable, ChLock, ChEnableLine, ChCheck,
       ChConfig, ChIgnore, DisableIntr, LineOn, LineOff
<1>4. CASE MachineCase
  BY <1>4 DEF MachineCase, SmIdle, SmUp, SmAn, SmNolink, SmForcing, SmRunning,
       SmChangelink, SmHalted, SmResuming, SmReadFails, Tick, Running
<1>5. CASE MachineAneg
  BY <1>5 DEF MachineAneg, StartAneg
<1>6. CASE Suspend
  BY <1>6 DEF Suspend
<1>7. CASE SmDone
  BY <1>7 DEF SmDone
<1>8. CASE PhyInterrupt
  BY <1>8 DEF PhyInterrupt, LineOff
<1>9. CASE MacInterrupt
  BY <1>9 DEF MacInterrupt
<1>10. CASE CableChange
  BY <1>10 DEF CableChange
<1>11. CASE NegotiationCompletes
  BY <1>11 DEF NegotiationCompletes
<1>12. ASSUME NEW t \in Thread, Trigger(t) PROVE TypeOK'
  BY <1>12 DEF Trigger, Halt, Cancel, Flush, Queue, Return
<1>13. CASE UNCHANGED vars
  BY <1>13
<1>q. QED
  BY <1>1, <1>2, <1>3, <1>4, <1>5, <1>6, <1>7, <1>8, <1>9, <1>10, <1>11, <1>12,
       <1>13 DEF Next, MachineStep

\* The labels; phy_error is entered with a call to make.
LEMMA LabelsStep == IInv /\ [Next]_vars => (Labels /\ ErrorsLeft)'
<1> SUFFICES ASSUME IInv, [Next]_vars PROVE (Labels /\ ErrorsLeft)'
  OBVIOUS
<1> USE PhyAssumption DEF IInv, TypeOK, Labels, MachineLabels, ChangeLabels,
      UserLabels, ErrorsLeft, IrqIsValid, SmCase, Label, vars, phydev, line,
      works, phy, control, Goto, UserAt, ChangeAt, Thread, QueueMachine
<1>1. CASE UserCall
  BY <1>1 DEF UserCall, Connect, PhyStart, PhyStop, SetAutoneg, Disconnect,
       IntrEnabled, IntrNotEnabled
<1>2. CASE UserStep
  BY <1>2 DEF UserStep, StartInterrupts, EnableIntr, Resume, UserAneg,
       StopInterrupts, FreeIrq, CancelWork, Drain, StopMachine, IntrEnabled,
       IntrNotEnabled, StartAneg, DisableIntr, BeyondUp
<1>3. CASE ChangeStep
  BY <1>3 DEF ChangeStep, ChStart, ChDisable, ChLock, ChEnableLine, ChCheck,
       ChConfig, ChIgnore, DisableIntr, LineOn, LineOff
<1>4. CASE MachineCase
  BY <1>4 DEF MachineCase, SmIdle, SmUp, SmAn, SmNolink, SmForcing, SmRunning,
       SmChangelink, SmHalted, SmResuming, SmReadFails, Tick, Running
<1>5. CASE MachineAneg
  BY <1>5 DEF MachineAneg, StartAneg
<1>6. CASE Suspend
  BY <1>6 DEF Suspend
<1>7. CASE SmDone
  BY <1>7 DEF SmDone
<1>8. CASE PhyInterrupt
  BY <1>8 DEF PhyInterrupt, LineOff
<1>9. CASE MacInterrupt
  BY <1>9 DEF MacInterrupt
<1>10. CASE CableChange
  BY <1>10 DEF CableChange
<1>11. CASE NegotiationCompletes
  BY <1>11 DEF NegotiationCompletes
<1>12. ASSUME NEW t \in Thread, Trigger(t) PROVE (Labels /\ ErrorsLeft)'
  BY <1>12 DEF Trigger, Halt, Cancel, Flush, Queue, Return
<1>13. CASE UNCHANGED vars
  BY <1>13
<1>q. QED
  BY <1>1, <1>2, <1>3, <1>4, <1>5, <1>6, <1>7, <1>8, <1>9, <1>10, <1>11, <1>12,
       <1>13 DEF Next, MachineStep

\* The driver's session.
LEMMA SessionStep == IInv /\ [Next]_vars => SessionInv'
<1> SUFFICES ASSUME IInv, [Next]_vars PROVE SessionInv'
  OBVIOUS
<1> USE PhyAssumption DEF IInv, TypeOK, SessionInv, Labels, UserLabels, SmCase,
      vars, phydev, line, works, phy, control, Goto, UserAt, ChangeAt, Thread,
      QueueMachine
<1>1. CASE UserCall
  BY <1>1 DEF UserCall, Connect, PhyStart, PhyStop, SetAutoneg, Disconnect,
       IntrEnabled, IntrNotEnabled
<1>2. CASE UserStep
  BY <1>2 DEF UserStep, StartInterrupts, EnableIntr, Resume, UserAneg,
       StopInterrupts, FreeIrq, CancelWork, Drain, StopMachine, IntrEnabled,
       IntrNotEnabled, StartAneg, DisableIntr, BeyondUp
<1>3. CASE ChangeStep
  BY <1>3 DEF ChangeStep, ChStart, ChDisable, ChLock, ChEnableLine, ChCheck,
       ChConfig, ChIgnore, DisableIntr, LineOn, LineOff
<1>4. CASE MachineCase
  BY <1>4 DEF MachineCase, SmIdle, SmUp, SmAn, SmNolink, SmForcing, SmRunning,
       SmChangelink, SmHalted, SmResuming, SmReadFails, Tick, Running
<1>5. CASE MachineAneg
  BY <1>5 DEF MachineAneg, StartAneg
<1>6. CASE Suspend
  BY <1>6 DEF Suspend
<1>7. CASE SmDone
  BY <1>7 DEF SmDone
<1>8. CASE PhyInterrupt
  BY <1>8 DEF PhyInterrupt, LineOff
<1>9. CASE MacInterrupt
  BY <1>9 DEF MacInterrupt
<1>10. CASE CableChange
  BY <1>10 DEF CableChange
<1>11. CASE NegotiationCompletes
  BY <1>11 DEF NegotiationCompletes
<1>12. ASSUME NEW t \in Thread, Trigger(t) PROVE SessionInv'
  BY <1>12 DEF Trigger, Halt, Cancel, Flush, Queue, Return
<1>13. CASE UNCHANGED vars
  BY <1>13
<1>q. QED
  BY <1>1, <1>2, <1>3, <1>4, <1>5, <1>6, <1>7, <1>8, <1>9, <1>10, <1>11, <1>12,
       <1>13 DEF Next, MachineStep

\* The handler is installed between request_irq and free_irq.
LEMMA HandlerStep == IInv /\ [Next]_vars => HandlerInv'
<1> SUFFICES ASSUME IInv, [Next]_vars PROVE HandlerInv'
  OBVIOUS
<1> USE PhyAssumption DEF IInv, TypeOK, SessionInv, HandlerInv, Labels,
      UserLabels, IrqIsValid, SmCase, IrqMode, vars, phydev, line, works, phy,
      control, Goto, UserAt, ChangeAt, Thread, QueueMachine
<1>1. CASE UserCall
  BY <1>1 DEF UserCall, Connect, PhyStart, PhyStop, SetAutoneg, Disconnect,
       IntrEnabled, IntrNotEnabled
<1>2. CASE UserStep
  BY <1>2 DEF UserStep, StartInterrupts, EnableIntr, Resume, UserAneg,
       StopInterrupts, FreeIrq, CancelWork, Drain, StopMachine, IntrEnabled,
       IntrNotEnabled, StartAneg, DisableIntr, BeyondUp
<1>3. CASE ChangeStep
  BY <1>3 DEF ChangeStep, ChStart, ChDisable, ChLock, ChEnableLine, ChCheck,
       ChConfig, ChIgnore, DisableIntr, LineOn, LineOff
<1>4. CASE MachineCase
  BY <1>4 DEF MachineCase, SmIdle, SmUp, SmAn, SmNolink, SmForcing, SmRunning,
       SmChangelink, SmHalted, SmResuming, SmReadFails, Tick, Running
<1>5. CASE MachineAneg
  BY <1>5 DEF MachineAneg, StartAneg
<1>6. CASE Suspend
  BY <1>6 DEF Suspend
<1>7. CASE SmDone
  BY <1>7 DEF SmDone
<1>8. CASE PhyInterrupt
  BY <1>8 DEF PhyInterrupt, LineOff
<1>9. CASE MacInterrupt
  BY <1>9 DEF MacInterrupt
<1>10. CASE CableChange
  BY <1>10 DEF CableChange
<1>11. CASE NegotiationCompletes
  BY <1>11 DEF NegotiationCompletes
<1>12. ASSUME NEW t \in Thread, Trigger(t) PROVE HandlerInv'
  BY <1>12 DEF Trigger, Halt, Cancel, Flush, Queue, Return
<1>13. CASE UNCHANGED vars
  BY <1>13
<1>q. QED
  BY <1>1, <1>2, <1>3, <1>4, <1>5, <1>6, <1>7, <1>8, <1>9, <1>10, <1>11, <1>12,
       <1>13 DEF Next, MachineStep

\* cancel_work_sync comes after free_irq, so nobody queues phy_change again.
LEMMA ChangeInvStep == IInv /\ [Next]_vars => ChangeInv'
<1> SUFFICES ASSUME IInv, [Next]_vars PROVE ChangeInv'
  OBVIOUS
<1> USE PhyAssumption DEF IInv, TypeOK, SessionInv, HandlerInv, ChangeInv,
      OwnsLine, Labels, UserLabels, ChangeLabels, IrqIsValid, SmCase, IrqMode,
      vars, phydev, line, works, phy, control, Goto, UserAt, ChangeAt, Thread,
      QueueMachine
<1>1. CASE UserCall
  BY <1>1 DEF UserCall, Connect, PhyStart, PhyStop, SetAutoneg, Disconnect,
       IntrEnabled, IntrNotEnabled
<1>2. CASE UserStep
  BY <1>2 DEF UserStep, StartInterrupts, EnableIntr, Resume, UserAneg,
       StopInterrupts, FreeIrq, CancelWork, Drain, StopMachine, IntrEnabled,
       IntrNotEnabled, StartAneg, DisableIntr, BeyondUp
<1>3. CASE ChangeStep
  BY <1>3 DEF ChangeStep, ChStart, ChDisable, ChLock, ChEnableLine, ChCheck,
       ChConfig, ChIgnore, DisableIntr, LineOn, LineOff
<1>4. CASE MachineCase
  BY <1>4 DEF MachineCase, SmIdle, SmUp, SmAn, SmNolink, SmForcing, SmRunning,
       SmChangelink, SmHalted, SmResuming, SmReadFails, Tick, Running
<1>5. CASE MachineAneg
  BY <1>5 DEF MachineAneg, StartAneg
<1>6. CASE Suspend
  BY <1>6 DEF Suspend
<1>7. CASE SmDone
  BY <1>7 DEF SmDone
<1>8. CASE PhyInterrupt
  BY <1>8 DEF PhyInterrupt, LineOff
<1>9. CASE MacInterrupt
  BY <1>9 DEF MacInterrupt
<1>10. CASE CableChange
  BY <1>10 DEF CableChange
<1>11. CASE NegotiationCompletes
  BY <1>11 DEF NegotiationCompletes
<1>12. ASSUME NEW t \in Thread, Trigger(t) PROVE ChangeInv'
  BY <1>12 DEF Trigger, Halt, Cancel, Flush, Queue, Return
<1>13. CASE UNCHANGED vars
  BY <1>13
<1>q. QED
  BY <1>1, <1>2, <1>3, <1>4, <1>5, <1>6, <1>7, <1>8, <1>9, <1>10, <1>11, <1>12,
       <1>13 DEF Next, MachineStep

\* Who disables the line counts it, and phy_change enables it once per interrupt.
LEMMA BalanceStep == IInv /\ [Next]_vars => IrqBalanced'
<1> SUFFICES ASSUME IInv, [Next]_vars PROVE IrqBalanced'
  OBVIOUS
<1> USE PhyAssumption DEF IInv, TypeOK, SessionInv, HandlerInv, ChangeInv,
      IrqBalanced, OwnsLine, Owed, Labels, UserLabels, ChangeLabels,
      IrqIsValid, SmCase, IrqMode, vars, phydev, line, works, phy, control,
      Goto, UserAt, ChangeAt, Thread, QueueMachine
<1>1. CASE UserCall
  BY <1>1 DEF UserCall, Connect, PhyStart, PhyStop, SetAutoneg, Disconnect,
       IntrEnabled, IntrNotEnabled
<1>2. CASE UserStep
  BY <1>2 DEF UserStep, StartInterrupts, EnableIntr, Resume, UserAneg,
       StopInterrupts, FreeIrq, CancelWork, Drain, StopMachine, IntrEnabled,
       IntrNotEnabled, StartAneg, DisableIntr, BeyondUp
<1>3. CASE ChangeStep
  BY <1>3 DEF ChangeStep, ChStart, ChDisable, ChLock, ChEnableLine, ChCheck,
       ChConfig, ChIgnore, DisableIntr, LineOn, LineOff
<1>4. CASE MachineCase
  BY <1>4 DEF MachineCase, SmIdle, SmUp, SmAn, SmNolink, SmForcing, SmRunning,
       SmChangelink, SmHalted, SmResuming, SmReadFails, Tick, Running
<1>5. CASE MachineAneg
  BY <1>5 DEF MachineAneg, StartAneg
<1>6. CASE Suspend
  BY <1>6 DEF Suspend
<1>7. CASE SmDone
  BY <1>7 DEF SmDone
<1>8. CASE PhyInterrupt
  BY <1>8 DEF PhyInterrupt, LineOff
<1>9. CASE MacInterrupt
  BY <1>9 DEF MacInterrupt
<1>10. CASE CableChange
  BY <1>10 DEF CableChange
<1>11. CASE NegotiationCompletes
  BY <1>11 DEF NegotiationCompletes
<1>12. ASSUME NEW t \in Thread, Trigger(t) PROVE IrqBalanced'
  BY <1>12 DEF Trigger, Halt, Cancel, Flush, Queue, Return
<1>13. CASE UNCHANGED vars
  BY <1>13
<1>q. QED
  BY <1>1, <1>2, <1>3, <1>4, <1>5, <1>6, <1>7, <1>8, <1>9, <1>10, <1>11, <1>12,
       <1>13 DEF Next, MachineStep

\* PHY_AN and PHY_FORCING are entered with a fresh countdown.
LEMMA TimeoutStep == IInv /\ [Next]_vars => TimeoutInv'
<1> SUFFICES ASSUME IInv, [Next]_vars PROVE TimeoutInv'
  OBVIOUS
<1> USE PhyAssumption DEF IInv, TypeOK, TimeoutInv, Labels, MachineLabels,
      SmCase, vars, phydev, line, works, phy, control, Goto, UserAt, ChangeAt,
      Thread, QueueMachine
<1>1. CASE UserCall
  BY <1>1 DEF UserCall, Connect, PhyStart, PhyStop, SetAutoneg, Disconnect,
       IntrEnabled, IntrNotEnabled
<1>2. CASE UserStep
  BY <1>2 DEF UserStep, StartInterrupts, EnableIntr, Resume, UserAneg,
       StopInterrupts, FreeIrq, CancelWork, Drain, StopMachine, IntrEnabled,
       IntrNotEnabled, StartAneg, DisableIntr, BeyondUp
<1>3. CASE ChangeStep
  BY <1>3 DEF ChangeStep, ChStart, ChDisable, ChLock, ChEnableLine, ChCheck,
       ChConfig, ChIgnore, DisableIntr, LineOn, LineOff
<1>4. CASE MachineCase
  BY <1>4 DEF MachineCase, SmIdle, SmUp, SmAn, SmNolink, SmForcing, SmRunning,
       SmChangelink, SmHalted, SmResuming, SmReadFails, Tick, Running
<1>5. CASE MachineAneg
  BY <1>5 DEF MachineAneg, StartAneg
<1>6. CASE Suspend
  BY <1>6 DEF Suspend
<1>7. CASE SmDone
  BY <1>7 DEF SmDone
<1>8. CASE PhyInterrupt
  BY <1>8 DEF PhyInterrupt, LineOff
<1>9. CASE MacInterrupt
  BY <1>9 DEF MacInterrupt
<1>10. CASE CableChange
  BY <1>10 DEF CableChange
<1>11. CASE NegotiationCompletes
  BY <1>11 DEF NegotiationCompletes
<1>12. ASSUME NEW t \in Thread, Trigger(t) PROVE TimeoutInv'
  BY <1>12 DEF Trigger, Halt, Cancel, Flush, Queue, Return
<1>13. CASE UNCHANGED vars
  BY <1>13
<1>q. QED
  BY <1>1, <1>2, <1>3, <1>4, <1>5, <1>6, <1>7, <1>8, <1>9, <1>10, <1>11, <1>12,
       <1>13 DEF Next, MachineStep

\* While the machine is being cancelled nobody can queue it.
LEMMA StopStep == IInv /\ [Next]_vars => StopInv'
<1> SUFFICES ASSUME IInv, [Next]_vars PROVE StopInv'
  OBVIOUS
<1> USE PhyAssumption DEF IInv, TypeOK, SessionInv, HandlerInv, ChangeInv,
      OwnsLine, StopInv, Labels, UserLabels, MachineLabels, ChangeLabels,
      IrqIsValid, SmCase, Flushing, IrqMode, vars, phydev, line, works, phy,
      control, Goto, UserAt, ChangeAt, Thread, QueueMachine
<1>1. CASE UserCall
  BY <1>1 DEF UserCall, Connect, PhyStart, PhyStop, SetAutoneg, Disconnect,
       IntrEnabled, IntrNotEnabled
<1>2. CASE UserStep
  BY <1>2 DEF UserStep, StartInterrupts, EnableIntr, Resume, UserAneg,
       StopInterrupts, FreeIrq, CancelWork, Drain, StopMachine, IntrEnabled,
       IntrNotEnabled, StartAneg, DisableIntr, BeyondUp
<1>3. CASE ChangeStep
  BY <1>3 DEF ChangeStep, ChStart, ChDisable, ChLock, ChEnableLine, ChCheck,
       ChConfig, ChIgnore, DisableIntr, LineOn, LineOff
<1>4. CASE MachineCase
  BY <1>4 DEF MachineCase, SmIdle, SmUp, SmAn, SmNolink, SmForcing, SmRunning,
       SmChangelink, SmHalted, SmResuming, SmReadFails, Tick, Running
<1>5. CASE MachineAneg
  BY <1>5 DEF MachineAneg, StartAneg
<1>6. CASE Suspend
  BY <1>6 DEF Suspend
<1>7. CASE SmDone
  BY <1>7 DEF SmDone
<1>8. CASE PhyInterrupt
  BY <1>8 DEF PhyInterrupt, LineOff
<1>9. CASE MacInterrupt
  BY <1>9 DEF MacInterrupt
<1>10. CASE CableChange
  BY <1>10 DEF CableChange
<1>11. CASE NegotiationCompletes
  BY <1>11 DEF NegotiationCompletes
<1>12. ASSUME NEW t \in Thread, Trigger(t) PROVE StopInv'
  BY <1>12 DEF Trigger, Halt, Cancel, Flush, Queue, Return
<1>13. CASE UNCHANGED vars
  BY <1>13
<1>q. QED
  BY <1>1, <1>2, <1>3, <1>4, <1>5, <1>6, <1>7, <1>8, <1>9, <1>10, <1>11, <1>12,
       <1>13 DEF Next, MachineStep

-----------------------------------------------------------------------------
(* The theorems.                                                            *)

\* Every reachable state satisfies the inductive invariant.
THEOREM IInvHolds == Spec => []IInv
<1>1. Init => IInv
  <2> SUFFICES ASSUME Init PROVE IInv
    OBVIOUS
  <2>1. Flags
    BY Zenon DEF Init, Flags
  <2>2. TypeOK
    BY <2>1, PhyAssumption
       DEF Init, TypeOK, Thread, Label, PhyState, IrqMode
  <2>3. Labels /\ ErrorsLeft /\ SessionInv /\ TimeoutInv /\ StopInv
    BY DEF Init, Thread, Labels, MachineLabels, ChangeLabels, UserLabels,
       ErrorsLeft, SessionInv, TimeoutInv, StopInv
  <2>4. HandlerInv /\ ChangeInv /\ IrqBalanced
    BY DEF Init, Thread, HandlerInv, ChangeInv, IrqBalanced, OwnsLine, IrqIsValid
  <2>q. QED
    BY <2>2, <2>3, <2>4 DEF IInv
<1>2. IInv /\ [Next]_vars => IInv'
  BY FlagsStep, TypesStep, LabelsStep, SessionStep, HandlerStep, ChangeInvStep,
     BalanceStep, TimeoutStep, StopStep DEF IInv
<1>q. QED
  BY <1>1, <1>2, PTL DEF Spec

\* Type correctness; the two counters that the code decrements unconditionally
\* (phydev->irq_disable and phydev->link_timeout) never pass -1.
THEOREM TypesHold == Spec => []TypeOK
<1>1. IInv => TypeOK
  BY DEF IInv
<1>q. QED
  BY <1>1, IInvHolds, PTL

\* The interrupt line is disabled as often as irq_disable says, whatever
\* registers fail and whoever shares it, and fully enabled after
\* phy_stop_interrupts.
THEOREM LineBalanced == Spec => []IrqBalanced
<1>1. IInv => IrqBalanced
  BY DEF IInv
<1>q. QED
  BY <1>1, IInvHolds, PTL

\* The countdown of PHY_AN and PHY_FORCING is armed whenever the machine sleeps.
THEOREM CountdownArmed == Spec => []TimeoutArmed
<1>1. IInv => TimeoutArmed
  BY DEF IInv, TypeOK, TimeoutInv, TimeoutArmed
<1>q. QED
  BY <1>1, IInvHolds, PTL

\* After phy_disconnect nothing of the layer is queued or running.
THEOREM DetachedIdle == Spec => []DetachedIsIdle
<1>1. IInv => DetachedIsIdle
  <2> SUFFICES ASSUME IInv, session = "detached", irq # "IGNORE"
               PROVE  /\ ~phy_queue /\ ~state_queue
                      /\ pc["change"] = "idle" /\ pc["machine"] = "idle"
    BY DEF DetachedIsIdle
  <2>1. ~OwnsLine
    BY DEF IInv, SessionInv, HandlerInv, OwnsLine
  <2>2. ~phy_queue /\ pc["change"] = "idle"
    BY <2>1 DEF IInv, ChangeInv
  <2>q. QED
    BY <2>2 DEF IInv, StopInv
<1>q. QED
  BY <1>1, IInvHolds, PTL

\* The carrier is up in PHY_RUNNING.  This invariant is inductive by itself.
THEOREM CarrierWhenRunning == Spec => []RunningHasCarrier
<1> USE DEF RunningHasCarrier, phydev, line, works, phy, control
<1>1. Init => RunningHasCarrier
  BY DEF Init
<1>2. RunningHasCarrier /\ [Next]_vars => RunningHasCarrier'
  <2> SUFFICES ASSUME RunningHasCarrier, [Next]_vars PROVE RunningHasCarrier'
    OBVIOUS
  <2>1. CASE UserCall
    BY <2>1 DEF UserCall, Connect, PhyStart, PhyStop, SetAutoneg, Disconnect
  <2>2. CASE UserStep
    BY <2>2 DEF UserStep, StartInterrupts, EnableIntr, Resume, UserAneg,
       StartAneg, StopInterrupts, DisableIntr, FreeIrq, CancelWork, Drain,
       StopMachine
  <2>3. CASE ChangeStep
    BY <2>3 DEF ChangeStep, ChStart, ChDisable, DisableIntr, ChLock,
       ChEnableLine, ChCheck, ChConfig, ChIgnore
  <2>4. CASE MachineCase
    BY <2>4 DEF MachineCase, SmIdle, SmUp, SmAn, SmNolink, SmForcing, SmRunning,
       SmChangelink, SmHalted, SmResuming, SmReadFails, Tick, Running, SmCase
  <2>5. CASE MachineAneg \/ Suspend \/ SmDone
    BY <2>5 DEF MachineAneg, StartAneg, Suspend, SmDone
  <2>6. ASSUME NEW t \in Thread, Trigger(t) PROVE RunningHasCarrier'
    BY <2>6 DEF Trigger, Halt, Cancel, Flush, Queue
  <2>7. CASE PhyInterrupt \/ MacInterrupt \/ CableChange \/ NegotiationCompletes
    BY <2>7 DEF PhyInterrupt, MacInterrupt, CableChange, NegotiationCompletes
  <2>8. CASE UNCHANGED vars
    BY <2>8 DEF vars
  <2>q. QED
    BY <2>1, <2>2, <2>3, <2>4, <2>5, <2>6, <2>7, <2>8 DEF Next, MachineStep
<1>q. QED
  BY <1>1, <1>2, PTL DEF Spec

\* Only the driver takes the PHY out of PHY_HALTED: neither phy_change nor the
\* state machine revives a PHY that phy_stop or phy_error has halted.
THEOREM HaltedStays == Spec => HaltedIsSticky
<1> DEFINE Sticky == state = "HALTED" /\ state' # "HALTED" =>
                       pc'["user"] # pc["user"] \/ session' # session
<1>1. TypeOK /\ [Next]_vars => Sticky
  <2> SUFFICES ASSUME TypeOK, [Next]_vars, state = "HALTED", state' # "HALTED"
               PROVE  pc'["user"] # pc["user"] \/ session' # session
    OBVIOUS
  <2> USE DEF TypeOK, Thread, phydev, line, works, phy, control, Goto, UserAt
  <2>1. CASE UserCall
    BY <2>1 DEF UserCall, Connect, PhyStart, PhyStop, SetAutoneg, Disconnect
  <2>2. CASE UserStep
    BY <2>2 DEF UserStep, StartInterrupts, EnableIntr, Resume, UserAneg,
       StartAneg, StopInterrupts, DisableIntr, FreeIrq, CancelWork, Drain,
       StopMachine, BeyondUp
  <2>3. CASE ChangeStep
    BY <2>3 DEF ChangeStep, ChStart, ChDisable, DisableIntr, ChLock,
       ChEnableLine, ChCheck, ChConfig, ChIgnore
  <2>4. CASE MachineCase
    BY <2>4 DEF MachineCase, SmIdle, SmUp, SmAn, SmNolink, SmForcing, SmRunning,
       SmChangelink, SmHalted, SmResuming, SmReadFails, Tick, Running, SmCase
  <2>5. CASE MachineAneg \/ Suspend \/ SmDone
    BY <2>5 DEF MachineAneg, StartAneg, Suspend, SmDone
  <2>6. ASSUME NEW t \in Thread, Trigger(t) PROVE FALSE
    BY <2>6 DEF Trigger, Halt, Cancel, Flush, Queue
  <2>7. CASE PhyInterrupt \/ MacInterrupt \/ CableChange \/ NegotiationCompletes
    BY <2>7 DEF PhyInterrupt, MacInterrupt, CableChange, NegotiationCompletes
  <2>8. CASE UNCHANGED vars
    BY <2>8 DEF vars
  <2>q. QED
    BY <2>1, <2>2, <2>3, <2>4, <2>5, <2>6, <2>7, <2>8 DEF Next, MachineStep
<1>q. QED
  BY <1>1, TypesHold, PTL DEF HaltedIsSticky, Spec

-----------------------------------------------------------------------------
(* The two abstract specifications: IrqLine for the devices that share the  *)
(* interrupt, and, without phy_mac_interrupt, LinkService for the driver.   *)

\* Every step is a step of the line, or leaves it alone.
LEMMA LineStep == IInv /\ IInv' /\ [Next]_vars => [Line!Next]_(Line!vars)
<1> SUFFICES ASSUME IInv, IInv', [Next]_vars PROVE [Line!Next]_(Line!vars)
  OBVIOUS
<1> USE DEF Line!Next, Line!vars, Line!Request, Line!Disable, Line!Enable,
      Line!Release, OwnsLine, IInv, TypeOK, Flags, Thread, phydev, line, works,
      phy, control, Goto, UserAt, ChangeAt
<1>1. CASE UserCall
  BY <1>1 DEF UserCall, Connect, PhyStart, PhyStop, SetAutoneg, Disconnect,
       HandlerInv
<1>2. CASE StartInterrupts
  BY <1>2 DEF StartInterrupts, HandlerInv
<1>3. CASE FreeIrq
  BY <1>3 DEF FreeIrq, HandlerInv
<1>4. CASE Drain
  BY <1>4 DEF Drain, HandlerInv, IrqBalanced
<1>5. CASE EnableIntr \/ Resume \/ UserAneg \/ StopInterrupts \/ CancelWork
             \/ StopMachine
  BY <1>5 DEF EnableIntr, Resume, UserAneg, StartAneg, StopInterrupts,
       DisableIntr, CancelWork, StopMachine
<1>6. CASE ChEnableLine \/ ChIgnore
  BY <1>6 DEF ChEnableLine, ChIgnore, LineOn, IrqBalanced, Owed, ChangeInv,
       HandlerInv, IrqIsValid
<1>7. CASE ChConfig
  BY <1>7 DEF ChConfig, LineOff, ChangeInv, IrqIsValid
<1>8. CASE ChStart \/ ChDisable \/ ChLock \/ ChCheck
  BY <1>8 DEF ChStart, ChDisable, DisableIntr, ChLock, ChCheck
<1>9. CASE PhyInterrupt
  BY <1>9 DEF PhyInterrupt, LineOff
<1>10. CASE MachineCase
  BY <1>10 DEF MachineCase, SmIdle, SmUp, SmAn, SmNolink, SmForcing, SmRunning,
       SmChangelink, SmHalted, SmResuming, SmReadFails, Tick, Running, SmCase
<1>11. CASE MachineAneg \/ Suspend \/ SmDone
  BY <1>11 DEF MachineAneg, StartAneg, Suspend, SmDone
<1>12. ASSUME NEW t \in Thread, Trigger(t) PROVE [Line!Next]_(Line!vars)
  BY <1>12 DEF Trigger, Halt, Cancel, Flush, Queue, Return, SessionInv, HandlerInv
<1>13. CASE MacInterrupt \/ CableChange \/ NegotiationCompletes
  BY <1>13 DEF MacInterrupt, CableChange, NegotiationCompletes
<1>14. CASE UNCHANGED vars
  BY <1>14 DEF vars
<1>q. QED
  BY <1>1, <1>2, <1>3, <1>4, <1>5, <1>6, <1>7, <1>8, <1>9, <1>10, <1>11, <1>12,
     <1>13, <1>14 DEF Next, UserStep, ChangeStep, MachineStep

\* The layer implements IrqLine: whatever fails, whoever shares the line and
\* wherever phy_stop_interrupts meets phy_change, it never enables the line more
\* often than it disabled it and never lets go of a disabled line.
THEOREM LineImplemented == Spec => LineSpec
<1>1. Init => Line!Init
  BY DEF Init, Line!Init, OwnsLine, Thread
<1>2. QED
  BY <1>1, LineStep, IInvHolds, PTL DEF Spec, LineSpec, Line!Spec

-----------------------------------------------------------------------------
(* The driver's view.                                                       *)

\* Without phy_mac_interrupt, whose work phy_disconnect does not cancel, the machine
\* runs only for a connected PHY, and restarts a negotiation only of a started one.
DriverInv ==
  /\ irq # "IGNORE"
  /\ pc["machine"] = "aneg" => state \notin BeforeUp

LEMMA DriverInvStep == IInv /\ DriverInv /\ [Next]_vars => DriverInv'
<1> SUFFICES ASSUME IInv, DriverInv, [Next]_vars PROVE DriverInv'
  OBVIOUS
<1> USE DEF IInv, DriverInv, BeforeUp, TypeOK, Thread, StopInv, phydev, line, works,
      phy, control, Goto, UserAt, ChangeAt
<1>1. CASE UserCall
  BY <1>1 DEF UserCall, Connect, PhyStart, PhyStop, SetAutoneg, Disconnect
<1>2. CASE UserStep
  BY <1>2 DEF UserStep, StartInterrupts, EnableIntr, Resume, UserAneg, StartAneg,
       StopInterrupts, DisableIntr, FreeIrq, CancelWork, Drain, StopMachine, BeyondUp
<1>3. CASE ChangeStep
  BY <1>3 DEF ChangeStep, ChStart, ChDisable, DisableIntr, ChLock, ChEnableLine,
       ChCheck, ChConfig, ChIgnore
<1>4. CASE MachineCase
  BY <1>4 DEF MachineCase, SmIdle, SmUp, SmAn, SmNolink, SmForcing, SmRunning,
       SmChangelink, SmHalted, SmResuming, SmReadFails, Tick, Running, SmCase
<1>5. CASE MachineAneg \/ Suspend \/ SmDone
  BY <1>5 DEF MachineAneg, StartAneg, Suspend, SmDone
<1>6. ASSUME NEW t \in Thread, Trigger(t) PROVE DriverInv'
  BY <1>6 DEF Trigger, Halt, Cancel, Flush, Queue, Return
<1>7. CASE PhyInterrupt \/ MacInterrupt \/ CableChange \/ NegotiationCompletes
  BY <1>7 DEF PhyInterrupt, MacInterrupt, CableChange, NegotiationCompletes
<1>8. CASE UNCHANGED vars
  BY <1>8 DEF vars
<1>q. QED
  BY <1>1, <1>2, <1>3, <1>4, <1>5, <1>6, <1>7, <1>8 DEF Next, MachineStep

\* Every step is one the driver may see, or none.
LEMMA LinkStep == IInv /\ DriverInv /\ [Next]_vars => [Link!Next]_(Link!vars)
<1> SUFFICES ASSUME IInv, DriverInv, [Next]_vars PROVE [Link!Next]_(Link!vars)
  OBVIOUS
<1> USE DEF Link!Next, Link!vars, Mode, BeforeUp, IInv, DriverInv, TypeOK, Thread,
      phydev, line, works, phy, control, Goto, UserAt, ChangeAt
<1>1. CASE Connect
  BY <1>1 DEF Connect, Link!Connect
<1>2. CASE PhyStart
  BY <1>2 DEF PhyStart, Link!Start, Link!Call
<1>3. CASE PhyStop
  BY <1>3 DEF PhyStop, PhyState, Link!Halt
<1>4. CASE SetAutoneg \/ Disconnect
  BY <1>4 DEF SetAutoneg, Disconnect, Link!Call
<1>5. CASE UserAneg
  BY <1>5 DEF UserAneg, StartAneg, SessionInv, Link!Restart, Link!Call
<1>6. CASE StopMachine
  BY <1>6 DEF StopMachine, SessionInv, Link!Disconnect
<1>7. CASE StartInterrupts \/ EnableIntr \/ Resume \/ StopInterrupts \/ FreeIrq
             \/ CancelWork \/ Drain
  BY <1>7 DEF StartInterrupts, EnableIntr, Resume, StopInterrupts, DisableIntr,
       FreeIrq, CancelWork, Drain, Link!Call
<1>8. CASE ChangeStep
  BY <1>8 DEF ChangeStep, ChStart, ChDisable, DisableIntr, ChLock, ChEnableLine,
       ChCheck, ChConfig, ChIgnore
<1>9. CASE MachineCase
  <2>1. session # "detached"
    BY <1>9 DEF StopInv, MachineCase, SmIdle, SmUp, SmAn, SmNolink, SmForcing,
         SmRunning, SmChangelink, SmHalted, SmResuming, SmReadFails, Tick, SmCase
  <2>2. Mode' = Mode /\ pc'["user"] = pc["user"]
    BY <1>9, <2>1 DEF MachineCase, SmIdle, SmUp, SmAn, SmNolink, SmForcing, SmRunning,
         SmChangelink, SmHalted, SmResuming, SmReadFails, Tick, Running, SmCase
  <2>3. CASE SmHalted
    <3>1. carrier' = carrier \/ carrier' = FALSE
      BY <2>3, Zenon DEF SmHalted, Flags
    <3>2. Mode = "halted"
      BY <2>1, <2>3 DEF SmHalted, SmCase
    <3>q. QED
      BY <2>2, <3>1, <3>2 DEF Link!CarrierOff
  <2>4. CASE ~SmHalted
    <3>1. carrier' = carrier \/ Mode = "started"
      BY <1>9, <2>1, <2>4 DEF MachineCase, SmIdle, SmUp, SmAn, SmNolink, SmForcing,
           SmRunning, SmChangelink, SmResuming, SmReadFails, Tick, Running, SmCase
    <3>2. carrier' = TRUE \/ carrier' = FALSE
      BY FlagsStep DEF Flags
    <3>q. QED
      BY <2>2, <3>1, <3>2 DEF Link!CarrierOn, Link!CarrierOff
  <2>q. QED
    BY <2>3, <2>4
<1>10. CASE MachineAneg \/ Suspend \/ SmDone
  BY <1>10 DEF MachineAneg, StartAneg, Suspend, SmDone
<1>11. ASSUME NEW t \in Thread, Trigger(t) PROVE [Link!Next]_(Link!vars)
  <2>1. CASE Halt(t)
    <3>1. session # "detached"
      BY <2>1 DEF Halt, StopInv, SessionInv, ChangeInv, OwnsLine, HandlerInv
    <3>q. QED
      BY <2>1, <3>1 DEF Halt, PhyState, Link!Halt
  <2>2. CASE Cancel(t) \/ Flush(t) \/ Queue(t)
    BY <2>2 DEF Cancel, Flush, Queue, Link!Call
  <2>q. QED
    BY <1>11, <2>1, <2>2 DEF Trigger
<1>12. CASE PhyInterrupt \/ MacInterrupt \/ CableChange \/ NegotiationCompletes
  BY <1>12 DEF PhyInterrupt, MacInterrupt, CableChange, NegotiationCompletes
<1>13. CASE UNCHANGED vars
  BY <1>13 DEF vars
<1>q. QED
  BY <1>1, <1>2, <1>3, <1>4, <1>5, <1>6, <1>7, <1>8, <1>9, <1>10, <1>11, <1>12,
     <1>13 DEF Next, UserCall, UserStep, MachineStep

\* The layer implements LinkService for a PHY that interrupts or is polled: whatever
\* races and fails, only the driver starts a PHY, and the carrier comes on only in one
\* that is started.
THEOREM LinkImplemented ==
  ASSUME "IGNORE" \notin IrqModes
  PROVE  Spec => LinkSpec
<1>1. Init => DriverInv /\ Link!Init
  BY DEF Init, DriverInv, Link!Init, Mode, Thread
<1>2. QED
  BY <1>1, DriverInvStep, LinkStep, IInvHolds, PTL DEF Spec, LinkSpec, Link!Spec

-----------------------------------------------------------------------------
(* Interrupts while no register access fails.                               *)

\* Nobody is in phy_error, the line is disabled as often as phy_change will enable it,
\* and the PHY's interrupts are off only while somebody is about to turn them on.
LiveInv ==
  /\ \A t \in Thread : pc[t] # "halt" /\ errs[t] = 0
  /\ OwnsLine /\ pc["user"] # "drain" => depth = Owed
  /\ /\ session = "attached" /\ IrqIsValid /\ state # "HALTED"
     /\ pc["user"] \notin {"start_irq", "enable_intr"}
     /\ pc["change"] \notin {"lock", "enable_line", "check", "config"}
     => intr_on

LEMMA LiveInvStep == ~Faults /\ IInv /\ LiveInv /\ [Next]_vars => LiveInv'
<1> SUFFICES ASSUME ~Faults, IInv, LiveInv, [Next]_vars PROVE LiveInv'
  OBVIOUS
<1> USE DEF IInv, TypeOK, LiveInv, OwnsLine, Owed, IrqIsValid, Thread, phydev, line, works,
      phy, control, Goto, UserAt, ChangeAt
<1>1. CASE UserCall
  BY <1>1 DEF UserCall, Connect, PhyStart, PhyStop, SetAutoneg, Disconnect, IntrEnabled,
       IntrNotEnabled, SessionInv
<1>2. CASE UserStep
  BY <1>2 DEF UserStep, StartInterrupts, EnableIntr, Resume, UserAneg, StopInterrupts,
       FreeIrq, CancelWork, Drain, StopMachine, IntrEnabled, IntrNotEnabled, StartAneg,
       DisableIntr, BeyondUp, SessionInv, HandlerInv, ChangeInv, IrqBalanced
<1>3. CASE ChangeStep
  <2>1. CASE ChStart
    BY <2>1 DEF ChStart, HandlerInv
  <2>2. CASE ChDisable
    BY <2>2 DEF ChDisable, DisableIntr
  <2>3. CASE ChLock
    BY <2>3 DEF ChLock, HandlerInv, ChangeInv
  <2>4. CASE ChEnableLine
    BY <2>4 DEF ChEnableLine, LineOn
  <2>5. CASE ChCheck
    BY <2>5 DEF ChCheck
  <2>6. CASE ChConfig
    BY <2>6 DEF ChConfig
  <2>7. CASE ChIgnore
    BY <2>7 DEF ChIgnore, LineOn
  <2>q. QED
    BY <1>3, <2>1, <2>2, <2>3, <2>4, <2>5, <2>6, <2>7 DEF ChangeStep
<1>4. CASE MachineCase
  <2>1. UNCHANGED <<irq, session, phy_queue, depth, handler>>
        /\ pc'["user"] = pc["user"] /\ pc'["change"] = pc["change"] /\ errs' = errs
    BY <1>4 DEF MachineCase, SmIdle, SmUp, SmAn, SmNolink, SmForcing, SmRunning,
         SmChangelink, SmHalted, SmResuming, SmReadFails, Tick, SmCase
  <2>2. pc'["machine"] # "halt"
    BY <1>4 DEF MachineCase, SmIdle, SmUp, SmAn, SmNolink, SmForcing, SmRunning,
         SmChangelink, SmHalted, SmResuming, SmReadFails, Tick, SmCase
  <2>3. state = "HALTED" => state' = "HALTED"
    BY <1>4 DEF MachineCase, SmIdle, SmUp, SmAn, SmNolink, SmForcing, SmRunning,
         SmChangelink, SmHalted, SmResuming, SmReadFails, Tick, SmCase, BeforeUp
  <2>4. intr_on => intr_on'
    <3>1. CASE SmChangelink
      BY <3>1 DEF SmChangelink
    <3>2. CASE ~SmChangelink
      BY <1>4, <3>2 DEF MachineCase, SmIdle, SmUp, SmAn, SmNolink, SmForcing, SmRunning,
           SmHalted, SmResuming, SmReadFails, Tick, SmCase
    <3>q. QED
      BY <3>1, <3>2
  <2>q. QED
    BY <2>1, <2>2, <2>3, <2>4
<1>5. CASE MachineAneg \/ Suspend \/ SmDone
  BY <1>5 DEF MachineAneg, StartAneg, Suspend, SmDone
<1>6. ASSUME NEW t \in Thread, Trigger(t) PROVE LiveInv'
  BY <1>6 DEF Trigger, Halt, Cancel, Flush, Queue, Return
<1>7. CASE PhyInterrupt
  BY <1>7 DEF PhyInterrupt, LineOff, ChangeInv
<1>8. CASE MacInterrupt \/ CableChange \/ NegotiationCompletes
  BY <1>8 DEF MacInterrupt, CableChange, NegotiationCompletes, HandlerInv
<1>9. CASE UNCHANGED vars
  BY <1>9 DEF vars
<1>q. QED
  BY <1>1, <1>2, <1>3, <1>4, <1>5, <1>6, <1>7, <1>8, <1>9 DEF Next, MachineStep

LEMMA LiveInvInit == Init => LiveInv
  BY DEF Init, LiveInv, OwnsLine, Thread

\* If no register access fails, a PHY at rest that was not halted can interrupt: the
\* handler is installed, the line is on, and so are the PHY's interrupts.
THEOREM InterruptsStayLive == ASSUME ~Faults PROVE Spec => []IrqLive
<1>1. LiveInv /\ IInv => IrqLive
  BY DEF LiveInv, IInv, TypeOK, HandlerInv, IrqLive, OwnsLine, Owed, IrqIsValid
<1>2. Init => LiveInv
  BY LiveInvInit
<1>3. IInv /\ LiveInv /\ [Next]_vars => LiveInv'
  BY LiveInvStep
<1>q. QED
  BY <1>1, <1>2, <1>3, IInvHolds, PTL DEF Spec

-----------------------------------------------------------------------------
(* phy_suspend and phy_resume, with the history `overtaken' of MCPhy.       *)

\* A step that suspends a PHY which is not halted is what `overtaken' records; one that
\* starts a halted PHY goes on to phy_resume; nothing else ends what these have begun.
LEMMA PoweredStep ==
  ASSUME IInv, StartedIsPowered, [Next /\ Watch]_<<vars, overtaken>>
  PROVE  StartedIsPowered'
<1> USE DEF IInv, TypeOK, StartedIsPowered, Watch, Thread, phydev, line, works, phy,
      control, Goto, UserAt, ChangeAt
<1>1. CASE Watch /\ UserCall
  BY <1>1 DEF UserCall, Connect, PhyStart, PhyStop, SetAutoneg, Disconnect
<1>2. CASE Watch /\ UserStep
  BY <1>2 DEF UserStep, StartInterrupts, EnableIntr, Resume, UserAneg, StartAneg,
       StopInterrupts, DisableIntr, FreeIrq, CancelWork, Drain, StopMachine, BeyondUp,
       SessionInv
<1>3. CASE Watch /\ ChangeStep
  BY <1>3 DEF ChangeStep, ChStart, ChDisable, DisableIntr, ChLock, ChEnableLine,
       ChCheck, ChConfig, ChIgnore
<1>4. CASE Watch /\ MachineCase
  BY <1>4 DEF MachineCase, SmIdle, SmUp, SmAn, SmNolink, SmForcing, SmRunning,
       SmChangelink, SmHalted, SmResuming, SmReadFails, Tick, Running, SmCase, BeforeUp
<1>5. CASE Watch /\ (MachineAneg \/ Suspend \/ SmDone)
  BY <1>5 DEF MachineAneg, StartAneg, Suspend, SmDone
<1>6. ASSUME NEW t \in Thread, Trigger(t), Watch PROVE StartedIsPowered'
  BY <1>6 DEF Trigger, Halt, Cancel, Flush, Queue, Return
<1>7. CASE Watch /\ (PhyInterrupt \/ MacInterrupt \/ CableChange \/ NegotiationCompletes)
  BY <1>7 DEF PhyInterrupt, MacInterrupt, CableChange, NegotiationCompletes
<1>8. CASE UNCHANGED <<vars, overtaken>>
  BY <1>8 DEF vars
<1>q. QED
  BY <1>1, <1>2, <1>3, <1>4, <1>5, <1>6, <1>7, <1>8 DEF Next, MachineStep

\* Whatever the workers, the driver, the cable and failing registers do, a PHY that the
\* driver has started is powered, or about to be resumed, unless phy_suspend came after
\* the phy_resume of that start.
THEOREM StartedPowered == WatchedSpec => []StartedIsPowered
<1>1. WatchedInit => StartedIsPowered
  BY DEF WatchedInit, Init, StartedIsPowered
<1>2. WatchedInit => Init
  BY DEF WatchedInit
<1>3. [Next /\ Watch]_<<vars, overtaken>> => [Next]_vars
  OBVIOUS
<1>4. IInv /\ StartedIsPowered /\ [Next /\ Watch]_<<vars, overtaken>> => StartedIsPowered'
  BY PoweredStep
<1>q. QED
  BY <1>1, <1>2, <1>3, <1>4, IInvHolds, PTL DEF Spec, WatchedSpec

=============================================================================
