------------------------------ MODULE RiowdProofs ------------------------------
(***************************************************************************)
(* For any parameter, any margins and any number of processes: who has the *)
(* device open can use it, and the register follows what callers were told.*)
(***************************************************************************)
EXTENDS Riowd, TLAPS

\* How far the driver core is says what probe has set up.
Probed ==
  /\ driver \in {"unbound", "mapped", "bound", "deregistered"}
  /\ registered => driver = "bound"
  /\ driver # "unbound" => riowd_device /\ mapped
  /\ \A u \in User : file[u] /\ ~pulled => driver \in {"bound", "deregistered"}

\* Numbers, and processes that are in a call have the device open.
Calls ==
  /\ riowd_timeout \in Nat
  /\ wdto \in 0..255 /\ left \in 0..255 /\ (wdto = 0 => left = 0)
  /\ file \in [User -> BOOLEAN]
  /\ pc \in [User -> {"idle", "read", "write", "return"}]
  /\ arg \in [User -> Nat]
  /\ \A u \in User : pc[u] # "idle" => file[u]

\* Calls that do not overlap: the one that is under way carries what it will leave in
\* the register.
Carried ==
  ~raced =>
    /\ \A u, v \in User : pc[u] # "idle" /\ pc[v] # "idle" => u = v
    /\ ~pulled /\ riowd_timeout < 256 =>
         \A u \in User : /\ pc[u] \in {"write", "return"} => arg[u] \in {0, riowd_timeout}
                         /\ pc[u] = "return" => wdto = arg[u]

IInv == Probed /\ Calls /\ Carried /\ Armed

-----------------------------------------------------------------------------

LEMMA IInvInit == Init => IInv
<1> SUFFICES ASSUME Init PROVE IInv
  OBVIOUS
<1>1. file \in [User -> BOOLEAN]
  BY Zenon DEF Init
<1>2. riowd_timeout \in Nat
  BY RiowdAssumption DEF Init
<1>3. Probed
  BY DEF Init, Probed
<1>4. Calls /\ Carried /\ Armed
  BY <1>1, <1>2 DEF Init, Calls, Carried, Armed
<1>q. QED
  BY <1>3, <1>4 DEF IInv

\* The driver core: the register and the calls stay as they are.
LEMMA CoreStep == IInv /\ (Probe \/ Register \/ Deregister \/ Unmap) => IInv'
<1> SUFFICES ASSUME IInv, Probe \/ Register \/ Deregister \/ Unmap PROVE IInv'
  OBVIOUS
<1>1. UNCHANGED <<riowd_timeout, hw, file, pc, arg, on, raced>>
  BY DEF Probe, Register, Deregister, Unmap, locals, history
<1>2. /\ pulled => pulled'
      /\ Unmap /\ ~pulled' => \A u \in User : ~file[u]
      /\ Unmap \/ pulled' = pulled
  <2>1. Probe \/ Register \/ Deregister => pulled' = pulled
    BY DEF Probe, Register, Deregister, history
  <2>2. Unmap => pulled' = (pulled \/ \E u \in User : file[u])
    BY DEF Unmap
  <2>3. CASE Unmap
    <3>1. pulled => pulled'
      BY <2>2, <2>3
    <3>2. ~pulled' => \A u \in User : ~file[u]
      BY <2>2, <2>3
    <3>q. QED
      BY <2>3, <3>1, <3>2
  <2>q. QED
    BY <2>1, <2>3
<1>3. Probed'
  <2>1. CASE Probe
    BY <2>1 DEF IInv, Probed, Probe, history
  <2>2. CASE Register
    <3>1. /\ driver = "mapped" /\ file' = file /\ pulled' = pulled
          /\ \/ driver' = "bound" /\ UNCHANGED <<riowd_device, mapped>>
             \/ driver' = "unbound" /\ registered' = registered
      BY <2>2 DEF Register, history
    <3>2. ~registered
      BY <3>1 DEF IInv, Probed
    <3>3. \A u \in User : ~(file'[u] /\ ~pulled')
      BY <3>1 DEF IInv, Probed
    <3>4. CASE driver' = "bound" /\ UNCHANGED <<riowd_device, mapped>>
      BY <3>1, <3>3, <3>4 DEF IInv, Probed
    <3>5. CASE driver' = "unbound" /\ registered' = registered
      BY <3>2, <3>3, <3>5 DEF Probed
    <3>q. QED
      BY <3>1, <3>4, <3>5
  <2>3. CASE Deregister
    BY <2>3 DEF IInv, Probed, Deregister, history
  <2>4. CASE Unmap
    BY <1>2, <2>4 DEF IInv, Probed, Unmap
  <2>q. QED
    BY <2>1, <2>2, <2>3, <2>4
<1>4. Calls' /\ Carried'
  BY <1>1, <1>2 DEF IInv, Calls, Carried, hw
<1>5. Armed'
  BY <1>1, <1>2 DEF IInv, Armed, Quiet, hw
<1>q. QED
  BY <1>3, <1>4, <1>5 DEF IInv

LEMMA FileStep == ASSUME NEW u \in User PROVE IInv /\ (Open(u) \/ Release(u)) => IInv'
<1> SUFFICES ASSUME IInv, Open(u) \/ Release(u) PROVE IInv'
  OBVIOUS
<1>1. UNCHANGED <<device, riowd_timeout, hw, pc, arg, on, raced, pulled>>
  BY DEF Open, Release, locals, history
<1>2. \/ file' = [file EXCEPT ![u] = TRUE] /\ registered
      \/ file' = [file EXCEPT ![u] = FALSE] /\ pc[u] = "idle"
  BY DEF Open, Release
<1>3. file' \in [User -> BOOLEAN]
  BY <1>2, Zenon DEF IInv, Calls
<1>4. Probed'
  BY <1>1, <1>2 DEF IInv, Probed, Calls, device
<1>5. Calls'
  BY <1>1, <1>2, <1>3 DEF IInv, Calls, hw
<1>6. Carried' /\ Armed'
  BY <1>1 DEF IInv, Carried, Armed, Quiet, hw
<1>q. QED
  BY <1>4, <1>5, <1>6 DEF IInv

\* A call that begins while another is under way is a race; one that begins alone finds
\* nobody whose value it could overtake.
LEMMA CallStep ==
  ASSUME NEW u \in User
  PROVE  IInv /\ (Ping(u) \/ Disable(u) \/ \E m \in Margins : SetTimeout(u, m)) => IInv'
<1> SUFFICES ASSUME IInv, Ping(u) \/ Disable(u) \/ \E m \in Margins : SetTimeout(u, m)
             PROVE  IInv'
  OBVIOUS
<1>1. /\ UNCHANGED <<device, hw, file, pulled>> /\ file[u] /\ pc[u] = "idle"
      /\ ~raced' => ~Others(u)
      /\ \/ riowd_timeout' = riowd_timeout
         \/ \E m \in Margins : riowd_timeout' = (m + 59) \div 60
      /\ \/ pc' = [pc EXCEPT ![u] = "read"] /\ arg' = arg
         \/ pc' = [pc EXCEPT ![u] = "write"] /\ arg' = [arg EXCEPT ![u] = 0]
  BY DEF Ping, Disable, SetTimeout, Goto
<1>2. riowd_timeout' \in Nat
  BY <1>1, RiowdAssumption DEF IInv, Calls
<1>3. Probed'
  BY <1>1 DEF IInv, Probed, device
<1>4. Calls'
  BY <1>1, <1>2 DEF IInv, Calls, hw
<1>5. ~raced' => \A v \in User \ {u} : pc'[v] = "idle"
  BY <1>1 DEF Others, IInv, Calls
<1>6. Carried'
  BY <1>1, <1>5 DEF IInv, Carried, Calls
<1>7. Armed'
  BY <1>1 DEF IInv, Armed, Quiet, Calls
<1>q. QED
  BY <1>3, <1>4, <1>6, <1>7 DEF IInv

LEMMA ReadStep == ASSUME NEW u \in User PROVE IInv /\ Read(u) => IInv'
<1> SUFFICES ASSUME IInv, Read(u) PROVE IInv'
  OBVIOUS
<1>1. /\ UNCHANGED <<device, hw, file, riowd_timeout, on, raced, pulled>> /\ pc[u] = "read"
      /\ pc' = [pc EXCEPT ![u] = "write"] /\ arg' = [arg EXCEPT ![u] = riowd_timeout]
  BY DEF Read, Goto, history
<1>2. Probed'
  BY <1>1 DEF IInv, Probed, device
<1>3. Calls' /\ Carried'
  BY <1>1 DEF IInv, Calls, Carried, hw
<1>4. Armed'
  BY <1>1 DEF IInv, Armed, Quiet, Calls
<1>q. QED
  BY <1>2, <1>3, <1>4 DEF IInv

\* The registers are there, and eight bits are enough, unless one of the excuses applies.
LEMMA WriteStep == ASSUME NEW u \in User PROVE IInv /\ WriteReg(u) => IInv'
<1> SUFFICES ASSUME IInv, WriteReg(u) PROVE IInv'
  OBVIOUS
<1>1. /\ UNCHANGED <<device, file, riowd_timeout, arg, on, raced, pulled>> /\ pc[u] = "write"
      /\ pc' = [pc EXCEPT ![u] = "return"]
      /\ IF mapped THEN wdto' = arg[u] % 256 ELSE wdto' = wdto
      /\ left' = wdto' \/ (left' = left /\ wdto' # 0) \/ (left' = left /\ wdto' = wdto)
  <2>1. ASSUME mapped, ~heeded' PROVE wdto' # 0
    BY <2>1 DEF WriteReg
  <2>q. QED
    BY <2>1 DEF WriteReg, Goto, hw, locals, history
<1>2. Probed'
  BY <1>1 DEF IInv, Probed, device
<1>3. wdto' \in 0..255 /\ left' \in 0..255 /\ (wdto' = 0 => left' = 0)
  <2>1. wdto' \in 0..255
    BY <1>1 DEF IInv, Calls
  <2>q. QED
    BY <1>1, <2>1 DEF IInv, Calls
<1>4. Calls'
  BY <1>1, <1>3 DEF IInv, Calls
<1>5. ASSUME ~raced, ~pulled, riowd_timeout < 256 PROVE wdto' = arg[u]
  <2>1. mapped
    BY <1>1, <1>5 DEF IInv, Calls, Probed
  <2>2. arg[u] \in Nat /\ arg[u] < 256
    BY <1>1, <1>5 DEF IInv, Calls, Carried
  <2>q. QED
    BY <1>1, <2>1, <2>2
<1>6. Carried'
  BY <1>1, <1>5 DEF IInv, Carried, Calls
<1>7. Armed'
  BY <1>1 DEF IInv, Armed, Quiet, Calls
<1>q. QED
  BY <1>2, <1>4, <1>6, <1>7 DEF IInv

LEMMA ReturnStep == ASSUME NEW u \in User PROVE IInv /\ Return(u) => IInv'
<1> SUFFICES ASSUME IInv, Return(u) PROVE IInv'
  OBVIOUS
<1>1. /\ UNCHANGED <<device, hw, file, riowd_timeout, arg, raced, pulled>> /\ pc[u] = "return"
      /\ pc' = [pc EXCEPT ![u] = "idle"] /\ on' = (arg[u] # 0)
  BY DEF Return, Goto, locals
<1>2. Probed'
  BY <1>1 DEF IInv, Probed, device
<1>3. Calls' /\ Carried'
  BY <1>1 DEF IInv, Calls, Carried, hw
<1>4. Armed'
  BY <1>1 DEF IInv, Armed, Carried, Quiet, Calls, hw
<1>q. QED
  BY <1>2, <1>3, <1>4 DEF IInv

LEMMA TickStep == IInv /\ Tick => IInv'
<1> SUFFICES ASSUME IInv, Tick PROVE IInv'
  OBVIOUS
<1>1. /\ UNCHANGED <<device, riowd_timeout, wdto, file, pc, arg, on, raced, pulled>>
      /\ left' = IF left = 0 THEN 0 ELSE left - 1
  BY DEF Tick, locals
<1>2. left' \in 0..255 /\ (wdto' = 0 => left' = 0)
  BY <1>1 DEF IInv, Calls
<1>3. Probed' /\ Calls'
  BY <1>1, <1>2 DEF IInv, Probed, Calls, device
<1>4. Carried' /\ Armed'
  BY <1>1 DEF IInv, Carried, Armed, Quiet
<1>q. QED
  BY <1>3, <1>4 DEF IInv

-----------------------------------------------------------------------------

LEMMA IInvHolds == Spec => []IInv
<1>1. IInv /\ UNCHANGED vars => IInv'
  <2> SUFFICES ASSUME IInv, UNCHANGED vars PROVE IInv'
    OBVIOUS
  <2>1. Probed' /\ Calls'
    BY DEF vars, IInv, Probed, Calls
  <2>2. Carried' /\ Armed'
    BY DEF vars, IInv, Carried, Armed, Quiet
  <2>q. QED
    BY <2>1, <2>2 DEF IInv
<1>2. IInv /\ [Next]_vars => IInv'
  <2>1. ASSUME NEW u \in User,
               \/ Open(u) \/ Release(u)
               \/ Ping(u) \/ Disable(u) \/ \E m \in Margins : SetTimeout(u, m)
               \/ Read(u) \/ WriteReg(u) \/ Return(u)
        PROVE  IInv => IInv'
    BY <2>1, FileStep, CallStep, ReadStep, WriteStep, ReturnStep
  <2>q. QED
    BY <1>1, <2>1, CoreStep, TickStep DEF Next
<1>q. QED
  BY <1>2, IInvInit, PTL DEF Spec

\* What sets the flags.
LEMMA FlagsStep ==
  [Next]_vars =>
    /\ riowd_device' = riowd_device \/ riowd_device' = TRUE \/ riowd_device' = FALSE
    /\ mapped' = mapped \/ mapped' = TRUE \/ mapped' = FALSE
    /\ registered' = registered \/ registered' = TRUE \/ registered' = FALSE
    /\ heeded' = heeded \/ heeded' \in {TRUE, wdto = 0 \/ wdto' = 0}
    /\ on' = on \/ \E u \in User : on' = (arg[u] # 0)
    /\ raced' = raced \/ \E u \in User : raced' = (raced \/ Others(u)) \/ raced' = Others(u)
    /\ pulled' = pulled \/ pulled' = (pulled \/ \E u \in User : file[u])
    /\ early' = early \/ Tick
<1> SUFFICES ASSUME [Next]_vars
             PROVE  /\ riowd_device' = riowd_device \/ riowd_device' = TRUE \/ riowd_device' = FALSE
                    /\ mapped' = mapped \/ mapped' = TRUE \/ mapped' = FALSE
                    /\ registered' = registered \/ registered' = TRUE \/ registered' = FALSE
                    /\ heeded' = heeded \/ heeded' \in {TRUE, wdto = 0 \/ wdto' = 0}
                    /\ on' = on \/ \E u \in User : on' = (arg[u] # 0)
                    /\ \/ raced' = raced
                       \/ \E u \in User : raced' = (raced \/ Others(u)) \/ raced' = Others(u)
                    /\ pulled' = pulled \/ pulled' = (pulled \/ \E u \in User : file[u])
                    /\ early' = early \/ Tick
  OBVIOUS
<1> USE DEF device, hw, history
<1>1. CASE UNCHANGED vars
  BY <1>1 DEF vars
<1>2. CASE Probe \/ Register \/ Deregister \/ Unmap
  BY <1>2 DEF Probe, Register, Deregister, Unmap
<1>3. ASSUME NEW u \in User, Open(u) \/ Release(u) \/ Read(u) \/ WriteReg(u)
      PROVE  /\ UNCHANGED <<device, on, raced, pulled, early>>
             /\ heeded' = heeded \/ heeded' \in {TRUE, wdto = 0 \/ wdto' = 0}
  BY <1>3 DEF Open, Release, Read, WriteReg
<1>4. ASSUME NEW u \in User, Ping(u) \/ Disable(u) \/ \E m \in Margins : SetTimeout(u, m)
      PROVE  /\ UNCHANGED <<device, heeded, on, pulled, early>>
             /\ raced' = (raced \/ Others(u)) \/ raced' = Others(u)
  BY <1>4 DEF Ping, Disable, SetTimeout
<1>5. ASSUME NEW u \in User, Return(u)
      PROVE  UNCHANGED <<device, heeded, raced, pulled, early>> /\ on' = (arg[u] # 0)
  BY <1>5 DEF Return
<1>6. CASE Tick
  BY <1>6 DEF Tick
<1>q. QED
  BY <1>1, <1>2, <1>3, <1>4, <1>5, <1>6 DEF Next

LEMMA FlagsTyped ==
  TypeOK /\ [Next]_vars =>
    /\ riowd_device' \in BOOLEAN /\ mapped' \in BOOLEAN /\ registered' \in BOOLEAN
    /\ on' \in BOOLEAN /\ raced' \in BOOLEAN /\ pulled' \in BOOLEAN /\ early' \in BOOLEAN
    /\ heeded' \in BOOLEAN
<1> SUFFICES ASSUME TypeOK, [Next]_vars
             PROVE  /\ riowd_device' \in BOOLEAN /\ mapped' \in BOOLEAN
                    /\ registered' \in BOOLEAN
                    /\ on' \in BOOLEAN /\ raced' \in BOOLEAN /\ pulled' \in BOOLEAN
                    /\ early' \in BOOLEAN /\ heeded' \in BOOLEAN
  OBVIOUS
<1>1. riowd_device' \in BOOLEAN /\ mapped' \in BOOLEAN /\ registered' \in BOOLEAN
  <2>1. ASSUME NEW old \in BOOLEAN, NEW new, new = old \/ new = TRUE \/ new = FALSE
        PROVE  new \in BOOLEAN
    BY <2>1, Zenon
  <2>q. QED
    BY <2>1, FlagsStep DEF TypeOK
<1>2. on' \in BOOLEAN
  <2>1. ASSUME NEW u \in User, on' = (arg[u] # 0) PROVE on' \in BOOLEAN
    BY <2>1, Zenon
  <2>q. QED
    BY <2>1, FlagsStep DEF TypeOK
<1>3. raced' \in BOOLEAN
  <2>1. ASSUME NEW u \in User, raced' = (raced \/ Others(u)) \/ raced' = Others(u)
        PROVE  raced' \in BOOLEAN
    BY <2>1, Zenon DEF Others
  <2>q. QED
    BY <2>1, FlagsStep DEF TypeOK
<1>4. pulled' \in BOOLEAN
  <2>1. ASSUME pulled' = (pulled \/ \E u \in User : file[u]) PROVE pulled' \in BOOLEAN
    BY <2>1, Zenon
  <2>q. QED
    BY <2>1, FlagsStep DEF TypeOK
<1>5. early' \in BOOLEAN
  <2>1. CASE early' = early
    BY <2>1, Zenon DEF TypeOK
  <2>2. CASE Tick
    BY <2>2, Zenon DEF Tick
  <2>q. QED
    BY <2>1, <2>2, FlagsStep
<1>6. heeded' \in BOOLEAN
  <2>1. CASE heeded' = heeded
    BY <2>1, Zenon DEF TypeOK
  <2>2. CASE heeded' \in {TRUE, wdto = 0 \/ wdto' = 0}
    BY <2>2, Zenon
  <2>q. QED
    BY <2>1, <2>2, FlagsStep
<1>q. QED
  BY <1>1, <1>2, <1>3, <1>4, <1>5, <1>6

LEMMA TimesTyped ==
  TypeOK /\ [Next]_vars =>
    margin' \in [User -> Nat] /\ told' \in Nat /\ waited' \in 0..Late
<1> SUFFICES ASSUME TypeOK, [Next]_vars
             PROVE  margin' \in [User -> Nat] /\ told' \in Nat /\ waited' \in 0..Late
  OBVIOUS
<1> USE RiowdAssumption DEF TypeOK, locals, history
<1>1. CASE UNCHANGED vars
  BY <1>1 DEF vars
<1>2. CASE Probe \/ Register \/ Deregister \/ Unmap
  BY <1>2 DEF Probe, Register, Deregister, Unmap
<1>3. ASSUME NEW u \in User,
             Open(u) \/ Release(u) \/ Ping(u) \/ Disable(u) \/ Read(u) \/ WriteReg(u)
      PROVE  margin' \in [User -> Nat] /\ told' = told /\ waited' \in 0..Late
  <2>1. CASE Open(u) \/ Release(u) \/ Read(u) \/ WriteReg(u)
    <3>1. UNCHANGED <<margin, told, waited>>
      BY <2>1 DEF Open, Release, Read, WriteReg
    <3>q. QED
      BY <3>1
  <2>2. CASE Ping(u) \/ Disable(u)
    BY <2>2 DEF Ping, Disable
  <2>q. QED
    BY <1>3, <2>1, <2>2
<1>4. ASSUME NEW u \in User, NEW m \in Margins, SetTimeout(u, m)
      PROVE  margin' \in [User -> Nat] /\ told' = told /\ waited' = 0
  BY <1>4 DEF SetTimeout
<1>5. ASSUME NEW u \in User, Return(u)
      PROVE  margin' = margin /\ told' \in Nat /\ waited' = waited
  BY <1>5 DEF Return
<1>6. CASE Tick
  BY <1>6 DEF Tick
<1>q. QED
  BY <1>1, <1>2, <1>3, <1>4, <1>5, <1>6 DEF Next

LEMMA TypeOKInit == Init => TypeOK
<1> SUFFICES ASSUME Init PROVE TypeOK
  OBVIOUS
<1>1. riowd_timeout \in Nat /\ told \in Nat
  BY RiowdAssumption DEF Init
<1>2. /\ riowd_device \in BOOLEAN /\ mapped \in BOOLEAN /\ registered \in BOOLEAN
      /\ on \in BOOLEAN /\ raced \in BOOLEAN /\ pulled \in BOOLEAN /\ early \in BOOLEAN
      /\ heeded \in BOOLEAN
  BY Zenon DEF Init
<1>3. margin \in [User -> Nat] /\ waited \in 0..Late
  BY RiowdAssumption DEF Init
<1>q. QED
  BY <1>1, <1>2, <1>3, IInvInit DEF IInv, Probed, Calls, TypeOK

\* Every variable keeps its type; above all the register and the minutes left their eight
\* bits.
THEOREM TypeCorrect == Spec => []TypeOK
<1>1. TypeOK /\ IInv' /\ [Next]_vars => TypeOK'
  BY FlagsTyped, TimesTyped DEF IInv, Probed, Calls, TypeOK
<1>q. QED
  BY <1>1, TypeOKInit, IInvHolds, PTL DEF Spec

\* Who has the device open finds the pointer set and the registers mapped, unless the
\* device was removed under it.
THEOREM OpenIsUsable == Spec => []Usable
<1>1. IInv => Usable
  BY DEF IInv, Probed, Usable
<1>q. QED
  BY <1>1, IInvHolds, PTL

\* Between calls that did not overlap the register has what the driver would tell.
THEOREM RegisterFollows == Spec => []Armed
<1>1. IInv => Armed
  BY DEF IInv
<1>q. QED
  BY <1>1, IInvHolds, PTL

-----------------------------------------------------------------------------
(* The minutes of the register last for the margin that was asked for.      *)

\* The minutes set cover what processes were told, or are about to be told.
Covers ==
  ~raced =>
    /\ Quiet => told =< riowd_timeout * 60
    /\ \A u \in User :
         pc[u] # "idle" =>
           IF margin[u] = 0 THEN told =< riowd_timeout * 60
                            ELSE margin[u] =< riowd_timeout * 60

\* What is left and what was waited make up the register, once it is written to effect.
Lasts ==
  /\ riowd_timeout < 256 => riowd_timeout =< Late
  /\ ~raced /\ ~pulled /\ heeded /\ riowd_timeout < 256
       /\ (\A u \in User : pc[u] \in {"idle", "return"}) =>
       left + waited >= wdto

TimeInv == Covers /\ Lasts

\* Rounding up to minutes does not shorten a margin, nor lengthen it past the bound.
LEMMA RoundedUp ==
  ASSUME NEW m \in Nat
  PROVE  /\ (m + 59) \div 60 \in Nat /\ m =< ((m + 59) \div 60) * 60
         /\ \A n \in Nat : m =< 60 * n => (m + 59) \div 60 =< n
  OBVIOUS

LEMMA TimeInvInit == Init => TimeInv
  BY RiowdAssumption DEF Init, TimeInv, Covers, Lasts, Quiet

LEMMA TimeInvCall ==
  ASSUME NEW u \in User
  PROVE  TypeOK /\ IInv /\ TimeInv /\ (Ping(u) \/ Disable(u) \/ \E m \in Margins : SetTimeout(u, m))
           => TimeInv'
<1> SUFFICES ASSUME TypeOK, IInv, TimeInv,
                    Ping(u) \/ Disable(u) \/ \E m \in Margins : SetTimeout(u, m)
             PROVE  TimeInv'
  OBVIOUS
<1>1. /\ pc' \in [User -> {"idle", "read", "write", "return"}]
      /\ pc'[u] \in {"read", "write"} /\ told' = told
      /\ ~raced' => \A v \in User : pc[v] = "idle" /\ (v # u => pc'[v] = "idle")
  BY DEF Ping, Disable, SetTimeout, Goto, Others, TypeOK
<1>2. CASE Ping(u) \/ Disable(u)
  <2>1. riowd_timeout' = riowd_timeout /\ margin'[u] = 0
    BY <1>2 DEF Ping, Disable, TypeOK
  <2>2. ~raced' => ~raced
    BY <1>2 DEF Ping, Disable
  <2>q. QED
    BY <1>1, <2>1, <2>2 DEF TimeInv, Covers, Lasts, Quiet
<1>3. ASSUME NEW m \in Margins, SetTimeout(u, m) PROVE TimeInv'
  <2>1. riowd_timeout' = (m + 59) \div 60 /\ margin'[u] = m /\ m >= 60
    BY <1>3 DEF SetTimeout, TypeOK
  <2>2. m \in Nat /\ m =< 60 * Late /\ Late \in Nat
    BY RiowdAssumption
  <2>3. riowd_timeout' \in Nat /\ m =< riowd_timeout' * 60 /\ riowd_timeout' =< Late
    BY <2>1, <2>2, RoundedUp
  <2>q. QED
    BY <1>1, <2>1, <2>2, <2>3 DEF TimeInv, Covers, Lasts, Quiet
<1>q. QED
  BY <1>2, <1>3

LEMMA TimeInvTick == TypeOK /\ IInv /\ TimeInv /\ Tick => TimeInv'
<1> SUFFICES ASSUME TypeOK, IInv, TimeInv, Tick PROVE TimeInv'
  OBVIOUS
<1>1. /\ UNCHANGED <<riowd_timeout, wdto, heeded, pc, margin, told, raced, pulled>>
      /\ left' = IF left = 0 THEN 0 ELSE left - 1
      /\ waited' = IF waited < Late THEN waited + 1 ELSE waited
  BY DEF Tick, locals
<1>2. Covers'
  BY <1>1 DEF TimeInv, Covers, Quiet
<1>3. Lasts'
  <2>1. ASSUME ~raced, ~pulled, heeded, riowd_timeout < 256,
               \A u \in User : pc[u] \in {"idle", "return"}
        PROVE  left' + waited' >= wdto
    <3>1. left + waited >= wdto /\ riowd_timeout =< Late
      BY <2>1 DEF TimeInv, Lasts
    <3>2. wdto =< riowd_timeout
      <4>1. CASE Quiet
        BY <2>1, <4>1 DEF IInv, Armed, TypeOK
      <4>2. CASE ~Quiet
        BY <2>1, <4>2 DEF IInv, Carried, Quiet, TypeOK
      <4>q. QED
        BY <4>1, <4>2
    <3>q. QED
      BY <1>1, <3>1, <3>2, RiowdAssumption DEF TypeOK
  <2>q. QED
    BY <1>1, <2>1 DEF TimeInv, Lasts
<1>q. QED
  BY <1>2, <1>3 DEF TimeInv

LEMMA TimeInvStep == TypeOK /\ IInv /\ TimeInv /\ [Next]_vars => TimeInv'
<1> SUFFICES ASSUME TypeOK, IInv, TimeInv, [Next]_vars PROVE TimeInv'
  OBVIOUS
<1>1. CASE UNCHANGED vars
  BY <1>1 DEF vars, TimeInv, Covers, Lasts, Quiet
<1>2. CASE Probe \/ Register \/ Deregister \/ Unmap
  <2>1. UNCHANGED <<riowd_timeout, hw, pc, margin, told, waited, raced>>
    BY <1>2 DEF Probe, Register, Deregister, Unmap, locals, history
  <2>2. ~pulled' => ~pulled
    BY <1>2 DEF Probe, Register, Deregister, Unmap, history
  <2>q. QED
    BY <2>1, <2>2 DEF TimeInv, Covers, Lasts, Quiet, hw
<1>3. ASSUME NEW u \in User, Open(u) \/ Release(u) PROVE TimeInv'
  BY <1>3 DEF Open, Release, locals, history, TimeInv, Covers, Lasts, Quiet, hw
<1>4. ASSUME NEW u \in User, Read(u) PROVE TimeInv'
  BY <1>4 DEF Read, Goto, history, TimeInv, Covers, Lasts, Quiet, TypeOK
<1>5. ASSUME NEW u \in User, WriteReg(u) PROVE TimeInv'
  <2>1. /\ pc[u] = "write" /\ pc' = [pc EXCEPT ![u] = "return"]
        /\ UNCHANGED <<riowd_timeout, margin, told, waited, raced, pulled>>
        /\ mapped => wdto' = arg[u] % 256 /\ (heeded' => left' = wdto')
    BY <1>5 DEF WriteReg, Goto, locals, history
  <2>2. ~pulled => mapped
    BY <2>1 DEF IInv, Calls, Probed
  <2>3. arg[u] % 256 \in Nat
    BY DEF TypeOK
  <2>q. QED
    BY <2>1, <2>2, <2>3 DEF TimeInv, Covers, Lasts, Quiet, TypeOK
<1>6. ASSUME NEW u \in User, Return(u) PROVE TimeInv'
  <2>1. /\ pc[u] = "return" /\ pc' = [pc EXCEPT ![u] = "idle"]
        /\ told' = IF margin[u] = 0 THEN told ELSE margin[u]
        /\ UNCHANGED <<hw, riowd_timeout, margin, waited, raced, pulled>>
    BY <1>6 DEF Return, Goto, locals
  <2>2. ASSUME ~raced, NEW v \in User, pc[v] # "idle" PROVE v = u
    BY <2>1, <2>2 DEF IInv, Carried
  <2>3. Covers'
    BY <2>1, <2>2 DEF TimeInv, Covers, Quiet, TypeOK
  <2>4. Lasts'
    BY <2>1 DEF TimeInv, Lasts, hw, TypeOK
  <2>q. QED
    BY <2>3, <2>4 DEF TimeInv
<1>q. QED
  BY <1>1, <1>2, <1>3, <1>4, <1>5, <1>6, TimeInvCall, TimeInvTick DEF Next

\* A watchdog that is about to trigger is on, and its time has come.
LEMMA InTime ==
  TypeOK /\ IInv /\ TimeInv /\ left = 1 /\ Quiet /\ ~raced /\ ~pulled /\ riowd_timeout < 256
    => on /\ ~(heeded /\ (waited + 1) * 60 < told)
<1> SUFFICES ASSUME TypeOK, IInv, TimeInv, left = 1, Quiet, ~raced, ~pulled,
                    riowd_timeout < 256
             PROVE  on /\ (heeded => ~((waited + 1) * 60 < told))
  OBVIOUS
<1>1. wdto = IF on THEN riowd_timeout ELSE 0
  BY DEF IInv, Armed
<1>2. wdto # 0
  BY DEF IInv, Calls
<1>3. on
  BY <1>1, <1>2
<1>4. heeded => left + waited >= wdto
  BY DEF TimeInv, Lasts, Quiet
<1>5. told =< riowd_timeout * 60
  BY DEF TimeInv, Covers
<1>6. /\ heeded => waited + 1 >= riowd_timeout
      /\ waited \in Nat /\ riowd_timeout \in Nat /\ told \in Nat
  BY <1>1, <1>3, <1>4, RiowdAssumption DEF TypeOK
<1>q. QED
  BY <1>3, <1>5, <1>6

LEMMA NotEarlyStep == TypeOK /\ IInv /\ TimeInv /\ ~early /\ [Next]_vars => ~early'
<1> SUFFICES ASSUME TypeOK, IInv, TimeInv, ~early, [Next]_vars PROVE ~early'
  OBVIOUS
<1>1. CASE early' = early
  BY <1>1
<1>2. CASE Tick
  BY <1>2, InTime, Zenon DEF Tick
<1>q. QED
  BY <1>1, <1>2, FlagsStep

\* For any margins and processes: calls that do not overlap keep the watchdog from
\* triggering once stopped, and, if the last of them restarted the countdown, before the
\* margin has passed since then.
THEOREM InGoodTime == Spec => []NeverEarly
<1>1. Init => TimeInv /\ ~early
  BY TimeInvInit DEF Init
<1>2. TypeOK /\ IInv /\ TimeInv /\ ~early /\ [Next]_vars => (TimeInv /\ ~early)'
  BY TimeInvStep, NotEarlyStep
<1>3. ~early => NeverEarly
  BY DEF NeverEarly
<1>q. QED
  BY <1>1, <1>2, <1>3, TypeCorrect, IInvHolds, PTL DEF Spec

================================================================================
