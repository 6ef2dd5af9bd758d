-------------------------------- MODULE Riowd --------------------------------
(***************************************************************************)
(* The watchdog driver Dummy_Basic_Node/riowd.c: probe and remove by the   *)
(* driver core, and calls of processes that have the device open, with no  *)
(* lock around riowd_timeout and riowd_device.  The spinlock makes the two *)
(* writes of riowd_writereg one step.  Time passes in minutes.  Writing 0   *)
(* to the register stops the watchdog; a value written over 0 starts the   *)
(* countdown.  The comment at 31-34 says that the register must be cleared *)
(* for that, which the driver does not do by itself: whether a value over  *)
(* another restarts the countdown is the hardware's choice here.           *)
(***************************************************************************)
EXTENDS Naturals

CONSTANTS
  User,      \* processes
  Params,    \* what the module parameter riowd_timeout may be, in minutes
  Margins,   \* the margins asked for, in seconds
  Late       \* bound: from so many minutes on, waits are all alike

\* No wait that matters is cut off by the bound.
ASSUME RiowdAssumption ==
  /\ Late \in Nat
  /\ Params \subseteq (0..Late) \cup (Nat \ 0..255)
  /\ Margins \subseteq 0..(60 * Late)

VARIABLES
  riowd_device,  \* is it set?
  mapped,        \* are its registers?
  registered,    \* the misc device
  driver,        \* where the driver core is with the device
  riowd_timeout,
  wdto, left,    \* the register WDTO_INDEX and the minutes left
  heeded,        \* history: did the last value written there restart the countdown?
  file, pc,      \* each process: has it the device open, where is it
  arg,           \* the value it is about to write, 0 for "stop"
  margin,        \* the margin it asks for, 0 if its call is no WDIOC_SETTIMEOUT
  on, told,      \* what processes were told: is the watchdog on, with what margin
  waited,        \* minutes since a call began
  raced,         \* did calls overlap since the margin was set?
  pulled,        \* was the device removed while it was open?
  early          \* has the watchdog triggered before its time, without these excuses?

vars == <<riowd_device, mapped, registered, driver, riowd_timeout, wdto, left, heeded, file,
          pc, arg, margin, on, told, waited, raced, pulled, early>>

device  == <<riowd_device, mapped, registered, driver>>
hw      == <<wdto, left, heeded>>
locals  == <<arg, margin>>
history == <<on, told, waited, raced, pulled, early>>

Init ==
  /\ riowd_device = FALSE /\ mapped = FALSE /\ registered = FALSE /\ driver = "unbound"
  /\ riowd_timeout \in Params
  /\ wdto = 0 /\ left = 0 /\ heeded = FALSE
  /\ file = [u \in User |-> FALSE]
  /\ pc = [u \in User |-> "idle"]
  /\ arg = [u \in User |-> 0] /\ margin = [u \in User |-> 0]
  /\ on = FALSE /\ told = riowd_timeout * 60 /\ waited = 0
  /\ raced = FALSE /\ pulled = FALSE /\ early = FALSE

Goto(u, label) == pc' = [pc EXCEPT ![u] = label]

-----------------------------------------------------------------------------
(* riowd_probe, riowd_remove                                                *)

\* riowd_device is set when everything else is done.
ProbeLast ==
  /\ driver = "unbound" /\ ~riowd_device
  /\ mapped' = TRUE
  /\ driver' = "mapped"
  /\ UNCHANGED <<riowd_device, registered, riowd_timeout, hw, file, pc, locals, history>>

\* Up to riowd_device = p; an error leaves everything as it was.
Probe ==
  /\ driver = "unbound" /\ ~riowd_device
  /\ mapped' = TRUE /\ riowd_device' = TRUE
  /\ driver' = "mapped"
  /\ UNCHANGED <<registered, riowd_timeout, hw, file, pc, locals, history>>

Register ==
  /\ driver = "mapped"
  /\ \/ /\ registered' = TRUE
        /\ driver' = "bound"
        /\ UNCHANGED <<riowd_device, mapped>>
     \/ /\ riowd_device' = FALSE /\ mapped' = FALSE
        /\ driver' = "unbound"
        /\ UNCHANGED registered
  /\ UNCHANGED <<riowd_timeout, hw, file, pc, locals, history>>

Deregister ==
  /\ driver = "bound"
  /\ registered' = FALSE
  /\ driver' = "deregistered"
  /\ UNCHANGED <<riowd_device, mapped, riowd_timeout, hw, file, pc, locals, history>>

\* riowd_device stays set.
Unmap ==
  /\ driver = "deregistered"
  /\ mapped' = FALSE
  /\ driver' = "unbound"
  /\ pulled' = (pulled \/ \E u \in User : file[u])
  /\ UNCHANGED <<riowd_device, registered, riowd_timeout, hw, file, pc, locals, on, told,
                 waited, raced, early>>

-----------------------------------------------------------------------------
(* riowd_open, riowd_release, riowd_ioctl, riowd_write                      *)

Open(u) ==
  /\ ~file[u] /\ registered
  /\ file' = [file EXCEPT ![u] = TRUE]
  /\ UNCHANGED <<device, riowd_timeout, hw, pc, locals, history>>

\* The watchdog goes on.
Release(u) ==
  /\ file[u] /\ pc[u] = "idle"
  /\ file' = [file EXCEPT ![u] = FALSE]
  /\ UNCHANGED <<device, riowd_timeout, hw, pc, locals, history>>

Others(u) == \E v \in User \ {u} : pc[v] # "idle"

\* WDIOC_KEEPALIVE, WDIOS_ENABLECARD, or a write
Ping(u) ==
  /\ file[u] /\ pc[u] = "idle"
  /\ margin' = [margin EXCEPT ![u] = 0]
  /\ raced' = (raced \/ Others(u))
  /\ waited' = 0
  /\ Goto(u, "read")
  /\ UNCHANGED <<device, riowd_timeout, hw, file, arg, on, told, pulled, early>>

\* WDIOS_DISABLECARD
Disable(u) ==
  /\ file[u] /\ pc[u] = "idle"
  /\ arg' = [arg EXCEPT ![u] = 0]
  /\ margin' = [margin EXCEPT ![u] = 0]
  /\ raced' = (raced \/ Others(u))
  /\ waited' = 0
  /\ Goto(u, "write")
  /\ UNCHANGED <<device, riowd_timeout, hw, file, on, told, pulled, early>>

\* The minutes are rounded down.
SetTimeoutDown(u, m) ==
  /\ file[u] /\ pc[u] = "idle"
  /\ m >= 60 /\ m <= 255 * 60
  /\ riowd_timeout' = m \div 60
  /\ margin' = [margin EXCEPT ![u] = m]
  /\ raced' = Others(u)
  /\ waited' = 0
  /\ Goto(u, "read")
  /\ UNCHANGED <<device, hw, file, arg, on, told, pulled, early>>

\* The register gets the minutes that were set before.
SetTimeoutLate(u, m) ==
  /\ file[u] /\ pc[u] = "idle"
  /\ m >= 60 /\ m <= 255 * 60
  /\ riowd_timeout' = (m + 59) \div 60
  /\ arg' = [arg EXCEPT ![u] = riowd_timeout]
  /\ margin' = [margin EXCEPT ![u] = m]
  /\ raced' = Others(u)
  /\ waited' = 0
  /\ Goto(u, "write")
  /\ UNCHANGED <<device, hw, file, on, told, pulled, early>>

\* WDIOC_SETTIMEOUT; other margins are refused.
SetTimeout(u, m) ==
  /\ file[u] /\ pc[u] = "idle"
  /\ m >= 60 /\ m <= 255 * 60
  /\ riowd_timeout' = (m + 59) \div 60
  /\ margin' = [margin EXCEPT ![u] = m]
  /\ raced' = Others(u)
  /\ waited' = 0
  /\ Goto(u, "read")
  /\ UNCHANGED <<device, hw, file, arg, on, told, pulled, early>>

\* riowd_timeout is read for the call of riowd_writereg ...
Read(u) ==
  /\ pc[u] = "read"
  /\ arg' = [arg EXCEPT ![u] = riowd_timeout]
  /\ Goto(u, "write")
  /\ UNCHANGED <<device, riowd_timeout, hw, file, margin, history>>

\* ... whose parameter has eight bits.  Where the registers were, there is nothing.
WriteReg(u) ==
  /\ pc[u] = "write"
  /\ IF mapped
       THEN /\ wdto' = arg[u] % 256
            /\ heeded' \in {TRUE, wdto = 0 \/ wdto' = 0}
            /\ left' = IF heeded' THEN wdto' ELSE left
       ELSE UNCHANGED hw
  /\ Goto(u, "return")
  /\ UNCHANGED <<device, riowd_timeout, file, locals, history>>

Return(u) ==
  /\ pc[u] = "return"
  /\ on' = (arg[u] # 0)
  /\ told' = IF margin[u] = 0 THEN told ELSE margin[u]
  /\ Goto(u, "idle")
  /\ UNCHANGED <<device, riowd_timeout, hw, file, locals, waited, raced, pulled, early>>

-----------------------------------------------------------------------------

Quiet == \A u \in User : pc[u] = "idle"

\* A minute passes.  The controller ignores the watchdog's signal.
Tick ==
  /\ left' = IF left = 0 THEN 0 ELSE left - 1
  /\ waited' = IF waited < Late THEN waited + 1 ELSE waited
  /\ early' = (early \/ /\ left = 1 /\ Quiet /\ ~raced /\ ~pulled /\ riowd_timeout < 256
                        /\ ~on \/ (heeded /\ (waited + 1) * 60 < told))
  /\ UNCHANGED <<device, riowd_timeout, wdto, heeded, file, pc, locals, on, told, raced,
                 pulled>>

Next ==
  \/ Probe \/ Register \/ Deregister \/ Unmap
  \/ \E u \in User : \/ Open(u) \/ Release(u)
                     \/ Ping(u) \/ Disable(u) \/ \E m \in Margins : SetTimeout(u, m)
                     \/ Read(u) \/ WriteReg(u) \/ Return(u)
  \/ Tick

Spec == Init /\ [][Next]_vars

-----------------------------------------------------------------------------
(* Properties.                                                              *)

TypeOK ==
  /\ riowd_device \in BOOLEAN /\ mapped \in BOOLEAN /\ registered \in BOOLEAN
  /\ on \in BOOLEAN /\ raced \in BOOLEAN /\ pulled \in BOOLEAN /\ early \in BOOLEAN
  /\ driver \in {"unbound", "mapped", "bound", "deregistered"}
  /\ riowd_timeout \in Nat
  /\ wdto \in 0..255 /\ left \in 0..255 /\ heeded \in BOOLEAN
  /\ file \in [User -> BOOLEAN]
  /\ pc \in [User -> {"idle", "read", "write", "return"}]
  /\ arg \in [User -> Nat] /\ margin \in [User -> Nat]
  /\ told \in Nat /\ waited \in 0..Late

\* A process that has the device open finds the pointer set and the registers mapped,
\* from the first call on (194: "Make miscdev useable right away"), unless the device
\* was removed under it.
Usable == \A u \in User : file[u] /\ ~pulled => riowd_device /\ mapped

\* The watchdog does not trigger when it was stopped, nor, if the last call's write
\* restarted the countdown, before the margin that was asked for has passed since that
\* call; unless calls overlapped or the parameter is none that the register has room for.
NeverEarly == ~early

\* Between calls the register has what the driver would tell (WDIOC_GETTIMEOUT), or 0
\* when it was stopped; that needs calls that do not overlap and a parameter of the
\* eight bits that the register has.
Armed ==
  Quiet /\ ~raced /\ ~pulled /\ riowd_timeout < 256 =>
    wdto = IF on THEN riowd_timeout ELSE 0

=============================================================================
