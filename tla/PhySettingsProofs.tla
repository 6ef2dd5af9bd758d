-------------------------- MODULE PhySettingsProofs --------------------------
(***************************************************************************)
(* For every PHY and every request, however the unlocked stores of ethtool *)
(* and the MII ioctl fall between the steps of the state machine: a forced *)
(* PHY is left with a setting that the table search found, phydev and the  *)
(* PHY agree, and what ethtool forced becomes the next best mode.          *)
(***************************************************************************)
EXTENDS PhySettings, TLAPS

\* The search of the table ends at an entry that the PHY supports, or at the last.
Usable(i) == i \in Index /\ (settings[i].setting \in supported \/ i = 11)

\* What the machine's phy_start_aneg relies on from one step to the next, if no caller
\* comes between: the entry it found, its speed once stored, and both in config_aneg.
Searched == machine \in {"speed", "duplex"} => Usable(found)

HalfStored ==
  machine = "duplex" /\ user = "idle" /\ ~direct => speed = settings[found].speed

Stored ==
  machine = "config" /\ user = "idle" /\ ~direct /\ autoneg = "DISABLE" =>
    Sane(speed, duplex)

IInv == Searched /\ HalfStored /\ Stored /\ ForcedSane

-----------------------------------------------------------------------------

\* A set of indices has a least one.
LEMMA MinOfIndices ==
  ASSUME NEW S \in SUBSET Index, S # {}
  PROVE  Min(S) \in S /\ \A y \in S : Min(S) =< y
<1> DEFINE Least(x) == \A y \in S : x =< y
<1> SUFFICES \E x \in S : Least(x)
  BY DEF Min
<1> SUFFICES ASSUME \A x \in S : ~Least(x) PROVE FALSE
  OBVIOUS
<1> HIDE DEF Least
<1>0. \A x \in S : (\A y \in S : y >= x) => Least(x)
  BY DEF Least, Index
<1>1. 1 \notin S
  BY <1>0 DEF Index
<1>2. 2 \notin S
  BY <1>0, <1>1 DEF Index
<1>3. 3 \notin S
  BY <1>0, <1>1, <1>2 DEF Index
<1>4. 4 \notin S
  BY <1>0, <1>1, <1>2, <1>3 DEF Index
<1>5. 5 \notin S
  BY <1>0, <1>1, <1>2, <1>3, <1>4 DEF Index
<1>6. 6 \notin S
  BY <1>0, <1>1, <1>2, <1>3, <1>4, <1>5 DEF Index
<1>7. 7 \notin S
  BY <1>0, <1>1, <1>2, <1>3, <1>4, <1>5, <1>6 DEF Index
<1>8. 8 \notin S
  BY <1>0, <1>1, <1>2, <1>3, <1>4, <1>5, <1>6, <1>7 DEF Index
<1>9. 9 \notin S
  BY <1>0, <1>1, <1>2, <1>3, <1>4, <1>5, <1>6, <1>7, <1>8 DEF Index
<1>10. 10 \notin S
  BY <1>0, <1>1, <1>2, <1>3, <1>4, <1>5, <1>6, <1>7, <1>8, <1>9 DEF Index
<1>11. 11 \notin S
  BY <1>0, <1>1, <1>2, <1>3, <1>4, <1>5, <1>6, <1>7, <1>8, <1>9, <1>10 DEF Index
<1>12. PICK x \in S : x \in Index
  OBVIOUS
<1>13. \/ x = 1 \/ x = 2 \/ x = 3 \/ x = 4 \/ x = 5 \/ x = 6
       \/ x = 7 \/ x = 8 \/ x = 9 \/ x = 10 \/ x = 11
  BY <1>12 DEF Index
<1>q. QED
  BY <1>1, <1>2, <1>3, <1>4, <1>5, <1>6, <1>7, <1>8, <1>9, <1>10, <1>11, <1>12, <1>13

\* phy_find_valid returns an entry the PHY supports, or the last.
LEMMA FindValid == ASSUME NEW idx PROVE Usable(phy_find_valid(idx))
<1> DEFINE S == {i \in Index : i >= idx /\ settings[i].setting \in supported}
<1>1. CASE S = {}
  BY <1>1 DEF phy_find_valid, FirstOf, Usable, Index
<1>2. CASE S # {}
  <2>1. Min(S) \in S
    BY <1>2, MinOfIndices
  <2>2. phy_find_valid(idx) = Min(S)
    BY <1>2 DEF phy_find_valid, FirstOf
  <2>q. QED
    BY <2>1, <2>2 DEF Usable
<1>q. QED
  BY <1>1, <1>2

LEMMA ChosenUsable == ASSUME NEW s, NEW d PROVE Usable(Chosen(s, d))
  BY FindValid DEF Chosen

LEMMA UsableIsSane ==
  ASSUME NEW i, Usable(i) PROVE Sane(settings[i].speed, settings[i].duplex)
  BY DEF Usable, Sane

-----------------------------------------------------------------------------

\* A caller that begins, or is under way, is not idle.
LEMMA CallStep == IInv /\ Call => IInv'
<1> SUFFICES ASSUME IInv, Call PROVE IInv'
  OBVIOUS
<1>1. user' # "idle"
  BY DEF Call, EthtoolSet, IoctlForce, IoctlNegotiate, IoctlAdvertise
<1>2. UNCHANGED <<supported, machine, found, bmcr, direct, mixed>>
  BY DEF Call, EthtoolSet, IoctlForce, IoctlNegotiate, IoctlAdvertise, Begin, phy, sanitize,
         written
<1>q. QED
  BY <1>1, <1>2 DEF IInv, Searched, HalfStored, Stored, ForcedSane, Sane, Usable

LEMMA StoreStep == IInv /\ Store => IInv'
<1> SUFFICES ASSUME IInv, Store PROVE IInv'
  OBVIOUS
<1>1. user' # "idle"
  BY DEF Store
<1>2. UNCHANGED <<supported, machine, found, bmcr, direct, mixed>>
  BY DEF Store, phy, sanitize, written
<1>q. QED
  BY <1>1, <1>2 DEF IInv, Searched, HalfStored, Stored, ForcedSane, Sane, Usable

LEMMA IoctlWriteStep == IInv /\ IoctlWrite => IInv'
<1> SUFFICES ASSUME IInv, IoctlWrite PROVE IInv'
  OBVIOUS
<1>1. direct'
  BY DEF IoctlWrite
<1>2. UNCHANGED <<supported, machine, found>>
  BY DEF IoctlWrite, sanitize
<1>q. QED
  BY <1>1, <1>2 DEF IInv, Searched, HalfStored, Stored, ForcedSane, Usable

LEMMA UserAnegStep == IInv /\ UserAneg => IInv'
<1> SUFFICES ASSUME IInv, UserAneg PROVE IInv'
  OBVIOUS
<1>1. machine' = "idle" /\ supported' = supported
  BY DEF UserAneg
<1>2. ForcedSane'
  <2>1. CASE GiveUp /\ UNCHANGED <<direct, mixed>>
    BY <1>1, <2>1 DEF IInv, ForcedSane, GiveUp, Sane
  <2>2. CASE Configure(speed', duplex') /\ autoneg = "DISABLE"
    <3>1. speed' = settings[Sanitized].speed /\ duplex' = settings[Sanitized].duplex
      BY <2>2 DEF UserAneg
    <3>2. bmcr'.speed = speed' /\ bmcr'.duplex = duplex'
      BY <2>2 DEF Configure, Program
    <3>3. Sane(bmcr'.speed, bmcr'.duplex)
      BY <3>1, <3>2, ChosenUsable, UsableIsSane DEF Sanitized
    <3>q. QED
      BY <1>1, <3>3 DEF ForcedSane, Sane
  <2>3. CASE Configure(speed', duplex') /\ autoneg # "DISABLE"
    BY <2>3 DEF Configure, Negotiate, ForcedSane
  <2>q. QED
    BY <2>1, <2>2, <2>3 DEF UserAneg
<1>q. QED
  BY <1>1, <1>2 DEF IInv, Searched, HalfStored, Stored

-----------------------------------------------------------------------------

LEMMA MachineReadStep == IInv /\ MachineRead => IInv'
  BY DEF MachineRead, phy, sanitize, written, IInv, Searched, HalfStored, Stored, ForcedSane,
         Sane, Usable

LEMMA MachineAnegStep == IInv /\ MachineAneg => IInv'
<1> SUFFICES ASSUME IInv, MachineAneg PROVE IInv'
  OBVIOUS
<1>1. machine' = "sanitize" \/ (machine' = "config" /\ autoneg' # "DISABLE")
  BY DEF MachineAneg
<1>2. UNCHANGED <<supported, bmcr, direct, mixed>>
  BY DEF MachineAneg, phy, written
<1>q. QED
  BY <1>1, <1>2 DEF IInv, Searched, HalfStored, Stored, ForcedSane, Sane

LEMMA MachineSanitizeStep == IInv /\ MachineSanitize => IInv'
  BY DEF MachineSanitize, phy, written, IInv, Searched, HalfStored, Stored, ForcedSane, Sane

LEMMA MachineLoadStep == IInv /\ MachineLoad => IInv'
  BY DEF MachineLoad, phy, written, IInv, Searched, HalfStored, Stored, ForcedSane, Sane

LEMMA MachineFindStep == IInv /\ MachineFind => IInv'
<1> SUFFICES ASSUME IInv, MachineFind PROVE IInv'
  OBVIOUS
<1>1. Usable(found')
  BY ChosenUsable DEF MachineFind
<1>2. machine' = "speed" /\ UNCHANGED <<supported, bmcr, direct, mixed>>
  BY DEF MachineFind, phy, written
<1>q. QED
  BY <1>1, <1>2 DEF IInv, Searched, HalfStored, Stored, ForcedSane, Sane, Usable

LEMMA MachineSpeedStep == IInv /\ MachineSpeed => IInv'
  BY DEF MachineSpeed, phy, sanitize, written, IInv, Searched, HalfStored, Stored, ForcedSane,
         Sane, Usable

LEMMA MachineDuplexStep == IInv /\ MachineDuplex => IInv'
<1> SUFFICES ASSUME IInv, MachineDuplex PROVE IInv'
  OBVIOUS
<1>1. machine = "duplex" /\ machine' = "config" /\ duplex' = settings[found].duplex
  BY DEF MachineDuplex
<1>2. UNCHANGED <<supported, speed, user, bmcr, direct, mixed>>
  BY DEF MachineDuplex, phy, written
<1>3. Stored'
  <2>1. Sane(settings[found].speed, settings[found].duplex)
    BY <1>1, UsableIsSane DEF IInv, Searched
  <2>2. user' = "idle" /\ ~direct' => speed' = settings[found].speed
    BY <1>1, <1>2 DEF IInv, HalfStored
  <2>q. QED
    BY <1>1, <1>2, <2>1, <2>2 DEF Stored, Sane
<1>q. QED
  BY <1>1, <1>2, <1>3 DEF IInv, Searched, HalfStored, ForcedSane, Sane

LEMMA MachineConfigStep == IInv /\ MachineConfig => IInv'
<1> SUFFICES ASSUME IInv, MachineConfig PROVE IInv'
  OBVIOUS
<1>1. machine = "config" /\ machine' = "idle" /\ UNCHANGED <<supported, direct>>
  BY DEF MachineConfig
<1>2. ForcedSane'
  <2>1. CASE GiveUp /\ UNCHANGED mixed
    BY <1>1, <2>1 DEF IInv, ForcedSane, GiveUp, Sane
  <2>2. CASE Configure(speed, duplex) /\ mixed' = (user # "idle") /\ autoneg = "DISABLE"
    <3>1. bmcr'.speed = speed /\ bmcr'.duplex = duplex
      BY <2>2 DEF Configure, Program
    <3>2. user = "idle" /\ ~direct => Sane(speed, duplex)
      BY <1>1, <2>2 DEF IInv, Stored
    <3>3. ~mixed' => user = "idle"
      BY <2>2
    <3>q. QED
      BY <1>1, <3>1, <3>2, <3>3 DEF ForcedSane, Sane
  <2>3. CASE Configure(speed, duplex) /\ autoneg # "DISABLE"
    BY <2>3 DEF Configure, Negotiate, ForcedSane
  <2>q. QED
    BY <2>1, <2>2, <2>3 DEF MachineConfig
<1>q. QED
  BY <1>1, <1>2 DEF IInv, Searched, HalfStored, Stored

LEMMA IInvStep == IInv /\ [Next]_vars => IInv'
<1>1. IInv /\ UNCHANGED vars => IInv'
  BY DEF vars, IInv, Searched, HalfStored, Stored, ForcedSane, Sane, Usable
<1>q. QED
  BY <1>1, CallStep, StoreStep, IoctlWriteStep, UserAnegStep, MachineReadStep,
     MachineAnegStep, MachineSanitizeStep, MachineLoadStep, MachineFindStep,
     MachineSpeedStep, MachineDuplexStep, MachineConfigStep DEF Next

LEMMA IInvInit == Init => IInv
  BY DEF Init, IInv, Searched, HalfStored, Stored, ForcedSane

\* However the stores and the machine's steps are interleaved, and whichever accesses to
\* the registers fail, a PHY that is forced has been given a setting it supports, or the
\* last of the table, unless an ioctl or a machine in the midst of the stores wrote it.
THEOREM ForcedIsSane == Spec => []ForcedSane
<1>1. IInv => ForcedSane
  BY DEF IInv
<1>q. QED
  BY IInvInit, IInvStep, <1>1, PTL DEF Spec

-----------------------------------------------------------------------------
(* What a caller has stored, if the machine does not run meanwhile.         *)

Setting == {"ENABLE", "DISABLE"}

\* What is asked for, and where in its stores the caller can then be.
Requested ==
  user # "idle" =>
    \/ /\ cmd.call = "set" /\ restart
       /\ user \in {"autoneg", "speed", "advertising", "duplex", "aneg"}
       /\ cmd.autoneg \in Setting
       /\ cmd.autoneg = "DISABLE" => cmd.speed \in {10, 100, 1000} /\ cmd.duplex \in Duplex
    \/ /\ cmd.call = "force" /\ cmd.autoneg = "DISABLE"
       /\ user \in {"autoneg", "duplex", "speed", "write", "aneg"}
    \/ /\ cmd.call = "negotiate" /\ cmd.autoneg = "ENABLE"
       /\ user \in {"autoneg", "write", "aneg"}
    \/ /\ cmd.call = "advertise" /\ restart
       /\ user \in {"advertising", "write", "aneg"}

\* The stores that the caller has behind it are still there.
StoresKept ==
  user # "idle" /\ ~overtaken =>
    /\ cmd.call = "set" =>
         /\ user # "autoneg" => autoneg = cmd.autoneg
         /\ user \notin {"autoneg", "speed"} => speed = cmd.speed
         /\ user = "aneg" => duplex = cmd.duplex
    /\ cmd.call = "force" =>
         /\ user # "autoneg" => autoneg = cmd.autoneg
         /\ user \in {"speed", "write"} => duplex = cmd.duplex
         /\ user = "write" => speed = cmd.speed
    /\ cmd.call = "negotiate" /\ user # "autoneg" => autoneg = cmd.autoneg

CallInv == autoneg \in Setting /\ Requested /\ StoresKept

Machine ==
  \/ MachineRead \/ MachineAneg \/ MachineSanitize \/ MachineLoad \/ MachineFind
  \/ MachineSpeed \/ MachineDuplex \/ MachineConfig

LEMMA MachineOvertakes == Machine => overtaken' = (overtaken \/ user # "idle")
  BY Zenon DEF Machine, MachineRead, MachineAneg, MachineSanitize, MachineLoad, MachineFind,
               MachineSpeed, MachineDuplex, MachineConfig, Overtake

LEMMA MachineKeeps == Machine => UNCHANGED <<user, cmd, restart, supported, refused>>
  BY DEF Machine, MachineRead, MachineAneg, MachineSanitize, MachineLoad, MachineFind,
         MachineSpeed, MachineDuplex, MachineConfig, call

\* The machine may force a PHY that cannot negotiate.
LEMMA MachineForces == Machine => autoneg' \in {autoneg, "DISABLE"}
  BY DEF Machine, MachineRead, MachineAneg, MachineSanitize, MachineLoad, MachineFind,
         MachineSpeed, MachineDuplex, MachineConfig

LEMMA CallInvStep == CallInv /\ [Next]_vars => CallInv'
<1> SUFFICES ASSUME CallInv, [Next]_vars PROVE CallInv'
  OBVIOUS
<1> USE DEF CallInv, Requested, StoresKept
<1>1. CASE UNCHANGED vars
  BY <1>1 DEF vars
<1>2. ASSUME NEW a \in Setting, NEW s \in Speeds, NEW d \in Duplex, NEW offer,
             EthtoolSet(a, s, d, offer)
      PROVE  CallInv'
  BY <1>2 DEF EthtoolSet, Begin
<1>3. ASSUME NEW s, NEW d, IoctlForce(s, d) PROVE CallInv'
  BY <1>3 DEF IoctlForce, Begin
<1>4. ASSUME NEW reset, IoctlNegotiate(reset) PROVE CallInv'
  BY <1>4 DEF IoctlNegotiate, Begin
<1>5. ASSUME NEW offer, IoctlAdvertise(offer) PROVE CallInv'
  BY <1>5 DEF IoctlAdvertise, Begin
<1>6. CASE Store
  <2>1. UNCHANGED <<cmd, restart, overtaken>>
    BY <1>6 DEF Store, call
  <2>2. CASE user = "autoneg"
    <3>1. autoneg' = cmd.autoneg
      BY <1>6, <2>2 DEF Store
    <3>2. cmd.call = "set" => user' = "speed"
      BY <1>6, <2>2 DEF Store
    <3>3. cmd.call = "force" => user' = "duplex"
      BY <1>6, <2>2 DEF Store
    <3>4. cmd.call = "negotiate" => user' = "write"
      BY <1>6, <2>2 DEF Store
    <3>q. QED
      BY <2>1, <2>2, <3>1, <3>2, <3>3, <3>4 DEF Setting
  <2>3. CASE user = "speed"
    BY <1>6, <2>1, <2>3 DEF Store
  <2>4. CASE user = "advertising"
    BY <1>6, <2>1, <2>4 DEF Store, forced
  <2>5. CASE user = "duplex"
    BY <1>6, <2>1, <2>5 DEF Store
  <2>q. QED
    BY <1>6, <2>2, <2>3, <2>4, <2>5 DEF Store
<1>7. CASE IoctlWrite
  BY <1>7 DEF IoctlWrite, call, forced
<1>8. CASE UserAneg
  BY <1>8 DEF UserAneg
<1>9. CASE Machine
  <2>1. user' # "idle" => overtaken'
    BY <1>9, MachineOvertakes, MachineKeeps, Zenon
  <2>2. autoneg' \in Setting
    BY <1>9, MachineForces DEF Setting
  <2>q. QED
    BY <1>9, <2>1, <2>2, MachineKeeps
<1>q. QED
  BY <1>1, <1>2, <1>3, <1>4, <1>5, <1>6, <1>7, <1>8, <1>9
     DEF Next, Call, Setting, Machine

-----------------------------------------------------------------------------
(* phydev and the PHY.                                                      *)

\* What AgreesWithPhy says of a PHY at rest.
Agreed ==
  /\ bmcr.aneg <=> autoneg = "ENABLE"
  /\ autoneg = "DISABLE" => bmcr.speed = speed /\ bmcr.duplex = duplex
  /\ bmcr.aneg /\ ~direct => advert = advertising

\* A phy_start_aneg that ends with success makes them agree, whatever was stored before.
LEMMA AnegAgrees ==
  autoneg \in Setting /\ (UserAneg \/ MachineConfig) /\ ~failed' => Agreed'
<1> SUFFICES ASSUME autoneg \in Setting, UserAneg \/ MachineConfig, ~failed'
             PROVE  Agreed'
  OBVIOUS
<1>1. autoneg' = autoneg
  BY DEF UserAneg, MachineConfig
<1>2. Configure(speed', duplex')
  BY DEF UserAneg, MachineConfig, GiveUp, forced
<1>3. CASE autoneg = "DISABLE"
  <2>1. bmcr' = [aneg |-> FALSE, speed |-> speed', duplex |-> duplex']
    BY <1>2, <1>3 DEF Configure, Program
  <2>q. QED
    BY <1>1, <1>3, <2>1 DEF Agreed
<1>4. CASE autoneg = "ENABLE"
  <2>1. bmcr'.aneg = TRUE /\ advert' = advertising'
    BY <1>2, <1>4 DEF Configure, Negotiate
  <2>q. QED
    BY <1>1, <1>4, <2>1 DEF Agreed
<1>q. QED
  BY <1>3, <1>4 DEF Setting

\* Nor does a register write of phy_mii_ioctl make them part, if it goes without a
\* restart and without the machine.
LEMMA WriteAgrees ==
  CallInv /\ IoctlWrite /\ ~restart /\ ~overtaken /\ ~failed' => Agreed'
<1> SUFFICES ASSUME CallInv, IoctlWrite, ~restart, ~overtaken, ~failed'
             PROVE  Agreed'
  OBVIOUS
<1>1. user = "write" /\ direct' /\ UNCHANGED <<autoneg, speed, duplex>>
  BY DEF IoctlWrite, forced
<1>2. Write
  BY DEF IoctlWrite
<1>3. CASE cmd.call = "force"
  <2>1. autoneg = "DISABLE" /\ speed = cmd.speed /\ duplex = cmd.duplex
    BY <1>1, <1>3 DEF CallInv, Requested, StoresKept
  <2>2. bmcr' = [aneg |-> FALSE, speed |-> cmd.speed, duplex |-> cmd.duplex]
    BY <1>2, <1>3 DEF Write, Program
  <2>q. QED
    BY <1>1, <2>1, <2>2 DEF Agreed
<1>4. CASE cmd.call = "negotiate"
  <2>1. autoneg = "ENABLE"
    BY <1>1, <1>4 DEF CallInv, Requested, StoresKept
  <2>2. bmcr'.aneg = TRUE
    BY <1>2, <1>4 DEF Write
  <2>q. QED
    BY <1>1, <2>1, <2>2 DEF Agreed
<1>q. QED
  BY <1>1, <1>3, <1>4 DEF CallInv, Requested

LEMMA AgreesStep == CallInv /\ AgreesWithPhy /\ [Next]_vars => AgreesWithPhy'
<1> SUFFICES ASSUME CallInv, AgreesWithPhy, [Next]_vars,
                    Settled', ~failed', ~(direct /\ overtaken)'
             PROVE  Agreed'
  BY DEF AgreesWithPhy, Agreed
<1>1. Settled /\ ~failed /\ ~(direct /\ overtaken) => Agreed
  BY DEF AgreesWithPhy, Agreed
<1>2. CASE UNCHANGED vars
  BY <1>1, <1>2 DEF vars, Settled, Agreed
<1>3. CASE Call \/ Store
  BY <1>3 DEF Settled, Call, EthtoolSet, IoctlForce, IoctlNegotiate, IoctlAdvertise, Store
<1>4. CASE IoctlWrite
  <2>1. ~restart /\ overtaken' = overtaken
    BY <1>4 DEF IoctlWrite, call, Settled
  <2>2. direct'
    BY <1>4 DEF IoctlWrite
  <2>q. QED
    BY <1>4, <2>1, <2>2, WriteAgrees
<1>5. CASE UserAneg \/ MachineConfig
  BY <1>5, AnegAgrees DEF CallInv
<1>6. CASE MachineRead
  <2>1. user = "idle" /\ machine = "idle" /\ UNCHANGED <<autoneg, bmcr, advert, advertising>>
    BY <1>6 DEF MachineRead, Settled, phy
  <2>2. direct' = direct /\ failed' = failed
    BY <1>6 DEF MachineRead, written
  <2>3. overtaken' = overtaken \/ overtaken' = (overtaken \/ FALSE)
    BY <1>6, <2>1 DEF MachineRead, Overtake
  <2>4. Agreed
    BY <1>1, <2>1, <2>2, <2>3, Zenon DEF Settled
  <2>5. autoneg = "DISABLE" => speed' = bmcr.speed /\ duplex' = bmcr.duplex
    BY <1>6 DEF MachineRead
  <2>q. QED
    BY <2>1, <2>2, <2>4, <2>5 DEF Agreed
<1>7. CASE \/ MachineAneg \/ MachineSanitize \/ MachineLoad \/ MachineFind
           \/ MachineSpeed \/ MachineDuplex
  BY <1>7 DEF Settled, MachineAneg, MachineSanitize, MachineLoad, MachineFind, MachineSpeed,
              MachineDuplex
<1>q. QED
  BY <1>2, <1>3, <1>4, <1>5, <1>6, <1>7 DEF Next

LEMMA CallInvInit == Init => CallInv /\ AgreesWithPhy
  BY DEF Init, CallInv, Requested, StoresKept, AgreesWithPhy, Setting

\* For every PHY and every request: at rest phydev and the PHY agree, whatever the
\* machine did between the stores, unless the last write to the PHY failed or the machine
\* overtook an ioctl that does not restart.
THEOREM AgreementHolds == Spec => []AgreesWithPhy
<1>1. Init => CallInv /\ AgreesWithPhy
  BY CallInvInit
<1>2. CallInv /\ AgreesWithPhy /\ [Next]_vars => (CallInv /\ AgreesWithPhy)'
  BY CallInvStep, AgreesStep
<1>q. QED
  BY <1>1, <1>2, PTL DEF Spec

-----------------------------------------------------------------------------
(* The search of the table finds the next best mode.                        *)

\* Every index is a number from 1 to 11.
LEMMA Indices ==
  ASSUME NEW i \in Index
  PROVE  \/ i = 1 \/ i = 2 \/ i = 3 \/ i = 4 \/ i = 5 \/ i = 6
         \/ i = 7 \/ i = 8 \/ i = 9 \/ i = 10 \/ i = 11
  BY DEF Index

SpeedOf == <<10000, 10000, 10000, 2500, 1000, 1000, 1000, 100, 100, 10, 10>>

LEMMA TableSpeeds ==
  ASSUME NEW i \in Index
  PROVE  settings[i].speed = SpeedOf[i] /\ SpeedOf[i] \in Nat
  BY Indices DEF settings, Entry, SpeedOf

LEMMA TableDuplex ==
  ASSUME NEW i \in Index
  PROVE  settings[i].duplex = IF i \in {7, 9, 11} THEN "HALF" ELSE "FULL"
  BY Indices DEF settings, Entry

\* The table is sorted.
LEMMA TableSorted ==
  ASSUME NEW i \in Index, NEW j \in Index, i =< j
  PROVE  AtMost(settings[j].speed, settings[j].duplex, settings[i].speed, settings[i].duplex)
<1>1. SpeedOf[j] < SpeedOf[i] \/ SpeedOf[j] = SpeedOf[i]
  BY Indices DEF SpeedOf
<1>2. SpeedOf[j] = SpeedOf[i] /\ i \in {7, 9, 11} => j = i
  BY Indices DEF SpeedOf
<1>q. QED
  BY <1>1, <1>2, TableSpeeds, TableDuplex DEF AtMost, Index

\* Two modes neither of which is above the other are the same.
LEMMA AtMostBothWays ==
  ASSUME NEW i \in Index, NEW j \in Index,
         AtMost(settings[i].speed, settings[i].duplex, settings[j].speed, settings[j].duplex),
         AtMost(settings[j].speed, settings[j].duplex, settings[i].speed, settings[i].duplex)
  PROVE  settings[i].speed = settings[j].speed /\ settings[i].duplex = settings[j].duplex
  BY TableSpeeds, TableDuplex DEF AtMost

\* The entry has this speed and this duplex mode.
Has(i, s, d) == settings[i].speed = s /\ settings[i].duplex = d

\* phy_find_setting finds the first entry, if there is one.
LEMMA FindSetting ==
  ASSUME NEW s, NEW d, NEW j \in Index, Has(j, s, d)
  PROVE  /\ phy_find_setting(s, d) \in Index
         /\ Has(phy_find_setting(s, d), s, d)
         /\ \A i \in Index : Has(i, s, d) => phy_find_setting(s, d) =< i
<1> DEFINE S == {i \in Index : settings[i].speed = s /\ settings[i].duplex = d}
<1>1. j \in S
  BY DEF Has
<1>2. phy_find_setting(s, d) = Min(S)
  BY <1>1 DEF phy_find_setting, FirstOf
<1>3. Min(S) \in S /\ \A y \in S : Min(S) =< y
  BY <1>1, MinOfIndices
<1>q. QED
  BY <1>2, <1>3 DEF Has

\* An entry is not above the one found just if it does not come before it.
LEMMA FromThereOn ==
  ASSUME NEW s, NEW d, NEW j \in Index, Has(j, s, d), NEW i \in Index
  PROVE  AtMost(settings[i].speed, settings[i].duplex, s, d) <=> i >= phy_find_setting(s, d)
<1> DEFINE k == phy_find_setting(s, d)
<1>1. k \in Index /\ Has(k, s, d) /\ (Has(i, s, d) => k =< i)
  BY FindSetting
<1> HIDE DEF k
<1>2. ASSUME i >= k PROVE AtMost(settings[i].speed, settings[i].duplex, s, d)
  BY <1>1, <1>2, TableSorted DEF Has
<1>3. ASSUME AtMost(settings[i].speed, settings[i].duplex, s, d), ~(i >= k) PROVE FALSE
  <2>1. i =< k
    BY <1>1, <1>3 DEF Index
  <2>2. Has(i, s, d)
    BY <1>1, <1>3, <2>1, TableSorted, AtMostBothWays DEF Has
  <2>q. QED
    BY <1>1, <1>3, <2>2 DEF Index
<1>q. QED
  BY <1>2, <1>3 DEF k

\* The entry has a mode of the PHY that is not above t/e.
Candidate(i, t, e) ==
  settings[i].setting \in supported /\ AtMost(settings[i].speed, settings[i].duplex, t, e)

LEMMA NextBestByIndex ==
  ASSUME NEW s, NEW d, NEW t, NEW e
  PROVE  IsNextBest(s, d, t, e) <=>
           \/ (\A i \in Index : ~Candidate(i, t, e)) /\ s = 10 /\ d = "HALF"
           \/ /\ \E i \in Index : Candidate(i, t, e) /\ Has(i, s, d)
              /\ \A i \in Index : Candidate(i, t, e) =>
                   AtMost(settings[i].speed, settings[i].duplex, s, d)
  BY DEF IsNextBest, Candidate, Has

LEMMA ChosenIsBest ==
  ASSUME NEW s, NEW d, NEW j \in Index, Has(j, s, d)
  PROVE  IsNextBest(settings[Chosen(s, d)].speed, settings[Chosen(s, d)].duplex, s, d)
<1> DEFINE k == phy_find_setting(s, d)
           S == {i \in Index : i >= k /\ settings[i].setting \in supported}
<1>1. \A i \in Index : Candidate(i, s, d) <=> i \in S
  BY FromThereOn DEF Candidate
<1>2. CASE S = {}
  <2>1. Chosen(s, d) = 11
    BY <1>2 DEF Chosen, phy_find_valid, FirstOf
  <2>2. 11 \in Index
    BY DEF Index
  <2>3. settings[11].speed = 10 /\ settings[11].duplex = "HALF"
    BY DEF settings, Entry
  <2>q. QED
    BY <1>1, <1>2, <2>1, <2>3, NextBestByIndex
<1>3. CASE S # {}
  <2>1. Chosen(s, d) = Min(S)
    BY <1>3 DEF Chosen, phy_find_valid, FirstOf
  <2>2. Min(S) \in S /\ \A i \in S : Min(S) =< i
    BY <1>3, MinOfIndices
  <2>3. \A i \in S : AtMost(settings[i].speed, settings[i].duplex,
                            settings[Min(S)].speed, settings[Min(S)].duplex)
    BY <2>2, TableSorted
  <2>q. QED
    BY <1>1, <2>1, <2>2, <2>3, NextBestByIndex DEF Has
<1>q. QED
  BY <1>2, <1>3

\* What it has chosen it chooses again.
LEMMA ChosenAgain ==
  ASSUME NEW s, NEW d, NEW t, NEW e, IsNextBest(s, d, t, e)
  PROVE  Has(Chosen(s, d), s, d)
<1> DEFINE k == phy_find_setting(s, d)
           S == {i \in Index : i >= k /\ settings[i].setting \in supported}
<1>1. CASE s = 10 /\ d = "HALF"
  <2>1. 11 \in Index /\ Has(11, s, d)
    BY <1>1 DEF Has, settings, Entry, Index
  <2>2. k \in Index /\ Has(k, s, d)
    BY <2>1, FindSetting
  <2>3. k = 11
    BY <1>1, <2>2, TableSpeeds, TableDuplex, Indices DEF Has, SpeedOf
  <2>4. Usable(Chosen(s, d))
    BY FindValid DEF Chosen
  <2>5. CASE S = {}
    BY <2>1, <2>5 DEF Chosen, phy_find_valid, FirstOf
  <2>6. CASE S # {}
    <3>1. Chosen(s, d) = Min(S) /\ Min(S) \in S
      BY <2>6, MinOfIndices DEF Chosen, phy_find_valid, FirstOf
    <3>2. Min(S) = 11
      BY <2>3, <3>1 DEF Index
    <3>q. QED
      BY <2>1, <3>1, <3>2
  <2>q. QED
    BY <2>5, <2>6
<1>2. CASE \E i \in Index : Candidate(i, t, e) /\ Has(i, s, d)
  <2>1. PICK j \in Index : Candidate(j, t, e) /\ Has(j, s, d)
    BY <1>2
  <2>2. k \in Index /\ Has(k, s, d) /\ k =< j
    BY <2>1, FindSetting
  <2>3. j \in S
    BY <2>1, <2>2 DEF Candidate, Index
  <2>4. Chosen(s, d) = Min(S)
    BY <2>3 DEF Chosen, phy_find_valid, FirstOf
  <2>5. Min(S) \in S /\ Min(S) =< j
    BY <2>3, MinOfIndices
  <2>6. Min(S) \in Index /\ k =< Min(S)
    BY <2>2, <2>5 DEF Index
  <2>q. QED
    BY <2>1, <2>2, <2>4, <2>5, <2>6, TableSorted, AtMostBothWays DEF Has
<1>q. QED
  BY <1>1, <1>2, NextBestByIndex

-----------------------------------------------------------------------------
(* It stays with what ethtool selected.                                     *)

Selected ==
  /\ user = "idle" /\ ~overtaken /\ ~refused
  /\ cmd.call = "set" /\ cmd.autoneg = "DISABLE"

\* The machine's reads and restarts find the same mode again.
BestInv ==
  Selected =>
    /\ autoneg = "DISABLE" /\ ~bmcr.aneg
    /\ speed = bmcr.speed /\ duplex = bmcr.duplex
    /\ IsNextBest(bmcr.speed, bmcr.duplex, cmd.speed, cmd.duplex)
    /\ machine = "find" => seen.speed = bmcr.speed /\ seen.duplex = bmcr.duplex
    /\ machine \in {"speed", "duplex"} => Has(found, bmcr.speed, bmcr.duplex)

\* The modes that can be asked for are in the table.
LEMMA Offered ==
  ASSUME NEW s \in {10, 100, 1000}, NEW d \in Duplex
  PROVE  \E j \in Index : Has(j, s, d)
<1>1. /\ Has(11, 10, "HALF") /\ Has(10, 10, "FULL")
      /\ Has(9, 100, "HALF") /\ Has(8, 100, "FULL")
      /\ Has(7, 1000, "HALF") /\ Has(6, 1000, "FULL")
  BY DEF Has, settings, Entry
<1>q. QED
  BY <1>1 DEF Duplex, Index

LEMMA UserAnegIsBest == CallInv /\ UserAneg => BestInv'
<1> SUFFICES ASSUME CallInv, UserAneg, Selected' PROVE BestInv'
  BY DEF BestInv
<1>1. user = "aneg" /\ machine' = "idle" /\ UNCHANGED <<supported, autoneg, cmd, overtaken>>
  BY DEF UserAneg, call
<1>2. cmd.call = "set" /\ cmd.autoneg = "DISABLE" /\ ~overtaken /\ ~refused'
  BY <1>1 DEF Selected
<1>3. autoneg = "DISABLE" /\ speed = cmd.speed /\ duplex = cmd.duplex
  BY <1>1, <1>2 DEF CallInv, StoresKept
<1>4. speed \in {10, 100, 1000} /\ duplex \in Duplex
  BY <1>1, <1>2, <1>3 DEF CallInv, Requested
<1>5. IsNextBest(settings[Sanitized].speed, settings[Sanitized].duplex, speed, duplex)
  BY <1>4, Offered, ChosenIsBest DEF Sanitized
<1>6. /\ bmcr' = [aneg |-> FALSE, speed |-> speed', duplex |-> duplex']
      /\ speed' = settings[Sanitized].speed /\ duplex' = settings[Sanitized].duplex
  BY <1>2, <1>3 DEF UserAneg, Configure, Program
<1>7. IsNextBest(bmcr'.speed, bmcr'.duplex, cmd'.speed, cmd'.duplex)
  BY <1>1, <1>3, <1>5, <1>6
<1>8. IsNextBest(bmcr.speed, bmcr.duplex, cmd.speed, cmd.duplex)'
  BY <1>1, <1>7 DEF IsNextBest
<1>q. QED
  BY <1>1, <1>3, <1>6, <1>8 DEF BestInv

LEMMA MachineStaysBest == BestInv /\ Machine => BestInv'
<1> SUFFICES ASSUME BestInv, Machine, Selected' PROVE BestInv'
  BY DEF BestInv
<1>1. UNCHANGED <<user, cmd, supported, refused>>
  BY MachineKeeps
<1>2. overtaken' = (overtaken \/ user # "idle")
  BY MachineOvertakes
<1>3. ~overtaken
  BY <1>2, Zenon DEF Selected
<1>4. Selected
  BY <1>1, <1>3 DEF Selected
<1>5. /\ autoneg = "DISABLE" /\ ~bmcr.aneg
      /\ speed = bmcr.speed /\ duplex = bmcr.duplex
      /\ IsNextBest(bmcr.speed, bmcr.duplex, cmd.speed, cmd.duplex)
      /\ machine = "find" => seen.speed = bmcr.speed /\ seen.duplex = bmcr.duplex
      /\ machine \in {"speed", "duplex"} => Has(found, bmcr.speed, bmcr.duplex)
  BY <1>4 DEF BestInv
<1>6. Has(Chosen(bmcr.speed, bmcr.duplex), bmcr.speed, bmcr.duplex)
  BY <1>5, ChosenAgain
<1>7. autoneg' = "DISABLE"
  BY <1>5, MachineForces
<1>8. /\ bmcr'.speed = bmcr.speed /\ bmcr'.duplex = bmcr.duplex /\ ~bmcr'.aneg
      /\ speed' = speed /\ duplex' = duplex
      /\ machine' = "find" => seen'.speed = bmcr.speed /\ seen'.duplex = bmcr.duplex
      /\ machine' \in {"speed", "duplex"} => Has(found', bmcr.speed, bmcr.duplex)
  <2>1. CASE MachineRead
    BY <1>5, <2>1 DEF MachineRead, phy
  <2>2. CASE MachineAneg
    BY <1>5, <2>2 DEF MachineAneg, phy, forced
  <2>3. CASE MachineSanitize
    BY <1>5, <2>3 DEF MachineSanitize, phy, forced
  <2>4. CASE MachineLoad
    BY <1>5, <2>4 DEF MachineLoad, phy, forced
  <2>5. CASE MachineFind
    <3>1. found' = Chosen(bmcr.speed, bmcr.duplex)
      BY <1>5, <2>5 DEF MachineFind
    <3>q. QED
      BY <1>5, <1>6, <2>5, <3>1 DEF MachineFind, phy, forced
  <2>6. CASE MachineSpeed
    BY <1>5, <2>6 DEF MachineSpeed, phy, sanitize, Has
  <2>7. CASE MachineDuplex
    BY <1>5, <2>7 DEF MachineDuplex, phy, Has
  <2>8. CASE MachineConfig
    BY <1>5, <2>8 DEF MachineConfig, Configure, Program, GiveUp, forced
  <2>q. QED
    BY <2>1, <2>2, <2>3, <2>4, <2>5, <2>6, <2>7, <2>8 DEF Machine
<1>9. IsNextBest(bmcr'.speed, bmcr'.duplex, cmd'.speed, cmd'.duplex)
  BY <1>1, <1>5, <1>8
<1>10. IsNextBest(bmcr.speed, bmcr.duplex, cmd.speed, cmd.duplex)'
  BY <1>1, <1>9 DEF IsNextBest
<1>11. machine' \in {"speed", "duplex"} => Has(found, bmcr.speed, bmcr.duplex)'
  BY <1>8 DEF Has
<1>q. QED
  BY <1>5, <1>7, <1>8, <1>10, <1>11 DEF BestInv

LEMMA BestStep == CallInv /\ BestInv /\ [Next]_vars => BestInv'
<1> SUFFICES ASSUME CallInv, BestInv, [Next]_vars PROVE BestInv'
  OBVIOUS
<1>1. CASE UNCHANGED vars
  <2>1. BestInv' <=> BestInv
    BY <1>1 DEF vars, BestInv, Selected, IsNextBest, Has
  <2>q. QED
    BY <2>1
<1>2. CASE Call \/ Store
  BY <1>2 DEF BestInv, Selected, Call, EthtoolSet, IoctlForce, IoctlNegotiate,
              IoctlAdvertise, Store
<1>3. CASE IoctlWrite
  BY <1>3 DEF BestInv, Selected, IoctlWrite, call, CallInv, Requested
<1>q. QED
  BY <1>1, <1>2, <1>3, UserAnegIsBest, MachineStaysBest DEF Next, Machine

\* For every PHY and every request: a forced setting of ethtool that the machine does
\* not overtake, and that the PHY's registers take, makes the PHY use the next best mode
\* that it has, and it stays so.
THEOREM NextBestHolds == Spec => []NextBest
<1>1. Init => CallInv /\ BestInv
  BY CallInvInit DEF Init, BestInv, Selected
<1>2. CallInv /\ BestInv /\ [Next]_vars => (CallInv /\ BestInv)'
  BY CallInvStep, BestStep
<1>3. BestInv => NextBest
  BY DEF BestInv, Selected, NextBest
<1>q. QED
  BY <1>1, <1>2, <1>3, PTL DEF Spec

=============================================================================
