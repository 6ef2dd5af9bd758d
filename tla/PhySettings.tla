----------------------------- MODULE PhySettings -----------------------------
(***************************************************************************)
(* The link settings of Ethernet_Failed_Led/phy.c: phy_ethtool_sset (and   *)
(* phy_ethtool_ksettings_set, which stores the same fields in the same     *)
(* order), the register writes of phy_mii_ioctl, phy_start_aneg and        *)
(* phy_sanitize_settings, with the state machine beside them.              *)
(*                                                                         *)
(* The callers hold rtnl_lock() and store into phydev without phydev->lock; *)
(* the machine reads the status and restarts the negotiation with the lock *)
(* held, in the midst of those stores.  A caller's own phy_start_aneg is   *)
(* one step, since nobody stores meanwhile.  When the machine runs which   *)
(* of the two is Phy's matter: here it may do either at any time.  The PHY *)
(* driver is genphy, and an access to a register may fail.                 *)
(***************************************************************************)
EXTENDS Integers, Sequences, FiniteSetsExt

CONSTANTS
  SupportedSets,  \* what phydev->supported may be
  Speeds,         \* speeds asked for
  Offers,         \* sets of modes asked for
  Ioctls          \* may phy_mii_ioctl be called?

Entry(speed, duplex, setting) ==
  [speed |-> speed, duplex |-> duplex, setting |-> setting]

settings ==
  << Entry(10000, "FULL", "10000baseKR_Full"),
     Entry(10000, "FULL", "10000baseKX4_Full"),
     Entry(10000, "FULL", "10000baseT_Full"),
     Entry(2500, "FULL", "2500baseX_Full"),
     Entry(1000, "FULL", "1000baseKX_Full"),
     Entry(1000, "FULL", "1000baseT_Full"),
     Entry(1000, "HALF", "1000baseT_Half"),
     Entry(100, "FULL", "100baseT_Full"),
     Entry(100, "HALF", "100baseT_Half"),
     Entry(10, "FULL", "10baseT_Full"),
     Entry(10, "HALF", "10baseT_Half") >>

Index == 1..11
Mode  == {settings[i].setting : i \in Index}
Duplex == {"HALF", "FULL"}

\* The modes that MII_ADVERTISE has bits for; the others are advertised elsewhere.
LowMode == {"100baseT_Full", "100baseT_Half", "10baseT_Full", "10baseT_Half"}

ASSUME SettingsAssumption ==
  /\ SupportedSets \subseteq SUBSET (Mode \cup {"Autoneg"})
  /\ Speeds \subseteq Nat
  /\ Offers \subseteq SUBSET Mode
  /\ Ioctls \in BOOLEAN

VARIABLES
  supported, autoneg, speed, duplex, advertising,  \* phydev
  bmcr, advert,     \* the PHY's MII_BMCR and its advertisement
  user, machine,    \* where the caller and the machine are
  cmd,              \* the caller's request, kept when it returns
  seen, found,      \* what the machine's phy_sanitize_settings has loaded; its idx
  restart,          \* change_autoneg
  \* History:
  overtaken,        \* did the machine run during the last call?
  refused,          \* did the last call's config_aneg fail?
  failed,           \* did the last write to the PHY's registers, anybody's?
  direct,           \* an ioctl has written since a caller last configured the PHY
  mixed             \* the PHY was last configured in the midst of a caller's stores

vars == <<supported, autoneg, speed, duplex, advertising, bmcr, advert, user,
          machine, cmd, seen, found, restart, overtaken, refused, failed, direct, mixed>>

forced   == <<speed, duplex>>
phy      == <<bmcr, advert>>
call     == <<cmd, restart>>
sanitize == <<seen, found>>
written  == <<failed, direct, mixed>>

-----------------------------------------------------------------------------
(* The table.                                                               *)

\* The first index of a set, or the last of the table.
FirstOf(S) == IF S = {} THEN 11 ELSE Min(S)

phy_find_setting(s, d) ==
  FirstOf({i \in Index : settings[i].speed = s /\ settings[i].duplex = d})

\* The search does not start at idx.
FindValidAnywhere(idx) ==
  FirstOf({i \in Index : settings[i].setting \in supported})

phy_find_valid(idx) ==
  FirstOf({i \in Index : i >= idx /\ settings[i].setting \in supported})

\* phy_sanitize_settings: the index whose entry it stores.
Chosen(s, d) == phy_find_valid(phy_find_setting(s, d))
Sanitized    == Chosen(speed, duplex)

-----------------------------------------------------------------------------

\* The machine's locals, seen and found, are reset when they are done with: seen to this,
\* found to 1.
NotSeen == [speed |-> 0, duplex |-> "HALF"]

Init ==
  /\ supported \in SupportedSets
  /\ autoneg = "ENABLE" /\ speed = 0 /\ duplex = "HALF"
  /\ advertising = supported \ {"Autoneg"}
  /\ bmcr = [aneg |-> TRUE, speed |-> 10, duplex |-> "HALF"]
  /\ advert = supported \ {"Autoneg"}
  /\ user = "idle" /\ machine = "idle"
  /\ cmd = [call |-> "none"]
  /\ seen = NotSeen /\ found = 1 /\ restart = FALSE
  /\ overtaken = FALSE /\ refused = FALSE
  /\ failed = FALSE /\ direct = FALSE /\ mixed = FALSE

-----------------------------------------------------------------------------
(* phydev->drv->config_aneg: genphy_config_aneg.                            *)

Program(s, d) == bmcr' = [aneg |-> FALSE, speed |-> s, duplex |-> d]

Negotiate ==
  /\ advertising' = advertising \cap supported
  /\ advert' = advertising'
  /\ bmcr' = [aneg |-> TRUE, speed |-> bmcr.speed, duplex |-> bmcr.duplex]

Configure(s, d) ==
  /\ failed' = FALSE
  /\ IF autoneg = "DISABLE" THEN Program(s, d) /\ UNCHANGED <<advertising, advert>>
                            ELSE Negotiate

\* It gives up: nothing is forced, or at most the advertisement is written, which takes two
\* registers.
GiveUp ==
  /\ failed' = TRUE
  /\ UNCHANGED bmcr
  /\ IF autoneg = "DISABLE"
       THEN UNCHANGED <<advertising, advert>>
       ELSE /\ advertising' = advertising \cap supported
            /\ advert' \in {advert, (advert \ LowMode) \cup (advertising' \cap LowMode),
                           advertising'}

-----------------------------------------------------------------------------
(* The callers: each store of theirs is a step.                             *)

Begin(c) ==
  /\ user = "idle"
  /\ cmd' = c
  /\ overtaken' = (machine # "idle") /\ refused' = FALSE
  /\ UNCHANGED <<supported, autoneg, forced, advertising, phy, machine, sanitize, written>>

\* Arguments that are refused leave everything as it was.
EthtoolSet(a, s, d, offer) ==
  /\ IF a = "ENABLE" THEN offer \cap supported # {} ELSE s \in {10, 100, 1000}
  /\ Begin([call |-> "set", autoneg |-> a, speed |-> s, duplex |-> d,
            offer |-> offer \cap supported])
  /\ restart' = TRUE
  /\ user' = "autoneg"

\* SIOCSMIIREG of MII_BMCR, without and with BMCR_RESET or BMCR_ANENABLE.
IoctlForce(s, d) ==
  /\ s \in {10, 100, 1000}
  /\ Begin([call |-> "force", autoneg |-> "DISABLE", speed |-> s, duplex |-> d])
  /\ restart' = (autoneg = "ENABLE")
  /\ user' = "autoneg"

IoctlNegotiate(reset) ==
  /\ Begin([call |-> "negotiate", autoneg |-> "ENABLE", reset |-> reset])
  /\ restart' = (autoneg = "DISABLE" /\ ~reset)
  /\ user' = "autoneg"

\* SIOCSMIIREG of MII_ADVERTISE
IoctlAdvertise(offer) ==
  /\ Begin([call |-> "advertise", offer |-> offer \cap LowMode])
  /\ restart' = TRUE
  /\ user' = "advertising"

Call ==
  \/ \E a \in {"ENABLE", "DISABLE"}, s \in Speeds, d \in Duplex, offer \in Offers :
       EthtoolSet(a, s, d, offer)
  \/ Ioctls /\ \/ \E s \in Speeds, d \in Duplex : IoctlForce(s, d)
               \/ \E reset \in BOOLEAN : IoctlNegotiate(reset)
               \/ \E offer \in Offers : IoctlAdvertise(offer)

\* phy_ethtool_sset stores the speed before the duplex mode, phy_mii_ioctl after it.
Store ==
  /\ \/ /\ user = "autoneg"
        /\ autoneg' = cmd.autoneg
        /\ user' = CASE cmd.call = "set" -> "speed"
                     [] cmd.call = "force" -> "duplex"
                     [] OTHER -> "write"
        /\ UNCHANGED <<forced, advertising>>
     \/ /\ user = "speed"
        /\ speed' = cmd.speed
        /\ user' = IF cmd.call = "set" THEN "advertising" ELSE "write"
        /\ UNCHANGED <<autoneg, duplex, advertising>>
     \/ /\ user = "advertising"
        /\ advertising' = cmd.offer
        /\ user' = IF cmd.call = "set" THEN "duplex" ELSE "write"
        /\ UNCHANGED <<autoneg, forced>>
     \/ /\ user = "duplex"
        /\ duplex' = cmd.duplex
        /\ user' = IF cmd.call = "set" THEN "aneg" ELSE "speed"
        /\ UNCHANGED <<autoneg, speed, advertising>>
  /\ UNCHANGED <<supported, phy, machine, call, sanitize, overtaken, refused, written>>

\* mdiobus_write, whose result is ignored, and phy_init_hw; a reset makes the PHY
\* negotiate with all it has.
Write ==
  CASE cmd.call = "force" -> Program(cmd.speed, cmd.duplex) /\ UNCHANGED advert
    [] cmd.call = "negotiate" ->
         /\ bmcr' = [aneg |-> TRUE, speed |-> bmcr.speed, duplex |-> bmcr.duplex]
         /\ advert' = IF cmd.reset THEN supported \ {"Autoneg"} ELSE advert
    [] cmd.call = "advertise" ->
         advert' = (advert \ LowMode) \cup cmd.offer /\ UNCHANGED bmcr

IoctlWrite ==
  /\ user = "write"
  /\ \/ Write /\ failed' = FALSE
     \/ UNCHANGED phy /\ failed' = TRUE
  /\ user' = IF restart THEN "aneg" ELSE "idle"
  /\ direct' = TRUE
  /\ UNCHANGED <<supported, autoneg, forced, advertising, machine, call, sanitize, overtaken,
                 refused, mixed>>

\* The lock is not taken.
UserAnegUnlocked ==
  /\ user = "aneg"
  /\ user' = "idle"
  /\ IF autoneg = "DISABLE"
       THEN speed' = settings[Sanitized].speed /\ duplex' = settings[Sanitized].duplex
       ELSE UNCHANGED forced
  /\ \/ Configure(speed', duplex') /\ refused' = FALSE /\ direct' = FALSE /\ mixed' = FALSE
     \/ GiveUp /\ refused' = TRUE /\ UNCHANGED <<direct, mixed>>
  /\ UNCHANGED <<supported, autoneg, machine, call, sanitize, overtaken>>

\* The PHY is configured before the settings are sanitized.
UserAnegFirst ==
  /\ user = "aneg" /\ machine = "idle"
  /\ user' = "idle"
  /\ IF autoneg = "DISABLE"
       THEN speed' = settings[Sanitized].speed /\ duplex' = settings[Sanitized].duplex
       ELSE UNCHANGED forced
  /\ \/ Configure(speed, duplex) /\ refused' = FALSE /\ direct' = FALSE /\ mixed' = FALSE
     \/ GiveUp /\ refused' = TRUE /\ UNCHANGED <<direct, mixed>>
  /\ UNCHANGED <<supported, autoneg, machine, call, sanitize, overtaken>>

\* phy_start_aneg.  phy_ethtool_sset ignores its result.
UserAneg ==
  /\ user = "aneg" /\ machine = "idle"
  /\ user' = "idle"
  /\ IF autoneg = "DISABLE"
       THEN speed' = settings[Sanitized].speed /\ duplex' = settings[Sanitized].duplex
       ELSE UNCHANGED forced
  /\ \/ Configure(speed', duplex') /\ refused' = FALSE /\ direct' = FALSE /\ mixed' = FALSE
     \/ GiveUp /\ refused' = TRUE /\ UNCHANGED <<direct, mixed>>
  /\ UNCHANGED <<supported, autoneg, machine, call, sanitize, overtaken>>

-----------------------------------------------------------------------------
(* The state machine, with phydev->lock.                                    *)

Overtake == overtaken' = (overtaken \/ user # "idle")

\* phy_read_status
MachineRead ==
  /\ machine = "idle"
  /\ IF autoneg = "ENABLE"
       THEN \E i \in Index : /\ settings[i].setting \in advert \/ i = 11
                             /\ speed' = settings[i].speed
                             /\ duplex' = settings[i].duplex
       ELSE speed' = bmcr.speed /\ duplex' = bmcr.duplex
  /\ Overtake
  /\ UNCHANGED <<supported, autoneg, advertising, phy, user, machine, call, sanitize,
                 refused, written>>

\* phy_start_aneg: the lock and the test of autoneg ...
MachineAneg ==
  /\ machine = "idle"
  /\ machine' = IF autoneg = "DISABLE" THEN "sanitize" ELSE "config"
  /\ Overtake
  /\ UNCHANGED <<supported, autoneg, forced, advertising, phy, user, call, sanitize,
                 refused, written>>

\* ... phy_sanitize_settings, which forces a PHY that cannot negotiate ...
MachineSanitize ==
  /\ machine = "sanitize"
  /\ autoneg' = IF "Autoneg" \in supported THEN autoneg ELSE "DISABLE"
  /\ machine' = "load"
  /\ Overtake
  /\ UNCHANGED <<supported, forced, advertising, phy, user, call, sanitize, refused, written>>

\* ... loads the one of speed and duplex mode, then the other, in an order that C leaves
\* open, and searches the table ...
MachineLoad ==
  /\ machine = "load"
  /\ seen' = [speed |-> speed, duplex |-> duplex]
  /\ machine' = "find"
  /\ Overtake
  /\ UNCHANGED <<supported, autoneg, forced, advertising, phy, user, call, found, refused,
                 written>>

MachineFind ==
  /\ machine = "find"
  /\ found' \in {Chosen(seen.speed, duplex), Chosen(speed, seen.duplex)}
  /\ seen' = NotSeen
  /\ machine' = "speed"
  /\ Overtake
  /\ UNCHANGED <<supported, autoneg, forced, advertising, phy, user, call, refused, written>>

\* ... its two stores ...
MachineSpeed ==
  /\ machine = "speed"
  /\ speed' = settings[found].speed
  /\ machine' = "duplex"
  /\ Overtake
  /\ UNCHANGED <<supported, autoneg, duplex, advertising, phy, user, call, sanitize, refused,
                 written>>

MachineDuplex ==
  /\ machine = "duplex"
  /\ duplex' = settings[found].duplex
  /\ found' = 1
  /\ machine' = "config"
  /\ Overtake
  /\ UNCHANGED <<supported, autoneg, speed, advertising, phy, user, call, seen, refused,
                 written>>

\* ... and config_aneg, which looks at autoneg again.
MachineConfig ==
  /\ machine = "config"
  /\ machine' = "idle"
  /\ \/ Configure(speed, duplex) /\ mixed' = (user # "idle")
     \/ GiveUp /\ UNCHANGED mixed
  /\ Overtake
  /\ UNCHANGED <<supported, autoneg, forced, user, call, sanitize, refused, direct>>

Next ==
  \/ Call \/ Store \/ IoctlWrite \/ UserAneg
  \/ MachineRead \/ MachineAneg \/ MachineSanitize \/ MachineLoad \/ MachineFind
  \/ MachineSpeed \/ MachineDuplex \/ MachineConfig

Spec == Init /\ [][Next]_vars

-----------------------------------------------------------------------------
(* Properties.                                                              *)

\* Nobody is between the first store and the configuration of the PHY.
Settled == user = "idle" /\ machine = "idle"

\* A setting of the PHY, or the last of the table, which stands for "none".
Sane(s, d) ==
  \E i \in Index : /\ settings[i].speed = s /\ settings[i].duplex = d
                   /\ settings[i].setting \in supported \/ i = 11

\* However the caller's stores and the machine's fall between each other and whichever
\* register accesses fail, the speed and duplex mode that a forced PHY was given last come
\* from one entry of the table, one that it supports if the search found any
\* (phy_start_aneg, phy_sanitize_settings); unless an ioctl wrote them, or the machine
\* did in the midst of a caller's stores and no phy_start_aneg has succeeded since.
ForcedSane == ~direct /\ ~mixed /\ ~bmcr.aneg => Sane(bmcr.speed, bmcr.duplex)

\* What phydev says is what the PHY was told, if the last write to its registers did not
\* fail (682, 466), except when the machine ran during a phy_mii_ioctl that does not
\* restart the negotiation (607-646).
AgreesWithPhy ==
  Settled /\ ~failed /\ ~(direct /\ overtaken) =>
    /\ bmcr.aneg <=> autoneg = "ENABLE"
    /\ autoneg = "DISABLE" => bmcr.speed = speed /\ bmcr.duplex = duplex
    /\ bmcr.aneg /\ ~direct => advert = advertising

\* s/d is not above t/e.
AtMost(s, d, t, e) == s < t \/ (s = t /\ (d = "HALF" \/ e = "FULL"))

\* The fastest mode not above the one selected; 10/HALF if there is none.
IsNextBest(s, d, t, e) ==
  LET Usable == {m \in {settings[i] : i \in Index} :
                   m.setting \in supported /\ AtMost(m.speed, m.duplex, t, e)}
  IN  IF Usable = {} THEN s = 10 /\ d = "HALF"
      ELSE /\ \E m \in Usable : m.speed = s /\ m.duplex = d
           /\ \A m \in Usable : AtMost(m.speed, m.duplex, s, d)

\* A speed and a duplex mode selected with ethtool make the PHY use the next best it
\* has (421-422), if the machine does not run during the call and the PHY's registers
\* can be written then; and it stays so, whatever the machine reads or restarts
\* afterwards, and if these restarts fail.
NextBest ==
  /\ user = "idle" /\ ~overtaken /\ ~refused
  /\ cmd.call = "set" /\ cmd.autoneg = "DISABLE"
  =>
    ~bmcr.aneg /\ IsNextBest(bmcr.speed, bmcr.duplex, cmd.speed, cmd.duplex)

=============================================================================
