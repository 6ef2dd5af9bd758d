---------------------------- MODULE MCPhySettings ----------------------------
(***************************************************************************)
(* PhySettings for PHYs of two kinds.                                      *)
(***************************************************************************)
EXTENDS PhySettings

\* A PHY with gaps and without 10/HALF, and a fixed-speed one that cannot negotiate.
Kinds ==
  {{"Autoneg", "1000baseT_Full", "100baseT_Half", "10baseT_Full"},
   {"100baseT_Full"}}

SomeOffers == {{"1000baseT_Full", "100baseT_Half"}}

=============================================================================
