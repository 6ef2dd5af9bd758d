------------------------------- MODULE IrqLine -------------------------------
(***************************************************************************)
(* An interrupt line that one driver shares with others, as the kernel     *)
(* sees it: the driver owns it from request_irq until it has given back    *)
(* every disable, disables nest, and an enable undoes one disable.  What   *)
(* the PHY layer of phy.c promises to the other devices on its line.       *)
(***************************************************************************)
EXTENDS Naturals

VARIABLES
  owned,  \* may the driver still disable or enable the line?
  depth   \* how often it has disabled it and not yet enabled it again

vars == <<owned, depth>>

Init == owned = FALSE /\ depth = 0

Request == ~owned /\ owned' = TRUE /\ UNCHANGED depth

Disable == owned /\ depth' = depth + 1 /\ UNCHANGED owned

\* The kernel warns of an "Unbalanced enable" at depth 0.
Enable == owned /\ depth > 0 /\ depth' = depth - 1 /\ UNCHANGED owned

\* The line is not left disabled for the others.
Release == owned /\ depth = 0 /\ owned' = FALSE /\ UNCHANGED depth

Next == Request \/ Disable \/ Enable \/ Release

Spec == Init /\ [][Next]_vars

=============================================================================
