------------------------------- MODULE MCRiowd -------------------------------
(***************************************************************************)
(* Riowd with two processes, and a module parameter that the register has  *)
(* room for or not.                                                        *)
(***************************************************************************)
EXTENDS Riowd, TLC

CONSTANTS u1, u2

Processes == Permutations({u1, u2})

=============================================================================
