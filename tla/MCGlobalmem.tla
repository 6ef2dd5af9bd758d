------------------------------ MODULE MCGlobalmem ------------------------------
(***************************************************************************)
(* Globalmem with two bytes, integers of two bits and two processes that   *)
(* share the file.                                                         *)
(***************************************************************************)
EXTENDS Globalmem

\* Both directions, past either end, and one that an unsigned int takes for 1.
Few == {-3, -1, 0, 1, 2, 3, 5}

=============================================================================
