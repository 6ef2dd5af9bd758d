------------------------------ MODULE MCDht11km ------------------------------
(***************************************************************************)
(* Dht11km with bytes of two bits.                                         *)
(***************************************************************************)
EXTENDS Dht11km

CONSTANTS p1, p2

\* Sums that hold and sums that do not; the bits of the last two, taken together,
\* make a frame whose sum holds.
Mixed ==
  {<<2, 0, 1, 0, 3>>, <<1, 0, 0, 0, 0>>, <<0, 0, 1, 0, 2>>}

Good == {<<2, 0, 1, 0, 3>>, <<0, 0, 1, 0, 1>>}

=============================================================================
