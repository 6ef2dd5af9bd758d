------------------------------- MODULE MCDht11 -------------------------------
(***************************************************************************)
(* Dht11 with a byte of two bits, two readers and a frame for each way in  *)
(* which a frame, and what is read of it one bit too early, may be taken.  *)
(***************************************************************************)
EXTENDS Dht11

CONSTANTS r1, r2

\* Of a DHT11, and of a DHT22 below zero.
Hot      == <<2, 0, 2, 0, 0>>
Freezing == <<0, 2, 2, 2, 2>>

\* Of neither sensor, and with a wrong sum.
Neither   == <<2, 1, 0, 0, 3>>
Corrupted == <<0, 1, 0, 0, 0>>

Few == {Hot, Freezing, Neither, Corrupted}

Kind(f) == IF Sound(f) THEN "sound" ELSE IF ChecksumOk(f) THEN "neither" ELSE "damaged"

ASSUME /\ Kind(Hot)       = "sound"   /\ Kind(Shifted(Hot))       = "sound"
       /\ Kind(Freezing)  = "sound"   /\ Kind(Shifted(Freezing))  = "neither"
       /\ Kind(Neither)   = "neither" /\ Kind(Shifted(Neither))   = "sound"
       /\ Kind(Corrupted) = "damaged" /\ Kind(Shifted(Corrupted)) = "sound"

=============================================================================
