----------------------------- MODULE Dht11Frame -----------------------------
(***************************************************************************)
(* The data a DHT11 or DHT22 sends and how dht11_decode of                 *)
(* Humid_Dht11/dht11.c reads it back from the edges the interrupt handler  *)
(* stored.  A byte has ByteBits bits instead of 8, and an edge is the      *)
(* line's value after it and whether the pulse it ends was longer than     *)
(* DHT11_THRESHOLD.  Edge k of the code is element k + 1 of a sequence.    *)
(***************************************************************************)
EXTENDS Integers, Sequences, FiniteSetsExt

CONSTANTS
  ByteBits,     \* bits in a byte; 8 in the code
  Dht22Below    \* a first byte below this is a DHT22's; 4 in the code

ASSUME FrameAssumption ==
  /\ ByteBits \in Nat \ {0}
  /\ Dht22Below \in Nat

DHT11_EDGES_PREAMBLE == 2
DHT11_BITS_PER_READ  == 5 * ByteBits
DHT11_EDGES_PER_READ == 2 * DHT11_BITS_PER_READ + DHT11_EDGES_PREAMBLE + 1

\* One byte more than the largest byte.
Base == 2 ^ ByteBits

\* Five bytes: humidity, its decimals, temperature, its decimals, checksum.
Frame == [1..5 -> 0..(Base - 1)]

-----------------------------------------------------------------------------
(* The sensor.                                                              *)

\* Bit i of a frame, most significant bit of the first byte first.
FrameBit(f, i) ==
  (f[(i \div ByteBits) + 1] \div 2 ^ (ByteBits - 1 - (i % ByteBits))) % 2 = 1

\* The line falls and rises in turn, one edge more than the driver stores.
\* Every low pulse and the sensor's first high pulse are long; from edge 4 on
\* each falling edge ends the pulse of one bit.
Wave(f) ==
  [k \in 1..(DHT11_EDGES_PER_READ + 1) |->
     [value |-> (k - 1) % 2,
      long  |-> k % 2 = 0 \/ k <= 3 \/ FrameBit(f, (k - 5) \div 2)]]

\* The n edges of a frame's wave that come after its first k.
Window(f, k, n) == SubSeq(Wave(f), k + 1, k + n)

-----------------------------------------------------------------------------
(* dht11_decode.                                                            *)

\* The values of a frame: temperature in 1/1000 degree, humidity in 1/1000 %.
Dht22Values(f) ==
  [temperature |-> ((f[3] % (Base \div 2)) * Base + f[4])
                      * (IF f[3] >= Base \div 2 THEN -100 ELSE 100),
   humidity    |-> (f[1] * Base + f[2]) * 100]

Dht11Values(f) == [temperature |-> f[3] * 1000, humidity |-> f[1] * 1000]

ChecksumOk(f) == (f[1] + f[2] + f[3] + f[4]) % Base = f[5]
IsDht22(f)    == f[1] < Dht22Below
IsDht11(f)    == ~IsDht22(f) /\ f[4] = 0 /\ f[2] = 0

\* What a correct receiver makes of a frame, if anything.
Sound(f)   == ChecksumOk(f) /\ (IsDht22(f) \/ IsDht11(f))
Meaning(f) == IF IsDht22(f) THEN Dht22Values(f) ELSE Dht11Values(f)

\* The pulse before every stored bit starts with a rising edge.
Synced(stored, offset) ==
  \A i \in 0..(DHT11_BITS_PER_READ - 1) : stored[offset + 2 * i + 2].value = 1

\* bits[] of dht11_decode: which of the pulses before a falling edge were long?
StoredBits(stored, offset) ==
  [i \in 0..(DHT11_BITS_PER_READ - 1) |-> IF stored[offset + 2 * i + 3].long THEN 1 ELSE 0]

\* dht11_decode_byte, from the n-th byte of bits[]
DecodeByte(bits, n) ==
  LET byte[j \in 0..ByteBits] ==
        IF j = 0 THEN 0 ELSE 2 * byte[j - 1] + bits[n * ByteBits + j - 1]
  IN  byte[ByteBits]

DecodeFrame(stored, offset) ==
  [n \in 1..5 |-> DecodeByte(StoredBits(stored, offset), n - 1)]

\* What is read of a frame one bit too early: the pulse before the first bit, which is
\* long, and all bits but the last.
Shifted(f) ==
  LET bits == [i \in 0..(DHT11_BITS_PER_READ - 1) |->
                 IF i = 0 \/ FrameBit(f, i - 1) THEN 1 ELSE 0]
  IN  [n \in 1..5 |-> DecodeByte(bits, n - 1)]

\* The outcome of dht11_decode.  "unknown" is the last -EIO, which comes after
\* the timestamp has been set.
Decode(stored, offset) ==
  IF ~Synced(stored, offset) THEN "eio"
  ELSE LET f == DecodeFrame(stored, offset)
       IN  IF ~ChecksumOk(f) THEN "eio" ELSE IF Sound(f) THEN "ok" ELSE "unknown"

FirstOffset(stored) == DHT11_EDGES_PREAMBLE + Len(stored) - DHT11_EDGES_PER_READ

\* The search started from offset 0.
SearchUpwards(stored) ==
  LET first == FirstOffset(stored)
      good  == {o \in 0..first : Decode(stored, o) = "ok"}
      last  == IF good = {} THEN first ELSE Min(good)
  IN  [ok      |-> good # {},
       stamped |-> \E o \in 0..last : Decode(stored, o) # "eio",
       values  |-> IF good = {} THEN <<>> ELSE Meaning(DecodeFrame(stored, last))]

\* The search at 263: offsets from the highest down, over the edges stored.
Search(stored) ==
  LET first == FirstOffset(stored)
      good  == {o \in 0..first : Decode(stored, o) = "ok"}
      last  == IF good = {} THEN 0 ELSE Max(good)
  IN  [ok      |-> good # {},
       stamped |-> \E o \in last..first : Decode(stored, o) # "eio",
       values  |-> IF good = {} THEN <<>> ELSE Meaning(DecodeFrame(stored, last))]

=============================================================================
