SPECIFICATION FairSpec
CONSTANTS
  r1 = r1
  r2 = r2
  Reader = {r1, r2}
  NoReader = NoReader
  ByteBits = 2
  Dht22Below = 2
  Frames <- Few
  Faults = TRUE
INVARIANTS
  TypeOK
  OwnEdges
  QuietWhenFree
  SoundFramesDecode
PROPERTIES
  SensorSpec
  EveryReadEnds
