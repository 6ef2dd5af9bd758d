SPECIFICATION FairSpec
CONSTANTS
  Thread = {t1, t2, t3}
  Duration = 1
  Horizon = 3
  GpioValid = TRUE
INVARIANTS
  DarkInTheEnd
  LongEnough
PROPERTY
  EveryBlinkEnds
CHECK_DEADLOCK FALSE
