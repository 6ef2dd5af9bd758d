SPECIFICATION FairSpec
CONSTANTS
  stopper = stopper
  led = led
  t1 = t1
  t2 = t2
  blinker = blinker
  Module = {stopper, led}
  Thread = {t1, t2, blinker}
  ThreadOf <- TwoAndOne
  Stops = {stopper}
  Faults = TRUE
INVARIANTS
  CreatedOnce
  CodePresent
PROPERTIES
  CreateReturns
  StopReturns
