SPECIFICATION FairSpec
CONSTANTS
  None = None
  b1 = b1
  b2 = b2
  Batteries = {b1, b2}
  Order <- TwoInOrder
  MaxQueued = 1
  Delays = {0}
  Deadlines = {None, 1}
  MaxLag = 0
  Signals = {"poll", "read"}
  Faults = TRUE
PROPERTIES
  HealthyServed
  PushesMade
  CallEnds
