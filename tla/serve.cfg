SPECIFICATION Spec
CONSTANTS
  None = None
  b1 = b1
  b2 = b2
  Batteries = {b1, b2}
  Order <- TwoInOrder
  MaxQueued = 2
  Delays = {1, 2}
  Deadlines = {None, 2}
  MaxLag = 1
  Signals = {"poll"}
  Faults = TRUE
INVARIANTS
  TypeOK
  ServicedBeforeReturn
  NoOversleep
  ReturnsForCause
  HealthyKept
PROPERTIES
  ServesBatteries
