SPECIFICATION Spec
CONSTANTS
  None = None
  b1 = b1
  b2 = b2
  Batteries = {b1, b2}
  Order <- TwoInOrder
  MaxQueued = 1
  Delays = {1}
  Deadlines = {None, 2}
  MaxLag = 1
  Signals = {"poll", "read"}
  Faults = FALSE
INVARIANTS
  ServicedBeforeReturn
