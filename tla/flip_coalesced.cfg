SPECIFICATION Spec
CONSTANTS
  None = None
  Ids = {1}
  StartMax = 1
  ProbeMax = 1
  UeventWindow = 3
  AnnouncesFlips = FALSE
  Noise = {}
  MaxQueue = 2
  MAX_PERCENT = 100
  START_SETTLE_DELAY = 2
  CHARGE_FLIP_REPUSH_DELAY = 4
  Kinds = {"Mouse"}
  Percents = {50, 100}
  Interruptible = {"service"}
  Faults = FALSE
INVARIANTS
  FlipPushedAgain
