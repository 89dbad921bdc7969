SPECIFICATION Spec
CONSTANTS
  None = None
  Ids = {1, 2}
  StartMax = 1
  ProbeMax = 3
  UeventWindow = 3
  AnnouncesFlips = TRUE
  Noise = {"GetReport", "SetReport", "Ignored"}
  MaxQueue = 2
  MAX_PERCENT = 100
  START_SETTLE_DELAY = 2
  CHARGE_FLIP_REPUSH_DELAY = 4
  Kinds = {"Mouse"}
  Percents = {50, 150}
  Interruptible = {"service"}
  Faults = FALSE
INVARIANTS
  ReportedIsCurrent
  Announced
