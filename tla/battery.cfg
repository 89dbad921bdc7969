SPECIFICATION Spec
CONSTANTS
  None = None
  Ids = {1}
  StartMax = 1
  ProbeMax = 1
  UeventWindow = 3
  AnnouncesFlips = TRUE
  Noise = {"GetReport", "SetReport", "Ignored"}
  MaxQueue = 2
  MAX_PERCENT = 100
  START_SETTLE_DELAY = 2
  CHARGE_FLIP_REPUSH_DELAY = 4
  Kinds = {"Mouse", "Generic"}
  Percents = {50, 150}
  Interruptible = {"service", "drain"}
  Faults = TRUE
INVARIANTS
  TypeOK
  CurrentOrPending
  RepushLands
  NoLostRequest
  StaleOnlyWhenCut
PROPERTIES
  Publishes
  Serves
