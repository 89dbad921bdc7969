SPECIFICATION Spec
CONSTANTS
  None = None
  Count = 2
  Prefixed = {"uhid", "uhid-2"}
  Names = {"uhid", "uhid-2", "http"}
  Calls = 2
INVARIANTS
  TypeOK
  SoleOwner
  NothingLost
  HandlesAreUhid
  OthersLeftAlone
  TakenAsPassed
PROPERTIES
  InheritedByName
CHECK_DEADLOCK FALSE
