SPECIFICATION FairSpec
CONSTANTS
  None = None
  LEN_NAME = 6
  LEN_PHYS = 4
  LEN_UNIQ = 5
  RD_DATA_MAX = 96
  DATA_MAX = 96
  REGISTRATION_POLL = 2
  Timeouts = {None, 0, 3}
  MaxLag = 1
  Faults = TRUE
  OtherUniqs <- MCOtherUniqs
  Devices <- MCDevices
  Ids = {258, 65538, 16777218}
  Queue = 2
INVARIANTS
  TypeOK
  FoundSoon
  NotLate
  AnsweredSoon
  KernelSeesIdentity
  LevelIsReading
PROPERTIES
  AnswerIsRight
  CutAtACharacter
  RegistersBattery
  FakeIsFaithful
  
  WaitEnds
