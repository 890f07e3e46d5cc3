SPECIFICATION Spec
CONSTANTS
  s1 = s1
  s2 = s2
  s3 = s3
  s4 = s4
  Null = Null
  Subjects <- AllSubjects
  IdOf <- MCIdOf
  KindOf <- MCKindOf
  Unverified = {}
  Times <- MCTimes
  GrantOffers <- OneOffer
  RequestTTL = 3
  MaxClockSkew = 1
  MaxHistory = 1
  MaxTime = 2
  Steps <- Back
  StepTolerance = 1
  FreshFor = 1
  SyncFreshFor = 2
  MaxUncertainty = 1
  Outcomes = {}
  ModesUsed = {"system"}
  QueueLimit = 1
  MaxDelay = 1
  MonitoredMaxDelay = 2
  BatchSize = 1
  Disturbances = 4
INVARIANTS
  QueueBounded
  FlaggedWasSent
  JobHasEvent
  OwnReceiptsVerify
PROPERTIES
  ImplementsLedger
