SPECIFICATION FairSpec
CONSTANTS
  s1 = s1
  s2 = s2
  s3 = s3
  s4 = s4
  Null = Null
  Subjects <- TwoKinds
  IdOf <- MCIdOf
  KindOf <- MCKindOf
  Unverified = {}
  Times <- MCTimes
  GrantOffers <- BoundedOffer
  RequestTTL = 3
  MaxClockSkew = 1
  MaxHistory = 2
  MaxTime = 1
  Steps = {}
  StepTolerance = 1
  FreshFor = 1
  SyncFreshFor = 2
  MaxUncertainty = 1
  Outcomes <- OneCheck
  ModesUsed = {"bounded"}
  QueueLimit = 2
  MaxDelay = 1
  MonitoredMaxDelay = 2
  BatchSize = 1
  Disturbances = 4
PROPERTIES
  JobsSettle
  ReceiptsBroadcast
  StopCompletes
