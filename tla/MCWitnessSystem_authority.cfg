SPECIFICATION SystemSpec
CONSTANTS
  s1 = s1
  s2 = s2
  s3 = s3
  s4 = s4
  Null = Null
  Subjects <- TwoKinds
  IdOf <- MCIdOf
  KindOf <- MCKindOf
  Unverified = {}
  Times <- MCTimes
  GrantOffers <- MCOffers
  RequestTTL = 3
  MaxClockSkew = 1
  MaxHistory = 3
  MaxTime = 3
  Steps <- BackAndForth
  StepTolerance = 1
  FreshFor = 1
  SyncFreshFor = 2
  MaxUncertainty = 1
  Outcomes <- MixedOutcomes
  ModesUsed = {"bounded", "operational", "system"}
  QueueLimit = 2
  MaxDelay = 1
  MonitoredMaxDelay = 2
  BatchSize = 1
  Disturbances = 2
  Terms <- MCTerms
  LegacyRows <- MCLegacyRows
  MaxRequests = 2
  MaxControls = 2
ACTION_CONSTRAINT
  OneSystem
INVARIANTS
  TypeOK
  ReceiptsCovered
  ReceiptsOnRecord
PROPERTIES
  IssuedUnderAuthority
  ImplementsWitness
  TablesStayReadable
