SPECIFICATION StatusSpec
CONSTANTS
  Null = Null
  Terms <- LongTerms
  Times <- ThreeTimes
  RequestTTL = 2
  MaxClockSkew = 1
  LegacyRows = {}
  ClockGoesBack = FALSE
  MaxHistory = 3
  MaxRequests = 2
  MaxControls = 1
INVARIANTS
  NeverRejected
