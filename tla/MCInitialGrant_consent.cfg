SPECIFICATION GrantSpec
CONSTANTS
  Null = Null
  Operators = {o1, o2}
  Times <- ThreeTimes
  RequestTTL = 2
  MaxClockSkew = 1
  ClockGoesBack = TRUE
  MaxRequests = 2
  Terms <- Long
  MaxAsked = 2
CONSTRAINT FewFiles
SYMMETRY Alike
INVARIANTS
  MutualConsent
  GrantConsent
PROPERTIES
  StillVerifies
  CommissionedForGood
