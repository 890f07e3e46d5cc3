SPECIFICATION StatusSpec
CONSTANTS
  Null = Null
  Terms <- BothTerms
  Times <- ThreeTimes
  RequestTTL = 2
  MaxClockSkew = 2
  LegacyRows <- MCLegacyRows
  ClockGoesBack = TRUE
  MaxHistory = 3
  MaxRequests = 2
  MaxControls = 2
INVARIANTS
  TypeOK
  RowsAgree
  ChainSound
  PermissionWasReal
PROPERTIES
  ImplementsAuthority
