SPECIFICATION Spec
CONSTANTS
  Events <- MCEvents
  Requests <- MCRequests
  TagFields <- MCTagFields
  FullLength = 2
  Highest = 9
  DefaultLimit = 3
  MaxLimit = 4
  MaxFilters = 2
  MaxValues = 4
  MaxPrefixes = 2
  MaxText = 3
  MaxInteger = 9
  NoObject = NoObject
INVARIANTS
  ReplayIsLive
  AnswersNewest
