SPECIFICATION FairSpec
CONSTANTS
  Null = Null
  Relay = relay
  Commands = {c1, c2}
  Identities = {k1, k2}
  OneAtATime = TRUE
  MaxCommands = 3
  MaxCrashes = 3
INVARIANTS
  BoundIsRecorded
  RowIsRecorded
PROPERTIES
  RecordedForGood
  ServesAgain
