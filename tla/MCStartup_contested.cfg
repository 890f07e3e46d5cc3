SPECIFICATION Spec
CONSTANTS
  Null = Null
  Relay = relay
  Commands = {c1}
  Identities = {k1, k2}
  OneAtATime = FALSE
  MaxCommands = 1
  MaxCrashes = 0
INVARIANTS
  OneIdentity
