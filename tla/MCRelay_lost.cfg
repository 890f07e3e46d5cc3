SPECIFICATION Spec
CONSTANTS
  c1 = c1
  c2 = c2
  note = note
  erase = erase
  proof = proof
  author = author
  service = service
  Null = Null
  Sockets = {c1, c2}
  SubIds = {i1}
  Events <- NoteAndErase
  Receipts = {}
  FilterLists <- OneFilter
  AuthorOf <- MCAuthorOf
  Targets <- MCTargets
  RollsBack = TRUE
  MaxRequests = 3
  MaxFaults = 1
SYMMETRY SocketSymmetry
INVARIANTS
  StoredIsBroadcast
CHECK_DEADLOCK FALSE
