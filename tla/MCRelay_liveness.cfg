SPECIFICATION FairSpec
CONSTANTS
  c1 = c1
  c2 = c2
  note = note
  erase = erase
  proof = proof
  author = author
  service = service
  Null = Null
  Sockets = {c1, c2}
  SubIds = {i1}
  Events <- NoteAndProof
  Receipts = {proof}
  FilterLists <- OneFilter
  AuthorOf <- MCAuthorOf
  Targets <- MCTargets
  RollsBack = FALSE
  MaxRequests = 3
  MaxFaults = 1
PROPERTIES
  HandlersReturn
CHECK_DEADLOCK FALSE
