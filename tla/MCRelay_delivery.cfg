SPECIFICATION Spec
CONSTANTS
  c1 = c1
  c2 = c2
  note = note
  erase = erase
  proof = proof
  author = author
  service = service
  Null = Null
  Sockets = {c1, c2}
  SubIds = {i1}
  Events <- MCEvents
  Receipts = {proof}
  FilterLists <- TwoFilters
  AuthorOf <- MCAuthorOf
  Targets <- MCTargets
  RollsBack = FALSE
  MaxRequests = 5
  MaxFaults = 2
SYMMETRY SocketSymmetry
INVARIANTS
  TypeOK
  NoGap
  PublishedOnce
CHECK_DEADLOCK FALSE
