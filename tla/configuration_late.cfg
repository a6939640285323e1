SPECIFICATION DetailSpec
CONSTANTS
  None = None
  UserRoles <- MCAdmins
  Pages <- MCPages
  Ids = {"e1", "s1", "s2", "j1"}
  KindOf <- MCKindOf
  Initially <- MCInitially
  Choices <- MCChoices
  SeedPage = 2
  Selecting = {}
  Matching = {}
  ScopeChecks = {}
  Failures = FALSE
  MaxMoves = 1
  MaxOperations = 2
  MaxRequests = 2
CHECK_DEADLOCK FALSE
INVARIANT
  ShownIsOfAddress
