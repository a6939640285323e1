SPECIFICATION PageSpec
CONSTANTS
  N = 2
  Queries = {"role"}
  PageSize = 1
  PageSizes = {1}
  Predicates = {}
  Comparators = {}
  Operations = {"reload"}
  Errors = TRUE
  MaxLoads = 3
  MaxChanges = 0
  MaxOperations = 1
  None = None
INVARIANT
  FilteredUpdatesAreRecounted
CHECK_DEADLOCK FALSE
