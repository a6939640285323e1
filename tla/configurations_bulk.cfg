SPECIFICATION PageSpec
CONSTANTS
  N = 2
  Queries = {"any", "off"}
  PageSize = 1
  PageSizes = {1}
  Predicates = {}
  Comparators = {}
  Operations = {"reload"}
  Errors = TRUE
  MaxLoads = 3
  MaxChanges = 0
  MaxOperations = 2
  None = None
INVARIANT
  OnlyChosenAreChanged
CHECK_DEADLOCK FALSE
