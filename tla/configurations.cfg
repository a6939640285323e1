SPECIFICATION PageSpec
CONSTANTS
  N = 2
  Queries = {"any", "off", "role"}
  PageSize = 1
  PageSizes = {1}
  Predicates = {}
  Comparators = {}
  Operations = {"reload", "pages", "history"}
  Errors = TRUE
  MaxLoads = 3
  MaxChanges = 1
  MaxOperations = 1
  None = None
INVARIANT
  PageTypeOK
  SelectionAgrees
  OnlyChosenAreChanged
  TotalIsRight
  PageRowsAreContiguous
CHECK_DEADLOCK FALSE
