SPECIFICATION FairReportSpec
CONSTANTS
  N = 2
  Queries = {"any", "off"}
  PageSize = 1
  PageSizes = {}
  Predicates <- MCPredicates
  Comparators = {"desc"}
  Operations = {"refresh", "reload"}
  Errors = FALSE
  MaxLoads = 5
  MaxChanges = 0
  Pages = {"crawlexecution"}
  MaxIdsPerRequest = 1
  MaxVisits = 0
  MaxAborts = 0
  None = None
PROPERTY
  ScrollLoadsAll
CHECK_DEADLOCK FALSE
