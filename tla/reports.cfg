SPECIFICATION FairReportSpec
CONSTANTS
  N = 2
  Queries = {"any", "off"}
  PageSize = 1
  PageSizes = {}
  Predicates <- MCPredicates
  Comparators = {"desc"}
  Operations = {"refresh", "reload"}
  Errors = TRUE
  MaxLoads = 4
  MaxChanges = 1
  Pages = {"jobexecution", "crawlexecution", "crawllog", "pagelog"}
  MaxIdsPerRequest = 1
  MaxVisits = 2
  MaxAborts = 1
  None = None
INVARIANT
  ReportTypeOK
  UniqueRows
  RowsOfQuery
  CountsAreOfActiveRows
  AbortedIsNotRunning
  WatchEndsWithExecution
CHECK_DEADLOCK FALSE
PROPERTY
  LoadingEnds
