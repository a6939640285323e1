SPECIFICATION Spec
CONSTANTS
  Chgs = {c1, c2}
  Uris = {u1}
  Sequence <- SameSequence
  Executions = {e1}
  Execution <- OneExecution
  Tokens = {t1, t2}
  Handlers = {h1}
  Worker = w
  MaxRetries = 2
  MaxCount = 2
  MaxTime = 1
  Faults = {"crash", "docLost", "streamError", "abort", "terminal"}
  NoChg = NoChg
  NoUri = NoUri
  NoToken = NoToken
  NoLease = NoLease
SYMMETRY Symmetry
CHECK_DEADLOCK FALSE
INVARIANT
  UriQueuedOnce
PROPERTY
  RemovedStaysRemoved
