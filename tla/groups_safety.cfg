SPECIFICATION Spec
CONSTANTS
  Chgs = {c1, c2}
  Uris = {u1, u2}
  Sequence <- SameSequence
  Executions = {e1}
  Execution <- OneExecution
  Tokens = {t1, t2}
  Handlers = {h1, h2}
  Worker = w
  MaxRetries = 2
  MaxCount = 2
  MaxTime = 1
  Faults = {"dbError"}
  NoChg = NoChg
  NoUri = NoUri
  NoToken = NoToken
  NoLease = NoLease
SYMMETRY Symmetry
CHECK_DEADLOCK FALSE
INVARIANT
  ExclusiveOwnership
  SessionHoldsGroup
  GroupInOnePlace
  CountMatchesQueue
  UriQueuedOnce
  LeaseIsQueued
