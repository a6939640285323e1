SPECIFICATION Spec
CONSTANTS
  Chgs = {c1}
  Uris = {u1, u2}
  Sequence <- SameSequence
  Executions = {u1, u2}
  Execution <- OwnExecution
  Tokens = {t1, t2}
  Handlers = {h1}
  Worker = w
  MaxRetries = 2
  MaxCount = 2
  MaxTime = 1
  Faults = {"abort"}
  NoChg = NoChg
  NoUri = NoUri
  NoToken = NoToken
  NoLease = NoLease
SYMMETRY Symmetry
CHECK_DEADLOCK FALSE
INVARIANT
  ExclusiveOwnership
