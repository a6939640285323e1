SPECIFICATION FairSpec
CONSTANTS
  Chgs = {c1, c2}
  Uris = {u1, u2}
  Sequence <- SameSequence
  Executions = {e1}
  Execution <- OneExecution
  Tokens = {t1, t2}
  Handlers = {h1}
  Worker = w
  MaxRetries = 2
  MaxCount = 2
  MaxTime = 2
  Faults = {}
  NoChg = NoChg
  NoUri = NoUri
  NoToken = NoToken
  NoLease = NoLease
CHECK_DEADLOCK FALSE
INVARIANT
  TypeOK
  NoGroupLost
PROPERTY
  EveryUriLeavesQueue
