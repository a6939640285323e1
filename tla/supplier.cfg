SPECIFICATION FairSpec
CONSTANTS
  Elements = {e1, e2, e3}
  Producers = {p1, p2}
  Consumers = {k1, k2}
  Capacity = 1
  NoElement = NoElement
INVARIANT
  TypeOK
  SettledOnce
  DoneIsAccountedFor
  NoLostWakeup
PROPERTY
  ImplementsHandoff
  EveryElementSettled
CHECK_DEADLOCK FALSE
