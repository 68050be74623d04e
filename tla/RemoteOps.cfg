\* The shipped pool: 4 threads, 2 workers configured for each channel; with fairness.
SPECIFICATION Spec
CONSTANTS
  o1 = o1
  o2 = o2
  o3 = o3
  c1 = c1
  c2 = c2
  Ops = {o1, o2, o3}
  Clients = {c1, c2}
  Owner <- MCOwner
  Sessions = {s1}
  PoolSize = 4
  CacheWorkers = 2
  FrontWorkers = 2
  NoOp = noOp
INVARIANTS
  TypeOK
  NoneLostOrDoubled
  CorrelationsMatchPending
  NoRequestBeforeService
PROPERTIES
  ImplementsRemoteCall
