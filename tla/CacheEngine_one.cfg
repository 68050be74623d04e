\* One thread uses the engine, another polls its statistics.
SPECIFICATION EngineSpec
CONSTANTS
  Keys = {k1, k2, k3}
  Values = {v1}
  Callers = {caller}
  Pollers = {poller}
  Timer = timer
  NoKey = noKey
  NoValue = noValue
  MaxCacheSize = 2
  KeptNum = 1
  KeptDen = 2
  LifeTime = 1
  IdleTime = 0
SYMMETRY KeySymmetry
INVARIANTS
  EngineInOrder
PROPERTIES
  LeastRecentlyUsedGo
