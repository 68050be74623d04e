\* Two rows and a cache with room for one: every put may evict; with fairness.
SPECIFICATION Spec
CONSTANTS
  Keys = {k1, k2}
  Values = {v1, v2}
  Pollers = {}
  Callers = {dao}
  Dao = dao
  Timer = timer
  NoKey = noKey
  NoValue = noValue
  KeptNum = 1
  KeptDen = 2
  MaxCacheSize = 1
  LifeTime = 0
  IdleTime = 0
INVARIANTS
  CacheInOrder
PROPERTIES
  StaleGoes
