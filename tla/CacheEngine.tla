----------------------------- MODULE CacheEngine -----------------------------
(***************************************************************************)
(* The cache engine of hw11: SoftReferenceCacheImpl on a ConcurrentHashMap, *)
(* CacheEngineImpl with its LRU eviction on overflow, and the timer thread  *)
(* that runs the two time evictions.  The engine takes no lock: the threads *)
(* that call it, the threads that only read its statistics, the timer and   *)
(* the garbage collector meet between any two accesses to the map.          *)
(* The hit and miss counters are left out: nothing but a report reads them. *)
(***************************************************************************)
EXTENDS Naturals, FiniteSets, TLC

CONSTANTS
  Keys,
  Values,
  Callers,          \* threads that put, get, delete, reset and dispose
  Pollers,          \* threads that only ask for the statistics
  Timer,            \* the thread of java.util.Timer
  NoKey, NoValue,
  MaxCacheSize,
  KeptNum, KeptDen, \* the reduction factor of the LRU eviction
  LifeTime,         \* LIFE_TIME_DURATION, in ticks
  IdleTime          \* LAST_ACCESS_TIME_DURATION, in ticks

ASSUME ThreadsAssumption ==
  Callers \cap Pollers = {} /\ Timer \notin Callers \cup Pollers
ASSUME SizeAssumption == MaxCacheSize \in Nat \ {0}
ASSUME FactorAssumption == KeptNum \in Nat /\ KeptDen \in Nat /\ KeptNum < KeptDen
ASSUME TimeAssumption == LifeTime \in Nat /\ IdleTime \in Nat
ASSUME NoneAssumption == NoKey \notin Keys /\ NoValue \notin Values

VARIABLES
  inner,    \* SoftReferenceCacheImpl.inner, with what each reference holds
  call,     \* the engine call each thread is in
  timerOn   \* the Timer has not been cancelled

engineVars == <<inner, call, timerOn>>

Threads == Callers \cup Pollers \cup {Timer}

(* Ages are counted up to just past the longer duration. *)
AgeCap == (IF LifeTime > IdleTime THEN LifeTime ELSE IdleTime) + 1

(* A CacheElement behind its SoftReference: its value, the ticks since it was *)
(* created and since it was accessed, and whether the reference is cleared.  *)
Element == [value : Values, age : 0..AgeCap, idle : 0..AgeCap,
            cleared : BOOLEAN]

Evictions == {"evictByLifeTime", "evictByAccess"}
Ops == {"none", "put", "get", "delete", "getStats", "reset"} \cup Evictions

Call == [op : Ops,
         at : {"idle", "size", "entries", "remove", "store", "returned",
               "threw"},
         key : Keys \cup {NoKey}, value : Values \cup {NoValue},
         todo : SUBSET Keys,   \* the keys still to be removed
         surplus : Nat]        \* how many elements LRU wants to drop

NoCall == [op |-> "none", at |-> "idle", key |-> NoKey, value |-> NoValue,
           todo |-> {}, surplus |-> 0]

EngineTypeOK ==
  /\ DOMAIN inner \subseteq Keys
  /\ \A k \in DOMAIN inner : inner[k] \in Element
  /\ call \in [Threads -> Call]
  /\ timerOn \in BOOLEAN

EngineInit ==
  /\ inner = [k \in {} |-> NoValue]
  /\ call = [t \in Threads |-> NoCall]
  /\ timerOn = TRUE

-----------------------------------------------------------------------------
(* The map. *)

Cleared == {k \in DOMAIN inner : inner[k].cleared}
Live(k) == k \in DOMAIN inner /\ ~inner[k].cleared

without(f, k) == [j \in DOMAIN f \ {k} |-> f[j]]
with(f, k, e) == [j \in DOMAIN f \cup {k} |-> IF j = k THEN e ELSE f[j]]

(* Mutant: the element is made before its value is known. *)
elementOf_empty(v) == [value |-> NoValue, age |-> 0, idle |-> 0, cleared |-> FALSE]

elementOf(v) == [value |-> v, age |-> 0, idle |-> 0, cleared |-> FALSE]

(* isMoreFromTimePassedThanDuration: strictly more than the duration. *)
Expired(k, op) ==
  \/ op = "evictByLifeTime" /\ inner[k].age > LifeTime
  \/ op = "evictByAccess" /\ inner[k].idle > IdleTime

Idle(t) == call[t].at = "idle"
goto(t, at) == call' = [call EXCEPT ![t].at = at]
enter(t, op, at, k, v, keys) ==
  call' = [call EXCEPT ![t] = [op |-> op, at |-> at, key |-> k, value |-> v,
                               todo |-> keys, surplus |-> 0]]

-----------------------------------------------------------------------------
(* Calls.  size(), keySet() and entrySet() first remove the references they   *)
(* find cleared, one by one.                                                  *)

(* CacheEngineImpl.put: ensureCacheSize begins with the size of the cache. *)
Put(t, k, v) ==
  /\ Idle(t)
  /\ enter(t, "put", "size", k, v, Cleared)
  /\ UNCHANGED <<inner, timerOn>>

(* get: a hit also renews the access time; no result is NoValue. *)
Get(t, k) ==
  /\ Idle(t)
  /\ IF Live(k)
       THEN /\ enter(t, "get", "returned", k, inner[k].value, {})
            /\ inner' = [inner EXCEPT ![k].idle = 0]
       ELSE /\ enter(t, "get", "returned", k, NoValue, {})
            /\ UNCHANGED inner
  /\ UNCHANGED timerOn

(* delete: remove(key) dereferences what the map gave back, so a key that is  *)
(* not there is a NullPointerException.                                       *)
Delete(t, k) ==
  /\ Idle(t)
  /\ IF k \in DOMAIN inner
       THEN /\ enter(t, "delete", "returned", k, NoValue, {})
            /\ inner' = without(inner, k)
       ELSE /\ enter(t, "delete", "threw", k, NoValue, {})
            /\ UNCHANGED inner
  /\ UNCHANGED timerOn

GetStats(t) ==
  /\ Idle(t)
  /\ enter(t, "getStats", "size", NoKey, NoValue, Cleared)
  /\ UNCHANGED <<inner, timerOn>>

(* reset: the timer is stopped, and started again if nothing is thrown. *)
Reset(t) ==
  /\ Idle(t)
  /\ enter(t, "reset", "entries", NoKey, NoValue, Cleared)
  /\ timerOn' = FALSE
  /\ UNCHANGED inner

Dispose(t) ==
  /\ Idle(t)
  /\ timerOn
  /\ timerOn' = FALSE
  /\ UNCHANGED <<inner, call>>

(* A TimerTask: evict begins with the entries of the cache. *)
RunTask(op) ==
  /\ timerOn
  /\ Idle(Timer)
  /\ enter(Timer, op, "entries", NoKey, NoValue, Cleared)
  /\ UNCHANGED <<inner, timerOn>>

-----------------------------------------------------------------------------
(* Inside a call. *)

(* remove of one of the keys at hand: cleared references, LRU victims, expired *)
(* elements.  A key that another thread has removed is a NullPointerException, *)
(* and so is the time of an element that the snapshot found cleared.           *)
Remove(t) ==
  /\ call[t].at \in {"size", "entries", "remove"}
  /\ \E k \in call[t].todo :
       IF \/ k \notin DOMAIN inner
          \/ /\ call[t].at = "remove"
             /\ call[t].op \in Evictions
             /\ inner[k].cleared
         THEN goto(t, "threw") /\ UNCHANGED inner
         ELSE /\ inner' = without(inner, k)
              /\ call' = [call EXCEPT ![t].todo = @ \ {k}]
  /\ UNCHANGED timerOn

(* getStats: the size is known. *)
ReportSize(t) ==
  /\ call[t].op = "getStats" /\ call[t].at = "size" /\ call[t].todo = {}
  /\ goto(t, "returned")
  /\ UNCHANGED <<inner, timerOn>>

newCacheSize(n) == (n * KeptNum) \div KeptDen

(* Mutant: evict only when the size is past the maximum. *)
EnsureCacheSize_late(t) ==
  LET n == Cardinality(DOMAIN inner) IN
  /\ call[t].op = "put" /\ call[t].at = "size" /\ call[t].todo = {}
  /\ IF MaxCacheSize >= n
       THEN goto(t, "store")
       ELSE call' = [call EXCEPT ![t].at = "entries", ![t].todo = Cleared,
                                 ![t].surplus = n - newCacheSize(n)]
  /\ UNCHANGED <<inner, timerOn>>

(* LruEvictionCommand.execute: room left, or so many elements too many.  The   *)
(* IllegalStateException needs a factor of 1 or more.                          *)
EnsureCacheSize(t) ==
  LET n == Cardinality(DOMAIN inner) IN
  /\ call[t].op = "put" /\ call[t].at = "size" /\ call[t].todo = {}
  /\ IF MaxCacheSize > n
       THEN goto(t, "store")
       ELSE call' = [call EXCEPT ![t].at = "entries", ![t].todo = Cleared,
                                 ![t].surplus = n - newCacheSize(n)]
  /\ UNCHANGED <<inner, timerOn>>

(* Mutant: sorted by creation time. *)
Oldest_created(S, n) ==
  {V \in SUBSET S :
     /\ Cardinality(V) = IF n < Cardinality(S) THEN n ELSE Cardinality(S)
     /\ \A k \in V, j \in S \ V : inner[k].age >= inner[j].age}

(* The least recently accessed elements of S, as many as limit(n) lets through. *)
Oldest(S, n) ==
  {V \in SUBSET S :
     /\ Cardinality(V) = IF n < Cardinality(S) THEN n ELSE Cardinality(S)
     /\ \A k \in V, j \in S \ V : inner[k].idle >= inner[j].idle}

(* The snapshot of entrySet sorted by access time; comparing two elements, one *)
(* of them cleared, is a NullPointerException.                                 *)
SortByAccess(t) ==
  /\ call[t].op = "put" /\ call[t].at = "entries" /\ call[t].todo = {}
  /\ IF Cleared # {} /\ Cardinality(DOMAIN inner) > 1
       THEN goto(t, "threw")
       ELSE \E V \in Oldest(DOMAIN inner, call[t].surplus) :
              call' = [call EXCEPT ![t].at = "remove", ![t].todo = V]
  /\ UNCHANGED <<inner, timerOn>>

(* The snapshot filtered by the time of its elements. *)
FilterExpired(t) ==
  /\ call[t].op \in Evictions /\ call[t].at = "entries" /\ call[t].todo = {}
  /\ call' = [call EXCEPT ![t].at = "remove",
                ![t].todo = {k \in DOMAIN inner :
                               inner[k].cleared \/ Expired(k, call[t].op)}]
  /\ UNCHANGED <<inner, timerOn>>

(* Mutant: reset leaves the cleared references to the next size(). *)
AllKeys_live(t) ==
  /\ call[t].op = "reset" /\ call[t].at = "entries" /\ call[t].todo = {}
  /\ call' = [call EXCEPT ![t].at = "remove",
                ![t].todo = {k \in DOMAIN inner : ~inner[k].cleared}]
  /\ UNCHANGED <<inner, timerOn>>

(* reset goes through the keys of the map. *)
AllKeys(t) ==
  /\ call[t].op = "reset" /\ call[t].at = "entries" /\ call[t].todo = {}
  /\ call' = [call EXCEPT ![t].at = "remove", ![t].todo = DOMAIN inner]
  /\ UNCHANGED <<inner, timerOn>>

(* put: the element goes in. *)
Store(t) ==
  /\ call[t].op = "put"
  /\ call[t].at = "store" \/ (call[t].at = "remove" /\ call[t].todo = {})
  /\ inner' = with(inner, call[t].key, elementOf(call[t].value))
  /\ goto(t, "returned")
  /\ UNCHANGED timerOn

Evicted(t) ==
  /\ call[t].op \in Evictions /\ call[t].at = "remove" /\ call[t].todo = {}
  /\ goto(t, "returned")
  /\ UNCHANGED <<inner, timerOn>>

Restart(t) ==
  /\ call[t].op = "reset" /\ call[t].at = "remove" /\ call[t].todo = {}
  /\ timerOn' = TRUE
  /\ goto(t, "returned")
  /\ UNCHANGED inner

(* Mutant: an exception ends the timer thread. *)
Return_uncaught(t) ==
  /\ call[t].at = "returned" \/ (call[t].at = "threw" /\ t # Timer)
  /\ call' = [call EXCEPT ![t] = NoCall]
  /\ UNCHANGED <<inner, timerOn>>

(* The call is over for the thread that made it; executeSafety and the remote *)
(* service catch what it threw.                                               *)
Return(t) ==
  /\ call[t].at \in {"returned", "threw"}
  /\ call' = [call EXCEPT ![t] = NoCall]
  /\ UNCHANGED <<inner, timerOn>>

Inside(t) ==
  \/ Remove(t) \/ ReportSize(t) \/ EnsureCacheSize(t) \/ SortByAccess(t)
  \/ FilterExpired(t) \/ AllKeys(t) \/ Store(t) \/ Evicted(t) \/ Restart(t)

-----------------------------------------------------------------------------
(* The garbage collector clears a soft reference whose element no snapshot of *)
(* a running eviction holds.                                                  *)
GcClear(k) ==
  /\ Live(k)
  /\ ~\E t \in Threads : call[t].at = "remove" /\ k \in call[t].todo
  /\ inner' = [inner EXCEPT ![k].cleared = TRUE]
  /\ UNCHANGED <<call, timerOn>>

older(n) == IF n < AgeCap THEN n + 1 ELSE n

Tick ==
  /\ \E k \in DOMAIN inner : inner[k].age < AgeCap \/ inner[k].idle < AgeCap
  /\ inner' = [k \in DOMAIN inner |->
                 [inner[k] EXCEPT !.age = older(@), !.idle = older(@)]]
  /\ UNCHANGED <<call, timerOn>>

Background ==
  \/ \E op \in Evictions : RunTask(op)
  \/ \E t \in Pollers : GetStats(t)
  \/ \E t \in Threads : Inside(t)
  \/ \E t \in Pollers \cup {Timer} : Return(t)
  \/ \E k \in Keys : GcClear(k)
  \/ Tick

CallEngine(t) ==
  \/ \E k \in Keys : Get(t, k) \/ Delete(t, k) \/ (\E v \in Values : Put(t, k, v))
  \/ Reset(t) \/ Dispose(t) \/ Return(t)

EngineNext == Background \/ \E t \in Callers : CallEngine(t)

EngineSpec == EngineInit /\ [][EngineNext]_engineVars

-----------------------------------------------------------------------------
(* Properties. *)

(* CacheEngineConfigKeys.MAX_CACHE_SIZE: with one thread that puts, however    *)
(* the timer, the statistics and the collector interfere with the eviction     *)
(* that makes room, the cache holds no more than its maximal size.             *)
SizeBounded == Cardinality(DOMAIN inner) <= MaxCacheSize

(* LruEvictionCommand: what a put throws out was accessed no later than any    *)
(* element it spares, though the victims go one by one while others remove.    *)
LeastRecentlyUsedGo ==
  [][\A t \in Callers : call[t].op = "put" /\ call[t].at = "remove" =>
       \A k \in DOMAIN inner \ DOMAIN inner', j \in DOMAIN inner \ call[t].todo :
         k \in call[t].todo \ call'[t].todo => inner[k].idle >= inner[j].idle
     ]_engineVars

(* CacheEngineImpl.reset: when it returns the cache is empty, whoever removed  *)
(* the elements (one thread puts and resets).                                  *)
ResetEmpties ==
  \A t \in Callers :
    call[t].op = "reset" /\ call[t].at = "returned" => DOMAIN inner = {}

(* The engine at work: elements with values, never more than its size, none after reset. *)
EngineInOrder == EngineTypeOK /\ SizeBounded /\ ResetEmpties

-----------------------------------------------------------------------------
(* Nothing tells one key from another. *)
KeySymmetry == Permutations(Keys)
=============================================================================
