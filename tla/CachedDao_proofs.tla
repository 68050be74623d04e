--------------------------- MODULE CachedDao_proofs ---------------------------
(***************************************************************************)
(* Proofs about CacheEngine and CachedDao for every set of keys and values, *)
(* every size, reduction factor and duration, any number of threads that    *)
(* ask for statistics, and the one thread that uses the cache.              *)
(***************************************************************************)
EXTENDS CachedDao, FiniteSetTheorems, TLAPS

(* Only the thread that uses the cache puts and resets. *)
OneWriter == \A t \in Threads \ {Dao} : call[t].op \notin {"put", "reset"}

(* A put that has evicted leaves room for its element, and its victims are no  *)
(* younger than what they leave.                                              *)
PutSound ==
  call[Dao].op = "put" =>
    /\ call[Dao].key \in Keys /\ call[Dao].value \in Values
    /\ call[Dao].at = "store" => Cardinality(DOMAIN inner) < MaxCacheSize
    /\ call[Dao].at = "entries" => call[Dao].surplus # 0
    /\ call[Dao].at = "remove" =>
         /\ Cardinality(DOMAIN inner \ call[Dao].todo) < MaxCacheSize
         /\ \A k \in DOMAIN inner \cap call[Dao].todo, j \in DOMAIN inner \ call[Dao].todo :
              inner[k].idle >= inner[j].idle

(* A reset has taken every key it has yet to remove, and no other is there. *)
ResetSound ==
  call[Dao].op = "reset" =>
    /\ call[Dao].at = "remove" => DOMAIN inner \subseteq call[Dao].todo
    /\ call[Dao].at = "returned" => DOMAIN inner = {}

(* The inductive invariant of CacheEngine. SizeBounded and ResetEmpties alone *)
(* are not inductive: that a put finds room is true because of what its       *)
(* eviction has left, and that a reset leaves nothing because no other thread *)
(* puts meanwhile.                                                            *)
EngineIInv ==
  /\ EngineTypeOK
  /\ IsFiniteSet(DOMAIN inner)
  /\ SizeBounded
  /\ OneWriter
  /\ PutSound
  /\ ResetSound

-----------------------------------------------------------------------------

(* The threads are distinct, and the one that uses the cache is the only *)
(* caller.                                                               *)
LEMMA Thread ==
  Dao \in Threads /\ Timer \in Threads /\ Pollers \subseteq Threads /\ Timer # Dao
  /\ Dao \notin Pollers
BY DaoAssumption, ThreadsAssumption DEF Threads

(* Reducing a full cache drops at least one element. *)
LEMMA FactorReduces ==
  ASSUME NEW n \in Nat \ {0}
  PROVE  newCacheSize(n) \in Nat /\ newCacheSize(n) < n
<1> DEFINE q == (n * KeptNum) \div KeptDen
<1>1. KeptNum \in Nat /\ KeptDen \in Nat /\ KeptNum < KeptDen /\ KeptDen > 0
  BY FactorAssumption
<1>2. n * KeptNum \in Nat /\ n * KeptNum < n * KeptDen
  BY <1>1
<1>3. q \in Nat /\ q * KeptDen <= n * KeptNum
  BY <1>1, <1>2
<1> HIDE DEF q
<1>4. q * KeptDen < n * KeptDen
  BY <1>1, <1>2, <1>3
<1>5. q < n
  BY <1>1, <1>3, <1>4
<1> QED BY <1>3, <1>5 DEF q, newCacheSize

(* Elements that go, age or are cleared disturb no call that goes on. *)
LEMMA Loses ==
  ASSUME EngineIInv, DOMAIN inner' \subseteq DOMAIN inner
  PROVE  /\ IsFiniteSet(DOMAIN inner')
         /\ SizeBounded'
         /\ \A todo : Cardinality(DOMAIN inner' \ todo) \in Nat
         /\ \A todo : Cardinality(DOMAIN inner \ todo) \in Nat
         /\ \A todo : Cardinality(DOMAIN inner' \ todo) <= Cardinality(DOMAIN inner \ todo)
         /\ Cardinality(DOMAIN inner') <= Cardinality(DOMAIN inner)
         /\ Cardinality(DOMAIN inner') \in Nat /\ Cardinality(DOMAIN inner) \in Nat
<1>1. IsFiniteSet(DOMAIN inner) /\ Cardinality(DOMAIN inner) <= MaxCacheSize
  BY DEF EngineIInv, SizeBounded
<1>2. IsFiniteSet(DOMAIN inner') /\ Cardinality(DOMAIN inner') <= Cardinality(DOMAIN inner)
  BY <1>1, FS_Subset
<1>3. Cardinality(DOMAIN inner) \in Nat /\ Cardinality(DOMAIN inner') \in Nat
  BY <1>1, <1>2, FS_CardinalityType
<1>4. ASSUME NEW todo
      PROVE  /\ Cardinality(DOMAIN inner' \ todo) <= Cardinality(DOMAIN inner \ todo)
             /\ Cardinality(DOMAIN inner' \ todo) \in Nat
             /\ Cardinality(DOMAIN inner \ todo) \in Nat
  <2>1. IsFiniteSet(DOMAIN inner \ todo)
    BY <1>1, FS_Subset
  <2>2. (DOMAIN inner' \ todo) \in SUBSET (DOMAIN inner \ todo)
    OBVIOUS
  <2> QED BY <2>1, <2>2, FS_Subset, FS_CardinalityType
<1>5. SizeBounded'
  BY <1>1, <1>2, <1>3, SizeAssumption DEF SizeBounded
<1> QED BY <1>2, <1>3, <1>4, <1>5

(* The same for a call that is not touched. *)
LEMMA CallUntouched ==
  ASSUME EngineIInv, DOMAIN inner' \subseteq DOMAIN inner, call'[Dao] = call[Dao],
         \A k, j \in DOMAIN inner' :
           inner[k].idle >= inner[j].idle => inner'[k].idle >= inner'[j].idle
  PROVE  PutSound' /\ ResetSound'
<1>1. PutSound'
  <2>1. PICK c : c = call[Dao]
    OBVIOUS
  <2>2. SUFFICES ASSUME c.op = "put"
                 PROVE  PutSound'
    BY <2>1 DEF PutSound
  <2>3. /\ c.key \in Keys /\ c.value \in Values
        /\ c.at = "store" => Cardinality(DOMAIN inner) < MaxCacheSize
        /\ c.at = "entries" => c.surplus # 0
        /\ c.at = "remove" =>
             /\ Cardinality(DOMAIN inner \ c.todo) < MaxCacheSize
             /\ \A k \in DOMAIN inner \cap c.todo, j \in DOMAIN inner \ c.todo :
                  inner[k].idle >= inner[j].idle
    BY <2>1, <2>2 DEF EngineIInv, PutSound
  <2>4. /\ Cardinality(DOMAIN inner' \ c.todo) <= Cardinality(DOMAIN inner \ c.todo)
        /\ Cardinality(DOMAIN inner' \ c.todo) \in Nat
        /\ Cardinality(DOMAIN inner \ c.todo) \in Nat
        /\ Cardinality(DOMAIN inner') <= Cardinality(DOMAIN inner)
        /\ Cardinality(DOMAIN inner') \in Nat /\ Cardinality(DOMAIN inner) \in Nat
    BY Loses
  <2>5. c.at = "store" => Cardinality(DOMAIN inner') < MaxCacheSize
    BY <2>3, <2>4, SizeAssumption
  <2>6. c.at = "remove" =>
          /\ Cardinality(DOMAIN inner' \ c.todo) < MaxCacheSize
          /\ \A k \in DOMAIN inner' \cap c.todo, j \in DOMAIN inner' \ c.todo :
               inner'[k].idle >= inner'[j].idle
    BY <2>3, <2>4, SizeAssumption
  <2>7. c = call'[Dao]
    BY <2>1
  <2> HIDE <2>1
  <2> QED BY <2>3, <2>5, <2>6, <2>7 DEF PutSound
<1>2. ResetSound'
  BY DEF EngineIInv, ResetSound
<1> QED BY <1>1, <1>2

(* Taking one element out. *)
LEMMA Without ==
  ASSUME EngineTypeOK, NEW k
  PROVE  /\ DOMAIN without(inner, k) = DOMAIN inner \ {k}
         /\ \A j \in DOMAIN inner \ {k} : without(inner, k)[j] = inner[j]
         /\ \A j \in DOMAIN without(inner, k) : without(inner, k)[j] \in Element
BY DEF without, EngineTypeOK

(* The engine starts empty. *)
LEMMA EngineInitInv == EngineInit => EngineIInv
<1> SUFFICES ASSUME EngineInit PROVE EngineIInv
  OBVIOUS
<1>1. DOMAIN inner = {} /\ \A t \in Threads : call[t] = NoCall
  BY DEF EngineInit
<1>2. IsFiniteSet(DOMAIN inner) /\ SizeBounded
  BY <1>1, FS_EmptySet, SizeAssumption DEF SizeBounded
<1>3. NoCall \in Call
  BY DEF NoCall, Call, Ops
<1>4. EngineTypeOK
  BY <1>1, <1>3 DEF EngineInit, EngineTypeOK
<1> QED BY <1>1, <1>2, <1>4, Thread DEF EngineIInv, OneWriter, PutSound, ResetSound, NoCall

(* A step of a thread in its call: the other calls stay. *)
LEMMA Moves ==
  ASSUME EngineTypeOK, NEW t \in Threads, NEW c \in Call, call' = [call EXCEPT ![t] = c]
  PROVE  /\ call' \in [Threads -> Call] /\ call'[t] = c
         /\ \A u \in Threads \ {t} : call'[u] = call[u]
BY DEF EngineTypeOK

(* What stays of the invariant when a thread other than Dao steps and elements *)
(* only go, and what is left to show when Dao does.                           *)
LEMMA StepKeeps ==
  ASSUME EngineIInv, NEW t \in Threads, NEW c \in Call, call' = [call EXCEPT ![t] = c],
         DOMAIN inner' \subseteq DOMAIN inner,
         \A k, j \in DOMAIN inner' :
           inner[k].idle >= inner[j].idle => inner'[k].idle >= inner'[j].idle,
         \A k \in DOMAIN inner' : inner'[k] \in Element,
         timerOn' \in BOOLEAN,
         t # Dao => c.op \notin {"put", "reset"},
         t = Dao => PutSound' /\ ResetSound'
  PROVE  EngineIInv'
<1>1. /\ call' \in [Threads -> Call] /\ call'[t] = c
      /\ \A u \in Threads \ {t} : call'[u] = call[u]
  BY Moves DEF EngineIInv
<1>2. EngineTypeOK'
  BY <1>1 DEF EngineIInv, EngineTypeOK
<1>3. IsFiniteSet(DOMAIN inner') /\ SizeBounded'
  BY Loses
<1>4. OneWriter'
  BY <1>1 DEF EngineIInv, OneWriter
<1>5. PutSound' /\ ResetSound'
  BY <1>1, CallUntouched, Thread
<1> QED BY <1>2, <1>3, <1>4, <1>5 DEF EngineIInv

(* The same when no call is touched. *)
LEMMA NoCallMoves ==
  ASSUME EngineIInv, UNCHANGED call,
         DOMAIN inner' \subseteq DOMAIN inner,
         \A k, j \in DOMAIN inner' :
           inner[k].idle >= inner[j].idle => inner'[k].idle >= inner'[j].idle,
         \A k \in DOMAIN inner' : inner'[k] \in Element,
         timerOn' \in BOOLEAN
  PROVE  EngineIInv'
<1>1. EngineTypeOK' /\ OneWriter'
  BY DEF EngineIInv, EngineTypeOK, OneWriter
<1> QED BY <1>1, Loses, CallUntouched DEF EngineIInv

(* Leaving a call. *)
LEMMA ReturnInv ==
  ASSUME EngineIInv, NEW t \in Threads, Return(t)
  PROVE  EngineIInv'
<1>1. NoCall \in Call /\ NoCall.op = "none"
  BY DEF NoCall, Call, Ops
<1>2. call' = [call EXCEPT ![t] = NoCall] /\ inner' = inner /\ timerOn' = timerOn
  BY DEF Return
<1>3. t = Dao => PutSound' /\ ResetSound'
  BY <1>1, <1>2, Moves DEF EngineIInv, PutSound, ResetSound
<1> QED BY <1>1, <1>2, <1>3, StepKeeps DEF EngineIInv, EngineTypeOK

(* Entering a call that leaves the map alone. *)
LEMMA EnterInv ==
  ASSUME EngineIInv, NEW t \in Threads, NEW op \in Ops \ {"none"},
         NEW at \in {"size", "entries", "returned", "threw"},
         NEW k \in Keys \cup {NoKey}, NEW v \in Values \cup {NoValue},
         NEW keys \in SUBSET Keys, enter(t, op, at, k, v, keys),
         UNCHANGED inner, timerOn' \in BOOLEAN,
         op \in {"put", "reset"} => t = Dao,
         op = "put" => at = "size" /\ k \in Keys /\ v \in Values,
         op = "reset" => at = "entries"
  PROVE  EngineIInv'
<1> DEFINE c == [op |-> op, at |-> at, key |-> k, value |-> v, todo |-> keys, surplus |-> 0]
<1>1. c \in Call /\ c.op = op /\ c.at = at /\ c.key = k /\ c.value = v
  BY DEF Call
<1>2. call' = [call EXCEPT ![t] = c]
  BY DEF enter
<1> HIDE DEF c
<1>3. call'[t] = c
  BY <1>1, <1>2, Moves DEF EngineIInv
<1>4. t = Dao => PutSound' /\ ResetSound'
  BY <1>1, <1>3 DEF PutSound, ResetSound
<1> QED BY <1>1, <1>2, <1>4, StepKeeps DEF EngineIInv, EngineTypeOK

(* The keys of the cleared references (processRemovedRefs) are keys. *)
LEMMA ClearedKeys == ASSUME EngineTypeOK PROVE Cleared \in SUBSET Keys
BY DEF EngineTypeOK, Cleared

(* SoftReferenceCacheImpl.remove of a key at hand, by whichever thread: the *)
(* victims that are left are still the oldest.                              *)
LEMMA RemoveInv ==
  ASSUME EngineIInv, NEW t \in Threads, Remove(t)
  PROVE  EngineIInv'
<1> DEFINE c == call[t]
<1>0. c \in Call /\ EngineTypeOK /\ c.todo \subseteq Keys
  BY DEF EngineIInv, EngineTypeOK, Call
<1>1. /\ timerOn' = timerOn /\ timerOn \in BOOLEAN
      /\ c.at \in {"size", "entries", "remove"}
  BY DEF Remove, EngineIInv, EngineTypeOK
<1>2. t # Dao => c.op \notin {"put", "reset"}
  BY DEF EngineIInv, OneWriter
<1>3. PICK k \in c.todo :
        \/ goto(t, "threw") /\ UNCHANGED inner
        \/ k \in DOMAIN inner /\ inner' = without(inner, k)
           /\ call' = [call EXCEPT ![t].todo = @ \ {k}]
  BY DEF Remove
<1>4. CASE goto(t, "threw") /\ UNCHANGED inner
  <2> DEFINE d == [c EXCEPT !.at = "threw"]
  <2>1. call' = [call EXCEPT ![t] = d]
    BY <1>4 DEF goto
  <2>2. d \in Call /\ d.op = c.op /\ d.at = "threw" /\ d.key = c.key /\ d.value = c.value
    BY <1>0 DEF Call
  <2> HIDE DEF d
  <2>3. call'[t] = d
    BY <2>1, <2>2, Moves DEF EngineIInv
  <2>4. t = Dao => PutSound' /\ ResetSound'
    BY <2>2, <2>3 DEF PutSound, ResetSound, EngineIInv
  <2> QED BY <1>1, <1>2, <1>4, <2>1, <2>2, <2>4, StepKeeps DEF EngineIInv, EngineTypeOK
<1>5. CASE k \in DOMAIN inner /\ inner' = without(inner, k)
           /\ call' = [call EXCEPT ![t].todo = @ \ {k}]
  <2> DEFINE d == [c EXCEPT !.todo = c.todo \ {k}]
  <2>1. call' = [call EXCEPT ![t] = d]
    BY <1>5
  <2>2. d \in Call /\ d.op = c.op /\ d.at = c.at /\ d.key = c.key /\ d.value = c.value
        /\ d.todo = c.todo \ {k} /\ d.surplus = c.surplus
    BY <1>0 DEF Call
  <2>3. /\ DOMAIN inner' = DOMAIN inner \ {k}
        /\ \A j \in DOMAIN inner' : inner'[j] = inner[j] /\ inner'[j] \in Element
    BY <1>0, <1>5, Without
  <2> HIDE DEF d
  <2>4. call'[t] = d
    BY <2>1, <2>2, Moves DEF EngineIInv
  <2>5. ASSUME t = Dao PROVE PutSound' /\ ResetSound'
    <3>1. DOMAIN inner' \ d.todo = DOMAIN inner \ c.todo
      BY <1>3, <2>2, <2>3
    <3>2. d.op = "put" =>
            /\ d.key \in Keys /\ d.value \in Values /\ d.at # "store"
            /\ d.at = "entries" => d.surplus # 0
            /\ d.at = "remove" => Cardinality(DOMAIN inner' \ d.todo) < MaxCacheSize
      BY <1>1, <2>2, <2>5, <3>1 DEF EngineIInv, PutSound
    <3>3. d.op = "put" /\ d.at = "remove" =>
            \A m \in DOMAIN inner' \cap d.todo, j \in DOMAIN inner' \ d.todo :
              inner'[m].idle >= inner'[j].idle
      BY <2>2, <2>3, <2>5, <3>1 DEF EngineIInv, PutSound
    <3>4. PutSound'
      BY <2>4, <2>5, <3>2, <3>3 DEF PutSound
    <3>5. ResetSound'
      BY <1>1, <2>2, <2>3, <2>4, <2>5 DEF EngineIInv, ResetSound
    <3> QED BY <3>4, <3>5
  <2> QED BY <1>1, <1>2, <2>1, <2>2, <2>3, <2>5, StepKeeps
<1> QED BY <1>3, <1>4, <1>5

(* A step of a call that leaves the map alone. *)
LEMMA QuietInv ==
  ASSUME EngineIInv, NEW t \in Threads,
         NEW at \in {"size", "entries", "remove", "store", "returned", "threw"},
         NEW todo \in SUBSET Keys, NEW surplus \in Nat,
         call' = [call EXCEPT ![t] =
                    [call[t] EXCEPT !.at = at, !.todo = todo, !.surplus = surplus]],
         UNCHANGED inner, timerOn' \in BOOLEAN,
         t = Dao /\ call[t].op = "put" =>
           /\ at = "store" => Cardinality(DOMAIN inner) < MaxCacheSize
           /\ at = "entries" => surplus # 0
           /\ at = "remove" =>
                /\ Cardinality(DOMAIN inner \ todo) < MaxCacheSize
                /\ \A k \in DOMAIN inner \cap todo, j \in DOMAIN inner \ todo :
                     inner[k].idle >= inner[j].idle,
         t = Dao /\ call[t].op = "reset" =>
           /\ at = "remove" => DOMAIN inner \subseteq todo
           /\ at = "returned" => DOMAIN inner = {}
  PROVE  EngineIInv'
<1> DEFINE c == call[t]
           d == [c EXCEPT !.at = at, !.todo = todo, !.surplus = surplus]
<1>1. c \in Call
  BY DEF EngineIInv, EngineTypeOK
<1>2. d \in Call /\ d.op = c.op /\ d.at = at /\ d.key = c.key /\ d.value = c.value
      /\ d.todo = todo /\ d.surplus = surplus
  BY <1>1 DEF Call
<1>3. call' = [call EXCEPT ![t] = d]
  OBVIOUS
<1> HIDE DEF d
<1>4. call'[t] = d
  BY <1>2, <1>3, Moves DEF EngineIInv
<1>5. t # Dao => d.op \notin {"put", "reset"}
  BY <1>2 DEF EngineIInv, OneWriter
<1>6. t = Dao => PutSound'
  BY <1>2, <1>4 DEF EngineIInv, PutSound
<1>7. t = Dao => ResetSound'
  BY <1>2, <1>4 DEF EngineIInv, ResetSound
<1> QED BY <1>2, <1>3, <1>5, <1>6, <1>7, StepKeeps DEF EngineIInv, EngineTypeOK

(* The parts of a call, written out. *)
LEMMA CallParts ==
  ASSUME EngineTypeOK, NEW t \in Threads
  PROVE  /\ call[t].todo \in SUBSET Keys /\ call[t].surplus \in Nat /\ call[t] \in Call
         /\ \A at : [call EXCEPT ![t].at = at] =
                    [call EXCEPT ![t] = [call[t] EXCEPT !.at = at, !.todo = call[t].todo,
                                                        !.surplus = call[t].surplus]]
         /\ \A at, todo : [call EXCEPT ![t].at = at, ![t].todo = todo] =
                    [call EXCEPT ![t] = [call[t] EXCEPT !.at = at, !.todo = todo,
                                                        !.surplus = call[t].surplus]]
<1>1. call[t] \in Call
  BY DEF EngineTypeOK
<1>2. call[t].todo \in SUBSET Keys /\ call[t].surplus \in Nat
  BY <1>1 DEF Call
<1>3. \A at : [call[t] EXCEPT !.at = at] =
        [call[t] EXCEPT !.at = at, !.todo = call[t].todo, !.surplus = call[t].surplus]
  BY <1>1 DEF Call
<1>4. \A at, todo : [call[t] EXCEPT !.at = at, !.todo = todo] =
        [call[t] EXCEPT !.at = at, !.todo = todo, !.surplus = call[t].surplus]
  BY <1>1 DEF Call
<1>5. \A at : [call EXCEPT ![t].at = at] = [call EXCEPT ![t] = [call[t] EXCEPT !.at = at]]
  BY DEF EngineTypeOK
<1>6. \A at, todo : [call EXCEPT ![t].at = at, ![t].todo = todo] =
                    [call EXCEPT ![t] = [call[t] EXCEPT !.at = at, !.todo = todo]]
  BY DEF EngineTypeOK
<1> QED BY <1>1, <1>2, <1>3, <1>4, <1>5, <1>6

(* A step that goes to another place, with other keys to remove or the same. *)
LEMMA GoesTo ==
  ASSUME EngineIInv, NEW t \in Threads,
         NEW at \in {"size", "entries", "remove", "store", "returned", "threw"},
         NEW todo \in SUBSET Keys,
         \/ call' = [call EXCEPT ![t].at = at, ![t].todo = todo]
         \/ call' = [call EXCEPT ![t].at = at] /\ todo = call[t].todo,
         UNCHANGED inner, timerOn' \in BOOLEAN,
         t = Dao /\ call[t].op = "put" =>
           /\ at = "store" => Cardinality(DOMAIN inner) < MaxCacheSize
           /\ at = "entries" => FALSE
           /\ at = "remove" =>
                /\ Cardinality(DOMAIN inner \ todo) < MaxCacheSize
                /\ \A k \in DOMAIN inner \cap todo, j \in DOMAIN inner \ todo :
                     inner[k].idle >= inner[j].idle,
         t = Dao /\ call[t].op = "reset" =>
           /\ at = "remove" => DOMAIN inner \subseteq todo
           /\ at = "returned" => DOMAIN inner = {}
  PROVE  EngineIInv'
<1> DEFINE surplus == call[t].surplus
<1>1. surplus \in Nat
  BY CallParts DEF EngineIInv
<1>2. call' = [call EXCEPT ![t] =
                 [call[t] EXCEPT !.at = at, !.todo = todo, !.surplus = surplus]]
  BY CallParts DEF EngineIInv
<1> HIDE DEF surplus
<1> QED BY <1>1, <1>2, QuietInv

(* getStats ends with the size. *)
LEMMA ReportSizeInv ==
  ASSUME EngineIInv, NEW t \in Threads, ReportSize(t) PROVE EngineIInv'
<1>1. /\ call[t].op = "getStats" /\ UNCHANGED <<inner, timerOn>>
      /\ call' = [call EXCEPT ![t].at = "returned"] /\ EngineTypeOK
  BY DEF ReportSize, goto, EngineIInv
<1>2. call[t].todo \in SUBSET Keys /\ timerOn \in BOOLEAN
  BY <1>1, CallParts DEF EngineTypeOK
<1> QED BY <1>1, <1>2, GoesTo

(* The surplus of a cache that is full is at least one. *)
LEMMA EnsureCacheSizeInv ==
  ASSUME EngineIInv, NEW t \in Threads, EnsureCacheSize(t) PROVE EngineIInv'
<1> DEFINE n == Cardinality(DOMAIN inner)
           s == n - newCacheSize(n)
<1>1. /\ call[t].op = "put" /\ UNCHANGED <<inner, timerOn>> /\ EngineTypeOK
      /\ timerOn \in BOOLEAN /\ n \in Nat /\ n <= MaxCacheSize
  BY FS_CardinalityType DEF EnsureCacheSize, EngineIInv, EngineTypeOK, SizeBounded
<1>2. CASE MaxCacheSize > n
  <2>1. call' = [call EXCEPT ![t].at = "store"]
    BY <1>2 DEF EnsureCacheSize, goto
  <2>2. call[t].todo \in SUBSET Keys
    BY <1>1, CallParts
  <2> QED BY <1>1, <1>2, <2>1, <2>2, GoesTo
<1>3. CASE ~(MaxCacheSize > n)
  <2>1. call' = [call EXCEPT ![t].at = "entries", ![t].todo = Cleared, ![t].surplus = s]
    BY <1>3 DEF EnsureCacheSize
  <2>2. n \in Nat \ {0}
    BY <1>1, <1>3, SizeAssumption
  <2>3. s \in Nat /\ s # 0
    BY <2>2, FactorReduces
  <2> HIDE DEF s
  <2>4. call' = [call EXCEPT ![t] = [call[t] EXCEPT !.at = "entries", !.todo = Cleared,
                                                    !.surplus = s]]
    BY <1>1, <2>1 DEF EngineTypeOK
  <2> QED BY <1>1, <2>3, <2>4, ClearedKeys, QuietInv
<1> QED BY <1>2, <1>3

(* The victims of the eviction: at least one of a cache that is not empty. *)
LEMMA SortByAccessInv ==
  ASSUME EngineIInv, NEW t \in Threads, SortByAccess(t) PROVE EngineIInv'
<1>1. /\ call[t].op = "put" /\ call[t].at = "entries" /\ UNCHANGED <<inner, timerOn>>
      /\ EngineTypeOK /\ timerOn \in BOOLEAN
  BY DEF SortByAccess, EngineIInv, EngineTypeOK
<1>2. CASE call' = [call EXCEPT ![t].at = "threw"]
  <2>1. call[t].todo \in SUBSET Keys
    BY <1>1, CallParts
  <2> QED BY <1>1, <1>2, <2>1, GoesTo
<1>3. ASSUME NEW V \in Oldest(DOMAIN inner, call[t].surplus),
             call' = [call EXCEPT ![t].at = "remove", ![t].todo = V]
      PROVE  EngineIInv'
  <2> DEFINE n == Cardinality(DOMAIN inner)
  <2>1. /\ V \subseteq DOMAIN inner
        /\ Cardinality(V) = IF call[t].surplus < n THEN call[t].surplus ELSE n
        /\ \A k \in V, j \in DOMAIN inner \ V : inner[k].idle >= inner[j].idle
    BY DEF Oldest
  <2>2. V \in SUBSET Keys
    BY <1>1, <2>1 DEF EngineTypeOK
  <2>3. IsFiniteSet(DOMAIN inner) /\ IsFiniteSet(V) /\ n \in Nat /\ n <= MaxCacheSize
    BY <2>1, FS_Subset, FS_CardinalityType DEF EngineIInv, SizeBounded
  <2>4. t = Dao => Cardinality(DOMAIN inner \ V) < MaxCacheSize
    <3>1. SUFFICES ASSUME t = Dao PROVE Cardinality(DOMAIN inner \ V) < MaxCacheSize
      OBVIOUS
    <3>2. call[t].surplus \in Nat /\ call[t].surplus # 0
      BY <1>1, <3>1, CallParts DEF EngineIInv, PutSound
    <3>3. CASE DOMAIN inner = {}
      BY <3>3, FS_EmptySet, SizeAssumption
    <3>4. CASE DOMAIN inner # {}
      <4>1. n # 0
        BY <2>3, <3>4, FS_EmptySet
      <4>2. V # {}
        BY <2>1, <2>3, <3>2, <4>1, FS_EmptySet
      <4>3. DOMAIN inner \ V # DOMAIN inner
        BY <2>1, <4>2
      <4>4. /\ Cardinality(DOMAIN inner \ V) <= n /\ Cardinality(DOMAIN inner \ V) # n
            /\ Cardinality(DOMAIN inner \ V) \in Nat
        BY <2>3, <4>3, FS_Subset, FS_CardinalityType
      <4> QED BY <2>3, <4>4, SizeAssumption
    <3> QED BY <3>3, <3>4
  <2> QED BY <1>1, <1>3, <2>1, <2>2, <2>4, GoesTo
<1> QED BY <1>1, <1>2, <1>3 DEF SortByAccess, goto

(* A timer thread has filtered its snapshot by the time of the elements. *)
LEMMA FilterExpiredInv ==
  ASSUME EngineIInv, NEW t \in Threads, FilterExpired(t) PROVE EngineIInv'
<1> DEFINE V == {k \in DOMAIN inner : inner[k].cleared \/ Expired(k, call[t].op)}
<1>1. /\ call[t].op \in Evictions /\ UNCHANGED <<inner, timerOn>>
      /\ EngineTypeOK /\ timerOn \in BOOLEAN
      /\ call' = [call EXCEPT ![t].at = "remove", ![t].todo = V]
  BY DEF FilterExpired, EngineIInv, EngineTypeOK
<1>2. V \in SUBSET Keys
  BY <1>1 DEF EngineTypeOK
<1> HIDE DEF V
<1>3. call[t].op # "put" /\ call[t].op # "reset"
  BY <1>1 DEF Evictions
<1> QED BY <1>1, <1>2, <1>3, GoesTo

(* reset has taken every key there is; from here on only removals happen. *)
LEMMA AllKeysInv ==
  ASSUME EngineIInv, NEW t \in Threads, AllKeys(t) PROVE EngineIInv'
<1>1. /\ call[t].op = "reset" /\ UNCHANGED <<inner, timerOn>>
      /\ EngineTypeOK /\ timerOn \in BOOLEAN
      /\ call' = [call EXCEPT ![t].at = "remove", ![t].todo = DOMAIN inner]
  BY DEF AllKeys, EngineIInv, EngineTypeOK
<1>2. DOMAIN inner \in SUBSET Keys
  BY <1>1 DEF EngineTypeOK
<1> QED BY <1>1, <1>2, GoesTo

(* The pass of a timer thread ends. *)
LEMMA EvictedInv ==
  ASSUME EngineIInv, NEW t \in Threads, Evicted(t) PROVE EngineIInv'
<1>1. /\ call[t].op \in Evictions /\ UNCHANGED <<inner, timerOn>>
      /\ EngineTypeOK /\ timerOn \in BOOLEAN
      /\ call' = [call EXCEPT ![t].at = "returned"]
  BY DEF Evicted, EngineIInv, EngineTypeOK, goto
<1>2. call[t].op # "put" /\ call[t].op # "reset"
  BY <1>1 DEF Evictions
<1>3. call[t].todo \in SUBSET Keys
  BY <1>1, CallParts
<1> QED BY <1>1, <1>2, <1>3, GoesTo

(* A reset that has nothing left to remove has emptied the map. *)
LEMMA RestartInv ==
  ASSUME EngineIInv, NEW t \in Threads, Restart(t) PROVE EngineIInv'
<1>1. /\ call[t].op = "reset" /\ call[t].at = "remove" /\ call[t].todo = {}
      /\ inner' = inner /\ timerOn' = TRUE /\ EngineTypeOK
      /\ call' = [call EXCEPT ![t].at = "returned"]
  BY DEF Restart, EngineIInv, goto
<1>2. t = Dao => DOMAIN inner = {}
  BY <1>1 DEF EngineIInv, ResetSound
<1>3. call[t].todo \in SUBSET Keys
  BY <1>1, CallParts
<1> QED BY <1>1, <1>2, <1>3, GoesTo

(* Only a put adds an element, to a map that has room for it. *)
LEMMA StoreInv ==
  ASSUME EngineIInv, NEW t \in Threads, Store(t) PROVE EngineIInv'
<1>1. /\ call[t].op = "put" /\ timerOn' = timerOn /\ timerOn \in BOOLEAN
      /\ EngineTypeOK
      /\ call[t].at = "store" \/ (call[t].at = "remove" /\ call[t].todo = {})
      /\ inner' = with(inner, call[t].key, elementOf(call[t].value))
      /\ call' = [call EXCEPT ![t].at = "returned"]
  BY DEF Store, EngineIInv, EngineTypeOK, goto
<1>2. t = Dao
  BY <1>1 DEF EngineIInv, OneWriter
<1>3. /\ call[t].key \in Keys /\ call[t].value \in Values
      /\ Cardinality(DOMAIN inner) < MaxCacheSize
  <2>1. DOMAIN inner \ {} = DOMAIN inner
    OBVIOUS
  <2> QED BY <1>1, <1>2, <2>1 DEF EngineIInv, PutSound
<1>4. elementOf(call[t].value) \in Element
  BY <1>3, TimeAssumption DEF elementOf, Element, AgeCap
<1>5. /\ DOMAIN inner' = DOMAIN inner \cup {call[t].key}
      /\ \A k \in DOMAIN inner' : inner'[k] \in Element
  BY <1>1, <1>4 DEF with, EngineTypeOK
<1>6. IsFiniteSet(DOMAIN inner') /\ SizeBounded'
  <2>1. IsFiniteSet(DOMAIN inner) /\ Cardinality(DOMAIN inner) \in Nat
    BY FS_CardinalityType DEF EngineIInv
  <2>2. /\ IsFiniteSet(DOMAIN inner')
        /\ \/ Cardinality(DOMAIN inner') = Cardinality(DOMAIN inner)
           \/ Cardinality(DOMAIN inner') = Cardinality(DOMAIN inner) + 1
    BY <1>5, <2>1, FS_AddElement
  <2> QED BY <1>3, <2>1, <2>2, SizeAssumption DEF SizeBounded
<1> DEFINE d == [call[t] EXCEPT !.at = "returned"]
<1>7. d \in Call /\ d.op = "put" /\ d.at = "returned" /\ d.key = call[t].key
      /\ d.value = call[t].value
  BY <1>1, CallParts DEF Call
<1>8. call' = [call EXCEPT ![t] = d]
  BY <1>1 DEF EngineTypeOK
<1> HIDE DEF d
<1>9. /\ call' \in [Threads -> Call] /\ call'[t] = d
      /\ \A u \in Threads \ {t} : call'[u] = call[u]
  BY <1>1, <1>7, <1>8, Moves
<1>10. EngineTypeOK'
  BY <1>1, <1>3, <1>5, <1>9 DEF EngineTypeOK
<1>11. OneWriter'
  BY <1>2, <1>9 DEF EngineIInv, OneWriter
<1>12. PutSound' /\ ResetSound'
  BY <1>2, <1>3, <1>7, <1>9 DEF PutSound, ResetSound
<1> QED BY <1>6, <1>10, <1>11, <1>12 DEF EngineIInv

(* The collector clears a reference: its element keeps its times, and counts *)
(* until it is removed.                                                      *)
LEMMA GcClearInv ==
  ASSUME EngineIInv, NEW k \in Keys, GcClear(k) PROVE EngineIInv'
<1>1. /\ UNCHANGED <<call, timerOn>> /\ timerOn \in BOOLEAN /\ k \in DOMAIN inner
      /\ inner' = [inner EXCEPT ![k].cleared = TRUE]
  BY DEF GcClear, Live, EngineIInv, EngineTypeOK
<1>2. inner[k] \in Element
  BY <1>1 DEF EngineIInv, EngineTypeOK
<1> DEFINE e == [inner[k] EXCEPT !.cleared = TRUE]
<1>3. e \in Element /\ e.idle = inner[k].idle
  BY <1>2 DEF Element
<1>4. DOMAIN inner' = DOMAIN inner
      /\ \A j \in DOMAIN inner : inner'[j] = IF j = k THEN e ELSE inner[j]
  BY <1>1
<1> HIDE DEF e
<1>5. \A j \in DOMAIN inner' : inner'[j] \in Element /\ inner'[j].idle = inner[j].idle
  BY <1>3, <1>4 DEF EngineIInv, EngineTypeOK
<1> QED BY <1>1, <1>4, <1>5, NoCallMoves

(* Time passes for all elements alike: the order of their idle times, which *)
(* the victims of an eviction were chosen by, is kept.                      *)
LEMMA TickInv ==
  ASSUME EngineIInv, Tick PROVE EngineIInv'
<1>1. /\ UNCHANGED <<call, timerOn>> /\ timerOn \in BOOLEAN
      /\ DOMAIN inner' = DOMAIN inner
      /\ \A k \in DOMAIN inner :
           inner'[k] = [inner[k] EXCEPT !.age = older(@), !.idle = older(@)]
  BY DEF Tick, EngineIInv, EngineTypeOK
<1>2. AgeCap \in Nat
  BY TimeAssumption DEF AgeCap
<1>3. /\ \A n \in 0..AgeCap : older(n) \in 0..AgeCap
      /\ \A m, n \in 0..AgeCap : m >= n => older(m) >= older(n)
  BY <1>2 DEF older
<1>4. \A k \in DOMAIN inner : inner[k] \in Element
  BY DEF EngineIInv, EngineTypeOK
<1>5. \A k \in DOMAIN inner : inner[k].idle \in 0..AgeCap /\ inner[k].age \in 0..AgeCap
  BY <1>4 DEF Element
<1>6. \A k \in DOMAIN inner : inner'[k].idle = older(inner[k].idle)
  BY <1>1, <1>4 DEF Element
<1>7. ASSUME NEW k \in DOMAIN inner PROVE inner'[k] \in Element
  <2> DEFINE e == inner[k]
             a == older(e.age)
             i == older(e.idle)
  <2>1. a \in 0..AgeCap /\ i \in 0..AgeCap /\ e \in Element
    BY <1>3, <1>4, <1>5
  <2>2. inner'[k] = [e EXCEPT !.age = a, !.idle = i]
    BY <1>1, <2>1 DEF Element
  <2> HIDE DEF e, a, i
  <2> QED BY <2>1, <2>2 DEF Element
<1>8. \A k, j \in DOMAIN inner' :
        inner[k].idle >= inner[j].idle => inner'[k].idle >= inner'[j].idle
  <2>1. ASSUME NEW k \in DOMAIN inner, NEW j \in DOMAIN inner,
               inner[k].idle >= inner[j].idle
        PROVE  inner'[k].idle >= inner'[j].idle
    <3> DEFINE m == inner[k].idle
               n == inner[j].idle
    <3>1. m \in 0..AgeCap /\ n \in 0..AgeCap /\ m >= n
      BY <1>5, <2>1
    <3> HIDE DEF m, n
    <3>2. older(m) >= older(n)
      BY <1>3, <3>1
    <3> QED BY <1>6, <3>2 DEF m, n
  <2> QED BY <1>1, <2>1
<1> QED BY <1>1, <1>7, <1>8, NoCallMoves

(* What happens without the caller keeps the invariant. *)
LEMMA BackgroundInv == EngineIInv /\ Background => EngineIInv'
<1> SUFFICES ASSUME EngineIInv, Background PROVE EngineIInv'
  OBVIOUS
<1>0. EngineTypeOK /\ timerOn \in BOOLEAN /\ Cleared \in SUBSET Keys
  BY ClearedKeys DEF EngineIInv, EngineTypeOK
<1>1. ASSUME NEW op \in Evictions, RunTask(op) PROVE EngineIInv'
  BY <1>0, <1>1, Thread, EnterInv DEF RunTask, Evictions, Ops
<1>2. ASSUME NEW t \in Pollers, GetStats(t) PROVE EngineIInv'
  BY <1>0, <1>2, Thread, EnterInv DEF GetStats, Ops
<1>3. ASSUME NEW t \in Threads, Inside(t) PROVE EngineIInv'
  BY <1>3, RemoveInv, ReportSizeInv, EnsureCacheSizeInv, SortByAccessInv, FilterExpiredInv,
     AllKeysInv, StoreInv, EvictedInv, RestartInv DEF Inside
<1>4. ASSUME NEW t \in Pollers \cup {Timer}, Return(t) PROVE EngineIInv'
  BY <1>4, Thread, ReturnInv
<1> QED BY <1>1, <1>2, <1>3, <1>4, GcClearInv, TickInv DEF Background

(* get makes the element the most recently used one, or finds none. *)
LEMMA GetInv ==
  ASSUME EngineIInv, NEW k \in Keys, Get(Dao, k) PROVE EngineIInv'
<1>1. timerOn' = timerOn /\ EngineTypeOK /\ timerOn \in BOOLEAN
  BY DEF Get, EngineIInv, EngineTypeOK
<1>2. CASE Live(k)
  <2>1. /\ enter(Dao, "get", "returned", k, inner[k].value, {})
        /\ inner' = [inner EXCEPT ![k].idle = 0]
        /\ k \in DOMAIN inner /\ inner[k] \in Element
    BY <1>1, <1>2 DEF Get, Live, EngineTypeOK
  <2> DEFINE e == [inner[k] EXCEPT !.idle = 0]
  <2>2. e \in Element /\ inner[k].value \in Values
    BY <2>1, TimeAssumption DEF Element, AgeCap
  <2>3. DOMAIN inner' = DOMAIN inner
        /\ \A j \in DOMAIN inner : inner'[j] = IF j = k THEN e ELSE inner[j]
    BY <2>1
  <2> HIDE DEF e
  <2>4. \A j \in DOMAIN inner' : inner'[j] \in Element
    BY <1>1, <2>2, <2>3 DEF EngineTypeOK
  <2> DEFINE c == [op |-> "get", at |-> "returned", key |-> k, value |-> inner[k].value,
                   todo |-> {}, surplus |-> 0]
  <2>5. c \in Call /\ c.op = "get"
    BY <2>2 DEF Call, Ops
  <2>6. call' = [call EXCEPT ![Dao] = c]
    BY <2>1 DEF enter
  <2> HIDE DEF c
  <2>7. /\ call' \in [Threads -> Call] /\ call'[Dao] = c
        /\ \A u \in Threads \ {Dao} : call'[u] = call[u]
    BY <1>1, <2>5, <2>6, Moves, Thread
  <2>8. EngineTypeOK'
    BY <1>1, <2>3, <2>4, <2>7 DEF EngineTypeOK
  <2>9. OneWriter' /\ PutSound' /\ ResetSound'
    BY <2>5, <2>7 DEF EngineIInv, OneWriter, PutSound, ResetSound
  <2> QED BY <2>3, <2>8, <2>9, Loses DEF EngineIInv
<1>3. CASE ~Live(k)
  <2>1. enter(Dao, "get", "returned", k, NoValue, {}) /\ UNCHANGED inner
    BY <1>3 DEF Get
  <2> QED BY <1>1, <2>1, EnterInv, Thread DEF Ops
<1> QED BY <1>2, <1>3

(* delete removes the element or throws. *)
LEMMA DeleteInv ==
  ASSUME EngineIInv, NEW k \in Keys, Delete(Dao, k) PROVE EngineIInv'
<1>1. timerOn' = timerOn /\ EngineTypeOK /\ timerOn \in BOOLEAN
  BY DEF Delete, EngineIInv, EngineTypeOK
<1>2. CASE k \in DOMAIN inner
  <2>1. /\ enter(Dao, "delete", "returned", k, NoValue, {})
        /\ inner' = without(inner, k)
    BY <1>2 DEF Delete
  <2>2. /\ DOMAIN inner' = DOMAIN inner \ {k}
        /\ \A j \in DOMAIN inner' : inner'[j] = inner[j] /\ inner'[j] \in Element
    BY <1>1, <2>1, Without
  <2> DEFINE c == [op |-> "delete", at |-> "returned", key |-> k, value |-> NoValue,
                   todo |-> {}, surplus |-> 0]
  <2>3. c \in Call /\ c.op = "delete"
    BY DEF Call, Ops
  <2>4. call' = [call EXCEPT ![Dao] = c]
    BY <2>1 DEF enter
  <2> HIDE DEF c
  <2>5. PutSound' /\ ResetSound'
    BY <1>1, <2>3, <2>4, Moves, Thread DEF PutSound, ResetSound
  <2> QED BY <1>1, <2>2, <2>3, <2>4, <2>5, StepKeeps, Thread
<1>3. CASE k \notin DOMAIN inner
  BY <1>1, <1>3, EnterInv, Thread DEF Delete, Ops
<1> QED BY <1>2, <1>3

(* Every call of the cache keeps the invariant. *)
LEMMA CallEngineInv == EngineIInv /\ CallEngine(Dao) => EngineIInv'
<1> SUFFICES ASSUME EngineIInv, CallEngine(Dao) PROVE EngineIInv'
  OBVIOUS
<1>0. EngineTypeOK /\ timerOn \in BOOLEAN /\ Cleared \in SUBSET Keys
  BY ClearedKeys DEF EngineIInv, EngineTypeOK
<1>1. ASSUME NEW k \in Keys, NEW v \in Values, Put(Dao, k, v) PROVE EngineIInv'
  BY <1>0, <1>1, Thread, EnterInv DEF Put, Ops
<1>2. CASE Reset(Dao)
  BY <1>0, <1>2, Thread, EnterInv DEF Reset, Ops
<1>3. CASE Dispose(Dao)
  BY <1>0, <1>3, NoCallMoves DEF Dispose, EngineTypeOK
<1> QED BY <1>1, <1>2, <1>3, GetInv, DeleteInv, ReturnInv, Thread DEF CallEngine

(* Every step of the engine, or a stutter, keeps the invariant. *)
LEMMA EngineNextInv == EngineIInv /\ [EngineNext]_engineVars => EngineIInv'
<1>1. EngineIInv /\ UNCHANGED engineVars => EngineIInv'
  BY DEF engineVars, EngineIInv, EngineTypeOK, SizeBounded, OneWriter, PutSound, ResetSound
<1>2. EngineIInv /\ EngineNext => EngineIInv'
  BY BackgroundInv, CallEngineInv, DaoAssumption DEF EngineNext
<1> QED BY <1>1, <1>2

(* The invariant of the engine holds in every state it reaches. *)
THEOREM EngineInvariant == EngineSpec => []EngineIInv
BY EngineInitInv, EngineNextInv, PTL DEF EngineSpec

(* CacheEngineImpl: elements with values, never more of them than the size of *)
(* the cache, and none of them when reset returns, whatever the timer, the    *)
(* collector and the threads that ask for statistics do in between.           *)
THEOREM EngineStaysInOrder == EngineSpec => []EngineInOrder
<1>1. EngineIInv => EngineInOrder
  BY DaoAssumption DEF EngineIInv, EngineInOrder, ResetSound, ResetEmpties
<1> QED BY <1>1, EngineInvariant, PTL

(* CacheEngineImpl.evict by access: an element that a put removes has been *)
(* idle at least as long as each of the elements that it leaves.           *)
THEOREM EvictsOldest == EngineSpec => LeastRecentlyUsedGo
<1>1. EngineIInv =>
        \A t \in Callers : call[t].op = "put" /\ call[t].at = "remove" =>
          \A k \in DOMAIN inner \ DOMAIN inner', j \in DOMAIN inner \ call[t].todo :
            k \in call[t].todo \ call'[t].todo => inner[k].idle >= inner[j].idle
  BY DaoAssumption DEF EngineIInv, PutSound
<1> QED BY <1>1, EngineInvariant, PTL DEF LeastRecentlyUsedGo, EngineSpec

-----------------------------------------------------------------------------
(* CachedDao. *)

(* The types of the DAO variables, without those of the engine. *)
DaoTypeOK ==
  /\ db \in [Keys -> Values \cup {NoValue}]
  /\ dao \in [op : DaoOps, at : DaoSteps, key : Keys \cup {NoKey},
              value : Values \cup {NoValue}, rows : SUBSET Keys]
  /\ held \in [key : Keys \cup {NoKey}, value : Values \cup {NoValue},
               shared : BOOLEAN]
  /\ dirty \subseteq Keys

(* The DAO operation that reads, saves or deletes has a key, and what it is    *)
(* about to put is the row that was read or written.                          *)
OperandsSound ==
  /\ dao.op \in {"read", "save", "delete"} => dao.key \in Keys
  /\ dao.at \in {"cacheGet", "dbWrite", "cacheDelete", "dbDelete", "putting"} => dao.key \in Keys
  /\ dao.at \in {"cacheGet", "cacheDelete", "dbWrite", "dbDelete"} =>
       dao.op \in {"read", "save", "delete"}
  /\ dao.at = "dbWrite" => dao.value \in Values
  /\ dao.op = "readAll" /\ dao.at = "dbRead" => dao.key = NoKey
  /\ dao.at \in {"cachePut", "putting"} /\ dao.key # NoKey =>
       dao.value = db[dao.key] /\ dao.value \in Values
  /\ \A k \in dao.rows : db[k] # NoValue

(* The engine call of the thread is the one its DAO operation is in. *)
CallsAgree ==
  /\ call[Dao].at = "idle" => call[Dao] = NoCall
  /\ call[Dao].op = "none" => call[Dao].at = "idle"
  /\ call[Dao].op \in {"none", "get", "delete", "put"}
  /\ call[Dao].op = "get" => dao.at = "cacheGet"
  /\ call[Dao].op = "delete" => dao.at = "cacheDelete"
  /\ call[Dao].op = "put" <=> dao.at = "putting"
  /\ call[Dao].op = "put" => call[Dao].key = dao.key /\ call[Dao].value = dao.value
  /\ call[Dao].op \in {"get", "delete"} => call[Dao].at \in {"returned", "threw"}

(* What the cache says of a key that is not dirty is what the row says.  An     *)
(* element that was put is the row, and one that was deleted is gone, also     *)
(* before the operation has ended.                                            *)
RowsAgree ==
  /\ \A k \in Keys \ dirty : Live(k) => inner[k].value = db[k]
  /\ dao.at = "putting" /\ call[Dao].at = "returned" /\ Live(dao.key) =>
       inner[dao.key].value = db[dao.key]
  /\ dao.at = "cacheDelete" /\ call[Dao].at = "returned" => dao.key \notin DOMAIN inner
  /\ dao.at = "dbDelete" => dao.key \notin DOMAIN inner

(* The inductive invariant of CachedDao. That an element agrees with its row *)
(* is not inductive by itself: it needs that an element on its way into the  *)
(* cache is its row (OperandsSound, CallsAgree), and that a deleted one is   *)
(* gone before its row goes (RowsAgree).                                     *)
IInv ==
  /\ EngineIInv
  /\ DaoTypeOK
  /\ OperandsSound
  /\ CallsAgree
  /\ RowsAgree

(* What the engine does to the elements while the DAO waits. *)
OnlyLost ==
  /\ DOMAIN inner' \subseteq DOMAIN inner
  /\ \A k \in DOMAIN inner' :
       inner'[k].value = inner[k].value /\ (inner[k].cleared => inner'[k].cleared)

(* The put of the DAO is still the same one. *)
SameCall ==
  /\ call[Dao].op = "put" /\ call'[Dao].op = "put"
  /\ call'[Dao].key = call[Dao].key /\ call'[Dao].value = call[Dao].value

(* The element of the put has entered the cache, and nothing else changed. *)
Stored ==
  /\ DOMAIN inner' = DOMAIN inner \cup {call[Dao].key}
  /\ inner'[call[Dao].key].value = call[Dao].value
  /\ \A k \in DOMAIN inner \ {call[Dao].key} : inner'[k] = inner[k]

(* All the engine does while the DAO waits, or while it does nothing. *)
EngineWorks ==
  \/ OnlyLost /\ call'[Dao] = call[Dao]
  \/ OnlyLost /\ SameCall /\ call'[Dao].at \notin {"idle", "returned"}
  \/ Stored /\ SameCall /\ call'[Dao].at = "returned"

(* A step of another thread does not touch the call of the DAO. *)
LEMMA OtherThreadsMove ==
  ASSUME EngineTypeOK, NEW t \in Threads \ {Dao}, NEW c, call' = [call EXCEPT ![t] = c]
  PROVE  call'[Dao] = call[Dao]
BY Thread DEF EngineTypeOK

(* A removal only loses elements. *)
LEMMA RemoveWorks ==
  ASSUME EngineIInv, CallsAgree, NEW t \in Threads, Remove(t)
  PROVE  EngineWorks
<1>0. EngineTypeOK /\ call[t] \in Call /\ call[t].at \in {"size", "entries", "remove"}
  BY DEF EngineIInv, EngineTypeOK, Remove
<1>1. PICK k \in call[t].todo :
        \/ goto(t, "threw") /\ UNCHANGED inner
        \/ k \in DOMAIN inner /\ inner' = without(inner, k)
           /\ call' = [call EXCEPT ![t].todo = @ \ {k}]
  BY DEF Remove
<1>2. OnlyLost
  <2>1. CASE UNCHANGED inner
    BY <2>1 DEF OnlyLost
  <2>2. CASE inner' = without(inner, k)
    BY <1>0, <2>2, Without DEF OnlyLost
  <2> QED BY <1>1, <2>1, <2>2
<1>3. \E c : call' = [call EXCEPT ![t] = c]
  BY <1>1 DEF goto
<1>4. CASE t # Dao
  BY <1>0, <1>2, <1>3, <1>4, OtherThreadsMove DEF EngineWorks
<1>5. CASE t = Dao
  <2>1. call[Dao].op = "put"
    BY <1>0, <1>5 DEF CallsAgree
  <2>2. /\ call'[Dao].op = "put" /\ call'[Dao].key = call[Dao].key
        /\ call'[Dao].value = call[Dao].value
        /\ call'[Dao].at \in {"threw", call[Dao].at}
    BY <1>0, <1>1, <1>5, <2>1 DEF goto, EngineTypeOK, Call
  <2> QED BY <1>0, <1>2, <1>5, <2>1, <2>2 DEF EngineWorks, SameCall
<1> QED BY <1>4, <1>5

(* A step inside of an engine call loses elements or stores the one of the *)
(* put.                                                                    *)
LEMMA InsideWorks ==
  ASSUME EngineIInv, CallsAgree, NEW t \in Threads, Inside(t)
  PROVE  EngineWorks
<1>0. EngineTypeOK /\ call[t] \in Call
  BY DEF EngineIInv, EngineTypeOK
<1>1. CASE Remove(t)
  BY <1>1, RemoveWorks
<1>2. CASE Store(t)
  <2>1. /\ call[t].op = "put"
        /\ inner' = with(inner, call[t].key, elementOf(call[t].value))
        /\ call' = [call EXCEPT ![t].at = "returned"]
    BY <1>2 DEF Store, goto
  <2>2. t = Dao
    BY <2>1 DEF EngineIInv, OneWriter
  <2>3. Stored
    BY <2>1, <2>2 DEF Stored, with, elementOf
  <2>4. SameCall /\ call'[Dao].at = "returned"
    BY <1>0, <2>1, <2>2 DEF SameCall, EngineTypeOK, Call
  <2> QED BY <2>3, <2>4 DEF EngineWorks
<1>3. CASE ReportSize(t) \/ EnsureCacheSize(t) \/ SortByAccess(t) \/ FilterExpired(t)
           \/ AllKeys(t) \/ Evicted(t) \/ Restart(t)
  <2>1. UNCHANGED inner /\ \E c : call' = [call EXCEPT ![t] = c]
    BY <1>0, <1>3 DEF ReportSize, EnsureCacheSize, SortByAccess, FilterExpired, AllKeys, Evicted,
           Restart, goto, EngineTypeOK
  <2>2. OnlyLost
    BY <2>1 DEF OnlyLost
  <2>3. CASE t # Dao
    BY <1>0, <2>1, <2>2, <2>3, OtherThreadsMove DEF EngineWorks
  <2>4. CASE t = Dao
    <3>1. call[Dao].op = "put" /\ (EnsureCacheSize(t) \/ SortByAccess(t))
      BY <1>3, <2>4 DEF CallsAgree, ReportSize, EnsureCacheSize, SortByAccess,
           FilterExpired, AllKeys, Evicted, Restart, Evictions
    <3>2. SameCall /\ call'[Dao].at \notin {"idle", "returned"}
      BY <1>0, <2>4, <3>1 DEF EnsureCacheSize, SortByAccess, goto, SameCall, EngineTypeOK, Call
    <3> QED BY <2>2, <3>2 DEF EngineWorks
  <2> QED BY <2>3, <2>4
<1> QED BY <1>1, <1>2, <1>3 DEF Inside

(* So does what happens in the background: nothing but the put adds an *)
(* element.                                                            *)
LEMMA BackgroundWorks ==
  ASSUME EngineIInv, CallsAgree, Background
  PROVE  EngineWorks
<1>0. EngineTypeOK
  BY DEF EngineIInv
<1>1. ASSUME NEW t \in Pollers \cup {Timer}, UNCHANGED inner,
             \E c : call' = [call EXCEPT ![t] = c]
      PROVE  EngineWorks
  BY <1>0, <1>1, Thread, OtherThreadsMove DEF EngineWorks, OnlyLost
<1>2. ASSUME NEW op \in Evictions, RunTask(op) PROVE EngineWorks
  BY <1>1, <1>2 DEF RunTask, enter
<1>3. ASSUME NEW t \in Pollers, GetStats(t) PROVE EngineWorks
  BY <1>1, <1>3 DEF GetStats, enter
<1>4. ASSUME NEW t \in Pollers \cup {Timer}, Return(t) PROVE EngineWorks
  BY <1>1, <1>4 DEF Return
<1>5. ASSUME NEW k \in Keys, GcClear(k) PROVE EngineWorks
  <2>1. /\ UNCHANGED call /\ k \in DOMAIN inner /\ inner[k] \in Element
        /\ inner' = [inner EXCEPT ![k].cleared = TRUE]
    BY <1>0, <1>5 DEF GcClear, Live, EngineTypeOK
  <2>2. inner'[k].value = inner[k].value /\ inner'[k].cleared
    BY <2>1 DEF Element
  <2> QED BY <2>1, <2>2 DEF EngineWorks, OnlyLost
<1>6. CASE Tick
  <2>1. /\ UNCHANGED call
        /\ DOMAIN inner' = DOMAIN inner
        /\ \A k \in DOMAIN inner :
             inner'[k] = [inner[k] EXCEPT !.age = older(@), !.idle = older(@)]
    BY <1>6 DEF Tick
  <2>2. \A k \in DOMAIN inner : inner[k] \in Element
    BY <1>0 DEF EngineTypeOK
  <2>3. \A k \in DOMAIN inner : inner'[k].value = inner[k].value
                                /\ inner'[k].cleared = inner[k].cleared
    BY <2>1, <2>2 DEF Element
  <2> QED BY <2>1, <2>3 DEF EngineWorks, OnlyLost
<1> QED BY <1>2, <1>3, <1>4, <1>5, <1>6, InsideWorks DEF Background

(* The DAO's facts survive it. *)
LEMMA GoesOnInv == IInv /\ EngineGoesOn => IInv'
<1> SUFFICES ASSUME IInv, EngineGoesOn PROVE IInv'
  OBVIOUS
<1>1. EngineIInv' /\ EngineWorks
  BY BackgroundInv, BackgroundWorks DEF EngineGoesOn, IInv
<1>2. UNCHANGED <<db, dao, held, dirty>>
  BY DEF EngineGoesOn, daoVars
<1>3. DaoTypeOK' /\ OperandsSound'
  BY <1>2 DEF IInv, DaoTypeOK, OperandsSound
<1>4. CASE OnlyLost /\ call'[Dao] = call[Dao]
  <2>1. CallsAgree'
    BY <1>2, <1>4 DEF IInv, CallsAgree
  <2>2. RowsAgree'
    BY <1>2, <1>4 DEF IInv, RowsAgree, OnlyLost, Live
  <2> QED BY <1>1, <1>3, <2>1, <2>2 DEF IInv
<1>5. CASE OnlyLost /\ SameCall /\ call'[Dao].at \notin {"idle", "returned"}
  <2>1. CallsAgree'
    BY <1>2, <1>5 DEF IInv, CallsAgree, SameCall
  <2>2. RowsAgree'
    BY <1>2, <1>5 DEF IInv, RowsAgree, OnlyLost, Live
  <2> QED BY <1>1, <1>3, <2>1, <2>2 DEF IInv
<1>6. CASE Stored /\ SameCall /\ call'[Dao].at = "returned"
  <2>1. CallsAgree'
    BY <1>2, <1>6 DEF IInv, CallsAgree, SameCall
  <2>2. dao.at = "putting" /\ call[Dao].key = dao.key /\ call[Dao].value = dao.value
    BY <1>6 DEF SameCall, IInv, CallsAgree
  <2>3. dao.value = db[dao.key] /\ dao.key \in Keys
    BY <2>2, NoneAssumption DEF IInv, OperandsSound
  <2>4. RowsAgree'
    BY <1>2, <1>6, <2>2, <2>3 DEF IInv, RowsAgree, Stored, Live
  <2> QED BY <1>1, <1>3, <2>1, <2>4 DEF IInv
<1> QED BY <1>1, <1>4, <1>5, <1>6 DEF EngineWorks

(* The invariant holds in the initial states. *)
LEMMA InitInv == Init => IInv
<1> SUFFICES ASSUME Init PROVE IInv
  OBVIOUS
<1>1. EngineIInv
  BY EngineInitInv DEF Init
<1>2. DaoTypeOK
  BY DEF Init, DaoTypeOK, NoDao, NothingHeld, DaoOps, DaoSteps
<1>3. OperandsSound
  BY DEF Init, OperandsSound, NoDao
<1>4. CallsAgree
  BY Thread DEF Init, EngineInit, CallsAgree, NoCall, NoDao
<1>5. RowsAgree
  BY DEF Init, EngineInit, RowsAgree, NoDao, Live
<1> QED BY <1>1, <1>2, <1>3, <1>4, <1>5 DEF IInv

(* Steps of the DAO alone. *)
LEMMA EngineRests ==
  ASSUME IInv, UNCHANGED engineVars PROVE EngineIInv'
BY EngineNextInv DEF IInv

(* An operation begins. *)
LEMMA BeginInv ==
  ASSUME IInv, NEW op \in DaoOps, NEW at \in DaoSteps, NEW k \in Keys \cup {NoKey},
         NEW v \in Values \cup {NoValue}, begin(op, at, k, v),
         \/ op = "read" /\ at = "cacheGet" /\ k \in Keys
         \/ op = "readAll" /\ at = "dbRead" /\ k = NoKey
         \/ op = "save" /\ at = "dbWrite" /\ k \in Keys /\ v \in Values
         \/ op = "delete" /\ at = "cacheDelete" /\ k \in Keys
  PROVE  IInv'
<1>1. /\ dao' = [op |-> op, at |-> at, key |-> k, value |-> v, rows |-> {}]
      /\ UNCHANGED <<engineVars, db, held, dirty>> /\ dao.at = "idle" /\ call[Dao].at = "idle"
  BY DEF begin, DaoIdle, Idle
<1>2. EngineIInv'
  BY <1>1, EngineRests
<1>3. DaoTypeOK'
  BY <1>1 DEF IInv, DaoTypeOK
<1>4. OperandsSound'
  BY <1>1 DEF OperandsSound
<1>5. call[Dao] = NoCall
  BY <1>1 DEF IInv, CallsAgree
<1>6. CallsAgree'
  BY <1>1, <1>5 DEF CallsAgree, NoCall, engineVars
<1>7. RowsAgree'
  BY <1>1 DEF IInv, RowsAgree, Live, engineVars
<1> QED BY <1>2, <1>3, <1>4, <1>6, <1>7 DEF IInv

(* The thread changes an object that is in the cache: its key is dirty from *)
(* then on.                                                                 *)
LEMMA MutateInv ==
  ASSUME IInv, NEW v \in Values, Mutate(v) PROVE IInv'
<1>1. /\ DaoIdle /\ held.key \in Keys /\ held' = [held EXCEPT !.value = v]
      /\ UNCHANGED <<call, timerOn, db, dao>>
      /\ \/ UNCHANGED <<inner, dirty>>
         \/ /\ Live(held.key) /\ inner' = [inner EXCEPT ![held.key].value = v]
            /\ dirty' = dirty \cup {held.key}
  BY DEF Mutate
<1>2. OperandsSound' /\ CallsAgree'
  BY <1>1 DEF IInv, OperandsSound, CallsAgree
<1>3. EngineTypeOK /\ timerOn' \in BOOLEAN /\ DaoTypeOK
  BY <1>1 DEF IInv, EngineIInv, EngineTypeOK
<1>4. DaoTypeOK'
  BY <1>1, <1>3 DEF DaoTypeOK
<1>5. CASE UNCHANGED <<inner, dirty>>
  <2>1. EngineIInv'
    BY <1>1, <1>5, EngineRests DEF engineVars
  <2>2. RowsAgree'
    BY <1>1, <1>5 DEF IInv, RowsAgree, Live
  <2> QED BY <1>2, <1>4, <2>1, <2>2 DEF IInv
<1>6. CASE /\ Live(held.key) /\ inner' = [inner EXCEPT ![held.key].value = v]
           /\ dirty' = dirty \cup {held.key}
  <2> DEFINE e == [inner[held.key] EXCEPT !.value = v]
  <2>1. held.key \in DOMAIN inner /\ inner[held.key] \in Element
    BY <1>3, <1>6 DEF Live, EngineTypeOK
  <2>2. e \in Element /\ e.idle = inner[held.key].idle
    BY <2>1 DEF Element
  <2>3. DOMAIN inner' = DOMAIN inner
        /\ \A k \in DOMAIN inner : inner'[k] = IF k = held.key THEN e ELSE inner[k]
    BY <1>6, <2>1
  <2> HIDE DEF e
  <2>4. \A k \in DOMAIN inner' : inner'[k] \in Element /\ inner'[k].idle = inner[k].idle
    BY <1>3, <2>2, <2>3 DEF EngineTypeOK
  <2>5. EngineIInv'
    BY <1>1, <1>3, <2>3, <2>4, NoCallMoves DEF IInv
  <2>6. RowsAgree'
    BY <1>1, <1>6, <2>3 DEF IInv, RowsAgree, Live, DaoIdle
  <2> QED BY <1>2, <1>4, <2>5, <2>6 DEF IInv
<1> QED BY <1>1, <1>5, <1>6

(* A step that changes neither the engine nor the rows. *)
LEMMA DaoStepInv ==
  ASSUME IInv, UNCHANGED <<engineVars, db, held, dirty>>, DaoTypeOK', OperandsSound',
         call[Dao].at = "idle",
         dao'.at \notin {"putting", "dbDelete"}
  PROVE  IInv'
<1>1. EngineIInv'
  BY EngineRests
<1>2. call[Dao] = NoCall
  BY DEF IInv, CallsAgree
<1>3. CallsAgree'
  BY <1>2 DEF CallsAgree, NoCall, engineVars
<1>4. RowsAgree'
  BY <1>2 DEF IInv, RowsAgree, Live, engineVars, NoCall
<1> QED BY <1>1, <1>3, <1>4 DEF IInv

(* The thread is out of the engine wherever the DAO is not in one of its calls. *)
LEMMA OutOfEngine ==
  ASSUME IInv, dao.at \notin {"cacheGet", "cacheDelete", "putting"}
  PROVE  call[Dao] = NoCall /\ call[Dao].at = "idle"
BY DEF IInv, CallsAgree, NoCall

(* The call is over. *)
LEMMA Leaves ==
  ASSUME IInv, Return(Dao)
  PROVE  /\ EngineIInv' /\ call'[Dao] = NoCall /\ UNCHANGED <<inner, timerOn>>
         /\ NoCall.op = "none" /\ NoCall.at = "idle"
<1>1. EngineIInv'
  BY ReturnInv, Thread DEF IInv
<1>2. call'[Dao] = NoCall
  BY Thread DEF Return, IInv, EngineIInv, EngineTypeOK
<1> QED BY <1>1, <1>2 DEF Return, NoCall

(* Each step of read, readAll, saveOrUpdate and delete keeps the invariant. *)
LEMMA DaoProgressInv == IInv /\ DaoProgress => IInv'
<1> SUFFICES ASSUME IInv, DaoProgress PROVE IInv'
  OBVIOUS
<1>0. /\ EngineIInv /\ EngineTypeOK /\ DaoTypeOK /\ OperandsSound /\ CallsAgree /\ RowsAgree
  BY DEF IInv, EngineIInv
<1>a. /\ NoDao.at = "idle" /\ NoDao.op = "none" /\ NoDao.rows = {} /\ NoDao.key = NoKey
      /\ NoDao \in [op : DaoOps, at : DaoSteps, key : Keys \cup {NoKey},
                    value : Values \cup {NoValue}, rows : SUBSET Keys]
  BY DEF NoDao, DaoOps, DaoSteps
<1>b. /\ dao \in [op : DaoOps, at : DaoSteps, key : Keys \cup {NoKey},
                    value : Values \cup {NoValue}, rows : SUBSET Keys]
      /\ db \in [Keys -> Values \cup {NoValue}]
      /\ dao.op \in DaoOps /\ dao.key \in Keys \cup {NoKey}
      /\ dao.value \in Values \cup {NoValue} /\ dao.rows \subseteq Keys
  BY <1>0 DEF DaoTypeOK
<1>1. CASE GetFromCache
  <2>1. /\ dao.at = "cacheGet" /\ Get(Dao, dao.key) /\ UNCHANGED <<db, dao, held, dirty>>
        /\ dao.key \in Keys
    BY <1>0, <1>1 DEF GetFromCache, daoVars, OperandsSound
  <2>2. EngineIInv'
    BY <1>0, <2>1, GetInv
  <2>3. DaoTypeOK' /\ OperandsSound'
    BY <1>0, <2>1 DEF DaoTypeOK, OperandsSound
  <2>4. call'[Dao].op = "get" /\ call'[Dao].at = "returned"
    BY <1>0, <2>1, Thread DEF Get, enter, EngineTypeOK
  <2>5. CallsAgree'
    BY <2>1, <2>4 DEF CallsAgree
  <2>6. /\ DOMAIN inner' = DOMAIN inner
        /\ \A k \in DOMAIN inner : /\ inner'[k].value = inner[k].value
                                   /\ inner'[k].cleared = inner[k].cleared
    <3>1. CASE UNCHANGED inner
      BY <3>1
    <3>2. CASE Live(dao.key) /\ inner' = [inner EXCEPT ![dao.key].idle = 0]
      <4>1. inner[dao.key] \in Element /\ dao.key \in DOMAIN inner
        BY <1>0, <3>2 DEF Live, EngineTypeOK
      <4>2. /\ inner'[dao.key].value = inner[dao.key].value
            /\ inner'[dao.key].cleared = inner[dao.key].cleared
        BY <3>2, <4>1 DEF Element
      <4> QED BY <3>2, <4>1, <4>2
    <3> QED BY <2>1, <3>1, <3>2 DEF Get
  <2>7. RowsAgree'
    BY <1>0, <2>1, <2>6 DEF RowsAgree, Live
  <2> QED BY <2>2, <2>3, <2>5, <2>7 DEF IInv
<1>2. CASE Hit
  <2>1. /\ dao.at = "cacheGet" /\ Return(Dao) /\ UNCHANGED <<db, dirty>> /\ dao' = NoDao
        /\ held' = [key |-> dao.key, value |-> call[Dao].value, shared |-> TRUE]
        /\ call[Dao].value \in Values \cup {NoValue}
    BY <1>0, <1>2, Thread DEF Hit, finish, EngineTypeOK, Call
  <2>2. DaoTypeOK' /\ OperandsSound'
    BY <1>0, <1>a, <1>b, <2>1 DEF DaoTypeOK, OperandsSound
  <2>3. CallsAgree' /\ RowsAgree'
    BY <1>0, <1>a, <2>1, Leaves DEF CallsAgree, RowsAgree, Live
  <2> QED BY <2>1, <2>2, <2>3, Leaves DEF IInv
<1>3. CASE Miss
  <2>1. /\ dao.at = "cacheGet" /\ Return(Dao) /\ UNCHANGED <<db, held, dirty>>
        /\ dao' = [dao EXCEPT !.at = "dbRead"]
    BY <1>3 DEF Miss
  <2>2. dao'.at = "dbRead" /\ dao'.op = dao.op /\ dao'.key = dao.key /\ dao'.rows = dao.rows
        /\ DaoTypeOK'
    BY <1>0, <1>b, <2>1 DEF DaoTypeOK, DaoSteps
  <2>3. OperandsSound'
    BY <1>0, <2>1, <2>2 DEF OperandsSound
  <2>4. CallsAgree' /\ RowsAgree'
    BY <1>0, <2>1, <2>2, Leaves DEF CallsAgree, RowsAgree, Live
  <2> QED BY <2>1, <2>2, <2>3, <2>4, Leaves DEF IInv
<1>4. CASE ReadRow
  <2>1. /\ dao.op = "read" /\ dao.at = "dbRead" /\ UNCHANGED <<engineVars, db, held, dirty>>
        /\ dao.key \in Keys
        /\ \/ db[dao.key] # NoValue
              /\ dao' = [dao EXCEPT !.at = "cachePut", !.value = db[dao.key]]
           \/ dao' = NoDao
    BY <1>0, <1>4 DEF ReadRow, finish, OperandsSound
  <2>2. CASE db[dao.key] # NoValue
              /\ dao' = [dao EXCEPT !.at = "cachePut", !.value = db[dao.key]]
    <3>1. /\ dao'.at = "cachePut" /\ dao'.op = dao.op /\ dao'.key = dao.key
          /\ dao'.rows = dao.rows /\ dao'.value = db[dao.key] /\ DaoTypeOK'
          /\ db[dao.key] \in Values
      BY <1>0, <1>b, <2>1, <2>2 DEF DaoTypeOK, DaoSteps
    <3>2. OperandsSound'
      BY <1>0, <2>1, <3>1 DEF OperandsSound
    <3> QED BY <2>1, <3>1, <3>2, DaoStepInv, OutOfEngine
  <2>3. CASE dao' = NoDao
    <3>1. DaoTypeOK' /\ OperandsSound'
      BY <1>0, <1>a, <2>1, <2>3 DEF DaoTypeOK, OperandsSound
    <3> QED BY <1>a, <2>1, <2>3, <3>1, DaoStepInv, OutOfEngine
  <2> QED BY <2>1, <2>2, <2>3
<1>5. CASE ReadRows
  <2>1. /\ dao.op = "readAll" /\ dao.at = "dbRead" /\ UNCHANGED <<engineVars, db, held, dirty>>
        /\ dao' = [dao EXCEPT !.at = "cachePut", !.rows = {k \in Keys : db[k] # NoValue}]
    BY <1>5 DEF ReadRows
  <2>2. /\ dao'.at = "cachePut" /\ dao'.op = dao.op /\ dao'.key = dao.key
        /\ dao'.value = dao.value
        /\ dao'.rows = {k \in Keys : db[k] # NoValue} /\ DaoTypeOK'
    BY <1>0, <1>b, <2>1 DEF DaoTypeOK, DaoSteps
  <2>3. dao.key = NoKey
    BY <1>0, <2>1 DEF OperandsSound
  <2>4. OperandsSound'
    BY <1>0, <2>1, <2>2, <2>3 DEF OperandsSound
  <2> QED BY <2>1, <2>2, <2>4, DaoStepInv, OutOfEngine
<1>6. CASE NextRow
  <2>1. /\ dao.op = "readAll" /\ dao.at = "cachePut" /\ UNCHANGED <<engineVars, db, held, dirty>>
        /\ \/ dao' = NoDao
           \/ \E k \in dao.rows :
                dao' = [dao EXCEPT !.key = k, !.value = db[k], !.rows = @ \ {k}]
    BY <1>6 DEF NextRow, finish
  <2>2. CASE dao' = NoDao
    <3>1. DaoTypeOK' /\ OperandsSound'
      BY <1>0, <1>a, <2>1, <2>2 DEF DaoTypeOK, OperandsSound
    <3> QED BY <1>a, <2>1, <2>2, <3>1, DaoStepInv, OutOfEngine
  <2>3. ASSUME NEW k \in dao.rows,
               dao' = [dao EXCEPT !.key = k, !.value = db[k], !.rows = @ \ {k}]
        PROVE  IInv'
    <3>1. /\ dao'.at = "cachePut" /\ dao'.op = dao.op /\ dao'.key = k
          /\ dao'.rows = dao.rows \ {k} /\ dao'.value = db[k] /\ DaoTypeOK'
          /\ k \in Keys /\ db[k] \in Values
      BY <1>0, <1>b, <2>1, <2>3 DEF DaoTypeOK, OperandsSound
    <3>2. OperandsSound'
      BY <1>0, <2>1, <3>1 DEF OperandsSound
    <3> QED BY <2>1, <3>1, <3>2, DaoStepInv, OutOfEngine
  <2> QED BY <2>1, <2>2, <2>3
<1>7. CASE WriteRow
  <2>1. /\ dao.at = "dbWrite" /\ UNCHANGED <<engineVars, held>>
        /\ db' = [db EXCEPT ![dao.key] = dao.value]
        /\ dao' = [dao EXCEPT !.at = "cachePut"]
        /\ dirty' = dirty \cup {dao.key}
        /\ dao.key \in Keys /\ dao.value \in Values
    BY <1>0, <1>7 DEF WriteRow, OperandsSound
  <2>2. /\ dao'.at = "cachePut" /\ dao'.op = dao.op /\ dao'.key = dao.key
        /\ dao'.rows = dao.rows /\ dao'.value = dao.value /\ DaoTypeOK'
    BY <1>0, <1>b, <2>1 DEF DaoTypeOK, DaoSteps
  <2>3. /\ \A k \in Keys \ {dao.key} : db'[k] = db[k]
        /\ db'[dao.key] = dao.value
    BY <1>b, <2>1
  <2>4. OperandsSound'
    BY <1>0, <1>b, <2>1, <2>2, <2>3, NoneAssumption DEF OperandsSound
  <2>5. call[Dao] = NoCall /\ call[Dao].at = "idle" /\ EngineIInv'
    BY <2>1, OutOfEngine, EngineRests
  <2>6. CallsAgree'
    BY <2>1, <2>2, <2>5 DEF CallsAgree, NoCall, engineVars
  <2>7. RowsAgree'
    BY <1>0, <2>1, <2>2, <2>3 DEF RowsAgree, Live, engineVars
  <2> QED BY <2>2, <2>4, <2>5, <2>6, <2>7 DEF IInv
<1>8. CASE WriteFails
  <2>1. dao.at = "dbWrite" /\ dao' = NoDao /\ UNCHANGED <<engineVars, db, held, dirty>>
    BY <1>8 DEF WriteFails, finish
  <2>2. DaoTypeOK' /\ OperandsSound'
    BY <1>0, <1>a, <2>1 DEF DaoTypeOK, OperandsSound
  <2> QED BY <1>a, <2>1, <2>2, DaoStepInv, OutOfEngine
<1>9. CASE DeleteFromCache
  <2>1. /\ dao.at = "cacheDelete" /\ Delete(Dao, dao.key) /\ UNCHANGED <<db, dao, held, dirty>>
        /\ dao.key \in Keys
    BY <1>0, <1>9 DEF DeleteFromCache, daoVars, OperandsSound
  <2>2. EngineIInv'
    BY <1>0, <2>1, DeleteInv
  <2>3. DaoTypeOK' /\ OperandsSound'
    BY <1>0, <2>1 DEF DaoTypeOK, OperandsSound
  <2>4. /\ call'[Dao].op = "delete" /\ call'[Dao].at \in {"returned", "threw"}
        /\ \/ inner' = without(inner, dao.key)
           \/ inner' = inner /\ call'[Dao].at = "threw"
    BY <1>0, <2>1, Thread DEF Delete, enter, EngineTypeOK
  <2>5. CallsAgree'
    BY <2>1, <2>4 DEF CallsAgree
  <2>6. RowsAgree'
    <3>1. CASE inner' = without(inner, dao.key)
      <4>1. /\ DOMAIN inner' = DOMAIN inner \ {dao.key}
            /\ \A j \in DOMAIN inner \ {dao.key} : inner'[j] = inner[j]
        BY <1>0, <3>1, Without
      <4> QED BY <1>0, <2>1, <4>1 DEF RowsAgree, Live
    <3>2. CASE inner' = inner /\ call'[Dao].at = "threw"
      BY <1>0, <2>1, <3>2 DEF RowsAgree, Live
    <3> QED BY <2>4, <3>1, <3>2
  <2> QED BY <2>2, <2>3, <2>5, <2>6 DEF IInv
<1>10. CASE CacheDeleted
  <2>1. /\ dao.at = "cacheDelete" /\ Return(Dao) /\ UNCHANGED <<db, held>>
        /\ \/ /\ call[Dao].at = "returned" /\ dao' = [dao EXCEPT !.at = "dbDelete"]
              /\ dirty' = dirty \ {dao.key}
           \/ dao' = NoDao /\ dirty' = dirty
    BY <1>10 DEF CacheDeleted, finish
  <2>2. CASE /\ call[Dao].at = "returned" /\ dao' = [dao EXCEPT !.at = "dbDelete"]
             /\ dirty' = dirty \ {dao.key}
    <3>1. /\ dao'.at = "dbDelete" /\ dao'.op = dao.op /\ dao'.key = dao.key
          /\ dao'.rows = dao.rows /\ DaoTypeOK'
      BY <1>0, <1>b, <2>1, <2>2 DEF DaoTypeOK, DaoSteps
    <3>2. OperandsSound'
      BY <1>0, <2>1, <3>1 DEF OperandsSound
    <3>3. CallsAgree'
      BY <2>1, <3>1, Leaves DEF CallsAgree
    <3>4. dao.key \notin DOMAIN inner
      BY <1>0, <2>1, <2>2 DEF RowsAgree
    <3>5. RowsAgree'
      BY <1>0, <2>1, <2>2, <3>1, <3>4, Leaves DEF RowsAgree, Live
    <3> QED BY <2>1, <3>1, <3>2, <3>3, <3>5, Leaves DEF IInv
  <2>3. CASE dao' = NoDao /\ dirty' = dirty
    <3>1. DaoTypeOK' /\ OperandsSound'
      BY <1>0, <1>a, <2>1, <2>3 DEF DaoTypeOK, OperandsSound
    <3>2. CallsAgree' /\ RowsAgree'
      BY <1>0, <1>a, <2>1, <2>3, Leaves DEF CallsAgree, RowsAgree, Live
    <3> QED BY <2>1, <3>1, <3>2, Leaves DEF IInv
  <2> QED BY <2>1, <2>2, <2>3
<1>11. CASE DeleteFromDb
  <2>1. /\ dao.at = "dbDelete" /\ dao' = NoDao /\ UNCHANGED <<engineVars, held, dirty>>
        /\ \/ db' = [db EXCEPT ![dao.key] = NoValue]
           \/ UNCHANGED db
        /\ dao.key \in Keys /\ dao.key \notin DOMAIN inner
    BY <1>0, <1>11 DEF DeleteFromDb, finish, OperandsSound, RowsAgree
  <2>2. DaoTypeOK' /\ OperandsSound'
    BY <1>0, <1>a, <1>b, <2>1 DEF DaoTypeOK, OperandsSound
  <2>3. \A k \in Keys \ {dao.key} : db'[k] = db[k]
    BY <1>b, <2>1
  <2>4. call[Dao] = NoCall /\ EngineIInv'
    BY <2>1, OutOfEngine, EngineRests
  <2>5. CallsAgree'
    BY <1>a, <2>1, <2>4 DEF CallsAgree, NoCall, engineVars
  <2>6. RowsAgree'
    BY <1>0, <1>a, <2>1, <2>3 DEF RowsAgree, Live, engineVars
  <2> QED BY <2>2, <2>4, <2>5, <2>6 DEF IInv
<1>12. CASE PutToCache
  <2>1. /\ dao.at = "cachePut" /\ dao.key # NoKey /\ Put(Dao, dao.key, dao.value)
        /\ dao' = [dao EXCEPT !.at = "putting"] /\ UNCHANGED <<db, held, dirty>>
        /\ dao.key \in Keys /\ dao.value \in Values /\ dao.value = db[dao.key]
    BY <1>0, <1>b, <1>12 DEF PutToCache, OperandsSound
  <2>2. /\ dao'.at = "putting" /\ dao'.op = dao.op /\ dao'.key = dao.key
        /\ dao'.rows = dao.rows /\ dao'.value = dao.value /\ DaoTypeOK'
    BY <1>0, <1>b, <2>1 DEF DaoTypeOK, DaoSteps
  <2>3. OperandsSound'
    BY <1>0, <2>1, <2>2 DEF OperandsSound
  <2>4. EngineIInv'
    BY <1>0, <2>1, CallEngineInv DEF CallEngine
  <2>5. /\ call'[Dao].op = "put" /\ call'[Dao].at = "size"
        /\ call'[Dao].key = dao.key /\ call'[Dao].value = dao.value /\ inner' = inner
    BY <1>0, <2>1, Thread DEF Put, enter, EngineTypeOK
  <2>6. CallsAgree' /\ RowsAgree'
    BY <1>0, <2>1, <2>2, <2>5 DEF CallsAgree, RowsAgree, Live
  <2> QED BY <2>2, <2>3, <2>4, <2>6 DEF IInv
<1>13. CASE PutDone
  <2>1. /\ dao.at = "putting" /\ call[Dao].at = "returned" /\ Return(Dao) /\ UNCHANGED db
        /\ dirty' = dirty \ {dao.key}
        /\ \/ /\ dao.op = "readAll"
              /\ dao' = [dao EXCEPT !.at = "cachePut", !.key = NoKey]
              /\ held' \in {[held EXCEPT !.shared = FALSE], held}
           \/ /\ dao' = NoDao
              /\ held' = [key |-> dao.key, value |-> dao.value, shared |-> TRUE]
    BY <1>13 DEF PutDone, finish
  <2>2. Live(dao.key) => inner[dao.key].value = db[dao.key]
    BY <1>0, <2>1 DEF RowsAgree
  <2>3. CASE /\ dao.op = "readAll"
             /\ dao' = [dao EXCEPT !.at = "cachePut", !.key = NoKey]
             /\ held' \in {[held EXCEPT !.shared = FALSE], held}
    <3>1. /\ dao'.at = "cachePut" /\ dao'.op = "readAll" /\ dao'.key = NoKey
          /\ dao'.rows = dao.rows
          /\ dao' \in [op : DaoOps, at : DaoSteps, key : Keys \cup {NoKey},
                       value : Values \cup {NoValue}, rows : SUBSET Keys]
      BY <1>b, <2>3 DEF DaoSteps
    <3>2. DaoTypeOK'
      BY <1>0, <2>1, <2>3, <3>1 DEF DaoTypeOK
    <3>3. OperandsSound'
      BY <1>0, <2>1, <3>1 DEF OperandsSound
    <3>4. CallsAgree' /\ RowsAgree'
      BY <1>0, <2>1, <2>2, <3>1, Leaves DEF CallsAgree, RowsAgree, Live
    <3> QED BY <2>1, <3>2, <3>3, <3>4, Leaves DEF IInv
  <2>4. CASE /\ dao' = NoDao
             /\ held' = [key |-> dao.key, value |-> dao.value, shared |-> TRUE]
    <3>1. DaoTypeOK' /\ OperandsSound'
      BY <1>0, <1>a, <1>b, <2>1, <2>4 DEF DaoTypeOK, OperandsSound
    <3>2. CallsAgree' /\ RowsAgree'
      BY <1>0, <1>a, <2>1, <2>2, <2>4, Leaves DEF CallsAgree, RowsAgree, Live
    <3> QED BY <2>1, <3>1, <3>2, Leaves DEF IInv
  <2> QED BY <2>1, <2>3, <2>4
<1>14. CASE PutThrew
  <2>1. /\ dao.at = "putting" /\ call[Dao].at = "threw" /\ Return(Dao)
        /\ dao' = NoDao /\ UNCHANGED <<db, held, dirty>>
    BY <1>14 DEF PutThrew, finish
  <2>2. DaoTypeOK' /\ OperandsSound'
    BY <1>0, <1>a, <2>1 DEF DaoTypeOK, OperandsSound
  <2>3. CallsAgree' /\ RowsAgree'
    BY <1>0, <1>a, <2>1, Leaves DEF CallsAgree, RowsAgree, Live
  <2> QED BY <2>1, <2>2, <2>3, Leaves DEF IInv
<1> QED
  BY <1>1, <1>2, <1>3, <1>4, <1>5, <1>6, <1>7, <1>8, <1>9, <1>10, <1>11, <1>12, <1>13, <1>14
  DEF DaoProgress

(* Every step of the DAO, the engine, or a stutter, keeps the invariant. *)
LEMMA NextInv == IInv /\ [Next]_vars => IInv'
<1> SUFFICES ASSUME IInv, [Next]_vars PROVE IInv'
  OBVIOUS
<1>1. ASSUME NEW k \in Keys, Read(k) PROVE IInv'
  BY <1>1, BeginInv DEF Read, DaoOps, DaoSteps
<1>2. ASSUME NEW k \in Keys, DeleteRow(k) PROVE IInv'
  BY <1>2, BeginInv DEF DeleteRow, DaoOps, DaoSteps
<1>3. ASSUME NEW k \in Keys, NEW v \in Values, Save(k, v) PROVE IInv'
  BY <1>3, BeginInv DEF Save, DaoOps, DaoSteps
<1>4. CASE ReadAll
  BY <1>4, BeginInv DEF ReadAll, DaoOps, DaoSteps
<1>5. CASE UNCHANGED vars
  <2>1. EngineIInv'
    BY <1>5, EngineRests DEF vars
  <2> QED BY <1>5, <2>1 DEF vars, engineVars, daoVars, IInv, DaoTypeOK, OperandsSound, CallsAgree,
            RowsAgree, Live
<1> QED BY <1>1, <1>2, <1>3, <1>4, <1>5, MutateInv, DaoProgressInv, GoesOnInv
     DEF Next, DaoCalls

(* The invariant holds in every state that the DAO and its cache reach. *)
THEOREM Invariant == SafetySpec => []IInv
BY InitInv, NextInv, PTL DEF SafetySpec

(* UserDataSetCachedHibernateDAO: whenever no operation is in progress, an *)
(* element of the cache has the value of its row, unless the thread has    *)
(* changed the object in place or a save failed in the engine; evictions,  *)
(* cleared references and rolled back transactions do not break it.        *)
THEOREM CacheStaysInOrder == SafetySpec => []CacheInOrder
<1>1. IInv => CacheInOrder
  BY DEF IInv, EngineIInv, CacheInOrder, TypeOK, DaoTypeOK, CacheMatchesRow, RowsAgree
<1> QED BY <1>1, Invariant, PTL
=============================================================================
