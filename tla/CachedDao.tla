------------------------------ MODULE CachedDao ------------------------------
(***************************************************************************)
(* CachedProxyDao: a DAO in front of the real one that keeps its objects in *)
(* the cache engine.  One thread uses it, as the 50 ms simulator of         *)
(* web-server does, while the engine's timer, the statistics of the page    *)
(* and the garbage collector go on.  The cache holds references: an object  *)
(* the thread has got from the DAO and changes is changed in the cache too. *)
(***************************************************************************)
EXTENDS CacheEngine

CONSTANTS
  Dao           \* the thread that uses the DAO

ASSUME DaoAssumption == Callers = {Dao}

VARIABLES
  db,       \* the committed rows, NoValue where there is none
  dao,      \* the DAO operation in progress
  held,     \* the object the thread holds, and whether the cache shares it
  dirty     \* history: keys whose cached object may be ahead of or behind its row

daoVars == <<db, dao, held, dirty>>
vars == <<engineVars, daoVars>>

DaoOps == {"none", "read", "readAll", "save", "delete"}
DaoSteps == {"idle", "cacheGet", "dbRead", "dbWrite", "cachePut", "putting",
             "cacheDelete", "dbDelete"}

NoDao == [op |-> "none", at |-> "idle", key |-> NoKey, value |-> NoValue,
          rows |-> {}]
NothingHeld == [key |-> NoKey, value |-> NoValue, shared |-> FALSE]

TypeOK ==
  /\ EngineTypeOK
  /\ db \in [Keys -> Values \cup {NoValue}]
  /\ dao \in [op : DaoOps, at : DaoSteps, key : Keys \cup {NoKey},
              value : Values \cup {NoValue}, rows : SUBSET Keys]
  /\ held \in [key : Keys \cup {NoKey}, value : Values \cup {NoValue},
               shared : BOOLEAN]
  /\ dirty \subseteq Keys

Init ==
  /\ EngineInit
  /\ db = [k \in Keys |-> NoValue]
  /\ dao = NoDao
  /\ held = NothingHeld
  /\ dirty = {}

-----------------------------------------------------------------------------

DaoIdle == dao.at = "idle" /\ Idle(Dao)

begin(op, at, k, v) ==
  /\ DaoIdle
  /\ dao' = [op |-> op, at |-> at, key |-> k, value |-> v, rows |-> {}]
  /\ UNCHANGED <<engineVars, db, held, dirty>>

Read(k) == begin("read", "cacheGet", k, NoValue)
ReadAll == begin("readAll", "dbRead", NoKey, NoValue)
(* An object made for the purpose, or the held one once more.  The identity    *)
(* the database gives to a new object is one of the Keys without a row.        *)
Save(k, v) == begin("save", "dbWrite", k, v)
DeleteRow(k) == begin("delete", "cacheDelete", k, NoValue)

(* The operation ends, by returning or by throwing. *)
finish == dao' = NoDao

(* The thread changes the object it holds (withName, withAge): the cached     *)
(* object is the same one.                                                    *)
Mutate(v) ==
  /\ DaoIdle
  /\ held.key \in Keys
  /\ held' = [held EXCEPT !.value = v]
  /\ IF held.shared /\ Live(held.key)
       THEN /\ inner' = [inner EXCEPT ![held.key].value = v]
            /\ dirty' = dirty \cup {held.key}
       ELSE UNCHANGED <<inner, dirty>>
  /\ UNCHANGED <<call, timerOn, db, dao>>

-----------------------------------------------------------------------------
(* read *)

GetFromCache ==
  /\ dao.at = "cacheGet"
  /\ Get(Dao, dao.key)
  /\ UNCHANGED daoVars

Hit ==
  /\ dao.at = "cacheGet"
  /\ call[Dao].at = "returned" /\ call[Dao].value # NoValue
  /\ held' = [key |-> dao.key, value |-> call[Dao].value, shared |-> TRUE]
  /\ finish
  /\ Return(Dao)
  /\ UNCHANGED <<db, dirty>>

Miss ==
  /\ dao.at = "cacheGet"
  /\ call[Dao].at = "returned" /\ call[Dao].value = NoValue
  /\ dao' = [dao EXCEPT !.at = "dbRead"]
  /\ Return(Dao)
  /\ UNCHANGED <<db, held, dirty>>

(* Mutant: the row that is not there is put like any other. *)
ReadRow_null ==
  /\ dao.op = "read" /\ dao.at = "dbRead"
  /\ dao' = [dao EXCEPT !.at = "cachePut", !.value = db[dao.key]]
  /\ UNCHANGED <<engineVars, db, held, dirty>>

(* The real DAO reads the row.  Hibernate's load gives an object that looks    *)
(* for its row when putToCache asks for its id, and throws when there is none: *)
(* nothing happens to either in between.                                       *)
ReadRow ==
  /\ dao.op = "read" /\ dao.at = "dbRead"
  /\ IF db[dao.key] # NoValue
       THEN dao' = [dao EXCEPT !.at = "cachePut", !.value = db[dao.key]]
       ELSE finish
  /\ UNCHANGED <<engineVars, db, held, dirty>>

(* readAll: the rows are put one after the other. *)
ReadRows ==
  /\ dao.op = "readAll" /\ dao.at = "dbRead"
  /\ dao' = [dao EXCEPT !.at = "cachePut",
                        !.rows = {k \in Keys : db[k] # NoValue}]
  /\ UNCHANGED <<engineVars, db, held, dirty>>

NextRow ==
  /\ dao.op = "readAll" /\ dao.at = "cachePut" /\ dao.key = NoKey
  /\ IF dao.rows = {} THEN finish
     ELSE \E k \in dao.rows :
            dao' = [dao EXCEPT !.key = k, !.value = db[k], !.rows = @ \ {k}]
  /\ UNCHANGED <<engineVars, db, held, dirty>>

-----------------------------------------------------------------------------
(* saveOrUpdate and delete: the real DAO commits, or rolls back and throws. *)

WriteRow ==
  /\ dao.at = "dbWrite"
  /\ db' = [db EXCEPT ![dao.key] = dao.value]
  /\ dao' = [dao EXCEPT !.at = "cachePut"]
  /\ dirty' = dirty \cup {dao.key}
  /\ UNCHANGED <<engineVars, held>>

(* Mutant: the object is cached whatever the database said. *)
WriteFails_put ==
  /\ dao.at = "dbWrite"
  /\ dao' = [dao EXCEPT !.at = "cachePut"]
  /\ UNCHANGED <<engineVars, db, held, dirty>>

WriteFails ==
  /\ dao.at = "dbWrite"
  /\ finish
  /\ UNCHANGED <<engineVars, db, held, dirty>>

(* delete: the cache comes first; what it throws keeps the row. *)
DeleteFromCache ==
  /\ dao.at = "cacheDelete"
  /\ Delete(Dao, dao.key)
  /\ UNCHANGED daoVars

CacheDeleted ==
  /\ dao.at = "cacheDelete"
  /\ call[Dao].at \in {"returned", "threw"}
  /\ IF call[Dao].at = "returned"
       THEN dao' = [dao EXCEPT !.at = "dbDelete"] /\ dirty' = dirty \ {dao.key}
       ELSE finish /\ UNCHANGED dirty
  /\ Return(Dao)
  /\ UNCHANGED <<db, held>>

DeleteFromDb ==
  /\ dao.at = "dbDelete"
  /\ \/ db' = [db EXCEPT ![dao.key] = NoValue]
     \/ UNCHANGED db
  /\ finish
  /\ UNCHANGED <<engineVars, held, dirty>>

-----------------------------------------------------------------------------
(* putToCache, at the end of a read, of each row of readAll and of a save. *)

PutToCache ==
  /\ dao.at = "cachePut" /\ dao.key # NoKey
  /\ Put(Dao, dao.key, dao.value)
  /\ dao' = [dao EXCEPT !.at = "putting"]
  /\ UNCHANGED <<db, held, dirty>>

(* The object that was put is the one the thread has now. *)
PutDone ==
  /\ dao.at = "putting"
  /\ call[Dao].at = "returned"
  /\ dirty' = dirty \ {dao.key}
  /\ IF dao.op = "readAll"
       THEN /\ dao' = [dao EXCEPT !.at = "cachePut", !.key = NoKey]
            /\ held' = IF held.key = dao.key THEN [held EXCEPT !.shared = FALSE]
                       ELSE held
       ELSE /\ finish
            /\ held' = [key |-> dao.key, value |-> dao.value, shared |-> TRUE]
  /\ Return(Dao)
  /\ UNCHANGED db

(* The engine threw (a reference or victim removed by another thread): the     *)
(* operation throws, with the row written and the cache as it was.             *)
PutThrew ==
  /\ dao.at = "putting"
  /\ call[Dao].at = "threw"
  /\ finish
  /\ Return(Dao)
  /\ UNCHANGED <<db, held, dirty>>

-----------------------------------------------------------------------------

DaoCalls ==
  \/ \E k \in Keys : Read(k) \/ DeleteRow(k) \/ (\E v \in Values : Save(k, v))
  \/ ReadAll
  \/ \E v \in Values : Mutate(v)

DaoProgress ==
  \/ GetFromCache \/ Hit \/ Miss \/ ReadRow \/ ReadRows \/ NextRow
  \/ WriteRow \/ WriteFails \/ DeleteFromCache \/ CacheDeleted \/ DeleteFromDb
  \/ PutToCache \/ PutDone \/ PutThrew

EngineGoesOn == Background /\ UNCHANGED daoVars

Next == DaoCalls \/ DaoProgress \/ EngineGoesOn

SafetySpec == Init /\ [][Next]_vars

(* Whatever was begun goes on; the timer's tasks run time and again; time passes. *)
Fairness ==
  /\ WF_vars(DaoProgress)
  /\ \A op \in Evictions : SF_vars(RunTask(op) /\ UNCHANGED daoVars)
  /\ \A t \in Threads : WF_vars(Inside(t) /\ UNCHANGED daoVars)
  /\ \A t \in Pollers \cup {Timer} : WF_vars(Return(t) /\ UNCHANGED daoVars)
  /\ WF_vars(Tick /\ UNCHANGED daoVars)

Spec == SafetySpec /\ Fairness

-----------------------------------------------------------------------------
(* Properties. *)

(* Between operations a live cached object is what its row says, unless the    *)
(* thread has changed the object in place and not saved it, or a save got its  *)
(* row written but the engine threw before the object was replaced.            *)
CacheMatchesRow ==
  DaoIdle => \A k \in Keys \ dirty : Live(k) => inner[k].value = db[k]

Stale(k) == Live(k) /\ inner[k].value # db[k]

(* A stale object does not stay: once no operation is under way, the life-time *)
(* eviction takes it out, and a read gets the row again.                       *)
StaleGoes ==
  <>[](DaoIdle /\ \A t \in Pollers : Idle(t)) =>
    \A k \in Keys : [](Stale(k) => <>~Stale(k))

(* The cache in front of the rows: within its size, and telling what they say.           *)
CacheInOrder == TypeOK /\ SizeBounded /\ CacheMatchesRow
=============================================================================
