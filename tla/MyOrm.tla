--------------------------------- MODULE MyOrm ---------------------------------
(***************************************************************************)
(* hw09-10, ru.otus.kirillov.myorm: SaveOrUpdateCommand and DeleteCommand    *)
(* over one JDBC connection without auto-commit, one statement or nested     *)
(* command per step.  The nested commands neither commit nor roll back; the  *)
(* outermost one rolls back when anything was thrown, and commits in its     *)
(* finally block whatever happened.  Calls are made one at a time.           *)
(***************************************************************************)
EXTENDS MyOrmTables, TLC

VARIABLES
  db,         \* the rows as the connection sees them
  committed,  \* the rows that outlast a rollback
  at,         \* the command's next step, "idle" between calls
  call,       \* the user being saved, or the one a delete has loaded
  todo        \* phones still to be saved or deleted

vars == <<db, committed, at, call, todo>>

Steps == {"idle", "oneToOne", "row", "backRef", "oneToMany",
          "deleteMany", "deleteOne", "done", "threw"}

Init ==
  /\ db = NoRows
  /\ committed = NoRows
  /\ at = "idle"
  /\ call = Null
  /\ todo = {}

-----------------------------------------------------------------------------
(* saveOrUpdate of a user. *)

Save(o) ==
  /\ at = "idle"
  /\ at' = "oneToOne"
  /\ call' = o
  /\ todo' = DOMAIN o.phones
  /\ UNCHANGED <<db, committed>>

(* The address goes first: its identifier is a column of the user's row. *)
SaveOneToOne_nullToo ==
  /\ at = "oneToOne"
  /\ db' = [db EXCEPT !.address = Put(@, call.address, call.street)]
  /\ at' = "row"
  /\ UNCHANGED <<committed, call, todo>>
SaveOneToOne ==
  /\ at = "oneToOne"
  /\ db' = PutAddress(db, call)
  /\ at' = "row"
  /\ UNCHANGED <<committed, call, todo>>

(* The stored user is read to tell an insert from an update. *)
SaveRow_orphanRemoval ==
  /\ at = "row"
  /\ UserReads(db, call.id)
  /\ db' = [db EXCEPT
              !.user = Put(@, call.id, [name |-> call.name, address |-> call.address]),
              !.address = IF call.id \in DOMAIN db.user
                            THEN Drop(@, {db.user[call.id].address} \ {call.address})
                            ELSE @]
  /\ at' = "backRef"
  /\ UNCHANGED <<committed, call, todo>>
SaveRow ==
  /\ at = "row"
  /\ UserReads(db, call.id)
  /\ db' = [db EXCEPT !.user =
              Put(@, call.id, [name |-> call.name, address |-> call.address])]
  /\ at' = "backRef"
  /\ UNCHANGED <<committed, call, todo>>

ClearBackRefs_skipped ==
  /\ at = "backRef"
  /\ at' = "oneToMany"
  /\ UNCHANGED <<db, committed, call, todo>>
ClearBackRefs ==
  /\ at = "backRef"
  /\ \A p \in PhonesOf(db, call.id) : PhoneReads(db, p)
  /\ db' = [db EXCEPT !.phone = Drop(@, PhonesOf(db, call.id))]
  /\ at' = "oneToMany"
  /\ UNCHANGED <<committed, call, todo>>

SaveOneToMany(p) ==
  /\ at = "oneToMany"
  /\ p \in todo
  /\ PhoneReads(db, p)
  /\ db' = PutPhone(db, p, call.phones[p], call.id)
  /\ todo' = todo \ {p}
  /\ UNCHANGED <<committed, at, call>>

SavedAll ==
  /\ at = "oneToMany"
  /\ todo = {}
  /\ at' = "done"
  /\ UNCHANGED <<db, committed, call, todo>>

-----------------------------------------------------------------------------
(* delete of a user. *)

(* The user is read first; what is not there is not deleted. *)
Delete_shallow(u) ==
  /\ at = "idle"
  /\ u \in DOMAIN db.user
  /\ UserReads(db, u)
  /\ at' = "deleteMany"
  /\ call' = Load(db, u)
  /\ todo' = {}
  /\ UNCHANGED <<db, committed>>
Delete(u) ==
  /\ at = "idle"
  /\ u \in DOMAIN db.user
  /\ UserReads(db, u)
  /\ at' = "deleteMany"
  /\ call' = Load(db, u)
  /\ todo' = DOMAIN call'.phones
  /\ UNCHANGED <<db, committed>>

DeleteOneToMany(p) ==
  /\ at = "deleteMany"
  /\ p \in todo
  /\ PhoneReads(db, p)
  /\ db' = [db EXCEPT !.phone = Drop(@, {p})]
  /\ todo' = todo \ {p}
  /\ UNCHANGED <<committed, at, call>>

DeleteRow ==
  /\ at = "deleteMany"
  /\ todo = {}
  /\ db' = [db EXCEPT !.user = Drop(@, {call.id})]
  /\ at' = "deleteOne"
  /\ UNCHANGED <<committed, call, todo>>

(* Other users may name the address too: nobody looks. *)
DeleteOneToOne ==
  /\ at = "deleteOne"
  /\ db' = [db EXCEPT !.address = Drop(@, {call.address})]
  /\ at' = "done"
  /\ UNCHANGED <<committed, call, todo>>

-----------------------------------------------------------------------------
(* The end of either command. *)

(* Any statement may throw, and a read that cannot be made always does. *)
Throw_kept ==
  /\ at \notin {"idle", "threw"}
  /\ at' = "threw"
  /\ UNCHANGED <<db, committed, call, todo>>
Throw ==
  /\ at \notin {"idle", "threw"}
  /\ db' = committed
  /\ at' = "threw"
  /\ UNCHANGED <<committed, call, todo>>

Commit ==
  /\ at \in {"done", "threw"}
  /\ committed' = db
  /\ at' = "idle"
  /\ call' = Null
  /\ todo' = {}
  /\ UNCHANGED db

-----------------------------------------------------------------------------
(* Addresses and phones saved and deleted by themselves: one statement each. *)

Alone(rows) ==
  /\ at = "idle"
  /\ db' = rows
  /\ committed' = rows
  /\ UNCHANGED <<at, call, todo>>

SaveAddress(a, street) == Alone([db EXCEPT !.address = Put(@, a, street)])

(* The back reference is no field of the phone: it is written as null. *)
SavePhone(p, number) == PhoneReads(db, p) /\ Alone(PutPhone(db, p, number, Null))

DeleteAddress(a) == Alone([db EXCEPT !.address = Drop(@, {a})])
DeletePhone(p) == PhoneReads(db, p) /\ Alone([db EXCEPT !.phone = Drop(@, {p})])

-----------------------------------------------------------------------------
Next ==
  \/ \E o \in UserObjects : Save(o)
  \/ SaveOneToOne
  \/ SaveRow
  \/ ClearBackRefs
  \/ \E p \in Phones : SaveOneToMany(p)
  \/ SavedAll
  \/ \E u \in Users : Delete(u)
  \/ \E p \in Phones : DeleteOneToMany(p)
  \/ DeleteRow
  \/ DeleteOneToOne
  \/ Throw
  \/ Commit
  \/ \E a \in Addresses, v \in Values : SaveAddress(a, v)
  \/ \E p \in Phones, n \in Numbers : SavePhone(p, n)
  \/ \E a \in Addresses : DeleteAddress(a)
  \/ \E p \in Phones : DeletePhone(p)

Spec == Init /\ [][Next]_vars

-----------------------------------------------------------------------------
(* Type invariant: the rows fit the schema, identifiers included, and the    *)
(* phones in hand are those of the object in hand.                           *)
TypeOK ==
  /\ db \in Tables
  /\ committed \in Tables
  /\ at \in Steps
  /\ call \in UserObjects \cup {Null}
  /\ todo \subseteq (IF call = Null THEN {} ELSE DOMAIN call.phones)

(* No phone is left behind by the user it belonged to: after any sequence of *)
(* saves, deletes and failures the owner of every committed phone is a       *)
(* stored user, though no foreign key says so.                               *)
OwnersExist ==
  \A p \in DOMAIN committed.phone : committed.phone[p].owner \in DOMAIN committed.user \cup {Null}

(* What was saved is what is read: when saveOrUpdate returns, load gives the *)
(* same object, with that address and exactly those phones, however the      *)
(* stored user looked before -- provided each phone has a number.            *)
SavedIsRead ==
  [][ /\ at = "oneToMany" /\ at' = "done"
      /\ Null \notin Range(call.phones)
      => UserReads(db', call.id) /\ Load(db', call.id) = call ]_vars

(* Saving a user never makes another one unreadable, whatever address or     *)
(* phones the two share; only deletes and phones without numbers do that.    *)
SavingHarmsNobody ==
  [][ at = "oneToMany" /\ at' = "done" =>
        \A u \in DOMAIN committed.user \ {call.id} :
          UserReads(committed, u) => UserReads(db', u) ]_vars

(* MyOrmService keeps its promise: seen through what is committed, each call *)
(* saves or deletes a whole user, or nothing at all if anything was thrown.  *)
Store == INSTANCE ObjectStore WITH store <- committed
ImplementsStore == Store!StoreSpec

(* The committed tables: rows with their columns, none owned by a row that is gone.    *)
TablesInOrder == TypeOK /\ OwnersExist

(* What is saved is what is read, and of others nothing is changed by it.               *)
SavesSound == SavedIsRead /\ SavingHarmsNobody

(* The rows are alike: no command tells one user, phone or value from another.         *)
RowSymmetry == Permutations(Users) \cup Permutations(Phones) \cup Permutations(Values)
=============================================================================
