------------------------------ MODULE ObjectStore ------------------------------
(***************************************************************************)
(* What MyOrmService promises: a user is saved, or deleted, together with    *)
(* its address and its phones, all at once or not at all.                    *)
(***************************************************************************)
EXTENDS MyOrmTables

VARIABLE store

StoreInit == store = NoRows

SaveWhole(o) ==
  LET addressed == PutAddress(store, o)
      kept == DOMAIN store.phone \ PhonesOf(store, o.id)
  IN /\ UserReads(addressed, o.id)
     /\ \A p \in DOMAIN o.phones \cap kept : PhoneReads(store, p)
     /\ store' =
          [addressed EXCEPT
             !.user = Put(@, o.id, [name |-> o.name, address |-> o.address]),
             !.phone = [p \in kept \cup DOMAIN o.phones |->
                          IF p \in DOMAIN o.phones
                            THEN [number |-> o.phones[p], owner |-> o.id]
                            ELSE store.phone[p]]]

DeleteWhole(u) ==
  /\ u \in DOMAIN store.user
  /\ UserReads(store, u)
  /\ store' = [user |-> Drop(store.user, {u}),
               address |-> Drop(store.address, {store.user[u].address}),
               phone |-> Drop(store.phone, PhonesOf(store, u))]

PutOne ==
  \/ \E a \in Addresses, v \in Values :
       store' = [store EXCEPT !.address = Put(@, a, v)]
  \/ \E p \in Phones, n \in Numbers : store' = PutPhone(store, p, n, Null)

DropOne ==
  \/ \E a \in Addresses : store' = [store EXCEPT !.address = Drop(@, {a})]
  \/ \E p \in Phones : store' = [store EXCEPT !.phone = Drop(@, {p})]

StoreNext ==
  \/ \E o \in UserObjects : SaveWhole(o)
  \/ \E u \in Users : DeleteWhole(u)
  \/ PutOne
  \/ DropOne

StoreSpec == StoreInit /\ [][StoreNext]_store
=============================================================================
