----------------------------- MODULE MyOrm_proofs -----------------------------
(***************************************************************************)
(* Proofs about MyOrm for every set of users, addresses, phones and values: *)
(* the commands of the ORM implement the store of whole objects, what is    *)
(* saved is what is read, and the committed rows stay in order.             *)
(***************************************************************************)
EXTENDS MyOrm, TLAPS

(* The rows of the user and of the phone table.                              *)
UserRow == [name : Values, address : Addresses \cup {Null}]
PhoneRow == [number : Numbers, owner : Users \cup {Null}]

(* What saving the object in hand has made of the committed rows, once its     *)
(* address and its user are written and the phones in S.                      *)
Addressed == PutAddress(committed, call)
Row == [name |-> call.name, address |-> call.address]
Kept == DOMAIN committed.phone \ PhonesOf(committed, call.id)

(* The row of the user is written and so is that of the address; the user can *)
(* be read back.                                                              *)
Written ==
  /\ UserReads(Addressed, call.id)
  /\ db.user = Put(committed.user, call.id, Row)
  /\ db.address = Addressed.address

(* Saved so far: the phones of the object in S have their rows, and of the *)
(* phones that were there only those of other users are left.              *)
SavedUpTo(S) ==
  /\ Written
  /\ \A p \in S \cap Kept : PhoneReads(committed, p)
  /\ db.phone = [p \in Kept \cup S |->
                   IF p \in S THEN [number |-> call.phones[p], owner |-> call.id]
                   ELSE committed.phone[p]]

(* What deleting the object in hand has made of them, once its phones in S are gone. *)
Loaded ==
  /\ call.id \in DOMAIN committed.user
  /\ UserReads(committed, call.id)
  /\ call.address = committed.user[call.id].address
  /\ DOMAIN call.phones = PhonesOf(committed, call.id)

(* Deleted so far: the phones in S. *)
DeletedUpTo(S) ==
  /\ Loaded
  /\ db.phone = Drop(committed.phone, S)

(* The row of the user is deleted. *)
RowGone == db.user = Drop(committed.user, {call.id})

(* How far the rows the connection sees are ahead of the committed ones: at each *)
(* step of a command by just what the command has done.                         *)
Progress ==
  /\ at \in {"idle", "threw"} => db = committed
  /\ at # "idle" => call \in UserObjects
  /\ at = "oneToOne" => db = committed /\ todo = DOMAIN call.phones
  /\ at = "row" => db = Addressed /\ todo = DOMAIN call.phones
  /\ at = "backRef" =>
       Written /\ db.phone = committed.phone /\ todo = DOMAIN call.phones
  /\ at = "oneToMany" => SavedUpTo(DOMAIN call.phones \ todo)
  /\ at = "deleteMany" =>
       /\ DeletedUpTo(DOMAIN call.phones \ todo)
       /\ db.user = committed.user /\ db.address = committed.address
  /\ at = "deleteOne" =>
       DeletedUpTo(DOMAIN call.phones) /\ RowGone /\ db.address = committed.address
  /\ at = "done" =>
       \/ SavedUpTo(DOMAIN call.phones)
       \/ /\ DeletedUpTo(DOMAIN call.phones) /\ RowGone
          /\ db.address = Drop(committed.address, {call.address})

(* The inductive invariant. TypeOK and OwnersExist do not follow from *)
(* themselves: what a commit publishes is known only through what the *)
(* statements before it have done, and Progress is that knowledge.    *)
IInv == TypeOK /\ OwnersExist /\ Progress

(* A partial function is a function on its domain. *)
LEMMA IntoElim ==
  ASSUME NEW S, NEW T, NEW f \in FunctionsInto(S, T)
  PROVE  DOMAIN f \subseteq S /\ f \in [DOMAIN f -> T]
BY DEF FunctionsInto

(* A function on part of the keys is a partial function. *)
LEMMA IntoIntro ==
  ASSUME NEW S, NEW T, NEW D, D \subseteq S, NEW f \in [D -> T]
  PROVE  f \in FunctionsInto(S, T)
BY DEF FunctionsInto

(* What an insert or update makes of a table. *)
LEMMA PutRow ==
  ASSUME NEW S, NEW T, NEW f \in FunctionsInto(S, T), NEW x \in S, NEW r \in T
  PROVE  /\ Put(f, x, r) \in FunctionsInto(S, T)
         /\ DOMAIN Put(f, x, r) = DOMAIN f \cup {x}
         /\ Put(f, x, r)[x] = r
         /\ \A y \in DOMAIN f \ {x} : Put(f, x, r)[y] = f[y]
<1>1. DOMAIN f \subseteq S /\ f \in [DOMAIN f -> T]
  BY IntoElim
<1>2. Put(f, x, r) \in [DOMAIN f \cup {x} -> T]
  BY <1>1 DEF Put
<1>3. Put(f, x, r) \in FunctionsInto(S, T)
  BY <1>1, <1>2, IntoIntro
<1> QED BY <1>1, <1>2, <1>3 DEF Put

(* What a delete makes of a table. *)
LEMMA DropRows ==
  ASSUME NEW S, NEW T, NEW f \in FunctionsInto(S, T), NEW X
  PROVE  /\ Drop(f, X) \in FunctionsInto(S, T)
         /\ DOMAIN Drop(f, X) = DOMAIN f \ X
         /\ \A y \in DOMAIN f \ X : Drop(f, X)[y] = f[y]
<1>1. DOMAIN f \subseteq S /\ f \in [DOMAIN f -> T]
  BY IntoElim
<1>2. Drop(f, X) \in [DOMAIN f \ X -> T]
  BY <1>1 DEF Drop, Restrict
<1>3. Drop(f, X) \in FunctionsInto(S, T)
  BY <1>1, <1>2, IntoIntro
<1> QED BY <1>1, <1>2, <1>3 DEF Drop, Restrict

(* The columns of tables that fit the schema. *)
LEMMA TablesFit ==
  ASSUME NEW t
  PROVE  t \in Tables <=>
           /\ t = [user |-> t.user, address |-> t.address, phone |-> t.phone]
           /\ t.user \in FunctionsInto(Users, UserRow)
           /\ t.address \in FunctionsInto(Addresses, Values)
           /\ t.phone \in FunctionsInto(Phones, PhoneRow)
BY DEF Tables, UserRow, PhoneRow

(* The fields of an object that can be saved. *)
LEMMA UserFits ==
  ASSUME NEW o \in UserObjects
  PROVE  /\ o.id \in Users /\ o.name \in Values
         /\ o.address \in Addresses \cup {Null} /\ o.street \in Values \cup {Null}
         /\ (o.address = Null) <=> (o.street = Null)
         /\ DOMAIN o.phones \subseteq Phones
         /\ o.phones \in [DOMAIN o.phones -> Numbers]
         /\ o = [id |-> o.id, name |-> o.name, address |-> o.address,
                 street |-> o.street, phones |-> o.phones]
BY IntoElim DEF UserObjects

(* Writing the address of an object fits the schema, loses no address and *)
(* leaves the other tables alone.                                         *)
LEMMA AddressFits ==
  ASSUME NEW t \in Tables, NEW o \in UserObjects
  PROVE  /\ PutAddress(t, o) \in Tables
         /\ PutAddress(t, o).user = t.user /\ PutAddress(t, o).phone = t.phone
         /\ DOMAIN t.address \subseteq DOMAIN PutAddress(t, o).address
         /\ o.address # Null => /\ o.address \in DOMAIN PutAddress(t, o).address
                                /\ PutAddress(t, o).address[o.address] = o.street
<1>1. CASE o.address = Null
  BY <1>1 DEF PutAddress
<1>2. CASE o.address # Null
  <2> DEFINE a == Put(t.address, o.address, o.street)
  <2>1. o.address \in Addresses /\ o.street \in Values
    BY <1>2, UserFits
  <2>2. /\ t.address \in FunctionsInto(Addresses, Values)
        /\ t = [user |-> t.user, address |-> t.address, phone |-> t.phone]
    BY TablesFit
  <2>3. /\ a \in FunctionsInto(Addresses, Values)
        /\ DOMAIN a = DOMAIN t.address \cup {o.address} /\ a[o.address] = o.street
    <3> DEFINE x == o.address
               f == t.address
               r == o.street
    <3>1. f \in FunctionsInto(Addresses, Values) /\ x \in Addresses /\ r \in Values
      BY <2>1, <2>2
    <3> HIDE DEF x, f, r
    <3>2. /\ Put(f, x, r) \in FunctionsInto(Addresses, Values)
          /\ DOMAIN Put(f, x, r) = DOMAIN f \cup {x} /\ Put(f, x, r)[x] = r
      BY <3>1, PutRow
    <3> QED BY <3>2 DEF x, f, r
  <2> HIDE DEF a
  <2>4. PutAddress(t, o) = [user |-> t.user, address |-> a, phone |-> t.phone]
    BY <1>2, <2>2 DEF PutAddress, a
  <2>5. PutAddress(t, o) \in Tables
    BY <2>3, <2>4, TablesFit
  <2> QED BY <2>3, <2>4, <2>5
<1> QED BY <1>1, <1>2

(* Writing a phone fits the schema and leaves the other tables alone. *)
LEMMA PhoneFits ==
  ASSUME NEW t \in Tables, NEW p \in Phones, NEW n \in Numbers,
         NEW u \in Users \cup {Null}
  PROVE  /\ PutPhone(t, p, n, u) \in Tables
         /\ PutPhone(t, p, n, u).user = t.user
         /\ PutPhone(t, p, n, u).address = t.address
         /\ PutPhone(t, p, n, u).phone = Put(t.phone, p, [number |-> n, owner |-> u])
<1> DEFINE row == [number |-> n, owner |-> u]
           f == Put(t.phone, p, row)
<1>1. row \in PhoneRow
  BY DEF PhoneRow
<1>2. /\ t.phone \in FunctionsInto(Phones, PhoneRow)
      /\ t = [user |-> t.user, address |-> t.address, phone |-> t.phone]
  BY TablesFit
<1> HIDE DEF row
<1>3. f \in FunctionsInto(Phones, PhoneRow)
  BY <1>1, <1>2, PutRow
<1>4. PutPhone(t, p, n, u) = [user |-> t.user, address |-> t.address, phone |-> f]
  BY <1>2 DEF PutPhone, row
<1>5. PutPhone(t, p, n, u) \in Tables
  BY <1>2, <1>3, <1>4, TablesFit
<1> QED BY <1>4, <1>5 DEF row

(* What is read from the rows of a user is an object that could be saved. *)
LEMMA LoadFits ==
  ASSUME NEW t \in Tables, NEW u \in DOMAIN t.user, UserReads(t, u)
  PROVE  /\ Load(t, u) \in UserObjects
         /\ Load(t, u).id = u
         /\ Load(t, u).address = t.user[u].address
         /\ DOMAIN Load(t, u).phones = PhonesOf(t, u)
<1>1. t.user \in FunctionsInto(Users, UserRow)
  BY TablesFit
<1>2. t.user[u] \in UserRow /\ u \in Users
  BY <1>1, IntoElim
<1>3. t.address \in FunctionsInto(Addresses, Values) /\ t.phone \in FunctionsInto(Phones, PhoneRow)
  BY TablesFit
<1>4. /\ t.address \in [DOMAIN t.address -> Values] /\ DOMAIN t.address \subseteq Addresses
      /\ DOMAIN t.phone \subseteq Phones /\ t.phone \in [DOMAIN t.phone -> PhoneRow]
  BY <1>3, IntoElim
<1>5. PhonesOf(t, u) \subseteq Phones
  BY <1>4 DEF PhonesOf
<1> DEFINE phones == [p \in PhonesOf(t, u) |-> t.phone[p].number]
<1>6. phones \in [PhonesOf(t, u) -> Numbers]
  BY <1>4 DEF PhonesOf, PhoneRow
<1>7. phones \in FunctionsInto(Phones, Numbers)
  BY <1>5, <1>6, IntoIntro
<1>8. t.user[u].address \in DOMAIN t.address \cup {Null} /\ Null \notin Values
  BY NullAssumption DEF UserReads
<1> DEFINE street == IF t.user[u].address = Null THEN Null
                     ELSE t.address[t.user[u].address]
<1>9. street \in Values \cup {Null} /\ (t.user[u].address = Null <=> street = Null)
  BY <1>4, <1>8
<1> HIDE DEF phones, street
<1>10. Load(t, u) = [id |-> u, name |-> t.user[u].name, address |-> t.user[u].address,
                     street |-> street, phones |-> phones]
  BY DEF Load, street, phones
<1>11. Load(t, u) \in UserObjects
  BY <1>2, <1>4, <1>7, <1>8, <1>9, <1>10 DEF UserObjects, UserRow
<1> QED BY <1>6, <1>10, <1>11

(* The database starts with no rows and no command. *)
LEMMA InitInv == Init => IInv
<1>1. <<>> \in [{} -> {}] /\ DOMAIN <<>> = {}
  OBVIOUS
<1>2. \A S, T : <<>> \in FunctionsInto(S, T)
  BY <1>1 DEF FunctionsInto
<1>3. NoRows \in Tables
  BY <1>2 DEF NoRows, Tables
<1> QED BY <1>3 DEF Init, IInv, TypeOK, OwnersExist, Progress, Steps, NoRows

(* Writing the row of a user fits the schema and leaves the other tables *)
(* alone.                                                                *)
LEMMA UserRowFits ==
  ASSUME NEW t \in Tables, NEW o \in UserObjects
  PROVE  LET w == [t EXCEPT !.user = Put(@, o.id, [name |-> o.name, address |-> o.address])]
         IN  /\ w \in Tables
             /\ w.user = Put(t.user, o.id, [name |-> o.name, address |-> o.address])
             /\ w.address = t.address /\ w.phone = t.phone
<1> DEFINE row == [name |-> o.name, address |-> o.address]
           x == o.id
           f == Put(t.user, x, row)
<1>1. row \in UserRow /\ x \in Users
  BY UserFits DEF UserRow
<1>2. /\ t.user \in FunctionsInto(Users, UserRow)
      /\ t = [user |-> t.user, address |-> t.address, phone |-> t.phone]
  BY TablesFit
<1> HIDE DEF row, x
<1>3. f \in FunctionsInto(Users, UserRow)
  BY <1>1, <1>2, PutRow
<1> HIDE DEF f
<1>4. [user |-> f, address |-> t.address, phone |-> t.phone] \in Tables
  BY <1>2, <1>3, TablesFit
<1> QED BY <1>2, <1>4 DEF row, x, f

(* Deleting rows fits the schema. *)
LEMMA DropFits ==
  ASSUME NEW t \in Tables, NEW X
  PROVE  /\ [t EXCEPT !.user = Drop(@, X)] \in Tables
         /\ [t EXCEPT !.address = Drop(@, X)] \in Tables
         /\ [t EXCEPT !.phone = Drop(@, X)] \in Tables
<1>1. /\ t.user \in FunctionsInto(Users, UserRow)
      /\ t.address \in FunctionsInto(Addresses, Values)
      /\ t.phone \in FunctionsInto(Phones, PhoneRow)
      /\ t = [user |-> t.user, address |-> t.address, phone |-> t.phone]
  BY TablesFit
<1>2. /\ Drop(t.user, X) \in FunctionsInto(Users, UserRow)
      /\ Drop(t.address, X) \in FunctionsInto(Addresses, Values)
      /\ Drop(t.phone, X) \in FunctionsInto(Phones, PhoneRow)
  BY <1>1, DropRows
<1>3. /\ [user |-> Drop(t.user, X), address |-> t.address, phone |-> t.phone] \in Tables
      /\ [user |-> t.user, address |-> Drop(t.address, X), phone |-> t.phone] \in Tables
      /\ [user |-> t.user, address |-> t.address, phone |-> Drop(t.phone, X)] \in Tables
  BY <1>1, <1>2, TablesFit
<1> QED BY <1>1, <1>3

(* Every statement of a command keeps the rows ahead of the committed ones by *)
(* just what Progress says, and every commit leaves phones with owners.       *)
LEMMA NextInv == IInv /\ [Next]_vars => IInv'
<1> SUFFICES ASSUME IInv, [Next]_vars PROVE IInv'
  OBVIOUS
<1> USE DEF IInv
<1>1. ASSUME NEW o \in UserObjects, Save(o) PROVE IInv'
  <2>1. TypeOK'
    BY <1>1, NoObjectAssumption DEF Save, TypeOK, Steps
  <2>2. OwnersExist'
    BY <1>1 DEF Save, OwnersExist
  <2>3. Progress'
    BY <1>1 DEF Save, Progress
  <2> QED BY <2>1, <2>2, <2>3
<1>2. CASE SaveOneToOne
  <2>1. call \in UserObjects /\ call # Null /\ db = committed /\ todo = DOMAIN call.phones
    BY <1>2, NoObjectAssumption DEF SaveOneToOne, Progress, TypeOK
  <2>2. TypeOK'
    BY <1>2, <2>1, AddressFits DEF SaveOneToOne, TypeOK, Steps
  <2>3. OwnersExist'
    BY <1>2 DEF SaveOneToOne, OwnersExist
  <2>4. Progress'
    BY <1>2, <2>1 DEF SaveOneToOne, Progress, Addressed
  <2> QED BY <2>2, <2>3, <2>4
<1>3. CASE SaveRow
  <2>1. /\ call \in UserObjects /\ db = Addressed /\ todo = DOMAIN call.phones
        /\ db \in Tables /\ committed \in Tables
    BY <1>3 DEF SaveRow, Progress, TypeOK
  <2>2. /\ db' \in Tables
        /\ db'.user = Put(db.user, call.id, Row)
        /\ db'.address = db.address /\ db'.phone = db.phone
    BY <1>3, <2>1, UserRowFits DEF SaveRow, Row
  <2>3. TypeOK'
    BY <1>3, <2>2 DEF SaveRow, TypeOK, Steps
  <2>4. OwnersExist'
    BY <1>3 DEF SaveRow, OwnersExist
  <2>5. Addressed.user = committed.user /\ Addressed.phone = committed.phone
    BY <2>1, AddressFits DEF Addressed
  <2>6. UserReads(Addressed, call.id)
    BY <1>3, <2>1 DEF SaveRow
  <2>7. UNCHANGED <<committed, call, todo>> /\ at' = "backRef"
    BY <1>3 DEF SaveRow
  <2>8. /\ Written' /\ db'.phone = committed'.phone /\ todo' = DOMAIN call'.phones
    BY <2>1, <2>2, <2>5, <2>6, <2>7 DEF Written, Addressed, Row
  <2>9. Progress'
    BY <2>1, <2>7, <2>8 DEF Progress
  <2> QED BY <2>3, <2>4, <2>9
<1>4. CASE ClearBackRefs
  <2>1. /\ call \in UserObjects /\ Written /\ db.phone = committed.phone
        /\ todo = DOMAIN call.phones /\ db \in Tables /\ committed \in Tables
    BY <1>4 DEF ClearBackRefs, Progress, TypeOK
  <2>2. /\ UNCHANGED <<committed, call, todo>> /\ at' = "oneToMany"
        /\ db' = [db EXCEPT !.phone = Drop(@, PhonesOf(db, call.id))]
    BY <1>4 DEF ClearBackRefs
  <2>3. db' \in Tables
    BY <2>1, <2>2, DropFits
  <2>4. db'.user = db.user /\ db'.address = db.address
        /\ db'.phone = Drop(db.phone, PhonesOf(db, call.id))
    BY <2>1, <2>2, TablesFit
  <2>5. TypeOK'
    BY <2>2, <2>3 DEF TypeOK, Steps
  <2>6. OwnersExist'
    BY <2>2 DEF OwnersExist
  <2>7. PhonesOf(db, call.id) = PhonesOf(committed, call.id)
    BY <2>1 DEF PhonesOf
  <2>8. db'.phone = [p \in Kept |-> committed.phone[p]]
    BY <2>1, <2>4, <2>7 DEF Kept, Drop, Restrict
  <2>9. DOMAIN call.phones \ todo = {}
    BY <2>1
  <2>10. SavedUpTo({})'
    BY <2>1, <2>2, <2>4, <2>8 DEF SavedUpTo, Written, Kept, Row, Addressed
  <2>11. Progress'
    BY <2>1, <2>2, <2>9, <2>10 DEF Progress
  <2> QED BY <2>5, <2>6, <2>11
<1>5. ASSUME NEW p \in Phones, SaveOneToMany(p) PROVE IInv'
  <2> DEFINE row == [number |-> call.phones[p], owner |-> call.id]
  <2>0. PICK S : S = DOMAIN call.phones \ todo
    OBVIOUS
  <2>1. /\ call \in UserObjects /\ SavedUpTo(S) /\ p \in todo
        /\ todo \subseteq DOMAIN call.phones
        /\ db \in Tables /\ committed \in Tables
    BY <1>5, <2>0, NoObjectAssumption DEF SaveOneToMany, Progress, TypeOK
  <2>2. /\ UNCHANGED <<committed, call>> /\ at' = "oneToMany" /\ todo' = todo \ {p}
        /\ db' = PutPhone(db, p, call.phones[p], call.id) /\ PhoneReads(db, p)
    BY <1>5 DEF SaveOneToMany
  <2>3. call.phones[p] \in Numbers /\ call.id \in Users
    BY <2>1, UserFits
  <2>4. /\ db' \in Tables /\ db'.user = db.user /\ db'.address = db.address
        /\ db'.phone = Put(db.phone, p, row)
    BY <2>1, <2>2, <2>3, PhoneFits
  <2>5. TypeOK'
    BY <2>1, <2>2, <2>4 DEF TypeOK, Steps
  <2>6. OwnersExist'
    BY <2>2 DEF OwnersExist
  <2>7. (DOMAIN call.phones \ todo)' = S \cup {p}
    BY <2>0, <2>1, <2>2
  <2>8. p \notin S
    BY <2>0, <2>1
  <2> HIDE DEF row
  <2>9. /\ DOMAIN db.phone = Kept \cup S
        /\ \A q \in Kept \ S : db.phone[q] = committed.phone[q]
    BY <2>1 DEF SavedUpTo
  <2>10. \A q \in (S \cup {p}) \cap Kept : PhoneReads(committed, q)
    BY <2>1, <2>2, <2>8, <2>9 DEF SavedUpTo, PhoneReads, Kept
  <2>11. db'.phone = [q \in Kept \cup (S \cup {p}) |->
                       IF q \in S \cup {p}
                         THEN [number |-> call.phones[q], owner |-> call.id]
                         ELSE committed.phone[q]]
    BY <2>1, <2>4 DEF SavedUpTo, Put, row
  <2>12. Written'
    BY <2>1, <2>2, <2>4 DEF SavedUpTo, Written, Addressed, Row
  <2>13. SavedUpTo(S \cup {p})'
    BY <2>2, <2>10, <2>11, <2>12 DEF SavedUpTo, Kept
  <2>14. Progress'
    BY <2>1, <2>2, <2>7, <2>13 DEF Progress
  <2> QED BY <2>5, <2>6, <2>14
<1>6. CASE SavedAll
  <2>1. /\ call \in UserObjects /\ SavedUpTo(DOMAIN call.phones \ todo) /\ todo = {}
        /\ UNCHANGED <<db, committed, call, todo>> /\ at' = "done"
    BY <1>6 DEF SavedAll, Progress
  <2>2. DOMAIN call.phones \ todo = DOMAIN call.phones
    BY <2>1
  <2>3. SavedUpTo(DOMAIN call.phones)'
    BY <2>1, <2>2 DEF SavedUpTo, Written, Addressed, Row, Kept
  <2>4. TypeOK' /\ OwnersExist'
    BY <2>1 DEF TypeOK, OwnersExist, Steps
  <2>5. Progress'
    BY <2>1, <2>3 DEF Progress
  <2> QED BY <2>4, <2>5
<1>7. ASSUME NEW u \in Users, Delete(u) PROVE IInv'
  <2>1. /\ u \in DOMAIN db.user /\ UserReads(db, u) /\ db = committed /\ db \in Tables
        /\ UNCHANGED <<db, committed>> /\ at' = "deleteMany"
        /\ call' = Load(db, u) /\ todo' = DOMAIN call'.phones
    BY <1>7 DEF Delete, Progress, TypeOK
  <2>2. /\ call' \in UserObjects /\ call'.id = u
        /\ call'.address = committed.user[u].address
        /\ DOMAIN call'.phones = PhonesOf(committed, u)
    BY <2>1, LoadFits
  <2>3. TypeOK'
    BY <2>1, <2>2, NoObjectAssumption DEF TypeOK, Steps
  <2>4. OwnersExist'
    BY <2>1 DEF OwnersExist
  <2>5. Loaded'
    BY <2>1, <2>2 DEF Loaded
  <2>6. (DOMAIN call.phones \ todo)' = {}
    BY <2>1
  <2>7. DeletedUpTo({})'
    <3>1. db'.phone = Drop(committed'.phone, {})
      <4>1. committed.phone \in FunctionsInto(Phones, PhoneRow)
        BY <2>1, TablesFit
      <4>2. committed.phone \in [DOMAIN committed.phone -> PhoneRow]
        BY <4>1, IntoElim
      <4> QED BY <2>1, <4>2 DEF Drop, Restrict
    <3> QED BY <2>5, <3>1 DEF DeletedUpTo
  <2>8. Progress'
    BY <2>1, <2>2, <2>6, <2>7 DEF Progress
  <2> QED BY <2>3, <2>4, <2>8
<1>8. ASSUME NEW p \in Phones, DeleteOneToMany(p) PROVE IInv'
  <2>0. PICK S : S = DOMAIN call.phones \ todo
    OBVIOUS
  <2>1. /\ call \in UserObjects /\ DeletedUpTo(S) /\ p \in todo
        /\ todo \subseteq DOMAIN call.phones
        /\ db \in Tables /\ committed \in Tables
        /\ db.user = committed.user /\ db.address = committed.address
    BY <1>8, <2>0, NoObjectAssumption DEF DeleteOneToMany, Progress, TypeOK
  <2>2. /\ UNCHANGED <<committed, call>> /\ at' = "deleteMany" /\ todo' = todo \ {p}
        /\ db' = [db EXCEPT !.phone = Drop(@, {p})]
    BY <1>8 DEF DeleteOneToMany
  <2>3. db' \in Tables
    BY <2>1, <2>2, DropFits
  <2>4. db'.user = db.user /\ db'.address = db.address /\ db'.phone = Drop(db.phone, {p})
    BY <2>1, <2>2, TablesFit
  <2>5. TypeOK'
    BY <2>1, <2>2, <2>3 DEF TypeOK, Steps
  <2>6. OwnersExist'
    BY <2>2 DEF OwnersExist
  <2>7. (DOMAIN call.phones \ todo)' = S \cup {p}
    BY <2>0, <2>1, <2>2
  <2>8. db'.phone = Drop(committed.phone, S \cup {p})
    BY <2>1, <2>4 DEF DeletedUpTo, Drop, Restrict
  <2>9. DeletedUpTo(S \cup {p})'
    BY <2>1, <2>2, <2>8 DEF DeletedUpTo, Loaded
  <2>10. Progress'
    BY <2>1, <2>2, <2>4, <2>7, <2>9 DEF Progress
  <2> QED BY <2>5, <2>6, <2>10
<1>9. CASE DeleteRow
  <2>0. PICK S : S = DOMAIN call.phones
    OBVIOUS
  <2>1. /\ call \in UserObjects /\ DeletedUpTo(S) /\ db \in Tables
        /\ db.user = committed.user /\ db.address = committed.address
        /\ UNCHANGED <<committed, call, todo>> /\ at' = "deleteOne"
        /\ db' = [db EXCEPT !.user = Drop(@, {call.id})]
    <3>1. DOMAIN call.phones \ todo = S
      BY <1>9, <2>0 DEF DeleteRow
    <3> QED BY <1>9, <3>1 DEF DeleteRow, Progress, TypeOK
  <2>2. db' \in Tables
    BY <2>1, DropFits
  <2>3. /\ db'.user = Drop(db.user, {call.id}) /\ db'.address = db.address
        /\ db'.phone = db.phone
    BY <2>1, TablesFit
  <2>4. TypeOK' /\ OwnersExist'
    BY <2>1, <2>2 DEF TypeOK, OwnersExist, Steps
  <2>5. DeletedUpTo(S)' /\ RowGone'
    BY <2>1, <2>3 DEF DeletedUpTo, Loaded, RowGone
  <2>6. Progress'
    BY <2>0, <2>1, <2>3, <2>5 DEF Progress
  <2> QED BY <2>4, <2>6
<1>10. CASE DeleteOneToOne
  <2>0. PICK S : S = DOMAIN call.phones
    OBVIOUS
  <2>1. /\ call \in UserObjects /\ DeletedUpTo(S) /\ RowGone /\ db \in Tables
        /\ db.address = committed.address
        /\ UNCHANGED <<committed, call, todo>> /\ at' = "done"
        /\ db' = [db EXCEPT !.address = Drop(@, {call.address})]
    BY <1>10, <2>0 DEF DeleteOneToOne, Progress, TypeOK
  <2>2. db' \in Tables
    BY <2>1, DropFits
  <2>3. /\ db'.address = Drop(db.address, {call.address}) /\ db'.user = db.user
        /\ db'.phone = db.phone
    BY <2>1, TablesFit
  <2>4. TypeOK' /\ OwnersExist'
    BY <2>1, <2>2 DEF TypeOK, OwnersExist, Steps
  <2>5. DeletedUpTo(S)' /\ RowGone'
    BY <2>1, <2>3 DEF DeletedUpTo, Loaded, RowGone
  <2>6. Progress'
    BY <2>0, <2>1, <2>3, <2>5 DEF Progress
  <2> QED BY <2>4, <2>6
<1>11. CASE Throw
  BY <1>11 DEF Throw, TypeOK, OwnersExist, Progress, Steps
<1>12. CASE Commit
  <2>1. /\ committed' = db /\ UNCHANGED db /\ at' = "idle" /\ call' = Null /\ todo' = {}
        /\ at \in {"done", "threw"} /\ db \in Tables /\ committed \in Tables
    BY <1>12 DEF Commit, TypeOK
  <2>2. TypeOK' /\ Progress'
    BY <2>1 DEF TypeOK, Steps, Progress
  <2>3. OwnersExist'
    <3>1. CASE at = "threw"
      BY <2>1, <3>1 DEF Progress, OwnersExist
    <3>2. CASE at = "done" /\ SavedUpTo(DOMAIN call.phones)
      <4>1. /\ call \in UserObjects
            /\ committed.user \in FunctionsInto(Users, UserRow)
        BY <2>1, <3>2, TablesFit DEF Progress
      <4>2. DOMAIN db.user = DOMAIN committed.user \cup {call.id}
        BY <3>2 DEF SavedUpTo, Written, Put
      <4>3. \A p \in DOMAIN db.phone :
              \/ db.phone[p].owner = call.id
              \/ p \in DOMAIN committed.phone /\ db.phone[p] = committed.phone[p]
        BY <3>2 DEF SavedUpTo, Kept
      <4> QED BY <2>1, <4>2, <4>3 DEF OwnersExist
    <3>3. CASE at = "done" /\ DeletedUpTo(DOMAIN call.phones) /\ RowGone
      <4>1. DOMAIN db.user = DOMAIN committed.user \ {call.id}
        BY <3>3 DEF RowGone, Drop, Restrict
      <4>2. \A p \in DOMAIN db.phone :
              /\ p \in DOMAIN committed.phone /\ db.phone[p] = committed.phone[p]
              /\ committed.phone[p].owner # call.id
        BY <3>3 DEF DeletedUpTo, Loaded, PhonesOf, Drop, Restrict
      <4> QED BY <2>1, <4>1, <4>2 DEF OwnersExist
    <3> QED BY <2>1, <3>1, <3>2, <3>3 DEF Progress
  <2> QED BY <2>2, <2>3
<1>13. ASSUME NEW rows \in Tables, Alone(rows),
              \A p \in DOMAIN rows.phone :
                rows.phone[p].owner \in DOMAIN rows.user \cup {Null}
       PROVE  IInv'
  BY <1>13 DEF Alone, TypeOK, OwnersExist, Progress, Steps
<1>14. ASSUME NEW a \in Addresses, NEW v \in Values, SaveAddress(a, v) PROVE IInv'
  <2>1. db \in Tables /\ db = committed
    BY <1>14 DEF SaveAddress, Alone, TypeOK, Progress
  <2> DEFINE rows == [db EXCEPT !.address = Put(@, a, v)]
  <2>2. /\ db = [user |-> db.user, address |-> db.address, phone |-> db.phone]
        /\ db.address \in FunctionsInto(Addresses, Values)
    BY <2>1, TablesFit
  <2>3. Put(db.address, a, v) \in FunctionsInto(Addresses, Values)
    BY <2>2, PutRow
  <2>4. rows \in Tables /\ rows.user = db.user /\ rows.phone = db.phone
    BY <2>1, <2>2, <2>3, TablesFit
  <2>5. Alone(rows)
    BY <1>14 DEF SaveAddress
  <2> QED BY <1>13, <2>1, <2>4, <2>5 DEF OwnersExist
<1>15. ASSUME NEW p \in Phones, NEW n \in Numbers, SavePhone(p, n) PROVE IInv'
  <2>1. db \in Tables /\ db = committed
    BY <1>15 DEF SavePhone, Alone, TypeOK, Progress
  <2> DEFINE rows == PutPhone(db, p, n, Null)
  <2>2. /\ rows \in Tables /\ rows.user = db.user
        /\ rows.phone = Put(db.phone, p, [number |-> n, owner |-> Null])
    BY <2>1, PhoneFits
  <2>3. \A q \in DOMAIN rows.phone :
          rows.phone[q].owner \in DOMAIN rows.user \cup {Null}
    BY <2>1, <2>2 DEF Put, OwnersExist
  <2> QED BY <1>13, <1>15, <2>2, <2>3 DEF SavePhone
<1>16. ASSUME NEW a \in Addresses, DeleteAddress(a) PROVE IInv'
  <2>1. db \in Tables /\ db = committed
    BY <1>16 DEF DeleteAddress, Alone, TypeOK, Progress
  <2> DEFINE rows == [db EXCEPT !.address = Drop(@, {a})]
  <2>2. rows \in Tables
    BY <2>1, DropFits
  <2>3. rows.user = db.user /\ rows.phone = db.phone
    BY <2>1, TablesFit
  <2>4. Alone(rows)
    BY <1>16 DEF DeleteAddress
  <2> QED BY <1>13, <2>1, <2>2, <2>3, <2>4 DEF OwnersExist
<1>17. ASSUME NEW p \in Phones, DeletePhone(p) PROVE IInv'
  <2>1. db \in Tables /\ db = committed
    BY <1>17 DEF DeletePhone, Alone, TypeOK, Progress
  <2> DEFINE rows == [db EXCEPT !.phone = Drop(@, {p})]
  <2>2. rows \in Tables
    BY <2>1, DropFits
  <2>3. rows.user = db.user /\ rows.phone = Drop(db.phone, {p})
    BY <2>1, TablesFit
  <2>4. Alone(rows)
    BY <1>17 DEF DeletePhone
  <2>5. \A q \in DOMAIN rows.phone :
          rows.phone[q].owner \in DOMAIN rows.user \cup {Null}
    BY <2>1, <2>3 DEF Drop, Restrict, OwnersExist
  <2> QED BY <1>13, <2>2, <2>4, <2>5
<1>18. CASE UNCHANGED vars
  BY <1>18 DEF vars, TypeOK, OwnersExist, Progress, Written, SavedUpTo, Loaded,
               DeletedUpTo, RowGone, Addressed, Row, Kept
<1> QED
  BY <1>1, <1>2, <1>3, <1>4, <1>5, <1>6, <1>7, <1>8, <1>9, <1>10, <1>11, <1>12,
     <1>14, <1>15, <1>16, <1>17, <1>18 DEF Next

(* IInv holds throughout. *)
THEOREM Invariant == Spec => []IInv
BY InitInv, NextInv, PTL DEF Spec

(* The operators of the abstract store are those of the tables. *)
LEMMA SameTables ==
  /\ Store!UserObjects = UserObjects
  /\ \A t, u : Store!UserReads(t, u) = UserReads(t, u)
  /\ \A t, p : Store!PhoneReads(t, p) = PhoneReads(t, p)
  /\ \A t, u : Store!PhonesOf(t, u) = PhonesOf(t, u)
  /\ \A t, o : Store!PutAddress(t, o) = PutAddress(t, o)
  /\ \A t, x, r : Store!Put(t, x, r) = Put(t, x, r)
  /\ \A t, X : Store!Drop(t, X) = Drop(t, X)
  /\ \A t, p, n, u : Store!PutPhone(t, p, n, u) = PutPhone(t, p, n, u)
  /\ Store!NoRows = NoRows
  /\ Store!Numbers = Numbers
<1>1. Store!UserObjects = UserObjects
  BY DEF Store!UserObjects, UserObjects, Store!Numbers, Numbers, Store!FunctionsInto,
         FunctionsInto
<1>2. Store!NoRows = NoRows /\ Store!Numbers = Numbers
  BY DEF Store!NoRows, NoRows, Store!Numbers, Numbers
<1>3. \A t, p : Store!PhoneReads(t, p) = PhoneReads(t, p)
  BY DEF Store!PhoneReads, PhoneReads
<1>4. \A t, u : Store!PhonesOf(t, u) = PhonesOf(t, u)
  BY DEF Store!PhonesOf, PhonesOf
<1>5. \A t, u : Store!UserReads(t, u) = UserReads(t, u)
  BY <1>3, <1>4 DEF Store!UserReads, UserReads
<1>6. \A t, x, r : Store!Put(t, x, r) = Put(t, x, r)
  BY DEF Store!Put, Put
<1>7. \A t, X : Store!Drop(t, X) = Drop(t, X)
  BY DEF Store!Drop, Drop, Store!Restrict, Restrict
<1>8. \A t, o : Store!PutAddress(t, o) = PutAddress(t, o)
  BY <1>6 DEF Store!PutAddress, PutAddress
<1>9. \A t, p, n, u : Store!PutPhone(t, p, n, u) = PutPhone(t, p, n, u)
  BY <1>6 DEF Store!PutPhone, PutPhone
<1> QED BY <1>1, <1>2, <1>3, <1>4, <1>5, <1>6, <1>7, <1>8, <1>9

(* The commit at the end of a save is the save of the whole object. *)
LEMMA SavesWhole ==
  ASSUME IInv, at = "done", SavedUpTo(DOMAIN call.phones), committed' = db
  PROVE  \E o \in UserObjects : Store!SaveWhole(o)
<1> DEFINE S == DOMAIN call.phones
<1>1. call \in UserObjects /\ db \in Tables /\ committed \in Tables
  BY DEF IInv, TypeOK, Progress
<1>2. /\ Addressed \in Tables /\ Addressed.user = committed.user
  BY <1>1, AddressFits DEF Addressed
<1>3. \A p \in S \cap Kept : PhoneReads(committed, p)
  BY DEF SavedUpTo
<1>4. UserReads(Addressed, call.id)
  BY DEF SavedUpTo, Written
<1>5. db = [Addressed EXCEPT
              !.user = Put(@, call.id, [name |-> call.name, address |-> call.address]),
              !.phone = [p \in Kept \cup S |->
                           IF p \in S THEN [number |-> call.phones[p], owner |-> call.id]
                           ELSE committed.phone[p]]]
  <2>1. /\ db = [user |-> db.user, address |-> db.address, phone |-> db.phone]
        /\ Addressed = [user |-> Addressed.user, address |-> Addressed.address,
                        phone |-> Addressed.phone]
    BY <1>1, <1>2, TablesFit
  <2>2. /\ db.user = Put(committed.user, call.id, [name |-> call.name, address |-> call.address])
        /\ db.address = Addressed.address
        /\ db.phone = [p \in Kept \cup S |->
                         IF p \in S THEN [number |-> call.phones[p], owner |-> call.id]
                         ELSE committed.phone[p]]
    BY DEF SavedUpTo, Written, Row
  <2> QED BY <1>2, <2>1, <2>2
<1>6. Store!SaveWhole(call)
  BY <1>3, <1>4, <1>5, SameTables DEF Store!SaveWhole, Addressed, Kept
<1> QED BY <1>1, <1>6

(* The commit at the end of a delete is the delete of the whole object. *)
LEMMA DeletesWhole ==
  ASSUME IInv, at = "done", DeletedUpTo(DOMAIN call.phones), RowGone,
         db.address = Drop(committed.address, {call.address}), committed' = db
  PROVE  \E u \in Users : Store!DeleteWhole(u)
<1>1. call \in UserObjects /\ db \in Tables
  BY DEF IInv, TypeOK, Progress
<1>2. call.id \in Users
  BY <1>1, UserFits
<1>3. db = [user |-> db.user, address |-> db.address, phone |-> db.phone]
  BY <1>1, TablesFit
<1>4. Store!DeleteWhole(call.id)
  BY <1>3, SameTables DEF Store!DeleteWhole, DeletedUpTo, Loaded, RowGone
<1> QED BY <1>2, <1>4

(* Every step is one of the abstract store or leaves the committed rows *)
(* alone.                                                               *)
LEMMA StepStores == IInv /\ [Next]_vars => [Store!StoreNext]_committed
<1> SUFFICES ASSUME IInv, [Next]_vars, committed' # committed PROVE Store!StoreNext
  OBVIOUS
<1>1. CASE Commit
  <2>1. at = "done" /\ committed' = db
    BY <1>1 DEF Commit, IInv, Progress
  <2>2. \/ SavedUpTo(DOMAIN call.phones)
        \/ /\ DeletedUpTo(DOMAIN call.phones) /\ RowGone
           /\ db.address = Drop(committed.address, {call.address})
    BY <2>1 DEF IInv, Progress
  <2>3. \/ \E o \in UserObjects : Store!SaveWhole(o)
        \/ \E u \in Users : Store!DeleteWhole(u)
    BY <2>1, <2>2, SavesWhole, DeletesWhole
  <2> QED BY <2>3, SameTables DEF Store!StoreNext
<1>2. ASSUME NEW a \in Addresses, NEW v \in Values, SaveAddress(a, v) PROVE Store!PutOne
  <2>1. committed' = [committed EXCEPT !.address = Put(@, a, v)]
    BY <1>2 DEF SaveAddress, Alone, IInv, Progress
  <2> QED BY <2>1, SameTables DEF Store!PutOne
<1>3. ASSUME NEW p \in Phones, NEW n \in Numbers, SavePhone(p, n) PROVE Store!PutOne
  <2>1. committed' = PutPhone(committed, p, n, Null)
    BY <1>3 DEF SavePhone, Alone, IInv, Progress
  <2> QED BY <2>1, SameTables DEF Store!PutOne
<1>4. ASSUME NEW a \in Addresses, DeleteAddress(a) PROVE Store!DropOne
  <2>1. committed' = [committed EXCEPT !.address = Drop(@, {a})]
    BY <1>4 DEF DeleteAddress, Alone, IInv, Progress
  <2> QED BY <2>1, SameTables DEF Store!DropOne
<1>5. ASSUME NEW p \in Phones, DeletePhone(p) PROVE Store!DropOne
  <2>1. committed' = [committed EXCEPT !.phone = Drop(@, {p})]
    BY <1>5 DEF DeletePhone, Alone, IInv, Progress
  <2> QED BY <2>1, SameTables DEF Store!DropOne
<1>6. \/ Commit
      \/ \E a \in Addresses, v \in Values : SaveAddress(a, v)
      \/ \E p \in Phones, n \in Numbers : SavePhone(p, n)
      \/ \E a \in Addresses : DeleteAddress(a)
      \/ \E p \in Phones : DeletePhone(p)
  BY DEF Next, vars, Save, SaveOneToOne, SaveRow, ClearBackRefs, SaveOneToMany, SavedAll,
         Delete, DeleteOneToMany, DeleteRow, DeleteOneToOne, Throw
<1> QED BY <1>1, <1>2, <1>3, <1>4, <1>5, <1>6 DEF Store!StoreNext

(* The statements that SaveCommand and DeleteCommand issue one by one, with a *)
(* commit at the end, implement a store that saves and deletes whole objects  *)
(* in one step.                                                               *)
THEOREM StoreImplemented == Spec => ImplementsStore
<1>1. Init => Store!StoreInit
  BY SameTables DEF Init, Store!StoreInit
<1> QED BY <1>1, Invariant, StepStores, PTL DEF Spec, ImplementsStore, Store!StoreSpec

(* The last step of a save: all of the object is in the rows. *)
LEMMA SaveReturns ==
  ASSUME IInv, [Next]_vars, at = "oneToMany", at' = "done"
  PROVE  /\ db' = db /\ call \in UserObjects /\ SavedUpTo(DOMAIN call.phones)
         /\ db \in Tables /\ committed \in Tables
<1>1. SavedAll
  BY DEF Next, vars, Save, SaveOneToOne, SaveRow, ClearBackRefs, SaveOneToMany, SavedAll,
         Delete, DeleteOneToMany, DeleteRow, DeleteOneToOne, Throw, Commit, SaveAddress,
         SavePhone, DeleteAddress, DeletePhone, Alone
<1>2. DOMAIN call.phones \ todo = DOMAIN call.phones
  BY <1>1 DEF SavedAll
<1> QED BY <1>1, <1>2 DEF SavedAll, IInv, TypeOK, Progress

(* The object just saved is read back from the rows field by field, if its *)
(* phones have numbers.                                                    *)
LEMMA ReadBack ==
  ASSUME IInv, [Next]_vars, at = "oneToMany", at' = "done", Null \notin Range(call.phones)
  PROVE  UserReads(db', call.id) /\ Load(db', call.id) = call
<1>1. /\ db' = db /\ call \in UserObjects /\ SavedUpTo(DOMAIN call.phones)
      /\ db \in Tables /\ committed \in Tables
  BY SaveReturns
<1>2. /\ call = [id |-> call.id, name |-> call.name, address |-> call.address,
                 street |-> call.street, phones |-> call.phones]
      /\ call.phones \in [DOMAIN call.phones -> Numbers]
      /\ (call.address = Null) <=> (call.street = Null)
  BY <1>1, UserFits
<1>3. call.id \in DOMAIN db.user /\ db.user[call.id] = Row
  BY <1>1 DEF SavedUpTo, Written, Put
<1>4. /\ PhonesOf(db, call.id) = DOMAIN call.phones
      /\ \A p \in DOMAIN call.phones : db.phone[p].number = call.phones[p]
  <2>1. /\ DOMAIN db.phone = Kept \cup DOMAIN call.phones
        /\ \A p \in DOMAIN call.phones :
             db.phone[p].number = call.phones[p] /\ db.phone[p].owner = call.id
        /\ \A p \in Kept \ DOMAIN call.phones : db.phone[p] = committed.phone[p]
    BY <1>1 DEF SavedUpTo
  <2>2. \A p \in Kept : committed.phone[p].owner # call.id
    BY DEF Kept, PhonesOf
  <2> QED BY <2>1, <2>2 DEF PhonesOf
<1>5. call.address # Null => /\ call.address \in DOMAIN db.address
                            /\ db.address[call.address] = call.street
  BY <1>1, AddressFits DEF SavedUpTo, Written, Addressed
<1>6. \A p \in DOMAIN call.phones : call.phones[p] # Null
  BY DEF Range
<1>7. UserReads(db, call.id)
  BY <1>3, <1>4, <1>5, <1>6 DEF UserReads, PhoneReads, Row
<1>8. [p \in PhonesOf(db, call.id) |-> db.phone[p].number] = call.phones
  BY <1>2, <1>4
<1>9. (IF Row.address = Null THEN Null ELSE db.address[Row.address]) = call.street
  BY <1>2, <1>5 DEF Row
<1>10. Load(db, call.id) = call
  BY <1>2, <1>3, <1>8, <1>9 DEF Load, Row
<1> QED BY <1>1, <1>7, <1>10

(* A save leaves every other user readable. *)
LEMMA OthersRead ==
  ASSUME IInv, [Next]_vars, at = "oneToMany", at' = "done",
         NEW u \in DOMAIN committed.user \ {call.id}, UserReads(committed, u)
  PROVE  UserReads(db', u)
<1>1. /\ db' = db /\ call \in UserObjects /\ SavedUpTo(DOMAIN call.phones)
      /\ db \in Tables /\ committed \in Tables
  BY SaveReturns
<1>2. u \in DOMAIN db.user /\ db.user[u] = committed.user[u]
  BY <1>1 DEF SavedUpTo, Written, Put
<1>3. DOMAIN committed.address \subseteq DOMAIN db.address
  BY <1>1, AddressFits DEF SavedUpTo, Written, Addressed
<1>4. \A p \in PhonesOf(db, u) :
        p \in PhonesOf(committed, u) /\ db.phone[p] = committed.phone[p]
  BY <1>1 DEF SavedUpTo, PhonesOf, Kept
<1> QED
  BY <1>1, <1>2, <1>3, <1>4 DEF UserReads, PhoneReads, PhonesOf

(* The committed rows fit the schema, and no phone is owned by a user that *)
(* does not exist, whatever sequence of saves, deletes and failures came   *)
(* before.                                                                 *)
THEOREM TablesStayInOrder == Spec => []TablesInOrder
<1>1. IInv => TablesInOrder
  BY DEF IInv, TablesInOrder
<1> QED BY <1>1, Invariant, PTL

(* What MyORM saves is what it loads, and it harms no other user. *)
THEOREM SavesAreSound == Spec => SavesSound
<1>1. IInv /\ [Next]_vars =>
        [ at = "oneToMany" /\ at' = "done" /\ Null \notin Range(call.phones)
            => UserReads(db', call.id) /\ Load(db', call.id) = call ]_vars
  BY ReadBack
<1>2. IInv /\ [Next]_vars =>
        [ at = "oneToMany" /\ at' = "done" =>
            \A u \in DOMAIN committed.user \ {call.id} :
              UserReads(committed, u) => UserReads(db', u) ]_vars
  BY OthersRead
<1> QED
  BY <1>1, <1>2, Invariant, PTL DEF Spec, SavesSound, SavedIsRead, SavingHarmsNobody
=============================================================================
