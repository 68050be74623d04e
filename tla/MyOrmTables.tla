------------------------------ MODULE MyOrmTables ------------------------------
(***************************************************************************)
(* The tables behind MyOrm and the objects that are stored in them: users    *)
(* with an address (@OneToOne) and phones (@OneToMany), as the classes of    *)
(* ru.otus.kirillov.model declare them.  The schema has no foreign keys.     *)
(***************************************************************************)
EXTENDS Functions

CONSTANTS
  Users, Addresses, Phones,  \* identifiers
  Values,                    \* names, streets and numbers
  Null                       \* a column that is null, or no object

ASSUME NullAssumption ==
  Null \notin Users \cup Addresses \cup Phones \cup Values

FunctionsInto(S, T) == UNION {[D -> T] : D \in SUBSET S}

(* A phone may be saved without its number. *)
Numbers == Values \cup {Null}

(* A user as it is handed to MyOrm, with its address and its phones. *)
UserObjects ==
  {o \in [id : Users, name : Values, address : Addresses \cup {Null},
          street : Values \cup {Null}, phones : FunctionsInto(Phones, Numbers)] :
     (o.address = Null) <=> (o.street = Null)}

ASSUME NoObjectAssumption == Null \notin UserObjects

Tables ==
  [user : FunctionsInto(Users, [name : Values, address : Addresses \cup {Null}]),
   address : FunctionsInto(Addresses, Values),
   phone : FunctionsInto(Phones, [number : Numbers, owner : Users \cup {Null}])]

NoRows == [user |-> <<>>, address |-> <<>>, phone |-> <<>>]

(* Insert or update, whichever the row calls for; delete by identifier. *)
Put(table, id, row) ==
  [x \in DOMAIN table \cup {id} |-> IF x = id THEN row ELSE table[x]]
Drop(table, ids) == Restrict(table, DOMAIN table \ ids)

PhonesOf(t, u) == {p \in DOMAIN t.phone : t.phone[p].owner = u}

(* Collectors.toMap refuses a null value: a phone without a number cannot be *)
(* turned into an object once its back reference has been taken out.         *)
PhoneReads(t, p) == p \in DOMAIN t.phone => t.phone[p].number # Null

(* The first result is taken of the select for a user's address. *)
UserReads(t, u) ==
  u \in DOMAIN t.user =>
    /\ t.user[u].address \in DOMAIN t.address \cup {Null}
    /\ \A p \in PhonesOf(t, u) : PhoneReads(t, p)

(* The object the rows of a stored user make. *)
Load(t, u) ==
  LET row == t.user[u] IN
  [id |-> u, name |-> row.name, address |-> row.address,
   street |-> IF row.address = Null THEN Null ELSE t.address[row.address],
   phones |-> [p \in PhonesOf(t, u) |-> t.phone[p].number]]

(* What the rows of an object's address and of a phone come to. *)
PutAddress(t, o) ==
  IF o.address = Null THEN t
  ELSE [t EXCEPT !.address = Put(@, o.address, o.street)]
PutPhone(t, p, number, owner) ==
  [t EXCEPT !.phone = Put(@, p, [number |-> number, owner |-> owner])]
=============================================================================
