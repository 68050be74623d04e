\* Two users who may share an address, and two phones that may change hands.
SPECIFICATION Spec
CONSTANTS
  Users = {u1, u2}
  Addresses = {a1}
  Phones = {p1, p2}
  Values = {v1, v2}
  Null = null
SYMMETRY RowSymmetry
INVARIANTS
  TablesInOrder
PROPERTIES
  SavesSound
  ImplementsStore
