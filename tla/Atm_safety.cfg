\* Every sequence of commands on the two machines.
SPECIFICATION Spec
CONSTANTS
  a1 = a1
  a2 = a2
  EURO = EURO
  RUB = RUB
  Atms = {a1, a2}
  Currencies = {EURO, RUB}
  Notes = {1, 2, 3}
  Nominal <- TwoNominals
  CurrencyOf <- TwoCurrencies
  Cells = {1, 2, 3, 4, 5}
  CellAtm <- RackAtm
  CellNote <- RackNote
  CellInitial <- RackInitial
  Packs <- SomePacks
  Sums = {0, 1, 3, 4, 7, 9}
  Broken = {a2}
  MaxNotes = 3
INVARIANTS
  BooksInOrder
PROPERTIES
  PaidInFull
  FullerCellsFirst
  RestoredIndependently
