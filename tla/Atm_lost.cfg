\* BusinessScenarioTest: a failed withdrawal leaves the balance.
SPECIFICATION Spec
CONSTANTS
  a1 = a1
  a2 = a2
  EURO = EURO
  RUB = RUB
  Atms = {a1, a2}
  Currencies = {EURO, RUB}
  Notes = {1, 2, 3}
  Nominal <- TwoNominals
  CurrencyOf <- TwoCurrencies
  Cells = {1, 2, 3, 4, 5}
  CellAtm <- RackAtm
  CellNote <- RackNote
  CellInitial <- RackInitial
  Packs <- SomePacks
  Sums = {7, 9, 10}
  Broken = {a2}
  MaxNotes = 3
PROPERTIES
  FailureLeavesBalance
