\* Two pages of two rows, four row ids of which a statement may give the third
\* itself; a page is overfull above three rows.
SPECIFICATION Spec
CONSTANTS
  MaxPages = 2
  MaxRow = 4
  MaxSlots = 4
  GivenIds = {3}
  DamageRows = 3
  Values = {1, 2}
  Null = Null
  Capacity = 2
  SplitRows = 3
  Ops = {"Eq", "Ge"}
CONSTRAINT Bounded
INVARIANTS PageAccounting PathsAgree MapAgreesWithPages IndexedRowsExist IndexAgrees NextRowIsFresh
PROPERTY ImplementsTable
CHECK_DEADLOCK FALSE
