\* An update rewrites the cell and leaves the index alone. No row id is given, so
\* no row is inserted twice.
SPECIFICATION Spec
CONSTANTS
  MaxPages = 2
  MaxRow = 3
  MaxSlots = 3
  GivenIds = {}
  DamageRows = 4
  Values = {1, 2}
  Null = Null
  Capacity = 3
  SplitRows = 5
  Ops = {"Eq"}
INVARIANT UpdatesMoveIndexEntries
CHECK_DEADLOCK FALSE
