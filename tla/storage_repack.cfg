\* A repack renumbers the live slots of a page and leaves the row-id map alone.
SPECIFICATION Spec
CONSTANTS
  MaxPages = 2
  MaxRow = 3
  MaxSlots = 3
  GivenIds = {}
  DamageRows = 4
  Values = {1, 2}
  Null = Null
  Capacity = 3
  SplitRows = 5
  Ops = {"Eq"}
INVARIANT SurvivorsReachable
CHECK_DEADLOCK FALSE
