\* Two transactions on two rows; the first one takes savepoints.
SPECIFICATION SavepointSpec
VIEW LiveView
SYMMETRY Symmetry
CONSTANTS
  r1 = r1
  r2 = r2
  v1 = v1
  v2 = v2
  s1 = s1
  Rows = {r1, r2}
  Values = {v1}
  Absent = Absent
  NoTxn = NoTxn
  SavepointNames = {s1}
  Isolations = {"ReadCommitted", "RepeatableRead"}
  TxnIds = {1, 2}
  TsInf = 6
  MaxUndo = 2
  MaxPos = 3
  SegRecords = 1
  MaxLsn = 1
INVARIANTS TypeOK LocksHeldByActive UndoMirrorsIntents
PROPERTIES ImplementsSnapshotIsolation
CHECK_DEADLOCK FALSE
