\* A write that fails gives up the lock of an earlier write of its transaction.
SPECIFICATION IsolationSpec
VIEW LiveView
SYMMETRY Symmetry
CONSTANTS
  r1 = r1
  r2 = r2
  v1 = v1
  v2 = v2
  s1 = s1
  Rows = {r1}
  Values = {v1}
  Absent = Absent
  NoTxn = NoTxn
  SavepointNames = {}
  Isolations = {"RepeatableRead", "ReadCommitted"}
  TxnIds = {1, 2}
  TsInf = 6
  MaxUndo = 3
  MaxPos = 4
  SegRecords = 1
  MaxLsn = 1
INVARIANTS OneWriterPerRow
CHECK_DEADLOCK FALSE
