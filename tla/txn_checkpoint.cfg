\* A checkpoint between the Begin and the Commit of a transaction.
SPECIFICATION RecoverySpec
VIEW LiveView
SYMMETRY ValueSymmetry
CONSTANTS
  r1 = r1
  r2 = r2
  v1 = v1
  v2 = v2
  s1 = s1
  Rows = {r1}
  Values = {v1, v2}
  Absent = Absent
  NoTxn = NoTxn
  SavepointNames = {}
  Isolations = {"RepeatableRead"}
  TxnIds = {1, 2, 3}
  TsInf = 12
  MaxUndo = 2
  MaxPos = 8
  SegRecords = 3
  MaxLsn = 8
INVARIANTS CommitsBehindCheckpointReplayed
CHECK_DEADLOCK FALSE
