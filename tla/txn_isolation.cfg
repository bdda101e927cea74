\* Three transactions on one row, of any mix of three levels; the clock covers
\* their begins and commits.
SPECIFICATION IsolationSpec
VIEW LiveView
SYMMETRY Symmetry
CONSTANTS
  r1 = r1
  r2 = r2
  v1 = v1
  v2 = v2
  s1 = s1
  Rows = {r1}
  Values = {v1}
  Absent = Absent
  NoTxn = NoTxn
  SavepointNames = {}
  Isolations = {"ReadCommitted", "RepeatableRead", "Serializable"}
  TxnIds = {1, 2, 3}
  TsInf = 8
  MaxUndo = 2
  MaxPos = 3
  SegRecords = 1
  MaxLsn = 1
INVARIANTS VersionTimeline ReadCommittedReadsLatest OwnWritesVisible
PROPERTIES SnapshotStable SerializableReadsCurrent
CHECK_DEADLOCK FALSE
