----------------------------- MODULE TxnManager -----------------------------
(***************************************************************************)
(* The MVCC transaction manager of src/src/txn.rs: a logical clock, a      *)
(* registry of transactions, a version chain per row, a lock table for     *)
(* write intents, and a wait-for graph.  One action per public operation;  *)
(* the write-ahead log that every operation also journals to is added by   *)
(* module TxnWal, which conjoins the appended records to these actions.    *)
(*                                                                         *)
(* A Vec whose order matters (a version chain, the savepoints of a         *)
(* transaction) is a set of records with a position `pos`: a push takes    *)
(* the position after the largest one, "newest first" is "largest pos      *)
(* first", and retain/remove are set differences.                          *)
(*                                                                         *)
(* Operators marked "Fault" are not part of the model: each is a variant   *)
(* of the definition behind it with one plausible bug, kept to show which  *)
(* property notices that bug.                                              *)
(***************************************************************************)
EXTENDS Naturals, Sequences, FiniteSets

CONSTANTS
  Rows,          \* row ids
  Values,        \* cell values
  Absent,        \* what a delete tombstone stores, and what a read that finds no row returns
  NoTxn,         \* Option::None where a TransactionId is expected
  SavepointNames,
  Isolations,    \* the isolation levels transactions are begun at
  TxnIds,        \* ids the manager may hand out: 1 .. n, a bound on next_txn_id
  TsInf,         \* TS_INF; the clock stays below it
  MaxUndo,       \* bound on the length of one undo log
  MaxPos         \* bound on the positions of a version chain and of savepoints

IsolationLevels ==
  {"ReadUncommitted", "ReadCommitted", "RepeatableRead", "Serializable"}

ASSUME TxnIdsAssumption == TxnIds \subseteq Nat \ {0} /\ NoTxn \notin TxnIds
ASSUME TsInfAssumption == TsInf \in Nat /\ TsInf > 1
ASSUME AbsentAssumption == Absent \notin Values
ASSUME IsolationAssumption == Isolations \subseteq IsolationLevels
ASSUME MaxUndoAssumption == MaxUndo \in Nat /\ MaxPos \in Nat

VARIABLES
  nextTs, nextTxnId,       \* the clock and the id allocator
  state,                   \* TxnState; "Unknown" is an id not in the registry
  isolation, beginTs, commitTs,
  snapshotTs, viewActive,  \* the read view: snapshot_ts and active
  readSet, writeSet, predicateRows,
  undo,                    \* rows of the undo records, oldest first
  savepoints,
  active,                  \* the active set of the manager
  chains,                  \* row -> versions
  exclusive, shared,       \* the lock table
  waitFor,                 \* waiter -> holders
  predicateLocks           \* the manager-level registry of predicate locks

clockVars == <<nextTs, nextTxnId>>
viewVars == <<snapshotTs, viewActive>>
setVars == <<readSet, writeSet, predicateRows>>
undoVars == <<undo, savepoints>>
lockVars == <<exclusive, shared, waitFor>>
idVars == <<isolation, beginTs>>
endVars == <<state, commitTs, active>>

vars == <<clockVars, idVars, endVars, viewVars, setVars, undoVars, chains,
          lockVars, predicateLocks>>

Live == {"Active", "Prepared"}
Timestamps == 0 .. TsInf
Cells == Values \cup {Absent}

Versions ==
  [value : Cells, begin : Timestamps, end : Timestamps,
   writer : TxnIds, committed : BOOLEAN, pos : 1 .. MaxPos]

SavepointRecords ==
  [name : SavepointNames, pos : 1 .. MaxPos, undoLen : Nat,
   writeSet : SUBSET Rows, readSet : SUBSET Rows]

-----------------------------------------------------------------------------
(* Ordered collections.                                                    *)

\* The first element in newest-first order.
Newest(S) == CHOOSE v \in S : \A w \in S : w.pos <= v.pos

\* The position push_head gives a new element.
NextPos(S) == IF S = {} THEN 1 ELSE Newest(S).pos + 1

-----------------------------------------------------------------------------
(* Read views and visibility.                                              *)

IsLive(t) == state[t] \in Live

View(t) ==
  [reader |-> t, snapshot |-> snapshotTs[t], active |-> viewActive[t],
   isolation |-> isolation[t]]

\* Fault: the refresh moves the snapshot and forgets the active set.
StatementViewStaleActive(t) ==
  IF isolation[t] = "ReadCommitted" THEN [View(t) EXCEPT !.snapshot = nextTs]
  ELSE View(t)

\* The view a statement of t reads through: refreshed under read committed.
StatementView(t) ==
  IF isolation[t] = "ReadCommitted"
  THEN [View(t) EXCEPT !.snapshot = nextTs, !.active = active]
  ELSE View(t)

IsVisible(view, v) ==
  \/ /\ ~v.committed
     /\ v.writer = view.reader \/ view.isolation = "ReadUncommitted"
  \/ /\ v.committed
     /\ v.writer \notin view.active
     /\ v.begin <= view.snapshot
     /\ v.end > view.snapshot

\* Fault: a read stops at the oldest visible version.
ReadFromOldest(chain, view) ==
  LET visible == {v \in chain : IsVisible(view, v)}
  IN  IF visible = {} THEN Absent
      ELSE (CHOOSE v \in visible : \A w \in visible : v.pos <= w.pos).value

\* What a read through the view returns out of a chain.
ReadFrom(chain, view) ==
  LET visible == {v \in chain : IsVisible(view, v)}
  IN  IF visible = {} THEN Absent ELSE Newest(visible).value

RowExists(t, r) == ReadFrom(chains[r], StatementView(t)) # Absent

\* The state change every read makes.
RecordRead(t, r) ==
  /\ snapshotTs' = [snapshotTs EXCEPT ![t] = StatementView(t).snapshot]
  /\ viewActive' = [viewActive EXCEPT ![t] = StatementView(t).active]
  /\ readSet' = [readSet EXCEPT ![t] = @ \cup {r}]

-----------------------------------------------------------------------------
(* Version chains.                                                         *)

Intent(t, c, chain) ==
  [value |-> c, begin |-> beginTs[t], end |-> TsInf, writer |-> t,
   committed |-> FALSE, pos |-> NextPos(chain)]

Push(t, r, c) ==
  chains' = [chains EXCEPT ![r] = @ \cup {Intent(t, c, @)}]

OwnIntents(t, chain) == {v \in chain : v.writer = t /\ ~v.committed}

Current(chain) == {v \in chain : v.committed /\ v.end = TsInf}

\* Fault: the version the commit supersedes stays open.
FinalizeWriteUnclosed(chain, t, ts) ==
  LET mine == Newest(OwnIntents(t, chain))
  IN  IF OwnIntents(t, chain) = {} THEN chain
      ELSE (chain \ {mine}) \cup {[mine EXCEPT !.committed = TRUE, !.begin = ts]}

\* Fault: the oldest intent is stamped.
FinalizeWriteOldest(chain, t, ts) ==
  LET own == OwnIntents(t, chain)
      mine == CHOOSE v \in own : \A w \in own : v.pos <= w.pos
      closed == IF Current(chain) = {} THEN {} ELSE {Newest(Current(chain))}
  IN  IF own = {} THEN chain
      ELSE (chain \ ({mine} \cup closed))
             \cup {[v EXCEPT !.end = ts] : v \in closed}
             \cup {[mine EXCEPT !.committed = TRUE, !.begin = ts, !.end = TsInf]}

\* Stamp the newest intent of t and close the first current version.
FinalizeWrite(chain, t, ts) ==
  LET mine == Newest(OwnIntents(t, chain))
      closed == IF Current(chain) = {} THEN {} ELSE {Newest(Current(chain))}
  IN  IF OwnIntents(t, chain) = {} THEN chain
      ELSE (chain \ ({mine} \cup closed))
             \cup {[v EXCEPT !.end = ts] : v \in closed}
             \cup {[mine EXCEPT !.committed = TRUE, !.begin = ts, !.end = TsInf]}

StripWriter(chain, t) == chain \ OwnIntents(t, chain)

\* How many of the records from..Len(log) touch row r.
Touches(log, from, r) == Cardinality({i \in from .. Len(log) : log[i] = r})

\* Fault: one intent too many is undone.
NewestIntentsPlusOne(t, chain, n) ==
  {v \in OwnIntents(t, chain) :
     n > 0 /\ Cardinality({w \in OwnIntents(t, chain) : w.pos > v.pos}) <= n}

\* The n newest intents of t, in the order undo_one removes them.
NewestIntents(t, chain, n) ==
  {v \in OwnIntents(t, chain) :
     Cardinality({w \in OwnIntents(t, chain) : w.pos > v.pos}) < n}

-----------------------------------------------------------------------------
(* The lock table and the wait-for graph.                                  *)

ExclusiveFree(t, r) ==
  exclusive[r] = t \/ (exclusive[r] = NoTxn /\ shared[r] \subseteq {t})

SharedFree(t, r) == exclusive[r] \in {t, NoTxn}

\* Fault: the empty exclusive slot counts as a holder.
OtherHoldersOrNone(t, r) == (shared[r] \cup {exclusive[r]}) \ {t}

OtherHolders(t, r) == (shared[r] \cup ({exclusive[r]} \ {NoTxn})) \ {t}

\* A refused acquisition: the attempted wait is recorded, nothing else moves.
RecordWait(t, holders) ==
  /\ waitFor' = [waitFor EXCEPT ![t] = @ \cup holders]
  /\ UNCHANGED <<exclusive, shared>>

GrantExclusive(t, r) ==
  /\ exclusive' = [exclusive EXCEPT ![r] = t]
  /\ shared' = [shared EXCEPT ![r] = @ \ {t}]
  /\ waitFor' = [waitFor EXCEPT ![t] = {}]

\* acquire_exclusive followed by release_one_lock on the same row.
GrantAndReleaseOne(t, r) ==
  /\ exclusive' = [exclusive EXCEPT ![r] = NoTxn]
  /\ shared' = [shared EXCEPT ![r] = @ \ {t}]
  /\ waitFor' = [waitFor EXCEPT ![t] = {}]

\* Fault: edges to the finished holder stay in the wait-for graph.
ReleaseLocksKeepEdges(t) ==
  /\ exclusive' = [r \in Rows |-> IF exclusive[r] = t THEN NoTxn ELSE exclusive[r]]
  /\ shared' = [r \in Rows |-> shared[r] \ {t}]
  /\ waitFor' = [waitFor EXCEPT ![t] = {}]

ReleaseLocks(t) ==
  /\ exclusive' = [r \in Rows |-> IF exclusive[r] = t THEN NoTxn ELSE exclusive[r]]
  /\ shared' = [r \in Rows |-> shared[r] \ {t}]
  /\ waitFor' = [w \in TxnIds |-> IF w = t THEN {} ELSE waitFor[w] \ {t}]

-----------------------------------------------------------------------------
(* Transaction lifecycle.                                                  *)

Init ==
  /\ nextTs = 1 /\ nextTxnId = 1
  /\ state = [t \in TxnIds |-> "Unknown"]
  /\ isolation = [t \in TxnIds |-> "RepeatableRead"]
  /\ beginTs = [t \in TxnIds |-> 0]
  /\ commitTs = [t \in TxnIds |-> 0]
  /\ snapshotTs = [t \in TxnIds |-> 0]
  /\ viewActive = [t \in TxnIds |-> {}]
  /\ readSet = [t \in TxnIds |-> {}]
  /\ writeSet = [t \in TxnIds |-> {}]
  /\ predicateRows = [t \in TxnIds |-> {}]
  /\ undo = [t \in TxnIds |-> <<>>]
  /\ savepoints = [t \in TxnIds |-> {}]
  /\ active = {}
  /\ chains = [r \in Rows |-> {}]
  /\ exclusive = [r \in Rows |-> NoTxn]
  /\ shared = [r \in Rows |-> {}]
  /\ waitFor = [t \in TxnIds |-> {}]
  /\ predicateLocks = [t \in TxnIds |-> {}]

\* The clock has a timestamp left below TS_INF.
CanTick == nextTs + 1 < TsInf

Begin(t, level) ==
  /\ t = nextTxnId /\ CanTick
  /\ nextTxnId' = nextTxnId + 1
  /\ nextTs' = nextTs + 1
  /\ state' = [state EXCEPT ![t] = "Active"]
  /\ isolation' = [isolation EXCEPT ![t] = level]
  /\ beginTs' = [beginTs EXCEPT ![t] = nextTs]
  /\ snapshotTs' = [snapshotTs EXCEPT ![t] = nextTs]
  /\ viewActive' = [viewActive EXCEPT ![t] = active]
  /\ active' = active \cup {t}
  /\ UNCHANGED <<commitTs, setVars, undoVars, chains, lockVars, predicateLocks>>

Prepare(t) ==
  /\ IsLive(t)
  /\ state' = [state EXCEPT ![t] = "Prepared"]
  /\ UNCHANGED <<clockVars, idVars, commitTs, active, viewVars, setVars, undoVars,
                 chains, lockVars, predicateLocks>>

\* Fault: the read set is not checked.
ConflictRowsPredicateOnly(t) ==
  {r \in predicateRows[t] :
     \E v \in chains[r] :
       v.committed /\ v.writer # t /\ v.begin > beginTs[t] /\ v.begin # TsInf}

\* The rows whose read or predicate lock a later commit of another
\* transaction invalidated.
ConflictRows(t) ==
  {r \in readSet[t] \cup predicateRows[t] :
     \E v \in chains[r] :
       v.committed /\ v.writer # t /\ v.begin > beginTs[t] /\ v.begin # TsInf}

SerializableConflict(t) ==
  isolation[t] = "Serializable" /\ ConflictRows(t) # {}

Commit(t) ==
  /\ IsLive(t) /\ ~SerializableConflict(t) /\ CanTick
  /\ nextTs' = nextTs + 1
  /\ chains' = [r \in Rows |-> IF r \in writeSet[t]
                               THEN FinalizeWrite(chains[r], t, nextTs)
                               ELSE chains[r]]
  /\ state' = [state EXCEPT ![t] = "Committed"]
  /\ commitTs' = [commitTs EXCEPT ![t] = nextTs]
  /\ active' = active \ {t}
  /\ ReleaseLocks(t)
  /\ UNCHANGED <<nextTxnId, idVars, viewVars, setVars, undoVars, predicateLocks>>

\* What rollback does to a known transaction, whatever its state.
UndoAll(t) ==
  /\ chains' = [r \in Rows |-> IF r \in writeSet[t] THEN StripWriter(chains[r], t)
                                                   ELSE chains[r]]
  /\ state' = [state EXCEPT ![t] = "Aborted"]
  /\ undo' = [undo EXCEPT ![t] = <<>>]
  /\ active' = active \ {t}
  /\ ReleaseLocks(t)
  /\ UNCHANGED <<clockVars, idVars, commitTs, viewVars, setVars, savepoints,
                 predicateLocks>>

\* A commit that fails with a serialization conflict rolls back.
CommitConflict(t) == IsLive(t) /\ SerializableConflict(t) /\ UndoAll(t)

Rollback(t) == state[t] # "Unknown" /\ UndoAll(t)

-----------------------------------------------------------------------------
(* Statements.                                                             *)

Read(t, r) ==
  /\ IsLive(t)
  /\ RecordRead(t, r)
  /\ UNCHANGED <<clockVars, idVars, endVars, writeSet, predicateRows, undoVars,
                 chains, lockVars, predicateLocks>>

\* Any request for an exclusive lock that another holder refuses.
ExclusiveConflict(t, r) ==
  /\ IsLive(t) /\ ~ExclusiveFree(t, r)
  /\ RecordWait(t, OtherHolders(t, r))
  /\ UNCHANGED <<clockVars, idVars, endVars, viewVars, setVars, undoVars, chains,
                 predicateLocks>>

\* The intent, the undo record and the write set of a successful write.
Write(t, r, c) ==
  /\ Len(undo[t]) < MaxUndo /\ NextPos(chains[r]) <= MaxPos
  /\ GrantExclusive(t, r)
  /\ RecordRead(t, r)
  /\ Push(t, r, c)
  /\ undo' = [undo EXCEPT ![t] = Append(@, r)]
  /\ writeSet' = [writeSet EXCEPT ![t] = @ \cup {r}]
  /\ UNCHANGED <<clockVars, idVars, endVars, predicateRows, savepoints,
                 predicateLocks>>

Insert(t, r, c) ==
  /\ IsLive(t) /\ ExclusiveFree(t, r) /\ ~RowExists(t, r)
  /\ Write(t, r, c)

\* The row already exists: the lock is kept.
InsertExisting(t, r) ==
  /\ IsLive(t) /\ ExclusiveFree(t, r) /\ RowExists(t, r)
  /\ GrantExclusive(t, r)
  /\ RecordRead(t, r)
  /\ UNCHANGED <<clockVars, idVars, endVars, writeSet, predicateRows, undoVars,
                 chains, predicateLocks>>

Update(t, r, c) ==
  /\ IsLive(t) /\ ExclusiveFree(t, r) /\ RowExists(t, r)
  /\ Write(t, r, c)

Delete(t, r) ==
  /\ IsLive(t) /\ ExclusiveFree(t, r) /\ RowExists(t, r)
  /\ Write(t, r, Absent)

\* An update or delete that finds no visible row gives the row's lock up.
WriteMissing(t, r) ==
  /\ IsLive(t) /\ ExclusiveFree(t, r) /\ ~RowExists(t, r)
  /\ GrantAndReleaseOne(t, r)
  /\ RecordRead(t, r)
  /\ UNCHANGED <<clockVars, idVars, endVars, writeSet, predicateRows, undoVars,
                 chains, predicateLocks>>

-----------------------------------------------------------------------------
(* Explicit locks and predicate locks.                                     *)

AcquireExclusive(t, r) ==
  /\ IsLive(t) /\ ExclusiveFree(t, r)
  /\ GrantExclusive(t, r)
  /\ UNCHANGED <<clockVars, idVars, endVars, viewVars, setVars, undoVars, chains,
                 predicateLocks>>

AcquireShared(t, r) ==
  /\ IsLive(t)
  /\ IF SharedFree(t, r)
     THEN /\ shared' = [shared EXCEPT ![r] = IF exclusive[r] = t THEN @ ELSE @ \cup {t}]
          /\ waitFor' = [waitFor EXCEPT ![t] = {}]
          /\ UNCHANGED exclusive
     ELSE RecordWait(t, {exclusive[r]})
  /\ UNCHANGED <<clockVars, idVars, endVars, viewVars, setVars, undoVars, chains,
                 predicateLocks>>

AddPredicateLock(t, rows) ==
  /\ IsLive(t)
  /\ predicateRows' = [predicateRows EXCEPT ![t] = @ \cup rows]
  /\ readSet' = [readSet EXCEPT ![t] = @ \cup rows]
  /\ predicateLocks' = [predicateLocks EXCEPT ![t] = @ \cup rows]
  /\ UNCHANGED <<clockVars, idVars, endVars, viewVars, writeSet, undoVars, chains,
                 lockVars>>

-----------------------------------------------------------------------------
(* Savepoints.                                                             *)

Savepoint(t, name) ==
  /\ IsLive(t)
  /\ NextPos(savepoints[t]) <= MaxPos
  /\ \A s \in savepoints[t] : s.name # name
  /\ savepoints' = [savepoints EXCEPT ![t] = @ \cup
       {[name |-> name, pos |-> NextPos(@), undoLen |-> Len(undo[t]),
         writeSet |-> writeSet[t], readSet |-> readSet[t]]}]
  /\ UNCHANGED <<clockVars, idVars, endVars, viewVars, setVars, undo, chains,
                 lockVars, predicateLocks>>

\* Undo back to s: per row, as many of the newest intents as there are undo
\* records past the savepoint; each undone row gives its exclusive lock up.
RollbackTo(t, s) ==
  LET undone(r) == Touches(undo[t], s.undoLen + 1, r)
      freed == {r \in Rows : undone(r) > 0 /\ chains[r] # {} /\ exclusive[r] = t}
  IN  /\ IsLive(t) /\ s \in savepoints[t]
      /\ savepoints' = [savepoints EXCEPT ![t] = {p \in @ : p.undoLen <= s.undoLen}]
      /\ undo' = [undo EXCEPT ![t] = SubSeq(@, 1, s.undoLen)]
      /\ chains' = [r \in Rows |-> chains[r] \ NewestIntents(t, chains[r], undone(r))]
      /\ exclusive' = [r \in Rows |-> IF r \in freed THEN NoTxn ELSE exclusive[r]]
      /\ writeSet' = [writeSet EXCEPT ![t] = s.writeSet]
      /\ readSet' = [readSet EXCEPT ![t] = s.readSet]
      /\ UNCHANGED <<clockVars, idVars, endVars, viewVars, predicateRows, shared,
                     waitFor, predicateLocks>>

RollbackToSavepoint(t) == \E s \in savepoints[t] : RollbackTo(t, s)

ReleaseSavepoint(t, name) ==
  /\ IsLive(t)
  /\ \E s \in savepoints[t] : s.name = name
  /\ savepoints' = [savepoints EXCEPT ![t] = {s \in @ : s.name # name}]
  /\ UNCHANGED <<clockVars, idVars, endVars, viewVars, setVars, undo, chains,
                 lockVars, predicateLocks>>

-----------------------------------------------------------------------------
(* Garbage collection.                                                     *)

\* Fault: versions are retained by when they began, not by when they ended.
RetainedByBegin(chain) ==
  {v \in chain : ~v.committed \/ v.end = TsInf
                   \/ \E t \in active : v.begin >= snapshotTs[t]}

\* Kept: intents, current versions, and whatever ended at or after the
\* oldest active snapshot (TS_INF when nothing is active).
Retained(chain) ==
  {v \in chain : ~v.committed \/ v.end = TsInf
                   \/ \E t \in active : v.end >= snapshotTs[t]}

GarbageCollect ==
  /\ chains' = [r \in Rows |-> Retained(chains[r])]
  /\ predicateLocks' =
       [t \in TxnIds |-> IF t \in active THEN predicateLocks[t] ELSE {}]
  /\ UNCHANGED <<clockVars, idVars, endVars, viewVars, setVars, undoVars, lockVars>>

-----------------------------------------------------------------------------
LifecycleNext ==
  \E t \in TxnIds :
    \/ \E level \in Isolations : Begin(t, level)
    \/ Prepare(t)
    \/ Commit(t)
    \/ CommitConflict(t)
    \/ Rollback(t)

StatementNext ==
  \E t \in TxnIds, r \in Rows :
    \/ Read(t, r)
    \/ ExclusiveConflict(t, r)
    \/ \E c \in Values : Insert(t, r, c) \/ Update(t, r, c)
    \/ InsertExisting(t, r)
    \/ Delete(t, r)
    \/ WriteMissing(t, r)

LockNext ==
  \E t \in TxnIds :
    \/ \E r \in Rows : AcquireExclusive(t, r) \/ AcquireShared(t, r)
    \/ \E rows \in SUBSET Rows : AddPredicateLock(t, rows)

SavepointNext ==
  \E t \in TxnIds :
    \/ \E name \in SavepointNames : Savepoint(t, name) \/ ReleaseSavepoint(t, name)
    \/ RollbackToSavepoint(t)

Next == LifecycleNext \/ StatementNext \/ LockNext \/ SavepointNext \/ GarbageCollect

Spec == Init /\ [][Next]_vars
=============================================================================
