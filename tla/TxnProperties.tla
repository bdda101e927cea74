--------------------------- MODULE TxnProperties ---------------------------
(***************************************************************************)
(* What the transaction manager promises, as state and action properties   *)
(* of TxnManager.  Each invariant is a conjunction of named parts, so that *)
(* the proofs of TxnManagerProofs can use the parts one at a time.         *)
(***************************************************************************)
EXTENDS TxnManager

\* The type invariant of the manager's fields (txn.rs:754-782).
TypeOK ==
  /\ nextTs \in Nat /\ nextTs < TsInf /\ nextTxnId \in Nat
  /\ state \in [TxnIds -> {"Unknown", "Active", "Prepared", "Committed", "Aborted"}]
  /\ isolation \in [TxnIds -> IsolationLevels]
  /\ beginTs \in [TxnIds -> Timestamps]
  /\ commitTs \in [TxnIds -> Timestamps]
  /\ snapshotTs \in [TxnIds -> Timestamps]
  /\ viewActive \in [TxnIds -> SUBSET TxnIds]
  /\ readSet \in [TxnIds -> SUBSET Rows]
  /\ writeSet \in [TxnIds -> SUBSET Rows]
  /\ predicateRows \in [TxnIds -> SUBSET Rows]
  /\ undo \in [TxnIds -> Seq(Rows)]
  /\ savepoints \in [TxnIds -> SUBSET SavepointRecords]
  /\ active \in SUBSET TxnIds
  /\ chains \in [Rows -> SUBSET Versions]
  /\ exclusive \in [Rows -> TxnIds \cup {NoTxn}]
  /\ shared \in [Rows -> SUBSET TxnIds]
  /\ waitFor \in [TxnIds -> SUBSET TxnIds]
  /\ predicateLocks \in [TxnIds -> SUBSET Rows]

-----------------------------------------------------------------------------
(* The lock table and the wait-for graph.                                  *)

\* The active set is the registry's live transactions.
ActiveIsLive == active = {t \in TxnIds : IsLive(t)}

\* Nothing finished holds a lock or is left in the wait-for graph, and an
\* exclusive lock excludes every shared one: release_locks misses no entry
\* and no grant overtakes another (txn.rs acquire_exclusive .. release_one_lock).
LocksHeldByActive ==
  /\ ActiveIsLive
  /\ \A r \in Rows :
       /\ exclusive[r] # NoTxn => exclusive[r] \in active /\ shared[r] = {}
       /\ shared[r] \subseteq active
  /\ \A w \in TxnIds :
       /\ waitFor[w] \subseteq active \ {w}
       /\ waitFor[w] # {} => w \in active

-----------------------------------------------------------------------------
(* Version chains.                                                         *)

Committed(r) == {v \in chains[r] : v.committed}

\* Every committed version was created, and closed, before the current tick,
\* by a transaction that is over.
CommittedInThePast ==
  \A r \in Rows : \A v \in Committed(r) :
    /\ v.begin < nextTs /\ v.begin <= v.end
    /\ v.end = TsInf \/ v.end < nextTs
    /\ ~IsLive(v.writer)

\* No committed version was closed at the timestamp that created it.
NoneClosedAtBirth == \A r \in Rows : \A v \in Committed(r) : v.begin # v.end

\* The lifetimes of a row's committed versions do not overlap.
DisjointLifetimes ==
  \A r \in Rows : \A v, w \in Committed(r) :
    v = w \/ v.end <= w.begin \/ w.end <= v.begin

PastLifetimes == CommittedInThePast /\ DisjointLifetimes

\* The committed versions of a row are a timeline: at any timestamp a snapshot
\* finds at most one of them, whatever commits, closes and collections
\* (finalize_write, garbage_collect) interleaved.
VersionTimeline == PastLifetimes /\ NoneClosedAtBirth

LatestCommitted(r) ==
  IF Current(chains[r]) = {} THEN Absent ELSE Newest(Current(chains[r])).value

\* A read-committed statement reads the latest committed value of every row
\* the transaction has not written itself (refresh_read_view, txn.rs:50-52).
ReadCommittedReadsLatest ==
  \A t \in TxnIds, r \in Rows :
    IsLive(t) /\ isolation[t] = "ReadCommitted" /\ OwnIntents(t, chains[r]) = {}
      => ReadFrom(chains[r], StatementView(t)) = LatestCommitted(r)

FixedSnapshot == {"RepeatableRead", "Serializable"}

\* A repeatable-read or serializable transaction reads its own newest intent
\* wherever it has one (txn.rs visible_for).
OwnWritesVisible ==
  \A t \in TxnIds, r \in Rows :
    LET own == OwnIntents(t, chains[r])
    IN  IsLive(t) /\ isolation[t] \in FixedSnapshot /\ own # {}
          => ReadFrom(chains[r], View(t)) = Newest(own).value

\* What t's snapshot holds for r, its own intents left aside.
SnapshotValue(t, r) ==
  LET seen == {v \in Committed(r) : IsVisible(View(t), v)}
  IN  IF seen = {} THEN Absent ELSE Newest(seen).value

\* The snapshot of a live repeatable-read or serializable transaction never
\* changes: no commit, rollback or garbage collection of any transaction
\* alters a value it may still read (txn.rs:53-55, 77-82).
SnapshotStable ==
  [][\A t \in TxnIds, r \in Rows :
       IsLive(t) /\ IsLive(t)' /\ isolation[t] \in FixedSnapshot
         => SnapshotValue(t, r)' = SnapshotValue(t, r)]_vars

\* When a serializable transaction commits, every row of its read set or of its
\* predicate locks still has the value its snapshot showed (serializable_conflict).
SerializableReadsCurrent ==
  [][\A t \in TxnIds :
       IsLive(t) /\ isolation[t] = "Serializable" /\ state'[t] = "Committed"
         => \A r \in readSet[t] \cup predicateRows[t] :
              SnapshotValue(t, r) = LatestCommitted(r)]_vars

-----------------------------------------------------------------------------
(* Undo records, savepoints and intents.                                   *)

\* The rows the first n undo records of t name.
UndoneRows(t, n) == {undo[t][i] : i \in 1 .. n}

\* The undo log of a live transaction names, per row, exactly its intents, and
\* so do its write set and the write set each savepoint restores: a rollback to
\* a savepoint or of everything leaves no intent behind (undo_one, txn.rs:71-75).
UndoMirrorsIntents ==
  \A t \in active :
    /\ \A r \in Rows :
         Cardinality(OwnIntents(t, chains[r])) = Touches(undo[t], 1, r)
    /\ writeSet[t] = UndoneRows(t, Len(undo[t]))
    /\ \A s \in savepoints[t] :
         /\ s.undoLen <= Len(undo[t])
         /\ s.writeSet = UndoneRows(t, s.undoLen)

-----------------------------------------------------------------------------
(* What the isolation properties rest on: the inductive invariant that     *)
(* TxnManagerProofs proves.                                                *)

WritersKnown == \A r \in Rows : \A v \in chains[r] : v.writer < nextTxnId

\* Snapshots are taken at the present tick, and move under read committed only.
ViewsInThePast ==
  \A t \in TxnIds : IsLive(t) =>
    /\ snapshotTs[t] <= nextTs /\ beginTs[t] < nextTs
    /\ isolation[t] # "ReadCommitted" => snapshotTs[t] = beginTs[t]

\* Whoever was running when a view was taken commits after its snapshot.
ConcurrentInvisible ==
  \A t \in TxnIds : IsLive(t) /\ isolation[t] # "ReadCommitted" =>
    \A r \in Rows : \A v \in Committed(r) :
      v.writer \in viewActive[t] => v.begin > snapshotTs[t]

\* The version that superseded one a snapshot may need is still there.
SuccessorsKept ==
  \A r \in Rows : \A v \in Committed(r) :
    v.end # TsInf /\ (\E t \in active : v.end >= snapshotTs[t])
      => \E w \in Committed(r) : w.begin = v.end

\* Positions are unique, and what was pushed onto an intent of a running
\* transaction committed after that transaction began.
ChainOrdered ==
  \A r \in Rows : \A v, w \in chains[r] :
    /\ v.pos = w.pos => v = w
    /\ ~v.committed /\ IsLive(v.writer) /\ w.committed /\ v.pos < w.pos
         => w.begin > beginTs[v.writer]

IsolationInv ==
  /\ LocksHeldByActive /\ VersionTimeline /\ WritersKnown /\ ViewsInThePast
  /\ ConcurrentInvisible /\ SuccessorsKept /\ ChainOrdered

-----------------------------------------------------------------------------
(* The refinement mapping from the transaction manager to                  *)
(* SnapshotIsolation.                                                      *)

\* The value the i-th undo record of t wrote: among the intents of t on the
\* record's row, the one with as many older ones as the row has older records.
LoggedValue(t, i) ==
  LET r == undo[t][i]
      own == OwnIntents(t, chains[r])
      rank(v) == Cardinality({w \in own : w.pos < v.pos})
      older == Cardinality({j \in 1 .. i - 1 : undo[t][j] = r})
  IN  (CHOOSE v \in own : rank(v) = older).value

AbsStatus(t) ==
  IF IsLive(t) THEN "running" ELSE IF state[t] = "Unknown" THEN "idle" ELSE "over"

AbsLog(t) ==
  IF IsLive(t)
  THEN [i \in 1 .. Len(undo[t]) |-> [row |-> undo[t][i], value |-> LoggedValue(t, i)]]
  ELSE <<>>

\* The variables of SnapshotIsolation.
Database == [r \in Rows |-> LatestCommitted(r)]
Statuses == [t \in TxnIds |-> AbsStatus(t)]
Levels == [t \in TxnIds |-> IF IsLive(t) THEN isolation[t] ELSE "RepeatableRead"]
Snapshots ==
  [t \in TxnIds |-> [r \in Rows |->
     IF IsLive(t) /\ isolation[t] \in FixedSnapshot THEN SnapshotValue(t, r) ELSE Absent]]
Logs == [t \in TxnIds |-> AbsLog(t)]

SI == INSTANCE SnapshotIsolation WITH
        Levels <- Isolations, db <- Database, status <- Statuses, level <- Levels,
        snap <- Snapshots, log <- Logs

\* The transaction manager implements snapshot isolation: commits install the
\* whole write log of a transaction at once, rollbacks install nothing, and the
\* snapshot a transaction starts with never moves.
ImplementsSnapshotIsolation == SI!Spec

-----------------------------------------------------------------------------
(* Claims of the documentation that the code does not keep.                *)

\* txn.rs:63-66: "A second writer on the same row fails to acquire the
\* exclusive lock and is rejected": the intents of live transactions on one row
\* have one writer.
OneWriterPerRow ==
  \A r \in Rows : \A v, w \in chains[r] :
    ~v.committed /\ ~w.committed /\ IsLive(v.writer) /\ IsLive(w.writer)
      => v.writer = w.writer
=============================================================================
