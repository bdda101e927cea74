------------------------------- MODULE TxnWal -------------------------------
(***************************************************************************)
(* The transaction manager with the write-ahead log of src/src/wal.rs it   *)
(* journals to: every action of TxnManager that appends a record, the      *)
(* checkpoint that truncates the log, and a restart, which loses           *)
(* everything but the log and rebuilds the chains from it (recover).       *)
(*                                                                         *)
(* The segments of the log are a set: where they start orders them.  A     *)
(* segment's capacity is counted in records; a record keeps the row and    *)
(* the value of its payload and not their encoding.                        *)
(***************************************************************************)
EXTENDS TxnProperties

CONSTANTS
  SegRecords,    \* records that fit a segment
  MaxLsn         \* bound on the log's length

ASSUME WalAssumption ==
  /\ SegRecords \in Nat \ {0} /\ MaxLsn \in Nat /\ MaxLsn + 3 < TsInf
  /\ MaxLsn <= MaxPos

VARIABLES
  segments,      \* Wal::segments
  nextLsn        \* Wal::next_lsn

walVars == <<segments, nextLsn>>
allVars == <<vars, walVars>>

NoPayload == [row |-> "none", value |-> Absent]

Segment(start) == [start |-> start, records |-> {}]

\* Every record of the log; lsns order them.
Log == UNION {seg.records : seg \in segments}

LogOf(type) == {rec \in Log : rec.type = type}

-----------------------------------------------------------------------------
(* Appending and truncating.                                               *)

\* current: the segment that starts last.
Open(segs) == CHOOSE seg \in segs : \A other \in segs : other.start <= seg.start

\* append
Appended(segs, rec) ==
  LET last == Open(segs)
  IN  IF Cardinality(last.records) >= SegRecords
      THEN segs \cup {[start |-> rec.lsn, records |-> {rec}]}
      ELSE (segs \ {last}) \cup {[last EXCEPT !.records = @ \cup {rec}]}

Journal(t, type, payload) ==
  /\ nextLsn <= MaxLsn
  /\ segments' = Appended(segments, [lsn |-> nextLsn, txn |-> t, type |-> type,
                                     row |-> payload.row, value |-> payload.value])
  /\ nextLsn' = nextLsn + 1

\* A log that lost every segment gets a new one.
NotEmpty(segs) == IF segs = {} THEN {Segment(nextLsn + 1)} ELSE segs

\* Fault: a segment survives by where it starts, not by where it ends.
TruncatedByStart(segs, lsn) == NotEmpty({seg \in segs : seg.start > lsn})

\* truncate_before(lsn), which drops whole segments.
TruncatedBefore(segs, lsn) ==
  NotEmpty({seg \in segs : seg.start + Cardinality(seg.records) > lsn})

-----------------------------------------------------------------------------
(* Recovery.                                                               *)

LsnsOf(records) == {rec.lsn : rec \in records}

MaxOf(S) == CHOOSE m \in S \cup {0} : \A n \in S : n <= m

\* The transactions recover materialises.
Replayable ==
  {t \in TxnIds :
     /\ \E rec \in LogOf("Begin") : rec.txn = t
     /\ \E rec \in LogOf("Commit") : rec.txn = t
     /\ ~\E rec \in LogOf("Abort") : rec.txn = t}

\* The records buffered for them: those behind the Begin of their transaction.
Replayed ==
  {rec \in LogOf("Insert") \cup LogOf("Update") \cup LogOf("Delete") :
     /\ rec.txn \in Replayable
     /\ \E b \in LogOf("Begin") :
          /\ b.txn = rec.txn /\ b.lsn < rec.lsn
          /\ \A c \in LogOf("Begin") : c.txn = rec.txn => c.lsn <= b.lsn}

\* Fault: the records of a transaction are replayed newest first.
ReplayedBeforeReversed(a, b) == a.txn < b.txn \/ (a.txn = b.txn /\ a.lsn > b.lsn)

\* Recovery replays transactions in id order, each in the order of its log.
ReplayedBefore(a, b) == a.txn < b.txn \/ (a.txn = b.txn /\ a.lsn < b.lsn)

\* The commit timestamp recovery gives t.
RecoveredTs(t) == 1 + Cardinality({u \in Replayable : u < t})

\* Each replayed record of row r becomes a version, closed by the next one.
RecoveredChain(r) ==
  LET onRow == {rec \in Replayed : rec.row = r}
      later(rec) == {b \in onRow : ReplayedBefore(rec, b)}
      next(rec) == CHOOSE b \in later(rec) : later(rec) \ {b} = later(b)
  IN  {[value |-> rec.value, begin |-> RecoveredTs(rec.txn),
        end |-> IF later(rec) = {} THEN TsInf ELSE RecoveredTs(next(rec).txn),
        writer |-> rec.txn, committed |-> TRUE,
        pos |-> Cardinality({a \in onRow : ReplayedBefore(a, rec)}) + 1] : rec \in onRow}

\* Fault: the allocator is advanced past replayed transactions only.
NextIdPastReplayed == MaxOf({1, MaxOf(Replayable) + 1})

\* The id allocator, advanced past every transaction of the log.
RecoveredNextId == MaxOf({1, MaxOf({rec.txn : rec \in Log}) + 1})

\* A new manager is made over the log that survived, and recovers.
Restart ==
  /\ chains' = [r \in Rows |-> RecoveredChain(r)]
  /\ nextTs' = MaxOf({1 + Cardinality(Replayable), MaxOf(LsnsOf(Log)) + 1})
  /\ nextTxnId' = RecoveredNextId
  /\ state' = [t \in TxnIds |-> "Unknown"]
  /\ isolation' = [t \in TxnIds |-> "RepeatableRead"]
  /\ beginTs' = [t \in TxnIds |-> 0]
  /\ commitTs' = [t \in TxnIds |-> 0]
  /\ snapshotTs' = [t \in TxnIds |-> 0]
  /\ viewActive' = [t \in TxnIds |-> {}]
  /\ readSet' = [t \in TxnIds |-> {}]
  /\ writeSet' = [t \in TxnIds |-> {}]
  /\ predicateRows' = [t \in TxnIds |-> {}]
  /\ undo' = [t \in TxnIds |-> <<>>]
  /\ savepoints' = [t \in TxnIds |-> {}]
  /\ active' = {}
  /\ exclusive' = [r \in Rows |-> NoTxn]
  /\ shared' = [r \in Rows |-> {}]
  /\ waitFor' = [t \in TxnIds |-> {}]
  /\ predicateLocks' = [t \in TxnIds |-> {}]
  /\ UNCHANGED walVars

-----------------------------------------------------------------------------
(* The manager's operations with the record each appends.                  *)

WalInit == Init /\ segments = {Segment(0)} /\ nextLsn = 1

LoggedBegin(t, level) == Begin(t, level) /\ Journal(t, "Begin", NoPayload)

LoggedCommit(t) == Commit(t) /\ Journal(t, "Commit", NoPayload)

LoggedAbort(t) ==
  (CommitConflict(t) \/ Rollback(t)) /\ Journal(t, "Abort", NoPayload)

LoggedWrite(t, r, c) ==
  \/ Insert(t, r, c) /\ Journal(t, "Insert", [row |-> r, value |-> c])
  \/ Update(t, r, c) /\ Journal(t, "Update", [row |-> r, value |-> c])

LoggedDelete(t, r) == Delete(t, r) /\ Journal(t, "Delete", [row |-> r, value |-> Absent])

\* The operations that leave the log alone.
Unlogged(t, r) ==
  /\ \/ Prepare(t) \/ Read(t, r) \/ ExclusiveConflict(t, r)
     \/ InsertExisting(t, r) \/ WriteMissing(t, r)
  /\ UNCHANGED walVars

UnloggedSavepoint == SavepointNext /\ UNCHANGED walVars
UnloggedLock == LockNext /\ UNCHANGED walVars
UnloggedCollect == GarbageCollect /\ UNCHANGED walVars

\* The marker is appended, older segments are dropped, garbage is collected.
Checkpoint ==
  LET marker == [lsn |-> nextLsn, txn |-> 0, type |-> "Checkpoint",
                 row |-> NoPayload.row, value |-> NoPayload.value]
      marked == Appended(segments, marker)
  IN  /\ nextLsn <= MaxLsn
      /\ segments' = IF nextLsn > 1 THEN TruncatedBefore(marked, nextLsn - 1) ELSE marked
      /\ nextLsn' = nextLsn + 1
      /\ GarbageCollect

TransactionNext ==
  \E t \in TxnIds :
    \/ \E level \in Isolations : LoggedBegin(t, level)
    \/ LoggedCommit(t)
    \/ LoggedAbort(t)
    \/ \E r \in Rows :
         \/ \E c \in Values : LoggedWrite(t, r, c)
         \/ LoggedDelete(t, r)
         \/ Unlogged(t, r)

WalNext ==
  TransactionNext \/ UnloggedSavepoint \/ UnloggedLock \/ UnloggedCollect
    \/ Checkpoint \/ Restart

WalSpec == WalInit /\ [][WalNext]_allVars

-----------------------------------------------------------------------------
(* Properties.                                                             *)

\* The log is one run of consecutive lsns up to the newest record, no lsn given
\* twice: truncation drops whole old segments only, never the marker of the
\* checkpoint that asked for it (txn.rs checkpoint, wal.rs truncate_before).
LogIsContiguous ==
  LET lsns == LsnsOf(Log)
  IN  /\ nextLsn > 1 => nextLsn - 1 \in lsns
      /\ \A n \in lsns : n < nextLsn /\ (n + 1 = nextLsn \/ n + 1 \in lsns)
      /\ \A a, b \in Log : a.lsn = b.lsn => a = b

\* After any number of restarts no new transaction collides with a recovered
\* one: the id allocator is past every id of the log, no version's writer is
\* live, and the versions of a row do not overlap (txn.rs recover: "advanced
\* past every record seen so that subsequently-begun transactions do not
\* collide with recovered ones").
NoCollisionAfterRestart ==
  /\ \A rec \in Log : rec.txn < nextTxnId
  /\ \A r \in Rows : \A v \in Committed(r) :
       v.begin < nextTs /\ ~IsLive(v.writer)
  /\ DisjointLifetimes

\* The value row r would have after a restart.
RecoveredValue(r) ==
  IF Current(RecoveredChain(r)) = {} THEN Absent
  ELSE Newest(Current(RecoveredChain(r))).value

\* The transactions that committed did so in the order they began.
CommitsInIdOrder ==
  \A a, b \in LogOf("Commit") : a.txn < b.txn => a.lsn < b.lsn

\* No transaction was aborted after its commit, and the log still holds the
\* Begin of every transaction it knows.
LogIsWhole ==
  /\ \A a \in LogOf("Abort") : \A c \in LogOf("Commit") : a.txn # c.txn
  /\ \A rec \in Log : rec.txn # 0 => \E b \in LogOf("Begin") : b.txn = rec.txn
  /\ LogOf("Checkpoint") = {}

\* With transactions that commit in the order they began, a log never truncated,
\* and no savepoint rolled back, a restart recovers exactly the committed
\* database: nothing uncommitted, nothing aborted, the last write of each row.
SerialRecoveryIsExact ==
  CommitsInIdOrder /\ LogIsWhole =>
    \A r \in Rows : RecoveredValue(r) = LatestCommitted(r)

\* wal.rs:3-5: "On recovery, the log is replayed to reconstruct the database
\* state up to the last durable record".
RecoveryReconstructsState ==
  LogIsWhole => \A r \in Rows : RecoveredValue(r) = LatestCommitted(r)

\* README 17.3: the log "can be replayed to recover committed but
\* not-yet-checkpointed changes": a transaction that commits behind the last
\* checkpoint, has writes there, and is not aborted after that, is replayed.
CommitsBehindCheckpointReplayed ==
  \A c \in LogOf("Commit") :
    /\ \A m \in LogOf("Checkpoint") : m.lsn < c.lsn
    /\ \E d \in Log : d.txn = c.txn /\ d.type \in {"Insert", "Update", "Delete"}
    /\ \A a \in LogOf("Abort") : a.txn # c.txn
    => c.txn \in Replayable
=============================================================================
