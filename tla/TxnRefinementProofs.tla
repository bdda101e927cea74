------------------------- MODULE TxnRefinementProofs -------------------------
(***************************************************************************)
(* Proofs that the undo log of a transaction mirrors its intents, and that *)
(* the transaction manager implements SnapshotIsolation, for any rows,     *)
(* values, number of transactions and bounds.                              *)
(***************************************************************************)
EXTENDS TxnManagerProofs, OrderLemmas

-----------------------------------------------------------------------------
(* Counting the records of an undo log.                                    *)

\* The records of a log that name row r among the first n, and their number.
Naming(log, n, r) == {j \in 1 .. n : log[j] = r}
Count(log, n, r) == Cardinality(Naming(log, n, r))

\* The records that name a row are finitely many.
LEMMA CountIsNat ==
  ASSUME NEW log, NEW n \in Nat, NEW r
  PROVE  IsFiniteSet(Naming(log, n, r)) /\ Count(log, n, r) \in Nat
<1>1. IsFiniteSet(1 .. n)
  BY FS_Interval
<1>2. IsFiniteSet(Naming(log, n, r))
  BY <1>1, FS_Subset DEF Naming
<1> QED BY <1>2, FS_CardinalityType DEF Count

\* One more record is one more for the row it names.
LEMMA CountNext ==
  ASSUME NEW log, NEW n \in Nat, NEW r
  PROVE  Count(log, n + 1, r) = Count(log, n, r) + (IF log[n + 1] = r THEN 1 ELSE 0)
<1>1. IsFiniteSet(Naming(log, n, r)) /\ n + 1 \notin Naming(log, n, r)
  <2>1. IsFiniteSet(Naming(log, n, r))
    BY CountIsNat
  <2>2. n + 1 \notin Naming(log, n, r)
    BY DEF Naming
  <2> QED BY <2>1, <2>2
<1>2. CASE log[n + 1] = r
  <2>1. Naming(log, n + 1, r) = Naming(log, n, r) \cup {n + 1}
    BY <1>2 DEF Naming
  <2>2. Cardinality(Naming(log, n, r) \cup {n + 1}) = Cardinality(Naming(log, n, r)) + 1
    BY <1>1, FS_AddElement
  <2> QED BY <1>2, <2>1, <2>2 DEF Count
<1>3. CASE log[n + 1] # r
  <2>1. Naming(log, n + 1, r) = Naming(log, n, r)
    BY <1>3 DEF Naming
  <2> QED BY <1>3, <2>1, CountIsNat DEF Count
<1> QED BY <1>2, <1>3

\* More records name a row at least as often.
LEMMA CountGrows ==
  ASSUME NEW log, NEW n \in Nat, NEW k \in Nat, n <= k, NEW r
  PROVE  Count(log, n, r) <= Count(log, k, r)
<1>1. Naming(log, n, r) \in SUBSET Naming(log, k, r)
  BY DEF Naming
<1>2. IsFiniteSet(Naming(log, k, r))
  BY CountIsNat
<1> QED BY <1>1, <1>2, FS_Subset DEF Count

\* The records of a log are those up to n and those behind n.
LEMMA TouchesSplit ==
  ASSUME NEW log \in Seq(Rows), NEW n \in 0 .. Len(log), NEW r
  PROVE  /\ Touches(log, n + 1, r) \in Nat
         /\ Touches(log, 1, r) = Count(log, Len(log), r)
         /\ Count(log, Len(log), r) = Count(log, n, r) + Touches(log, n + 1, r)
<1> DEFINE B == {j \in n + 1 .. Len(log) : log[j] = r}
<1>1. Len(log) \in Nat /\ n \in Nat
  OBVIOUS
<1>2. IsFiniteSet(B) /\ IsFiniteSet(Naming(log, n, r))
  <2>1. IsFiniteSet(n + 1 .. Len(log))
    BY <1>1, FS_Interval
  <2> QED BY <1>1, <2>1, FS_Subset, CountIsNat
<1>3. Naming(log, n, r) \cap B = {} /\ Naming(log, Len(log), r) = Naming(log, n, r) \cup B
  BY <1>1 DEF Naming
<1>4. Touches(log, n + 1, r) = Cardinality(B)
  BY DEF Touches
<1> HIDE DEF B
<1>5. Cardinality(B) \in Nat /\ Cardinality(Naming(log, n, r)) \in Nat
  BY <1>2, FS_CardinalityType
<1>6. /\ Cardinality(Naming(log, n, r) \cap B) = 0
      /\ Cardinality(Naming(log, n, r) \cup B)
           = Cardinality(Naming(log, n, r)) + Cardinality(B)
               - Cardinality(Naming(log, n, r) \cap B)
  <2>1. Cardinality(Naming(log, n, r) \cap B) = 0
    BY <1>3, FS_EmptySet
  <2> QED BY <1>2, <2>1, FS_Union
<1>7. Touches(log, 1, r) = Count(log, Len(log), r)
  BY DEF Touches, Count, Naming
<1> QED BY <1>3, <1>4, <1>5, <1>6, <1>7 DEF Count

\* A log cut after n records names rows as its first n records do.
LEMMA CutLog ==
  ASSUME NEW log \in Seq(Rows), NEW n \in 0 .. Len(log)
  PROVE  /\ SubSeq(log, 1, n) \in Seq(Rows) /\ Len(SubSeq(log, 1, n)) = n
         /\ \A i \in 1 .. n : SubSeq(log, 1, n)[i] = log[i]
         /\ \A i \in 0 .. n : \A r : Count(SubSeq(log, 1, n), i, r) = Count(log, i, r)
<1>1. Len(log) \in Nat /\ n \in Nat
  OBVIOUS
<1>2. /\ SubSeq(log, 1, n) \in Seq(Rows) /\ Len(SubSeq(log, 1, n)) = n
      /\ \A i \in 1 .. n : SubSeq(log, 1, n)[i] = log[i]
  OBVIOUS
<1>3. ASSUME NEW i \in 0 .. n, NEW r
      PROVE  Count(SubSeq(log, 1, n), i, r) = Count(log, i, r)
  <2>1. Naming(SubSeq(log, 1, n), i, r) = Naming(log, i, r)
    BY <1>2 DEF Naming
  <2> QED BY <2>1 DEF Count
<1> QED BY <1>2, <1>3

\* A log with a record appended.
LEMMA GrownLog ==
  ASSUME NEW log \in Seq(Rows), NEW q \in Rows
  PROVE  /\ Append(log, q) \in Seq(Rows) /\ Len(Append(log, q)) = Len(log) + 1
         /\ Append(log, q)[Len(log) + 1] = q
         /\ \A i \in 1 .. Len(log) : Append(log, q)[i] = log[i]
         /\ \A i \in 0 .. Len(log) : \A r : Count(Append(log, q), i, r) = Count(log, i, r)
         /\ \A r : Touches(Append(log, q), 1, r)
                     = Touches(log, 1, r) + (IF q = r THEN 1 ELSE 0)
<1> DEFINE grown == Append(log, q)
           n == Len(log)
<1>1. /\ n \in Nat /\ grown \in Seq(Rows) /\ Len(grown) = n + 1 /\ grown[n + 1] = q
      /\ \A i \in 1 .. n : grown[i] = log[i]
  OBVIOUS
<1>2. \A r : Touches(log, 1, r) = Count(log, n, r)
  BY TouchesSplit
<1> HIDE DEF grown, n
<1>3. ASSUME NEW i \in 0 .. n, NEW r PROVE Count(grown, i, r) = Count(log, i, r)
  <2>1. Naming(grown, i, r) = Naming(log, i, r)
    BY <1>1 DEF Naming
  <2> QED BY <2>1 DEF Count
<1>4. ASSUME NEW r PROVE Touches(grown, 1, r) = Touches(log, 1, r) + (IF q = r THEN 1 ELSE 0)
  <2>1. Touches(grown, 1, r) = Count(grown, n + 1, r)
    BY <1>1, TouchesSplit
  <2>2. Count(grown, n + 1, r) = Count(grown, n, r) + (IF grown[n + 1] = r THEN 1 ELSE 0)
    BY <1>1, CountNext
  <2> QED BY <1>1, <1>2, <1>3, <2>1, <2>2
<1> QED BY <1>1, <1>3, <1>4 DEF grown, n

-----------------------------------------------------------------------------
(* The intents of a transaction.                                           *)

\* Positions of chains and of intents are distinct.
LEMMA OwnPositioned ==
  ASSUME TypeInv, IsolationInv, NEW t, NEW r \in Rows
  PROVE  /\ Positioned(chains[r]) /\ Positioned(OwnIntents(t, chains[r]))
         /\ \A v \in chains[r] : v.pos \in 1 .. MaxPos
<1> DataFields
  BY TypeOKParts DEF TypeInv
<1>1. /\ \A v \in chains[r] : v.pos \in 1 .. MaxPos
      /\ \A v, w \in chains[r] : v.pos = w.pos => v = w
  BY DEF DataFields, Versions, IsolationInv, ChainOrdered
<1>2. OwnIntents(t, chains[r]) \subseteq chains[r]
  BY DEF OwnIntents
<1> HIDE DEF OwnIntents
<1> QED BY <1>1, <1>2, BoundedPositions, MaxUndoAssumption

-----------------------------------------------------------------------------
(* What a step does to the log of a transaction that runs on.              *)

SameLog(u) ==
  /\ undo'[u] = undo[u] /\ writeSet'[u] = writeSet[u]
  /\ \A r \in Rows : OwnIntents(u, chains[r])' = OwnIntents(u, chains[r])

\* The savepoints are older ones, but for one that marks the end of the log.
SameMarks(u) ==
  \A s \in savepoints'[u] :
    s \in savepoints[u] \/ (s.undoLen = Len(undo[u]) /\ s.writeSet = writeSet[u])

GrownBy(u, r, c) ==
  /\ Push(u, r, c)
  /\ undo' = [undo EXCEPT ![u] = Append(@, r)]
  /\ writeSet'[u] = writeSet[u] \cup {r}
  /\ savepoints'[u] = savepoints[u]

\* It stays, it grows by one record and one intent, or it is cut at a savepoint.
LogStep(u) ==
  \/ SameLog(u) /\ SameMarks(u)
  \/ \E r \in Rows, c \in Cells : GrownBy(u, r, c)
  \/ \E s \in savepoints[u] : RollbackTo(u, s)

\* The intents after a step are those of the chain after it.
LEMMA OwnIntentsPrime ==
  \A u, r : OwnIntents(u, chains[r])' = OwnIntents(u, chains'[r])
BY DEF OwnIntents

\* Whatever anyone does, the log of a transaction that runs on makes a LogStep.
LEMMA LogSteps ==
  ASSUME TypeInv, IsolationInv, [Next]_vars, NEW u \in TxnIds, IsLive(u), IsLive(u)'
  PROVE  LogStep(u)
<1> USE DEF clockVars, idVars, endVars, viewVars, setVars, undoVars, lockVars
<1> OtherFields /\ SetFields /\ DataFields
  BY TypeOKParts DEF TypeInv
<1>1. ASSUME UNCHANGED <<writeSet, undoVars, chains>> PROVE LogStep(u)
  BY <1>1, OwnIntentsPrime DEF LogStep, SameLog, SameMarks
<1>2. ASSUME NEW t \in TxnIds, NEW r \in Rows, NEW c \in Cells, Write(t, r, c)
      PROVE  LogStep(u)
  <2>1. CASE u = t
    BY <1>2, <2>1 DEF Write, LogStep, GrownBy, DataFields, SetFields
  <2>2. CASE u # t
    <3>1. \A q \in Rows : OwnIntents(u, chains'[q]) = OwnIntents(u, chains[q])
      <4>1. Intent(t, c, chains[r]).writer = t
        BY DEF Intent
      <4>2. /\ chains'[r] = chains[r] \cup {Intent(t, c, chains[r])}
            /\ \A q \in Rows \ {r} : chains'[q] = chains[q]
        BY <1>2 DEF Write, Push, DataFields
      <4> QED BY <2>2, <4>1, <4>2 DEF OwnIntents
    <3> QED BY <1>2, <2>2, <3>1, OwnIntentsPrime
            DEF Write, LogStep, SameLog, SameMarks, DataFields, SetFields
  <2> QED BY <2>1, <2>2
<1>3. ASSUME NEW t \in TxnIds, Commit(t) PROVE LogStep(u)
  <2>1. u # t
    BY <1>3 DEF Commit, IsLive, Live, OtherFields
  <2>2. \A r \in Rows : OwnIntents(u, chains'[r]) = OwnIntents(u, chains[r])
    BY <1>3, <2>1, OthersLeaveIntents DEF Commit
  <2> QED BY <1>3, <2>2, OwnIntentsPrime DEF Commit, LogStep, SameLog, SameMarks
<1>4. ASSUME NEW t \in TxnIds, UndoAll(t) PROVE LogStep(u)
  <2>1. u # t
    BY <1>4 DEF UndoAll, IsLive, Live, OtherFields
  <2>2. \A r \in Rows : OwnIntents(u, chains'[r]) = OwnIntents(u, chains[r])
    BY <1>4, <2>1, OthersLeaveIntents DEF UndoAll
  <2>3. undo'[u] = undo[u]
    BY <1>4, <2>1 DEF UndoAll, DataFields
  <2> QED BY <1>4, <2>2, <2>3, OwnIntentsPrime DEF UndoAll, LogStep, SameLog, SameMarks
<1>5. ASSUME NEW t \in TxnIds, NEW name \in SavepointNames,
             Savepoint(t, name) \/ ReleaseSavepoint(t, name)
      PROVE  LogStep(u)
  <2>1. UNCHANGED <<writeSet, undo, chains>>
    BY <1>5 DEF Savepoint, ReleaseSavepoint
  <2>2. SameMarks(u)
    <3>1. CASE Savepoint(t, name)
      <4> DEFINE s == [name |-> name, pos |-> NextPos(savepoints[t]), undoLen |-> Len(undo[t]),
                       writeSet |-> writeSet[t], readSet |-> readSet[t]]
      <4>1. savepoints' = [savepoints EXCEPT ![t] = savepoints[t] \cup {s}]
        BY <3>1 DEF Savepoint
      <4>2. s.undoLen = Len(undo[t]) /\ s.writeSet = writeSet[t]
        OBVIOUS
      <4> HIDE DEF s
      <4> QED BY <4>1, <4>2 DEF SameMarks, DataFields
    <3>2. CASE ReleaseSavepoint(t, name)
      BY <3>2 DEF ReleaseSavepoint, SameMarks, DataFields
    <3> QED BY <1>5, <3>1, <3>2
  <2> QED BY <2>1, <2>2, OwnIntentsPrime DEF LogStep, SameLog
<1>6. ASSUME NEW t \in TxnIds, NEW s \in savepoints[t], RollbackTo(t, s)
      PROVE  LogStep(u)
  <2>1. CASE u = t
    BY <1>6, <2>1 DEF LogStep
  <2>2. CASE u # t
    <3> DEFINE gone(r) == NewestIntents(t, chains[r], Touches(undo[t], s.undoLen + 1, r))
    <3>1. \A r \in Rows : chains'[r] = chains[r] \ gone(r)
      BY <1>6 DEF RollbackTo
    <3>2. \A r \in Rows : \A v \in gone(r) : v.writer = t
      BY DEF NewestIntents, OwnIntents
    <3> HIDE DEF gone
    <3>3. \A r \in Rows : OwnIntents(u, chains'[r]) = OwnIntents(u, chains[r])
      BY <2>2, <3>1, <3>2 DEF OwnIntents
    <3>4. undo'[u] = undo[u] /\ writeSet'[u] = writeSet[u] /\ savepoints'[u] = savepoints[u]
      BY <1>6, <2>2 DEF RollbackTo, DataFields, SetFields
    <3> QED BY <3>3, <3>4, OwnIntentsPrime DEF LogStep, SameLog, SameMarks
  <2> QED BY <2>1, <2>2
<1>7. ASSUME GarbageCollect PROVE LogStep(u)
  <2>1. \A r \in Rows : OwnIntents(u, chains'[r]) = OwnIntents(u, chains[r])
    BY <1>7 DEF GarbageCollect, Retained, OwnIntents
  <2> QED BY <1>7, <2>1, OwnIntentsPrime DEF GarbageCollect, LogStep, SameLog, SameMarks
<1>8. LifecycleNext => LogStep(u)
  BY <1>1, <1>3, <1>4 DEF LifecycleNext, Begin, Prepare, CommitConflict, Rollback
<1>9. StatementNext => LogStep(u)
  BY <1>1, <1>2 DEF StatementNext, Read, ExclusiveConflict, Insert, InsertExisting, Update,
     Delete, WriteMissing, Cells
<1>10. LockNext \/ UNCHANGED vars => LogStep(u)
  BY <1>1 DEF LockNext, AcquireExclusive, AcquireShared, AddPredicateLock, vars
<1>11. SavepointNext => LogStep(u)
  BY <1>5, <1>6 DEF SavepointNext, RollbackToSavepoint
<1> QED BY <1>7, <1>8, <1>9, <1>10, <1>11 DEF Next

-----------------------------------------------------------------------------
(* The undo log mirrors the intents.                                       *)

\* A transaction not begun has nothing logged.
FreshLogs ==
  \A t \in TxnIds : state[t] = "Unknown" => undo[t] = <<>> /\ writeSet[t] = {}

Mirrors(t) ==
  /\ \A r \in Rows :
       Cardinality(OwnIntents(t, chains[r])) = Touches(undo[t], 1, r)
  /\ writeSet[t] = UndoneRows(t, Len(undo[t]))
  /\ \A s \in savepoints[t] :
       /\ s.undoLen <= Len(undo[t])
       /\ s.writeSet = UndoneRows(t, s.undoLen)

\* UndoMirrorsIntents, transaction by transaction.
LEMMA MirrorParts == UndoMirrorsIntents <=> \A t \in active : Mirrors(t)
BY DEF UndoMirrorsIntents, Mirrors

\* The same, after a step.
LEMMA MirrorPartsPrime == UndoMirrorsIntents' <=> \A t \in active' : Mirrors(t)'
BY DEF UndoMirrorsIntents, Mirrors

\* Nothing is logged for a transaction before it begins.
LEMMA FreshStep ==
  ASSUME TypeInv, FreshLogs, [Next]_vars
  PROVE  FreshLogs'
<1> USE DEF clockVars, idVars, endVars, viewVars, setVars, undoVars, lockVars
<1> OtherFields /\ SetFields /\ DataFields
  BY TypeOKParts DEF TypeInv
<1> SUFFICES ASSUME NEW u \in TxnIds, state'[u] = "Unknown"
             PROVE  undo'[u] = <<>> /\ writeSet'[u] = {}
  BY DEF FreshLogs
<1>1. state[u] = "Unknown" /\ undo[u] = <<>> /\ writeSet[u] = {} /\ ~IsLive(u)
  BY FrameOfNext DEF Frame, FreshLogs, IsLive, Live
<1>2. LifecycleNext => undo'[u] = <<>> /\ writeSet'[u] = {}
  BY <1>1 DEF LifecycleNext, Begin, Prepare, Commit, CommitConflict, Rollback, UndoAll, DataFields
<1>3. \A t \in TxnIds, r \in Rows, c \in Cells :
        IsLive(t) /\ Write(t, r, c) => undo'[u] = <<>> /\ writeSet'[u] = {}
  BY <1>1 DEF Write, DataFields, SetFields
<1>4. StatementNext => undo'[u] = <<>> /\ writeSet'[u] = {}
  BY <1>1, <1>3 DEF StatementNext, Read, ExclusiveConflict, Insert, InsertExisting, Update,
     Delete, WriteMissing, Cells
<1>5. LockNext \/ GarbageCollect \/ UNCHANGED vars => undo'[u] = <<>> /\ writeSet'[u] = {}
  BY <1>1 DEF LockNext, AcquireExclusive, AcquireShared, AddPredicateLock, GarbageCollect, vars
<1>6. SavepointNext => undo'[u] = <<>> /\ writeSet'[u] = {}
  BY <1>1 DEF SavepointNext, Savepoint, ReleaseSavepoint, RollbackToSavepoint, RollbackTo,
     DataFields, SetFields
<1> QED BY <1>2, <1>4, <1>5, <1>6 DEF Next

\* The position a push gives is behind every other.
LEMMA PushedLast ==
  ASSUME TypeInv, IsolationInv, NEW t \in TxnIds, NEW r \in Rows, NEW c
  PROVE  \A v \in chains[r] : v.pos < Intent(t, c, chains[r]).pos
<1>1. \A v \in chains[r] : v.pos \in 1 .. MaxPos
  BY OwnPositioned
<1>2. ASSUME NEW v \in chains[r] PROVE v.pos < NextPos(chains[r])
  <2>1. v.pos <= Newest(chains[r]).pos /\ Newest(chains[r]).pos \in 1 .. MaxPos
    BY <1>1, NewestIsIn
  <2> QED BY <1>1, <2>1, MaxUndoAssumption DEF NextPos
<1> QED BY <1>2 DEF Intent

\* A write adds one intent, behind those of its transaction.
LEMMA GrownIntents ==
  ASSUME TypeInv, IsolationInv, NEW u \in TxnIds, NEW r \in Rows, NEW c \in Cells,
         Push(u, r, c)
  PROVE  /\ OwnIntents(u, chains'[r]) = OwnIntents(u, chains[r]) \cup {Intent(u, c, chains[r])}
         /\ Intent(u, c, chains[r]) \notin OwnIntents(u, chains[r])
         /\ \A q \in Rows \ {r} : OwnIntents(u, chains'[q]) = OwnIntents(u, chains[q])
<1> DEFINE new == Intent(u, c, chains[r])
<1>1. new.writer = u /\ ~new.committed
  BY DEF Intent
<1>2. /\ chains'[r] = chains[r] \cup {new} /\ \A q \in Rows \ {r} : chains'[q] = chains[q]
  BY PushedVersions
<1>3. new \notin chains[r]
  <2>1. \A v \in chains[r] : v.pos < new.pos /\ v.pos \in 1 .. MaxPos
    BY PushedLast, OwnPositioned
  <2> HIDE DEF new
  <2> QED BY <2>1
<1> HIDE DEF new
<1>4. OwnIntents(u, chains'[r]) = OwnIntents(u, chains[r]) \cup {new}
  BY <1>1, <1>2 DEF OwnIntents
<1>5. new \notin OwnIntents(u, chains[r])
  BY <1>3 DEF OwnIntents
<1> QED BY <1>2, <1>4, <1>5 DEF new

\* A rollback to a savepoint leaves the oldest intents of its transaction, as
\* many as records stay.
LEMMA CutIntents ==
  ASSUME TypeInv, IsolationInv, NEW u \in TxnIds, IsLive(u), Mirrors(u),
         NEW s \in savepoints[u], RollbackTo(u, s), NEW r \in Rows
  PROVE  /\ s.undoLen \in 0 .. Len(undo[u])
         /\ Count(undo[u], s.undoLen, r) \in 0 .. Cardinality(OwnIntents(u, chains[r]))
         /\ OwnIntents(u, chains'[r]) =
              {v \in OwnIntents(u, chains[r]) :
                 Rank(OwnIntents(u, chains[r]), v) < Count(undo[u], s.undoLen, r)}
<1> OtherFields /\ DataFields
  BY TypeOKParts DEF TypeInv
<1> DEFINE own == OwnIntents(u, chains[r])
           log == undo[u]
           n == s.undoLen
           gone == Touches(log, n + 1, r)
<1>1. log \in Seq(Rows) /\ Len(log) \in Nat /\ n \in 0 .. Len(log)
  BY DEF DataFields, SavepointRecords, Mirrors
<1>2. /\ gone \in Nat /\ Count(log, n, r) \in Nat
      /\ Cardinality(own) = Count(log, n, r) + gone
  <2>1. Cardinality(own) = Touches(log, 1, r)
    BY DEF Mirrors
  <2> QED BY <1>1, <2>1, TouchesSplit, CountIsNat
<1>3. /\ Positioned(own)
      /\ \A v \in own : /\ Rank(own, v) \in Nat /\ Cardinality(NewerIn(own, v)) \in Nat
                        /\ Rank(own, v) + Cardinality(NewerIn(own, v)) + 1 = Cardinality(own)
  BY OwnPositioned, OlderAndNewer
<1>4. NewestIntents(u, chains[r], gone) = {v \in own : Cardinality(NewerIn(own, v)) < gone}
  BY DEF NewestIntents, NewerIn
<1>5. chains'[r] = chains[r] \ NewestIntents(u, chains[r], gone)
  BY DEF RollbackTo
<1>6. OwnIntents(u, chains'[r]) = own \ NewestIntents(u, chains[r], gone)
  BY <1>5 DEF OwnIntents
<1> HIDE DEF own, log, n, gone
<1>7. \A v \in own : ~(Cardinality(NewerIn(own, v)) < gone) <=> Rank(own, v) < Count(log, n, r)
  BY <1>2, <1>3
<1>8. OwnIntents(u, chains'[r]) = {v \in own : Rank(own, v) < Count(log, n, r)}
  BY <1>4, <1>6, <1>7
<1> QED BY <1>1, <1>2, <1>8 DEF own, log, n

\* Only the lifecycle operations change the state of a transaction.
LEMMA StateSteps ==
  ASSUME [Next]_vars, state' # state
  PROVE  \E t \in TxnIds : \/ \E level \in Isolations : Begin(t, level)
                           \/ Prepare(t) \/ Commit(t)
                           \/ state[t] # "Unknown" /\ UndoAll(t)
<1> USE DEF clockVars, idVars, endVars, viewVars, setVars, undoVars, lockVars
<1>1. ASSUME StatementNext PROVE state' = state
  <2>1. \A t, r, c : Write(t, r, c) => state' = state
    BY DEF Write
  <2> QED BY <1>1, <2>1 DEF StatementNext, Read, ExclusiveConflict, Insert, InsertExisting,
          Update, Delete, WriteMissing
<1>2. LockNext \/ SavepointNext \/ GarbageCollect \/ UNCHANGED vars => state' = state
  BY DEF LockNext, AcquireExclusive, AcquireShared, AddPredicateLock, SavepointNext, Savepoint,
     ReleaseSavepoint, RollbackToSavepoint, RollbackTo, GarbageCollect, vars
<1>3. \A t : IsLive(t) => state[t] # "Unknown"
  BY DEF IsLive, Live
<1> QED BY <1>1, <1>2, <1>3 DEF Next, LifecycleNext, CommitConflict, Rollback

\* Only Begin makes a transaction run.
LEMMA StartIsBegin ==
  ASSUME TypeInv, [Next]_vars, NEW u \in TxnIds, ~IsLive(u), IsLive(u)'
  PROVE  \E level \in Isolations : Begin(u, level)
<1> OtherFields
  BY TypeOKParts DEF TypeInv
<1>1. state'[u] # state[u]
  BY DEF IsLive
<1>2. PICK t \in TxnIds : \/ \E level \in Isolations : Begin(t, level)
                          \/ Prepare(t) \/ Commit(t) \/ UndoAll(t)
  BY <1>1, StateSteps
<1>3. CASE Prepare(t)
  BY <1>1, <1>3 DEF Prepare, OtherFields, IsLive
<1>4. CASE Commit(t) \/ UndoAll(t)
  BY <1>1, <1>4 DEF Commit, UndoAll, OtherFields, IsLive, Live
<1>5. CASE \E level \in Isolations : Begin(t, level)
  BY <1>1, <1>5 DEF Begin, OtherFields
<1> QED BY <1>2, <1>3, <1>4, <1>5

\* Whatever a step does to a log, the log goes on mirroring the intents.
LEMMA MirrorStep ==
  ASSUME TypeInv, IsolationInv, [Next]_vars, NEW u \in TxnIds, IsLive(u), Mirrors(u),
         LogStep(u)
  PROVE  Mirrors(u)'
<1> OtherFields /\ SetFields /\ DataFields
  BY TypeOKParts DEF TypeInv
<1> DEFINE log == undo[u]
<1>1. /\ log \in Seq(Rows) /\ Len(log) \in Nat
      /\ \A s \in savepoints[u] : s.undoLen \in 0 .. Len(log)
  BY DEF DataFields, SavepointRecords, Mirrors
<1>2. CASE SameLog(u) /\ SameMarks(u)
  <2>1. \A n : UndoneRows(u, n)' = UndoneRows(u, n)
    BY <1>2 DEF UndoneRows, SameLog
  <2>2. \A r \in Rows :
          Cardinality(OwnIntents(u, chains[r]))' = Touches(undo[u], 1, r)'
    BY <1>2 DEF SameLog, Mirrors, Touches
  <2>3. \A s \in savepoints'[u] :
          s.undoLen <= Len(undo[u]) /\ s.writeSet = UndoneRows(u, s.undoLen)
    BY <1>1, <1>2 DEF SameMarks, Mirrors
  <2> QED BY <1>2, <2>1, <2>2, <2>3 DEF SameLog, Mirrors
<1>3. ASSUME NEW r \in Rows, NEW c \in Cells, GrownBy(u, r, c) PROVE Mirrors(u)'
  <2>1. /\ undo'[u] = Append(log, r) /\ Len(Append(log, r)) = Len(log) + 1
        /\ Append(log, r)[Len(log) + 1] = r
        /\ \A i \in 1 .. Len(log) : Append(log, r)[i] = log[i]
        /\ \A q : Touches(Append(log, r), 1, q) = Touches(log, 1, q) + (IF r = q THEN 1 ELSE 0)
    BY <1>1, <1>3, GrownLog DEF GrownBy, DataFields
  <2>2. ASSUME NEW q \in Rows
        PROVE  Cardinality(OwnIntents(u, chains'[q])) = Touches(undo'[u], 1, q)
    <3>1. Cardinality(OwnIntents(u, chains[q])) = Touches(log, 1, q)
      BY DEF Mirrors
    <3>2. Touches(log, 1, q) \in Nat
      BY <1>1, TouchesSplit, CountIsNat
    <3>3. CASE q = r
      <4>1. IsFiniteSet(OwnIntents(u, chains[r]))
        BY OwnPositioned DEF Positioned
      <4>2. Cardinality(OwnIntents(u, chains'[r])) = Cardinality(OwnIntents(u, chains[r])) + 1
        <5> DEFINE own == OwnIntents(u, chains[r])
                   new == Intent(u, c, chains[r])
        <5>1. OwnIntents(u, chains'[r]) = own \cup {new} /\ new \notin own
          BY <1>3, GrownIntents DEF GrownBy
        <5> HIDE DEF own, new
        <5>2. Cardinality(own \cup {new}) = Cardinality(own) + 1
          BY <4>1, <5>1, FS_AddElement DEF own
        <5> QED BY <5>1, <5>2 DEF own
      <4> QED BY <2>1, <3>1, <3>3, <4>2
    <3>4. CASE q # r
      <4>1. OwnIntents(u, chains'[q]) = OwnIntents(u, chains[q])
        BY <1>3, <3>4, GrownIntents DEF GrownBy
      <4> QED BY <2>1, <3>1, <3>2, <3>4, <4>1
    <3> QED BY <3>3, <3>4
  <2>3. \A n \in 0 .. Len(log) : UndoneRows(u, n)' = UndoneRows(u, n)
    BY <1>1, <2>1 DEF UndoneRows
  <2>4. writeSet'[u] = UndoneRows(u, Len(undo[u]))'
    <3>1. writeSet'[u] = {log[i] : i \in 1 .. Len(log)} \cup {r}
      BY <1>3 DEF GrownBy, Mirrors, UndoneRows
    <3>2. {undo'[u][i] : i \in 1 .. Len(log) + 1} = {log[i] : i \in 1 .. Len(log)} \cup {r}
      BY <1>1, <2>1
    <3> QED BY <2>1, <3>1, <3>2 DEF UndoneRows
  <2>5. \A s \in savepoints'[u] :
          s.undoLen <= Len(undo'[u]) /\ s.writeSet = UndoneRows(u, s.undoLen)'
    BY <1>1, <1>3, <2>1, <2>3 DEF GrownBy, Mirrors
  <2> QED BY <2>2, <2>4, <2>5 DEF Mirrors, OwnIntents
<1>4. ASSUME NEW s \in savepoints[u], RollbackTo(u, s) PROVE Mirrors(u)'
  <2> DEFINE n == s.undoLen
             cut == SubSeq(log, 1, n)
  <2>1. n \in 0 .. Len(log) /\ s.writeSet = UndoneRows(u, n)
    BY <1>1 DEF Mirrors
  <2>2. /\ cut \in Seq(Rows) /\ Len(cut) = n /\ \A i \in 1 .. n : cut[i] = log[i]
        /\ \A i \in 0 .. n : \A r : Count(cut, i, r) = Count(log, i, r)
    BY <1>1, <2>1, CutLog
  <2>3. /\ undo'[u] = cut /\ writeSet'[u] = s.writeSet
        /\ savepoints'[u] = {p \in savepoints[u] : p.undoLen <= n}
    BY <1>4 DEF RollbackTo, DataFields, SetFields
  <2> HIDE DEF cut, n
  <2>4. ASSUME NEW r \in Rows
        PROVE  Cardinality(OwnIntents(u, chains'[r])) = Touches(cut, 1, r)
    <3>1. Cardinality(OwnIntents(u, chains'[r])) = Count(log, n, r)
      <4> DEFINE own == OwnIntents(u, chains[r])
                 m == Count(log, n, r)
      <4>1. m \in 0 .. Cardinality(own) /\ OwnIntents(u, chains'[r]) = {v \in own : Rank(own, v) < m}
        BY <1>4, CutIntents DEF n
      <4>2. Positioned(own)
        BY OwnPositioned
      <4> HIDE DEF own, m
      <4>3. Cardinality({v \in own : Rank(own, v) < m}) = m
        BY <4>1, <4>2, LowRanks
      <4> QED BY <4>1, <4>3 DEF m
    <3>2. Touches(cut, 1, r) = Count(cut, n, r)
      BY <2>1, <2>2, TouchesSplit
    <3> QED BY <2>1, <2>2, <3>1, <3>2
  <2>5. \A k \in 0 .. n : UndoneRows(u, k)' = UndoneRows(u, k)
    BY <2>1, <2>2, <2>3 DEF UndoneRows
  <2>6. writeSet'[u] = UndoneRows(u, n)'
    BY <2>1, <2>3, <2>5
  <2>7. \A p \in savepoints'[u] : p.undoLen <= n /\ p.writeSet = UndoneRows(u, p.undoLen)'
    BY <1>1, <2>3, <2>5 DEF Mirrors
  <2> QED BY <2>2, <2>3, <2>4, <2>6, <2>7 DEF Mirrors, OwnIntents
<1> QED BY <1>2, <1>3, <1>4 DEF LogStep

MirrorInv == TypeInv /\ IsolationInv /\ FreshLogs /\ UndoMirrorsIntents

\* The undo logs mirror the intents of the initial state, and of every state
\* after one where they do.
LEMMA MirrorInitially == Init => MirrorInv
BY InitType, InitIsolation DEF Init, MirrorInv, FreshLogs, UndoMirrorsIntents

\* A transaction that runs on makes a LogStep; one that begins has no intents.
LEMMA MirrorNext ==
  ASSUME MirrorInv, [Next]_vars
  PROVE  MirrorInv'
<1> USE DEF clockVars, idVars, endVars, viewVars, setVars, undoVars, lockVars
<1> OtherFields /\ SetFields /\ DataFields
  BY TypeOKParts DEF MirrorInv, TypeInv
<1>1. TypeInv' /\ IsolationInv' /\ FreshLogs'
  BY NextType, NextIsolation, FreshStep DEF MirrorInv
<1>2. ActiveIsLive /\ ActiveIsLive'
  BY <1>1 DEF MirrorInv, IsolationInv, LocksHeldByActive
<1>3. ASSUME NEW u \in active' PROVE Mirrors(u)'
  <2>1. u \in TxnIds /\ IsLive(u)'
    BY <1>2 DEF ActiveIsLive
  <2>2. CASE IsLive(u)
    <3>1. Mirrors(u)
      BY <1>2, <2>1, <2>2, MirrorParts DEF MirrorInv, ActiveIsLive
    <3>2. LogStep(u)
      BY <2>1, <2>2, LogSteps DEF MirrorInv
    <3> QED BY <2>1, <2>2, <3>1, <3>2, MirrorStep DEF MirrorInv
  <2>3. CASE ~IsLive(u)
    <3>1. Started(u) /\ state[u] = "Unknown" /\ u >= nextTxnId
      BY <2>1, <2>3, FrameOfNext DEF MirrorInv, Frame, Started
    <3>2. PICK level \in Isolations : Begin(u, level)
      BY <2>1, <2>3, StartIsBegin DEF MirrorInv
    <3>3. /\ undo'[u] = <<>> /\ writeSet'[u] = {} /\ chains' = chains
          /\ savepoints'[u] = savepoints[u]
      BY <2>1, <3>1, <3>2 DEF Begin, MirrorInv, FreshLogs
    <3>4. \A r \in Rows : OwnIntents(u, chains[r]) = {}
      <4>1. \A r \in Rows : \A v \in chains[r] : v.writer < nextTxnId
        BY DEF MirrorInv, IsolationInv, WritersKnown
      <4>2. u \in Nat /\ nextTxnId \in Nat
        BY <2>1, TxnIdsAssumption DEF OtherFields
      <4> QED BY <3>1, <4>1, <4>2 DEF OwnIntents
    <3>5. \A r \in Rows : Touches(<<>>, 1, r) = 0
      BY FS_EmptySet DEF Touches
    <3>6. \A r \in Rows : Cardinality(OwnIntents(u, chains'[r])) = Touches(undo'[u], 1, r)
      BY <3>3, <3>4, <3>5, FS_EmptySet
    <3>7. writeSet'[u] = UndoneRows(u, Len(undo[u]))'
      BY <3>3 DEF UndoneRows
    <3>8. savepoints'[u] = {}
      BY <2>1, <3>1, <3>3 DEF MirrorInv, TypeInv, FreshIds
    <3> QED BY <3>3, <3>6, <3>7, <3>8 DEF Mirrors, OwnIntents
  <2> QED BY <2>2, <2>3
<1> QED BY <1>1, <1>3, MirrorPartsPrime DEF MirrorInv

\* The undo records, the write sets and the savepoints of live transactions
\* name exactly their intents, in every reachable state of every instance
\* (run txn_savepoints).
THEOREM UndoMirrored == Spec => []UndoMirrorsIntents
<1>1. MirrorInv => UndoMirrorsIntents
  BY DEF MirrorInv
<1>2. MirrorInv /\ [Next]_vars => MirrorInv'
  BY MirrorNext
<1> QED BY <1>1, <1>2, MirrorInitially, PTL DEF Spec

-----------------------------------------------------------------------------
(* The write log of the abstract transaction.                              *)

\* v is the intent the i-th undo record of t stands for.
Wrote(t, i, v) ==
  LET own == OwnIntents(t, chains[undo[t][i]])
  IN  v \in own /\ Rank(own, v) = Count(undo[t], i - 1, undo[t][i])

LogReads ==
  \A t \in TxnIds : IsLive(t) => \A i \in 1 .. Len(undo[t]) :
    /\ \E v : Wrote(t, i, v)
    /\ \A v : Wrote(t, i, v) => LoggedValue(t, i) = v.value

\* Every undo record of a running transaction stands for one intent.
LEMMA LogReadsHold == MirrorInv => LogReads
<1> SUFFICES ASSUME MirrorInv, NEW t \in TxnIds, IsLive(t), NEW i \in 1 .. Len(undo[t])
             PROVE  /\ \E v : Wrote(t, i, v)
                    /\ \A v : Wrote(t, i, v) => LoggedValue(t, i) = v.value
  BY DEF LogReads
<1> OtherFields /\ SetFields /\ DataFields
  BY TypeOKParts DEF MirrorInv, TypeInv
<1> DEFINE log == undo[t]
           r == log[i]
           own == OwnIntents(t, chains[r])
           m == Count(log, i - 1, r)
<1>1. log \in Seq(Rows) /\ Len(log) \in Nat /\ r \in Rows /\ i - 1 \in Nat
  BY DEF DataFields
<1>2. Mirrors(t)
  BY MirrorParts DEF MirrorInv, IsolationInv, LocksHeldByActive, ActiveIsLive
<1>3. Positioned(own)
  BY <1>1, OwnPositioned DEF MirrorInv
<1>4. Cardinality(own) = Count(log, Len(log), r)
  BY <1>1, <1>2, TouchesSplit DEF Mirrors
<1>5. m \in Nat /\ Count(log, i, r) = m + 1
  <2>1. m \in Nat
    BY <1>1, CountIsNat
  <2>2. Count(log, (i - 1) + 1, r) = m + 1
    BY <1>1, CountNext
  <2> QED BY <2>1, <2>2
<1>6. Count(log, i, r) <= Count(log, Len(log), r)
  BY <1>1, CountGrows
<1>7. m \in 0 .. Cardinality(own) - 1
  BY <1>3, <1>4, <1>5, <1>6, Ranks
<1>8. /\ \A v, w \in own : Rank(own, v) = Rank(own, w) => v = w
      /\ \E v \in own : Rank(own, v) = m
  <2> HIDE DEF own, m
  <2> QED BY <1>3, <1>7, Ranks
<1>9. LoggedValue(t, i) = (CHOOSE v \in own : Rank(own, v) = m).value
  BY DEF LoggedValue, Rank, OlderIn, Count, Naming
<1>10. \A v : Wrote(t, i, v) <=> v \in own /\ Rank(own, v) = m
  BY DEF Wrote
<1> HIDE DEF own, m
<1> QED BY <1>8, <1>9, <1>10

\* The same, after a step.
LEMMA LogReadsHoldNext == MirrorInv' => LogReads'
BY LogReadsHold, PTL

\* What the records of a log stand for before and after a step.
LEMMA LoggedSame ==
  ASSUME LogReads, LogReads', NEW u \in TxnIds, IsLive(u), IsLive(u)', NEW i,
         i \in 1 .. Len(undo[u]), i \in 1 .. Len(undo'[u]),
         \E v : Wrote(u, i, v) /\ Wrote(u, i, v)'
  PROVE  LoggedValue(u, i)' = LoggedValue(u, i)
<1>1. PICK v : Wrote(u, i, v) /\ Wrote(u, i, v)'
  OBVIOUS
<1>2. LoggedValue(u, i) = v.value
  BY <1>1 DEF LogReads
<1>3. LoggedValue(u, i)' = v.value
  BY <1>1 DEF LogReads
<1> QED BY <1>2, <1>3

\* A record that stays, with the intents of its row, stands for what it stood.
LEMMA WroteKept ==
  ASSUME NEW u, NEW i \in Nat, NEW v, Wrote(u, i, v), undo'[u][i] = undo[u][i],
         Count(undo'[u], i - 1, undo[u][i]) = Count(undo[u], i - 1, undo[u][i]),
         OwnIntents(u, chains'[undo[u][i]]) = OwnIntents(u, chains[undo[u][i]])
  PROVE  Wrote(u, i, v)'
<1> DEFINE own == OwnIntents(u, chains[undo[u][i]])
           n == Count(undo[u], i - 1, undo[u][i])
<1>1. v \in own /\ Rank(own, v) = n
  BY DEF Wrote
<1>2. Wrote(u, i, v)' <=> 
        /\ v \in OwnIntents(u, chains'[undo'[u][i]])
        /\ Rank(OwnIntents(u, chains'[undo'[u][i]]), v) = Count(undo'[u], i - 1, undo'[u][i])
  BY DEF Wrote, OwnIntents
<1> HIDE DEF own, n
<1> QED BY <1>1, <1>2 DEF own, n

\* A log that no step grows or cuts is the same write log.
LEMMA KeptLog ==
  ASSUME MirrorInv, [Next]_vars, NEW u \in TxnIds, IsLive(u), IsLive(u)', undo'[u] = undo[u]
  PROVE  AbsLog(u)' = AbsLog(u)
<1> OtherFields /\ SetFields /\ DataFields
  BY TypeOKParts DEF MirrorInv, TypeInv
<1>1. LogReads /\ LogReads'
  BY MirrorNext, LogReadsHold, LogReadsHoldNext
<1>2. undo[u] \in Seq(Rows) /\ Len(undo[u]) \in Nat
  BY DEF DataFields
<1>3. \A i \in 1 .. Len(undo[u]) :
        OwnIntents(u, chains'[undo[u][i]]) = OwnIntents(u, chains[undo[u][i]])
  <2>1. CASE SameLog(u)
    BY <1>2, <2>1, OwnIntentsPrime DEF SameLog
  <2>2. ASSUME NEW r \in Rows, NEW c \in Cells, GrownBy(u, r, c) PROVE FALSE
    <3>1. undo'[u] = Append(undo[u], r)
      BY <2>2 DEF GrownBy, DataFields
    <3> QED BY <1>2, <3>1
  <2>3. ASSUME NEW s \in savepoints[u], RollbackTo(u, s)
        PROVE  \A r \in Rows : OwnIntents(u, chains'[r]) = OwnIntents(u, chains[r])
    <3> SUFFICES ASSUME NEW r \in Rows
                 PROVE  OwnIntents(u, chains'[r]) = OwnIntents(u, chains[r])
      OBVIOUS
    <3> DEFINE own == OwnIntents(u, chains[r])
    <3>1. Mirrors(u)
      BY MirrorParts DEF MirrorInv, IsolationInv, LocksHeldByActive, ActiveIsLive
    <3>2. /\ s.undoLen \in 0 .. Len(undo[u])
          /\ OwnIntents(u, chains'[r]) = {v \in own : Rank(own, v) < Count(undo[u], s.undoLen, r)}
      BY <2>3, <3>1, CutIntents DEF MirrorInv
    <3>3. s.undoLen = Len(undo[u])
      <4>1. undo'[u] = SubSeq(undo[u], 1, s.undoLen)
        BY <2>3 DEF RollbackTo, DataFields
      <4> QED BY <1>2, <3>2, <4>1
    <3>4. Cardinality(own) = Count(undo[u], Len(undo[u]), r) /\ Positioned(own)
      <4>1. Touches(undo[u], 1, r) = Count(undo[u], Len(undo[u]), r)
        BY <1>2, TouchesSplit
      <4> QED BY <3>1, <4>1, OwnPositioned DEF Mirrors, MirrorInv
    <3>5. \A v \in own : Rank(own, v) < Count(undo[u], s.undoLen, r)
      <4> HIDE DEF own
      <4>1. Cardinality(own) \in Nat /\ \A v \in own : Rank(own, v) \in 0 .. Cardinality(own) - 1
        BY <3>4, Ranks
      <4> QED BY <3>3, <3>4, <4>1
    <3> QED BY <3>2, <3>5
  <2> QED BY <1>2, <2>1, <2>2, <2>3, LogSteps DEF LogStep, MirrorInv
<1>4. ASSUME NEW i \in 1 .. Len(undo[u]) PROVE LoggedValue(u, i)' = LoggedValue(u, i)
  <2>1. PICK v : Wrote(u, i, v)
    BY <1>1 DEF LogReads
  <2>2. Wrote(u, i, v)'
    BY <1>2, <1>3, <2>1, WroteKept
  <2> QED BY <1>1, <1>2, <2>1, <2>2, LoggedSame
<1> QED BY <1>4 DEF AbsLog

\* A write appends to the write log.
LEMMA GrownAbsLog ==
  ASSUME MirrorInv, [Next]_vars, NEW u \in TxnIds, IsLive(u), IsLive(u)',
         NEW r \in Rows, NEW c \in Cells, GrownBy(u, r, c)
  PROVE  AbsLog(u)' = Append(AbsLog(u), [row |-> r, value |-> c])
<1> OtherFields /\ SetFields /\ DataFields
  BY TypeOKParts DEF MirrorInv, TypeInv
<1> DEFINE log == undo[u]
<1> PICK n : n = Len(log)
  OBVIOUS
<1> PICK new : new = Intent(u, c, chains[r])
  OBVIOUS
<1>1. LogReads /\ LogReads'
  BY MirrorNext, LogReadsHold, LogReadsHoldNext
<1>2. /\ log \in Seq(Rows) /\ n \in Nat /\ undo'[u] = Append(log, r)
      /\ Len(undo'[u]) = n + 1 /\ undo'[u][n + 1] = r
      /\ \A i \in 1 .. n : undo'[u][i] = log[i] /\ log[i] \in Rows
      /\ \A i \in 0 .. n : \A q : Count(undo'[u], i, q) = Count(log, i, q)
  BY GrownLog DEF GrownBy, DataFields
<1>3. /\ OwnIntents(u, chains'[r]) = OwnIntents(u, chains[r]) \cup {new}
      /\ \A q \in Rows \ {r} : OwnIntents(u, chains'[q]) = OwnIntents(u, chains[q])
  BY GrownIntents DEF GrownBy, MirrorInv
<1>4. \A v \in OwnIntents(u, chains[r]) : v.pos < new.pos /\ v.pos \in Nat
  <2>1. TypeInv /\ IsolationInv
    BY DEF MirrorInv
  <2>2. \A v \in chains[r] : v.pos < Intent(u, c, chains[r]).pos
    BY ONLY <2>1, PushedLast, u \in TxnIds, r \in Rows, c \in Cells
  <2>3. \A v \in chains[r] : v.pos \in 1 .. MaxPos
    BY ONLY <2>1, OwnPositioned, r \in Rows
  <2> QED BY <2>2, <2>3 DEF OwnIntents
<1>5. new.value = c
  BY DEF Intent
<1>6. /\ \A v \in OwnIntents(u, chains[r]) :
           Rank(OwnIntents(u, chains'[r]), v) = Rank(OwnIntents(u, chains[r]), v)
      /\ Rank(OwnIntents(u, chains'[r]), new) = Cardinality(OwnIntents(u, chains[r]))
  <2> DEFINE own == OwnIntents(u, chains[r])
  <2>0. new.pos \in Nat
    BY OwnPositioned, NextPosIsNat DEF MirrorInv, Intent
  <2>1. ASSUME NEW v \in own PROVE OlderIn(own \cup {new}, v) = OlderIn(own, v)
    BY <1>4, <2>0 DEF OlderIn
  <2>2. OlderIn(own \cup {new}, new) = own
    BY <1>4, <2>0 DEF OlderIn
  <2> QED BY <1>3, <2>1, <2>2 DEF Rank
<1>7. ASSUME NEW i \in 1 .. n PROVE LoggedValue(u, i)' = LoggedValue(u, i)
  <2>1. PICK v : Wrote(u, i, v)
    BY <1>1 DEF LogReads
  <2>2. /\ undo'[u][i] = log[i] /\ log[i] \in Rows /\ i - 1 \in 0 .. n
        /\ Count(undo'[u], i - 1, log[i]) = Count(log, i - 1, log[i])
    BY <1>2
  <2>3. Wrote(u, i, v)'
    <3>1. CASE log[i] # r
      BY <1>3, <2>1, <2>2, <3>1, WroteKept
    <3>2. CASE log[i] = r
      <4>1. v \in OwnIntents(u, chains[r]) /\ Rank(OwnIntents(u, chains[r]), v) = Count(log, i - 1, r)
        BY <2>1, <3>2 DEF Wrote
      <4>2. v \in OwnIntents(u, chains'[r]) /\ Rank(OwnIntents(u, chains'[r]), v) = Count(log, i - 1, r)
        BY <1>3, <1>6, <4>1
      <4>3. Wrote(u, i, v)' <=>
              /\ v \in OwnIntents(u, chains'[undo'[u][i]])
              /\ Rank(OwnIntents(u, chains'[undo'[u][i]]), v)
                   = Count(undo'[u], i - 1, undo'[u][i])
        BY DEF Wrote, OwnIntents
      <4> QED BY <2>2, <3>2, <4>2, <4>3
    <3> QED BY <3>1, <3>2
  <2> QED BY <1>1, <1>2, <2>1, <2>3, LoggedSame
<1>8. LoggedValue(u, n + 1)' = c
  <2>1. Cardinality(OwnIntents(u, chains[r])) = Count(log, n, r)
    BY <1>2, MirrorParts, TouchesSplit
       DEF MirrorInv, IsolationInv, LocksHeldByActive, ActiveIsLive, Mirrors
  <2>2. Wrote(u, n + 1, new)' <=>
          /\ new \in OwnIntents(u, chains'[undo'[u][n + 1]])
          /\ Rank(OwnIntents(u, chains'[undo'[u][n + 1]]), new)
               = Count(undo'[u], (n + 1) - 1, undo'[u][n + 1])
    BY DEF Wrote, OwnIntents
  <2>3. (n + 1) - 1 = n /\ Count(undo'[u], n, r) = Count(log, n, r)
    BY <1>2
  <2>4. Wrote(u, n + 1, new)'
    BY <1>2, <1>3, <1>6, <2>1, <2>2, <2>3
  <2>5. n + 1 \in 1 .. Len(undo'[u])
    BY <1>2
  <2> QED BY <1>1, <1>5, <2>4, <2>5 DEF LogReads
<1>9. AbsLog(u) = [i \in 1 .. n |-> [row |-> log[i], value |-> LoggedValue(u, i)]]
  BY DEF AbsLog
<1>10. AbsLog(u)' = [i \in 1 .. n + 1 |-> [row |-> undo'[u][i], value |-> LoggedValue(u, i)']]
  BY <1>2 DEF AbsLog
<1> HIDE DEF log
<1>11. Append(AbsLog(u), [row |-> r, value |-> c])
         = [i \in 1 .. n + 1 |-> IF i = n + 1 THEN [row |-> r, value |-> c]
                                 ELSE [row |-> log[i], value |-> LoggedValue(u, i)]]
  BY <1>2, <1>9
<1>12. \A i \in 1 .. n + 1 :
         [row |-> undo'[u][i], value |-> LoggedValue(u, i)']
           = IF i = n + 1 THEN [row |-> r, value |-> c]
             ELSE [row |-> log[i], value |-> LoggedValue(u, i)]
  <2>1. \A i \in 1 .. n + 1 : i = n + 1 \/ i \in 1 .. n
    BY <1>2
  <2> QED BY <1>2, <1>7, <1>8, <2>1
<1> QED BY <1>10, <1>11, <1>12

\* A rollback to a savepoint cuts the write log.
LEMMA CutAbsLog ==
  ASSUME MirrorInv, [Next]_vars, NEW u \in TxnIds, IsLive(u), IsLive(u)',
         NEW s \in savepoints[u], RollbackTo(u, s)
  PROVE  \E n \in 0 .. Len(AbsLog(u)) : AbsLog(u)' = SubSeq(AbsLog(u), 1, n)
<1> OtherFields /\ SetFields /\ DataFields
  BY TypeOKParts DEF MirrorInv, TypeInv
<1> DEFINE log == undo[u]
<1> PICK n : n = s.undoLen
  OBVIOUS
<1>1. LogReads /\ LogReads'
  BY MirrorNext, LogReadsHold, LogReadsHoldNext
<1>2. Mirrors(u)
  BY MirrorParts DEF MirrorInv, IsolationInv, LocksHeldByActive, ActiveIsLive
<1>3. \A r \in Rows :
        /\ n \in 0 .. Len(log)
        /\ Positioned(OwnIntents(u, chains[r]))
        /\ OwnIntents(u, chains'[r]) =
              {v \in OwnIntents(u, chains[r]) :
                 Rank(OwnIntents(u, chains[r]), v) < Count(log, n, r)}
  <2> SUFFICES ASSUME NEW r \in Rows
               PROVE  /\ n \in 0 .. Len(log)
                      /\ Positioned(OwnIntents(u, chains[r]))
                      /\ OwnIntents(u, chains'[r]) =
                            {v \in OwnIntents(u, chains[r]) :
                               Rank(OwnIntents(u, chains[r]), v) < Count(log, n, r)}
    OBVIOUS
  <2>1. Positioned(OwnIntents(u, chains[r]))
    BY OwnPositioned DEF MirrorInv
  <2> QED BY <1>2, <2>1, CutIntents DEF MirrorInv
<1>4. log \in Seq(Rows) /\ Len(log) \in Nat /\ n \in 0 .. Len(log)
  BY <1>2 DEF DataFields, SavepointRecords, Mirrors
<1>5. /\ undo'[u] = SubSeq(log, 1, n) /\ Len(undo'[u]) = n
      /\ \A i \in 1 .. n : undo'[u][i] = log[i] /\ log[i] \in Rows
      /\ \A i \in 0 .. n : \A r : Count(undo'[u], i, r) = Count(log, i, r)
  <2>1. undo'[u] = SubSeq(log, 1, n)
    BY DEF RollbackTo, DataFields
  <2>2. \A i \in 1 .. n : log[i] \in Rows
    BY <1>4
  <2>3. /\ Len(SubSeq(log, 1, n)) = n
        /\ \A i \in 1 .. n : SubSeq(log, 1, n)[i] = log[i]
        /\ \A i \in 0 .. n : \A r : Count(SubSeq(log, 1, n), i, r) = Count(log, i, r)
    BY ONLY <1>4, CutLog
  <2> QED BY <2>1, <2>2, <2>3
<1>6. ASSUME NEW i \in 1 .. n PROVE LoggedValue(u, i)' = LoggedValue(u, i)
  <2> PICK r : r = log[i]
    OBVIOUS
  <2> DEFINE own == OwnIntents(u, chains[r])
             own2 == OwnIntents(u, chains'[r])
  <2>1. r \in Rows /\ undo'[u][i] = r /\ i \in Nat /\ n \in Nat /\ i - 1 \in 0 .. n /\ i <= n
    BY <1>4, <1>5
  <2>2. PICK v : Wrote(u, i, v)
    BY <1>1, <1>4 DEF LogReads
  <2>3. v \in own /\ Rank(own, v) = Count(log, i - 1, r)
    BY <2>2 DEF Wrote
  <2>4. Positioned(own) /\ own2 = {w \in own : Rank(own, w) < Count(log, n, r)}
    BY <1>3, <2>1
  <2>5. Rank(own, v) < Count(log, n, r)
    <3>1. Count(log, (i - 1) + 1, r) = Count(log, i - 1, r) + 1
      <4>1. (i - 1) + 1 = i /\ i - 1 \in Nat
        BY <2>1
      <4> QED BY <4>1, CountNext
    <3>2. (i - 1) + 1 = i /\ Count(log, i, r) <= Count(log, n, r)
      BY <2>1, CountGrows
    <3>3. Count(log, i - 1, r) \in Nat /\ Count(log, n, r) \in Nat
      BY <2>1, CountIsNat
    <3> HIDE DEF own
    <3> QED BY <2>3, <3>1, <3>2, <3>3
  <2> HIDE DEF own, own2
  <2>6. v \in own2 /\ Rank(own2, v) = Rank(own, v)
    <3>1. \A w \in own : w.pos < v.pos => Rank(own, w) < Rank(own, v)
      BY <2>3, <2>4, RankGrows
    <3>2. \A w \in own : Rank(own, w) \in Nat
      BY <2>4, OlderAndNewer
    <3>3. Count(log, n, r) \in Nat
      BY <2>1, CountIsNat
    <3>4. \A w \in own : w.pos < v.pos => w \in own2
      BY <2>3, <2>4, <2>5, <3>1, <3>2, <3>3
    <3>5. OlderIn(own2, v) = OlderIn(own, v)
      BY <2>4, <3>4 DEF OlderIn
    <3> QED BY <2>3, <2>4, <2>5, <3>5 DEF Rank
  <2>7. Wrote(u, i, v)' <=>
          /\ v \in OwnIntents(u, chains'[undo'[u][i]])
          /\ Rank(OwnIntents(u, chains'[undo'[u][i]]), v) = Count(undo'[u], i - 1, undo'[u][i])
    BY DEF Wrote, OwnIntents
  <2>8. Wrote(u, i, v)'
    BY <1>5, <2>1, <2>3, <2>6, <2>7 DEF own2
  <2>9. i \in 1 .. Len(undo[u]) /\ i \in 1 .. Len(undo'[u])
    BY <1>4, <1>5
  <2> QED BY <1>1, <2>2, <2>8, <2>9, LoggedSame
<1>7. AbsLog(u) = [i \in 1 .. Len(log) |-> [row |-> log[i], value |-> LoggedValue(u, i)]]
  BY DEF AbsLog
<1>8. AbsLog(u)' = [i \in 1 .. n |-> [row |-> undo'[u][i], value |-> LoggedValue(u, i)']]
  BY <1>5 DEF AbsLog
<1> HIDE DEF log
<1>9. /\ Len(AbsLog(u)) = Len(log)
      /\ SubSeq(AbsLog(u), 1, n)
           = [i \in 1 .. n |-> [row |-> log[i], value |-> LoggedValue(u, i)]]
  BY <1>4, <1>7
<1> QED BY <1>4, <1>5, <1>6, <1>8, <1>9

-----------------------------------------------------------------------------
(* The database.                                                           *)

\* Only a commit changes a committed value.
LEMMA SameDatabase ==
  ASSUME TypeInv, [Next]_vars, \A t \in TxnIds : ~Commit(t)
  PROVE  Database' = Database
<1> SUFFICES ASSUME NEW r \in Rows PROVE LatestCommitted(r)' = LatestCommitted(r)
  BY DEF Database
<1>1. Current(chains[r]) = {v \in Committed(r) : v.end = TsInf}
  BY DEF Current, Committed
<1>2. Current(chains[r])' = {v \in Committed(r)' : v.end = TsInf}
  BY DEF Current, Committed
<1>3. CASE Committed(r)' = Committed(r)
  BY <1>1, <1>2, <1>3 DEF LatestCommitted
<1>4. CASE GarbageCollect
  BY <1>1, <1>2, <1>4, CollectedVersions DEF LatestCommitted
<1> QED BY <1>3, <1>4, StepKinds, PushedVersions DEF Shrinks

\* A non-empty set of indices has a last one.
LEMMA LastIndex ==
  ASSUME NEW n \in Nat, NEW T \in SUBSET (1 .. n), T # {}
  PROVE  \E i \in T : \A j \in T : j <= i
<1> DEFINE D == {n - j : j \in T}
<1>1. D \subseteq Nat /\ D # {}
  <2>1. \A j \in T : n - j \in Nat
    OBVIOUS
  <2> QED BY <2>1
<1>2. Min(D) \in D /\ \A q \in D : Min(D) <= q
  <2> HIDE DEF D
  <2> QED BY <1>1, MinIsIn
<1>3. PICK i \in T : Min(D) = n - i
  BY <1>2
<1>4. \A j \in T : n - i <= n - j
  BY <1>2, <1>3
<1> QED BY <1>4

\* The last record of a row stands for its transaction's newest intent on it.
LEMMA LastWrite ==
  ASSUME MirrorInv, NEW t \in TxnIds, IsLive(t), NEW r \in Rows,
         NEW i \in 1 .. Len(undo[t]), undo[t][i] = r,
         \A j \in 1 .. Len(undo[t]) : undo[t][j] = r => j <= i
  PROVE  LoggedValue(t, i) = Newest(OwnIntents(t, chains[r])).value
<1> OtherFields /\ DataFields
  BY TypeOKParts DEF MirrorInv, TypeInv
<1> DEFINE log == undo[t]
           own == OwnIntents(t, chains[r])
           m == Count(log, i - 1, r)
<1>1. log \in Seq(Rows) /\ Len(log) \in Nat /\ i \in Nat /\ i - 1 \in Nat /\ (i - 1) + 1 = i
  BY DEF DataFields
<1>2. PICK v : Wrote(t, i, v)
  BY LogReadsHold DEF LogReads
<1>3. v \in own /\ Rank(own, v) = m /\ LoggedValue(t, i) = v.value
  BY <1>2, LogReadsHold DEF LogReads, Wrote
<1>4. Cardinality(own) = Count(log, Len(log), r)
  BY <1>1, MirrorParts, TouchesSplit
     DEF MirrorInv, IsolationInv, LocksHeldByActive, ActiveIsLive, Mirrors
<1>5. Count(log, Len(log), r) = Count(log, i, r)
  <2>1. Naming(log, Len(log), r) = Naming(log, i, r)
    BY <1>1 DEF Naming
  <2> QED BY <2>1 DEF Count
<1>6. m \in Nat /\ Count(log, i, r) = m + 1
  BY <1>1, CountNext, CountIsNat
<1>7. Positioned(own) /\ \A w \in own : w.pos \in 1 .. MaxPos
  BY OwnPositioned DEF MirrorInv, OwnIntents
<1> HIDE DEF own, m, log
<1>8. Newest(own) \in own /\ \A w \in own : w.pos <= Newest(own).pos
  BY <1>3, <1>7, NewestIsIn
<1>9. NewerIn(own, Newest(own)) = {}
  BY <1>7, <1>8 DEF NewerIn
<1>10. Rank(own, Newest(own)) + 0 + 1 = Cardinality(own) /\ Rank(own, Newest(own)) \in Nat
  BY <1>7, <1>8, <1>9, OlderAndNewer, FS_EmptySet
<1>11. Rank(own, Newest(own)) = Rank(own, v)
  BY <1>3, <1>4, <1>5, <1>6, <1>10
<1>12. v = Newest(own)
  BY <1>3, <1>7, <1>8, <1>11, Ranks
<1> QED BY <1>3, <1>12 DEF own

\* A commit makes the newest intent of its transaction on a row the latest
\* committed value, and leaves a row without one.
LEMMA CommitValue ==
  ASSUME MirrorInv, NEW t \in TxnIds, Commit(t), NEW r \in Rows
  PROVE  LatestCommitted(r)' =
           IF OwnIntents(t, chains[r]) = {} THEN LatestCommitted(r)
           ELSE Newest(OwnIntents(t, chains[r])).value
<1> OtherFields /\ SetFields /\ DataFields
  BY TypeOKParts DEF MirrorInv, TypeInv
<1> nextTs \in Timestamps
  BY TsInfAssumption DEF OtherFields, Timestamps
<1> DEFINE own == OwnIntents(t, chains[r])
<1>1. Current(chains[r])' = {v \in chains'[r] : v.committed /\ v.end = TsInf}
  BY DEF Current
<1>2. CASE own = {}
  <2>1. chains'[r] = chains[r]
    BY <1>2 DEF Commit, FinalizeWrite
  <2> QED BY <1>1, <1>2, <2>1 DEF LatestCommitted, Current
<1>3. CASE own # {}
  <2>1. r \in writeSet[t]
    <3>1. IsLive(t) /\ Mirrors(t)
      BY MirrorParts DEF MirrorInv, IsolationInv, LocksHeldByActive, ActiveIsLive, Commit
    <3>2. undo[t] \in Seq(Rows)
      BY DEF DataFields
    <3>3. Positioned(own)
      BY OwnPositioned DEF MirrorInv
    <3>4. Cardinality(own) # 0
      <4> HIDE DEF own
      <4> QED BY <1>3, <3>3, FS_EmptySet DEF Positioned
    <3>5. Touches(undo[t], 1, r) # 0
      BY <3>1, <3>4 DEF Mirrors
    <3>6. \E i \in 1 .. Len(undo[t]) : undo[t][i] = r
      <4>1. {i \in 1 .. Len(undo[t]) : undo[t][i] = r} # {}
        BY <3>5, FS_EmptySet DEF Touches
      <4> QED BY <4>1
    <3> QED BY <3>1, <3>6 DEF Mirrors, UndoneRows
  <2>2. chains'[r] = FinalizeWrite(chains[r], t, nextTs)
    BY <2>1 DEF Commit
  <2>3. PICK mine \in own, closed \in SUBSET Current(chains[r]) :
          /\ mine = Newest(own)
          /\ \A c, d \in closed : c = d
          /\ Current(chains[r]) # {} => closed # {}
          /\ chains'[r] = Finalized(chains[r], mine, closed, nextTs)
    <3>1. chains[r] \in SUBSET Versions
      BY DEF DataFields
    <3> HIDE DEF own
    <3>2. \E mine \in own, closed \in SUBSET Current(chains[r]) :
            /\ mine = Newest(own)
            /\ \A c, d \in closed : c = d
            /\ Current(chains[r]) # {} => closed # {}
            /\ FinalizeWrite(chains[r], t, nextTs) = Finalized(chains[r], mine, closed, nextTs)
      BY <1>3, <3>1, FinalizeWriteVersions DEF own
    <3> QED BY <2>2, <3>2
  <2>4. closed = Current(chains[r])
    BY <2>3, OneCurrent DEF MirrorInv, IsolationInv, VersionTimeline
  <2>5. mine \in chains[r] /\ ~mine.committed /\ mine \in Versions
    BY DEF OwnIntents, DataFields
  <2>6. /\ Stamped(mine, nextTs).committed /\ Stamped(mine, nextTs).end = TsInf
        /\ Stamped(mine, nextTs).value = mine.value
        /\ Stamped(mine, nextTs).pos \in Nat
        /\ \A v \in closed : Closed(v, nextTs).end = nextTs
    <3>1. \A v \in closed : v \in Versions
      BY DEF Current, DataFields
    <3>2. mine.pos \in Nat
      BY <2>5 DEF Versions
    <3>3. /\ Stamped(mine, nextTs).committed /\ Stamped(mine, nextTs).end = TsInf
          /\ Stamped(mine, nextTs).value = mine.value /\ Stamped(mine, nextTs).pos = mine.pos
      BY <2>5, StampedFields
    <3>4. \A v \in Versions : Closed(v, nextTs).end = nextTs
      BY StampedFields
    <3> QED BY <3>1, <3>2, <3>3, <3>4
  <2>7. nextTs # TsInf
    BY TsInfAssumption DEF OtherFields
  <2>8. Current(chains[r])' = {Stamped(mine, nextTs)}
    BY <1>1, <2>3, <2>4, <2>5, <2>6, <2>7 DEF Finalized, Current
  <2>9. Newest({Stamped(mine, nextTs)}) = Stamped(mine, nextTs)
    <3>1. \A v : Newest({v}) \in {v} \/ ~(v.pos <= v.pos)
      BY DEF Newest
    <3> QED BY <2>6, <3>1
  <2>10. LatestCommitted(r)' = IF Current(chains[r])' = {} THEN Absent
                               ELSE Newest(Current(chains[r])').value
    BY DEF LatestCommitted, Newest
  <2> QED BY <1>3, <2>3, <2>6, <2>8, <2>9, <2>10
<1> QED BY <1>2, <1>3

\* The database after a commit is the one before with the write log installed.
LEMMA CommitInstalls ==
  ASSUME MirrorInv, NEW t \in TxnIds, Commit(t)
  PROVE  Database' = SI!Installed(Logs[t])
<1> OtherFields /\ SetFields /\ DataFields
  BY TypeOKParts DEF MirrorInv, TypeInv
<1>1. IsLive(t) /\ Mirrors(t)
  BY MirrorParts DEF MirrorInv, IsolationInv, LocksHeldByActive, ActiveIsLive, Commit
<1> DEFINE writes == Logs[t]
           n == Len(undo[t])
<1>2. n \in Nat /\ writes = [i \in 1 .. n |-> [row |-> undo[t][i], value |-> LoggedValue(t, i)]]
  BY <1>1 DEF Logs, AbsLog, DataFields
<1>3. ASSUME NEW r \in Rows
      PROVE  LatestCommitted(r)' =
               LET touching == {i \in DOMAIN writes : writes[i].row = r}
               IN  IF touching = {} THEN Database[r]
                   ELSE writes[CHOOSE i \in touching : \A j \in touching : j <= i].value
  <2> DEFINE own == OwnIntents(t, chains[r])
             touching == {i \in DOMAIN writes : writes[i].row = r}
  <2>1. touching = {i \in 1 .. n : undo[t][i] = r}
    BY <1>2
  <2>2. IsFiniteSet(own) /\ Cardinality(own) = Cardinality(touching)
    BY <1>1, <2>1, OwnPositioned DEF Mirrors, Touches, Positioned, MirrorInv
  <2>3. touching = {} <=> own = {}
    <3>1. IsFiniteSet(touching)
      <4>1. IsFiniteSet(1 .. n)
        BY <1>2, FS_Interval
      <4> QED BY <2>1, <4>1, FS_Subset
    <3> HIDE DEF own, touching
    <3> QED BY <2>2, <3>1, FS_EmptySet
  <2>4. CASE touching = {}
    BY <2>3, <2>4, CommitValue DEF Database
  <2>5. CASE touching # {}
    <3> DEFINE last == CHOOSE i \in touching : \A j \in touching : j <= i
    <3>1. touching \in SUBSET (1 .. n)
      BY <2>1
    <3>2. last \in touching /\ \A j \in touching : j <= last
      <4> HIDE DEF touching, n
      <4>1. \E i \in touching : \A j \in touching : j <= i
        BY <1>2, <2>5, <3>1, LastIndex
      <4> QED BY <4>1
    <3>3. /\ last \in 1 .. n /\ undo[t][last] = r
          /\ \A j \in 1 .. n : undo[t][j] = r => j <= last
      <4> HIDE DEF last, n
      <4> QED BY <2>1, <3>2
    <3> HIDE DEF last
    <3>4. LoggedValue(t, last) = Newest(own).value
      BY <1>1, <3>3, LastWrite
    <3>5. writes[last].value = LoggedValue(t, last)
      BY <1>2, <3>3
    <3>6. LatestCommitted(r)' = Newest(own).value
      BY <2>3, <2>5, CommitValue
    <3>7. writes[last].value = LatestCommitted(r)'
      BY <3>4, <3>5, <3>6
    <3> QED BY <2>5, <3>7 DEF last
  <2> QED BY <2>4, <2>5
<1> QED BY <1>3 DEF SI!Installed, Database

-----------------------------------------------------------------------------
(* Every step is a step of SnapshotIsolation, or leaves it alone.          *)

\* What a snapshot taken now holds is the latest committed value.
LEMMA FirstSnapshot ==
  ASSUME MirrorInv, NEW t \in TxnIds, NEW l \in Isolations, Begin(t, l), NEW r \in Rows
  PROVE  SnapshotValue(t, r)' = LatestCommitted(r)
<1> USE DEF clockVars, idVars, endVars, viewVars, setVars, undoVars, lockVars
<1> OtherFields /\ DataFields
  BY TypeOKParts DEF MirrorInv, TypeInv
<1>1. /\ chains' = chains /\ snapshotTs'[t] = nextTs /\ viewActive'[t] = active
      /\ nextTs \in Nat /\ nextTs < TsInf
  BY DEF Begin, OtherFields
<1>2. ASSUME NEW v \in Committed(r)
      PROVE  IsVisible(View(t), v)' <=> v.end = TsInf
  <2>1. /\ v.begin \in Nat /\ v.end \in Nat /\ v.committed /\ v.begin < nextTs
        /\ v.end = TsInf \/ v.end < nextTs
        /\ ~IsLive(v.writer)
    BY DEF Committed, DataFields, Versions, Timestamps, MirrorInv, IsolationInv, VersionTimeline,
           PastLifetimes, CommittedInThePast
  <2>2. v.writer \notin active
    BY <2>1 DEF MirrorInv, IsolationInv, LocksHeldByActive, ActiveIsLive
  <2>3. IsVisible(View(t), v)' <=> v.writer \notin active /\ v.begin <= nextTs /\ v.end > nextTs
    BY <1>1, <2>1 DEF IsVisible, View
  <2> QED BY <1>1, <2>1, <2>2, <2>3
<1>3. {v \in Committed(r) : IsVisible(View(t), v)}' = Current(chains[r])
  <2>1. Committed(r)' = Committed(r)
    BY <1>1 DEF Committed
  <2> QED BY <1>2, <2>1 DEF Current, Committed
<1>4. SnapshotValue(t, r)' = IF {v \in Committed(r) : IsVisible(View(t), v)}' = {} THEN Absent
                            ELSE Newest({v \in Committed(r) : IsVisible(View(t), v)}').value
  BY DEF SnapshotValue, Newest
<1> QED BY <1>3, <1>4 DEF LatestCommitted

\* Levels and snapshots of transactions that run on do not move.
LEMMA RunsOn ==
  ASSUME MirrorInv, [Next]_vars, NEW u \in TxnIds, IsLive(u), IsLive(u)'
  PROVE  /\ AbsStatus(u)' = AbsStatus(u) /\ Levels'[u] = Levels[u]
         /\ Snapshots'[u] = Snapshots[u]
         /\ undo'[u] = undo[u] => Logs'[u] = Logs[u]
<1>1. isolation'[u] = isolation[u]
  BY FrameOfNext DEF MirrorInv, Frame, SameView
<1>2. AbsStatus(u)' = AbsStatus(u) /\ Levels'[u] = Levels[u]
  BY <1>1 DEF AbsStatus, Levels
<1>3. isolation[u] \in FixedSnapshot =>
        \A r \in Rows : SnapshotValue(u, r)' = SnapshotValue(u, r)
  BY SnapshotStep DEF MirrorInv
<1>4. Snapshots'[u] = Snapshots[u]
  <2>1. Snapshots'[u] = [r \in Rows |-> IF IsLive(u)' /\ isolation'[u] \in FixedSnapshot
                                        THEN SnapshotValue(u, r)' ELSE Absent]
    BY DEF Snapshots, FixedSnapshot
  <2>2. Snapshots[u] = [r \in Rows |-> IF IsLive(u) /\ isolation[u] \in FixedSnapshot
                                       THEN SnapshotValue(u, r) ELSE Absent]
    BY DEF Snapshots
  <2> QED BY <1>1, <1>3, <2>1, <2>2
<1>5. undo'[u] = undo[u] => Logs'[u] = Logs[u]
  BY KeptLog DEF Logs
<1> QED BY <1>2, <1>4, <1>5

\* A transaction that does not run has no level, snapshot or log of its own.
LEMMA Idle ==
  ASSUME NEW u \in TxnIds
  PROVE  /\ ~IsLive(u) => /\ Levels[u] = "RepeatableRead" /\ Logs[u] = <<>>
                          /\ Snapshots[u] = [r \in Rows |-> Absent]
         /\ ~IsLive(u)' => /\ Levels'[u] = "RepeatableRead" /\ Logs'[u] = <<>>
                           /\ Snapshots'[u] = [r \in Rows |-> Absent]
<1>1. ~IsLive(u) => /\ Levels[u] = "RepeatableRead" /\ Logs[u] = <<>>
                    /\ Snapshots[u] = [r \in Rows |-> Absent]
  BY DEF Levels, Logs, AbsLog, Snapshots
<1>2. ~IsLive(u)' => /\ Levels'[u] = "RepeatableRead" /\ Logs'[u] = <<>>
                     /\ Snapshots'[u] = [r \in Rows |-> Absent]
  BY DEF Levels, Logs, AbsLog, Snapshots
<1> QED BY <1>1, <1>2

\* A transaction whose status and undo log a step leaves is left by it.
LEMMA LeftAlone ==
  ASSUME MirrorInv, [Next]_vars, NEW u \in TxnIds, state'[u] = state[u] \/ (IsLive(u) /\ IsLive(u)'),
         undo'[u] = undo[u]
  PROVE  /\ Statuses'[u] = Statuses[u] /\ Levels'[u] = Levels[u]
         /\ Snapshots'[u] = Snapshots[u] /\ Logs'[u] = Logs[u]
<1>1. Statuses[u] = AbsStatus(u) /\ Statuses'[u] = AbsStatus(u)'
  BY DEF Statuses
<1>2. CASE IsLive(u) /\ IsLive(u)'
  BY <1>1, <1>2, RunsOn
<1>3. CASE ~(IsLive(u) /\ IsLive(u)')
  <2>1. ~IsLive(u) /\ ~IsLive(u)' /\ AbsStatus(u)' = AbsStatus(u)
    BY <1>3 DEF IsLive, AbsStatus
  <2> QED BY <1>1, <2>1, Idle
<1> QED BY <1>2, <1>3

\* The mapped variables are functions.
LEMMA MappedFunctions ==
  /\ Statuses = [t \in TxnIds |-> Statuses[t]] /\ Statuses' = [t \in TxnIds |-> Statuses'[t]]
  /\ Levels = [t \in TxnIds |-> Levels[t]] /\ Levels' = [t \in TxnIds |-> Levels'[t]]
  /\ Snapshots = [t \in TxnIds |-> Snapshots[t]]
  /\ Snapshots' = [t \in TxnIds |-> Snapshots'[t]]
  /\ Logs = [t \in TxnIds |-> Logs[t]] /\ Logs' = [t \in TxnIds |-> Logs'[t]]
BY DEF Statuses, Levels, Snapshots, Logs

\* Begin is the abstract Begin.
LEMMA BeginStep ==
  ASSUME MirrorInv, [Next]_vars, NEW t \in TxnIds, NEW l \in Isolations, Begin(t, l)
  PROVE  SI!Begin(t, l)
<1> USE DEF clockVars, idVars, endVars, viewVars, setVars, undoVars, lockVars
<1> OtherFields /\ FreshIds
  BY TypeOKParts DEF MirrorInv, TypeInv
<1>1. state[t] = "Unknown" /\ ~IsLive(t) /\ IsLive(t)' /\ isolation'[t] = l
  BY TxnIdsAssumption DEF Begin, FreshIds, OtherFields, IsLive, Live
<1>2. undo' = undo /\ chains' = chains /\ \A u \in TxnIds \ {t} : state'[u] = state[u]
  BY DEF Begin, OtherFields
<1>3. \A u \in TxnIds \ {t} : /\ Statuses'[u] = Statuses[u] /\ Levels'[u] = Levels[u]
                              /\ Snapshots'[u] = Snapshots[u] /\ Logs'[u] = Logs[u]
  BY <1>2, LeftAlone
<1>4. Database' = Database
  BY <1>2 DEF Database, LatestCommitted, Current
<1>5. Statuses[t] = "idle" /\ Statuses'[t] = "running" /\ Levels'[t] = l
  BY <1>1 DEF Statuses, Levels, AbsStatus
<1>6. Logs'[t] = Logs[t]
  <2>1. undo'[t] = <<>>
    BY <1>1, <1>2 DEF MirrorInv, FreshLogs
  <2>2. AbsLog(t)' = <<>>
    BY <2>1 DEF AbsLog
  <2> QED BY <1>1, <2>2, Idle DEF Logs
<1>7. Snapshots'[t] = IF l \in {"RepeatableRead", "Serializable"} THEN Database ELSE Snapshots[t]
  <2>1. Snapshots'[t] = [r \in Rows |-> IF IsLive(t)' /\ isolation'[t] \in FixedSnapshot
                                        THEN SnapshotValue(t, r)' ELSE Absent]
    BY DEF Snapshots, FixedSnapshot
  <2>2. \A r \in Rows : SnapshotValue(t, r)' = LatestCommitted(r)
    BY FirstSnapshot
  <2> QED BY <1>1, <2>1, <2>2, Idle DEF Database, FixedSnapshot
<1>8. /\ Statuses' = [Statuses EXCEPT ![t] = "running"] /\ Levels' = [Levels EXCEPT ![t] = l]
      /\ Snapshots' = IF l \in {"RepeatableRead", "Serializable"}
                      THEN [Snapshots EXCEPT ![t] = Database] ELSE Snapshots
      /\ Logs' = Logs
  BY <1>3, <1>5, <1>6, <1>7, MappedFunctions
<1> QED BY <1>4, <1>5, <1>8 DEF SI!Begin

\* A commit or a rollback of a running transaction is the abstract End.
LEMMA EndStep ==
  ASSUME MirrorInv, [Next]_vars, NEW t \in TxnIds, IsLive(t), Commit(t) \/ UndoAll(t)
  PROVE  SI!End(t)
<1> USE DEF clockVars, idVars, endVars, viewVars, setVars, undoVars, lockVars
<1> OtherFields /\ DataFields
  BY TypeOKParts DEF MirrorInv, TypeInv
<1>1. ~IsLive(t)' /\ state'[t] # "Unknown"
  BY DEF Commit, UndoAll, OtherFields, IsLive, Live
<1>2. \A u \in TxnIds \ {t} : state'[u] = state[u] /\ undo'[u] = undo[u]
  BY DEF Commit, UndoAll, OtherFields, DataFields
<1>3. \A u \in TxnIds \ {t} : /\ Statuses'[u] = Statuses[u] /\ Levels'[u] = Levels[u]
                              /\ Snapshots'[u] = Snapshots[u] /\ Logs'[u] = Logs[u]
  BY <1>2, LeftAlone
<1>4. Statuses[t] = "running" /\ Statuses'[t] = "over"
  BY <1>1 DEF Statuses, AbsStatus
<1>5. /\ Levels'[t] = "RepeatableRead" /\ Logs'[t] = <<>>
      /\ Snapshots'[t] = [r \in Rows |-> Absent]
  BY <1>1, Idle
<1>6. /\ Statuses' = [Statuses EXCEPT ![t] = "over"]
      /\ Levels' = [Levels EXCEPT ![t] = "RepeatableRead"]
      /\ Snapshots' = [Snapshots EXCEPT ![t] = [r \in Rows |-> Absent]]
      /\ Logs' = [Logs EXCEPT ![t] = <<>>]
  BY <1>3, <1>4, <1>5, MappedFunctions
<1> QED BY <1>4, <1>6 DEF SI!End, SI!Empty

\* A step that no transaction begins or ends by leaves the statuses, the levels,
\* the snapshots and the database.
LEMMA RunningStep ==
  ASSUME MirrorInv, [Next]_vars, \A t \in TxnIds : ~Commit(t),
         \A u \in TxnIds : state'[u] = state[u] \/ (IsLive(u) /\ IsLive(u)')
                             \/ (AbsStatus(u) = "over" /\ AbsStatus(u)' = "over")
  PROVE  /\ Statuses' = Statuses /\ Levels' = Levels /\ Snapshots' = Snapshots
         /\ Database' = Database
         /\ \A u \in TxnIds : undo'[u] = undo[u] \/ ~IsLive(u) => Logs'[u] = Logs[u]
<1>1. ASSUME NEW u \in TxnIds
      PROVE  /\ Statuses'[u] = Statuses[u] /\ Levels'[u] = Levels[u]
             /\ Snapshots'[u] = Snapshots[u]
             /\ undo'[u] = undo[u] \/ ~IsLive(u) => Logs'[u] = Logs[u]
  <2>1. Statuses[u] = AbsStatus(u) /\ Statuses'[u] = AbsStatus(u)'
    BY DEF Statuses
  <2>2. CASE IsLive(u) /\ IsLive(u)'
    BY <2>1, <2>2, RunsOn
  <2>3. CASE ~(IsLive(u) /\ IsLive(u)')
    <3>1. ~IsLive(u) /\ ~IsLive(u)' /\ AbsStatus(u)' = AbsStatus(u)
      BY <2>3 DEF IsLive, AbsStatus
    <3> QED BY <2>1, <3>1, Idle
  <2> QED BY <2>2, <2>3
<1>2. Statuses' = Statuses /\ Levels' = Levels /\ Snapshots' = Snapshots
  BY <1>1, MappedFunctions
<1> QED BY <1>1, <1>2, SameDatabase DEF MirrorInv

\* Such a step writes, reverts, or changes nothing in the abstract.
LEMMA RunningStepMaps ==
  ASSUME MirrorInv, [Next]_vars, \A t \in TxnIds : ~Commit(t),
         \A u \in TxnIds : state'[u] = state[u] \/ (IsLive(u) /\ IsLive(u)')
                             \/ (AbsStatus(u) = "over" /\ AbsStatus(u)' = "over")
  PROVE  [SI!Next]_(SI!vars)
<1> OtherFields /\ DataFields
  BY TypeOKParts DEF MirrorInv, TypeInv
<1>1. /\ Statuses' = Statuses /\ Levels' = Levels /\ Snapshots' = Snapshots
      /\ Database' = Database
      /\ \A u \in TxnIds : undo'[u] = undo[u] \/ ~IsLive(u) => Logs'[u] = Logs[u]
  BY RunningStep
<1>2. \A u \in TxnIds : IsLive(u) => IsLive(u)' /\ Statuses[u] = "running"
  BY DEF Statuses, AbsStatus, IsLive
<1>3. ASSUME NEW t \in TxnIds, IsLive(t), NEW r \in Rows, NEW c \in Cells, GrownBy(t, r, c)
      PROVE  SI!Write(t, r, c)
  <2>1. \A u \in TxnIds \ {t} : Logs'[u] = Logs[u]
    BY <1>1, <1>3 DEF GrownBy, DataFields
  <2>2. Logs'[t] = Append(Logs[t], [row |-> r, value |-> c])
    BY <1>2, <1>3, GrownAbsLog DEF Logs
  <2>3. Logs' = [Logs EXCEPT ![t] = Append(@, [row |-> r, value |-> c])]
    BY <2>1, <2>2, MappedFunctions
  <2> QED BY <1>1, <1>2, <1>3, <2>3 DEF SI!Write
<1>4. ASSUME NEW t \in TxnIds, IsLive(t), NEW s \in savepoints[t], RollbackTo(t, s)
      PROVE  SI!Revert(t)
  <2>1. \A u \in TxnIds \ {t} : Logs'[u] = Logs[u]
    BY <1>1, <1>4 DEF RollbackTo, DataFields
  <2>2. PICK n \in 0 .. Len(Logs[t]) : Logs'[t] = SubSeq(Logs[t], 1, n)
    BY <1>2, <1>4, CutAbsLog DEF Logs
  <2>3. Logs' = [Logs EXCEPT ![t] = SubSeq(@, 1, n)]
    BY <2>1, <2>2, MappedFunctions
  <2> QED BY <1>1, <1>2, <1>4, <2>3 DEF SI!Revert
<1>5. CASE \A t \in TxnIds : IsLive(t) => SameLog(t)
  <2>1. \A u \in TxnIds : Logs'[u] = Logs[u]
    BY <1>1, <1>5 DEF SameLog
  <2>2. Logs' = Logs
    BY <2>1, MappedFunctions
  <2> QED BY <1>1, <2>2 DEF SI!vars
<1>6. CASE \E t \in TxnIds : IsLive(t) /\ ~SameLog(t)
  <2>1. PICK t \in TxnIds : IsLive(t) /\ ~SameLog(t)
    BY <1>6
  <2>2. LogStep(t)
    BY <1>2, <2>1, LogSteps DEF MirrorInv
  <2> QED BY <1>3, <1>4, <2>1, <2>2 DEF LogStep, SI!Next
<1> QED BY <1>5, <1>6

\* Every step of the manager is a step of SnapshotIsolation, or a stutter.
LEMMA NextMaps ==
  ASSUME MirrorInv, [Next]_vars
  PROVE  [SI!Next]_(SI!vars)
<1> OtherFields
  BY TypeOKParts DEF MirrorInv, TypeInv
<1>1. ASSUME NEW t \in TxnIds, NEW l \in Isolations, Begin(t, l) PROVE SI!Next
  BY <1>1, BeginStep DEF SI!Next
<1>2. ASSUME NEW t \in TxnIds, Commit(t) PROVE SI!Next
  <2>1. SI!End(t)
    BY <1>2, EndStep DEF Commit
  <2> QED BY <1>2, <2>1, CommitInstalls DEF SI!Next, SI!Commit
<1>3. ASSUME NEW t \in TxnIds, IsLive(t), UndoAll(t) PROVE SI!Next
  <2>1. SI!End(t)
    BY <1>3, EndStep
  <2>2. \A u \in TxnIds : ~Commit(u)
    BY <1>3 DEF UndoAll, Commit, clockVars, OtherFields
  <2>3. Database' = Database
    BY <2>2, SameDatabase DEF MirrorInv
  <2> QED BY <2>1, <2>3 DEF SI!Next, SI!Abort
<1>4. CASE \A t \in TxnIds : ~Commit(t) /\ ~(IsLive(t) /\ UndoAll(t))
                             /\ \A l \in Isolations : ~Begin(t, l)
  <2>1. \A u \in TxnIds : state'[u] = state[u] \/ (IsLive(u) /\ IsLive(u)')
                           \/ (AbsStatus(u) = "over" /\ AbsStatus(u)' = "over")
    <3>1. CASE state' = state
      BY <3>1
    <3>2. ASSUME NEW t \in TxnIds, Prepare(t) PROVE <2>1
      BY <3>2 DEF Prepare, OtherFields, IsLive, Live
    <3>3. ASSUME NEW t \in TxnIds, ~IsLive(t), state[t] # "Unknown", UndoAll(t) PROVE <2>1
      BY <3>3 DEF UndoAll, OtherFields, IsLive, Live, AbsStatus
    <3> QED BY <1>4, <3>1, <3>2, <3>3, StateSteps
  <2> QED BY <1>4, <2>1, RunningStepMaps
<1> QED BY <1>1, <1>2, <1>3, <1>4

\* An empty manager is an empty database.
LEMMA InitMaps == Init => SI!Init
<1> SUFFICES ASSUME Init PROVE SI!Init
  OBVIOUS
<1>1. \A t \in TxnIds : state[t] = "Unknown" /\ ~IsLive(t) /\ AbsStatus(t) = "idle"
  BY DEF Init, IsLive, Live, AbsStatus
<1>2. \A r \in Rows : LatestCommitted(r) = Absent
  BY DEF Init, LatestCommitted, Current
<1>3. /\ Database = [r \in Rows |-> Absent]
      /\ Statuses = [t \in TxnIds |-> "idle"]
      /\ Levels = [t \in TxnIds |-> "RepeatableRead"]
      /\ Snapshots = [t \in TxnIds |-> [r \in Rows |-> Absent]]
      /\ Logs = [t \in TxnIds |-> <<>>]
  BY <1>1, <1>2 DEF Database, Statuses, Levels, Snapshots, Logs, AbsLog
<1> QED BY <1>3 DEF SI!Init, SI!Empty

\* The transaction manager implements snapshot isolation for any rows, values
\* and number of transactions: a commit installs the whole write log of its
\* transaction at once, a rollback installs nothing, a savepoint goes back to a
\* prefix of the log, and no snapshot moves (runs txn_isolation, txn_savepoints).
THEOREM SnapshotIsolationImplemented == Spec => ImplementsSnapshotIsolation
<1>1. MirrorInv /\ [Next]_vars => MirrorInv'
  BY MirrorNext
<1>2. MirrorInv /\ [Next]_vars => [SI!Next]_(SI!vars)
  BY NextMaps
<1> QED BY <1>1, <1>2, MirrorInitially, InitMaps, PTL
        DEF Spec, ImplementsSnapshotIsolation, SI!Spec
=============================================================================
