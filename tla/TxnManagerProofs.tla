-------------------------- MODULE TxnManagerProofs --------------------------
(***************************************************************************)
(* Proofs about the transaction manager, for any rows, values, number of   *)
(* transactions and bounds: types, locks, and the isolation properties.    *)
(*                                                                         *)
(* A step of the manager is one of three as far as committed versions go:  *)
(* it leaves them alone (Quiet), it is a commit, or it collects garbage.   *)
(* Every isolation property below is proved kind by kind.                  *)
(***************************************************************************)
EXTENDS TxnProperties, WellFoundedInduction, TLAPS

\* A non-empty collection with bounded positions has a newest element
\* (what Newest chooses: the head of a Vec kept newest first).
LEMMA NewestIsIn ==
  ASSUME NEW S, S # {}, \A v \in S : v.pos \in 1 .. MaxPos
  PROVE  Newest(S) \in S /\ \A w \in S : w.pos <= Newest(S).pos
<1> DEFINE R == OpToRel(<, Nat)
           T == {MaxPos - v.pos : v \in S}
<1>1. T \subseteq Nat /\ T # {}
  BY MaxUndoAssumption
<1>2. PICK x \in T : \A y \in T : ~(<<y, x>> \in R)
  <2> HIDE DEF R, T
  <2>1. IsWellFoundedOn(R, Nat)
    BY NatLessThanWellFounded DEF R
  <2> QED BY <1>1, <2>1, WFMin
<1>3. PICK v \in S : x = MaxPos - v.pos
  BY <1>2
<1>4. \A w \in S : w.pos <= v.pos
  <2> SUFFICES ASSUME NEW w \in S PROVE w.pos <= v.pos
    OBVIOUS
  <2>1. ~(MaxPos - w.pos < MaxPos - v.pos)
    BY <1>1, <1>2, <1>3 DEF OpToRel
  <2> QED BY <2>1, MaxUndoAssumption
<1> QED BY <1>4 DEF Newest

\* A push finds a position.
LEMMA NextPosIsNat ==
  ASSUME NEW S, \A v \in S : v.pos \in 1 .. MaxPos
  PROVE  NextPos(S) \in Nat \ {0}
BY NewestIsIn, MaxUndoAssumption DEF NextPos

-----------------------------------------------------------------------------
(* Type correctness.                                                       *)

\* A savepoint of a live transaction points into its undo log.
SavepointsInUndo ==
  \A t \in TxnIds : IsLive(t) => \A s \in savepoints[t] : s.undoLen <= Len(undo[t])

\* The registry does not know an id that was not handed out yet.
FreshIds ==
  \A t \in TxnIds :
    /\ t >= nextTxnId => state[t] = "Unknown"
    /\ state[t] = "Unknown" => savepoints[t] = {}

TypeInv == TypeOK /\ SavepointsInUndo /\ FreshIds

\* The view a statement reads through is typed.
LEMMA StatementViewType ==
  ASSUME TypeOK, NEW t \in TxnIds
  PROVE  /\ StatementView(t).snapshot \in Timestamps
         /\ StatementView(t).active \in SUBSET TxnIds
BY TsInfAssumption DEF TypeOK, StatementView, View, Timestamps

\* What a commit makes of a version.
Closed(v, ts) == [v EXCEPT !.end = ts]
Stamped(v, ts) == [v EXCEPT !.committed = TRUE, !.begin = ts, !.end = TsInf]

\* Both are versions with the value, the writer and the position they had.
LEMMA StampedFields ==
  ASSUME NEW v \in Versions, NEW ts \in Timestamps
  PROVE  /\ Closed(v, ts) \in Versions /\ Stamped(v, ts) \in Versions
         /\ Closed(v, ts).begin = v.begin /\ Closed(v, ts).end = ts
         /\ Closed(v, ts).committed = v.committed
         /\ Closed(v, ts).writer = v.writer /\ Closed(v, ts).value = v.value
         /\ Closed(v, ts).pos = v.pos /\ Stamped(v, ts).pos = v.pos
         /\ Stamped(v, ts).begin = ts /\ Stamped(v, ts).end = TsInf
         /\ Stamped(v, ts).committed = TRUE
         /\ Stamped(v, ts).writer = v.writer /\ Stamped(v, ts).value = v.value
<1>0. TsInf \in Timestamps
  BY TsInfAssumption DEF Timestamps
<1>1. Closed(v, ts) \in Versions /\ Stamped(v, ts) \in Versions
  BY <1>0 DEF Versions, Closed, Stamped
<1>2. Closed(v, ts).begin = v.begin /\ Closed(v, ts).end = ts
  BY DEF Versions, Closed
<1>3. Closed(v, ts).committed = v.committed
  BY DEF Versions, Closed
<1>4. Closed(v, ts).writer = v.writer /\ Closed(v, ts).value = v.value
  BY DEF Versions, Closed
<1>5. Stamped(v, ts).begin = ts /\ Stamped(v, ts).end = TsInf
  BY DEF Versions, Stamped
<1>6. Stamped(v, ts).committed = TRUE
  BY DEF Versions, Stamped
<1>7. Stamped(v, ts).writer = v.writer /\ Stamped(v, ts).value = v.value
  BY DEF Versions, Stamped
<1>8. Closed(v, ts).pos = v.pos /\ Stamped(v, ts).pos = v.pos
  BY DEF Versions, Closed, Stamped
<1> QED BY <1>1, <1>2, <1>3, <1>4, <1>5, <1>6, <1>7, <1>8

\* A chain with one version stamped and some closed.
Finalized(chain, mine, closed, ts) ==
  (chain \ ({mine} \cup closed))
    \cup {Closed(v, ts) : v \in closed} \cup {Stamped(mine, ts)}

\* A chain the committing transaction has an intent on keeps its versions, but
\* for the intent, which is stamped, and for one current version, which is closed.
LEMMA FinalizeWriteVersions ==
  ASSUME NEW chain \in SUBSET Versions, NEW t \in TxnIds, NEW ts \in Timestamps,
         OwnIntents(t, chain) # {}
  PROVE  \E mine \in OwnIntents(t, chain), closed \in SUBSET Current(chain) :
           /\ mine = Newest(OwnIntents(t, chain))
           /\ \A c, d \in closed : c = d
           /\ Current(chain) # {} => closed # {}
           /\ FinalizeWrite(chain, t, ts) = Finalized(chain, mine, closed, ts)
<1> DEFINE own == OwnIntents(t, chain)
           closed == IF Current(chain) = {} THEN {} ELSE {Newest(Current(chain))}
<1>1. Newest(own) \in own
  BY NewestIsIn DEF OwnIntents, Versions
<1>2. Current(chain) # {} => Newest(Current(chain)) \in Current(chain)
  BY NewestIsIn DEF Current, Versions
<1>3. FinalizeWrite(chain, t, ts) = Finalized(chain, Newest(own), closed, ts)
  BY DEF FinalizeWrite, Finalized, Closed, Stamped
<1>4. closed \in SUBSET Current(chain)
  BY <1>2
<1>5. (\A c, d \in closed : c = d) /\ (Current(chain) # {} => closed # {})
  OBVIOUS
<1> HIDE DEF closed
<1> QED BY <1>1, <1>3, <1>4, <1>5

\* A stamped chain is a chain.
LEMMA FinalizeWriteType ==
  ASSUME NEW chain \in SUBSET Versions, NEW t \in TxnIds, NEW ts \in Timestamps
  PROVE  FinalizeWrite(chain, t, ts) \in SUBSET Versions
<1>1. CASE OwnIntents(t, chain) = {}
  BY <1>1 DEF FinalizeWrite
<1>2. CASE OwnIntents(t, chain) # {}
  <2>1. \A v \in Versions : Closed(v, ts) \in Versions /\ Stamped(v, ts) \in Versions
    BY StampedFields
  <2>2. Current(chain) \subseteq Versions /\ OwnIntents(t, chain) \subseteq Versions
    BY DEF Current, OwnIntents
  <2> QED BY <1>2, <2>1, <2>2, FinalizeWriteVersions DEF Finalized
<1> QED BY <1>1, <1>2

\* The initial state is typed.
LEMMA InitType == Init => TypeInv
BY TsInfAssumption, TxnIdsAssumption
   DEF Init, TypeInv, TypeOK, SavepointsInUndo, FreshIds, IsolationLevels, Timestamps, IsLive, Live

\* Reads and locks.
LEMMA ReadType ==
  ASSUME TypeInv, NEW t \in TxnIds, NEW r \in Rows, RecordRead(t, r)
  PROVE  /\ snapshotTs' \in [TxnIds -> Timestamps]
         /\ viewActive' \in [TxnIds -> SUBSET TxnIds]
         /\ readSet' \in [TxnIds -> SUBSET Rows]
BY StatementViewType DEF TypeInv, TypeOK, RecordRead

\* The types of the lock table and of the wait-for graph.
LockTables ==
  /\ exclusive \in [Rows -> TxnIds \cup {NoTxn}]
  /\ shared \in [Rows -> SUBSET TxnIds]
  /\ waitFor \in [TxnIds -> SUBSET TxnIds]

LEMMA LockType ==
  ASSUME LockTables, NEW t \in TxnIds
  PROVE  /\ \A r \in Rows :
              GrantExclusive(t, r) \/ GrantAndReleaseOne(t, r)
                \/ RecordWait(t, OtherHolders(t, r)) => LockTables'
         /\ ReleaseLocks(t) => LockTables'
<1>1. ASSUME NEW r \in Rows, GrantExclusive(t, r) PROVE LockTables'
  BY <1>1 DEF GrantExclusive, LockTables
<1>2. ASSUME NEW r \in Rows, GrantAndReleaseOne(t, r) PROVE LockTables'
  BY <1>2 DEF GrantAndReleaseOne, LockTables
<1>3. ASSUME NEW r \in Rows, RecordWait(t, OtherHolders(t, r)) PROVE LockTables'
  <2>1. OtherHolders(t, r) \subseteq TxnIds
    BY DEF LockTables, OtherHolders
  <2> QED BY <1>3, <2>1 DEF RecordWait, LockTables
<1>4. ASSUME ReleaseLocks(t) PROVE LockTables'
  BY <1>4 DEF ReleaseLocks, LockTables
<1> QED BY <1>1, <1>2, <1>3, <1>4

\* The types of everything else.
OtherFields ==
  /\ nextTs \in Nat /\ nextTs < TsInf /\ nextTxnId \in Nat
  /\ state \in [TxnIds -> {"Unknown", "Active", "Prepared", "Committed", "Aborted"}]
  /\ isolation \in [TxnIds -> IsolationLevels]
  /\ beginTs \in [TxnIds -> Timestamps]
  /\ commitTs \in [TxnIds -> Timestamps]
  /\ snapshotTs \in [TxnIds -> Timestamps]
  /\ viewActive \in [TxnIds -> SUBSET TxnIds]
  /\ active \in SUBSET TxnIds

SetFields ==
  /\ readSet \in [TxnIds -> SUBSET Rows]
  /\ writeSet \in [TxnIds -> SUBSET Rows]
  /\ predicateRows \in [TxnIds -> SUBSET Rows]
  /\ predicateLocks \in [TxnIds -> SUBSET Rows]

DataFields ==
  /\ undo \in [TxnIds -> Seq(Rows)]
  /\ savepoints \in [TxnIds -> SUBSET SavepointRecords]
  /\ chains \in [Rows -> SUBSET Versions]

LEMMA TypeOKParts == TypeOK <=> LockTables /\ OtherFields /\ SetFields /\ DataFields
BY DEF TypeOK, LockTables, OtherFields, SetFields, DataFields
LEMMA TypeOKPartsPrime == TypeOK' <=> LockTables' /\ OtherFields' /\ SetFields' /\ DataFields'
BY DEF TypeOK, LockTables, OtherFields, SetFields, DataFields

\* Every operation keeps the state typed.
LEMMA LifecycleType ==
  ASSUME TypeInv, NEW t \in TxnIds
  PROVE  /\ \A level \in Isolations : Begin(t, level) => TypeInv'
         /\ Prepare(t) => TypeInv'
         /\ Commit(t) => TypeInv'
         /\ state[t] # "Unknown" /\ UndoAll(t) => TypeInv'
<1> USE DEF clockVars, idVars, endVars, viewVars, setVars, undoVars, lockVars
<1> LockTables /\ OtherFields /\ SetFields /\ DataFields /\ SavepointsInUndo /\ FreshIds
  BY TypeOKParts DEF TypeInv
<1>1. ASSUME NEW level \in Isolations, Begin(t, level) PROVE TypeInv'
  <2>1. OtherFields'
    <3>1. nextTs \in Timestamps /\ nextTs + 1 < TsInf /\ nextTxnId + 1 \in Nat
      BY <1>1, TsInfAssumption DEF Begin, CanTick, OtherFields, Timestamps
    <3>2. level \in IsolationLevels
      BY IsolationAssumption
    <3> QED BY <1>1, <3>1, <3>2 DEF Begin, OtherFields
  <2>2. LockTables' /\ SetFields' /\ DataFields'
    BY <1>1 DEF Begin, LockTables, SetFields, DataFields
  <2>3. state[t] = "Unknown" /\ savepoints[t] = {}
    BY <1>1, TxnIdsAssumption DEF Begin, FreshIds, OtherFields
  <2>4. SavepointsInUndo'
    BY <1>1, <2>3 DEF Begin, SavepointsInUndo, IsLive, Live, OtherFields
  <2>5. FreshIds'
    BY <1>1, <2>3, TxnIdsAssumption DEF Begin, FreshIds, OtherFields
  <2> QED BY <2>1, <2>2, <2>4, <2>5, TypeOKPartsPrime DEF TypeInv
<1>2. ASSUME Prepare(t) PROVE TypeInv'
  BY <1>2 DEF Prepare, TypeInv, TypeOK, SavepointsInUndo, FreshIds, IsLive, Live
<1>3. ASSUME Commit(t) PROVE TypeInv'
  <2>1. OtherFields'
    <3>1. nextTs \in Timestamps /\ nextTs + 1 < TsInf /\ nextTs + 1 \in Nat
      BY <1>3, TsInfAssumption DEF Commit, CanTick, OtherFields, Timestamps
    <3> QED BY <1>3, <3>1 DEF Commit, OtherFields
  <2>2. LockTables'
    BY <1>3, LockType DEF Commit
  <2>3. SetFields'
    BY <1>3 DEF Commit, SetFields
  <2>4. DataFields'
    <3>1. nextTs \in Timestamps
      BY TsInfAssumption DEF OtherFields, Timestamps
    <3>2. \A r \in Rows : FinalizeWrite(chains[r], t, nextTs) \in SUBSET Versions
      BY <3>1, FinalizeWriteType DEF DataFields
    <3> QED BY <1>3, <3>2 DEF Commit, DataFields
  <2>5. SavepointsInUndo' /\ FreshIds'
    BY <1>3 DEF Commit, SavepointsInUndo, FreshIds, IsLive, Live, OtherFields
  <2> QED BY <2>1, <2>2, <2>3, <2>4, <2>5, TypeOKPartsPrime DEF TypeInv
<1>4. ASSUME state[t] # "Unknown", UndoAll(t) PROVE TypeInv'
  <2>1. OtherFields' /\ SetFields'
    BY <1>4 DEF UndoAll, OtherFields, SetFields
  <2>2. LockTables'
    BY <1>4, LockType DEF UndoAll
  <2>3. DataFields'
    BY <1>4 DEF UndoAll, DataFields, StripWriter
  <2>4. SavepointsInUndo' /\ FreshIds'
    BY <1>4 DEF UndoAll, SavepointsInUndo, FreshIds, IsLive, Live, OtherFields
  <2> QED BY <2>1, <2>2, <2>3, <2>4, TypeOKPartsPrime DEF TypeInv
<1> QED BY <1>1, <1>2, <1>3, <1>4

\* A position a guard lets through is in range.
LEMMA PositionType ==
  ASSUME NEW S, \A v \in S : v.pos \in 1 .. MaxPos, NextPos(S) <= MaxPos
  PROVE  NextPos(S) \in 1 .. MaxPos
BY NextPosIsNat, MaxUndoAssumption

LEMMA WriteType ==
  ASSUME TypeInv, NEW t \in TxnIds, NEW r \in Rows, NEW c \in Cells, Write(t, r, c)
  PROVE  TypeInv'
<1> USE DEF clockVars, idVars, endVars, viewVars, setVars, undoVars, lockVars, Write
<1> LockTables /\ OtherFields /\ SetFields /\ DataFields /\ SavepointsInUndo /\ FreshIds
  BY TypeOKParts DEF TypeInv
<1>1. OtherFields'
  BY ReadType DEF OtherFields
<1>2. SetFields'
  BY ReadType DEF SetFields
<1>3. LockTables'
  BY LockType
<1>4. DataFields'
  <2>1. Intent(t, c, chains[r]) \in Versions
    <3>1. NextPos(chains[r]) \in 1 .. MaxPos
      BY PositionType DEF DataFields, Versions
    <3>2. beginTs[t] \in Timestamps /\ TsInf \in Timestamps
      BY TsInfAssumption DEF OtherFields, Timestamps
    <3> QED BY <3>1, <3>2 DEF Intent, Versions
  <2>2. chains' \in [Rows -> SUBSET Versions]
    BY <2>1 DEF Push, DataFields
  <2>3. undo' \in [TxnIds -> Seq(Rows)]
    BY DEF DataFields
  <2> QED BY <2>2, <2>3 DEF DataFields
<1>5. SavepointsInUndo'
  <2>1. \A u \in TxnIds : Len(undo'[u]) >= Len(undo[u])
    BY DEF DataFields
  <2>2. \A u \in TxnIds : \A s \in savepoints[u] : s.undoLen \in Nat
    BY DEF DataFields, SavepointRecords
  <2>3. \A u \in TxnIds : Len(undo'[u]) \in Nat /\ Len(undo[u]) \in Nat
    BY DEF DataFields
  <2> QED BY <2>1, <2>2, <2>3 DEF SavepointsInUndo, IsLive
<1>6. FreshIds'
  BY DEF FreshIds
<1> QED BY <1>1, <1>2, <1>3, <1>4, <1>5, <1>6, TypeOKPartsPrime DEF TypeInv

LEMMA StatementType ==
  ASSUME TypeInv, NEW t \in TxnIds, NEW r \in Rows
  PROVE  /\ Read(t, r) \/ InsertExisting(t, r) \/ WriteMissing(t, r)
              \/ ExclusiveConflict(t, r) => TypeInv'
         /\ \A c \in Values : Insert(t, r, c) \/ Update(t, r, c) => TypeInv'
         /\ Delete(t, r) => TypeInv'
<1> USE DEF clockVars, idVars, endVars, viewVars, setVars, undoVars, lockVars
<1> LockTables /\ OtherFields /\ SetFields /\ DataFields /\ SavepointsInUndo /\ FreshIds
  BY TypeOKParts DEF TypeInv
<1>1. ASSUME RecordRead(t, r), LockTables',
             UNCHANGED <<clockVars, idVars, endVars, writeSet, predicateRows, undoVars,
                         chains, predicateLocks>>
      PROVE  TypeInv'
  <2>1. OtherFields' /\ SetFields'
    BY <1>1, ReadType DEF OtherFields, SetFields
  <2>2. DataFields' /\ SavepointsInUndo' /\ FreshIds'
    BY <1>1 DEF DataFields, SavepointsInUndo, FreshIds, IsLive
  <2> QED BY <1>1, <2>1, <2>2, TypeOKPartsPrime DEF TypeInv
<1>2. Read(t, r) => TypeInv'
  BY <1>1 DEF Read, LockTables
<1>3. InsertExisting(t, r) => TypeInv'
  BY <1>1, LockType DEF InsertExisting
<1>4. WriteMissing(t, r) => TypeInv'
  BY <1>1, LockType DEF WriteMissing
<1>5. ASSUME ExclusiveConflict(t, r) PROVE TypeInv'
  <2>1. LockTables'
    BY <1>5, LockType DEF ExclusiveConflict
  <2>2. OtherFields' /\ SetFields' /\ DataFields' /\ SavepointsInUndo' /\ FreshIds'
    BY <1>5 DEF ExclusiveConflict, OtherFields, SetFields, DataFields, SavepointsInUndo,
                FreshIds, IsLive
  <2> QED BY <2>1, <2>2, TypeOKPartsPrime DEF TypeInv
<1>6. \A c \in Values : Insert(t, r, c) \/ Update(t, r, c) => TypeInv'
  BY WriteType DEF Insert, Update, Cells
<1>7. Delete(t, r) => TypeInv'
  BY WriteType DEF Delete, Cells
<1> QED BY <1>2, <1>3, <1>4, <1>5, <1>6, <1>7

LEMMA LockActionType ==
  ASSUME TypeInv, NEW t \in TxnIds
  PROVE  /\ \A r \in Rows : AcquireExclusive(t, r) \/ AcquireShared(t, r) => TypeInv'
         /\ \A rows \in SUBSET Rows : AddPredicateLock(t, rows) => TypeInv'
<1> USE DEF clockVars, idVars, endVars, viewVars, setVars, undoVars, lockVars
<1> LockTables /\ OtherFields /\ SetFields /\ DataFields /\ SavepointsInUndo /\ FreshIds
  BY TypeOKParts DEF TypeInv
<1>1. ASSUME LockTables',
             UNCHANGED <<clockVars, idVars, endVars, viewVars, setVars, undoVars,
                         chains, predicateLocks>>
      PROVE  TypeInv'
  <2>1. OtherFields' /\ SetFields' /\ DataFields' /\ SavepointsInUndo' /\ FreshIds'
    BY <1>1 DEF OtherFields, SetFields, DataFields, SavepointsInUndo, FreshIds, IsLive
  <2> QED BY <1>1, <2>1, TypeOKPartsPrime DEF TypeInv
<1>2. ASSUME NEW r \in Rows, AcquireExclusive(t, r) PROVE TypeInv'
  BY <1>1, <1>2, LockType DEF AcquireExclusive
<1>3. ASSUME NEW r \in Rows, AcquireShared(t, r) PROVE TypeInv'
  <2>1. CASE SharedFree(t, r)
    BY <1>1, <1>3, <2>1 DEF AcquireShared, LockTables
  <2>2. CASE ~SharedFree(t, r)
    <3>1. exclusive[r] \in TxnIds
      BY <2>2 DEF SharedFree, LockTables
    <3> QED BY <1>1, <1>3, <2>2, <3>1 DEF AcquireShared, RecordWait, LockTables
  <2> QED BY <2>1, <2>2
<1>4. ASSUME NEW rows \in SUBSET Rows, AddPredicateLock(t, rows) PROVE TypeInv'
  <2>1. SetFields'
    BY <1>4 DEF AddPredicateLock, SetFields
  <2>2. LockTables' /\ OtherFields' /\ DataFields' /\ SavepointsInUndo' /\ FreshIds'
    BY <1>4 DEF AddPredicateLock, LockTables, OtherFields, DataFields, SavepointsInUndo,
                FreshIds, IsLive
  <2> QED BY <2>1, <2>2, TypeOKPartsPrime DEF TypeInv
<1> QED BY <1>2, <1>3, <1>4

LEMMA SavepointType ==
  ASSUME TypeInv, NEW t \in TxnIds
  PROVE  /\ \A name \in SavepointNames :
              Savepoint(t, name) \/ ReleaseSavepoint(t, name) => TypeInv'
         /\ RollbackToSavepoint(t) => TypeInv'
<1> USE DEF clockVars, idVars, endVars, viewVars, setVars, undoVars, lockVars
<1> LockTables /\ OtherFields /\ SetFields /\ DataFields /\ SavepointsInUndo /\ FreshIds
  BY TypeOKParts DEF TypeInv
<1>1. ASSUME NEW name \in SavepointNames, Savepoint(t, name) PROVE TypeInv'
  <2>1. LockTables' /\ OtherFields' /\ SetFields'
    BY <1>1 DEF Savepoint, LockTables, OtherFields, SetFields
  <2> DEFINE s == [name |-> name, pos |-> NextPos(savepoints[t]), undoLen |-> Len(undo[t]),
                   writeSet |-> writeSet[t], readSet |-> readSet[t]]
  <2>2. s \in SavepointRecords
    <3>1. NextPos(savepoints[t]) \in 1 .. MaxPos
      BY <1>1, PositionType DEF Savepoint, DataFields, SavepointRecords
    <3>2. Len(undo[t]) \in Nat
      BY DEF DataFields
    <3> QED BY <3>1, <3>2 DEF SavepointRecords, SetFields
  <2>3. savepoints' = [savepoints EXCEPT ![t] = savepoints[t] \cup {s}]
    BY <1>1 DEF Savepoint
  <2> HIDE DEF s
  <2>4. DataFields'
    BY <1>1, <2>2, <2>3 DEF Savepoint, DataFields
  <2>5. s.undoLen = Len(undo[t]) /\ Len(undo[t]) \in Nat
    BY DEF s, DataFields
  <2>6. SavepointsInUndo' /\ FreshIds'
    BY <1>1, <2>3, <2>5 DEF Savepoint, SavepointsInUndo, FreshIds, IsLive, Live, DataFields
  <2> QED BY <2>1, <2>4, <2>6, TypeOKPartsPrime DEF TypeInv
<1>2. ASSUME NEW name \in SavepointNames, ReleaseSavepoint(t, name) PROVE TypeInv'
  <2>1. LockTables' /\ OtherFields' /\ SetFields'
    BY <1>2 DEF ReleaseSavepoint, LockTables, OtherFields, SetFields
  <2>2. DataFields' /\ SavepointsInUndo' /\ FreshIds'
    BY <1>2 DEF ReleaseSavepoint, DataFields, SavepointsInUndo, FreshIds, IsLive
  <2> QED BY <2>1, <2>2, TypeOKPartsPrime DEF TypeInv
<1>3. ASSUME NEW s \in savepoints[t], RollbackTo(t, s) PROVE TypeInv'
  <2>1. s \in SavepointRecords /\ s.undoLen \in Nat /\ s.undoLen <= Len(undo[t])
    BY <1>3 DEF RollbackTo, DataFields, SavepointRecords, SavepointsInUndo
  <2>2. LockTables' /\ OtherFields'
    BY <1>3 DEF RollbackTo, LockTables, OtherFields
  <2>3. SetFields'
    BY <1>3, <2>1 DEF RollbackTo, SetFields, SavepointRecords
  <2>4. /\ undo[t] \in Seq(Rows)
        /\ SubSeq(undo[t], 1, s.undoLen) \in Seq(Rows)
        /\ Len(SubSeq(undo[t], 1, s.undoLen)) = s.undoLen
    BY <2>1 DEF DataFields
  <2>5. DataFields'
    BY <1>3, <2>4 DEF RollbackTo, DataFields
  <2>6. SavepointsInUndo' /\ FreshIds'
    BY <1>3, <2>4 DEF RollbackTo, SavepointsInUndo, FreshIds, IsLive, Live, DataFields
  <2> QED BY <2>2, <2>3, <2>5, <2>6, TypeOKPartsPrime DEF TypeInv
<1> QED BY <1>1, <1>2, <1>3 DEF RollbackToSavepoint

LEMMA CollectType == TypeInv /\ GarbageCollect => TypeInv'
<1> SUFFICES ASSUME TypeInv, GarbageCollect PROVE TypeInv'
  OBVIOUS
<1> USE DEF clockVars, idVars, endVars, viewVars, setVars, undoVars, lockVars
<1> LockTables /\ OtherFields /\ SetFields /\ DataFields /\ SavepointsInUndo /\ FreshIds
  BY TypeOKParts DEF TypeInv
<1>1. LockTables' /\ OtherFields' /\ SavepointsInUndo' /\ FreshIds'
  BY DEF GarbageCollect, LockTables, OtherFields, SavepointsInUndo, FreshIds, IsLive
<1>2. SetFields' /\ DataFields'
  BY DEF GarbageCollect, SetFields, DataFields, Retained
<1> QED BY <1>1, <1>2, TypeOKPartsPrime DEF TypeInv

LEMMA StutterType == TypeInv /\ UNCHANGED vars => TypeInv'
BY DEF vars, clockVars, idVars, endVars, viewVars, setVars, undoVars, lockVars,
       TypeInv, TypeOK, SavepointsInUndo, FreshIds, IsLive

LEMMA NextType == TypeInv /\ [Next]_vars => TypeInv'
<1> SUFFICES ASSUME TypeInv, [Next]_vars PROVE TypeInv'
  OBVIOUS
<1>1. LifecycleNext => TypeInv'
  BY LifecycleType DEF LifecycleNext, CommitConflict, Rollback, IsLive, Live
<1>2. StatementNext => TypeInv'
  BY StatementType DEF StatementNext
<1>3. LockNext => TypeInv'
  BY LockActionType DEF LockNext
<1>4. SavepointNext => TypeInv'
  BY SavepointType DEF SavepointNext
<1> QED BY <1>1, <1>2, <1>3, <1>4, CollectType, StutterType DEF Next

\* The types of the manager's fields, and with them: savepoints point into the
\* undo log of their transaction, and ids not handed out yet are unknown.
THEOREM TypeInvariant == Spec => []TypeInv
<1> QED BY InitType, NextType, PTL DEF Spec

\* TypeOK, checked by run txn_savepoints, holds of every instance.
THEOREM TypeCorrect == Spec => []TypeOK
<1>1. TypeInv => TypeOK
  BY DEF TypeInv
<1> QED BY <1>1, TypeInvariant, PTL

-----------------------------------------------------------------------------
(* The lock table.                                                         *)

LEMMA InitLocks == Init => LocksHeldByActive
BY DEF Init, LocksHeldByActive, ActiveIsLive, IsLive, Live

LEMMA GrantedLocks ==
  ASSUME TypeInv, LocksHeldByActive, NEW t \in TxnIds, IsLive(t), NEW r \in Rows,
         ExclusiveFree(t, r), UNCHANGED endVars,
         GrantExclusive(t, r) \/ GrantAndReleaseOne(t, r)
  PROVE  LocksHeldByActive'
<1> USE DEF endVars
<1> LockTables /\ OtherFields
  BY TypeOKParts DEF TypeInv
<1>1. ActiveIsLive' /\ t \in active
  BY DEF LocksHeldByActive, ActiveIsLive, IsLive
<1>2. exclusive[r] # NoTxn => shared[r] = {}
  BY DEF LocksHeldByActive
<1>3. shared[r] \ {t} = {}
  BY <1>2, TxnIdsAssumption DEF ExclusiveFree
<1>4. CASE GrantExclusive(t, r)
  BY <1>1, <1>3, <1>4 DEF GrantExclusive, LocksHeldByActive, LockTables
<1>5. CASE GrantAndReleaseOne(t, r)
  BY <1>1, <1>3, <1>5 DEF GrantAndReleaseOne, LocksHeldByActive, LockTables
<1> QED BY <1>4, <1>5

LEMMA WaitingLocks ==
  ASSUME TypeInv, LocksHeldByActive, NEW t \in TxnIds, IsLive(t), NEW holders,
         holders \subseteq active \ {t}, UNCHANGED endVars, RecordWait(t, holders)
  PROVE  LocksHeldByActive'
<1> USE DEF endVars
<1> LockTables /\ OtherFields
  BY TypeOKParts DEF TypeInv
<1>1. ActiveIsLive' /\ t \in active
  BY DEF LocksHeldByActive, ActiveIsLive, IsLive
<1> QED BY <1>1 DEF RecordWait, LocksHeldByActive, LockTables

LEMMA ReleasedLocks ==
  ASSUME TypeInv, LocksHeldByActive, NEW t \in TxnIds, ReleaseLocks(t),
         NEW s \in {"Committed", "Aborted"}, state' = [state EXCEPT ![t] = s],
         active' = active \ {t}
  PROVE  LocksHeldByActive'
<1> LockTables /\ OtherFields
  BY TypeOKParts DEF TypeInv
<1>1. ActiveIsLive'
  BY DEF LocksHeldByActive, ActiveIsLive, IsLive, Live, OtherFields
<1> QED BY <1>1 DEF ReleaseLocks, LocksHeldByActive, LockTables

LEMMA LifecycleLocks ==
  ASSUME TypeInv, LocksHeldByActive, LifecycleNext
  PROVE  LocksHeldByActive'
<1> USE DEF clockVars, idVars, endVars, viewVars, setVars, undoVars, lockVars
<1> LockTables /\ OtherFields /\ FreshIds
  BY TypeOKParts DEF TypeInv
<1>1. ASSUME NEW t \in TxnIds, NEW level \in Isolations, Begin(t, level)
      PROVE  LocksHeldByActive'
  <2>1. ActiveIsLive'
    BY <1>1 DEF Begin, LocksHeldByActive, ActiveIsLive, IsLive, Live, OtherFields
  <2>2. active \subseteq active'
    BY <1>1 DEF Begin
  <2> QED BY <1>1, <2>1, <2>2 DEF Begin, LocksHeldByActive, LockTables
<1>2. ASSUME NEW t \in TxnIds, Prepare(t) PROVE LocksHeldByActive'
  <2>1. ActiveIsLive'
    BY <1>2 DEF Prepare, LocksHeldByActive, ActiveIsLive, IsLive, Live, OtherFields
  <2> QED BY <1>2, <2>1 DEF Prepare, LocksHeldByActive
<1>3. ASSUME NEW t \in TxnIds, Commit(t) PROVE LocksHeldByActive'
  BY <1>3, ReleasedLocks DEF Commit
<1>4. ASSUME NEW t \in TxnIds, UndoAll(t) PROVE LocksHeldByActive'
  BY <1>4, ReleasedLocks DEF UndoAll
<1> QED BY <1>1, <1>2, <1>3, <1>4 DEF LifecycleNext, CommitConflict, Rollback

LEMMA StatementLocks ==
  ASSUME TypeInv, LocksHeldByActive, StatementNext \/ LockNext
  PROVE  LocksHeldByActive'
<1> USE DEF clockVars, idVars, endVars, viewVars, setVars, undoVars, lockVars
<1> LockTables /\ OtherFields
  BY TypeOKParts DEF TypeInv
<1>1. ASSUME UNCHANGED <<endVars, lockVars>> PROVE LocksHeldByActive'
  BY <1>1 DEF LocksHeldByActive, ActiveIsLive, IsLive
<1>2. ASSUME NEW t \in TxnIds, NEW r \in Rows, ExclusiveConflict(t, r)
      PROVE  LocksHeldByActive'
  <2>1. OtherHolders(t, r) \subseteq active \ {t}
    BY DEF OtherHolders, LocksHeldByActive
  <2> QED BY <1>2, <2>1, WaitingLocks DEF ExclusiveConflict
<1>3. ASSUME NEW t \in TxnIds, NEW r \in Rows, NEW c \in Cells, IsLive(t),
             ExclusiveFree(t, r), Write(t, r, c)
      PROVE  LocksHeldByActive'
  BY <1>3, GrantedLocks DEF Write
<1>4. ASSUME NEW t \in TxnIds, NEW r \in Rows,
             InsertExisting(t, r) \/ WriteMissing(t, r) \/ AcquireExclusive(t, r)
      PROVE  LocksHeldByActive'
  BY <1>4, GrantedLocks DEF InsertExisting, WriteMissing, AcquireExclusive
<1>5. ASSUME NEW t \in TxnIds, NEW r \in Rows, AcquireShared(t, r)
      PROVE  LocksHeldByActive'
  <2>1. t \in active
    BY <1>5 DEF AcquireShared, LocksHeldByActive, ActiveIsLive
  <2>2. CASE SharedFree(t, r)
    <3>1. ActiveIsLive'
      BY <1>5 DEF AcquireShared, LocksHeldByActive, ActiveIsLive, IsLive
    <3> QED BY <1>5, <2>1, <2>2, <3>1
            DEF AcquireShared, SharedFree, LocksHeldByActive, LockTables
  <2>3. CASE ~SharedFree(t, r)
    <3>1. {exclusive[r]} \subseteq active \ {t}
      BY <2>3 DEF SharedFree, LocksHeldByActive
    <3> QED BY <1>5, <2>3, <3>1, WaitingLocks DEF AcquireShared
  <2> QED BY <2>2, <2>3
<1>6. ASSUME StatementNext PROVE LocksHeldByActive'
  BY <1>1, <1>2, <1>3, <1>4, <1>6
     DEF StatementNext, Read, Insert, Update, Delete, Cells
<1>7. ASSUME LockNext PROVE LocksHeldByActive'
  BY <1>1, <1>4, <1>5, <1>7 DEF LockNext, AddPredicateLock
<1> QED BY <1>6, <1>7

LEMMA NextLocks ==
  ASSUME TypeInv, LocksHeldByActive, [Next]_vars
  PROVE  LocksHeldByActive'
<1> USE DEF clockVars, idVars, endVars, viewVars, setVars, undoVars, lockVars
<1> LockTables /\ OtherFields
  BY TypeOKParts DEF TypeInv
<1>1. ASSUME UNCHANGED <<endVars, lockVars>> PROVE LocksHeldByActive'
  BY <1>1 DEF LocksHeldByActive, ActiveIsLive, IsLive
<1>2. ASSUME NEW t \in TxnIds, NEW s, RollbackTo(t, s) PROVE LocksHeldByActive'
  <2>1. ActiveIsLive'
    BY <1>2 DEF RollbackTo, LocksHeldByActive, ActiveIsLive, IsLive
  <2>2. \A r \in Rows : exclusive'[r] \in {exclusive[r], NoTxn}
    BY <1>2 DEF RollbackTo
  <2> QED BY <1>2, <2>1, <2>2 DEF RollbackTo, LocksHeldByActive
<1>3. ASSUME SavepointNext PROVE LocksHeldByActive'
  BY <1>1, <1>2, <1>3
     DEF SavepointNext, Savepoint, ReleaseSavepoint, RollbackToSavepoint
<1>4. ASSUME GarbageCollect \/ UNCHANGED vars PROVE LocksHeldByActive'
  BY <1>1, <1>4 DEF GarbageCollect, vars
<1> QED BY <1>3, <1>4, LifecycleLocks, StatementLocks DEF Next

\* Locks and wait-for edges belong to live transactions, and exclusive locks
\* exclude, in every reachable state of every instance (run txn_savepoints).
THEOREM LockInvariant == Spec => []LocksHeldByActive
<1>1. TypeInv /\ LocksHeldByActive /\ [Next]_vars => LocksHeldByActive'
  BY NextLocks
<1> QED BY <1>1, InitLocks, TypeInvariant, PTL DEF Spec

-----------------------------------------------------------------------------
(* What a step leaves alone.                                               *)

\* A live transaction keeps its level and its start, and its view unless it
\* reads committed.
SameView(t) ==
  /\ isolation'[t] = isolation[t] /\ beginTs'[t] = beginTs[t]
  /\ isolation[t] = "ReadCommitted" => snapshotTs'[t] \in {snapshotTs[t], nextTs}
  /\ isolation[t] # "ReadCommitted" =>
       snapshotTs'[t] = snapshotTs[t] /\ viewActive'[t] = viewActive[t]

Started(t) ==
  /\ state[t] = "Unknown" /\ t >= nextTxnId /\ nextTs' = nextTs + 1
  /\ beginTs'[t] = nextTs /\ snapshotTs'[t] = nextTs /\ viewActive'[t] = active

Frame ==
  /\ nextTs' >= nextTs /\ nextTxnId' >= nextTxnId
  /\ \A t \in TxnIds :
       /\ state[t] # "Unknown" => state'[t] # "Unknown"
       /\ t < nextTxnId /\ ~IsLive(t) => ~IsLive(t)'
       /\ IsLive(t) /\ IsLive(t)' => SameView(t)
       /\ ~IsLive(t) /\ IsLive(t)' => Started(t)

LEMMA FrameOfLifecycle ==
  ASSUME TypeInv, LifecycleNext
  PROVE  Frame
<1> USE DEF clockVars, idVars, endVars, viewVars, setVars, undoVars, lockVars
<1> OtherFields /\ FreshIds
  BY TypeOKParts DEF TypeInv
<1>1. ASSUME NEW t \in TxnIds, NEW level \in Isolations, Begin(t, level)
      PROVE  Frame
  <2>1. state[t] = "Unknown" /\ ~IsLive(t) /\ t = nextTxnId /\ nextTxnId' = nextTxnId + 1
    BY <1>1, TxnIdsAssumption DEF Begin, FreshIds, OtherFields, IsLive, Live
  <2>2. nextTs' = nextTs + 1 /\ Started(t)
    BY <1>1, <2>1 DEF Begin, Started, OtherFields
  <2>3. \A u \in TxnIds \ {t} : SameView(u) /\ state'[u] = state[u] /\ IsLive(u)' = IsLive(u)
    BY <1>1 DEF Begin, SameView, OtherFields, IsLive
  <2>4. state'[t] # "Unknown"
    BY <1>1 DEF Begin, OtherFields
  <2> QED BY <2>1, <2>2, <2>3, <2>4 DEF Frame, OtherFields
<1>2. ASSUME NEW t \in TxnIds, Prepare(t) PROVE Frame
  BY <1>2 DEF Prepare, Frame, SameView, OtherFields, IsLive, Live
<1>3. ASSUME NEW t \in TxnIds, Commit(t) PROVE Frame
  BY <1>3 DEF Commit, Frame, SameView, OtherFields, IsLive, Live
<1>4. ASSUME NEW t \in TxnIds, state[t] # "Unknown", UndoAll(t) PROVE Frame
  BY <1>4 DEF UndoAll, Frame, SameView, OtherFields, IsLive, Live
<1>5. \A t \in TxnIds : IsLive(t) => state[t] # "Unknown"
  BY DEF IsLive, Live
<1> QED BY <1>1, <1>2, <1>3, <1>4, <1>5 DEF LifecycleNext, CommitConflict, Rollback

LEMMA FrameOfNext ==
  ASSUME TypeInv, [Next]_vars
  PROVE  Frame
<1> USE DEF clockVars, idVars, endVars, viewVars, setVars, undoVars, lockVars
<1> OtherFields
  BY TypeOKParts DEF TypeInv
<1>1. ASSUME UNCHANGED <<clockVars, idVars, endVars, viewVars>> PROVE Frame
  BY <1>1 DEF Frame, SameView, IsLive, OtherFields
<1>2. ASSUME NEW t \in TxnIds, NEW r \in Rows, RecordRead(t, r),
             UNCHANGED <<clockVars, idVars, endVars>>
      PROVE  Frame
  <2>1. \A u \in TxnIds : SameView(u)
    BY <1>2 DEF RecordRead, StatementView, View, SameView, OtherFields
  <2> QED BY <1>2, <2>1 DEF Frame, IsLive, OtherFields
<1>3. StatementNext => Frame
  BY <1>1, <1>2 DEF StatementNext, Read, ExclusiveConflict, Insert, InsertExisting,
     Update, Delete, WriteMissing, Write
<1>4. LockNext => Frame
  BY <1>1 DEF LockNext, AcquireExclusive, AcquireShared, AddPredicateLock
<1>5. SavepointNext => Frame
  BY <1>1 DEF SavepointNext, Savepoint, ReleaseSavepoint, RollbackToSavepoint, RollbackTo
<1>6. GarbageCollect \/ UNCHANGED vars => Frame
  BY <1>1 DEF GarbageCollect, vars
<1> QED BY <1>3, <1>4, <1>5, <1>6, FrameOfLifecycle DEF Next

\* The versions a step removes, if it removes any, are uncommitted.
Shrinks ==
  /\ \A r \in Rows : chains'[r] \subseteq chains[r]
  /\ \A r \in Rows : Committed(r)' = Committed(r)

\* As far as the chains go, a step pushes one intent of a live transaction,
\* removes intents, collects garbage, or is a commit.
LEMMA StepKinds ==
  ASSUME TypeInv, [Next]_vars
  PROVE  \/ Shrinks
         \/ \E t \in TxnIds, r \in Rows, c \in Cells : IsLive(t) /\ Push(t, r, c)
         \/ GarbageCollect
         \/ \E t \in TxnIds : Commit(t)
<1> USE DEF clockVars, idVars, endVars, viewVars, setVars, undoVars, lockVars
<1> DataFields
  BY TypeOKParts DEF TypeInv
<1>1. UNCHANGED chains => Shrinks
  BY DEF Shrinks, Committed
<1>2. ASSUME NEW t \in TxnIds, UndoAll(t) PROVE Shrinks
  BY <1>2 DEF UndoAll, StripWriter, OwnIntents, Shrinks, Committed, DataFields
<1>3. ASSUME NEW t \in TxnIds, NEW s, RollbackTo(t, s) PROVE Shrinks
  <2> DEFINE gone(r) == NewestIntents(t, chains[r], Touches(undo[t], s.undoLen + 1, r))
  <2>1. \A r \in Rows : chains'[r] = chains[r] \ gone(r)
    BY <1>3 DEF RollbackTo
  <2>2. \A r \in Rows : \A v \in gone(r) : ~v.committed
    BY DEF NewestIntents, OwnIntents
  <2> HIDE DEF gone
  <2> QED BY <2>1, <2>2 DEF Shrinks, Committed
<1>4. LifecycleNext => Shrinks \/ \E t \in TxnIds : Commit(t)
  BY <1>1, <1>2 DEF LifecycleNext, Begin, Prepare, CommitConflict, Rollback
<1>5. StatementNext =>
        Shrinks \/ \E t \in TxnIds, r \in Rows, c \in Cells : IsLive(t) /\ Push(t, r, c)
  BY <1>1 DEF StatementNext, Read, ExclusiveConflict, Insert, InsertExisting, Update,
     Delete, WriteMissing, Write, Cells
<1>6. LockNext \/ SavepointNext \/ UNCHANGED vars => Shrinks
  BY <1>1, <1>3 DEF LockNext, AcquireExclusive, AcquireShared, AddPredicateLock, SavepointNext,
     Savepoint, ReleaseSavepoint, RollbackToSavepoint, vars
<1> QED BY <1>4, <1>5, <1>6 DEF Next

-----------------------------------------------------------------------------
(* What a step makes of the committed versions of a row.                   *)

\* The committed versions a commit does not touch.
Past(r) == {v \in Committed(r) : v.end # TsInf}

\* On a timeline at most one version is current.
LEMMA OneCurrent ==
  ASSUME TypeInv, PastLifetimes, NEW r \in Rows,
         NEW v \in Current(chains[r]), NEW w \in Current(chains[r])
  PROVE  v = w
<1> OtherFields /\ DataFields
  BY TypeOKParts DEF TypeInv
<1>1. v \in Committed(r) /\ w \in Committed(r) /\ v.end = TsInf /\ w.end = TsInf
  BY DEF Current, Committed
<1>2. v.begin \in Nat /\ w.begin \in Nat /\ v.begin < TsInf /\ w.begin < TsInf
  BY <1>1, TsInfAssumption
     DEF PastLifetimes, CommittedInThePast, Committed, DataFields, Versions, OtherFields, Timestamps
<1> QED BY <1>1, <1>2, TsInfAssumption DEF PastLifetimes, DisjointLifetimes

\* A commit that writes row r closes the current version and stamps an intent.
LEMMA CommittedRow ==
  ASSUME TypeInv, PastLifetimes, NEW t \in TxnIds, Commit(t), NEW r \in Rows,
         Committed(r)' # Committed(r)
  PROVE  \E mine \in OwnIntents(t, chains[r]) :
           /\ mine = Newest(OwnIntents(t, chains[r]))
           /\ Committed(r)' = Past(r) \cup {Closed(v, nextTs) : v \in Current(chains[r])}
                                \cup {Stamped(mine, nextTs)}
<1> OtherFields /\ DataFields
  BY TypeOKParts DEF TypeInv
<1> nextTs \in Timestamps
  BY TsInfAssumption DEF OtherFields, Timestamps
<1>1. chains'[r] = FinalizeWrite(chains[r], t, nextTs) /\ OwnIntents(t, chains[r]) # {}
  BY DEF Commit, DataFields, FinalizeWrite, Committed
<1>2. PICK mine \in OwnIntents(t, chains[r]), closed \in SUBSET Current(chains[r]) :
        /\ mine = Newest(OwnIntents(t, chains[r]))
        /\ \A c, d \in closed : c = d
        /\ Current(chains[r]) # {} => closed # {}
        /\ FinalizeWrite(chains[r], t, nextTs) = Finalized(chains[r], mine, closed, nextTs)
  <2>1. chains[r] \in SUBSET Versions
    BY DEF DataFields
  <2> QED BY <1>1, <2>1, FinalizeWriteVersions
<1>3. closed = Current(chains[r])
  BY <1>2, OneCurrent
<1>4. \A v \in chains[r] : /\ Closed(v, nextTs).committed = v.committed
                           /\ Stamped(v, nextTs).committed = TRUE
  BY StampedFields DEF DataFields
<1>5. chains'[r] = (chains[r] \ ({mine} \cup Current(chains[r])))
                     \cup {Closed(v, nextTs) : v \in Current(chains[r])}
                     \cup {Stamped(mine, nextTs)}
  BY <1>1, <1>2, <1>3 DEF Finalized
<1>6. mine \in chains[r] /\ ~mine.committed /\ \A v \in Current(chains[r]) : v \in chains[r] /\ v.committed
  BY DEF OwnIntents, Current
<1>7. Committed(r)' = Past(r) \cup {Closed(v, nextTs) : v \in Current(chains[r])}
                        \cup {Stamped(mine, nextTs)}
  BY <1>4, <1>5, <1>6 DEF Committed, Past, Current
<1> QED BY <1>2, <1>7

\* Every committed version after a commit is one from before, one the commit
\* closed, or one it stamped.
LEMMA CommittedVersions ==
  ASSUME TypeInv, PastLifetimes, ActiveIsLive, NEW t \in TxnIds, Commit(t),
         NEW r \in Rows, Committed(r)' # Committed(r)
  PROVE  \E mine \in Versions :
           /\ mine.begin = nextTs /\ mine.end = TsInf /\ mine.writer = t
           /\ mine.committed /\ mine \in Committed(r)'
           /\ \A v \in Past(r) : v \in Committed(r)'
           /\ \A v \in Current(chains[r]) : Closed(v, nextTs) \in Committed(r)'
           /\ \A v \in Committed(r)' :
                v = mine \/ v \in Past(r)
                  \/ \E u \in Current(chains[r]) : v = Closed(u, nextTs)
<1> OtherFields /\ DataFields
  BY TypeOKParts DEF TypeInv
<1> nextTs \in Timestamps
  BY TsInfAssumption DEF OtherFields, Timestamps
<1>1. PICK own \in OwnIntents(t, chains[r]) :
        Committed(r)' = Past(r) \cup {Closed(v, nextTs) : v \in Current(chains[r])}
                          \cup {Stamped(own, nextTs)}
  BY CommittedRow
<1>2. own \in Versions /\ own.writer = t
  BY DEF OwnIntents, DataFields
<1> DEFINE mine == Stamped(own, nextTs)
<1>3. /\ mine \in Versions /\ mine.begin = nextTs /\ mine.end = TsInf
      /\ mine.writer = t /\ mine.committed
  BY <1>2, StampedFields
<1> HIDE DEF mine
<1> QED BY <1>1, <1>3 DEF mine

\* Garbage collection keeps whatever is current, and whatever ended after the
\* snapshot of an active transaction.
LEMMA CollectedVersions ==
  ASSUME GarbageCollect, TypeInv, NEW r \in Rows
  PROVE  /\ Committed(r)' = {v \in Committed(r) :
                               v.end = TsInf \/ \E t \in active : v.end >= snapshotTs[t]}
         /\ chains'[r] \subseteq chains[r]
BY DEF GarbageCollect, Retained, Committed

LEMMA PushedVersions ==
  ASSUME TypeInv, NEW t \in TxnIds, NEW r \in Rows, NEW c \in Cells, Push(t, r, c)
  PROVE  /\ \A q \in Rows : Committed(q)' = Committed(q)
         /\ chains'[r] = chains[r] \cup {Intent(t, c, chains[r])}
         /\ \A q \in Rows \ {r} : chains'[q] = chains[q]
<1> DataFields
  BY TypeOKParts DEF TypeInv
<1> QED BY DEF Push, Committed, DataFields, Intent

\* A commit of another transaction, or the removal of its intents, leaves the
\* intents of u.
LEMMA OthersLeaveIntents ==
  ASSUME TypeInv, NEW t \in TxnIds, NEW u \in TxnIds \ {t}, NEW r \in Rows
  PROVE  /\ OwnIntents(u, FinalizeWrite(chains[r], t, nextTs)) = OwnIntents(u, chains[r])
         /\ OwnIntents(u, StripWriter(chains[r], t)) = OwnIntents(u, chains[r])
<1> OtherFields /\ DataFields
  BY TypeOKParts DEF TypeInv
<1> nextTs \in Timestamps
  BY TsInfAssumption DEF OtherFields, Timestamps
<1> DEFINE own == OwnIntents(t, chains[r])
           chain == FinalizeWrite(chains[r], t, nextTs)
<1>1. OwnIntents(u, StripWriter(chains[r], t)) = OwnIntents(u, chains[r])
  BY DEF StripWriter, OwnIntents
<1>2. CASE own = {}
  BY <1>1, <1>2 DEF FinalizeWrite
<1>3. CASE own # {}
  <2>1. PICK mine \in own, closed \in SUBSET Current(chains[r]) :
          chain = Finalized(chains[r], mine, closed, nextTs)
    <3>1. chains[r] \in SUBSET Versions
      BY DEF DataFields
    <3> QED BY <1>3, <3>1, FinalizeWriteVersions
  <2>2. mine \in Versions /\ mine.writer = t /\ mine \in chains[r]
    BY DEF OwnIntents, DataFields
  <2>3. \A v \in closed : v \in Versions /\ v.committed
    BY DEF Current, DataFields
  <2>4. Stamped(mine, nextTs).committed /\ \A v \in closed : Closed(v, nextTs).committed
    BY <2>2, <2>3, StampedFields
  <2> HIDE DEF chain, own
  <2>5. \A v \in chain : ~v.committed => v \in chains[r]
    BY <2>1, <2>4 DEF Finalized
  <2>6. \A v \in chains[r] : ~v.committed /\ v.writer = u => v \in chain
    BY <2>1, <2>2, <2>3 DEF Finalized
  <2>7. OwnIntents(u, chain) = OwnIntents(u, chains[r])
    BY <2>5, <2>6 DEF OwnIntents
  <2> QED BY <1>1, <2>7 DEF chain
<1> QED BY <1>2, <1>3

-----------------------------------------------------------------------------
(* The inductive invariant, part by part.                                  *)

LEMMA LifetimesStep ==
  ASSUME TypeInv, TypeInv', ActiveIsLive, PastLifetimes, WritersKnown, [Next]_vars
  PROVE  PastLifetimes'
<1> OtherFields /\ DataFields
  BY TypeOKParts DEF TypeInv
<1> OtherFields' /\ DataFields'
  BY TypeOKPartsPrime DEF TypeInv
<1>1. Frame
  BY FrameOfNext
<1>2. \A r \in Rows : \A v \in chains[r] :
        v \in Versions /\ v.begin \in Nat /\ v.end \in Nat /\ v.writer \in TxnIds
  BY DEF DataFields, Versions, Timestamps
<1>3. ASSUME \A r \in Rows : Committed(r)' \subseteq Committed(r) PROVE PastLifetimes'
  <2>1. ASSUME NEW r \in Rows, NEW v \in Committed(r)' PROVE
          /\ v \in chains[r] /\ v.begin < nextTs' /\ v.begin <= v.end
          /\ v.end = TsInf \/ v.end < nextTs'
          /\ ~IsLive(v.writer)'
    <3>1. v \in Committed(r) /\ v \in chains[r]
      BY <1>3 DEF Committed
    <3>2. v.writer < nextTxnId /\ ~IsLive(v.writer)
      BY <3>1 DEF WritersKnown, PastLifetimes, CommittedInThePast
    <3> QED BY <1>1, <1>2, <3>1, <3>2
            DEF Frame, PastLifetimes, CommittedInThePast, OtherFields
  <2>2. CommittedInThePast'
    BY <2>1 DEF CommittedInThePast
  <2>3. DisjointLifetimes'
    BY <1>3 DEF DisjointLifetimes, PastLifetimes
  <2> QED BY <2>2, <2>3 DEF PastLifetimes
<1>4. ASSUME NEW t \in TxnIds, Commit(t) PROVE PastLifetimes'
  <2>1. nextTs' = nextTs + 1 /\ nextTs + 1 < TsInf /\ ~IsLive(t)'
    BY <1>4 DEF Commit, CanTick, OtherFields, clockVars, IsLive, Live
  <2>2. ASSUME NEW r \in Rows PROVE
          /\ \A v \in Committed(r)' :
               /\ v.begin < nextTs' /\ v.begin <= v.end
               /\ v.end = TsInf \/ v.end < nextTs'
               /\ ~IsLive(v.writer)'
          /\ \A v, w \in Committed(r)' : v = w \/ v.end <= w.begin \/ w.end <= v.begin
    <3>0. \A v \in Committed(r) :
            /\ v \in Versions /\ v.begin \in Nat /\ v.end \in Nat /\ v.writer \in TxnIds
            /\ v.begin < nextTs /\ v.begin <= v.end
            /\ v.end = TsInf \/ v.end < nextTs
            /\ ~IsLive(v.writer)'
      BY <1>1, <1>2 DEF Frame, WritersKnown, PastLifetimes, CommittedInThePast, Committed
    <3>1. CASE Committed(r)' = Committed(r)
      BY <2>1, <3>0, <3>1 DEF PastLifetimes, DisjointLifetimes, OtherFields
    <3>2. CASE Committed(r)' # Committed(r)
      <4>1. PICK mine \in Versions :
           /\ mine.begin = nextTs /\ mine.end = TsInf /\ mine.writer = t
           /\ \A v \in Committed(r)' :
                v = mine \/ v \in Past(r)
                  \/ \E u \in Current(chains[r]) : v = Closed(u, nextTs)
        BY <1>4, <3>2, CommittedVersions
      <4>2. \A u \in Current(chains[r]) :
              /\ u \in Committed(r) /\ u.end = TsInf
              /\ Closed(u, nextTs).begin = u.begin /\ Closed(u, nextTs).end = nextTs
              /\ Closed(u, nextTs).writer = u.writer
        <5>1. nextTs \in Timestamps
          BY TsInfAssumption DEF OtherFields, Timestamps
        <5>2. \A u \in Current(chains[r]) : u \in Versions /\ u \in Committed(r) /\ u.end = TsInf
          BY <1>2 DEF Current, Committed
        <5> QED BY <5>1, <5>2, StampedFields
      <4>3. \A v \in Past(r) : v \in Committed(r) /\ v.end < nextTs
        BY <3>0 DEF Past
      <4>4. \A v \in Past(r), u \in Current(chains[r]) : v.end <= u.begin
        BY <3>0, <4>2, <4>3, TsInfAssumption
           DEF PastLifetimes, DisjointLifetimes, OtherFields
      <4>5. \A v \in Committed(r)' :
               /\ v.begin < nextTs' /\ v.begin <= v.end
               /\ v.end = TsInf \/ v.end < nextTs'
               /\ ~IsLive(v.writer)'
        BY <2>1, <3>0, <4>1, <4>2, <4>3, TsInfAssumption DEF OtherFields
      <4>6. \A v, w \in Past(r) : v = w \/ v.end <= w.begin \/ w.end <= v.begin
        BY <4>3 DEF PastLifetimes, DisjointLifetimes
      <4>7. \A v, w \in Committed(r)' : v = w \/ v.end <= w.begin \/ w.end <= v.begin
        <5>1. SUFFICES ASSUME NEW v \in Committed(r)', NEW w \in Committed(r)'
                       PROVE  v = w \/ v.end <= w.begin \/ w.end <= v.begin
          OBVIOUS
        <5>2. CASE v \in Past(r)
          BY <3>0, <4>1, <4>2, <4>3, <4>4, <4>6, <5>2 DEF OtherFields
        <5>3. CASE w \in Past(r)
          BY <3>0, <4>1, <4>2, <4>3, <4>4, <4>6, <5>3 DEF OtherFields
        <5>4. CASE v = mine \/ w = mine
          BY <3>0, <4>1, <4>2, <4>3, <5>4 DEF OtherFields
        <5>5. CASE /\ \E u \in Current(chains[r]) : v = Closed(u, nextTs)
                   /\ \E u \in Current(chains[r]) : w = Closed(u, nextTs)
          BY <5>5, OneCurrent
        <5> QED BY <4>1, <5>2, <5>3, <5>4, <5>5
      <4> QED BY <4>5, <4>7
    <3> QED BY <3>1, <3>2
  <2> QED BY <2>2 DEF PastLifetimes, CommittedInThePast, DisjointLifetimes
<1>5. Shrinks => PastLifetimes'
  BY <1>3 DEF Shrinks
<1>6. ASSUME NEW t \in TxnIds, NEW r \in Rows, NEW c \in Cells, Push(t, r, c)
      PROVE  PastLifetimes'
  BY <1>3, <1>6, PushedVersions
<1>7. GarbageCollect => PastLifetimes'
  BY <1>3, CollectedVersions
<1> QED BY <1>4, <1>5, <1>6, <1>7, StepKinds

LEMMA BirthStep ==
  ASSUME TypeInv, VersionTimeline, ActiveIsLive, [Next]_vars
  PROVE  NoneClosedAtBirth'
<1> OtherFields /\ DataFields
  BY TypeOKParts DEF TypeInv
<1> nextTs \in Timestamps /\ nextTs \in Nat
  BY TsInfAssumption DEF OtherFields, Timestamps
<1> PastLifetimes /\ NoneClosedAtBirth
  BY DEF VersionTimeline
<1> SUFFICES ASSUME NEW r \in Rows, NEW v \in Committed(r)' PROVE v.begin # v.end
  BY DEF NoneClosedAtBirth
<1>1. CASE v \in Committed(r)
  BY <1>1 DEF NoneClosedAtBirth
<1>2. CASE v \notin Committed(r)
  <2>1. PICK t \in TxnIds : Commit(t)
    BY <1>2, StepKinds, PushedVersions, CollectedVersions DEF Shrinks
  <2>2. PICK mine \in Versions :
           /\ mine.begin = nextTs /\ mine.end = TsInf
           /\ \A w \in Committed(r)' :
                w = mine \/ w \in Past(r)
                  \/ \E u \in Current(chains[r]) : w = Closed(u, nextTs)
    BY <1>2, <2>1, CommittedVersions
  <2>3. CASE v = mine
    BY <2>2, <2>3 DEF OtherFields
  <2>4. ASSUME NEW u \in Current(chains[r]), v = Closed(u, nextTs) PROVE v.begin # v.end
    <3>1. u \in Versions /\ u \in Committed(r)
      BY DEF Current, Committed, DataFields
    <3>2. u.begin < nextTs /\ u.begin \in Nat
      BY <3>1 DEF PastLifetimes, CommittedInThePast, Versions, Timestamps
    <3>3. v.begin = u.begin /\ v.end = nextTs
      BY <2>4, <3>1, StampedFields
    <3> QED BY <3>2, <3>3
  <2> QED BY <1>2, <2>2, <2>3, <2>4 DEF Past
<1> QED BY <1>1, <1>2

\* Every version of a chain after a commit comes from one that was there, with
\* its writer and position; it is that version, or that version closed, or the
\* stamped intent, and two versions come from two.
Origin(r, mine, u, v) ==
  /\ v.writer = u.writer /\ v.pos = u.pos
  /\ \/ v = u
     \/ v.committed /\ u.committed /\ v.begin = u.begin
     \/ u = mine /\ v.committed /\ v.begin = nextTs

LEMMA Origins ==
  ASSUME TypeInv, NEW t \in TxnIds, Commit(t), NEW r \in Rows
  PROVE  \E mine : /\ \A v \in chains'[r] : \E u \in chains[r] : Origin(r, mine, u, v)
                   /\ (\A v, w \in chains[r] : v.pos = w.pos => v = w)
                        => (\A v, w \in chains'[r] : v.pos = w.pos => v = w)
<1> OtherFields /\ DataFields
  BY TypeOKParts DEF TypeInv
<1> nextTs \in Timestamps
  BY TsInfAssumption DEF OtherFields, Timestamps
<1>1. CASE chains'[r] = chains[r]
  BY <1>1 DEF Origin
<1>2. CASE chains'[r] # chains[r]
  <2>1. chains'[r] = FinalizeWrite(chains[r], t, nextTs) /\ OwnIntents(t, chains[r]) # {}
    BY <1>2 DEF Commit, DataFields, FinalizeWrite
  <2>2. chains[r] \in SUBSET Versions
    BY DEF DataFields
  <2>3. PICK mine \in OwnIntents(t, chains[r]), closed \in SUBSET Current(chains[r]) :
          /\ mine = Newest(OwnIntents(t, chains[r]))
          /\ \A c, d \in closed : c = d
          /\ Current(chains[r]) # {} => closed # {}
          /\ FinalizeWrite(chains[r], t, nextTs) = Finalized(chains[r], mine, closed, nextTs)
    BY <2>1, <2>2, FinalizeWriteVersions
  <2>4. chains'[r] = (chains[r] \ ({mine} \cup closed))
                       \cup {Closed(v, nextTs) : v \in closed} \cup {Stamped(mine, nextTs)}
    BY <2>1, <2>3 DEF Finalized
  <2>5. \A u \in closed : /\ u \in chains[r] /\ u.committed
                          /\ Closed(u, nextTs).writer = u.writer
                          /\ Closed(u, nextTs).pos = u.pos
                          /\ Closed(u, nextTs).begin = u.begin
                          /\ Closed(u, nextTs).committed
    BY <2>2, StampedFields DEF Current
  <2>6. /\ mine \in chains[r] /\ ~mine.committed
        /\ Stamped(mine, nextTs).writer = mine.writer /\ Stamped(mine, nextTs).pos = mine.pos
        /\ Stamped(mine, nextTs).begin = nextTs /\ Stamped(mine, nextTs).committed
    <3>1. mine \in Versions /\ mine \in chains[r] /\ ~mine.committed
      BY <2>2 DEF OwnIntents
    <3> QED BY <3>1, StampedFields
  <2>7. \A v \in chains'[r] : \E u \in chains[r] : Origin(r, mine, u, v)
    <3>1. SUFFICES ASSUME NEW v \in chains'[r] PROVE \E u \in chains[r] : Origin(r, mine, u, v)
      OBVIOUS
    <3>2. CASE v \in chains[r]
      BY <3>2 DEF Origin
    <3>3. ASSUME NEW u \in closed, v = Closed(u, nextTs) PROVE Origin(r, mine, u, v)
      BY <2>5, <3>3 DEF Origin
    <3>4. CASE v = Stamped(mine, nextTs)
      <4>1. Origin(r, mine, mine, v)
        BY <2>6, <3>4 DEF Origin
      <4> QED BY <2>6, <4>1
    <3> QED BY <2>4, <2>5, <3>2, <3>3, <3>4
  <2>8. ASSUME \A v, w \in chains[r] : v.pos = w.pos => v = w,
               NEW v \in chains'[r], NEW w \in chains'[r], v.pos = w.pos
        PROVE  v = w
    <3>1. PICK a \in chains[r] :
            /\ v.pos = a.pos
            /\ \/ v = a /\ a # mine /\ a \notin closed
               \/ a \in closed /\ v = Closed(a, nextTs)
               \/ a = mine /\ v = Stamped(a, nextTs)
      BY <2>4, <2>5, <2>6
    <3>2. PICK b \in chains[r] :
            /\ w.pos = b.pos
            /\ \/ w = b /\ b # mine /\ b \notin closed
               \/ b \in closed /\ w = Closed(b, nextTs)
               \/ b = mine /\ w = Stamped(b, nextTs)
      BY <2>4, <2>5, <2>6
    <3>3. a = b /\ mine \notin closed
      BY <2>5, <2>6, <2>8, <3>1, <3>2
    <3> QED BY <3>1, <3>2, <3>3
  <2> QED BY <2>7, <2>8
<1> QED BY <1>1, <1>2

LEMMA KnownStep ==
  ASSUME TypeInv, WritersKnown, [Next]_vars
  PROVE  WritersKnown'
<1> OtherFields /\ DataFields
  BY TypeOKParts DEF TypeInv
<1> OtherFields'
  BY NextType, TypeOKPartsPrime DEF TypeInv
<1>1. nextTxnId' >= nextTxnId /\ nextTxnId \in Nat /\ nextTxnId' \in Nat
  BY FrameOfNext DEF Frame, OtherFields
<1>2. \A r \in Rows : \A v \in chains[r] : v.writer \in TxnIds /\ v.writer < nextTxnId'
  <2> SUFFICES ASSUME NEW r \in Rows, NEW v \in chains[r]
               PROVE  v.writer \in TxnIds /\ v.writer < nextTxnId'
    OBVIOUS
  <2>1. v.writer \in TxnIds /\ v.writer < nextTxnId
    BY DEF WritersKnown, DataFields, Versions
  <2>2. \A w \in TxnIds : w < nextTxnId => w < nextTxnId'
    BY <1>1, TxnIdsAssumption
  <2> QED BY <2>1, <2>2
<1>3. Shrinks => WritersKnown'
  BY <1>2 DEF Shrinks, WritersKnown
<1>4. GarbageCollect => WritersKnown'
  BY <1>2, CollectedVersions DEF WritersKnown
<1>5. ASSUME NEW t \in TxnIds, NEW r \in Rows, NEW c \in Cells, IsLive(t), Push(t, r, c)
      PROVE  WritersKnown'
  <2>1. Intent(t, c, chains[r]).writer = t
    BY DEF Intent
  <2>2. t < nextTxnId'
    BY <1>1, <1>5, TxnIdsAssumption DEF TypeInv, FreshIds, IsLive, Live
  <2> QED BY <1>2, <1>5, <2>1, <2>2, PushedVersions DEF WritersKnown
<1>6. ASSUME NEW t \in TxnIds, Commit(t) PROVE WritersKnown'
  BY <1>2, <1>6, Origins DEF Origin, WritersKnown
<1> QED BY <1>3, <1>4, <1>5, <1>6, StepKinds

LEMMA ViewsStep ==
  ASSUME TypeInv, TypeInv', ViewsInThePast, [Next]_vars
  PROVE  ViewsInThePast'
<1> OtherFields
  BY TypeOKParts DEF TypeInv
<1> OtherFields'
  BY TypeOKPartsPrime DEF TypeInv
<1>1. Frame
  BY FrameOfNext
<1> SUFFICES ASSUME NEW t \in TxnIds, IsLive(t)'
             PROVE  /\ snapshotTs'[t] <= nextTs' /\ beginTs'[t] < nextTs'
                    /\ isolation'[t] # "ReadCommitted" => snapshotTs'[t] = beginTs'[t]
  BY DEF ViewsInThePast
<1>2. snapshotTs[t] \in Nat /\ beginTs[t] \in Nat /\ nextTs \in Nat /\ nextTs' \in Nat /\ nextTs <= nextTs'
  BY <1>1 DEF OtherFields, Timestamps, Frame
<1>3. CASE IsLive(t)
  BY <1>1, <1>2, <1>3 DEF Frame, SameView, ViewsInThePast
<1>4. CASE ~IsLive(t)
  BY <1>1, <1>2, <1>4 DEF Frame, Started
<1> QED BY <1>3, <1>4

LEMMA ConcurrentStep ==
  ASSUME TypeInv, TypeInv', ActiveIsLive, VersionTimeline, WritersKnown, ViewsInThePast,
         ConcurrentInvisible, [Next]_vars
  PROVE  ConcurrentInvisible'
<1> OtherFields /\ DataFields
  BY TypeOKParts DEF TypeInv
<1>1. Frame
  BY FrameOfNext
<1> SUFFICES ASSUME NEW t \in TxnIds, IsLive(t)', isolation'[t] # "ReadCommitted",
                    NEW r \in Rows, NEW v \in Committed(r)', v.writer \in viewActive'[t]
             PROVE  v.begin > snapshotTs'[t]
  BY DEF ConcurrentInvisible
<1>2. CASE ~IsLive(t)
  <2>1. viewActive'[t] = active /\ IsLive(v.writer) /\ v.writer \in TxnIds
        /\ snapshotTs'[t] = nextTs /\ nextTs' = nextTs + 1
    BY <1>1, <1>2 DEF Frame, Started, ActiveIsLive
  <2>2. ~\E u \in TxnIds : Commit(u)
    BY <2>1, <1>2 DEF Commit, IsLive, Live, OtherFields
  <2>3. v \in Committed(r)
    BY <2>2, StepKinds, PushedVersions, CollectedVersions DEF Shrinks
  <2> QED BY <2>1, <2>3 DEF VersionTimeline, PastLifetimes, CommittedInThePast
<1>3. CASE IsLive(t)
  <2>1. /\ isolation[t] # "ReadCommitted" /\ viewActive'[t] = viewActive[t]
        /\ snapshotTs'[t] = snapshotTs[t] /\ snapshotTs[t] < nextTs
    BY <1>1, <1>3 DEF Frame, SameView, ViewsInThePast
  <2>2. CASE v \in Committed(r)
    BY <1>3, <2>1, <2>2 DEF ConcurrentInvisible
  <2>3. CASE v \notin Committed(r)
    <3>1. PICK u \in TxnIds : Commit(u)
      BY <2>3, StepKinds, PushedVersions, CollectedVersions DEF Shrinks
    <3>2. PICK mine \in Versions :
             /\ mine.begin = nextTs
             /\ \A w \in Committed(r)' :
                  w = mine \/ w \in Past(r)
                    \/ \E c \in Current(chains[r]) : w = Closed(c, nextTs)
      BY <2>3, <3>1, CommittedVersions DEF VersionTimeline
    <3>3. CASE v = mine
      BY <2>1, <3>2, <3>3 DEF OtherFields, Timestamps
    <3>4. ASSUME NEW c \in Current(chains[r]), v = Closed(c, nextTs)
          PROVE  v.begin > snapshotTs'[t]
      <4>1. c \in Committed(r) /\ c \in Versions
        BY DEF Current, Committed, DataFields
      <4>2. nextTs \in Timestamps
        BY TsInfAssumption DEF OtherFields, Timestamps
      <4>3. v.begin = c.begin /\ v.writer = c.writer
        BY <3>4, <4>1, <4>2, StampedFields
      <4> QED BY <1>3, <2>1, <4>1, <4>3 DEF ConcurrentInvisible
    <3> QED BY <2>3, <3>2, <3>3, <3>4 DEF Past
  <2> QED BY <2>2, <2>3
<1> QED BY <1>2, <1>3

LEMMA SuccessorStep ==
  ASSUME TypeInv, TypeInv', ActiveIsLive, ActiveIsLive', VersionTimeline, ViewsInThePast,
         SuccessorsKept, [Next]_vars
  PROVE  SuccessorsKept'
<1> OtherFields /\ DataFields
  BY TypeOKParts DEF TypeInv
<1> OtherFields'
  BY TypeOKPartsPrime DEF TypeInv
<1>1. Frame
  BY FrameOfNext
<1> SUFFICES ASSUME NEW r \in Rows, NEW v \in Committed(r)', v.end # TsInf,
                    NEW t \in active', v.end >= snapshotTs'[t]
             PROVE  \E w \in Committed(r)' : w.begin = v.end
  BY DEF SuccessorsKept
<1>0. t \in TxnIds /\ snapshotTs[t] \in Nat /\ snapshotTs'[t] \in Nat /\ nextTs \in Nat
  BY DEF OtherFields, Timestamps
<1>2. ASSUME v \in Committed(r)
      PROVE  t \in active /\ v.end >= snapshotTs[t] /\ v.end < nextTs /\ v.end \in Nat
  <2>1. v.end \in Nat /\ v.end < nextTs
    BY <1>2 DEF VersionTimeline, PastLifetimes, CommittedInThePast, Committed, DataFields, Versions, Timestamps
  <2>2. IsLive(t)'
    BY DEF ActiveIsLive
  <2>3. IsLive(t)
    BY <1>0, <1>1, <2>1, <2>2 DEF Frame, Started
  <2>4. snapshotTs'[t] >= snapshotTs[t]
    BY <1>0, <1>1, <2>2, <2>3 DEF Frame, SameView, ViewsInThePast
  <2> QED BY <1>0, <2>1, <2>3, <2>4 DEF ActiveIsLive
<1>3. CASE Committed(r)' = Committed(r)
  BY <1>2, <1>3 DEF SuccessorsKept
<1>4. CASE GarbageCollect
  <2>1. Committed(r)' = {w \in Committed(r) :
                           w.end = TsInf \/ \E u \in active : w.end >= snapshotTs[u]}
    BY <1>4, CollectedVersions
  <2>2. PICK w \in Committed(r) : w.begin = v.end
    BY <1>2, <2>1 DEF SuccessorsKept
  <2>3. w.end \in Nat /\ w.end > w.begin
    BY DEF VersionTimeline, PastLifetimes, NoneClosedAtBirth, CommittedInThePast,
           Committed, DataFields, Versions, Timestamps
  <2>4. w.end >= snapshotTs[t] /\ t \in active
    BY <1>0, <1>2, <2>1, <2>2, <2>3
  <2> QED BY <2>1, <2>2, <2>4
<1>5. ASSUME NEW u \in TxnIds, Commit(u), Committed(r)' # Committed(r)
      PROVE  \E w \in Committed(r)' : w.begin = v.end
  <2>1. PICK mine \in Versions :
             /\ mine.begin = nextTs /\ mine.end = TsInf /\ mine \in Committed(r)'
             /\ \A w \in Past(r) : w \in Committed(r)'
             /\ \A w \in Current(chains[r]) : Closed(w, nextTs) \in Committed(r)'
             /\ \A w \in Committed(r)' :
                  w = mine \/ w \in Past(r)
                    \/ \E c \in Current(chains[r]) : w = Closed(c, nextTs)
    BY <1>5, CommittedVersions DEF VersionTimeline
  <2>2. nextTs \in Timestamps
    BY TsInfAssumption DEF OtherFields, Timestamps
  <2>3. CASE v \in Past(r)
    <3>1. PICK w \in Committed(r) : w.begin = v.end
      BY <1>2, <2>3 DEF SuccessorsKept, Past
    <3>2. CASE w \in Past(r)
      BY <2>1, <3>1, <3>2
    <3>3. CASE w \notin Past(r)
      <4>1. w \in Current(chains[r]) /\ w \in Versions
        BY <3>3 DEF Past, Current, Committed, DataFields
      <4>2. Closed(w, nextTs).begin = w.begin
        BY <2>2, <4>1, StampedFields
      <4> QED BY <2>1, <3>1, <4>1, <4>2
    <3> QED BY <3>2, <3>3
  <2>4. ASSUME NEW c \in Current(chains[r]), v = Closed(c, nextTs)
        PROVE  v.end = nextTs
    <3>1. c \in Versions
      BY DEF Current, DataFields
    <3> QED BY <2>2, <2>4, <3>1, StampedFields
  <2> QED BY <2>1, <2>3, <2>4
<1> QED BY <1>3, <1>4, <1>5, StepKinds, PushedVersions DEF Shrinks

LEMMA OrderStep ==
  ASSUME TypeInv, TypeInv', ViewsInThePast, WritersKnown, ChainOrdered, [Next]_vars
  PROVE  ChainOrdered'
<1> OtherFields /\ DataFields
  BY TypeOKParts DEF TypeInv
<1>1. Frame
  BY FrameOfNext
<1>2. \A r \in Rows : \A v \in chains[r] :
        v \in Versions /\ v.pos \in 1 .. MaxPos /\ v.writer \in TxnIds
  BY DEF DataFields, Versions
<1>3. \A r \in Rows : \A v \in chains[r] :
        IsLive(v.writer)' => IsLive(v.writer) /\ beginTs'[v.writer] = beginTs[v.writer]
  BY <1>1, <1>2 DEF Frame, Started, SameView, WritersKnown
<1>4. ASSUME NEW r \in Rows, chains'[r] \subseteq chains[r],
             NEW v \in chains'[r], NEW w \in chains'[r]
      PROVE  /\ v.pos = w.pos => v = w
             /\ ~v.committed /\ IsLive(v.writer)' /\ w.committed /\ v.pos < w.pos
                  => w.begin > beginTs'[v.writer]
  BY <1>3, <1>4 DEF ChainOrdered
<1>5. (\A r \in Rows : chains'[r] \subseteq chains[r]) => ChainOrdered'
  BY <1>4 DEF ChainOrdered
<1>6. ASSUME NEW t \in TxnIds, NEW r \in Rows, NEW c \in Cells, Push(t, r, c)
      PROVE  ChainOrdered'
  <2> DEFINE new == Intent(t, c, chains[r])
  <2>1. new.pos = NextPos(chains[r]) /\ ~new.committed
    BY DEF Intent
  <2>2. \A v \in chains[r] : v.pos < NextPos(chains[r])
    <3>1. SUFFICES ASSUME NEW v \in chains[r] PROVE v.pos < NextPos(chains[r])
      OBVIOUS
    <3>2. Newest(chains[r]) \in chains[r] /\ v.pos <= Newest(chains[r]).pos
      BY <1>2, NewestIsIn
    <3> QED BY <1>2, <3>2, MaxUndoAssumption DEF NextPos
  <2>3. NextPos(chains[r]) \in Nat
    BY <1>2, NextPosIsNat
  <2>4. /\ chains'[r] = chains[r] \cup {new}
        /\ \A q \in Rows \ {r} : chains'[q] = chains[q]
    BY <1>6, PushedVersions
  <2> HIDE DEF new
  <2>5. ASSUME NEW v \in chains'[r], NEW w \in chains'[r]
        PROVE  /\ v.pos = w.pos => v = w
               /\ ~v.committed /\ IsLive(v.writer)' /\ w.committed /\ v.pos < w.pos
                    => w.begin > beginTs'[v.writer]
    <3>1. CASE v \in chains[r] /\ w \in chains[r]
      BY <1>3, <3>1 DEF ChainOrdered
    <3>2. CASE v = new \/ w = new
      <4>1. \A u \in chains[r] : u.pos < new.pos /\ u.pos \in Nat /\ new.pos \in Nat
        BY <1>2, <2>1, <2>2, <2>3, MaxUndoAssumption
      <4> QED BY <2>1, <2>4, <3>2, <4>1
    <3> QED BY <2>4, <3>1, <3>2
  <2> QED BY <1>4, <2>4, <2>5 DEF ChainOrdered
<1>7. ASSUME NEW t \in TxnIds, Commit(t) PROVE ChainOrdered'
  <2>1. SUFFICES ASSUME NEW r \in Rows, NEW v \in chains'[r], NEW w \in chains'[r]
                 PROVE  /\ v.pos = w.pos => v = w
                        /\ ~v.committed /\ IsLive(v.writer)' /\ w.committed /\ v.pos < w.pos
                             => w.begin > beginTs'[v.writer]
    BY DEF ChainOrdered
  <2>2. PICK mine : /\ \A x \in chains'[r] : \E u \in chains[r] : Origin(r, mine, u, x)
                    /\ (\A x, y \in chains[r] : x.pos = y.pos => x = y)
                         => (\A x, y \in chains'[r] : x.pos = y.pos => x = y)
    BY <1>7, Origins
  <2>3. v.pos = w.pos => v = w
    BY <2>2 DEF ChainOrdered
  <2>4. ASSUME ~v.committed, IsLive(v.writer)', w.committed, v.pos < w.pos
        PROVE  w.begin > beginTs'[v.writer]
    <3>1. v \in chains[r]
      BY <2>2, <2>4 DEF Origin
    <3>2. IsLive(v.writer) /\ beginTs'[v.writer] = beginTs[v.writer] /\ v.writer \in TxnIds
      BY <1>2, <1>3, <2>4, <3>1
    <3>3. PICK u \in chains[r] : Origin(r, mine, u, w)
      BY <2>2
    <3>4. CASE u.committed /\ w.begin = u.begin
      BY <2>4, <3>1, <3>2, <3>3, <3>4 DEF ChainOrdered, Origin
    <3>5. CASE w = u
      BY <2>4, <3>1, <3>2, <3>3, <3>5 DEF ChainOrdered
    <3>6. CASE w.begin = nextTs
      BY <3>2, <3>6 DEF ViewsInThePast, OtherFields, Timestamps
    <3> QED BY <3>3, <3>4, <3>5, <3>6 DEF Origin
  <2> QED BY <2>3, <2>4
<1> QED BY <1>5, <1>6, <1>7, StepKinds, CollectedVersions DEF Shrinks

LEMMA InitIsolation == Init => IsolationInv
BY InitLocks, TsInfAssumption
   DEF Init, IsolationInv, VersionTimeline, PastLifetimes, NoneClosedAtBirth, PastLifetimes, CommittedInThePast, DisjointLifetimes, Committed,
       WritersKnown, ViewsInThePast, ConcurrentInvisible, SuccessorsKept, ChainOrdered,
       IsLive, Live

LEMMA NextIsolation ==
  ASSUME TypeInv, IsolationInv, [Next]_vars
  PROVE  IsolationInv'
<1>1. TypeInv' /\ LocksHeldByActive'
  BY NextType, NextLocks DEF IsolationInv
<1>2. ActiveIsLive /\ ActiveIsLive'
  BY <1>1 DEF IsolationInv, LocksHeldByActive
<1>3. VersionTimeline' /\ WritersKnown' /\ ViewsInThePast'
  BY <1>1, <1>2, LifetimesStep, BirthStep, KnownStep, ViewsStep
     DEF IsolationInv, VersionTimeline
<1>4. ConcurrentInvisible' /\ SuccessorsKept' /\ ChainOrdered'
  BY <1>1, <1>2, ConcurrentStep, SuccessorStep, OrderStep DEF IsolationInv
<1> QED BY <1>1, <1>3, <1>4 DEF IsolationInv

\* The inductive invariant behind the isolation properties: on top of types and
\* locks, the committed versions of a row are a timeline of finished writers,
\* views lie in the past and hide who ran beside them, and what superseded a
\* version some snapshot needs is still there.
THEOREM IsolationInvariant == Spec => [](TypeInv /\ IsolationInv)
<1>1. Init => TypeInv /\ IsolationInv
  BY InitType, InitIsolation
<1>2. TypeInv /\ IsolationInv /\ [Next]_vars => TypeInv' /\ IsolationInv'
  BY NextType, NextIsolation
<1> QED BY <1>1, <1>2, PTL DEF Spec

\* At any timestamp a snapshot finds at most one committed version of a row, in
\* every reachable state of every instance (run txn_isolation).
THEOREM Timeline == Spec => []VersionTimeline
<1>1. TypeInv /\ IsolationInv => VersionTimeline
  BY DEF IsolationInv
<1> QED BY <1>1, IsolationInvariant, PTL

-----------------------------------------------------------------------------
(* What transactions read.                                                 *)

\* A read-committed statement finds the current version and no other.
LEMMA CurrentIsWhatIsSeen ==
  ASSUME TypeInv, IsolationInv, NEW t \in TxnIds, NEW r \in Rows,
         IsLive(t), isolation[t] = "ReadCommitted", OwnIntents(t, chains[r]) = {}
  PROVE  {v \in chains[r] : IsVisible(StatementView(t), v)} = Current(chains[r])
<1> OtherFields /\ DataFields
  BY TypeOKParts DEF TypeInv
<1>1. /\ StatementView(t).reader = t /\ StatementView(t).isolation = "ReadCommitted"
      /\ StatementView(t).snapshot = nextTs /\ StatementView(t).active = active
  BY DEF StatementView, View
<1>2. ASSUME NEW v \in chains[r] PROVE IsVisible(StatementView(t), v) <=> v \in Current(chains[r])
  <2>1. v.begin \in Nat /\ v.end \in Nat /\ v.committed \in BOOLEAN /\ v.writer \in TxnIds
    BY DEF DataFields, Versions, Timestamps
  <2>2. CASE ~v.committed
    BY <1>1, <2>2 DEF IsVisible, Current, OwnIntents
  <2>3. CASE v.committed
    <3>1. /\ v.begin < nextTs /\ v.writer \notin active
          /\ v.end = TsInf \/ v.end < nextTs
      BY <2>1, <2>3 DEF IsolationInv, VersionTimeline, PastLifetimes, CommittedInThePast, Committed,
                        LocksHeldByActive, ActiveIsLive
    <3>2. v.begin <= nextTs /\ (v.end > nextTs <=> v.end = TsInf)
      BY <2>1, <3>1 DEF OtherFields
    <3> QED BY <1>1, <2>3, <3>1, <3>2 DEF IsVisible, Current
  <2> QED BY <2>1, <2>2, <2>3
<1> QED BY <1>2 DEF Current

\* Read committed reads the latest committed value, in every reachable state of
\* every instance (run txn_isolation).
THEOREM ReadCommitted == Spec => []ReadCommittedReadsLatest
<1>1. TypeInv /\ IsolationInv => ReadCommittedReadsLatest
  BY CurrentIsWhatIsSeen DEF ReadCommittedReadsLatest, ReadFrom, LatestCommitted
<1> QED BY <1>1, IsolationInvariant, PTL

\* What t's snapshot finds of row r among the committed versions.
Seen(t, r) == {v \in Committed(r) : IsVisible(View(t), v)}

LEMMA SeenFields ==
  ASSUME TypeInv, NEW t \in TxnIds, NEW r \in Rows
  PROVE  \A v \in Committed(r) :
           v \in Seen(t, r) <=> /\ v.writer \notin viewActive[t]
                                /\ v.begin <= snapshotTs[t] /\ v.end > snapshotTs[t]
BY DEF Seen, Committed, IsVisible, View

\* A snapshot finds one version at most.
LEMMA OneSeen ==
  ASSUME TypeInv, IsolationInv, NEW t \in TxnIds, NEW r \in Rows,
         NEW v \in Seen(t, r), NEW w \in Seen(t, r)
  PROVE  v = w
<1> OtherFields /\ DataFields
  BY TypeOKParts DEF TypeInv
<1>1. v \in Committed(r) /\ w \in Committed(r)
  BY DEF Seen
<1>2. /\ v.begin <= snapshotTs[t] /\ v.end > snapshotTs[t]
      /\ w.begin <= snapshotTs[t] /\ w.end > snapshotTs[t]
  BY <1>1, SeenFields
<1>3. /\ v.begin \in Nat /\ v.end \in Nat /\ w.begin \in Nat /\ w.end \in Nat
      /\ snapshotTs[t] \in Nat
  BY <1>1 DEF Committed, DataFields, Versions, Timestamps, OtherFields
<1> QED BY <1>1, <1>2, <1>3 DEF IsolationInv, VersionTimeline, PastLifetimes, DisjointLifetimes

LEMMA SeenValue ==
  ASSUME TypeInv, IsolationInv, NEW t \in TxnIds, NEW r \in Rows
  PROVE  /\ Seen(t, r) = {} => SnapshotValue(t, r) = Absent
         /\ \A v \in Seen(t, r) : SnapshotValue(t, r) = v.value
<1>1. Seen(t, r) = {} => SnapshotValue(t, r) = Absent
  BY DEF SnapshotValue, Seen
<1>2. ASSUME NEW v \in Seen(t, r) PROVE SnapshotValue(t, r) = v.value
  <2>1. \A w \in Seen(t, r) : w.pos \in 1 .. MaxPos
    BY TypeOKParts DEF TypeInv, DataFields, Versions, Seen, Committed
  <2>2. Newest(Seen(t, r)) \in Seen(t, r)
    BY <2>1, NewestIsIn
  <2>3. Newest(Seen(t, r)) = v
    BY <2>2, OneSeen
  <2> QED BY <2>3 DEF SnapshotValue, Seen
<1> QED BY <1>1, <1>2

SnapshotReads ==
  \A t \in TxnIds, r \in Rows :
    /\ Seen(t, r) = {} => SnapshotValue(t, r) = Absent
    /\ \A v \in Seen(t, r) : SnapshotValue(t, r) = v.value

LEMMA SnapshotReadsHold == TypeInv /\ IsolationInv => SnapshotReads
BY SeenValue DEF SnapshotReads

LEMMA SnapshotReadsHoldNext == TypeInv' /\ IsolationInv' => SnapshotReads'
BY SnapshotReadsHold, PTL

\* What a snapshot sees after a step is what it saw, closed perhaps.
LEMMA SeenStep ==
  ASSUME TypeInv, IsolationInv, [Next]_vars, NEW t \in TxnIds, NEW r \in Rows,
         IsLive(t), IsLive(t)', isolation[t] \in FixedSnapshot
  PROVE  /\ \A v \in Seen(t, r) : \E w \in Seen(t, r)' : w.value = v.value
         /\ Seen(t, r) = {} => Seen(t, r)' = {}
<1> OtherFields /\ DataFields
  BY TypeOKParts DEF TypeInv
<1> nextTs \in Timestamps
  BY TsInfAssumption DEF OtherFields, Timestamps
<1>1. /\ snapshotTs'[t] = snapshotTs[t] /\ viewActive'[t] = viewActive[t]
      /\ snapshotTs[t] < nextTs /\ snapshotTs[t] \in Nat /\ nextTs \in Nat /\ nextTs < TsInf
  BY FrameOfNext
     DEF Frame, SameView, FixedSnapshot, IsolationInv, ViewsInThePast, OtherFields, Timestamps
<1>2. \A v \in Committed(r) :
        v \in Seen(t, r) <=> /\ v.writer \notin viewActive[t]
                             /\ v.begin <= snapshotTs[t] /\ v.end > snapshotTs[t]
  BY SeenFields
<1>3. \A v \in Committed(r)' :
        v \in Seen(t, r)' <=> /\ v.writer \notin viewActive[t]
                              /\ v.begin <= snapshotTs[t] /\ v.end > snapshotTs[t]
  BY <1>1 DEF Seen, Committed, IsVisible, View
<1>4. Seen(t, r) \subseteq Committed(r) /\ Seen(t, r)' \subseteq Committed(r)'
  BY DEF Seen
<1>5. CASE Committed(r)' = Committed(r)
  BY <1>2, <1>3, <1>4, <1>5
<1>6. CASE GarbageCollect
  <2>1. Committed(r)' = {w \in Committed(r) :
                           w.end = TsInf \/ \E u \in active : w.end >= snapshotTs[u]}
    BY <1>6, CollectedVersions
  <2>2. t \in active
    BY DEF IsolationInv, LocksHeldByActive, ActiveIsLive
  <2>3. \A v \in Committed(r) : v.end \in Nat
    BY DEF Committed, DataFields, Versions, Timestamps
  <2>4. \A v \in Seen(t, r) : v \in Committed(r)' /\ v \in Seen(t, r)'
    BY <1>1, <1>2, <1>3, <1>4, <2>1, <2>2, <2>3
  <2>5. Seen(t, r)' \subseteq Seen(t, r)
    BY <1>2, <1>3, <1>4, <2>1
  <2> QED BY <2>4, <2>5
<1>7. ASSUME NEW u \in TxnIds, Commit(u), Committed(r)' # Committed(r)
      PROVE  /\ \A v \in Seen(t, r) : \E w \in Seen(t, r)' : w.value = v.value
             /\ Seen(t, r) = {} => Seen(t, r)' = {}
  <2>1. PICK mine \in Versions :
             /\ mine.begin = nextTs
             /\ \A v \in Past(r) : v \in Committed(r)'
             /\ \A v \in Current(chains[r]) : Closed(v, nextTs) \in Committed(r)'
             /\ \A v \in Committed(r)' :
                  v = mine \/ v \in Past(r)
                    \/ \E c \in Current(chains[r]) : v = Closed(c, nextTs)
    BY <1>7, CommittedVersions DEF IsolationInv, VersionTimeline, LocksHeldByActive
  <2>2. ASSUME NEW c \in Current(chains[r])
        PROVE  /\ c \in Committed(r) /\ c.end = TsInf
               /\ Closed(c, nextTs).value = c.value
               /\ Closed(c, nextTs) \in Seen(t, r)' <=> c \in Seen(t, r)
    <3>1. c \in Versions /\ c \in Committed(r) /\ c.end = TsInf
      BY DEF Current, Committed, DataFields
    <3>2. /\ Closed(c, nextTs).begin = c.begin /\ Closed(c, nextTs).end = nextTs
          /\ Closed(c, nextTs).writer = c.writer /\ Closed(c, nextTs).value = c.value
      BY <3>1, StampedFields
    <3>3. Closed(c, nextTs) \in Committed(r)'
      BY <2>1
    <3>4. c.begin <= snapshotTs[t] /\ c.writer \notin viewActive[t] <=> c \in Seen(t, r)
      BY <1>1, <1>2, <3>1, TsInfAssumption
    <3>5. c.begin <= snapshotTs[t] /\ c.writer \notin viewActive[t]
            <=> Closed(c, nextTs) \in Seen(t, r)'
      BY <1>1, <1>3, <3>2, <3>3
    <3> QED BY <3>1, <3>2, <3>4, <3>5
  <2>3. \A v \in Past(r) : v \in Committed(r) /\ (v \in Seen(t, r)' <=> v \in Seen(t, r))
    BY <1>2, <1>3, <2>1 DEF Past
  <2>4. mine \notin Seen(t, r)'
    BY <1>1, <1>3, <1>4, <2>1
  <2>5. \A v \in Committed(r) : v \in Past(r) \/ v \in Current(chains[r])
    BY DEF Past, Committed, Current
  <2>6. \A v \in Seen(t, r) : \E w \in Seen(t, r)' : w.value = v.value
    BY <1>4, <2>2, <2>3, <2>5
  <2>7. Seen(t, r) = {} => Seen(t, r)' = {}
    BY <1>4, <2>1, <2>2, <2>3, <2>4
  <2> QED BY <2>6, <2>7
<1> QED BY <1>5, <1>6, <1>7, StepKinds, PushedVersions DEF Shrinks

\* A step leaves what the snapshot of a running transaction holds.
LEMMA SnapshotStep ==
  ASSUME TypeInv, IsolationInv, [Next]_vars, NEW t \in TxnIds, NEW r \in Rows,
         IsLive(t), IsLive(t)', isolation[t] \in FixedSnapshot
  PROVE  SnapshotValue(t, r)' = SnapshotValue(t, r)
<1>1. SnapshotReads /\ SnapshotReads'
  BY SnapshotReadsHold, SnapshotReadsHoldNext, NextType, NextIsolation
<1>2. /\ \A v \in Seen(t, r) : \E w \in Seen(t, r)' : w.value = v.value
      /\ Seen(t, r) = {} => Seen(t, r)' = {}
  BY SeenStep
<1>3. CASE Seen(t, r) = {}
  BY <1>1, <1>2, <1>3 DEF SnapshotReads
<1>4. ASSUME NEW v \in Seen(t, r) PROVE SnapshotValue(t, r)' = SnapshotValue(t, r)
  <2>1. PICK w \in Seen(t, r)' : w.value = v.value
    BY <1>2
  <2>2. SnapshotValue(t, r)' = w.value /\ SnapshotValue(t, r) = v.value
    BY <1>1 DEF SnapshotReads
  <2> QED BY <2>1, <2>2
<1> QED BY <1>3, <1>4

\* The value a repeatable-read or serializable transaction may read of a row is
\* the same after any step of anyone, in every instance (run txn_isolation).
THEOREM StableSnapshots == Spec => SnapshotStable
<1>1. TypeInv /\ IsolationInv /\ [Next]_vars =>
        [\A t \in TxnIds, r \in Rows :
           IsLive(t) /\ IsLive(t)' /\ isolation[t] \in FixedSnapshot
             => SnapshotValue(t, r)' = SnapshotValue(t, r)]_vars
  BY SnapshotStep
<1> QED BY <1>1, IsolationInvariant, PTL DEF Spec, SnapshotStable

\* Without a conflict, every committed version of a row t read was committed
\* before t's snapshot, so the snapshot finds the latest one.
LEMMA UnconflictedRow ==
  ASSUME TypeInv, IsolationInv, NEW t \in TxnIds, IsLive(t), isolation[t] = "Serializable",
         NEW r \in Rows, r \notin ConflictRows(t), r \in readSet[t] \cup predicateRows[t]
  PROVE  SnapshotValue(t, r) = LatestCommitted(r)
<1> OtherFields /\ DataFields
  BY TypeOKParts DEF TypeInv
<1>1. /\ snapshotTs[t] = beginTs[t] /\ snapshotTs[t] < nextTs
      /\ snapshotTs[t] \in Nat /\ nextTs \in Nat /\ nextTs < TsInf /\ t \in active
  BY DEF IsolationInv, ViewsInThePast, LocksHeldByActive, ActiveIsLive, OtherFields, Timestamps
<1>2. ASSUME NEW v \in Committed(r)
      PROVE  /\ v.begin \in Nat /\ v.end \in Nat /\ v.begin < v.end
             /\ v.begin <= snapshotTs[t] /\ v.writer \notin viewActive[t]
  <2>1. /\ v \in chains[r] /\ v.committed /\ v.begin \in Nat /\ v.end \in Nat
        /\ v.begin < nextTs /\ v.begin < v.end /\ ~IsLive(v.writer)
    BY DEF Committed, DataFields, Versions, Timestamps, IsolationInv, VersionTimeline,
           PastLifetimes, NoneClosedAtBirth, CommittedInThePast
  <2>2. v.begin <= beginTs[t]
    BY <1>1, <2>1 DEF ConflictRows
  <2> QED BY <1>1, <2>1, <2>2 DEF IsolationInv, ConcurrentInvisible
<1>3. Current(chains[r]) \subseteq Committed(r) /\ \A c \in Current(chains[r]) : c.end = TsInf
  BY DEF Current, Committed
<1>4. Current(chains[r]) \subseteq Seen(t, r)
  BY <1>1, <1>2, <1>3, SeenFields, TsInfAssumption
<1>5. ASSUME NEW v \in Seen(t, r), v.end # TsInf PROVE FALSE
  <2>1. v \in Committed(r) /\ v.end > snapshotTs[t] /\ v.end \in Nat
    BY <1>2, SeenFields DEF Seen
  <2>2. PICK w \in Committed(r) : w.begin = v.end
    BY <1>1, <1>5, <2>1 DEF IsolationInv, SuccessorsKept
  <2> QED BY <1>1, <1>2, <2>1, <2>2
<1>6. Seen(t, r) = Current(chains[r])
  BY <1>4, <1>5 DEF Seen, Current, Committed
<1> QED BY <1>6 DEF SnapshotValue, Seen, LatestCommitted

\* A serializable commit finds the rows it read as its snapshot showed them, in
\* every instance (run txn_isolation).
THEOREM SerializableCommits == Spec => SerializableReadsCurrent
<1>1. ASSUME TypeInv, IsolationInv, [Next]_vars, NEW t \in TxnIds, IsLive(t),
             isolation[t] = "Serializable", state'[t] = "Committed"
      PROVE  Commit(t)
  <2> USE DEF clockVars, idVars, endVars, viewVars, setVars, undoVars, lockVars
  <2>0. OtherFields
    BY <1>1, TypeOKParts DEF TypeInv
  <2>1. state'[t] # state[t]
    BY <1>1 DEF IsLive, Live
  <2>2. (StatementNext \/ LockNext) => state' = state
    <3>1. \A u, r, c : Write(u, r, c) => state' = state
      BY DEF Write
    <3>2. StatementNext => state' = state
      BY <3>1 DEF StatementNext, Read, ExclusiveConflict, Insert, InsertExisting, Update,
         Delete, WriteMissing
    <3>3. LockNext => state' = state
      BY DEF LockNext, AcquireExclusive, AcquireShared, AddPredicateLock
    <3> QED BY <3>2, <3>3
  <2>5. ~SavepointNext /\ ~GarbageCollect /\ ~UNCHANGED vars
    BY <2>1 DEF SavepointNext, Savepoint, ReleaseSavepoint, RollbackToSavepoint, RollbackTo,
       GarbageCollect, vars
  <2>3. PICK u \in TxnIds : \/ \E level \in Isolations : Begin(u, level)
                            \/ Prepare(u) \/ Commit(u) \/ CommitConflict(u) \/ Rollback(u)
    BY <1>1, <2>1, <2>2, <2>5 DEF Next, LifecycleNext
  <2>4. u = t /\ ~(\E level \in Isolations : Begin(u, level)) /\ ~Prepare(u) /\ ~UndoAll(u)
    BY <1>1, <2>0, <2>1, <2>3
       DEF Begin, Prepare, Commit, CommitConflict, Rollback, UndoAll, OtherFields
  <2> QED BY <2>3, <2>4 DEF CommitConflict, Rollback
<1>2. TypeInv /\ IsolationInv /\ [Next]_vars =>
        [\A t \in TxnIds :
           IsLive(t) /\ isolation[t] = "Serializable" /\ state'[t] = "Committed"
             => \A r \in readSet[t] \cup predicateRows[t] :
                  SnapshotValue(t, r) = LatestCommitted(r)]_vars
  <2> SUFFICES ASSUME TypeInv, IsolationInv, [Next]_vars, NEW t \in TxnIds, IsLive(t),
                      isolation[t] = "Serializable", state'[t] = "Committed",
                      NEW r \in readSet[t] \cup predicateRows[t]
               PROVE  SnapshotValue(t, r) = LatestCommitted(r)
    OBVIOUS
  <2>1. Commit(t)
    BY <1>1
  <2>2. r \in Rows /\ r \notin ConflictRows(t)
    BY <2>1, TypeOKParts DEF Commit, SerializableConflict, TypeInv, SetFields
  <2> QED BY <2>2, UnconflictedRow
<1> QED BY <1>2, IsolationInvariant, PTL DEF Spec, SerializableReadsCurrent

\* The newest version a repeatable-read or serializable transaction sees of a
\* row it has written is its own newest intent.
LEMMA OwnIsNewest ==
  ASSUME TypeInv, IsolationInv, NEW t \in TxnIds, NEW r \in Rows, IsLive(t),
         isolation[t] \in FixedSnapshot, OwnIntents(t, chains[r]) # {}
  PROVE  ReadFrom(chains[r], View(t)) = Newest(OwnIntents(t, chains[r])).value
<1> OtherFields /\ DataFields
  BY TypeOKParts DEF TypeInv
<1> DEFINE visible == {v \in chains[r] : IsVisible(View(t), v)}
           own == OwnIntents(t, chains[r])
<1>1. \A v \in chains[r] : v.pos \in 1 .. MaxPos /\ v.begin \in Nat /\ v.committed \in BOOLEAN
  BY DEF DataFields, Versions, Timestamps
<1>2. own \subseteq visible /\ visible \subseteq chains[r] /\ own # {}
  BY DEF OwnIntents, IsVisible, View
<1>3. Newest(own) \in own /\ \A v \in own : v.pos <= Newest(own).pos
  BY <1>1, <1>2, NewestIsIn
<1>4. Newest(visible) \in visible /\ \A v \in visible : v.pos <= Newest(visible).pos
  BY <1>1, <1>2, NewestIsIn
<1>5. Newest(visible) \in own
  <2>1. ASSUME Newest(visible).committed PROVE FALSE
    <3>1. Newest(visible).begin <= snapshotTs[t] /\ snapshotTs[t] = beginTs[t]
      BY <1>4, <2>1 DEF IsVisible, View, IsolationInv, ViewsInThePast, FixedSnapshot
    <3>2. /\ Newest(own) \in chains[r] /\ ~Newest(own).committed /\ Newest(own).writer = t
      BY <1>3 DEF OwnIntents
    <3>3. Newest(own).pos < Newest(visible).pos
      BY <1>1, <1>2, <1>3, <1>4, <2>1, <3>2 DEF IsolationInv, ChainOrdered
    <3>4. Newest(visible).begin > beginTs[t]
      BY <1>2, <1>4, <2>1, <3>2, <3>3 DEF IsolationInv, ChainOrdered
    <3> QED BY <1>1, <1>2, <1>4, <3>1, <3>4 DEF OtherFields, Timestamps
  <2> QED BY <1>4, <2>1 DEF IsVisible, View, OwnIntents, FixedSnapshot
<1>6. Newest(visible) = Newest(own)
  <2>1. Newest(visible).pos = Newest(own).pos
    BY <1>1, <1>2, <1>3, <1>4, <1>5
  <2> QED BY <1>2, <1>3, <1>4, <2>1 DEF IsolationInv, ChainOrdered
<1> QED BY <1>2, <1>6 DEF ReadFrom

\* A transaction over a fixed snapshot reads its own writes, in every instance
\* (run txn_isolation).
THEOREM OwnWrites == Spec => []OwnWritesVisible
<1>1. TypeInv /\ IsolationInv => OwnWritesVisible
  BY OwnIsNewest DEF OwnWritesVisible
<1> QED BY <1>1, IsolationInvariant, PTL
==================================================
