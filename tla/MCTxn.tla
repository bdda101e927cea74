-------------------------------- MODULE MCTxn -------------------------------
(***************************************************************************)
(* The transaction manager on small instances, by itself and with its      *)
(* log.  The runs of the manager alone leave the log as it begins.         *)
(***************************************************************************)
EXTENDS TxnWal, TLC

CONSTANTS r1, r2, v1, v2, s1

\* The fields of a finished transaction that no action, and no property of a
\* live transaction, reads again.
Forget(f, none) == [t \in TxnIds |-> IF IsLive(t) THEN f[t] ELSE none]

LiveView == <<clockVars, state, active, chains, lockVars, undo, writeSet,
          Forget(isolation, ""), Forget(beginTs, 0), Forget(snapshotTs, 0),
          Forget(viewActive, {}), Forget(readSet, {}), Forget(predicateRows, {}),
          Forget(savepoints, {}), Forget(predicateLocks, {}), walVars>>

Symmetry == Permutations(Rows) \cup Permutations(SavepointNames)
ValueSymmetry == Permutations(Values)

IsolationNext ==
  \/ LifecycleNext \/ StatementNext \/ GarbageCollect
  \/ \E t \in TxnIds, rows \in SUBSET Rows :
       isolation[t] = "Serializable" /\ AddPredicateLock(t, rows)
IsolationSpec == WalInit /\ [][IsolationNext /\ UNCHANGED walVars]_allVars

\* Savepoints are taken by the first transaction only; the other competes for
\* its rows and locks.
SavepointRunNext ==
  \/ StatementNext
  \/ \E t \in TxnIds :
       \/ \E level \in Isolations : Begin(t, level)
       \/ Commit(t) \/ Rollback(t)
  \/ \E t \in TxnIds, r \in Rows : AcquireExclusive(t, r) \/ AcquireShared(t, r)
  \/ \E name \in SavepointNames : Savepoint(1, name) \/ ReleaseSavepoint(1, name)
  \/ RollbackToSavepoint(1)
SavepointSpec == WalInit /\ [][SavepointRunNext /\ UNCHANGED walVars]_allVars

\* Statements, checkpoints and restarts, without savepoints and explicit locks.
RecoveryNext == TransactionNext \/ UnloggedCollect \/ Checkpoint \/ Restart
RecoverySpec == WalInit /\ [][RecoveryNext]_allVars
=============================================================================
