------------------------- MODULE SnapshotIsolation -------------------------
(***************************************************************************)
(* What the MVCC transaction manager promises, without versions, locks,    *)
(* timestamps or an undo log: a database of committed values, and per      *)
(* running transaction the snapshot it reads and the log of its writes.    *)
(* TxnProperties maps the state of TxnManager to this one.                 *)
(***************************************************************************)
EXTENDS Naturals, Sequences

CONSTANTS Rows, Cells, Absent, TxnIds, Levels

VARIABLES db, status, level, snap, log

vars == <<db, status, level, snap, log>>

Empty == [r \in Rows |-> Absent]

\* The database once the writes of a log are applied, in order.
Installed(writes) ==
  [r \in Rows |->
     LET touching == {i \in DOMAIN writes : writes[i].row = r}
     IN  IF touching = {} THEN db[r]
         ELSE writes[CHOOSE i \in touching : \A j \in touching : j <= i].value]

Init ==
  /\ db = Empty
  /\ status = [t \in TxnIds |-> "idle"]
  /\ level = [t \in TxnIds |-> "RepeatableRead"]
  /\ snap = [t \in TxnIds |-> Empty]
  /\ log = [t \in TxnIds |-> <<>>]

\* A repeatable-read or serializable transaction keeps the database of its
\* start; one of a lower level keeps none.
Begin(t, l) ==
  /\ status[t] = "idle"
  /\ status' = [status EXCEPT ![t] = "running"]
  /\ level' = [level EXCEPT ![t] = l]
  /\ snap' = IF l \in {"RepeatableRead", "Serializable"} THEN [snap EXCEPT ![t] = db]
                                                        ELSE snap
  /\ UNCHANGED <<db, log>>

Write(t, r, c) ==
  /\ status[t] = "running"
  /\ log' = [log EXCEPT ![t] = Append(@, [row |-> r, value |-> c])]
  /\ UNCHANGED <<db, status, level, snap>>

\* Back to an earlier point of the transaction.
Revert(t) ==
  /\ status[t] = "running"
  /\ \E n \in 0 .. Len(log[t]) : log' = [log EXCEPT ![t] = SubSeq(@, 1, n)]
  /\ UNCHANGED <<db, status, level, snap>>

End(t) ==
  /\ status[t] = "running"
  /\ status' = [status EXCEPT ![t] = "over"]
  /\ snap' = [snap EXCEPT ![t] = Empty]
  /\ log' = [log EXCEPT ![t] = <<>>]
  /\ level' = [level EXCEPT ![t] = "RepeatableRead"]

\* All the writes of t take effect at once, or none does.
Commit(t) == End(t) /\ db' = Installed(log[t])

Abort(t) == End(t) /\ UNCHANGED db

Next ==
  \E t \in TxnIds :
    \/ \E l \in Levels : Begin(t, l)
    \/ \E r \in Rows, c \in Cells : Write(t, r, c)
    \/ Revert(t) \/ Commit(t) \/ Abort(t)

Spec == Init /\ [][Next]_vars
=============================================================================
