-------------------------------- MODULE Table --------------------------------
(***************************************************************************)
(* What the statements of the engine promise: a table from row ids to      *)
(* values that statements change and compaction, saving and loading leave  *)
(* alone.  The promise holds while `intact` does; src/README.md, section   *)
(* 12, describes the statements.                                           *)
(***************************************************************************)
EXTENDS Integers

CONSTANTS RowIds, Values, Absent, Ops, Matches(_, _, _)

VARIABLES rows, intact

Present == {r \in RowIds : rows[r] # Absent}
Selected(op, target) == {r \in Present : Matches(op, rows[r], target)}

Insert(r, v) ==
  /\ rows[r] = Absent
  /\ rows' = [rows EXCEPT ![r] = v]

DeleteWhere(op, target) ==
  LET gone == Selected(op, target)
  IN  rows' = [r \in RowIds |-> IF r \in gone THEN Absent ELSE rows[r]]

UpdateWhere(v, op, target) ==
  LET changed == Selected(op, target)
  IN  rows' = [r \in RowIds |-> IF r \in changed THEN v ELSE rows[r]]

Statement ==
  \/ \E r \in RowIds, v \in Values : Insert(r, v)
  \/ \E op \in Ops, t \in Values : DeleteWhere(op, t)
  \/ \E v \in Values, op \in Ops, t \in Values : UpdateWhere(v, op, t)

Init == rows = [r \in RowIds |-> Absent] /\ intact = TRUE

Next ==
  \/ intact /\ intact' /\ Statement
  \/ ~intact' /\ rows' \in [RowIds -> Values \cup {Absent}]

Spec == Init /\ [][Next]_<<rows, intact>>
=============================================================================
