------------------------------ MODULE KeyedRows ------------------------------
(***************************************************************************)
(* What a secondary index promises (src/src/btree.rs): each key has a list *)
(* of row ids, in the order they were added, a row once per key.           *)
(***************************************************************************)
EXTENDS Sequences, SequencesExt

CONSTANTS TreePairs

TreeKeys == {p[1] : p \in TreePairs}

VARIABLE rowsOf   \* the rows of each key

\* A lookup, a range scan.
Unaffected == UNCHANGED rowsOf

Add(k, r) == rowsOf' = [rowsOf EXCEPT ![k] = IF r \in Range(@) THEN @ ELSE Append(@, r)]
Drop(k, r) ==
  rowsOf' = [rowsOf EXCEPT ![k] =
    FlattenSeq([i \in DOMAIN rowsOf[k] |-> IF rowsOf[k][i] = r THEN <<>> ELSE <<rowsOf[k][i]>>])]

Init == rowsOf = [k \in TreeKeys |-> <<>>]
Next == Unaffected \/ \E p \in TreePairs : Add(p[1], p[2]) \/ Drop(p[1], p[2])
Spec == Init /\ [][Next]_rowsOf
=============================================================================
