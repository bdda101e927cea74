----------------------------- MODULE KeyedValues -----------------------------
(* What an ordered map promises (src/src/skiplist.rs): a value per key.    *)
CONSTANTS ListKeys, ListValues, Missing

VARIABLE valueOf   \* Missing, or what was last put

\* A get, a range scan, a ceiling.
Unaffected == UNCHANGED valueOf

Put(k, v) == valueOf' = [valueOf EXCEPT ![k] = v]

Init == valueOf = [k \in ListKeys |-> Missing]
Next == Unaffected \/ \E k \in ListKeys, v \in ListValues : Put(k, v)
Spec == Init /\ [][Next]_valueOf
=============================================================================
