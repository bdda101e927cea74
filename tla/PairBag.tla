------------------------------- MODULE PairBag -------------------------------
(***************************************************************************)
(* What a hash index promises (src/src/hashindex.rs): the pairs that were  *)
(* inserted, as often as they were, until one is removed with its copies.  *)
(***************************************************************************)
EXTENDS Naturals

CONSTANTS HashKeys, HashRows

VARIABLE copies   \* how often each pair is there

\* A lookup, a rehash, a reload, a removal of a pair that is not there.
Unaffected == UNCHANGED copies

Add(k, r) == copies' = [copies EXCEPT ![<<k, r>>] = @ + 1]
Drop(k, r) == copies' = [copies EXCEPT ![<<k, r>>] = 0]

Init == copies = [p \in HashKeys \X HashRows |-> 0]
Next == Unaffected \/ \E k \in HashKeys, r \in HashRows : Add(k, r) \/ Drop(k, r)
Spec == Init /\ [][Next]_copies
=============================================================================
