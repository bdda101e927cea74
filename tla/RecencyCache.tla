---------------------------- MODULE RecencyCache -----------------------------
(***************************************************************************)
(* What a least-recently-used cache promises (src/src/lru.rs): it holds at *)
(* most Room entries, newest use first, and an insertion over capacity     *)
(* gives up the entry that was used longest ago.                           *)
(***************************************************************************)
EXTENDS Integers, SequencesExt

CONSTANTS Keys, Items, Room

VARIABLE recency   \* the entries [key, item], most recently used first

Holds(k) == \E i \in DOMAIN recency : recency[i].key = k
Place(k) == CHOOSE i \in DOMAIN recency : recency[i].key = k

\* The entries of the other keys, in order.
Others(k) == IF Holds(k) THEN RemoveAt(recency, Place(k)) ELSE recency

\* A get or a removal of a key that is not there.
Unaffected == UNCHANGED recency

Get(k) == Holds(k) /\ recency' = <<recency[Place(k)]>> \o Others(k)

Put(k, v) ==
  LET rest == IF Holds(k) \/ Len(recency) < Room THEN Others(k) ELSE Front(recency)
  IN  recency' = <<[key |-> k, item |-> v]>> \o rest

RemoveKey(k) == Holds(k) /\ recency' = Others(k)

Init == recency = <<>>
Next == Unaffected \/ \E k \in Keys : Get(k) \/ RemoveKey(k) \/ \E v \in Items : Put(k, v)
Spec == Init /\ [][Next]_recency
=============================================================================
