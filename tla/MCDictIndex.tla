----------------------------- MODULE MCDictIndex -----------------------------
(***************************************************************************)
(* DictIndex with two texts a fresh page holds together, one it is grown   *)
(* for, and one that is too long for the grown page, for TLC.              *)
(***************************************************************************)
EXTENDS DictIndex

CONSTANTS Short, Medium, Long, Huge

Lengths ==
  [t \in Texts |-> CASE t = Short -> 5 [] t = Medium -> 20 [] t = Long -> 40 [] t = Huge -> 300]
=============================================================================
