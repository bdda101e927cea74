------------------------------ MODULE SkipList -------------------------------
(***************************************************************************)
(* The skip list of src/src/skiplist.rs: nodes that are never removed,     *)
(* each on as many levels as was drawn for it.  Nodes count from 1, and    *)
(* Sentinel stands for the head before a key and for the end behind one.   *)
(* The level that is drawn is any: the generator's seed is the caller's.   *)
(***************************************************************************)
EXTENDS Integers, Sequences, SequencesExt

CONSTANTS
  ListKeys,    \* keys, integers
  ListValues,
  MaxLevel     \* MAX_LEVEL

ASSUME SkipAssumption == ListKeys \subseteq Int /\ MaxLevel \in Nat \ {0}

Sentinel == 0
Missing == "none"

VARIABLES
  skipNodes,   \* SkipList::nodes: [key, value, forward]
  skipHead,    \* SkipList::head, by level
  level        \* SkipList::level

skipVars == <<skipNodes, skipHead, level>>

Forward(x, l) == IF x = Sentinel THEN skipHead[l] ELSE skipNodes[x].forward[l]

\* Fault: the descent goes on to the key itself.
PassesInclusive(next, key) == next # Sentinel /\ skipNodes[next].key <= key

\* The descent moves on while the next node has a lower key.
Passes(next, key) == next # Sentinel /\ skipNodes[next].key < key

\* Along level l from node x, as far as that goes.
Advance(x, l, key) ==
  LET walk[steps \in 0 .. Len(skipNodes)] ==
        [i \in 0 .. Len(skipNodes) |->
          IF steps > 0 /\ Passes(Forward(i, l), key) THEN walk[steps - 1][Forward(i, l)] ELSE i]
  IN  walk[Len(skipNodes)][x]

\* `update`: where the descent leaves each level, the sentinel above the top one.
Update(key) ==
  LET at[l \in 1 .. MaxLevel + 1] ==
        IF l > level THEN Sentinel ELSE Advance(at[l + 1], l, key)
  IN  at

\* The first node at or behind a key.
Candidate(key) == Forward(Update(key)[1], 1)
Found(key) == Candidate(key) # Sentinel /\ skipNodes[Candidate(key)].key = key

RaisedTo(drawn) == IF drawn > level THEN drawn ELSE level

-----------------------------------------------------------------------------
SkipInit ==
  /\ skipNodes = <<>>
  /\ skipHead = [l \in 1 .. MaxLevel |-> Sentinel]
  /\ level = 1

SkipReplace(k, v) ==
  /\ Found(k)
  /\ skipNodes' = [skipNodes EXCEPT ![Candidate(k)].value = v]
  /\ UNCHANGED <<skipHead, level>>

\* insert of a new key: its node is linked behind `update` on each of its levels.
SkipInsert(k, v, drawn) ==
  LET new == Len(skipNodes) + 1
      update == Update(k)
      relinked(i) == [skipNodes[i] EXCEPT !.forward =
                        [l \in DOMAIN @ |-> IF l <= drawn /\ update[l] = i THEN new ELSE @[l]]]
      node == [key |-> k, value |-> v, forward |-> [l \in 1 .. drawn |-> Forward(update[l], l)]]
  IN  /\ ~Found(k)
      /\ skipNodes' = Append([i \in DOMAIN skipNodes |-> relinked(i)], node)
      /\ skipHead' = [l \in 1 .. MaxLevel |->
                        IF l <= drawn /\ update[l] = Sentinel THEN new ELSE skipHead[l]]
      /\ level' = RaisedTo(drawn)

SkipNext ==
  \E k \in ListKeys, v \in ListValues :
    SkipReplace(k, v) \/ \E drawn \in 1 .. MaxLevel : SkipInsert(k, v, drawn)

SkipSpec == SkipInit /\ [][SkipNext]_skipVars

-----------------------------------------------------------------------------
(* Properties.                                                             *)

\* get
Value(key) == IF Found(key) THEN skipNodes[Candidate(key)].value ELSE Missing

\* The keys along the bottom level from node `first` to the first that reaches a
\* bound of `upper`, those that reach the bound of `lower`.
ScanFrom(first, lower, upper) ==
  LET Ends(i) == i = Sentinel \/ \E b \in upper : skipNodes[i].key >= b
      Taken(i) == IF \A b \in lower : skipNodes[i].key >= b THEN <<skipNodes[i].key>> ELSE <<>>
      from[n \in 0 .. Len(skipNodes)] ==
        [i \in 0 .. Len(skipNodes) |->
          IF n = 0 \/ Ends(i) THEN <<>> ELSE Taken(i) \o from[n - 1][Forward(i, 1)]]
  IN  from[Len(skipNodes)][first]

\* to_sorted_vec and range, as the keys they return.
SortedKeys == ScanFrom(skipHead[1], {}, {})
KeysInRange(lo, hi) == ScanFrom(Candidate(lo), {lo}, {hi})

\* A scan returns keys in order, each once, and exactly those of K.
Returns(keys, K) ==
  Range(keys) = K /\ \A i, j \in DOMAIN keys : i < j => keys[i] < keys[j]

\* A scan of a range returns its keys in order, and the ceiling of a key is the
\* least that is not below it.
RangeIsExact(lo, hi) ==
  /\ Returns(KeysInRange(lo, hi), {k \in ListKeys : Found(k) /\ lo <= k /\ k < hi})
  /\ Found(hi) /\ lo <= hi =>
       Candidate(lo) # Sentinel /\ skipNodes[Candidate(lo)].key <= hi

Map == INSTANCE KeyedValues WITH valueOf <- [k \in ListKeys |-> Value(k)]

\* Whatever levels are drawn, and in whatever order keys come, the list is a map:
\* a get after an insert or an update returns what was last put under the key,
\* and scans return the keys of their range in order.
ImplementsKeyedValues ==
  /\ Map!Spec
  /\ [](/\ Returns(SortedKeys, {k \in ListKeys : Found(k)})
        /\ \A lo, hi \in ListKeys : RangeIsExact(lo, hi))
  /\ [][skipVars' # skipVars => \A k \in ListKeys, v \in ListValues :
         SkipReplace(k, v) \/ (\E drawn \in 1 .. MaxLevel : SkipInsert(k, v, drawn))
           => Map!Put(k, v)]_skipVars
=============================================================================
