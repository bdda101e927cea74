---------------------------- MODULE MCStructures -----------------------------
(***************************************************************************)
(* The structures that stand beside the page store, none of which calls    *)
(* another: the dictionary page with its index, the snapshot store, the    *)
(* buffer pool, the LRU cache, the B+tree, the hash index, the skip list,  *)
(* the search for deadlocks, the sets and the containers.  A behaviour     *)
(* exercises one of them, and the others stay as they began.               *)
(***************************************************************************)
EXTENDS MCDictIndex, SnapshotStore, BufferPool, LruCache, BTree, HashIndex, SkipList,
        DeadlockSearch, Sets, Containers

CONSTANTS h1, h2

\* Two keys that share a bucket of four and not a bucket of five.
Hashes == (h1 :> 0) @@ (h2 :> 4)

\* Six keys, the middle one with two rows.
SixKeys == {<<k, 1>> : k \in 1 .. 6} \cup {<<4, 2>>}

\* Sets of a word, of more than one, and at its borders.
OtherSets == {{}, {2}, {1, 3, 5}, {0, 1, 2, 3}, {4, 5}, {6, 0}}

\* Keys that are prefixes of one another, the empty one among them.
ByteKeys == UNION {[1 .. n -> {1, 2}] : n \in 0 .. 3}

TableColumns == {<<"a", "b">>, <<"b">>, <<"b", "b">>}
SomeColumns == {<<"b">>, <<"a", "b">>}
Rules == {<<0, 2>>, <<1, -1>>}
\* Every text of up to three characters and every one of four quotes and marks:
\* marks in strings, doubled quotes.
Sources == UNION {[1 .. n -> {"'", "?", "x"}] : n \in 0 .. 3} \cup [1 .. 4 -> {"'", "?"}]

VARIABLE exercised

vars == <<exercised, dictVars, snapVars, poolVars, lruVars, treeVars, hash, skipVars,
          searchVars, setVars, containerVars>>

Parts == {"dictionary", "snapshots", "pool", "lru", "tree", "hash", "skip", "deadlocks", "sets", "containers"}

\* The structures that are not exercised begin in one of their initial states.
Init ==
  /\ exercised \in Parts
  /\ DictInit /\ SnapInit /\ PoolInit /\ LruInit /\ TreeInit /\ HashInit /\ SkipInit
  /\ DeadlockInit /\ SetsInit /\ ContainersInit
  /\ exercised # "pool" => \A p \in PoolPages : store[p] = CHOOSE c \in Contents : TRUE
  /\ exercised # "hash" => \A n \in BucketCounts : hash.count <= n
  /\ exercised # "sets" => family = "matrix"
  /\ exercised # "containers" => container = "slab"

OthersIdle(idle) ==
  /\ "dictionary" \in idle => UNCHANGED dictVars
  /\ "snapshots" \in idle => UNCHANGED snapVars
  /\ "pool" \in idle => UNCHANGED poolVars
  /\ "lru" \in idle => UNCHANGED lruVars
  /\ "tree" \in idle => UNCHANGED treeVars
  /\ "hash" \in idle => UNCHANGED hash
  /\ "skip" \in idle => UNCHANGED skipVars
  /\ "deadlocks" \in idle => UNCHANGED searchVars
  /\ "sets" \in idle => UNCHANGED setVars
  /\ "containers" \in idle => UNCHANGED containerVars

Next ==
  /\ UNCHANGED exercised
  /\ \/ exercised = "dictionary" /\ DictNext
     \/ exercised = "snapshots" /\ SnapNext
     \/ exercised = "pool" /\ PoolNext
     \/ exercised = "lru" /\ LruNext
     \/ exercised = "tree" /\ TreeNext
     \/ exercised = "hash" /\ HashNext
     \/ exercised = "skip" /\ SkipNext
     \/ exercised = "deadlocks" /\ DeadlockNext
     \/ exercised = "sets" /\ SetsNext
     \/ exercised = "containers" /\ ContainersNext
  /\ OthersIdle(Parts \ {exercised})

Spec == Init /\ [][Next]_vars
=============================================================================
