-------------------------------- MODULE BTree --------------------------------
(***************************************************************************)
(* The B+tree of src/src/btree.rs: leaves with keys, their rows and a link *)
(* to the next leaf, inner nodes with separators and children.  A node of  *)
(* more than Fanout keys splits, and the split moves up; removal takes     *)
(* keys out of a leaf and never merges.  NoLeaf stands for no next leaf.   *)
(***************************************************************************)
EXTENDS Integers, Sequences, SequencesExt

CONSTANTS
  TreePairs,  \* the pairs of a key, an integer, and a row id that are inserted
  Fanout      \* FANOUT

TreeKeys == {p[1] : p \in TreePairs}

ASSUME TreeAssumption == TreeKeys \subseteq Int /\ Fanout \in Nat \ {0, 1}

NoLeaf == -1
NoSplit == [right |-> NoLeaf]

VARIABLES
  pages,      \* BTree::pages: page id -> node
  root,
  nextId,     \* BTree::next_id
  height

treeVars == <<pages, root, nextId, height>>

Leaf(keys, rows, next) == [keys |-> keys, rows |-> rows, next |-> next]
Inner(keys, children) == [keys |-> keys, children |-> children]
IsLeaf(node) == "next" \in DOMAIN node

\* partition_point of k <= key, and what binary_search counts before a key.
UpTo(keys, key) == Cardinality({i \in DOMAIN keys : keys[i] <= key})
Before(keys, key) == Cardinality({i \in DOMAIN keys : keys[i] < key})

ChildFor(node, key) == node.children[UpTo(node.keys, key) + 1]

\* The pages from the root to the leaf of a key; every leaf is at depth `height`.
PathTo(key) ==
  LET path[n \in 1 .. height] ==
        IF n = 1 THEN root ELSE ChildFor(pages[path[n - 1]], key)
  IN  path

LeafFor(key) == pages[PathTo(key)[height]]

\* Fault: the left half of a leaf keeps its link and skips the new leaf.
LeftLinkKept(leaf, new) == leaf.next

\* The link of the left half of a leaf that splits.
LeftLink(leaf, new) == new

\* split_leaf and split_internal: an inner node gives its middle key away, a
\* leaf copies it, and its left half links to the new page.
Halves(node, new) ==
  LET mid == Len(node.keys) \div 2
      low == SubSeq(node.keys, 1, mid)
      from(n) == SubSeq(node.keys, n, Len(node.keys))
      split(l, r) == [left |-> l, right |-> r, sep |-> node.keys[mid + 1]]
  IN  IF IsLeaf(node)
      THEN split(Leaf(low, Restrict(node.rows, Range(low)), LeftLink(node, new)),
                 Leaf(from(mid + 1), Restrict(node.rows, Range(from(mid + 1))), node.next))
      ELSE split(Inner(low, SubSeq(node.children, 1, mid + 1)),
                 Inner(from(mid + 2), SubSeq(node.children, mid + 2, Len(node.children))))

\* A tree in the course of an insertion, with the split its last node made.
Stored(tree, id, node) ==
  LET new == tree.nextId
      h == Halves(node, new)
  IN  IF Len(node.keys) <= Fanout
      THEN [pages |-> [tree.pages EXCEPT ![id] = node], nextId |-> new, split |-> NoSplit]
      ELSE [pages |-> [i \in DOMAIN tree.pages \cup {new} |->
                         CASE i = id -> h.left [] i = new -> h.right
                           [] OTHER -> tree.pages[i]],
            nextId |-> new + 1,
            split |-> [right |-> new, sep |-> h.sep]]

\* The leaf with a pair more.
WithRow(leaf, key, row) ==
  IF key \in Range(leaf.keys)
  THEN Leaf(leaf.keys,
            [leaf.rows EXCEPT ![key] = IF row \in Range(@) THEN @ ELSE Append(@, row)],
            leaf.next)
  ELSE Leaf(InsertAt(leaf.keys, Before(leaf.keys, key) + 1, key),
            [k \in DOMAIN leaf.rows \cup {key} |-> IF k = key THEN <<row>> ELSE leaf.rows[k]],
            leaf.next)

\* retain: the rows of a key but one, in their order.
OtherRows(rows, row) ==
  FlattenSeq([i \in DOMAIN rows |-> IF rows[i] = row THEN <<>> ELSE <<rows[i]>>])

\* The leaf without a pair; the key goes with its last row.
WithoutRow(leaf, key, row) ==
  LET left == OtherRows(leaf.rows[key], row)
  IN  IF left # <<>> THEN Leaf(leaf.keys, [leaf.rows EXCEPT ![key] = left], leaf.next)
      ELSE Leaf(RemoveAt(leaf.keys, Before(leaf.keys, key) + 1),
                Restrict(leaf.rows, DOMAIN leaf.rows \ {key}), leaf.next)

\* The inner node with the split of its child.
WithChild(node, split) ==
  LET pos == UpTo(node.keys, split.sep)
  IN  Inner(InsertAt(node.keys, pos + 1, split.sep),
            InsertAt(node.children, pos + 2, split.right))

\* insert_rec, from the leaf up: the tree once `n` levels are done.
Inserted(key, row) ==
  LET path == PathTo(key)
      now == [pages |-> pages, nextId |-> nextId, split |-> NoSplit]
      up[n \in 1 .. height] ==
        LET id == path[height - n + 1]
        IN  IF n = 1 THEN Stored(now, id, WithRow(pages[id], key, row))
            ELSE IF up[n - 1].split = NoSplit THEN up[n - 1]
            ELSE Stored(up[n - 1], id, WithChild(up[n - 1].pages[id], up[n - 1].split))
  IN  up[height]

-----------------------------------------------------------------------------
TreeInit ==
  /\ pages = [i \in {0} |-> Leaf(<<>>, <<>>, NoLeaf)]
  /\ root = 0 /\ nextId = 1 /\ height = 1

\* insert of a pair that splits nodes below the root, or none.
TreeInsert(key, row) ==
  LET tree == Inserted(key, row)
  IN  /\ tree.split = NoSplit
      /\ pages' = tree.pages /\ nextId' = tree.nextId
      /\ UNCHANGED <<root, height>>

\* insert of a pair that splits the root.
TreeGrow(key, row) ==
  LET tree == Inserted(key, row)
      top == Inner(<<tree.split.sep>>, <<root, tree.split.right>>)
  IN  /\ tree.split # NoSplit
      /\ pages' = [i \in DOMAIN tree.pages \cup {tree.nextId} |->
                     IF i = tree.nextId THEN top ELSE tree.pages[i]]
      /\ root' = tree.nextId
      /\ nextId' = tree.nextId + 1
      /\ height' = height + 1

\* remove
TreeRemove(key, row) ==
  LET id == PathTo(key)[height]
  IN  /\ key \in Range(pages[id].keys)
      /\ pages' = [pages EXCEPT ![id] = WithoutRow(pages[id], key, row)]
      /\ UNCHANGED <<root, nextId, height>>

TreeNext ==
  \E p \in TreePairs : TreeInsert(p[1], p[2]) \/ TreeGrow(p[1], p[2]) \/ TreeRemove(p[1], p[2])

TreeSpec == TreeInit /\ [][TreeNext]_treeVars

-----------------------------------------------------------------------------
(* Properties.                                                             *)

\* lookup
RowsIn(leaf, key) == IF key \in Range(leaf.keys) THEN leaf.rows[key] ELSE <<>>
Lookup(key) == RowsIn(LeafFor(key), key)

\* The entries of a leaf from lo to hi: a key and its rows, for the pairs of the
\* key and each row in turn that the code returns.
Hits(leaf, lo, hi) ==
  LET entry(k) == [key |-> k, rows |-> leaf.rows[k]]
  IN  FlattenSeq([i \in DOMAIN leaf.keys |->
                    IF lo <= leaf.keys[i] /\ leaf.keys[i] <= hi THEN <<entry(leaf.keys[i])>>
                    ELSE <<>>])

\* range: from the leaf of `lo` along the links, up to the first key past `hi`.
\* `fuel` bounds the walk by the number of pages.
Scan(lo, hi) ==
  LET walk[fuel \in 0 .. Cardinality(DOMAIN pages)] ==
        [id \in DOMAIN pages \cup {NoLeaf} |->
          IF id = NoLeaf \/ fuel = 0 \/ ~IsLeaf(pages[id]) THEN <<>>
          ELSE Hits(pages[id], lo, hi)
                 \o IF \E k \in Range(pages[id].keys) : k > hi THEN <<>>
                    ELSE walk[fuel - 1][pages[id].next]]
  IN  walk[Cardinality(DOMAIN pages)][PathTo(lo)[height]]

\* A range scan, which goes down once and then along the leaf links, returns
\* exactly what lookups of the keys of the range return, in the order of keys;
\* splits keep the links in order and removals may leave leaves empty.
ScanMatchesLookups(lo, hi) ==
  LET found == Scan(lo, hi)
  IN  /\ \A i, j \in DOMAIN found : i < j => found[i].key < found[j].key
      /\ Range(found) = {[key |-> k, rows |-> Lookup(k)] :
                           k \in {x \in TreeKeys : lo <= x /\ x <= hi /\ Lookup(x) # <<>>}}

Index == INSTANCE KeyedRows WITH rowsOf <- [k \in TreeKeys |-> Lookup(k)]

\* Insertions and removals in any order, through splits of leaves, of inner
\* nodes and of the root, each do to the rows of the keys what the call says,
\* and nothing else; and a range scan always returns the rows of its keys.
ImplementsKeyedRows ==
  /\ Index!Spec
  /\ [](\A lo, hi \in TreeKeys : lo <= hi => ScanMatchesLookups(lo, hi))
  /\ [][treeVars' # treeVars => \A p \in TreePairs :
         /\ TreeInsert(p[1], p[2]) \/ TreeGrow(p[1], p[2]) => Index!Add(p[1], p[2])
         /\ TreeRemove(p[1], p[2]) => Index!Drop(p[1], p[2])]_treeVars
=============================================================================
