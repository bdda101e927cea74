------------------------------ MODULE LruCache -------------------------------
(***************************************************************************)
(* The LRU cache of src/src/lru.rs: a key map, and a doubly linked recency *)
(* list threaded through a slab of nodes whose freed slots are reused.     *)
(* Slots count from 1, and Nil stands for usize::MAX.                      *)
(***************************************************************************)
EXTENDS Integers, Sequences, SequencesExt

CONSTANTS
  Keys,       \* cache keys
  Items,      \* cached values
  Room        \* the capacity

ASSUME LruAssumption == Room \in Nat \ {0}

Nil == 0
NoNode == [key |-> "free"]

VARIABLES
  slotOf,     \* LruCache::map: key -> slot
  nodes,      \* LruCache::nodes
  free,       \* LruCache::free, a stack
  head,       \* most recently used
  tail        \* least recently used

lruVars == <<slotOf, nodes, free, head, tail>>

Cached == DOMAIN slotOf
SlotWith(f, key, value) ==
  [x \in DOMAIN f \cup {key} |-> IF x = key THEN value ELSE f[x]]

\* The list: the nodes and its two ends.
List == [nodes |-> nodes, head |-> head, tail |-> tail]

\* The link of a node in one direction, and its head or tail, now lead to `to`.
Linked(l, slot, link, end, to) ==
  IF slot = Nil THEN [l EXCEPT ![end] = to]
  ELSE [l EXCEPT !.nodes[slot] = [@ EXCEPT ![link] = to]]

\* Fault: the node behind the detached one keeps its link back.
DetachedForward(l, i) == Linked(l, l.nodes[i].prev, "next", "head", l.nodes[i].next)

\* detach: the neighbours of node i, or the ends, are joined.
Detached(l, i) ==
  LET n == l.nodes[i]
  IN  Linked(Linked(l, n.prev, "next", "head", n.next), n.next, "prev", "tail", n.prev)

\* push_front
Pushed(l, i) ==
  LET linked == [l EXCEPT !.nodes[i] = [@ EXCEPT !.prev = Nil, !.next = l.head]]
      joined == IF l.head = Nil THEN linked ELSE Linked(linked, l.head, "prev", "tail", i)
  IN  [joined EXCEPT !.head = i, !.tail = IF @ = Nil THEN i ELSE @]

Becomes(l) == nodes' = l.nodes /\ head' = l.head /\ tail' = l.tail

\* A key, its node taken out of its slot and the slot put on the free stack.
Dropped(l, i) == [Detached(l, i) EXCEPT !.nodes[i] = NoNode]

-----------------------------------------------------------------------------
LruInit ==
  /\ slotOf = <<>> /\ nodes = <<>> /\ free = <<>>
  /\ head = Nil /\ tail = Nil

Get(k) ==
  /\ k \in Cached
  /\ Becomes(Pushed(Detached(List, slotOf[k]), slotOf[k]))
  /\ UNCHANGED <<slotOf, free>>

\* put of a key that is there.
Replace(k, v) ==
  LET i == slotOf[k]
      stored == [List EXCEPT !.nodes[i] = [@ EXCEPT !.item = v]]
  IN  /\ k \in Cached
      /\ Becomes(Pushed(Detached(stored, i), i))
      /\ UNCHANGED <<slotOf, free>>

\* put of a new key, after evict_lru made room where that was needed.
Put(k, v) ==
  LET full == Cardinality(Cached) >= Room
      base == IF full THEN Dropped(List, tail) ELSE List
      kept == IF full THEN Restrict(slotOf, Cached \ {nodes[tail].key}) ELSE slotOf
      slots == IF full THEN Append(free, tail) ELSE free
      node == [key |-> k, item |-> v, prev |-> Nil, next |-> Nil]
      i == IF slots # <<>> THEN Last(slots) ELSE Len(nodes) + 1
      placed == IF slots # <<>> THEN [base EXCEPT !.nodes[i] = node]
                ELSE [base EXCEPT !.nodes = Append(@, node)]
  IN  /\ k \notin Cached
      /\ slotOf' = SlotWith(kept, k, i)
      /\ free' = IF slots # <<>> THEN Front(slots) ELSE slots
      /\ Becomes(Pushed(placed, i))

RemoveKey(k) ==
  /\ k \in Cached
  /\ slotOf' = Restrict(slotOf, Cached \ {k})
  /\ free' = Append(free, slotOf[k])
  /\ Becomes(Dropped(List, slotOf[k]))

LruNext ==
  \E k \in Keys : Get(k) \/ RemoveKey(k) \/ \E v \in Items : Replace(k, v) \/ Put(k, v)

LruSpec == LruInit /\ [][LruNext]_lruVars

-----------------------------------------------------------------------------
(* Properties.                                                             *)

\* keys_mru, with the values: the walk from the head along the links.
Walk ==
  LET from[n \in 0 .. Len(nodes)] ==
        [i \in 0 .. Len(nodes) |->
           IF i = Nil \/ n = 0 THEN <<>>
           ELSE <<[key |-> nodes[i].key, item |-> nodes[i].item]>>
                  \o from[n - 1][nodes[i].next]]
  IN  from[Len(nodes)][head]

RecencyOrder == INSTANCE RecencyCache WITH recency <- Walk

\* The linked list, the slab and the key map implement an LRU cache: lookups,
\* replacements, removals and evictions, in any order, each do what the call of
\* that name does to a cache of this capacity, in order of last use.
ImplementsRecencyCache ==
  /\ RecencyOrder!Spec
  /\ [][lruVars' # lruVars => \A k \in Keys :
         /\ Get(k) => RecencyOrder!Get(k)
         /\ RemoveKey(k) => RecencyOrder!RemoveKey(k)
         /\ \A v \in Items : Replace(k, v) \/ Put(k, v) => RecencyOrder!Put(k, v)]_lruVars

=============================================================================
