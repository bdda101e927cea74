----------------------------- MODULE Containers ------------------------------
(***************************************************************************)
(* The linked containers of src/src, next to the pools: the union-find,    *)
(* the directed graph, the radix trie, the string interner and the         *)
(* heavy-hitter summary.                                                   *)
(***************************************************************************)
EXTENDS Catalog

CONSTANTS
  MaxElements,      \* bound: elements of a union-find
  MaxVertices,      \* bound: vertices of a graph
  MaxArcs,          \* bound: edges of a graph
  TrieKeys,         \* keys put into a trie: sequences of bytes
  MaxTrieKeys,      \* bound: keys in a trie
  Observed,         \* keys a summary observes
  MaxObserved       \* bound: observations

(***************************************************************************)
(* DisjointSet.  The model is the partition.                               *)
(***************************************************************************)
RECURSIVE RootOf(_, _)
RootOf(d, x) == IF d.parent[x] = x THEN x ELSE RootOf(d, d.parent[x])

\* find: every element on the way is hung under the root.
RECURSIVE Compressed(_, _, _)
Compressed(d, x, root) ==
  IF d.parent[x] = root THEN d ELSE Compressed([d EXCEPT !.parent[x] = root], d.parent[x], root)
FoundIn(d, x) == Compressed(d, x, RootOf(d, x))

\* union
United(d, a, b) ==
  LET e == FoundIn(FoundIn(d, a), b)
      ra == RootOf(e, a)
      rb == RootOf(e, b)
      big == IF e.rank[ra] >= e.rank[rb] THEN ra ELSE rb
      small == IF big = ra THEN rb ELSE ra
  IN  IF ra = rb THEN e
      ELSE [parent |-> [e.parent EXCEPT ![small] = big],
            size |-> [e.size EXCEPT ![big] = @ + e.size[small]],
            rank |-> [e.rank EXCEPT ![big] = IF e.rank[small] = @ THEN @ + 1 ELSE @],
            sets |-> e.sets - 1]

ClassOf(x) == CHOOSE c \in model : x \in c
UnionStep(a, b) ==
  Turns(United(body, a, b), (model \ {ClassOf(a), ClassOf(b)}) \cup {ClassOf(a) \cup ClassOf(b)},
          (RootOf(body, a) # RootOf(body, b)) = (ClassOf(a) # ClassOf(b)))
\* connected and set_size
FindStep(a, b) ==
  LET d == FoundIn(FoundIn(body, a), b)
  IN  Turns(d, model, /\ (RootOf(d, a) = RootOf(d, b)) = (ClassOf(a) = ClassOf(b))
                        /\ d.size[RootOf(d, a)] = Cardinality(ClassOf(a)))
\* ensure
GrowStep ==
  LET n == Len(body.parent) + 1
  IN  /\ n <= MaxElements
      /\ Turns([parent |-> Append(body.parent, n), rank |-> Append(body.rank, 0), size |-> Append(body.size, 1),
                  sets |-> body.sets + 1],
                 model \cup {{n}}, TRUE)

ClassesStep ==
  /\ container = "classes"
  /\ GrowStep \/ \E a, b \in DOMAIN body.parent : UnionStep(a, b) \/ FindStep(a, b)

\* classes: the elements under each root.
ClassesMean ==
  /\ {{y \in DOMAIN body.parent : RootOf(body, y) = RootOf(body, x)} : x \in DOMAIN body.parent} = model
  /\ body.sets = Cardinality(model)
  /\ \A x \in DOMAIN body.parent : body.parent[x] # x => body.rank[body.parent[x]] > body.rank[x]

(***************************************************************************)
(* DiGraph.  The model is the set of edges.                                *)
(***************************************************************************)
AddEdge(u, v) ==
  LET n == LargestOf({Len(body), u, v})
      grown == body \o [i \in 1 .. n - Len(body) |-> <<>>]
  IN  /\ FoldLeft(LAMBDA t, out : t + Len(out), 0, body) < MaxArcs
      /\ Turns([grown EXCEPT ![u] = Append(@, v)], model \cup {<<u, v>>}, TRUE)
GraphStep == container = "graph" /\ \E u, v \in 1 .. MaxVertices : AddEdge(u, v)

\* topo_sort: the queue, of which the first head - 1 are ordered.
RECURSIVE Kahn(_, _, _, _)
Kahn(adj, indeg, queue, head) ==
  IF head > Len(queue) THEN queue
  ELSE LET drop(s, to) == [deg |-> [s.deg EXCEPT ![to] = @ - 1],
                           queue |-> IF s.deg[to] = 1 THEN Append(s.queue, to) ELSE s.queue]
           s == FoldLeft(drop, [deg |-> indeg, queue |-> queue], adj[queue[head]])
       IN  Kahn(adj, s.deg, s.queue, head + 1)
TopoSort(adj) ==
  LET indeg == [v \in DOMAIN adj |-> Cardinality({e \in (DOMAIN adj) \X (1 .. MaxArcs) :
                                                    e[2] \in DOMAIN adj[e[1]] /\ adj[e[1]][e[2]] = v})]
      order == Kahn(adj, indeg, SelectSeq([v \in DOMAIN adj |-> v], LAMBDA v : indeg[v] = 0), 1)
  IN  IF Len(order) = Len(adj) THEN <<order>> ELSE <<>>

FirstTimes(s) == FoldLeft(LAMBDA kept, x : IF x \in ToSet(kept) THEN kept ELSE Append(kept, x), <<>>, s)
\* reachable: a depth-first search with the vertices to visit on a stack.
RECURSIVE Search(_, _, _, _)
Search(adj, visited, stack, dst) ==
  IF stack = <<>> THEN FALSE
  ELSE LET v == Last(stack)
           fresh == FirstTimes(SelectSeq(adj[v], LAMBDA to : to \notin visited))
       IN  v = dst \/ Search(adj, visited \cup ToSet(fresh), Front(stack) \o fresh, dst)
ReachableFrom(adj, src, dst) == src \in DOMAIN adj /\ Search(adj, {src}, <<src>>, dst)

\* Tarjan with a work stack of <<vertex, edges taken>>; index 0 is unvisited.
NewWork(t, v) ==
  [t EXCEPT !.index[v] = t.counter, !.low[v] = t.counter, !.counter = @ + 1, !.stack = Append(@, v),
            !.work = Append(@, <<v, 0>>)]
RECURSIVE Tarjan(_, _)
Tarjan(adj, t) ==
  LET fresh == {v \in DOMAIN adj : t.index[v] = 0}
      v == Last(t.work)[1]
      taken == Last(t.work)[2]
      w == adj[v][taken + 1]
      moved == [t EXCEPT !.work[Len(t.work)][2] = @ + 1]
      above == Front(t.work)
      depth == CHOOSE i \in DOMAIN t.stack : t.stack[i] = v
      closed == IF t.low[v] # t.index[v] THEN t
                ELSE [t EXCEPT !.comps = Append(@, ToSet(SubSeq(t.stack, depth, Len(t.stack)))),
                               !.stack = SubSeq(@, 1, depth - 1)]
  IN  IF t.work = <<>> THEN (IF fresh = {} THEN t.comps ELSE Tarjan(adj, NewWork(t, SmallestOf(fresh))))
      ELSE IF taken < Len(adj[v])
      THEN Tarjan(adj, IF t.index[w] = 0 THEN NewWork(moved, w)
                       ELSE IF w \in ToSet(t.stack) THEN [moved EXCEPT !.low[v] = SmallestOf({@, t.index[w]})]
                       ELSE moved)
      ELSE Tarjan(adj, IF above = <<>> THEN [closed EXCEPT !.work = above]
                       ELSE [closed EXCEPT !.work = above,
                                           !.low[Last(above)[1]] = SmallestOf({@, t.low[v]})])
Components(adj) ==
  Tarjan(adj, [index |-> [v \in DOMAIN adj |-> 0], low |-> [v \in DOMAIN adj |-> 0], stack |-> <<>>, work |-> <<>>,
               comps |-> <<>>, counter |-> 1])

\* What an edge or more leads to.
Behind(v) ==
  LET next(S) == {e[2] : e \in {e \in model : e[1] \in S}}
  IN  {w \in DOMAIN body : \A S \in SUBSET DOMAIN body : next({v}) \subseteq S /\ next(S) \subseteq S => w \in S}

GraphMeans ==
  LET behind == [v \in DOMAIN body |-> Behind(v)]
      sorted == TopoSort(body)
      comps == Components(body)
  IN  /\ (sorted = <<>>) = (\E v \in DOMAIN body : v \in behind[v])
      /\ sorted # <<>> => /\ ToSet(sorted[1]) = DOMAIN body
                          /\ \A i, j \in DOMAIN sorted[1] : <<sorted[1][i], sorted[1][j]>> \in model => i < j
      /\ \A u, v \in DOMAIN body : ReachableFrom(body, u, v) = (u = v \/ v \in behind[u])
      /\ ToSet(comps) = {{v} \cup {w \in behind[v] : v \in behind[w]} : v \in DOMAIN body}
      /\ \A i, j \in DOMAIN comps : (\E u \in comps[i], v \in comps[j] : v \in behind[u]) => j <= i

(***************************************************************************)
(* RadixTree: nodes with the label of the edge into them, a value if a key *)
(* ends there, and a child for each next byte.                             *)
(***************************************************************************)
NewNode(prefix) == [prefix |-> prefix, value |-> <<>>, children |-> [b \in {} |-> <<>>]]
LeafNode(prefix, v) == [NewNode(prefix) EXCEPT !.value = <<v>>]
Shared(a, b) ==
  LargestOf({n \in 0 .. SmallestOf({Len(a), Len(b)}) : \A i \in 1 .. n : a[i] = b[i]})
From(s, n) == SubSeq(s, n + 1, Len(s))

SplitAt(child, n) ==
  [NewNode(SubSeq(child.prefix, 1, n)) EXCEPT
     !.children = Mapped(@, child.prefix[n + 1], [child EXCEPT !.prefix = From(@, n)])]

RECURSIVE InsertInto(_, _, _)
InsertInto(node, key, v) ==
  IF key = <<>> THEN [node EXCEPT !.value = <<v>>]
  ELSE IF key[1] \notin DOMAIN node.children
       THEN [node EXCEPT !.children = Mapped(@, key[1], LeafNode(key, v))]
  ELSE LET child == node.children[key[1]]
           cp == Shared(child.prefix, key)
           split == SplitAt(child, cp)
           put == IF cp = Len(child.prefix) THEN InsertInto(child, From(key, cp), v)
                  ELSE IF cp = Len(key) THEN [split EXCEPT !.value = <<v>>]
                  ELSE [split EXCEPT !.children = Mapped(@, key[cp + 1], LeafNode(From(key, cp), v))]
       IN  [node EXCEPT !.children[key[1]] = put]

RECURSIVE GetFrom(_, _)
GetFrom(node, rest) ==
  IF rest = <<>> THEN node.value
  ELSE IF rest[1] \notin DOMAIN node.children THEN <<>>
  ELSE LET child == node.children[rest[1]]
           cp == Shared(child.prefix, rest)
       IN  IF cp # Len(child.prefix) THEN <<>> ELSE GetFrom(child, From(rest, cp))

\* collect: the keys below a node in order, behind what leads to it.
RECURSIVE Collected(_, _)
Collected(node, buf) ==
  LET key == buf \o node.prefix
      bytes == SetToSortSeq(DOMAIN node.children, <)
  IN  (IF node.value = <<>> THEN <<>> ELSE <<<<key, node.value[1]>>>>)
      \o FlattenSeq([i \in DOMAIN bytes |-> Collected(node.children[bytes[i]], key)])

\* with_prefix, from a node that consumed leads to, its own label in it.
RECURSIVE PrefixFrom(_, _, _)
PrefixFrom(node, rest, consumed) ==
  IF rest = <<>> THEN Collected([node EXCEPT !.prefix = <<>>], consumed)
  ELSE IF rest[1] \notin DOMAIN node.children THEN <<>>
  ELSE LET child == node.children[rest[1]]
           cp == Shared(child.prefix, rest)
       IN  IF cp = Len(rest) THEN Collected(child, consumed)
           ELSE IF cp # Len(child.prefix) THEN <<>>
           ELSE PrefixFrom(child, From(rest, cp), consumed \o child.prefix)

TrieStep ==
  /\ container = "trie"
  /\ \E key \in TrieKeys, v \in StoredValues :
       /\ Cardinality(DOMAIN model \cup {key}) <= MaxTrieKeys
       /\ Turns([root |-> InsertInto(body.root, key, v),
                   len |-> IF GetFrom(body.root, key) = <<>> THEN body.len + 1 ELSE body.len],
                  Mapped(model, key, v), GetFrom(body.root, key) = ValueAt(model, key))

KeyBefore(a, b) == LET n == Shared(a, b) IN n = Len(a) \/ (n < Len(b) /\ a[n + 1] < b[n + 1])
TrieMeans ==
  LET keysBehind(p) == {k \in DOMAIN model : Len(p) <= Len(k) /\ Shared(p, k) = Len(p)}
      listed(p) == LET ks == SetToSortSeq(keysBehind(p), LAMBDA a, b : a # b /\ KeyBefore(a, b))
                   IN  [i \in DOMAIN ks |-> <<ks[i], model[ks[i]]>>]
  IN  /\ body.len = Cardinality(DOMAIN model)
      /\ Collected(body.root, <<>>) = listed(<<>>)
      /\ \A k \in TrieKeys : GetFrom(body.root, k) = ValueAt(model, k) /\ PrefixFrom(body.root, k, <<>>) = listed(k)

(***************************************************************************)
(* Interner: symbols count from 1.  The model is the symbol each text got. *)
(***************************************************************************)
InternStep ==
  /\ container = "interner"
  /\ \E s \in StoredValues :
       LET known == s \in DOMAIN body.map
           sym == IF known THEN body.map[s] ELSE Len(body.strings) + 1
       IN  Turns(IF known THEN body ELSE [map |-> Mapped(body.map, s, sym), strings |-> Append(body.strings, s)],
                   Mapped(model, s, sym), s \in DOMAIN model => model[s] = sym)
InternerMeans ==
  body.map = model /\ \A s \in DOMAIN model : model[s] \in DOMAIN body.strings /\ body.strings[model[s]] = s

(***************************************************************************)
(* SpaceSaving: the counters <<count, error>>.  The model is how often     *)
(* each key was observed.                                                  *)
(***************************************************************************)
Displaced(counters, least, key, weight) ==
  Mapped(Without(counters, least), key, <<counters[least][1] + weight, counters[least][1]>>)

AddWeighted(key, weight) ==
  /\ container = "hitters" /\ body.total + weight <= MaxObserved
  /\ LET c == body.counters
         observe(counters) == Turns([body EXCEPT !.counters = counters, !.total = @ + weight],
                                      [model EXCEPT ![key] = @ + weight], TRUE)
     IN  IF key \in DOMAIN c THEN observe([c EXCEPT ![key][1] = @ + weight])
         ELSE IF Cardinality(DOMAIN c) < body.capacity THEN observe(Mapped(c, key, <<weight, 0>>))
         ELSE \E least \in {k \in DOMAIN c : \A j \in DOMAIN c : c[k][1] <= c[j][1]} :
                observe(Displaced(c, least, key, weight))
HittersStep == \E key \in Observed, weight \in 1 .. 2 : AddWeighted(key, weight)

GuaranteedAbove(key, threshold) ==
  key \in DOMAIN body.counters /\ body.counters[key][1] - body.counters[key][2] > threshold

\* Counts are upper bounds and counts less errors lower ones, and every key
\* observed more often than total / capacity has a counter.
HittersMean ==
  LET c == body.counters
  IN  /\ \A k \in DOMAIN c : c[k][1] - c[k][2] <= model[k] /\ model[k] <= c[k][1]
      /\ \A k \in Observed : /\ model[k] * body.capacity > body.total => k \in DOMAIN c
                             /\ \A n \in 0 .. MaxObserved : GuaranteedAbove(k, n) => model[k] > n
      /\ MapThenSumSet(LAMBDA k : c[k][1], DOMAIN c) = body.total
-----------------------------------------------------------------------------
Begins(name, b, m) == container = name /\ body = b /\ model = m

ContainersInit ==
  /\ agreed = TRUE
  /\ \/ Begins("slab", EmptySlab, NoKeys)
     \/ Begins("arena", [slots |-> <<>>, free |-> <<>>, len |-> 0], {})
     \/ \E c \in Capacities : Begins("ring", NewRing(c), <<>>)
     \/ Begins("queue", [heap |-> <<>>, pos |-> NoKeys], [owed |-> NoKeys, raised |-> {}])
     \/ Begins("classes", [parent |-> <<>>, rank |-> <<>>, size |-> <<>>, sets |-> 0], {})
     \/ Begins("graph", <<>>, {})
     \/ Begins("trie", [root |-> NewNode(<<>>), len |-> 0], NoKeys)
     \/ Begins("interner", [map |-> NoKeys, strings |-> <<>>], NoKeys)
     \/ \E c \in Capacities : Begins("hitters", [counters |-> NoKeys, total |-> 0, capacity |-> LargestOf({c, 1})],
                                     [k \in Observed |-> 0])
     \/ Begins("catalog", EmptyCatalog, [k \in ObjectKinds |-> NoKeys])
     \/ Begins("session", NewSession, [params |-> NoKeys, given |-> 0, executed |-> 0])

ContainersNext ==
  \/ SlabStep \/ ArenaStep \/ RingStep \/ QueueStep
  \/ ClassesStep \/ GraphStep \/ TrieStep \/ InternStep \/ HittersStep
  \/ CatalogStep \/ SessionStep

(***************************************************************************)
(* Whatever was called before, a container answers as the value it stands  *)
(* for: no reuse of a place, move in a heap, compressed path, split edge   *)
(* or displaced counter is seen from outside.  Nothing is said of the      *)
(* priority of a key that a push raised, which pqueue.rs:49-50 documents   *)
(* otherwise.                                                              *)
(***************************************************************************)
ContainersMeanModels ==
  /\ agreed
  /\ CASE container = "slab" -> SlabMeans
       [] container = "arena" -> ArenaMeans
       [] container = "ring" -> RingMeans
       [] container = "queue" -> QueueMeans
       [] container = "classes" -> ClassesMean
       [] container = "graph" -> GraphMeans
       [] container = "trie" -> TrieMeans
       [] container = "interner" -> InternerMeans
       [] container = "hitters" -> HittersMean
       [] container = "catalog" -> CatalogMeans
       [] container = "session" -> SessionMeans
=============================================================================
