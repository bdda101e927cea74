--------------------------- MODULE DeadlockSearch ----------------------------
(***************************************************************************)
(* The search for a deadlock in src/src/txn.rs: a depth-first search for a *)
(* cycle in the wait-for graph.  The graph and the sets of holders are     *)
(* hashed, so the search may take the nodes and the edges in any order.    *)
(***************************************************************************)
EXTENDS Integers, FiniteSets, Sequences, SequencesExt

CONSTANTS
  Waiters,    \* transaction ids
  MaxEdges    \* bound: edges of the graph

VARIABLES
  waits,      \* TxnManager::wait_for: waiter -> holders, the waiters its domain
  roots,      \* the waiters the search has still to begin at
  path,       \* stack: the nodes being visited, each with the edges still to follow
  visited,
  found,      \* the cycle reported, or the empty sequence for None
  phase       \* "idle", "searching" or "done"

searchVars == <<waits, roots, path, visited, found, phase>>

Holders(w) == IF w \in DOMAIN waits THEN waits[w] ELSE {}
EdgeCount == Cardinality({e \in Waiters \X Waiters : e[2] \in Holders(e[1])})

DeadlockInit ==
  /\ waits = [w \in {} |-> {}]
  /\ roots = {} /\ path = <<>> /\ visited = {} /\ found = <<>> /\ phase = "idle"

\* An edited graph; whatever was found before is forgotten with it.
Edited(graph) ==
  /\ phase # "searching"
  /\ waits' = graph
  /\ found' = <<>> /\ visited' = {} /\ phase' = "idle"
  /\ UNCHANGED <<roots, path>>

\* add_wait_for
AddWaitFor(w, h) ==
  /\ EdgeCount < MaxEdges
  /\ Edited([x \in DOMAIN waits \cup {w} |-> IF x = w THEN Holders(w) \cup {h} ELSE waits[x]])

\* clear_wait_for
ClearWaitFor(t) == Edited([w \in DOMAIN waits \ {t} |-> waits[w] \ {t}])

\* detect_deadlock
Detect ==
  /\ phase = "idle"
  /\ phase' = "searching" /\ roots' = DOMAIN waits
  /\ UNCHANGED <<waits, path, visited, found>>

\* Fault: a node met before is left before it is looked for on the stack.
EnterUnvisited(n, stack) ==
  IF n \in visited
  THEN path' = stack /\ UNCHANGED <<visited, found, phase>>
  ELSE /\ path' = Append(stack, [node |-> n, rest |-> Holders(n)])
       /\ visited' = visited \cup {n}
       /\ UNCHANGED <<found, phase>>

\* dfs on node n, with the path above it as the caller left it.
Enter(n, stack) ==
  LET places == {i \in DOMAIN stack : stack[i].node = n}
  IN  IF places # {}
      THEN /\ found' = [k \in 1 .. Len(stack) - (CHOOSE i \in places : TRUE) + 1 |->
                          stack[(CHOOSE i \in places : TRUE) + k - 1].node]
           /\ phase' = "done" /\ path' = <<>> /\ UNCHANGED visited
      ELSE IF n \in visited
           THEN path' = stack /\ UNCHANGED <<visited, found, phase>>
           ELSE /\ path' = Append(stack, [node |-> n, rest |-> Holders(n)])
                /\ visited' = visited \cup {n}
                /\ UNCHANGED <<found, phase>>

BeginAt(n) ==
  /\ phase = "searching" /\ path = <<>> /\ n \in roots
  /\ roots' = roots \ {n}
  /\ Enter(n, path)
  /\ UNCHANGED waits

Follow(n) ==
  /\ phase = "searching" /\ path # <<>> /\ n \in Last(path).rest
  /\ Enter(n, [path EXCEPT ![Len(path)].rest = @ \ {n}])
  /\ UNCHANGED <<waits, roots>>

Backtrack ==
  /\ phase = "searching" /\ path # <<>> /\ Last(path).rest = {}
  /\ path' = Front(path)
  /\ UNCHANGED <<waits, roots, visited, found, phase>>

NoDeadlock ==
  /\ phase = "searching" /\ path = <<>> /\ roots = {}
  /\ phase' = "done"
  /\ UNCHANGED <<waits, roots, path, visited, found>>

DeadlockNext ==
  \/ \E w, h \in Waiters : AddWaitFor(w, h)
  \/ \E t \in Waiters : ClearWaitFor(t) \/ BeginAt(t) \/ Follow(t)
  \/ Detect \/ Backtrack \/ NoDeadlock

DeadlockSpec == DeadlockInit /\ [][DeadlockNext]_searchVars

(***************************************************************************)
(* detect_deadlock is right in both directions: what it returns is a cycle *)
(* of the graph, each transaction waiting for the next and the last for    *)
(* the first, and when it returns nothing there is no set of transactions  *)
(* each of which waits for one of the set.                                 *)
(***************************************************************************)
DeadlocksAreCycles ==
  phase = "done" =>
    IF found = <<>>
    THEN \A S \in (SUBSET Waiters) \ {{}} : \E w \in S : Holders(w) \cap S = {}
    ELSE \A i \in DOMAIN found : found[IF i = Len(found) THEN 1 ELSE i + 1] \in Holders(found[i])
=============================================================================
