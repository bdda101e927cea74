-------------------------------- MODULE Pools --------------------------------
(***************************************************************************)
(* The containers of src/src that hold values in places: the slab, the     *)
(* generational arena, the ring buffer and the keyed priority queue.  A    *)
(* behaviour works on one container and keeps beside it the plain value it *)
(* stands for.  Places and keys count from 1, and an absent value is the   *)
(* empty sequence.                                                         *)
(***************************************************************************)
EXTENDS Integers, Sequences, FiniteSets, SequencesExt, FiniteSetsExt

CONSTANTS
  StoredValues,           \* values stored
  Slots,            \* bound: slots of a slab
  Generations,      \* after how many frees a slot's generation wraps: 2^32
  MaxHandles,       \* bound: handles an arena gives out
  Capacities,       \* capacities asked of a ring buffer or a summary
  QueueKeys, Priorities,
  MaxRaised         \* bound: keys of a queue at a priority above an earlier one

VARIABLES
  container,   \* which
  body,        \* its fields
  model,       \* what it stands for
  agreed       \* the last answer was the model's

containerVars == <<container, body, model, agreed>>

NoPlace == 0
SmallestOf(S) == CHOOSE x \in S : \A y \in S : x <= y
LargestOf(S) == CHOOSE x \in S : \A y \in S : x >= y
Without(f, k) == [x \in DOMAIN f \ {k} |-> f[x]]
Mapped(f, k, v) == [x \in DOMAIN f \cup {k} |-> IF x = k THEN v ELSE f[x]]
ValueAt(f, k) == IF k \in DOMAIN f THEN <<f[k]>> ELSE <<>>
NoKeys == [k \in {} |-> 0]

\* A call that leaves the body at b, the model at m, and answers as it should.
Turns(b, m, ok) == body' = b /\ model' = m /\ agreed' = ok /\ UNCHANGED container

(***************************************************************************)
(* Slab: entries <<"occupied", value>> and <<"vacant", next free>>.        *)
(***************************************************************************)
SlabGet(s, k) ==
  IF k \in DOMAIN s.entries /\ s.entries[k][1] = "occupied" THEN <<s.entries[k][2]>> ELSE <<>>

SlabInsert(v) ==
  /\ container = "slab"
  /\ IF body.free # NoPlace
     THEN Turns([entries |-> [body.entries EXCEPT ![body.free] = <<"occupied", v>>],
                 free |-> body.entries[body.free][2], len |-> body.len + 1],
                Mapped(model, body.free, v), body.free \notin DOMAIN model)
     ELSE /\ Len(body.entries) < Slots
          /\ Turns([body EXCEPT !.entries = Append(@, <<"occupied", v>>), !.len = @ + 1],
                   Mapped(model, Len(body.entries) + 1, v), TRUE)

SlabRemove(k) ==
  /\ container = "slab"
  /\ IF SlabGet(body, k) = <<>> THEN Turns(body, model, k \notin DOMAIN model)
     ELSE Turns([entries |-> [body.entries EXCEPT ![k] = <<"vacant", body.free>>], free |-> k, len |-> body.len - 1],
                Without(model, k), SlabGet(body, k) = ValueAt(model, k))

EmptySlab == [entries |-> <<>>, free |-> NoPlace, len |-> 0]
SlabClear == container = "slab" /\ Turns(EmptySlab, NoKeys, TRUE)

SlabStep == (\E v \in StoredValues : SlabInsert(v)) \/ (\E k \in 1 .. Slots + 1 : SlabRemove(k)) \/ SlabClear

SlabMeans ==
  /\ \A k \in 1 .. Slots + 1 : SlabGet(body, k) = ValueAt(model, k)
  /\ body.len = Cardinality(DOMAIN model)

(***************************************************************************)
(* Arena.  The model is the set of handles given out: the slot and the     *)
(* generation in the handle, the value, and how often the slot was freed   *)
(* since; a handle is live until the first time.                           *)
(***************************************************************************)
ArenaGet(a, h) ==
  IF h.index \in DOMAIN a.slots /\ a.slots[h.index].generation = h.generation THEN a.slots[h.index].value ELSE <<>>

\* Fault: the generation stays, and only the slot's value goes.
FreedSameGeneration(slot) == [slot EXCEPT !.value = <<>>]
Freed(slot) == [generation |-> (slot.generation + 1) % Generations, value |-> <<>>]
FreedOnce(handles, indexes) == {IF h.index \in indexes THEN [h EXCEPT !.frees = @ + 1] ELSE h : h \in handles}
Minted(i, g, v) == [index |-> i, generation |-> g, value |-> v, frees |-> 0]

ArenaInsert(v) ==
  /\ container = "arena" /\ Cardinality(model) < MaxHandles
  /\ IF body.free # <<>>
     THEN LET i == Last(body.free)
          IN  Turns([slots |-> [body.slots EXCEPT ![i].value = <<v>>], free |-> Front(body.free), len |-> body.len + 1],
                    model \cup {Minted(i, body.slots[i].generation, v)}, body.slots[i].value = <<>>)
     ELSE Turns([body EXCEPT !.slots = Append(@, [generation |-> 0, value |-> <<v>>]), !.len = @ + 1],
                model \cup {Minted(Len(body.slots) + 1, 0, v)}, TRUE)

ArenaRemove(h) ==
  /\ container = "arena"
  /\ IF ArenaGet(body, h) = <<>> THEN Turns(body, model, h.frees > 0)
     ELSE Turns([slots |-> [body.slots EXCEPT ![h.index] = Freed(@)], free |-> Append(body.free, h.index),
                 len |-> body.len - 1],
                FreedOnce(model, {h.index}), h.frees % Generations = 0)

ArenaClear ==
  /\ container = "arena"
  /\ LET live == SelectSeq([i \in DOMAIN body.slots |-> i], LAMBDA i : body.slots[i].value # <<>>)
     IN  Turns([slots |-> [i \in DOMAIN body.slots |-> IF body.slots[i].value # <<>> THEN Freed(body.slots[i]) ELSE body.slots[i]],
                free |-> body.free \o live, len |-> 0],
               FreedOnce(model, ToSet(live)), TRUE)

ArenaStep == (\E v \in StoredValues : ArenaInsert(v)) \/ (container = "arena" /\ \E h \in model : ArenaRemove(h)) \/ ArenaClear

\* A dead handle may come back only when the generation has come around.
ArenaMeans ==
  /\ \A h \in model : /\ h.frees = 0 => ArenaGet(body, h) = <<h.value>>
                      /\ h.frees % Generations # 0 => ArenaGet(body, h) = <<>>
  /\ body.len = Cardinality({h \in model : h.frees = 0})

(***************************************************************************)
(* RingBuffer: places of buf count from 0.                                 *)
(***************************************************************************)
NewRing(capacity) ==
  LET c == LargestOf({capacity, 1}) IN [buf |-> [i \in 0 .. c - 1 |-> <<>>], head |-> 0, len |-> 0, capacity |-> c]
RingGet(b, i) == IF i >= b.len THEN <<>> ELSE b.buf[(b.head + i) % b.capacity]
RingPut(b, v) == [b EXCEPT !.buf[(b.head + b.len) % b.capacity] = <<v>>, !.len = @ + 1]
RingPop(b) == IF b.len = 0 THEN b ELSE [b EXCEPT !.buf[b.head] = <<>>, !.head = (@ + 1) % b.capacity, !.len = @ - 1]

RingPush(v) ==
  /\ container = "ring"
  /\ IF body.len = body.capacity THEN Turns(body, model, Len(model) = body.capacity)
     ELSE Turns(RingPut(body, v), Append(model, v), TRUE)
RingPushOverwrite(v) ==
  /\ container = "ring"
  /\ IF body.len = body.capacity
     THEN Turns(RingPut(RingPop(body), v), Append(Tail(model), v), RingGet(body, 0) = <<Head(model)>>)
     ELSE Turns(RingPut(body, v), Append(model, v), Len(model) < body.capacity)
RingPopFront ==
  /\ container = "ring"
  /\ Turns(RingPop(body), IF model = <<>> THEN <<>> ELSE Tail(model),
           RingGet(body, 0) = (IF model = <<>> THEN <<>> ELSE <<Head(model)>>))
RingClear == container = "ring" /\ Turns(NewRing(body.capacity), <<>>, TRUE)

RingStep == (\E v \in StoredValues : RingPush(v) \/ RingPushOverwrite(v)) \/ RingPopFront \/ RingClear

RingMeans ==
  /\ body.len = Len(model)
  /\ \A i \in 0 .. body.capacity : RingGet(body, i) = (IF i < Len(model) THEN <<model[i + 1]>> ELSE <<>>)
  /\ {i \in DOMAIN body.buf : body.buf[i] # <<>>} = {(body.head + i) % body.capacity : i \in 0 .. body.len - 1}

(***************************************************************************)
(* PriorityQueue: a heap of <<priority, key>> with the place of each key.  *)
(* The model has the priority each key is owed, the lowest it was given    *)
(* since it came in, and the keys in `raised`, over which the code departs *)
(* from that: a push of a key that is present is documented to take the    *)
(* lower priority (pqueue.rs:49-50) and takes the new one, a higher too.   *)
(***************************************************************************)
SwapEntries(q, a, b) ==
  [heap |-> [q.heap EXCEPT ![a] = q.heap[b], ![b] = q.heap[a]],
   pos |-> Mapped(Mapped(q.pos, q.heap[b][2], a), q.heap[a][2], b)]
RECURSIVE SiftUp(_, _)
SiftUp(q, i) ==
  IF i > 1 /\ q.heap[i][1] < q.heap[i \div 2][1] THEN SiftUp(SwapEntries(q, i, i \div 2), i \div 2) ELSE q
RECURSIVE SiftDown(_, _)
SiftDown(q, i) ==
  LET left == IF 2 * i <= Len(q.heap) /\ q.heap[2 * i][1] < q.heap[i][1] THEN 2 * i ELSE i
      low == IF 2 * i + 1 <= Len(q.heap) /\ q.heap[2 * i + 1][1] < q.heap[left][1] THEN 2 * i + 1 ELSE left
  IN  IF low = i THEN q ELSE SiftDown(SwapEntries(q, i, low), low)
SetPriority(q, k, p) == [q EXCEPT !.heap[q.pos[k]] = <<p, k>>]

\* The last entry takes place i, and the entry that was there is gone.
MovedUp(q, i) ==
  LET last == Last(q.heap)
      rest == [heap |-> Front([q.heap EXCEPT ![i] = last]), pos |-> Without(q.pos, q.heap[i][2])]
  IN  IF i = Len(q.heap) THEN rest ELSE [rest EXCEPT !.pos[last[2]] = i]
QueuePop(q) == LET rest == MovedUp(q, 1) IN IF rest.heap = <<>> THEN rest ELSE SiftDown(rest, 1)
QueueRemove(q, k) ==
  LET i == q.pos[k]
      rest == MovedUp(q, i)
  IN  IF i <= Len(rest.heap) THEN SiftDown(SiftUp(rest, i), i) ELSE rest

QueuePriority(k) == body.heap[body.pos[k]][1]

\* push
QueuePush(k, p) ==
  /\ container = "queue"
  /\ LET above == k \in DOMAIN model.owed /\ p > model.owed[k]
     IN  /\ above => Cardinality(model.raised \cup {k}) <= MaxRaised
         /\ Turns(IF k \notin DOMAIN body.pos
                  THEN SiftUp([heap |-> Append(body.heap, <<p, k>>), pos |-> Mapped(body.pos, k, Len(body.heap) + 1)],
                              Len(body.heap) + 1)
                  ELSE IF p < QueuePriority(k) THEN SiftUp(SetPriority(body, k, p), body.pos[k])
                  ELSE IF p > QueuePriority(k) THEN SiftDown(SetPriority(body, k, p), body.pos[k])
                  ELSE body,
                  IF above THEN [model EXCEPT !.raised = @ \cup {k}]
                  ELSE [owed |-> Mapped(model.owed, k, p), raised |-> model.raised \ {k}],
                  TRUE)
DecreaseKey(k, p) ==
  /\ container = "queue"
  /\ LET lower == k \in DOMAIN body.pos /\ p < QueuePriority(k)
         below == k \in DOMAIN model.owed /\ p < model.owed[k]
     IN  Turns(IF lower THEN SiftUp(SetPriority(body, k, p), body.pos[k]) ELSE body,
               IF below THEN [owed |-> Mapped(model.owed, k, p), raised |-> model.raised \ {k}] ELSE model,
               lower = below \/ k \in model.raised)
Departed(k) == [owed |-> Without(model.owed, k), raised |-> model.raised \ {k}]
QueuePopMin ==
  /\ container = "queue" /\ body.heap # <<>>
  /\ LET top == body.heap[1]
     IN  Turns(QueuePop(body), Departed(top[2]),
               /\ top[2] \in DOMAIN model.owed
               /\ top[2] \notin model.raised => model.owed[top[2]] = top[1]
               /\ \A k \in DOMAIN model.owed \ model.raised : top[1] <= model.owed[k])
QueueRemoveKey(k) ==
  /\ container = "queue" /\ k \in DOMAIN body.pos
  /\ Turns(QueueRemove(body, k), Departed(k),
           k \in model.raised \/ <<QueuePriority(k)>> = ValueAt(model.owed, k))

QueueStep ==
  \/ \E k \in QueueKeys, p \in Priorities : QueuePush(k, p) \/ DecreaseKey(k, p)
  \/ \E k \in QueueKeys : QueueRemoveKey(k)
  \/ QueuePopMin

\* into_sorted
RECURSIVE IntoSorted(_)
IntoSorted(q) == IF q.heap = <<>> THEN <<>> ELSE <<q.heap[1]>> \o IntoSorted(QueuePop(q))
\* A raised key keeps its place in the order of the heap, and no more is said of it.
QueueMeans ==
  LET drained == IntoSorted(body)
      keys == DOMAIN model.owed
  IN  /\ {<<body.heap[i][2], body.heap[i][1]>> : i \in {i \in DOMAIN body.heap : body.heap[i][2] \notin model.raised}}
           = {<<k, model.owed[k]>> : k \in keys \ model.raised}
      /\ DOMAIN body.pos = keys /\ \A k \in keys : body.heap[body.pos[k]][2] = k
      /\ Len(drained) = Cardinality(keys)
      /\ \A i, j \in DOMAIN drained : i < j => drained[i][1] <= drained[j][1] /\ drained[i][2] # drained[j][2]
=============================================================================
