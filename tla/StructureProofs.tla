--------------------------- MODULE StructureProofs ---------------------------
(***************************************************************************)
(* Proofs about three structures that stand beside the page store, each    *)
(* for every size: collection never changes what a live snapshot reads,    *)
(* the search for deadlocks is exact, and the skip list is a map.  No      *)
(* definition of one is used in the proofs of the others.                  *)
(***************************************************************************)
EXTENDS SnapshotStore, DeadlockSearch, SkipList, OrderLemmas, SequenceTheorems

-----------------------------------------------------------------------------
(* Snapshots.                                                              *)

\* The stamps reads are made at.
ReadStamps == LiveStamps \cup {current}

\* Nothing is stamped, or held, ahead of the clock, and a page has one version
\* of a stamp.
Stamped ==
  /\ \A s \in LiveStamps : s <= current
  /\ \A p \in Pages :
       /\ versions[p] \subseteq written[p]
       /\ \A v \in written[p] : v.version <= current
       /\ \A v, w \in written[p] : v.version = w.version => v = w

\* A version that was collected had been superseded by one that is still there
\* and that every reader can see.
Superseded ==
  \A p \in Pages : \A v \in written[p] \ versions[p] :
    \E w \in versions[p] : v.version < w.version /\ \A s \in ReadStamps : w.version <= s

SnapshotInv == SnapshotTypeOK /\ Stamped /\ Superseded

\* The watermark is at or before every stamp a read is made at.
LEMMA WatermarkIsOldest ==
  ASSUME SnapshotInv
  PROVE  OldestSnapshot \in Stamps /\ \A s \in ReadStamps : OldestSnapshot <= s
<1> USE SnapshotAssumption DEF Stamps
<1>1. current \in Stamps /\ LiveStamps \subseteq Stamps /\ \A s \in LiveStamps : s <= current
  BY DEF SnapshotInv, SnapshotTypeOK, Stamped, LiveStamps
<1>2. CASE LiveStamps = {}
  BY <1>1, <1>2 DEF OldestSnapshot, ReadStamps
<1>3. CASE LiveStamps # {}
  <2>1. Min(LiveStamps) \in LiveStamps /\ \A s \in LiveStamps : Min(LiveStamps) <= s
    <3>1. LiveStamps \subseteq Nat
      BY <1>1
    <3> QED BY <1>3, <3>1, MinIsIn
  <2>2. OldestSnapshot = Min(LiveStamps)
    BY <1>3 DEF OldestSnapshot
  <2> HIDE DEF Stamps
  <2>3. current \in Int /\ \A s \in LiveStamps : s \in Int
    BY <1>1 DEF Stamps
  <2> QED BY <1>1, <2>1, <2>2, <2>3 DEF ReadStamps
<1> QED BY <1>2, <1>3

\* Of the versions at or before a stamp, if there are any, one is the newest.
LEMMA NewestVersion ==
  ASSUME NEW vs \in SUBSET Versions, NEW stamp \in Stamps,
         NEW v \in vs, v.version <= stamp
  PROVE  \E w \in vs : /\ w.version <= stamp /\ v.version <= w.version
                       /\ \A u \in vs : u.version <= stamp => u.version <= w.version
<1> USE SnapshotAssumption DEF Stamps
<1> DEFINE ages == {stamp - u.version : u \in {x \in vs : x.version <= stamp}}
<1>1. \A u \in vs : u.version \in Nat
  BY DEF Versions
<1>2. ages \subseteq Nat /\ ages # {}
  <2>1. \A u \in vs : u.version <= stamp => stamp - u.version \in Nat
    BY <1>1
  <2>2. stamp - v.version \in ages
    OBVIOUS
  <2> QED BY <2>1, <2>2
<1>3. PICK least \in ages : \A a \in ages : least <= a
  <2> HIDE DEF ages
  <2> QED BY <1>2, MinIsIn
<1>4. PICK w \in vs : w.version <= stamp /\ least = stamp - w.version
  BY <1>3
<1>5. \A u \in vs : u.version <= stamp => u.version <= w.version
  <2> SUFFICES ASSUME NEW u \in vs, u.version <= stamp
               PROVE  u.version <= w.version
    OBVIOUS
  <2>1. least <= stamp - u.version
    BY <1>3
  <2> QED BY <1>1, <1>4, <2>1
<1> QED BY <1>4, <1>5

LEMMA CollectKeepsSuperseded ==
  ASSUME SnapshotInv, Collect
  PROVE  Superseded'
<1> DEFINE mark == OldestSnapshot
<1>1. mark \in Stamps /\ \A s \in ReadStamps : mark <= s
  BY WatermarkIsOldest
<1>2. /\ versions' = [p \in Pages |-> RetainedAt(versions[p], mark)]
      /\ written' = written /\ ReadStamps' = ReadStamps
  BY DEF Collect, ReadStamps, LiveStamps
<1> HIDE DEF mark
<1> SUFFICES ASSUME NEW p \in Pages, NEW v \in written[p], v \notin versions'[p]
             PROVE  \E w \in versions'[p] :
                      v.version < w.version /\ \A s \in ReadStamps : w.version <= s
  BY <1>2 DEF Superseded
<1>3. /\ versions[p] \in SUBSET Versions /\ v \in Versions
      /\ ReadStamps \subseteq Stamps
  BY DEF SnapshotInv, SnapshotTypeOK, ReadStamps, LiveStamps
<1>4. \A u \in Versions : u.version \in Int
  BY SnapshotAssumption DEF Versions, Stamps
<1>5. Stamps \subseteq Int
  BY SnapshotAssumption DEF Stamps
<1>6. PICK w \in versions[p] : v.version < w.version /\ w.version <= mark
  <2>1. CASE v \in versions[p]
    <3>1. v \notin RetainedAt(versions[p], mark)
      BY <1>2
    <3>2. PICK w \in versions[p] : w.version <= mark /\ ~(w.version <= v.version)
      BY <2>1, <3>1 DEF RetainedAt
    <3>3. w.version \in Int /\ v.version \in Int
      BY <1>3, <1>4
    <3>4. v.version < w.version
      BY <3>2, <3>3
    <3> QED BY <3>2, <3>4
  <2>2. CASE v \notin versions[p]
    <3>1. PICK w \in versions[p] :
            v.version < w.version /\ \A s \in ReadStamps : w.version <= s
      BY <2>2 DEF SnapshotInv, Superseded
    <3>2. mark \in ReadStamps
      <4>1. mark = current \/ mark \in LiveStamps
        <5>1. CASE LiveStamps = {}
          BY <5>1 DEF mark, OldestSnapshot
        <5>2. CASE LiveStamps # {}
          <6>1. LiveStamps \subseteq Nat
            BY SnapshotAssumption DEF LiveStamps, Stamps
          <6>2. Min(LiveStamps) \in LiveStamps
            BY <5>2, <6>1, MinIsIn
          <6> QED BY <5>2, <6>2 DEF mark, OldestSnapshot
        <5> QED BY <5>1, <5>2
      <4> QED BY <4>1 DEF ReadStamps
    <3> QED BY <3>1, <3>2
  <2> QED BY <2>1, <2>2
<1>7. PICK x \in versions[p] :
        /\ x.version <= mark /\ w.version <= x.version
        /\ \A u \in versions[p] : u.version <= mark => u.version <= x.version
  BY <1>1, <1>3, <1>6, NewestVersion
<1>8. x \in versions'[p]
  BY <1>2, <1>7 DEF RetainedAt
<1>9. v.version < x.version
  <2>1. v.version \in Int /\ w.version \in Int /\ x.version \in Int
    BY <1>3, <1>4
  <2> QED BY <1>6, <1>7, <2>1
<1>10. \A s \in ReadStamps : x.version <= s
  <2> SUFFICES ASSUME NEW s \in ReadStamps PROVE x.version <= s
    OBVIOUS
  <2>1. x.version <= mark /\ mark <= s
    BY <1>1, <1>7
  <2>2. x.version \in Int /\ mark \in Int /\ s \in Int
    BY <1>1, <1>3, <1>4, <1>5
  <2> QED BY <2>1, <2>2
<1> QED BY <1>8, <1>9, <1>10

LEMMA SnapshotInductive ==
  /\ SnapInit => SnapshotInv
  /\ SnapshotInv /\ [SnapNext]_snapVars => SnapshotInv'
<1> USE SnapshotAssumption
<1>1. SnapInit => SnapshotInv
  BY DEF SnapInit, SnapshotInv, SnapshotTypeOK, Stamped, Superseded, LiveStamps, Stamps
<1>2. ASSUME SnapshotInv, [SnapNext]_snapVars PROVE SnapshotInv'
  <2> USE <1>2
  <2>0. /\ current \in Int /\ Stamps \subseteq Int
        /\ \A u \in Versions : u.version \in Int
    BY DEF SnapshotInv, SnapshotTypeOK, Stamps, Versions
  <2>1. ASSUME NEW p \in Pages, NEW d \in Data, Write(p, d)
        PROVE  SnapshotInv'
    <3> DEFINE v == [version |-> current + 1, data |-> d]
    <3>1. /\ current' = current + 1 /\ refs' = refs /\ current + 1 \in Stamps
          /\ versions' = [versions EXCEPT ![p] = @ \cup {v}]
          /\ written' = [written EXCEPT ![p] = @ \cup {v}]
      BY <2>1 DEF Write, SnapshotInv, SnapshotTypeOK, Stamps
    <3>2. v \in Versions /\ v.version = current + 1
      BY <3>1 DEF Versions
    <3> HIDE DEF v
    <3>3. SnapshotTypeOK'
      BY <3>1, <3>2 DEF SnapshotInv, SnapshotTypeOK
    <3>4. \A q \in Pages :
            /\ versions[q] \in SUBSET Versions /\ written[q] \in SUBSET Versions
            /\ versions'[q] = versions[q] \cup (IF q = p THEN {v} ELSE {})
            /\ written'[q] = written[q] \cup (IF q = p THEN {v} ELSE {})
      BY <3>1 DEF SnapshotInv, SnapshotTypeOK
    <3>5. Stamped'
      <4>1. \A s \in LiveStamps' : s <= current'
        BY <2>0, <3>1 DEF SnapshotInv, Stamped, LiveStamps
      <4>2. ASSUME NEW q \in Pages PROVE versions'[q] \subseteq written'[q]
        BY <3>4 DEF SnapshotInv, Stamped
      <4>3. ASSUME NEW q \in Pages, NEW u \in written'[q] PROVE u.version <= current'
        <5>1. u \in written[q] \/ u = v
          BY <3>4
        <5>2. u \in written[q] => u.version <= current /\ u.version \in Int
          BY <2>0, <3>4 DEF SnapshotInv, Stamped
        <5> QED BY <2>0, <3>1, <3>2, <5>1, <5>2
      <4>4. ASSUME NEW q \in Pages, NEW u \in written'[q], NEW w \in written'[q],
                   u.version = w.version
            PROVE  u = w
        <5>1. (u \in written[q] \/ u = v) /\ (w \in written[q] \/ w = v)
          BY <3>4
        <5>2. \A x \in written[q] : x.version # v.version
          BY <2>0, <3>2, <3>4 DEF SnapshotInv, Stamped
        <5> QED BY <4>4, <5>1, <5>2 DEF SnapshotInv, Stamped
      <4> QED BY <4>1, <4>2, <4>3, <4>4 DEF Stamped
    <3>6. Superseded'
      <4> SUFFICES ASSUME NEW q \in Pages, NEW u \in written'[q], u \notin versions'[q]
                   PROVE  \E w \in versions'[q] :
                            /\ u.version < w.version
                            /\ \A s \in ReadStamps' : w.version <= s
        BY DEF Superseded
      <4>1. u \in written[q] \ versions[q]
        BY <3>4
      <4>2. PICK w \in versions[q] :
              u.version < w.version /\ \A s \in ReadStamps : w.version <= s
        BY <4>1 DEF SnapshotInv, Superseded
      <4>3. \A s \in ReadStamps' : s \in ReadStamps \/ s = current + 1
        BY <3>1 DEF ReadStamps, LiveStamps
      <4>4. w.version \in Int /\ w.version <= current
        BY <2>0, <3>4, <4>2 DEF ReadStamps
      <4>5. \A s \in ReadStamps' : w.version <= s
        BY <2>0, <4>2, <4>3, <4>4
      <4> QED BY <3>4, <4>2, <4>5
    <3> QED BY <3>3, <3>5, <3>6 DEF SnapshotInv
  <2>2. CASE TakeSnapshot
    <3>1. /\ refs' = [refs EXCEPT ![current] = @ + 1] /\ refs[current] < MaxRefs
          /\ versions' = versions /\ current' = current /\ written' = written
          /\ refs \in [Stamps -> 0 .. MaxRefs] /\ current \in Stamps
      BY <2>2 DEF TakeSnapshot, SnapshotInv, SnapshotTypeOK
    <3>2. refs' \in [Stamps -> 0 .. MaxRefs]
      BY <3>1
    <3>3. LiveStamps' \subseteq LiveStamps \cup {current} /\ ReadStamps' \subseteq ReadStamps
      BY <3>1 DEF LiveStamps, ReadStamps
    <3>4. \A s \in LiveStamps' : s <= current
      BY <2>0, <3>3 DEF SnapshotInv, Stamped
    <3> QED BY <3>1, <3>2, <3>3, <3>4 DEF SnapshotInv, SnapshotTypeOK, Stamped, Superseded
  <2>3. ASSUME NEW s \in Stamps, Release(s)
        PROVE  SnapshotInv'
    <3>1. /\ refs' = [refs EXCEPT ![s] = @ - 1] /\ refs[s] > 0
          /\ versions' = versions /\ current' = current /\ written' = written
          /\ refs \in [Stamps -> 0 .. MaxRefs]
      BY <2>3 DEF Release, SnapshotInv, SnapshotTypeOK
    <3>2. refs' \in [Stamps -> 0 .. MaxRefs]
      BY <3>1
    <3>3. LiveStamps' \subseteq LiveStamps /\ ReadStamps' \subseteq ReadStamps
      BY <3>1 DEF LiveStamps, ReadStamps
    <3> QED BY <3>1, <3>2, <3>3 DEF SnapshotInv, SnapshotTypeOK, Stamped, Superseded
  <2>4. CASE Collect
    <3>1. Superseded'
      BY <2>4, CollectKeepsSuperseded
    <3>2. /\ written' = written /\ current' = current /\ refs' = refs
          /\ LiveStamps' = LiveStamps
          /\ versions' \in [Pages -> SUBSET Versions]
          /\ \A p \in Pages : versions'[p] \subseteq versions[p]
      BY <2>4 DEF Collect, RetainedAt, LiveStamps, SnapshotInv, SnapshotTypeOK
    <3> QED BY <3>1, <3>2 DEF SnapshotInv, SnapshotTypeOK, Stamped
  <2>5. CASE UNCHANGED snapVars
    BY <2>5 DEF snapVars, SnapshotInv, SnapshotTypeOK, Stamped, Superseded, ReadStamps,
                LiveStamps
  <2> QED BY <2>1, <2>2, <2>3, <2>4, <2>5 DEF SnapNext
<1> QED BY <1>1, <1>2

\* The newest of what is left is the newest of what there ever was, at every
\* stamp a read is made at.
LEMMA ReadsFromInvariant ==
  SnapshotInv => ReadsAsOf
<1> SUFFICES ASSUME SnapshotInv, NEW p \in Pages, NEW s \in ReadStamps
             PROVE  SeenAt(versions[p], s) = SeenAt(written[p], s)
  BY DEF ReadsAsOf, ReadStamps
<1>1. /\ versions[p] \subseteq written[p] /\ written[p] \subseteq Versions
      /\ \A u \in Versions : u.version \in Int
      /\ s \in Int
  BY SnapshotAssumption
     DEF SnapshotInv, SnapshotTypeOK, Stamped, Versions, Stamps, ReadStamps, LiveStamps
<1>2. \A v \in written[p] \ versions[p] :
        \E w \in versions[p] : v.version < w.version /\ w.version <= s
  BY DEF SnapshotInv, Superseded
<1>3. ASSUME NEW v \in SeenAt(versions[p], s) PROVE v \in SeenAt(written[p], s)
  <2>1. /\ v \in versions[p] /\ v.version <= s
        /\ \A w \in versions[p] : w.version <= s => w.version <= v.version
    BY <1>3 DEF SeenAt
  <2>2. ASSUME NEW w \in written[p], w.version <= s PROVE w.version <= v.version
    <3>1. CASE w \in versions[p]
      BY <2>1, <2>2, <3>1
    <3>2. CASE w \notin versions[p]
      <4>1. PICK x \in versions[p] : w.version < x.version /\ x.version <= s
        BY <1>2, <3>2
      <4>2. x.version <= v.version
        BY <2>1, <4>1
      <4>3. w.version \in Int /\ x.version \in Int /\ v.version \in Int
        BY <1>1, <2>1
      <4> QED BY <4>1, <4>2, <4>3
    <3> QED BY <3>1, <3>2
  <2> QED BY <1>1, <2>1, <2>2 DEF SeenAt
<1>4. ASSUME NEW v \in SeenAt(written[p], s) PROVE v \in SeenAt(versions[p], s)
  <2>1. /\ v \in written[p] /\ v.version <= s
        /\ \A w \in written[p] : w.version <= s => w.version <= v.version
    BY <1>4 DEF SeenAt
  <2>2. v \in versions[p]
    <3> SUFFICES ASSUME v \notin versions[p] PROVE FALSE
      OBVIOUS
    <3>1. PICK w \in versions[p] : v.version < w.version /\ w.version <= s
      BY <1>2, <2>1
    <3>2. w.version <= v.version
      BY <1>1, <2>1, <3>1
    <3>3. w.version \in Int /\ v.version \in Int
      BY <1>1, <2>1
    <3> QED BY <3>1, <3>2, <3>3
  <2> QED BY <1>1, <2>1, <2>2 DEF SeenAt
<1> QED BY <1>3, <1>4

\* What a live snapshot reads never changes, whatever is written, released or
\* collected while it lives.
THEOREM SnapshotReads == SnapSpec => []ReadsAsOf
BY SnapshotInductive, ReadsFromInvariant, PTL DEF SnapSpec

-----------------------------------------------------------------------------
(* The search for deadlocks: what it reports is a deadlock, and what it      *)
(* does not report is none.                                                *)

\* A node on the stack, with the edges still to follow.
Visiting == [node : Waiters, rest : SUBSET Waiters]

SearchTypeOK ==
  /\ DOMAIN waits \subseteq Waiters
  /\ waits \in [DOMAIN waits -> SUBSET Waiters]
  /\ roots \subseteq Waiters
  /\ path \in Seq(Visiting)
  /\ visited \subseteq Waiters
  /\ found \in Seq(Waiters)
  /\ phase \in {"idle", "searching", "done"}

\* The nodes of stack p, and the nodes of v the search is through with.
NodesOf(p) == {p[i].node : i \in 1 .. Len(p)}
Finished(p, v) == v \ NodesOf(p)

\* Each node of a stack was visited, is on it once, and waits for the next.
Linked(p, v) ==
  /\ NodesOf(p) \subseteq v
  /\ \A i, j \in 1 .. Len(p) : p[i].node = p[j].node => i = j
  /\ \A i \in 1 .. Len(p) : p[i].rest \subseteq Holders(p[i].node)
  /\ \A i \in 1 .. Len(p) : i < Len(p) => p[i + 1].node \in Holders(p[i].node)

\* An edge that was followed leads to a finished node, or to the next on the
\* stack; of the node on top it may also lead to one of `entering`.
Explored(p, v, entering) ==
  \A i \in 1 .. Len(p) : \A h \in Holders(p[i].node) \ p[i].rest :
    \/ h \in Finished(p, v)
    \/ i < Len(p) /\ h = p[i + 1].node
    \/ i = Len(p) /\ h \in entering

\* In a set of transactions one waits for none of the set.
Acyclic(S) == \E w \in S : Holders(w) \cap S = {}

\* Finished nodes wait for finished nodes only, and no deadlock is among them.
NoCycleIn(F) ==
  /\ \A w \in F : Holders(w) \subseteq F
  /\ \A S \in (SUBSET F) \ {{}} : Acyclic(S)

FoundIsCycle ==
  \A i \in 1 .. Len(found) :
    found[IF i = Len(found) THEN 1 ELSE i + 1] \in Holders(found[i])

SearchSound ==
  /\ phase # "searching" => path = <<>>
  /\ phase # "done" => found = <<>>
  /\ phase = "idle" => visited = {}
  /\ phase # "idle" /\ found = <<>> =>
       /\ Linked(path, visited) /\ Explored(path, visited, {})
       /\ NoCycleIn(Finished(path, visited))
       /\ DOMAIN waits \subseteq visited \cup roots
  /\ phase = "done" /\ found = <<>> => DOMAIN waits \subseteq visited
  /\ FoundIsCycle

SearchInv == SearchTypeOK /\ SearchSound

\* Transactions wait for transactions.
LEMMA HoldersType ==
  ASSUME SearchTypeOK, NEW w
  PROVE  Holders(w) \subseteq Waiters
BY DEF SearchTypeOK, Holders

\* A node that waits for finished nodes only can be finished.
LEMMA FinishOne ==
  ASSUME NEW F, NoCycleIn(F), NEW n, n \notin F, Holders(n) \subseteq F
  PROVE  NoCycleIn(F \cup {n})
<1>1. \A w \in F \cup {n} : Holders(w) \subseteq F \cup {n}
  BY DEF NoCycleIn
<1>2. ASSUME NEW S \in (SUBSET (F \cup {n})) \ {{}}
      PROVE  Acyclic(S)
  <2>1. CASE S \cap F = {}
    <3>1. S \subseteq F \cup {n} /\ S # {}
      OBVIOUS
    <3>2. S = {n}
      BY <2>1, <3>1, Zenon
    <3>3. Holders(n) \cap S = {}
      BY <3>2
    <3> QED BY <3>2, <3>3 DEF Acyclic
  <2>2. CASE S \cap F # {}
    <3>1. PICK w \in S \cap F : Holders(w) \cap (S \cap F) = {}
      BY <2>2 DEF NoCycleIn, Acyclic
    <3>2. Holders(w) \subseteq F
      BY <3>1 DEF NoCycleIn
    <3> QED BY <3>1, <3>2 DEF Acyclic
  <2> QED BY <2>1, <2>2
<1> QED BY <1>1, <1>2 DEF NoCycleIn

\* The part of a stack from a node on is a cycle when the top waits for the node.
LEMMA TopOfStackIsCycle ==
  ASSUME NEW p \in Seq(Visiting), NEW v, Linked(p, v), NEW k \in 1 .. Len(p),
         p[k].node \in Holders(p[Len(p)].node),
         NEW m \in Nat, m = Len(p) - k + 1,
         NEW c \in [1 .. m -> Waiters], \A j \in 1 .. m : c[j] = p[k + j - 1].node
  PROVE  /\ c \in Seq(Waiters) /\ c # <<>>
         /\ \A i \in 1 .. Len(c) : c[IF i = Len(c) THEN 1 ELSE i + 1] \in Holders(c[i])
<1>1. Len(p) \in Nat /\ m >= 1
  OBVIOUS
<1>2. c \in Seq(Waiters)
  BY SeqDef
<1>5. Len(c) = m
  <2>1. DOMAIN c = 1 .. m /\ DOMAIN c = 1 .. Len(c) /\ Len(c) \in Nat
    BY <1>2, LenProperties
  <2> QED BY <1>1, <2>1
<1>6. ASSUME NEW i \in 1 .. m
      PROVE  c[IF i = m THEN 1 ELSE i + 1] \in Holders(c[i])
  <2>1. c[i] = p[k + i - 1].node
    BY <1>6
  <2>2. CASE i = m
    <3>1. c[1] = p[k].node /\ c[i] = p[Len(p)].node
      BY <1>1, <2>1, <2>2
    <3> QED BY <2>2, <3>1
  <2>3. CASE i # m
    <3>1. i + 1 \in 1 .. m /\ k + i - 1 \in 1 .. Len(p) /\ k + i - 1 < Len(p)
      BY <1>1, <2>3
    <3>2. c[i + 1] = p[k + i].node
      BY <3>1
    <3>3. p[(k + i - 1) + 1].node \in Holders(p[k + i - 1].node)
      BY <3>1 DEF Linked
    <3>4. (k + i - 1) + 1 = k + i
      OBVIOUS
    <3> QED BY <2>1, <2>3, <3>2, <3>3, <3>4
  <2> QED BY <2>2, <2>3
<1>7. c # <<>>
  BY <1>1, <1>5, EmptySeq
<1> QED BY <1>2, <1>5, <1>6, <1>7

\* What the search knows of a stack whose top is about to follow an edge to n.
Entering(n, p) ==
  /\ p \in Seq(Visiting) /\ n \in Waiters
  /\ Linked(p, visited) /\ Explored(p, visited, {n})
  /\ p # <<>> => n \in Holders(p[Len(p)].node)
  /\ NoCycleIn(Finished(p, visited))

\* Meeting n on the stack reports the cycle it closes.
LEMMA MeetOnPath ==
  ASSUME SearchTypeOK, NEW n, NEW p, Entering(n, p), n \in NodesOf(p), Enter(n, p)
  PROVE  /\ path' = <<>> /\ phase' = "done" /\ visited' = visited
         /\ found' \in Seq(Waiters) /\ found' # <<>>
         /\ \A i \in 1 .. Len(found') :
              found'[IF i = Len(found') THEN 1 ELSE i + 1] \in Holders(found'[i])
<1> DEFINE places == {i \in DOMAIN p : p[i].node = n}
           k == CHOOSE i \in places : TRUE
<1>1. p \in Seq(Visiting) /\ DOMAIN p = 1 .. Len(p) /\ Len(p) \in Nat
  BY DEF Entering
<1>2. places # {}
  BY <1>1 DEF NodesOf
<1>3. k \in 1 .. Len(p) /\ p[k].node = n
  BY <1>1, <1>2
<1>4. found' = [j \in 1 .. Len(p) - k + 1 |-> p[k + j - 1].node]
      /\ phase' = "done" /\ path' = <<>> /\ visited' = visited
  BY <1>2 DEF Enter
<1>5. Linked(p, visited) /\ n \in Holders(p[Len(p)].node)
  BY <1>1, <1>3 DEF Entering
<1> HIDE DEF k
<1>6. \A j \in 1 .. Len(p) - k + 1 : k + j - 1 \in 1 .. Len(p)
  BY <1>1, <1>3
<1>7. \A i \in 1 .. Len(p) : p[i].node \in Waiters
  <2> TAKE i \in 1 .. Len(p)
  <2>1. p[i] \in Visiting
    BY <1>1, ElementOfSeq
  <2> QED BY <2>1 DEF Visiting
<1>8. found' \in [1 .. Len(p) - k + 1 -> Waiters]
  BY <1>4, <1>6, <1>7
<1>9. \A j \in 1 .. Len(p) - k + 1 : found'[j] = p[k + j - 1].node
  BY <1>4
<1>10. Len(p) - k + 1 \in Nat
  BY <1>1, <1>3
<1>11. PICK c : c = found'
  OBVIOUS
<1>12. /\ c \in Seq(Waiters) /\ c # <<>>
       /\ \A i \in 1 .. Len(c) : c[IF i = Len(c) THEN 1 ELSE i + 1] \in Holders(c[i])
  BY <1>1, <1>3, <1>5, <1>8, <1>9, <1>10, <1>11, TopOfStackIsCycle
<1> QED BY <1>4, <1>11, <1>12

\* Meeting a finished node leaves the stack as it is, with one edge fewer.
LEMMA MeetFinished ==
  ASSUME NEW n, NEW p, Entering(n, p), n \notin NodesOf(p), n \in visited, Enter(n, p)
  PROVE  /\ path' = p /\ UNCHANGED <<visited, found, phase>>
         /\ Explored(p, visited, {})
<1>1. DOMAIN p = 1 .. Len(p)
  BY DEF Entering
<1>2. {i \in DOMAIN p : p[i].node = n} = {}
  BY <1>1 DEF NodesOf
<1>3. path' = p /\ UNCHANGED <<visited, found, phase>>
  BY <1>2 DEF Enter
<1>4. n \in Finished(p, visited)
  BY DEF Finished
<1> QED BY <1>3, <1>4 DEF Entering, Explored

\* A node met for the first time is put on the stack.
LEMMA MeetNew ==
  ASSUME SearchTypeOK, NEW n, NEW p, Entering(n, p), n \notin visited, Enter(n, p)
  PROVE  /\ path' \in Seq(Visiting) /\ visited' = visited \cup {n}
         /\ UNCHANGED <<found, phase>>
         /\ Linked(path', visited') /\ Explored(path', visited', {})
         /\ Finished(path', visited') = Finished(p, visited)
<1> DEFINE top == [node |-> n, rest |-> Holders(n)]
<1>1. p \in Seq(Visiting) /\ DOMAIN p = 1 .. Len(p) /\ Len(p) \in Nat /\ n \in Waiters
  BY DEF Entering
<1>2. NodesOf(p) \subseteq visited /\ n \notin NodesOf(p)
  BY DEF Entering, Linked
<1>3. {i \in DOMAIN p : p[i].node = n} = {}
  BY <1>1, <1>2 DEF NodesOf
<1>4. path' = Append(p, top) /\ visited' = visited \cup {n} /\ UNCHANGED <<found, phase>>
  BY <1>2, <1>3 DEF Enter
<1>5. top \in Visiting
  BY <1>1, HoldersType DEF Visiting
<1> DEFINE q == Append(p, top)
<1>6. /\ q \in Seq(Visiting) /\ Len(q) = Len(p) + 1 /\ q[Len(p) + 1] = top
      /\ \A i \in 1 .. Len(p) : q[i] = p[i]
  BY <1>1, <1>5, AppendProperties
<1>7. top.node = n /\ top.rest = Holders(n)
  OBVIOUS
<1> HIDE DEF top, q
<1>8. NodesOf(q) = NodesOf(p) \cup {n}
  BY <1>1, <1>6, <1>7 DEF NodesOf
<1>9. Finished(q, visited \cup {n}) = Finished(p, visited)
  BY <1>2, <1>8 DEF Finished
<1>10. Linked(q, visited \cup {n})
  <2>1. NodesOf(q) \subseteq visited \cup {n}
    BY <1>2, <1>8
  <2>2. \A i \in 1 .. Len(p) : q[i].node \in NodesOf(p) /\ q[i].node # n
    BY <1>2, <1>6 DEF NodesOf
  <2>3. \A i, j \in 1 .. Len(q) : q[i].node = q[j].node => i = j
    BY <1>1, <1>6, <1>7, <2>2 DEF Entering, Linked
  <2>4. \A i \in 1 .. Len(q) : q[i].rest \subseteq Holders(q[i].node)
    BY <1>1, <1>6, <1>7 DEF Entering, Linked
  <2>5. ASSUME NEW i \in 1 .. Len(q), i < Len(q)
        PROVE  q[i + 1].node \in Holders(q[i].node)
    <3>1. i \in 1 .. Len(p) /\ q[i] = p[i]
      BY <1>1, <1>6, <2>5
    <3>2. CASE i = Len(p)
      <4>1. p # <<>>
        BY <3>1, <3>2
      <4> QED BY <1>6, <1>7, <3>1, <3>2, <4>1 DEF Entering
    <3>3. CASE i # Len(p)
      <4>1. i < Len(p) /\ i + 1 \in 1 .. Len(p)
        BY ONLY <1>1, <3>1, <3>3
      <4>3. q[i + 1] = p[i + 1]
        BY <1>6, <4>1
      <4>2. p[i + 1].node \in Holders(p[i].node)
        BY <3>1, <4>1 DEF Entering, Linked
      <4> QED BY <3>1, <4>2, <4>3
    <3> QED BY <3>2, <3>3
  <2> QED BY <2>1, <2>3, <2>4, <2>5 DEF Linked
<1>11. Explored(q, visited \cup {n}, {})
  <2> SUFFICES ASSUME NEW i \in 1 .. Len(q), NEW h \in Holders(q[i].node) \ q[i].rest
               PROVE  h \in Finished(p, visited) \/ (i < Len(q) /\ h = q[i + 1].node)
    BY <1>9 DEF Explored
  <2>1. CASE i = Len(q)
    BY <1>6, <1>7, <2>1
  <2>2. CASE i # Len(q)
    <3>1. i \in 1 .. Len(p) /\ q[i] = p[i] /\ i < Len(q)
      BY <1>1, <1>6, <2>2
    <3>2. \/ h \in Finished(p, visited)
          \/ i < Len(p) /\ h = p[i + 1].node
          \/ i = Len(p) /\ h = n
      BY <3>1 DEF Entering, Explored
    <3>3. i < Len(p) => q[i + 1] = p[i + 1]
      BY <1>1, <1>6, <3>1
    <3> QED BY <1>6, <1>7, <3>1, <3>2, <3>3
  <2> QED BY <2>1, <2>2
<1>12. path' = q
  BY <1>4 DEF q
<1> QED BY <1>4, <1>6, <1>9, <1>10, <1>11, <1>12

\* dfs on a node keeps the invariant.
LEMMA EnterKeeps ==
  ASSUME SearchInv, phase = "searching", NEW n, NEW p, Entering(n, p), Enter(n, p),
         waits' = waits, roots' \subseteq Waiters,
         DOMAIN waits \subseteq visited \cup roots' \cup {n}
  PROVE  SearchInv'
<1>1. SearchTypeOK /\ found = <<>>
  BY DEF SearchInv, SearchSound
<1>2. p \in Seq(Visiting) /\ n \in Waiters
  BY DEF Entering
<1> USE <1>1, <1>2
<1>3. \A w : Holders(w)' = Holders(w)
  BY DEF Holders
<1>4. CASE n \in NodesOf(p)
  <2>1. /\ path' = <<>> /\ phase' = "done" /\ visited' = visited
        /\ found' \in Seq(Waiters) /\ found' # <<>>
        /\ \A i \in 1 .. Len(found') :
             found'[IF i = Len(found') THEN 1 ELSE i + 1] \in Holders(found'[i])
    BY <1>4, MeetOnPath
  <2>2. SearchTypeOK'
    BY <2>1 DEF SearchTypeOK
  <2>3. FoundIsCycle'
    BY <1>3, <2>1 DEF FoundIsCycle
  <2> QED BY <2>1, <2>2, <2>3 DEF SearchInv, SearchSound
<1>5. CASE n \notin NodesOf(p) /\ n \in visited
  <2>1. path' = p /\ UNCHANGED <<visited, found, phase>> /\ Explored(p, visited, {})
    BY <1>5, MeetFinished
  <2>2. SearchTypeOK'
    BY <2>1 DEF SearchTypeOK
  <2>3. Linked(path, visited)' /\ Explored(path, visited, {})'
    BY <1>3, <2>1 DEF Entering, Linked, Explored, NodesOf, Finished
  <2>4. NoCycleIn(Finished(path, visited))'
    BY <1>3, <2>1 DEF Entering, NoCycleIn, Acyclic, Finished, NodesOf
  <2>5. (DOMAIN waits \subseteq visited \cup roots)'
    BY <1>5, <2>1
  <2>6. FoundIsCycle'
    BY <2>1 DEF FoundIsCycle
  <2> QED BY <2>1, <2>2, <2>3, <2>4, <2>5, <2>6 DEF SearchInv, SearchSound
<1>6. CASE n \notin visited
  <2>1. /\ path' \in Seq(Visiting) /\ visited' = visited \cup {n}
        /\ UNCHANGED <<found, phase>>
        /\ Linked(path', visited') /\ Explored(path', visited', {})
        /\ Finished(path', visited') = Finished(p, visited)
    BY <1>6, MeetNew
  <2>2. SearchTypeOK'
    BY <2>1 DEF SearchTypeOK
  <2>3. Linked(path, visited)' /\ Explored(path, visited, {})'
    BY <1>3, <2>1 DEF Linked, Explored, NodesOf, Finished
  <2>4. NoCycleIn(Finished(path, visited))'
    <3>1. NoCycleIn(Finished(path', visited'))
      BY <2>1 DEF Entering
    <3> QED BY <1>3, <3>1 DEF NoCycleIn, Acyclic, Finished, NodesOf
  <2>5. (DOMAIN waits \subseteq visited \cup roots)'
    BY <2>1
  <2>6. FoundIsCycle'
    BY <2>1 DEF FoundIsCycle
  <2> QED BY <2>1, <2>2, <2>3, <2>4, <2>5, <2>6 DEF SearchInv, SearchSound
<1> QED BY <1>4, <1>5, <1>6 DEF Entering, Linked

\* The empty graph satisfies the invariant.
LEMMA SearchInitial ==
  ASSUME DeadlockInit
  PROVE  SearchInv
<1> USE DEF DeadlockInit
<1>1. SearchTypeOK
  BY EmptySeq DEF SearchTypeOK
<1>2. FoundIsCycle
  BY EmptySeq DEF FoundIsCycle
<1> QED BY <1>1, <1>2 DEF SearchInv, SearchSound

\* An edit of the graph forgets the search.
LEMMA EditKeeps ==
  ASSUME SearchInv, NEW graph, DOMAIN graph \subseteq Waiters,
         graph \in [DOMAIN graph -> SUBSET Waiters], Edited(graph)
  PROVE  SearchInv'
<1> USE DEF Edited
<1>1. SearchTypeOK'
  BY EmptySeq DEF SearchInv, SearchTypeOK
<1>2. FoundIsCycle'
  BY EmptySeq DEF FoundIsCycle
<1> QED BY <1>1, <1>2 DEF SearchInv, SearchSound

\* A search begins with nothing visited.
LEMMA DetectKeeps ==
  ASSUME SearchInv, Detect
  PROVE  SearchInv'
<1> USE DEF Detect
<1>1. path = <<>> /\ found = <<>> /\ visited = {}
  BY DEF SearchInv, SearchSound
<1>2. SearchTypeOK'
  BY DEF SearchInv, SearchTypeOK
<1>3. NodesOf(path)' = {} /\ Finished(path, visited)' = {} /\ Len(path)' = 0
  BY <1>1, EmptySeq DEF NodesOf, Finished
<1>4. Linked(path, visited)' /\ Explored(path, visited, {})'
  BY <1>3 DEF Linked, Explored
<1>5. NoCycleIn(Finished(path, visited))'
  <2>1. (SUBSET {}) \ {{}} = {}
    OBVIOUS
  <2> QED BY <1>3, <2>1 DEF NoCycleIn
<1>6. FoundIsCycle'
  BY <1>1, EmptySeq DEF FoundIsCycle
<1> QED BY <1>1, <1>2, <1>4, <1>5, <1>6 DEF SearchInv, SearchSound

\* A search that begins at another waiter has an empty stack.
LEMMA BeginAtKeeps ==
  ASSUME SearchInv, NEW n \in Waiters, BeginAt(n)
  PROVE  SearchInv'
<1> USE DEF BeginAt
<1>1. /\ SearchTypeOK /\ Linked(path, visited) /\ NoCycleIn(Finished(path, visited))
      /\ DOMAIN waits \subseteq visited \cup roots
  BY DEF SearchInv, SearchSound
<1>2. Explored(path, visited, {n})
  BY EmptySeq DEF Explored
<1>3. Entering(n, path)
  BY <1>1, <1>2 DEF Entering, SearchTypeOK
<1>4. waits' = waits /\ roots' \subseteq Waiters /\ DOMAIN waits \subseteq visited \cup roots' \cup {n}
  BY <1>1 DEF SearchTypeOK
<1> QED BY <1>3, <1>4, EnterKeeps

\* Following an edge leaves one fewer to follow.
LEMMA FollowKeeps ==
  ASSUME SearchInv, NEW n \in Waiters, Follow(n)
  PROVE  SearchInv'
<1> DEFINE top == path[Len(path)]
           cut == [top EXCEPT !.rest = @ \ {n}]
           p == [path EXCEPT ![Len(path)] = cut]
<1>1. /\ SearchTypeOK /\ Linked(path, visited) /\ Explored(path, visited, {})
      /\ NoCycleIn(Finished(path, visited)) /\ DOMAIN waits \subseteq visited \cup roots
  BY DEF SearchInv, SearchSound, Follow
<1>2. /\ path \in Seq(Visiting) /\ path # <<>> /\ Len(path) \in Nat
      /\ Len(path) \in 1 .. Len(path)
  BY <1>1, EmptySeq DEF SearchTypeOK, Follow
<1>3. top \in Visiting /\ n \in top.rest
  BY <1>2, ElementOfSeq DEF Follow, Last
<1>4. cut \in Visiting /\ cut.node = top.node /\ cut.rest = top.rest \ {n}
  BY <1>3 DEF Visiting
<1>5. Enter(n, p) /\ waits' = waits /\ roots' = roots
  BY DEF Follow
<1> HIDE DEF cut
<1>6. /\ p \in Seq(Visiting) /\ Len(p) = Len(path)
      /\ \A i \in 1 .. Len(path) : p[i] = IF i = Len(path) THEN cut ELSE path[i]
  BY <1>2, <1>4, ExceptSeq
<1> HIDE DEF p
<1>7. \A i \in 1 .. Len(path) : p[i].node = path[i].node
  BY <1>4, <1>6
<1>8. NodesOf(p) = NodesOf(path)
  BY <1>6, <1>7 DEF NodesOf
<1>9. \A i \in 1 .. Len(path) : p[i].rest \subseteq path[i].rest
  BY <1>4, <1>6
<1>10. Linked(p, visited)
  <2>1. NodesOf(p) \subseteq visited
    BY <1>1, <1>8 DEF Linked
  <2>2. \A i, j \in 1 .. Len(p) : p[i].node = p[j].node => i = j
    BY <1>1, <1>6, <1>7 DEF Linked
  <2>3. \A i \in 1 .. Len(p) : p[i].rest \subseteq Holders(p[i].node)
    BY <1>1, <1>6, <1>7, <1>9 DEF Linked
  <2>4. ASSUME NEW i \in 1 .. Len(p), i < Len(p)
        PROVE  p[i + 1].node \in Holders(p[i].node)
    <3>1. i \in 1 .. Len(path) /\ i < Len(path) /\ i + 1 \in 1 .. Len(path)
      BY <1>2, <1>6, <2>4
    <3>2. path[i + 1].node \in Holders(path[i].node)
      BY <1>1, <3>1 DEF Linked
    <3> QED BY <1>7, <3>1, <3>2
  <2> QED BY <2>1, <2>2, <2>3, <2>4 DEF Linked
<1>11. Finished(p, visited) = Finished(path, visited)
  BY <1>8 DEF Finished
<1>12. Explored(p, visited, {n})
  <2> SUFFICES ASSUME NEW i \in 1 .. Len(p), NEW h \in Holders(p[i].node) \ p[i].rest
               PROVE  \/ h \in Finished(p, visited)
                      \/ i < Len(p) /\ h = p[i + 1].node
                      \/ i = Len(p) /\ h \in {n}
    BY DEF Explored
  <2>1. i \in 1 .. Len(path) /\ h \in Holders(path[i].node)
    BY <1>6, <1>7
  <2>2. CASE h \in path[i].rest
    <3>1. i = Len(path) /\ h = n
      BY <1>4, <1>6, <2>1, <2>2
    <3> QED BY <1>6, <3>1
  <2>3. CASE h \notin path[i].rest
    <3>1. h \in Finished(path, visited) \/ (i < Len(path) /\ h = path[i + 1].node)
      BY <1>1, <2>1, <2>3 DEF Explored
    <3>2. i < Len(path) => i + 1 \in 1 .. Len(path)
      BY <1>2, <2>1
    <3> QED BY <1>6, <1>7, <1>11, <3>1, <3>2
  <2> QED BY <2>2, <2>3
<1>13. n \in Holders(p[Len(p)].node)
  BY <1>1, <1>2, <1>3, <1>6, <1>7 DEF Linked
<1>14. Entering(n, p)
  BY <1>1, <1>6, <1>10, <1>11, <1>12, <1>13 DEF Entering
<1>15. phase = "searching" /\ roots' \subseteq Waiters
       /\ DOMAIN waits \subseteq visited \cup roots' \cup {n}
  BY <1>1, <1>5 DEF Follow, SearchTypeOK
<1> QED BY <1>5, <1>14, <1>15, EnterKeeps

\* A node whose edges were all followed is finished.
LEMMA BacktrackKeeps ==
  ASSUME SearchInv, Backtrack
  PROVE  SearchInv'
<1> DEFINE top == path[Len(path)]
           n == top.node
           p == SubSeq(path, 1, Len(path) - 1)
<1>1. /\ SearchTypeOK /\ Linked(path, visited) /\ Explored(path, visited, {})
      /\ NoCycleIn(Finished(path, visited)) /\ DOMAIN waits \subseteq visited \cup roots
      /\ FoundIsCycle /\ found = <<>>
  BY DEF SearchInv, SearchSound, Backtrack
<1>2. /\ path \in Seq(Visiting) /\ path # <<>> /\ Len(path) \in Nat
      /\ Len(path) \in 1 .. Len(path)
  BY <1>1, EmptySeq DEF SearchTypeOK, Backtrack
<1>3. top.rest = {} /\ path' = p /\ UNCHANGED <<waits, roots, visited, found, phase>>
  BY DEF Backtrack, Last, Front
<1>4. /\ p \in Seq(Visiting) /\ Len(p) = Len(path) - 1
      /\ \A i \in 1 .. Len(p) : p[i] = path[i]
  <2>1. \A i \in 1 .. Len(path) - 1 : path[i] \in Visiting
    BY <1>2, ElementOfSeq
  <2>2. /\ p \in Seq(Visiting)
        /\ Len(p) = IF 1 <= Len(path) - 1 THEN Len(path) - 1 - 1 + 1 ELSE 0
        /\ \A i \in 1 .. Len(path) - 1 - 1 + 1 : p[i] = path[1 + i - 1]
    BY <1>2, <2>1, SubSeqProperties
  <2> HIDE DEF p
  <2>3. Len(path) \in Nat /\ Len(path) >= 1
    BY <1>2
  <2>4. Len(p) = Len(path) - 1
    <3>1. PICK k \in Nat : k = Len(path) /\ k >= 1
      BY <2>3
    <3>2. Len(p) = IF 1 <= k - 1 THEN k - 1 - 1 + 1 ELSE 0
      BY <2>2, <3>1
    <3>3. CASE k = 1
      BY <3>1, <3>2, <3>3
    <3>4. CASE k > 1
      BY <3>1, <3>2, <3>4
    <3> QED BY <3>1, <3>3, <3>4
  <2> QED BY <2>2, <2>3, <2>4
<1> HIDE DEF p
<1>5. NodesOf(path) = NodesOf(p) \cup {n} /\ n \notin NodesOf(p)
  <2>1. \A i \in 1 .. Len(p) : i \in 1 .. Len(path) /\ i # Len(path)
    BY <1>2, <1>4
  <2>2. \A i \in 1 .. Len(path) : i \in 1 .. Len(p) \/ i = Len(path)
    BY <1>2, <1>4
  <2>3. NodesOf(path) = NodesOf(p) \cup {n}
    BY <1>2, <1>4, <2>1, <2>2 DEF NodesOf
  <2>4. n \notin NodesOf(p)
    BY <1>1, <1>2, <1>4, <2>1 DEF NodesOf, Linked
  <2> QED BY <2>3, <2>4
<1>6. n \in visited
  BY <1>1, <1>5 DEF Linked
<1>7. /\ Finished(p, visited) = Finished(path, visited) \cup {n}
      /\ n \notin Finished(path, visited)
  BY <1>5, <1>6 DEF Finished
<1>8. Holders(n) \subseteq Finished(path, visited)
  BY <1>1, <1>2, <1>3 DEF Explored
<1>9. NoCycleIn(Finished(p, visited))
  BY <1>1, <1>7, <1>8, FinishOne
<1>10. Linked(p, visited)
  <2>1. NodesOf(p) \subseteq visited
    BY <1>1, <1>5 DEF Linked
  <2>2. \A i \in 1 .. Len(p) : i \in 1 .. Len(path) /\ i < Len(path)
    BY <1>2, <1>4
  <2>3. \A i, j \in 1 .. Len(p) : p[i].node = p[j].node => i = j
    BY <1>1, <1>4, <2>2 DEF Linked
  <2>4. \A i \in 1 .. Len(p) : p[i].rest \subseteq Holders(p[i].node)
    BY <1>1, <1>4, <2>2 DEF Linked
  <2>5. ASSUME NEW i \in 1 .. Len(p), i < Len(p)
        PROVE  p[i + 1].node \in Holders(p[i].node)
    <3>1. i + 1 \in 1 .. Len(p)
      BY <1>2, <1>4, <2>5
    <3>2. path[i + 1].node \in Holders(path[i].node)
      BY <1>1, <2>2 DEF Linked
    <3> QED BY <1>4, <3>1, <3>2
  <2> QED BY <2>1, <2>3, <2>4, <2>5 DEF Linked
<1>11. Explored(p, visited, {})
  <2> SUFFICES ASSUME NEW i \in 1 .. Len(p), NEW h \in Holders(p[i].node) \ p[i].rest
               PROVE  h \in Finished(p, visited) \/ (i < Len(p) /\ h = p[i + 1].node)
    BY DEF Explored
  <2>1. i \in 1 .. Len(path) /\ i < Len(path) /\ p[i] = path[i]
    BY <1>2, <1>4
  <2>2. h \in Finished(path, visited) \/ h = path[i + 1].node
    BY <1>1, <2>1 DEF Explored
  <2>3. CASE i = Len(p)
    <3>1. i + 1 = Len(path)
      BY <1>2, <1>4, <2>3
    <3> QED BY <1>7, <2>2, <3>1
  <2>4. CASE i # Len(p)
    <3>1. i < Len(p) /\ i + 1 \in 1 .. Len(p)
      BY <1>2, <1>4, <2>1, <2>4
    <3>2. p[i + 1] = path[i + 1]
      BY <1>4, <3>1
    <3> QED BY <1>7, <2>2, <3>1, <3>2
  <2> QED BY <2>3, <2>4
<1>12. \A w : Holders(w)' = Holders(w)
  BY <1>3 DEF Holders
<1>13. SearchTypeOK'
  BY <1>1, <1>3, <1>4 DEF SearchTypeOK
<1>14. Linked(path, visited)' /\ Explored(path, visited, {})'
  BY <1>3, <1>10, <1>11, <1>12 DEF Linked, Explored, NodesOf, Finished
<1>15. NoCycleIn(Finished(path, visited))'
  <2>1. NoCycleIn(Finished(path', visited'))
    BY <1>3, <1>9
  <2> QED BY <1>12, <2>1 DEF NoCycleIn, Acyclic, NodesOf, Finished
<1>16. FoundIsCycle'
  BY <1>1, <1>3, <1>12 DEF FoundIsCycle
<1>17. phase' = "searching"
  BY <1>3 DEF Backtrack
<1> QED BY <1>1, <1>3, <1>13, <1>14, <1>15, <1>16, <1>17 DEF SearchInv, SearchSound

\* A search that ends without a cycle has finished every waiter.
LEMMA NoDeadlockKeeps ==
  ASSUME SearchInv, NoDeadlock
  PROVE  SearchInv'
<1> USE DEF NoDeadlock
<1>1. /\ SearchTypeOK /\ Linked(path, visited) /\ Explored(path, visited, {})
      /\ NoCycleIn(Finished(path, visited)) /\ DOMAIN waits \subseteq visited
      /\ FoundIsCycle /\ found = <<>>
  BY DEF SearchInv, SearchSound
<1>2. \A w : Holders(w)' = Holders(w)
  BY DEF Holders
<1>3. SearchTypeOK'
  BY <1>1 DEF SearchTypeOK
<1>4. Linked(path, visited)' /\ Explored(path, visited, {})'
  BY <1>1, <1>2 DEF Linked, Explored, NodesOf, Finished
<1>5. NoCycleIn(Finished(path, visited))'
  BY <1>1, <1>2 DEF NoCycleIn, Acyclic, NodesOf, Finished
<1>6. FoundIsCycle'
  BY <1>1, <1>2 DEF FoundIsCycle
<1> QED BY <1>1, <1>3, <1>4, <1>5, <1>6 DEF SearchInv, SearchSound

\* The invariant of the search, for every number of transactions.
THEOREM SearchInvariant == DeadlockSpec => []SearchInv
<1>1. DeadlockInit => SearchInv
  BY SearchInitial
<1>2. SearchInv /\ [DeadlockNext]_searchVars => SearchInv'
  <2> SUFFICES ASSUME SearchInv, [DeadlockNext]_searchVars
               PROVE  SearchInv'
    OBVIOUS
  <2>1. SearchTypeOK
    BY DEF SearchInv
  <2>2. ASSUME NEW w \in Waiters, NEW h \in Waiters, AddWaitFor(w, h)
        PROVE  SearchInv'
    <3> DEFINE graph == [x \in DOMAIN waits \cup {w} |->
                           IF x = w THEN Holders(w) \cup {h} ELSE waits[x]]
    <3>1. DOMAIN graph \subseteq Waiters
      BY <2>1 DEF SearchTypeOK
    <3>2. graph \in [DOMAIN graph -> SUBSET Waiters]
      BY <2>1, HoldersType DEF SearchTypeOK
    <3>3. Edited(graph)
      BY <2>2 DEF AddWaitFor
    <3> HIDE DEF graph
    <3> QED BY <3>1, <3>2, <3>3, EditKeeps
  <2>3. ASSUME NEW t \in Waiters, ClearWaitFor(t)
        PROVE  SearchInv'
    <3> DEFINE graph == [w \in DOMAIN waits \ {t} |-> waits[w] \ {t}]
    <3>1. DOMAIN graph \subseteq Waiters
      BY <2>1 DEF SearchTypeOK
    <3>2. graph \in [DOMAIN graph -> SUBSET Waiters]
      BY <2>1 DEF SearchTypeOK
    <3>3. Edited(graph)
      BY <2>3 DEF ClearWaitFor
    <3> HIDE DEF graph
    <3> QED BY <3>1, <3>2, <3>3, EditKeeps
  <2>4. CASE UNCHANGED searchVars
    BY <2>4 DEF searchVars, SearchInv, SearchSound, SearchTypeOK, FoundIsCycle, Linked,
             Explored, NoCycleIn, Acyclic, NodesOf, Finished, Holders
  <2> QED BY <2>2, <2>3, <2>4, DetectKeeps, BeginAtKeeps, FollowKeeps, BacktrackKeeps,
             NoDeadlockKeeps DEF DeadlockNext
<1> QED BY <1>1, <1>2, PTL DEF DeadlockSpec

\* The invariant, at the end of a search, is the property.
LEMMA SearchInvIsEnough ==
  ASSUME SearchInv
  PROVE  DeadlocksAreCycles
<1> SUFFICES ASSUME phase = "done"
             PROVE  IF found = <<>>
                    THEN \A S \in (SUBSET Waiters) \ {{}} : Acyclic(S)
                    ELSE FoundIsCycle
  <2>1. DOMAIN found = 1 .. Len(found)
    BY LenProperties DEF SearchInv, SearchTypeOK
  <2> QED BY <2>1 DEF DeadlocksAreCycles, Acyclic, FoundIsCycle
<1>1. ASSUME found = <<>>, NEW S \in (SUBSET Waiters) \ {{}}
      PROVE  Acyclic(S)
  <2>1. path = <<>> /\ DOMAIN waits \subseteq visited /\ NoCycleIn(Finished(path, visited))
    BY <1>1 DEF SearchInv, SearchSound
  <2>2. Finished(path, visited) = visited
    BY <2>1, EmptySeq DEF Finished, NodesOf
  <2>3. CASE S \subseteq visited
    BY <2>1, <2>2, <2>3 DEF NoCycleIn
  <2>4. CASE ~(S \subseteq visited)
    <3>1. PICK w \in S : w \notin visited
      BY <2>4
    <3>2. Holders(w) = {}
      BY <2>1, <3>1 DEF Holders
    <3> QED BY <3>2 DEF Acyclic
  <2> QED BY <2>3, <2>4
<1> QED BY <1>1 DEF SearchInv, SearchSound

\* detect_deadlock is exact: what it reports is a cycle of the wait-for graph, and
\* when it reports nothing no set of transactions waits only for one another
\* (txn.rs detect_deadlock, dfs), in whatever order the hashed graph is walked.
THEOREM DeadlocksFound == DeadlockSpec => []DeadlocksAreCycles
BY SearchInvariant, SearchInvIsEnough, PTL

-----------------------------------------------------------------------------
(* The skip list.                                                          *)

Stored == 1 .. Len(skipNodes)
KeyOf(i) == skipNodes[i].key
OnLevel(i, l) == l \in DOMAIN skipNodes[i].forward
LevelNodes(l) == {i \in Stored : OnLevel(i, l)}

\* Node j lies behind x, which may be the sentinel; x lies before a key.
Behind(j, x) == x = Sentinel \/ KeyOf(x) < KeyOf(j)
Before(x, key) == x = Sentinel \/ KeyOf(x) < key

\* The link of x on a level leads to the least key of the level behind x.
LeadsOn(x, l) ==
  LET f == Forward(x, l)
  IN  IF f = Sentinel THEN \A j \in LevelNodes(l) : ~Behind(j, x)
      ELSE /\ f \in LevelNodes(l) /\ Behind(f, x)
           /\ \A j \in LevelNodes(l) : Behind(j, x) => KeyOf(f) <= KeyOf(j)

SkipTypeOK ==
  /\ level \in 1 .. MaxLevel /\ Len(skipNodes) \in Nat /\ DOMAIN skipNodes = Stored
  /\ skipNodes = [i \in Stored |-> skipNodes[i]]
  /\ skipHead = [l \in 1 .. MaxLevel |-> skipHead[l]]
  /\ \A i \in Stored :
       /\ KeyOf(i) \in ListKeys /\ skipNodes[i].value \in ListValues
       /\ skipNodes[i] = [key |-> KeyOf(i), value |-> skipNodes[i].value,
                          forward |-> skipNodes[i].forward]
       /\ skipNodes[i].forward = [l \in DOMAIN skipNodes[i].forward |-> skipNodes[i].forward[l]]
       /\ \E h \in 1 .. level : DOMAIN skipNodes[i].forward = 1 .. h

\* Keys are stored once, and every level is a list of its nodes in key order.
SkipInv ==
  /\ SkipTypeOK
  /\ \A i, j \in Stored : KeyOf(i) = KeyOf(j) => i = j
  /\ \A l \in 1 .. MaxLevel : \A x \in LevelNodes(l) \cup {Sentinel} : LeadsOn(x, l)

\* Where the descent leaves a level: the last node before the key.
LastBefore(x, l, key) ==
  /\ x \in LevelNodes(l) \cup {Sentinel} /\ Before(x, key)
  /\ ~Passes(Forward(x, l), key)

\* Arithmetic of keys, and what the invariant says of nodes.
LEMMA SkipFacts ==
  ASSUME SkipInv
  PROVE  /\ level \in 1 .. MaxLevel /\ MaxLevel \in Nat \ {0} /\ Len(skipNodes) \in Nat
         /\ ListKeys \subseteq Int /\ \A i \in Stored : KeyOf(i) \in ListKeys /\ KeyOf(i) \in Int
         /\ \A i \in Stored : i # Sentinel /\ i \in Nat
         /\ \A i, j \in Stored : KeyOf(i) = KeyOf(j) => i = j
         /\ \A i \in Stored : OnLevel(i, 1)
         /\ \A i \in Stored, l \in 1 .. MaxLevel : OnLevel(i, l + 1) => OnLevel(i, l)
         /\ \A i \in Stored, l \in 1 .. MaxLevel : OnLevel(i, l) => l <= level
<1>1. \A i \in Stored : \E h \in 1 .. level : DOMAIN skipNodes[i].forward = 1 .. h
  BY DEF SkipInv, SkipTypeOK
<1>2. level \in 1 .. MaxLevel /\ MaxLevel \in Nat \ {0} /\ Len(skipNodes) \in Nat
  BY SkipAssumption DEF SkipInv, SkipTypeOK
<1>3. ASSUME NEW i \in Stored
      PROVE  /\ OnLevel(i, 1)
             /\ \A l \in 1 .. MaxLevel : OnLevel(i, l + 1) => OnLevel(i, l)
             /\ \A l \in 1 .. MaxLevel : OnLevel(i, l) => l <= level
  <2>1. PICK h \in 1 .. level : DOMAIN skipNodes[i].forward = 1 .. h
    BY <1>1
  <2> QED BY <1>2, <2>1 DEF OnLevel
<1>4. ListKeys \subseteq Int /\ \A i \in Stored : KeyOf(i) \in ListKeys
  BY SkipAssumption DEF SkipInv, SkipTypeOK
<1>5. \A i \in Stored : i # Sentinel /\ i \in Nat
  BY <1>2 DEF Stored, Sentinel
<1> QED BY <1>2, <1>3, <1>4, <1>5 DEF SkipInv

\* No two nodes are the last before a key.
LEMMA LastIsOne ==
  ASSUME SkipInv, NEW l \in 1 .. MaxLevel, NEW key \in Int, NEW x, NEW y,
         LastBefore(x, l, key), LastBefore(y, l, key)
  PROVE  x = y
<1>1. \A i \in LevelNodes(l) : i \in Stored /\ i # Sentinel /\ KeyOf(i) \in Int
  BY SkipFacts DEF LevelNodes
<1>2. ASSUME NEW a, NEW b, LastBefore(a, l, key), LastBefore(b, l, key)
      PROVE  b # Sentinel => ~Behind(b, a)
  <2> SUFFICES ASSUME b # Sentinel, Behind(b, a)
               PROVE  FALSE
    OBVIOUS
  <2>1. LeadsOn(a, l) /\ b \in LevelNodes(l) /\ KeyOf(b) < key
    BY <1>2 DEF SkipInv, LastBefore, Before
  <2>2. /\ Forward(a, l) # Sentinel /\ Forward(a, l) \in LevelNodes(l)
        /\ KeyOf(Forward(a, l)) <= KeyOf(b)
    BY <2>1 DEF LeadsOn
  <2>3. KeyOf(Forward(a, l)) < key
    BY <1>1, <2>1, <2>2
  <2> QED BY <1>2, <2>2, <2>3 DEF LastBefore, Passes, KeyOf
<1>3. x \in LevelNodes(l) \cup {Sentinel} /\ y \in LevelNodes(l) \cup {Sentinel}
  BY DEF LastBefore
<1>4. CASE x = Sentinel \/ y = Sentinel
  BY <1>2, <1>4 DEF Behind
<1>5. CASE x # Sentinel /\ y # Sentinel
  <2>1. ~(KeyOf(x) < KeyOf(y)) /\ ~(KeyOf(y) < KeyOf(x))
    BY <1>2, <1>5 DEF Behind
  <2>2. KeyOf(x) = KeyOf(y) /\ x \in Stored /\ y \in Stored
    BY <1>1, <1>3, <1>5, <2>1
  <2> QED BY <2>2, SkipFacts
<1> QED BY <1>4, <1>5

-----------------------------------------------------------------------------
(* The descent.                                                            *)

\* The walks of k steps along a level, given those of k - 1.
StepsOn(f, l, key, k) ==
  [i \in 0 .. Len(skipNodes) |->
     IF k > 0 /\ Passes(Forward(i, l), key) THEN f[k - 1][Forward(i, l)] ELSE i]

\* f has the walks of up to n steps.
StepWalks(f, l, key, n) == f = [k \in 0 .. n |-> StepsOn(f, l, key, k)]

\* The walks of k steps depend on those of k - 1 only.
LEMMA SameStepsOn ==
  ASSUME NEW f, NEW g, NEW l, NEW key, NEW k \in Nat, k # 0 => f[k - 1] = g[k - 1]
  PROVE  StepsOn(f, l, key, k) = StepsOn(g, l, key, k)
<1>1. CASE k = 0
  BY <1>1 DEF StepsOn
<1>2. CASE k # 0
  BY <1>2 DEF StepsOn
<1> QED BY <1>1, <1>2

\* The walks of up to N steps exist.
LEMMA StepsOnExist ==
  ASSUME NEW l, NEW key, NEW N \in Nat
  PROVE  \E f : StepWalks(f, l, key, N)
<1> DEFINE Walked(n) == \E f : StepWalks(f, l, key, n)
           Lacking == {n \in 0 .. N : ~Walked(n)}
<1> SUFFICES ASSUME Lacking # {}
             PROVE  FALSE
  <2>1. N \notin Lacking => Walked(N)
    OBVIOUS
  <2> QED BY <2>1
<1>1. Lacking \subseteq Nat
  OBVIOUS
<1> DEFINE m == Min(Lacking)
<1>2. m \in Lacking /\ \A q \in Lacking : m <= q
  <2> HIDE DEF Lacking
  <2> QED BY <1>1, MinIsIn
<1> HIDE DEF m
<1>3. m \in 0 .. N /\ ~Walked(m)
  BY <1>2
<1>4. \E f : \A k \in 0 .. m - 1 : f[k] = StepsOn(f, l, key, k)
  <2>1. CASE m = 0
    BY <2>1
  <2>2. CASE m # 0
    <3>1. m - 1 \in 0 .. N /\ m - 1 \notin Lacking
      BY <1>2, <1>3, <2>2
    <3>2. PICK f : StepWalks(f, l, key, m - 1)
      BY <3>1
    <3> QED BY <3>2 DEF StepWalks
  <2> QED BY <2>1, <2>2
<1>5. PICK f : \A k \in 0 .. m - 1 : f[k] = StepsOn(f, l, key, k)
  BY <1>4
<1> DEFINE g == [k \in 0 .. m |-> IF k = m THEN StepsOn(f, l, key, m) ELSE f[k]]
<1>6. g = [k \in 0 .. m |-> g[k]] /\ g[m] = StepsOn(f, l, key, m)
      /\ \A k \in 0 .. m - 1 : g[k] = f[k]
  BY <1>3
<1> HIDE DEF g
<1>7. \A k \in 0 .. m : g[k] = StepsOn(g, l, key, k)
  <2> TAKE k \in 0 .. m
  <2>1. k # 0 => f[k - 1] = g[k - 1]
    <3>1. m \in Nat /\ k \in 0 .. m
      BY <1>3
    <3>2. k # 0 => k - 1 \in 0 .. m - 1
      BY ONLY <3>1
    <3> QED BY <1>6, <3>2
  <2>2. StepsOn(f, l, key, k) = StepsOn(g, l, key, k)
    BY <2>1, SameStepsOn
  <2>3. CASE k = m
    BY <1>6, <2>2, <2>3
  <2>4. CASE k # m
    <3>1. k \in 0 .. m - 1
      BY <1>3, <2>4
    <3> QED BY <1>5, <1>6, <2>2, <3>1
  <2> QED BY <2>3, <2>4
<1>8. StepWalks(g, l, key, m)
  BY <1>6, <1>7 DEF StepWalks
<1> QED BY <1>3, <1>8

\* The nodes a descent may still pass.
Ahead(x, l, key) == {j \in LevelNodes(l) : Behind(j, x) /\ KeyOf(j) < key}

\* There are no more of them than nodes.
LEMMA AheadFinite ==
  ASSUME SkipInv, NEW x, NEW l, NEW key
  PROVE  /\ IsFiniteSet(Ahead(x, l, key)) /\ Cardinality(Ahead(x, l, key)) \in Nat
         /\ Cardinality(Ahead(x, l, key)) <= Len(skipNodes)
<1>1. Len(skipNodes) \in Nat
  BY SkipFacts
<1>2. IsFiniteSet(Stored) /\ Cardinality(Stored) = Len(skipNodes)
  <2>1. IsFiniteSet(Stored) /\ Cardinality(Stored) = IF 1 > Len(skipNodes) THEN 0 ELSE Len(skipNodes) - 1 + 1
    BY <1>1, FS_Interval DEF Stored
  <2> QED BY <1>1, <2>1
<1>3. Ahead(x, l, key) \in SUBSET Stored
  BY DEF Ahead, LevelNodes
<1>4. IsFiniteSet(Ahead(x, l, key)) /\ Cardinality(Ahead(x, l, key)) <= Len(skipNodes)
  BY <1>2, <1>3, FS_Subset
<1> QED BY <1>4, FS_CardinalityType

\* Passing a node leaves fewer ahead.
LEMMA PassingGetsOn ==
  ASSUME SkipInv, NEW l \in 1 .. MaxLevel, NEW key \in Int,
         NEW x \in LevelNodes(l) \cup {Sentinel}, Before(x, key),
         Passes(Forward(x, l), key)
  PROVE  LET f == Forward(x, l)
         IN  /\ f \in LevelNodes(l) /\ Before(f, key)
             /\ Cardinality(Ahead(f, l, key)) + 1 <= Cardinality(Ahead(x, l, key))
<1> DEFINE f == Forward(x, l)
<1>1. \A i \in LevelNodes(l) : i \in Stored /\ i # Sentinel /\ KeyOf(i) \in Int
  BY SkipFacts DEF LevelNodes
<1>2. f # Sentinel /\ KeyOf(f) < key
  BY DEF Passes, KeyOf
<1>3. f \in LevelNodes(l) /\ Behind(f, x)
  BY <1>2 DEF SkipInv, LeadsOn
<1> HIDE DEF f
<1>4. f \in Ahead(x, l, key) /\ f \notin Ahead(f, l, key)
  BY <1>1, <1>2, <1>3 DEF Ahead, Behind
<1>5. Ahead(f, l, key) \subseteq Ahead(x, l, key) \ {f}
  <2> SUFFICES ASSUME NEW j \in Ahead(f, l, key)
               PROVE  j \in Ahead(x, l, key) /\ j # f
    OBVIOUS
  <2>1. j \in LevelNodes(l) /\ KeyOf(f) < KeyOf(j) /\ KeyOf(j) < key
    BY <1>2 DEF Ahead, Behind
  <2>2. Behind(j, x)
    <3>1. CASE x = Sentinel
      BY <3>1 DEF Behind
    <3>2. CASE x # Sentinel
      <4>1. KeyOf(x) < KeyOf(f) /\ KeyOf(x) \in Int /\ KeyOf(f) \in Int /\ KeyOf(j) \in Int
        BY <1>1, <1>3, <2>1, <3>2 DEF Behind
      <4>2. KeyOf(x) < KeyOf(j)
        BY <2>1, <4>1
      <4> QED BY <4>2 DEF Behind
    <3> QED BY <3>1, <3>2
  <2> QED BY <1>4, <2>1, <2>2 DEF Ahead
<1>6. /\ IsFiniteSet(Ahead(x, l, key)) /\ Cardinality(Ahead(x, l, key)) \in Nat
      /\ IsFiniteSet(Ahead(f, l, key)) /\ Cardinality(Ahead(f, l, key)) \in Nat
  BY AheadFinite
<1>7. /\ IsFiniteSet(Ahead(x, l, key) \ {f})
      /\ Cardinality(Ahead(x, l, key) \ {f}) = Cardinality(Ahead(x, l, key)) - 1
  BY <1>4, <1>6, FS_RemoveElement
<1>8. Cardinality(Ahead(f, l, key)) <= Cardinality(Ahead(x, l, key)) - 1
  BY <1>5, <1>7, FS_Subset
<1>9. Cardinality(Ahead(f, l, key)) + 1 <= Cardinality(Ahead(x, l, key))
  BY <1>6, <1>8
<1> QED BY <1>2, <1>3, <1>9 DEF f, Before

\* The descent along a level ends at the last node before the key.
LEMMA AdvanceRight ==
  ASSUME SkipInv, NEW l \in 1 .. MaxLevel, NEW key \in Int,
         NEW x \in LevelNodes(l) \cup {Sentinel}, Before(x, key)
  PROVE  LastBefore(Advance(x, l, key), l, key)
<1> DEFINE N == Len(skipNodes)
           Row(g, k) == [i \in 0 .. N |->
             IF k > 0 /\ Passes(Forward(i, l), key) THEN g[k - 1][Forward(i, l)] ELSE i]
           walk == CHOOSE g : g = [k \in 0 .. N |-> Row(g, k)]
<1>1. \A g, k : Row(g, k) = StepsOn(g, l, key, k)
  BY DEF StepsOn
<1>2. Advance(x, l, key) = walk[N][x]
  BY DEF Advance
<1> HIDE DEF Row
<1>3. N \in Nat /\ \A i \in LevelNodes(l) : i \in Stored /\ i # Sentinel
  BY SkipFacts DEF LevelNodes
<1>4. \E g : g = [k \in 0 .. N |-> Row(g, k)]
  <2>1. PICK g : StepWalks(g, l, key, N)
    BY <1>3, StepsOnExist
  <2> QED BY <1>1, <2>1 DEF StepWalks
<1>5. walk = [k \in 0 .. N |-> Row(walk, k)]
  BY <1>4
<1> HIDE DEF walk
<1>6. \A k \in 0 .. N : walk[k] = StepsOn(walk, l, key, k)
  BY <1>1, <1>5
<1>7. \A i \in LevelNodes(l) \cup {Sentinel} : i \in 0 .. N
  BY <1>3 DEF Stored, Sentinel
<1> DEFINE Right(n) == \A i \in LevelNodes(l) \cup {Sentinel} :
             Before(i, key) /\ Cardinality(Ahead(i, l, key)) <= n
               => LastBefore(walk[n][i], l, key)
           Wrong == {n \in 0 .. N : ~Right(n)}
<1>8. Wrong = {}
  <2> SUFFICES ASSUME Wrong # {} PROVE FALSE
    OBVIOUS
  <2>1. Wrong \subseteq Nat
    BY <1>3
  <2> DEFINE n == Min(Wrong)
  <2>2. n \in Wrong /\ \A q \in Wrong : n <= q
    <3> HIDE DEF Wrong
    <3> QED BY <2>1, MinIsIn
  <2> HIDE DEF n
  <2>3. n \in 0 .. N /\ n \in Nat /\ ~Right(n)
    BY <1>3, <2>2
  <2>4. PICK i \in LevelNodes(l) \cup {Sentinel} :
          /\ Before(i, key) /\ Cardinality(Ahead(i, l, key)) <= n
          /\ ~LastBefore(walk[n][i], l, key)
    BY <2>3
  <2>5. walk[n][i] = IF n > 0 /\ Passes(Forward(i, l), key) THEN walk[n - 1][Forward(i, l)] ELSE i
    <3>1. walk[n] = StepsOn(walk, l, key, n) /\ i \in 0 .. N
      BY <1>6, <1>7, <2>3
    <3>2. StepsOn(walk, l, key, n)[i]
            = IF n > 0 /\ Passes(Forward(i, l), key) THEN walk[n - 1][Forward(i, l)] ELSE i
      BY <3>1 DEF StepsOn
    <3> QED BY ONLY <3>1, <3>2
  <2>6. CASE ~Passes(Forward(i, l), key)
    BY <2>4, <2>5, <2>6 DEF LastBefore
  <2>7. CASE Passes(Forward(i, l), key)
    <3> DEFINE f == Forward(i, l)
    <3>1. /\ f \in LevelNodes(l) /\ Before(f, key)
          /\ Cardinality(Ahead(f, l, key)) + 1 <= Cardinality(Ahead(i, l, key))
      BY <2>4, <2>7, PassingGetsOn
    <3>2. Cardinality(Ahead(f, l, key)) \in Nat /\ Cardinality(Ahead(i, l, key)) \in Nat
      BY AheadFinite
    <3> HIDE DEF f
    <3>3. n > 0 /\ n - 1 \in 0 .. N /\ Cardinality(Ahead(f, l, key)) <= n - 1 /\ ~(n <= n - 1)
      BY <1>3, <2>3, <2>4, <3>1, <3>2
    <3>4. Right(n - 1)
      <4>1. n - 1 \notin Wrong
        BY <2>2, <3>3
      <4> QED BY <3>3, <4>1
    <3>5. LastBefore(walk[n - 1][f], l, key)
      BY <3>1, <3>3, <3>4
    <3> QED BY <2>4, <2>5, <2>7, <3>3, <3>5 DEF f
  <2> QED BY <2>6, <2>7
<1>9. Right(N)
  <2>1. N \in 0 .. N /\ N \notin Wrong
    BY <1>3, <1>8
  <2> QED BY <2>1
<1>10. Cardinality(Ahead(x, l, key)) <= N
  BY AheadFinite
<1> QED BY <1>2, <1>9, <1>10

\* Where the descent leaves level l, given where it leaves the level above.
LeftAt(f, key, l) == IF l > level THEN Sentinel ELSE Advance(f[l + 1], l, key)

\* The descent is defined: each level from the one above.
LEMMA DescentExists ==
  ASSUME SkipInv, NEW key
  PROVE  \E f : f = [l \in 1 .. MaxLevel + 1 |-> LeftAt(f, key, l)]
<1> DEFINE M == MaxLevel + 1
           Descended(n) == \E f : \A l \in M - n .. M : f[l] = LeftAt(f, key, l)
           Lacking == {n \in 0 .. MaxLevel : ~Descended(n)}
<1>1. MaxLevel \in Nat \ {0} /\ level \in 1 .. MaxLevel
  BY SkipFacts
<1>2. Lacking = {}
  <2> SUFFICES ASSUME Lacking # {} PROVE FALSE
    OBVIOUS
  <2>1. Lacking \subseteq Nat
    OBVIOUS
  <2> DEFINE n == Min(Lacking)
  <2>2. n \in Lacking /\ \A q \in Lacking : n <= q
    <3> HIDE DEF Lacking
    <3> QED BY <2>1, MinIsIn
  <2> HIDE DEF n
  <2>3. n \in 0 .. MaxLevel /\ n \in Nat /\ ~Descended(n)
    BY <2>2
  <2>4. n # 0
    <3> DEFINE f == [l \in {M} |-> Sentinel]
    <3>1. f[M] = LeftAt(f, key, M)
      BY <1>1 DEF LeftAt
    <3> HIDE DEF f
    <3>2. \A l \in M - 0 .. M : l = M
      BY <1>1
    <3>3. Descended(0)
      BY <3>1, <3>2
    <3> QED BY <2>3, <3>3
  <2>5. n - 1 \in 0 .. MaxLevel /\ ~(n <= n - 1)
    BY <1>1, <2>3, <2>4
  <2>6. PICK f : \A l \in M - (n - 1) .. M : f[l] = LeftAt(f, key, l)
    <3>1. n - 1 \notin Lacking
      BY <2>2, <2>5
    <3> QED BY <2>5, <3>1
  <2> DEFINE g == [l \in 1 .. M |-> IF l = M - n THEN LeftAt(f, key, l) ELSE f[l]]
  <2>7. /\ \A l \in M - n .. M : l = M - n \/ l \in M - (n - 1) .. M
        /\ \A l \in M - n .. M : l \in 1 .. M /\ (l + 1 <= M => l + 1 \in M - (n - 1) .. M)
        /\ \A l \in M - (n - 1) .. M : l # M - n /\ l \in 1 .. M
        /\ M - n \in 1 .. M
    BY <1>1, <2>3, <2>4
  <2>8. g[M - n] = LeftAt(f, key, M - n) /\ \A l \in M - (n - 1) .. M : g[l] = f[l]
    BY <2>7
  <2> HIDE DEF g
  <2>9. \A l \in M - n .. M : LeftAt(f, key, l) = LeftAt(g, key, l)
    <3> TAKE l \in M - n .. M
    <3>1. CASE l = M
      BY <1>1, <3>1 DEF LeftAt
    <3>2. CASE l # M
      <4>1. l + 1 <= M
        BY <1>1, <2>7, <3>2
      <4>2. g[l + 1] = f[l + 1]
        BY <2>7, <2>8, <4>1
      <4> QED BY <4>2 DEF LeftAt
    <3> QED BY <3>1, <3>2
  <2>10. \A l \in M - n .. M : g[l] = LeftAt(g, key, l)
    BY <2>6, <2>7, <2>8, <2>9
  <2> QED BY <2>3, <2>10
<1>3. PICK f : \A l \in M - MaxLevel .. M : f[l] = LeftAt(f, key, l)
  <2>1. MaxLevel \notin Lacking
    BY <1>2
  <2>2. MaxLevel \in 0 .. MaxLevel
    BY <1>1
  <2>3. Descended(MaxLevel)
    BY <2>1, <2>2
  <2> QED BY <2>3
<1>4. M - MaxLevel = 1
  BY <1>1
<1> DEFINE g == [l \in 1 .. M |-> f[l]]
<1>5. \A l \in 1 .. M : g[l] = f[l]
  OBVIOUS
<1>6. g = [l \in 1 .. M |-> g[l]]
  OBVIOUS
<1> HIDE DEF g
<1>7. \A l \in 1 .. M : g[l] = LeftAt(g, key, l)
  <2> TAKE l \in 1 .. M
  <2>1. CASE l = M
    BY <1>1, <1>3, <1>4, <1>5, <2>1 DEF LeftAt
  <2>2. CASE l # M
    <3>1. l + 1 \in 1 .. M
      BY <1>1, <2>2
    <3> QED BY <1>3, <1>4, <1>5, <3>1 DEF LeftAt
  <2> QED BY <2>1, <2>2
<1>8. g = [l \in 1 .. M |-> LeftAt(g, key, l)]
  BY <1>6, <1>7
<1> QED BY <1>8

\* update has the last node before the key on every level.
LEMMA UpdateRight ==
  ASSUME SkipInv, NEW key \in Int
  PROVE  \A l \in 1 .. MaxLevel : LastBefore(Update(key)[l], l, key)
<1> DEFINE M == MaxLevel + 1
           at == CHOOSE f : f = [l \in 1 .. M |-> LeftAt(f, key, l)]
<1>1. MaxLevel \in Nat \ {0} /\ level \in 1 .. MaxLevel
  BY SkipFacts
<1>2. Update(key) = at
  BY DEF Update, LeftAt
<1>3. at = [l \in 1 .. M |-> LeftAt(at, key, l)]
  BY DescentExists
<1> HIDE DEF at
<1>4. \A l \in 1 .. M : at[l] = LeftAt(at, key, l)
  BY <1>3
<1> DEFINE Wrong == {n \in 1 .. MaxLevel : ~LastBefore(at[MaxLevel + 1 - n], MaxLevel + 1 - n, key)}
<1>5. Wrong = {}
  <2> SUFFICES ASSUME Wrong # {} PROVE FALSE
    OBVIOUS
  <2>1. Wrong \subseteq Nat
    OBVIOUS
  <2> DEFINE n == Min(Wrong)
  <2>2. n \in Wrong /\ \A q \in Wrong : n <= q
    <3> HIDE DEF Wrong
    <3> QED BY <2>1, MinIsIn
  <2> HIDE DEF n
  <2>3. PICK l : l = MaxLevel + 1 - n
    OBVIOUS
  <2>4. n \in 1 .. MaxLevel /\ ~LastBefore(at[l], l, key)
    BY <2>2, <2>3
  <2>5. l \in 1 .. MaxLevel /\ l \in 1 .. M /\ l + 1 \in 1 .. M
    BY <1>1, <2>3, <2>4
  <2>6. CASE l > level
    <3>1. at[l] = Sentinel
      BY <1>4, <2>5, <2>6 DEF LeftAt
    <3>2. LevelNodes(l) = {}
      <4>1. \A i \in Stored : ~OnLevel(i, l)
        <5> TAKE i \in Stored
        <5>1. OnLevel(i, l) => l <= level
          BY <2>5, SkipFacts
        <5>2. level \in Int /\ l \in Int
          BY <1>1, <2>5
        <5> QED BY <2>6, <5>1, <5>2
      <4> QED BY <4>1 DEF LevelNodes
    <3>3. Forward(Sentinel, l) = Sentinel
      BY <2>5, <3>2 DEF SkipInv, LeadsOn
    <3> QED BY <2>4, <3>1, <3>3 DEF LastBefore, Before, Passes
  <2>7. CASE ~(l > level)
    <3>1. at[l] = Advance(at[l + 1], l, key)
      BY <1>4, <2>5, <2>7 DEF LeftAt
    <3>2. at[l + 1] \in LevelNodes(l) \cup {Sentinel} /\ Before(at[l + 1], key)
      <4>1. CASE n = 1
        <5>1. l + 1 = M /\ l + 1 > level
          BY <1>1, <2>3, <4>1
        <5>2. at[l + 1] = Sentinel
          BY <1>4, <2>5, <5>1 DEF LeftAt
        <5> QED BY <5>2 DEF Before
      <4>2. CASE n # 1
        <5>1. n - 1 \in 1 .. MaxLevel /\ ~(n <= n - 1) /\ MaxLevel + 1 - (n - 1) = l + 1
          BY <1>1, <2>3, <2>4, <4>2
        <5>2. n - 1 \notin Wrong
          BY <2>2, <5>1
        <5>3. LastBefore(at[l + 1], l + 1, key)
          BY <5>1, <5>2
        <5>4. LevelNodes(l + 1) \subseteq LevelNodes(l)
          BY <2>5, SkipFacts DEF LevelNodes
        <5> QED BY <5>3, <5>4 DEF LastBefore
      <4> QED BY <4>1, <4>2
    <3> QED BY <2>4, <2>5, <3>1, <3>2, AdvanceRight
  <2> QED BY <2>6, <2>7
<1>6. ASSUME NEW l \in 1 .. MaxLevel
      PROVE  LastBefore(at[l], l, key)
  <2>1. PICK n : n = MaxLevel + 1 - l
    OBVIOUS
  <2>2. n \in 1 .. MaxLevel /\ MaxLevel + 1 - n = l
    BY <1>1, <2>1
  <2>3. n \notin Wrong
    BY <1>5
  <2> QED BY <2>2, <2>3
<1> QED BY <1>2, <1>6

\* The candidate is the least node not below the key, if there is one.
LEMMA CandidateRight ==
  ASSUME SkipInv, NEW key \in Int
  PROVE  LET c == Candidate(key)
         IN  /\ c # Sentinel => c \in Stored /\ key <= KeyOf(c)
             /\ \A j \in Stored : key <= KeyOf(j) => c # Sentinel /\ KeyOf(c) <= KeyOf(j)
<1> DEFINE x == Update(key)[1]
           c == Forward(x, 1)
<1>1. 1 \in 1 .. MaxLevel /\ LevelNodes(1) = Stored
  BY SkipFacts DEF LevelNodes
<1>2. LastBefore(x, 1, key)
  BY <1>1, UpdateRight
<1>3. Candidate(key) = c
  BY DEF Candidate
<1> HIDE DEF x
<1>4. x \in Stored \cup {Sentinel} /\ Before(x, key) /\ ~Passes(c, key) /\ LeadsOn(x, 1)
  BY <1>1, <1>2 DEF LastBefore, SkipInv
<1>5. \A i \in Stored : KeyOf(i) \in Int /\ i # Sentinel
  BY SkipFacts
<1>6. c # Sentinel => c \in Stored /\ key <= KeyOf(c)
  <2> SUFFICES ASSUME c # Sentinel PROVE c \in Stored /\ key <= KeyOf(c)
    OBVIOUS
  <2>1. c \in Stored
    BY <1>1, <1>4 DEF LeadsOn
  <2>2. ~(KeyOf(c) < key)
    BY <1>4 DEF Passes, KeyOf
  <2> QED BY <1>5, <2>1, <2>2
<1>7. ASSUME NEW j \in Stored, key <= KeyOf(j)
      PROVE  c # Sentinel /\ KeyOf(c) <= KeyOf(j)
  <2>1. Behind(j, x)
    <3>1. CASE x = Sentinel
      BY <3>1 DEF Behind
    <3>2. CASE x # Sentinel
      <4>1. KeyOf(x) < key /\ KeyOf(x) \in Int /\ KeyOf(j) \in Int
        BY <1>4, <1>5, <3>2 DEF Before
      <4> QED BY <1>7, <4>1 DEF Behind
    <3> QED BY <3>1, <3>2
  <2> QED BY <1>1, <1>4, <2>1 DEF LeadsOn
<1> HIDE DEF c
<1> QED BY <1>3, <1>6, <1>7

\* What the list finds.
ValuesAreStored ==
  \A k \in ListKeys :
    /\ \A j \in Stored : KeyOf(j) = k =>
         Found(k) /\ Candidate(k) = j /\ Value(k) = skipNodes[j].value
    /\ (\A j \in Stored : KeyOf(j) # k) => ~Found(k) /\ Value(k) = Missing

\* Every stored key is found at its node, and no other key is.
LEMMA FindsStored ==
  ASSUME SkipInv
  PROVE  ValuesAreStored
<1> SUFFICES ASSUME NEW k \in ListKeys
             PROVE  /\ \A j \in Stored : KeyOf(j) = k =>
                         Found(k) /\ Candidate(k) = j /\ Value(k) = skipNodes[j].value
                    /\ (\A j \in Stored : KeyOf(j) # k) => ~Found(k) /\ Value(k) = Missing
  BY DEF ValuesAreStored
<1>1. k \in Int /\ \A i \in Stored : KeyOf(i) \in Int
  BY SkipFacts
<1> DEFINE c == Candidate(k)
<1>2. /\ c # Sentinel => c \in Stored /\ k <= KeyOf(c)
      /\ \A j \in Stored : k <= KeyOf(j) => c # Sentinel /\ KeyOf(c) <= KeyOf(j)
  BY <1>1, CandidateRight
<1>3. Found(k) <=> c # Sentinel /\ KeyOf(c) = k
  BY DEF Found, KeyOf
<1>4. Value(k) = IF Found(k) THEN skipNodes[c].value ELSE Missing
  BY DEF Value
<1> HIDE DEF c
<1>5. ASSUME NEW j \in Stored, KeyOf(j) = k
      PROVE  Found(k) /\ c = j /\ Value(k) = skipNodes[j].value
  <2>1. k <= KeyOf(j)
    BY <1>1, <1>5
  <2>2. c \in Stored /\ c # Sentinel /\ k <= KeyOf(c) /\ KeyOf(c) <= k
    BY <1>2, <1>5, <2>1
  <2>3. KeyOf(c) = k
    BY <1>1, <2>2
  <2>4. c = j
    BY <1>5, <2>2, <2>3, SkipFacts
  <2> QED BY <1>3, <1>4, <2>2, <2>3, <2>4
<1>6. (\A j \in Stored : KeyOf(j) # k) => ~Found(k)
  BY <1>2, <1>3
<1> QED BY <1>4, <1>5, <1>6 DEF c

-----------------------------------------------------------------------------
(* Steps of the skip list.                                                 *)

\* A function on 1 .. n is a sequence of its values, to which one can be added.
LEMMA ListedLength ==
  ASSUME NEW n \in Nat, NEW f, f = [i \in 1 .. n |-> f[i]], NEW e
  PROVE  /\ Len(f) = n
         /\ Len(Append(f, e)) = n + 1 /\ Append(f, e)[n + 1] = e
         /\ \A i \in 1 .. n : Append(f, e)[i] = f[i]
         /\ Append(f, e) = [i \in 1 .. n + 1 |-> Append(f, e)[i]]
<1> DEFINE S == {f[i] : i \in 1 .. n} \cup {e}
<1>1. f \in [1 .. n -> S]
  <2>1. \A i \in 1 .. n : f[i] \in S
    OBVIOUS
  <2> HIDE DEF S
  <2> QED BY <2>1
<1>2. e \in S
  OBVIOUS
<1> HIDE DEF S
<1>3. f \in Seq(S)
  BY <1>1, SeqDef
<1>4. Len(f) = n
  <2>1. DOMAIN f = 1 .. Len(f) /\ Len(f) \in Nat /\ DOMAIN f = 1 .. n
    BY <1>1, <1>3, LenProperties
  <2> QED BY <2>1
<1>5. Append(f, e) \in Seq(S) /\ Len(Append(f, e)) = n + 1
  BY <1>2, <1>3, <1>4
<1>6. Append(f, e) \in [1 .. n + 1 -> S]
  BY <1>5, LenProperties
<1> QED BY <1>2, <1>3, <1>4, <1>5, <1>6

\* The values change with the value that was put.
LEMMA PutFromValues ==
  ASSUME ValuesAreStored, ValuesAreStored', NEW k \in ListKeys, NEW v,
         NEW j \in Stored', KeyOf(j)' = k, skipNodes'[j].value = v,
         Stored \subseteq Stored', Stored' \subseteq Stored \cup {j},
         \A i \in Stored : KeyOf(i)' = KeyOf(i)
                           /\ (i # j => skipNodes'[i].value = skipNodes[i].value)
  PROVE  Map!Put(k, v)
<1>1. Value(k)' = v
  BY DEF ValuesAreStored
<1>2. ASSUME NEW q \in ListKeys, q # k
      PROVE  Value(q)' = Value(q)
  <2>1. CASE \E i \in Stored : KeyOf(i) = q
    <3>1. PICK i \in Stored : KeyOf(i) = q
      BY <2>1
    <3>2. i \in Stored' /\ KeyOf(i)' = q /\ skipNodes'[i].value = skipNodes[i].value
      BY <1>2, <3>1
    <3>3. Value(q) = skipNodes[i].value
      BY <3>1 DEF ValuesAreStored
    <3>4. Value(q)' = skipNodes'[i].value
      BY <3>2 DEF ValuesAreStored
    <3> QED BY <3>2, <3>3, <3>4
  <2>2. CASE \A i \in Stored : KeyOf(i) # q
    <3>1. \A i \in Stored' : KeyOf(i)' # q
      BY <1>2, <2>2
    <3>2. Value(q) = Missing
      BY <2>2 DEF ValuesAreStored
    <3>3. Value(q)' = Missing
      BY <3>1 DEF ValuesAreStored
    <3> QED BY <3>2, <3>3
  <2> QED BY <2>1, <2>2
<1>3. [q \in ListKeys |-> Value(q)]' = [[q \in ListKeys |-> Value(q)] EXCEPT ![k] = v]
  <2>1. \A q \in ListKeys : Value(q)' = IF q = k THEN v ELSE Value(q)
    BY <1>1, <1>2
  <2> QED BY <2>1
<1> QED BY <1>3 DEF Map!Put

\* As a fact of every state, and of the state after a step.
LEMMA FindsAlways == SkipInv => ValuesAreStored
BY FindsStored

LEMMA FindsStoredNext == SkipInv' => ValuesAreStored'
BY FindsAlways, PTL

\* An update of a key that is there.
LEMMA SkipReplaceStep ==
  ASSUME SkipInv, NEW k \in ListKeys, NEW v \in ListValues, SkipReplace(k, v)
  PROVE  SkipInv' /\ Map!Put(k, v)
<1>1. PICK c : c = Candidate(k)
  OBVIOUS
<1>2. /\ skipNodes' = [skipNodes EXCEPT ![c].value = v]
      /\ skipHead' = skipHead /\ level' = level
      /\ c # Sentinel /\ KeyOf(c) = k
  BY <1>1 DEF SkipReplace, Found, KeyOf
<1>3. c \in Stored
  <2>1. k \in Int
    BY SkipFacts
  <2> QED BY <1>1, <1>2, <2>1, CandidateRight
<1>4. /\ SkipTypeOK /\ Len(skipNodes) \in Nat /\ skipNodes = [i \in Stored |-> skipNodes[i]]
      /\ \A i \in Stored :
           /\ KeyOf(i) \in ListKeys /\ skipNodes[i].value \in ListValues
           /\ skipNodes[i] = [key |-> KeyOf(i), value |-> skipNodes[i].value,
                              forward |-> skipNodes[i].forward]
  BY DEF SkipInv, SkipTypeOK
<1>5. /\ skipNodes' = [i \in Stored |-> skipNodes'[i]]
      /\ \A i \in Stored :
           skipNodes'[i] = IF i = c THEN [skipNodes[i] EXCEPT !.value = v] ELSE skipNodes[i]
  BY <1>2, <1>3, <1>4
<1>6. Len(skipNodes') = Len(skipNodes)
  BY <1>4, <1>5, ListedLength DEF Stored
<1>7. Stored' = Stored
  BY <1>6 DEF Stored
<1>8. \A i \in Stored : /\ KeyOf(i)' = KeyOf(i) /\ skipNodes'[i].key = KeyOf(i)
                        /\ skipNodes'[i].forward = skipNodes[i].forward
                        /\ skipNodes'[i].value = IF i = c THEN v ELSE skipNodes[i].value
                        /\ skipNodes'[i] = [key |-> KeyOf(i), value |-> skipNodes'[i].value,
                                            forward |-> skipNodes[i].forward]
  <2> TAKE i \in Stored
  <2>1. CASE i = c
    BY <1>4, <1>5, <2>1 DEF KeyOf
  <2>2. CASE i # c
    BY <1>4, <1>5, <2>2 DEF KeyOf
  <2> QED BY <2>1, <2>2
<1>9. SkipTypeOK'
  <2>1. /\ level' \in 1 .. MaxLevel /\ Len(skipNodes') \in Nat /\ DOMAIN skipNodes' = Stored'
        /\ skipNodes' = [i \in Stored' |-> skipNodes'[i]]
        /\ skipHead' = [l \in 1 .. MaxLevel |-> skipHead'[l]]
    BY <1>2, <1>4, <1>5, <1>6, <1>7 DEF SkipTypeOK
  <2>2. ASSUME NEW i \in Stored
        PROVE  /\ KeyOf(i)' \in ListKeys /\ skipNodes'[i].value \in ListValues
               /\ skipNodes'[i] = [key |-> KeyOf(i)', value |-> skipNodes'[i].value,
                                   forward |-> skipNodes'[i].forward]
               /\ skipNodes'[i].forward = [l \in DOMAIN skipNodes'[i].forward |-> skipNodes'[i].forward[l]]
               /\ \E h \in 1 .. level' : DOMAIN skipNodes'[i].forward = 1 .. h
    <3>1. /\ KeyOf(i) \in ListKeys /\ skipNodes[i].value \in ListValues
          /\ skipNodes[i].forward = [l \in DOMAIN skipNodes[i].forward |-> skipNodes[i].forward[l]]
          /\ \E h \in 1 .. level : DOMAIN skipNodes[i].forward = 1 .. h
      BY DEF SkipInv, SkipTypeOK
    <3> QED BY <1>2, <1>8, <3>1
  <2> QED BY <1>7, <2>1, <2>2 DEF SkipTypeOK
<1>10. \A l \in 1 .. MaxLevel : LevelNodes(l)' = LevelNodes(l)
  BY <1>7, <1>8 DEF LevelNodes, OnLevel
<1>11. \A l \in 1 .. MaxLevel, x \in Stored \cup {Sentinel} : Forward(x, l)' = Forward(x, l)
  BY <1>2, <1>8 DEF Forward
<1>12. \A x \in Stored \cup {Sentinel}, j \in Stored : Behind(j, x)' = Behind(j, x)
  BY <1>8 DEF Behind
<1>13. ASSUME NEW l \in 1 .. MaxLevel, NEW x \in LevelNodes(l) \cup {Sentinel}
       PROVE  LeadsOn(x, l)'
  <2>1. LeadsOn(x, l) /\ LevelNodes(l) \subseteq Stored /\ x \in Stored \cup {Sentinel}
    BY DEF SkipInv, LevelNodes
  <2>2. Forward(x, l)' = Forward(x, l) /\ LevelNodes(l)' = LevelNodes(l)
    BY <1>10, <1>11, <2>1
  <2> QED BY <1>8, <1>12, <2>1, <2>2 DEF LeadsOn
<1>14. \A i, j \in Stored' : KeyOf(i)' = KeyOf(j)' => i = j
  <2>1. \A i \in Stored : skipNodes'[i].key = KeyOf(i)
    BY <1>8
  <2>2. \A i, j \in Stored : KeyOf(i) = KeyOf(j) => i = j
    BY DEF SkipInv
  <2>3. \A i, j \in Stored : skipNodes'[i].key = skipNodes'[j].key => i = j
    BY ONLY <2>1, <2>2
  <2> QED BY <1>7, <2>3 DEF KeyOf
<1>15. SkipInv'
  BY <1>9, <1>10, <1>13, <1>14 DEF SkipInv
<1>16. ValuesAreStored /\ ValuesAreStored'
  BY <1>15, FindsStored, FindsStoredNext
<1>17. /\ c \in Stored' /\ KeyOf(c)' = k /\ skipNodes'[c].value = v
       /\ Stored \subseteq Stored' /\ Stored' \subseteq Stored \cup {c}
       /\ \A i \in Stored : KeyOf(i)' = KeyOf(i)
                            /\ (i # c => skipNodes'[i].value = skipNodes[i].value)
  BY <1>2, <1>3, <1>7, <1>8
<1>18. Map!Put(k, v)
  BY <1>16, <1>17, PutFromValues
<1> QED BY <1>15, <1>18

\* A node of a new key is linked behind the last node before it, on each of its
\* levels.
LEMMA SkipInsertStep ==
  ASSUME SkipInv, NEW k \in ListKeys, NEW v \in ListValues, NEW drawn \in 1 .. MaxLevel,
         SkipInsert(k, v, drawn)
  PROVE  SkipInv' /\ Map!Put(k, v)
<1>1. PICK n, u, e, g :
        /\ n = Len(skipNodes) + 1 /\ u = Update(k)
        /\ e = [key |-> k, value |-> v, forward |-> [l \in 1 .. drawn |-> Forward(u[l], l)]]
        /\ g = [i \in DOMAIN skipNodes |-> [skipNodes[i] EXCEPT !.forward =
                  [l \in DOMAIN @ |-> IF l <= drawn /\ u[l] = i THEN n ELSE @[l]]]]
  OBVIOUS
<1>2. /\ ~Found(k) /\ skipNodes' = Append(g, e)
      /\ skipHead' = [l \in 1 .. MaxLevel |-> IF l <= drawn /\ u[l] = Sentinel THEN n ELSE skipHead[l]]
      /\ level' = RaisedTo(drawn)
  BY <1>1 DEF SkipInsert
<1>3. /\ level \in 1 .. MaxLevel /\ MaxLevel \in Nat \ {0} /\ Len(skipNodes) \in Nat
      /\ DOMAIN skipNodes = Stored /\ k \in Int
      /\ \A i \in Stored : KeyOf(i) \in Int /\ i # Sentinel
  <2>1. DOMAIN skipNodes = Stored
    BY DEF SkipInv, SkipTypeOK
  <2> QED BY <2>1, SkipFacts
<1>4. \A i \in Stored :
        /\ KeyOf(i) \in ListKeys /\ skipNodes[i].value \in ListValues
        /\ skipNodes[i] = [key |-> KeyOf(i), value |-> skipNodes[i].value,
                           forward |-> skipNodes[i].forward]
        /\ \E h \in 1 .. level : DOMAIN skipNodes[i].forward = 1 .. h
  BY DEF SkipInv, SkipTypeOK
<1>5. g = [i \in 1 .. Len(skipNodes) |-> g[i]]
      /\ \A i \in Stored :
           g[i] = [key |-> KeyOf(i), value |-> skipNodes[i].value,
                   forward |-> [l \in DOMAIN skipNodes[i].forward |->
                      IF l <= drawn /\ u[l] = i THEN n ELSE skipNodes[i].forward[l]]]
  <2>1. g = [i \in 1 .. Len(skipNodes) |-> g[i]]
    BY <1>1, <1>3 DEF Stored
  <2>2. ASSUME NEW i \in Stored
        PROVE  g[i] = [key |-> KeyOf(i), value |-> skipNodes[i].value,
                   forward |-> [l \in DOMAIN skipNodes[i].forward |->
                      IF l <= drawn /\ u[l] = i THEN n ELSE skipNodes[i].forward[l]]]
    <3>1. g[i] = [skipNodes[i] EXCEPT !.forward =
                    [l \in DOMAIN @ |-> IF l <= drawn /\ u[l] = i THEN n ELSE @[l]]]
      BY <1>1, <1>3
    <3>2. skipNodes[i] = [key |-> KeyOf(i), value |-> skipNodes[i].value,
                          forward |-> skipNodes[i].forward]
      BY <1>4
    <3> QED BY <3>1, <3>2
  <2> QED BY <2>1, <2>2
<1>6. /\ Len(skipNodes') = n /\ n \in Nat /\ skipNodes'[n] = e
      /\ \A i \in Stored : skipNodes'[i] = g[i]
      /\ skipNodes' = [i \in 1 .. n |-> skipNodes'[i]]
  BY <1>1, <1>2, <1>3, <1>5, ListedLength DEF Stored
<1>7. Stored' = Stored \cup {n} /\ n \notin Stored /\ n # Sentinel /\ n \in Stored'
  BY <1>1, <1>3, <1>6 DEF Stored, Sentinel
<1>8. \A i \in Stored :
        /\ KeyOf(i)' = KeyOf(i) /\ skipNodes'[i].key = KeyOf(i)
        /\ skipNodes'[i].value = skipNodes[i].value
        /\ skipNodes'[i] = [key |-> KeyOf(i), value |-> skipNodes[i].value,
                            forward |-> skipNodes'[i].forward]
        /\ DOMAIN skipNodes'[i].forward = DOMAIN skipNodes[i].forward
        /\ skipNodes'[i].forward = [l \in DOMAIN skipNodes'[i].forward |-> skipNodes'[i].forward[l]]
        /\ \A l \in DOMAIN skipNodes[i].forward :
             skipNodes'[i].forward[l] = IF l <= drawn /\ u[l] = i THEN n ELSE skipNodes[i].forward[l]
  <2> TAKE i \in Stored
  <2>1. skipNodes'[i] = [key |-> KeyOf(i), value |-> skipNodes[i].value,
                   forward |-> [l \in DOMAIN skipNodes[i].forward |->
                      IF l <= drawn /\ u[l] = i THEN n ELSE skipNodes[i].forward[l]]]
    BY <1>5, <1>6
  <2>2. skipNodes'[i].forward = [l \in DOMAIN skipNodes[i].forward |->
                      IF l <= drawn /\ u[l] = i THEN n ELSE skipNodes[i].forward[l]]
    BY <2>1
  <2>3. KeyOf(i)' = skipNodes'[i].key
    BY DEF KeyOf
  <2> QED BY <2>1, <2>2, <2>3
<1>9. /\ KeyOf(n)' = k /\ skipNodes'[n].key = k /\ skipNodes'[n].value = v
      /\ skipNodes'[n] = [key |-> k, value |-> v, forward |-> skipNodes'[n].forward]
      /\ skipNodes'[n].forward = [l \in 1 .. drawn |-> Forward(u[l], l)]
      /\ DOMAIN skipNodes'[n].forward = 1 .. drawn
      /\ \A l \in 1 .. drawn : skipNodes'[n].forward[l] = Forward(u[l], l)
  BY <1>1, <1>6 DEF KeyOf
<1>10. level' \in 1 .. MaxLevel /\ level <= level' /\ drawn <= level'
  BY <1>2, <1>3 DEF RaisedTo
<1>11. SkipTypeOK'
  <2>1. /\ Len(skipNodes') \in Nat /\ DOMAIN skipNodes' = Stored'
        /\ skipNodes' = [i \in Stored' |-> skipNodes'[i]]
        /\ skipHead' = [l \in 1 .. MaxLevel |-> skipHead'[l]]
    BY <1>2, <1>6 DEF Stored
  <2>2. ASSUME NEW i \in Stored'
        PROVE  /\ KeyOf(i)' \in ListKeys /\ skipNodes'[i].value \in ListValues
               /\ skipNodes'[i] = [key |-> KeyOf(i)', value |-> skipNodes'[i].value,
                                   forward |-> skipNodes'[i].forward]
               /\ skipNodes'[i].forward = [l \in DOMAIN skipNodes'[i].forward |-> skipNodes'[i].forward[l]]
               /\ \E h \in 1 .. level' : DOMAIN skipNodes'[i].forward = 1 .. h
    <3>1. CASE i = n
      <4>1. drawn \in 1 .. level'
        BY <1>10
      <4>2. skipNodes'[n].forward = [l \in DOMAIN skipNodes'[n].forward |-> skipNodes'[n].forward[l]]
        BY <1>9
      <4> HIDE <1>1, <1>2
      <4> QED BY <1>9, <3>1, <4>1, <4>2
    <3>2. CASE i \in Stored
      <4>1. PICK h \in 1 .. level : DOMAIN skipNodes[i].forward = 1 .. h
        BY <1>4, <3>2
      <4>2. h \in 1 .. level'
        BY <1>3, <1>10, <4>1
      <4>3. KeyOf(i) \in ListKeys /\ skipNodes[i].value \in ListValues
        BY <1>4, <3>2
      <4> QED BY <1>8, <3>2, <4>1, <4>2, <4>3
    <3> QED BY <1>7, <3>1, <3>2
  <2> QED BY <1>10, <2>1, <2>2 DEF SkipTypeOK
<1>12. \A i \in Stored : KeyOf(i) # k
  <2>1. ValuesAreStored
    BY FindsStored
  <2> QED BY <1>2, <2>1 DEF ValuesAreStored
<1>13. \A i, j \in Stored' : KeyOf(i)' = KeyOf(j)' => i = j
  <2>1. \A i \in Stored : skipNodes'[i].key = KeyOf(i)
    BY <1>8
  <2>2. skipNodes'[n].key = k
    BY <1>9
  <2>3. \A i, j \in Stored : KeyOf(i) = KeyOf(j) => i = j
    BY DEF SkipInv
  <2>4. \A i, j \in Stored \cup {n} : skipNodes'[i].key = skipNodes'[j].key => i = j
    BY ONLY <1>12, <2>1, <2>2, <2>3
  <2> QED BY <1>7, <2>4 DEF KeyOf
<1>14. \A l \in 1 .. MaxLevel : LastBefore(u[l], l, k)
  BY <1>1, <1>3, UpdateRight
<1>15. ASSUME NEW l \in 1 .. MaxLevel, NEW x \in LevelNodes(l)' \cup {Sentinel}
       PROVE  LeadsOn(x, l)'
  <2>1. LevelNodes(l)' = LevelNodes(l) \cup {j \in {n} : l <= drawn}
    <3>1. \A i \in Stored : OnLevel(i, l)' = OnLevel(i, l)
      BY <1>8 DEF OnLevel
    <3>2. OnLevel(n, l)' = (l <= drawn)
      BY <1>9 DEF OnLevel
    <3> QED BY <1>7, <3>1, <3>2 DEF LevelNodes
  <2>2. LevelNodes(l) \subseteq Stored
    BY DEF LevelNodes
  <2>3. ASSUME NEW y \in LevelNodes(l) \cup {Sentinel}
        PROVE  Forward(y, l)' = IF l <= drawn /\ u[l] = y THEN n ELSE Forward(y, l)
    <3>1. CASE y = Sentinel
      BY <1>2, <3>1 DEF Forward
    <3>2. CASE y # Sentinel
      <4>1. y \in Stored /\ l \in DOMAIN skipNodes[y].forward
        BY <2>3, <3>2 DEF LevelNodes, OnLevel
      <4> QED BY <1>8, <3>2, <4>1 DEF Forward
    <3> QED BY <3>1, <3>2
  <2>4. l <= drawn => Forward(n, l)' = Forward(u[l], l)
    BY <1>7, <1>9 DEF Forward
  <2>5. ASSUME NEW y \in Stored \cup {Sentinel}
        PROVE  /\ \A j \in Stored : Behind(j, y)' = Behind(j, y)
               /\ Behind(n, y)' = Before(y, k)
    BY <1>8, <1>9, <2>5 DEF Behind, Before
  <2>6. \A j \in Stored : Behind(j, n)' = (k < KeyOf(j))
    <3> TAKE j \in Stored
    <3>1. skipNodes'[j].key = KeyOf(j) /\ skipNodes'[n].key = k
      BY <1>8, <1>9
    <3> QED BY <1>7, <3>1 DEF Behind, KeyOf
  <2>7. ~Behind(n, n)'
    BY <1>3, <1>7, <1>9 DEF Behind
  <2>8. /\ u[l] \in LevelNodes(l) \cup {Sentinel} /\ Before(u[l], k)
        /\ ~Passes(Forward(u[l], l), k) /\ LeadsOn(u[l], l)
    BY <1>14 DEF LastBefore, SkipInv
  <2>9. CASE x = n
    <3>1. l <= drawn
      BY <1>7, <2>1, <2>2, <2>9
    <3>0. PICK f : f = Forward(u[l], l)
      OBVIOUS
    <3>2. \A j \in LevelNodes(l) : k < KeyOf(j) => Behind(j, u[l])
      <4> SUFFICES ASSUME NEW j \in LevelNodes(l), k < KeyOf(j) PROVE Behind(j, u[l])
        OBVIOUS
      <4>1. CASE u[l] = Sentinel
        BY <4>1 DEF Behind
      <4>2. CASE u[l] # Sentinel
        <5>1. KeyOf(u[l]) < k /\ KeyOf(u[l]) \in Int /\ KeyOf(j) \in Int
          BY <1>3, <2>2, <2>8, <4>2 DEF Before
        <5> QED BY <1>3, <5>1 DEF Behind
      <4> QED BY <4>1, <4>2
    <3>3. Forward(n, l)' = f
      BY <2>4, <3>0, <3>1
    <3>4. CASE f = Sentinel
      <4>1. \A j \in LevelNodes(l) : ~(k < KeyOf(j))
        BY <2>8, <3>0, <3>2, <3>4 DEF LeadsOn
      <4>2. \A j \in LevelNodes(l)' : ~Behind(j, n)'
        BY <2>1, <2>2, <2>6, <2>7, <4>1
      <4> QED BY <2>9, <3>3, <3>4, <4>2 DEF LeadsOn
    <3>5. CASE f # Sentinel
      <4>1. /\ f \in LevelNodes(l)
            /\ \A j \in LevelNodes(l) : Behind(j, u[l]) => KeyOf(f) <= KeyOf(j)
        BY <2>8, <3>0, <3>5 DEF LeadsOn
      <4>2. k < KeyOf(f)
        <5>1. ~(KeyOf(f) < k) /\ KeyOf(f) # k /\ KeyOf(f) \in Int
          BY <1>3, <1>12, <2>2, <2>8, <3>0, <3>5, <4>1 DEF Passes, KeyOf
        <5> QED BY <1>3, <5>1
      <4>3. f \in LevelNodes(l)' /\ Behind(f, n)'
        BY <2>1, <2>2, <2>6, <4>1, <4>2
      <4>4. \A j \in LevelNodes(l)' : Behind(j, n)' => KeyOf(f)' <= KeyOf(j)'
        <5> TAKE j \in LevelNodes(l)'
        <5> HAVE Behind(j, n)'
        <5>1. j \in LevelNodes(l) /\ k < KeyOf(j)
          BY <2>1, <2>2, <2>6, <2>7
        <5>2. KeyOf(f) <= KeyOf(j)
          BY <3>2, <4>1, <5>1
        <5>3. skipNodes'[f].key = KeyOf(f) /\ skipNodes'[j].key = KeyOf(j)
          BY <1>8, <2>2, <4>1, <5>1
        <5> QED BY <5>2, <5>3 DEF KeyOf
      <4> QED BY <2>9, <3>3, <3>5, <4>3, <4>4 DEF LeadsOn
    <3> QED BY <3>4, <3>5
  <2>10. CASE x # n /\ l <= drawn /\ u[l] = x
    <3>1. Forward(x, l)' = n /\ x \in LevelNodes(l) \cup {Sentinel}
      BY <2>1, <2>3, <2>10
    <3>2. n \in LevelNodes(l)' /\ Behind(n, x)'
      <4>1. x \in Stored \cup {Sentinel}
        BY <2>2, <3>1
      <4> QED BY <2>1, <2>5, <2>8, <2>10, <4>1
    <3>3. \A j \in LevelNodes(l)' : Behind(j, x)' => KeyOf(n)' <= KeyOf(j)'
      <4> TAKE j \in LevelNodes(l)'
      <4> HAVE Behind(j, x)'
      <4>1. CASE j = n
        BY <1>3, <1>9, <4>1
      <4>2. CASE j # n
        <5>1. j \in LevelNodes(l) /\ j \in Stored /\ x \in Stored \cup {Sentinel}
          BY <2>1, <2>2, <3>1, <4>2
        <5>2. Behind(j, x)
          BY <2>5, <5>1
        <5> DEFINE f == Forward(x, l)
        <5>3. f # Sentinel /\ f \in LevelNodes(l) /\ KeyOf(f) <= KeyOf(j)
          BY <2>8, <2>10, <5>1, <5>2 DEF LeadsOn
        <5>4. ~(KeyOf(f) < k)
          BY <2>8, <2>10, <5>3 DEF Passes, KeyOf
        <5>5. k <= KeyOf(j)
          <6>1. KeyOf(f) \in Int /\ KeyOf(j) \in Int
            BY <1>3, <2>2, <5>1, <5>3
          <6> HIDE DEF f
          <6> QED BY <1>3, <5>3, <5>4, <6>1
        <5> QED BY <1>8, <1>9, <5>1, <5>5
      <4> QED BY <4>1, <4>2
    <3> QED BY <1>7, <3>1, <3>2, <3>3 DEF LeadsOn
  <2>11. CASE x # n /\ ~(l <= drawn /\ u[l] = x)
    <3>1. x \in LevelNodes(l) \cup {Sentinel} /\ x \in Stored \cup {Sentinel} /\ LeadsOn(x, l)
      BY <2>1, <2>2, <2>11 DEF SkipInv
    <3>2. Forward(x, l)' = Forward(x, l)
      BY <2>3, <2>11, <3>1
    <3>3. l <= drawn /\ Before(x, k) => Passes(Forward(x, l), k)
      <4> SUFFICES ASSUME l <= drawn, Before(x, k), ~Passes(Forward(x, l), k)
                   PROVE  FALSE
        OBVIOUS
      <4>1. LastBefore(x, l, k)
        BY <3>1 DEF LastBefore
      <4>2. u[l] = x
        BY <1>3, <1>14, <4>1, LastIsOne
      <4> QED BY <2>11, <4>2
    <3>f. PICK f : f = Forward(x, l)
      OBVIOUS
    <3>4. CASE f = Sentinel
      <4>1. \A j \in LevelNodes(l) : ~Behind(j, x)
        BY <3>1, <3>f, <3>4 DEF LeadsOn
      <4>2. l <= drawn => ~Before(x, k)
        BY <3>3, <3>f, <3>4 DEF Passes
      <4>3. \A j \in LevelNodes(l)' : ~Behind(j, x)'
        BY <2>1, <2>2, <2>5, <3>1, <4>1, <4>2
      <4> QED BY <3>2, <3>f, <3>4, <4>3 DEF LeadsOn
    <3>5. CASE f # Sentinel
      <4>1. /\ f \in LevelNodes(l) /\ Behind(f, x)
            /\ \A j \in LevelNodes(l) : Behind(j, x) => KeyOf(f) <= KeyOf(j)
        BY <3>1, <3>f, <3>5 DEF LeadsOn
      <4>2. l <= drawn /\ Before(x, k) => KeyOf(f) < k
        BY <3>3, <3>f DEF Passes, KeyOf
      <4>3. f \in LevelNodes(l)' /\ Behind(f, x)' /\ f \in Stored
        BY <2>1, <2>2, <2>5, <3>1, <4>1
      <4>4. \A j \in LevelNodes(l)' : Behind(j, x)' => KeyOf(f)' <= KeyOf(j)'
        <5> TAKE j \in LevelNodes(l)'
        <5> HAVE Behind(j, x)'
        <5>1. CASE j = n
          <6>1. l <= drawn /\ Before(x, k)
            BY <1>7, <2>1, <2>2, <2>5, <3>1, <5>1
          <6>2. KeyOf(f) < k /\ KeyOf(f) \in Int
            BY <1>3, <4>2, <4>3, <6>1
          <6>3. skipNodes'[f].key = KeyOf(f) /\ skipNodes'[j].key = k
            BY <1>8, <1>9, <4>3, <5>1
          <6> QED BY <1>3, <6>2, <6>3 DEF KeyOf
        <5>2. CASE j # n
          <6>1. j \in LevelNodes(l) /\ j \in Stored
            BY <2>1, <2>2, <5>2
          <6>2. Behind(j, x)
            BY <2>5, <3>1, <6>1
          <6>3. skipNodes'[f].key = KeyOf(f) /\ skipNodes'[j].key = KeyOf(j)
            BY <1>8, <4>3, <6>1
          <6> QED BY <4>1, <6>1, <6>2, <6>3 DEF KeyOf
        <5> QED BY <5>1, <5>2
      <4>5. Forward(x, l)' = f
        BY <3>2, <3>f
      <4> QED BY <3>5, <4>3, <4>4, <4>5 DEF LeadsOn
    <3> QED BY <3>4, <3>5
  <2> QED BY <2>9, <2>10, <2>11
<1>16. SkipInv'
  BY <1>11, <1>13, <1>15 DEF SkipInv
<1>17. ValuesAreStored /\ ValuesAreStored'
  BY <1>16, FindsStored, FindsStoredNext
<1>18. /\ n \in Stored' /\ KeyOf(n)' = k /\ skipNodes'[n].value = v
       /\ Stored \subseteq Stored' /\ Stored' \subseteq Stored \cup {n}
       /\ \A i \in Stored : KeyOf(i)' = KeyOf(i)
                            /\ (i # n => skipNodes'[i].value = skipNodes[i].value)
  BY <1>7, <1>8, <1>9
<1>19. Map!Put(k, v)
  BY <1>17, <1>18, PutFromValues
<1> QED BY <1>16, <1>19

-----------------------------------------------------------------------------
(* Scans of the skip list.                                                 *)

\* The scans of up to k nodes, given those of k - 1.
ScanEnds(i, upper) == i = Sentinel \/ \E b \in upper : skipNodes[i].key >= b
ScanTakes(i, lower) ==
  IF \A b \in lower : skipNodes[i].key >= b THEN <<skipNodes[i].key>> ELSE <<>>
ScansOf(f, lower, upper, k) ==
  [i \in 0 .. Len(skipNodes) |->
     IF k = 0 \/ ScanEnds(i, upper) THEN <<>>
     ELSE ScanTakes(i, lower) \o f[k - 1][Forward(i, 1)]]

\* f has the scans of up to n nodes.
ScanWalks(f, lower, upper, n) == f = [k \in 0 .. n |-> ScansOf(f, lower, upper, k)]

\* The scans of k nodes depend on those of k - 1 only.
LEMMA SameScansOf ==
  ASSUME NEW f, NEW g, NEW lower, NEW upper, NEW k \in Nat, k # 0 => f[k - 1] = g[k - 1]
  PROVE  ScansOf(f, lower, upper, k) = ScansOf(g, lower, upper, k)
<1>1. CASE k = 0
  BY <1>1 DEF ScansOf
<1>2. CASE k # 0
  BY <1>2 DEF ScansOf
<1> QED BY <1>1, <1>2

\* The scans of up to N nodes exist.
LEMMA ScansExist ==
  ASSUME NEW lower, NEW upper, NEW N \in Nat
  PROVE  \E f : ScanWalks(f, lower, upper, N)
<1> DEFINE Scanned(n) == \E f : ScanWalks(f, lower, upper, n)
           Lacking == {n \in 0 .. N : ~Scanned(n)}
<1> SUFFICES ASSUME Lacking # {}
             PROVE  FALSE
  <2>1. N \notin Lacking => Scanned(N)
    OBVIOUS
  <2> QED BY <2>1
<1>1. Lacking \subseteq Nat
  OBVIOUS
<1> DEFINE m == Min(Lacking)
<1>2. m \in Lacking /\ \A q \in Lacking : m <= q
  <2> HIDE DEF Lacking
  <2> QED BY <1>1, MinIsIn
<1> HIDE DEF m
<1>3. m \in 0 .. N /\ ~Scanned(m)
  BY <1>2
<1>4. \E f : \A k \in 0 .. m - 1 : f[k] = ScansOf(f, lower, upper, k)
  <2>1. CASE m = 0
    BY <2>1
  <2>2. CASE m # 0
    <3>1. m - 1 \in 0 .. N /\ m - 1 \notin Lacking
      BY <1>2, <1>3, <2>2
    <3>2. PICK f : ScanWalks(f, lower, upper, m - 1)
      BY <3>1
    <3> QED BY <3>2 DEF ScanWalks
  <2> QED BY <2>1, <2>2
<1>5. PICK f : \A k \in 0 .. m - 1 : f[k] = ScansOf(f, lower, upper, k)
  BY <1>4
<1> DEFINE g == [k \in 0 .. m |-> IF k = m THEN ScansOf(f, lower, upper, m) ELSE f[k]]
<1>6. g = [k \in 0 .. m |-> g[k]] /\ g[m] = ScansOf(f, lower, upper, m)
      /\ \A k \in 0 .. m - 1 : g[k] = f[k]
  BY <1>3
<1> HIDE DEF g
<1>7. \A k \in 0 .. m : g[k] = ScansOf(g, lower, upper, k)
  <2> TAKE k \in 0 .. m
  <2>1. k # 0 => f[k - 1] = g[k - 1]
    <3>1. m \in Nat /\ k \in 0 .. m
      BY <1>3
    <3>2. k # 0 => k - 1 \in 0 .. m - 1
      BY ONLY <3>1
    <3> QED BY <1>6, <3>2
  <2>2. ScansOf(f, lower, upper, k) = ScansOf(g, lower, upper, k)
    BY <2>1, SameScansOf
  <2>3. CASE k = m
    BY <1>6, <2>2, <2>3
  <2>4. CASE k # m
    <3>1. k \in 0 .. m - 1
      BY <1>3, <2>4
    <3> QED BY <1>5, <1>6, <2>2, <3>1
  <2> QED BY <2>3, <2>4
<1>8. ScanWalks(g, lower, upper, m)
  BY <1>6, <1>7 DEF ScanWalks
<1> QED BY <1>3, <1>8

\* A sequence that returns K, and a lower key before it.
Listed(t, K) == t \in Seq(Int) /\ Returns(t, K)

\* The scan that returns nothing.
LEMMA NoneListed == Listed(<<>>, {})
<1>1. <<>> \in Seq(Int) /\ DOMAIN <<>> = {}
  OBVIOUS
<1>2. Range(<<>>) = {}
  BY <1>1 DEF Range
<1> QED BY <1>1, <1>2 DEF Listed, Returns

\* A scan with a lower key before it.
LEMMA OneMoreListed ==
  ASSUME NEW t, NEW K, Listed(t, K), NEW e \in Int, \A q \in K : e < q
  PROVE  Listed(<<e>> \o t, K \cup {e})
<1>1. t \in Seq(Int) /\ Len(t) \in Nat /\ DOMAIN t = 1 .. Len(t)
      /\ K = {t[i] : i \in DOMAIN t} /\ \A i, j \in DOMAIN t : i < j => t[i] < t[j]
  BY DEF Listed, Returns, Range
<1> DEFINE s == <<e>> \o t
<1>2. <<e>> \in Seq(Int) /\ Len(<<e>>) = 1 /\ <<e>>[1] = e
  OBVIOUS
<1>3. s \in Seq(Int) /\ Len(s) = 1 + Len(t)
      /\ \A i \in 1 .. Len(s) : s[i] = IF i <= 1 THEN <<e>>[i] ELSE t[i - 1]
  BY <1>1, <1>2, ConcatProperties
<1> HIDE DEF s
<1>4. DOMAIN s = 1 .. Len(t) + 1 /\ s[1] = e /\ \A i \in 1 .. Len(t) : s[i + 1] = t[i]
  <2>1. DOMAIN s = 1 .. Len(s) /\ Len(s) = Len(t) + 1
    BY <1>1, <1>3
  <2>2. s[1] = e
    BY <1>1, <1>2, <1>3
  <2>3. ASSUME NEW i \in 1 .. Len(t)
        PROVE  s[i + 1] = t[i]
    <3>1. i + 1 \in 1 .. Len(s) /\ ~(i + 1 <= 1) /\ (i + 1) - 1 = i
      BY <1>1, <2>1
    <3> QED BY <1>3, <3>1
  <2> QED BY <2>1, <2>2, <2>3
<1>5. \A i \in DOMAIN s : i = 1 \/ (i - 1 \in 1 .. Len(t) /\ s[i] = t[i - 1])
  BY <1>1, <1>2, <1>3, <1>4
<1>6. {s[i] : i \in DOMAIN s} = K \cup {e}
  <2>1. \A i \in DOMAIN s : s[i] \in K \cup {e}
    BY <1>1, <1>4, <1>5
  <2>2. e \in {s[i] : i \in DOMAIN s}
    BY <1>1, <1>4
  <2>3. ASSUME NEW q \in K PROVE q \in {s[i] : i \in DOMAIN s}
    <3>1. PICK i \in 1 .. Len(t) : q = t[i]
      BY <1>1
    <3>2. i + 1 \in DOMAIN s /\ s[i + 1] = q
      BY <1>1, <1>4, <3>1
    <3> QED BY <3>2
  <2> QED BY <2>1, <2>2, <2>3
<1>7. \A i, j \in DOMAIN s : i < j => s[i] < s[j]
  <2> TAKE i, j \in DOMAIN s
  <2> HAVE i < j
  <2>1. i \in Nat /\ j \in Nat /\ 1 <= i /\ j # 1
    BY <1>1, <1>4
  <2>2. j - 1 \in 1 .. Len(t) /\ s[j] = t[j - 1]
    BY <1>5, <2>1
  <2>3. CASE i = 1
    <3>1. t[j - 1] \in K
      BY <1>1, <2>2
    <3> QED BY <1>4, <2>2, <2>3, <3>1
  <2>4. CASE i # 1
    <3>1. i - 1 \in 1 .. Len(t) /\ s[i] = t[i - 1]
      BY <1>5, <2>4
    <3>2. i - 1 < j - 1
      BY <2>1
    <3> QED BY <1>1, <2>2, <3>1, <3>2
  <2> QED BY <2>3, <2>4
<1> QED BY <1>3, <1>6, <1>7 DEF Listed, Returns, Range, s

\* The nodes a scan from i may still pass, and the keys it takes of them.
Rest(i, upper) ==
  {j \in Stored : i # Sentinel /\ KeyOf(i) <= KeyOf(j) /\ \A b \in upper : KeyOf(j) < b}
Taken(i, lower, upper) == {KeyOf(j) : j \in {q \in Rest(i, upper) : \A b \in lower : KeyOf(q) >= b}}

\* There are no more of them than nodes.
LEMMA RestFinite ==
  ASSUME SkipInv, NEW i, NEW upper
  PROVE  /\ IsFiniteSet(Rest(i, upper)) /\ Cardinality(Rest(i, upper)) \in Nat
         /\ Cardinality(Rest(i, upper)) <= Len(skipNodes)
<1>1. Len(skipNodes) \in Nat
  BY SkipFacts
<1>2. IsFiniteSet(Stored) /\ Cardinality(Stored) = Len(skipNodes)
  <2>1. IsFiniteSet(Stored) /\ Cardinality(Stored) = IF 1 > Len(skipNodes) THEN 0 ELSE Len(skipNodes) - 1 + 1
    BY <1>1, FS_Interval DEF Stored
  <2> QED BY <1>1, <2>1
<1>3. Rest(i, upper) \in SUBSET Stored
  BY DEF Rest
<1>4. IsFiniteSet(Rest(i, upper)) /\ Cardinality(Rest(i, upper)) <= Len(skipNodes)
  BY <1>2, <1>3, FS_Subset
<1> QED BY <1>4, FS_CardinalityType

\* Where a scan ends nothing is left; where it goes on, one node less.
LEMMA ScanGetsOn ==
  ASSUME SkipInv, NEW upper \in SUBSET Int, NEW i \in Stored \cup {Sentinel}
  PROVE  /\ ScanEnds(i, upper) => Rest(i, upper) = {}
         /\ ~ScanEnds(i, upper) =>
              /\ i \in Stored /\ i \in Rest(i, upper)
              /\ Forward(i, 1) \in Stored \cup {Sentinel}
              /\ Rest(Forward(i, 1), upper) = Rest(i, upper) \ {i}
              /\ \A j \in Rest(Forward(i, 1), upper) : KeyOf(i) < KeyOf(j)
<1>1. \A j \in Stored : KeyOf(j) \in Int /\ j # Sentinel /\ OnLevel(j, 1)
  BY SkipFacts
<1>2. \A a, b \in Stored : KeyOf(a) = KeyOf(b) => a = b
  BY SkipFacts
<1>3. LevelNodes(1) = Stored /\ 1 \in 1 .. MaxLevel
  BY <1>1, SkipFacts DEF LevelNodes
<1>4. ASSUME ScanEnds(i, upper)
      PROVE  Rest(i, upper) = {}
  <2>1. CASE i = Sentinel
    BY <2>1 DEF Rest
  <2>2. CASE i # Sentinel
    <3>1. PICK b \in upper : KeyOf(i) >= b
      BY <1>4, <2>2 DEF ScanEnds, KeyOf
    <3>2. \A j \in Stored : ~(KeyOf(i) <= KeyOf(j) /\ KeyOf(j) < b)
      BY <1>1, <2>2, <3>1
    <3> QED BY <3>2 DEF Rest
  <2> QED BY <2>1, <2>2
<1>5. ASSUME ~ScanEnds(i, upper)
      PROVE  /\ i \in Stored /\ i \in Rest(i, upper)
             /\ Forward(i, 1) \in Stored \cup {Sentinel}
             /\ Rest(Forward(i, 1), upper) = Rest(i, upper) \ {i}
             /\ \A j \in Rest(Forward(i, 1), upper) : KeyOf(i) < KeyOf(j)
  <2>1. i \in Stored /\ i # Sentinel /\ KeyOf(i) \in Int /\ \A b \in upper : ~(KeyOf(i) >= b)
    BY <1>1, <1>5 DEF ScanEnds, KeyOf
  <2>2. i \in Rest(i, upper)
    BY <2>1 DEF Rest
  <2>3. PICK f : f = Forward(i, 1)
    OBVIOUS
  <2>4. IF f = Sentinel THEN \A j \in Stored : ~Behind(j, i)
        ELSE /\ f \in Stored /\ Behind(f, i)
             /\ \A j \in Stored : Behind(j, i) => KeyOf(f) <= KeyOf(j)
    BY <1>3, <2>1, <2>3 DEF SkipInv, LeadsOn
  <2>5. \A j \in Stored : Behind(j, i) <=> KeyOf(i) < KeyOf(j)
    BY <2>1 DEF Behind
  <2>6. f \in Stored \cup {Sentinel}
    BY <2>4
  <2>7. ASSUME NEW j \in Stored
        PROVE  (f # Sentinel /\ KeyOf(f) <= KeyOf(j)) <=> (KeyOf(i) <= KeyOf(j) /\ j # i)
    <3>1. KeyOf(i) <= KeyOf(j) /\ j # i <=> KeyOf(i) < KeyOf(j)
      <4>1. KeyOf(i) # KeyOf(j) \/ i = j
        BY <1>2, <2>1
      <4> QED BY <1>1, <2>1, <4>1
    <3>2. CASE f = Sentinel
      BY <2>4, <2>5, <3>1, <3>2
    <3>3. CASE f # Sentinel
      <4>1. f \in Stored /\ KeyOf(i) < KeyOf(f) /\ (KeyOf(i) < KeyOf(j) => KeyOf(f) <= KeyOf(j))
        BY <2>4, <2>5, <3>3
      <4>2. KeyOf(f) \in Int /\ KeyOf(j) \in Int
        BY <1>1, <4>1
      <4>3. KeyOf(f) <= KeyOf(j) => KeyOf(i) < KeyOf(j)
        BY ONLY <4>1, <4>2, <2>1
      <4> QED BY <3>1, <3>3, <4>1, <4>3
    <3> QED BY <3>2, <3>3
  <2>8. Rest(f, upper) = Rest(i, upper) \ {i}
    BY <2>1, <2>7 DEF Rest
  <2>9. \A j \in Rest(f, upper) : KeyOf(i) < KeyOf(j)
    <3> TAKE j \in Rest(f, upper)
    <3>1. j \in Stored /\ KeyOf(i) <= KeyOf(j) /\ j # i
      BY <2>7 DEF Rest
    <3>2. KeyOf(i) # KeyOf(j) /\ KeyOf(j) \in Int
      BY <1>1, <1>2, <2>1, <3>1
    <3> QED BY <2>1, <3>1, <3>2
  <2> QED BY <2>1, <2>2, <2>3, <2>6, <2>8, <2>9
<1> QED BY <1>4, <1>5

\* A scan from a node returns the keys it may still take.
LEMMA ScanRight ==
  ASSUME SkipInv, NEW lower \in SUBSET Int, NEW upper \in SUBSET Int,
         NEW first \in Stored \cup {Sentinel}
  PROVE  Returns(ScanFrom(first, lower, upper), Taken(first, lower, upper))
<1> DEFINE N == Len(skipNodes)
           Ends(i) == i = Sentinel \/ \E b \in upper : skipNodes[i].key >= b
           Takes(i) == IF \A b \in lower : skipNodes[i].key >= b THEN <<skipNodes[i].key>> ELSE <<>>
           Row(g, k) == [i \in 0 .. N |->
             IF k = 0 \/ Ends(i) THEN <<>> ELSE Takes(i) \o g[k - 1][Forward(i, 1)]]
           from == CHOOSE g : g = [k \in 0 .. N |-> Row(g, k)]
<1>1. \A g, k : Row(g, k) = ScansOf(g, lower, upper, k)
  BY DEF ScansOf, ScanEnds, ScanTakes
<1>2. ScanFrom(first, lower, upper) = from[N][first]
  BY DEF ScanFrom
<1> HIDE DEF Row
<1>3. N \in Nat /\ \A i \in Stored \cup {Sentinel} : i \in 0 .. N
  BY SkipFacts DEF Stored, Sentinel
<1>4. \E g : g = [k \in 0 .. N |-> Row(g, k)]
  <2>1. PICK g : ScanWalks(g, lower, upper, N)
    BY <1>3, ScansExist
  <2> QED BY <1>1, <2>1 DEF ScanWalks
<1>5. from = [k \in 0 .. N |-> Row(from, k)]
  BY <1>4
<1> HIDE DEF from
<1>6. \A k \in 0 .. N : from[k] = ScansOf(from, lower, upper, k)
  BY <1>1, <1>5
<1> DEFINE Right(n) == \A i \in Stored \cup {Sentinel} :
             Cardinality(Rest(i, upper)) <= n => Listed(from[n][i], Taken(i, lower, upper))
           Wrong == {n \in 0 .. N : ~Right(n)}
<1>7. Wrong = {}
  <2> SUFFICES ASSUME Wrong # {} PROVE FALSE
    OBVIOUS
  <2>1. Wrong \subseteq Nat
    BY <1>3
  <2> DEFINE n == Min(Wrong)
  <2>2. n \in Wrong /\ \A q \in Wrong : n <= q
    <3> HIDE DEF Wrong
    <3> QED BY <2>1, MinIsIn
  <2> HIDE DEF n
  <2>3. n \in 0 .. N /\ n \in Nat /\ ~Right(n)
    BY <1>3, <2>2
  <2>4. PICK i \in Stored \cup {Sentinel} :
          Cardinality(Rest(i, upper)) <= n /\ ~Listed(from[n][i], Taken(i, lower, upper))
    BY <2>3
  <2>5. from[n][i] = IF n = 0 \/ ScanEnds(i, upper) THEN <<>>
                     ELSE ScanTakes(i, lower) \o from[n - 1][Forward(i, 1)]
    <3>1. from[n] = ScansOf(from, lower, upper, n) /\ i \in 0 .. N
      BY <1>3, <1>6, <2>3
    <3>2. ScansOf(from, lower, upper, n)[i]
            = IF n = 0 \/ ScanEnds(i, upper) THEN <<>>
              ELSE ScanTakes(i, lower) \o from[n - 1][Forward(i, 1)]
      BY <3>1 DEF ScansOf
    <3> QED BY ONLY <3>1, <3>2
  <2>6. /\ IsFiniteSet(Rest(i, upper)) /\ Cardinality(Rest(i, upper)) \in Nat
    BY RestFinite
  <2>7. CASE ScanEnds(i, upper)
    <3>1. Taken(i, lower, upper) = {}
      BY <2>7, ScanGetsOn DEF Taken
    <3> QED BY <2>4, <2>5, <2>7, <3>1, NoneListed
  <2>8. CASE ~ScanEnds(i, upper)
    <3>1. PICK f : f = Forward(i, 1)
      OBVIOUS
    <3>2. /\ i \in Stored /\ i \in Rest(i, upper) /\ f \in Stored \cup {Sentinel}
          /\ Rest(f, upper) = Rest(i, upper) \ {i}
          /\ \A j \in Rest(f, upper) : KeyOf(i) < KeyOf(j)
      BY <2>8, <3>1, ScanGetsOn
    <3>3. Cardinality(Rest(f, upper)) = Cardinality(Rest(i, upper)) - 1
      <4>1. PICK R : R = Rest(i, upper)
        OBVIOUS
      <4>2. Cardinality(R \ {i}) = Cardinality(R) - 1
        BY <2>6, <3>2, <4>1, FS_RemoveElement
      <4> QED BY <3>2, <4>1, <4>2
    <3>4. Cardinality(Rest(f, upper)) \in Nat
      BY RestFinite
    <3>5. n > 0 /\ n - 1 \in 0 .. N /\ Cardinality(Rest(f, upper)) <= n - 1 /\ ~(n <= n - 1)
      BY <1>3, <2>3, <2>4, <2>6, <3>3, <3>4
    <3>6. Right(n - 1)
      <4>1. n - 1 \notin Wrong
        BY <2>2, <3>5
      <4> QED BY <3>5, <4>1
    <3>7. PICK t : t = from[n - 1][f] /\ Listed(t, Taken(f, lower, upper))
      BY <3>2, <3>5, <3>6
    <3>8. from[n][i] = ScanTakes(i, lower) \o t
      BY <2>3, <2>5, <2>8, <3>1, <3>5, <3>7
    <3>9. KeyOf(i) \in Int
      BY <3>2, SkipFacts
    <3>10. CASE \A b \in lower : KeyOf(i) >= b
      <4>1. ScanTakes(i, lower) = <<KeyOf(i)>>
        BY <3>10 DEF ScanTakes, KeyOf
      <4>2. Taken(i, lower, upper) = Taken(f, lower, upper) \cup {KeyOf(i)}
        BY <3>2, <3>10 DEF Taken
      <4>3. \A q \in Taken(f, lower, upper) : KeyOf(i) < q
        BY <3>2 DEF Taken
      <4> QED BY <2>4, <3>7, <3>8, <3>9, <4>1, <4>2, <4>3, OneMoreListed
    <3>11. CASE ~(\A b \in lower : KeyOf(i) >= b)
      <4>1. ScanTakes(i, lower) = <<>>
        BY <3>11 DEF ScanTakes, KeyOf
      <4>2. Taken(i, lower, upper) = Taken(f, lower, upper)
        BY <3>2, <3>11 DEF Taken
      <4>3. <<>> \o t = t
        BY <3>7 DEF Listed
      <4> QED BY <2>4, <3>7, <3>8, <4>1, <4>2, <4>3
    <3> QED BY <3>10, <3>11
  <2> QED BY <2>7, <2>8
<1>8. Right(N)
  <2>1. N \in 0 .. N /\ N \notin Wrong
    BY <1>3, <1>7
  <2> QED BY <2>1
<1>9. Cardinality(Rest(first, upper)) <= N
  BY RestFinite
<1> QED BY <1>2, <1>8, <1>9 DEF Listed

\* The keys of nodes are the keys that are found.
LEMMA StoredKeys ==
  ASSUME SkipInv
  PROVE  {KeyOf(j) : j \in Stored} = {k \in ListKeys : Found(k)}
<1>1. ValuesAreStored
  BY FindsStored
<1>2. \A j \in Stored : KeyOf(j) \in ListKeys
  BY SkipFacts
<1>3. \A k \in ListKeys : Found(k) <=> \E j \in Stored : KeyOf(j) = k
  BY <1>1 DEF ValuesAreStored
<1> QED BY <1>2, <1>3

\* What every scan returns.
ScansAreExact ==
  /\ Returns(SortedKeys, {k \in ListKeys : Found(k)})
  /\ \A lo, hi \in ListKeys : RangeIsExact(lo, hi)

\* In every state the invariant allows, scans are exact.
LEMMA ScansRight ==
  ASSUME SkipInv
  PROVE  ScansAreExact
<1>1. ListKeys \subseteq Int /\ \A i \in Stored : KeyOf(i) \in Int /\ i # Sentinel /\ OnLevel(i, 1)
  BY SkipFacts
<1>2. LevelNodes(1) = Stored /\ 1 \in 1 .. MaxLevel
  BY <1>1, SkipFacts DEF LevelNodes
<1>3. {KeyOf(j) : j \in Stored} = {k \in ListKeys : Found(k)}
  BY StoredKeys
<1>4. Returns(SortedKeys, {k \in ListKeys : Found(k)})
  <2>1. PICK h : h = skipHead[1]
    OBVIOUS
  <2>2. h = Forward(Sentinel, 1) /\ LeadsOn(Sentinel, 1)
    BY <1>2, <2>1 DEF SkipInv, Forward
  <2>3. IF h = Sentinel THEN Stored = {}
        ELSE h \in Stored /\ \A j \in Stored : KeyOf(h) <= KeyOf(j)
    BY <1>2, <2>2 DEF LeadsOn, Behind
  <2>4. Taken(h, {}, {}) = {KeyOf(j) : j \in Stored}
    BY <2>3 DEF Taken, Rest
  <2>5. Returns(ScanFrom(h, {}, {}), Taken(h, {}, {}))
    BY <2>3, ScanRight
  <2> QED BY <1>3, <2>1, <2>4, <2>5 DEF SortedKeys
<1>5. ASSUME NEW lo \in ListKeys, NEW hi \in ListKeys
      PROVE  Returns(KeysInRange(lo, hi), {k \in ListKeys : Found(k) /\ lo <= k /\ k < hi})
  <2>1. lo \in Int /\ hi \in Int
    BY <1>1
  <2>2. PICK c : c = Candidate(lo)
    OBVIOUS
  <2>3. /\ c # Sentinel => c \in Stored /\ lo <= KeyOf(c)
        /\ \A j \in Stored : lo <= KeyOf(j) => c # Sentinel /\ KeyOf(c) <= KeyOf(j)
    BY <2>1, <2>2, CandidateRight
  <2>4. \A j \in Stored :
          j \in Rest(c, {hi}) /\ KeyOf(j) >= lo <=> lo <= KeyOf(j) /\ KeyOf(j) < hi
    BY <1>1, <2>1, <2>3 DEF Rest
  <2>5. Taken(c, {lo}, {hi}) = {KeyOf(j) : j \in {q \in Stored : lo <= KeyOf(q) /\ KeyOf(q) < hi}}
    <3>1. {q \in Rest(c, {hi}) : \A b \in {lo} : KeyOf(q) >= b}
            = {q \in Stored : lo <= KeyOf(q) /\ KeyOf(q) < hi}
      <4>1. Rest(c, {hi}) \subseteq Stored
        BY DEF Rest
      <4> QED BY <2>4, <4>1
    <3> QED BY <3>1 DEF Taken
  <2>6. {KeyOf(j) : j \in {q \in Stored : lo <= KeyOf(q) /\ KeyOf(q) < hi}}
          = {k \in ListKeys : Found(k) /\ lo <= k /\ k < hi}
    <3>1. \A k : k \in {KeyOf(j) : j \in Stored} <=> k \in ListKeys /\ Found(k)
      BY <1>3
    <3> QED BY <3>1
  <2>7. Returns(ScanFrom(c, {lo}, {hi}), Taken(c, {lo}, {hi}))
    BY <2>1, <2>3, ScanRight
  <2> QED BY <2>2, <2>5, <2>6, <2>7 DEF KeysInRange
<1>6. ASSUME NEW lo \in ListKeys, NEW k \in ListKeys, Found(k), lo <= k
      PROVE  Candidate(lo) # Sentinel /\ skipNodes[Candidate(lo)].key <= k
  <2>1. PICK j \in Stored : KeyOf(j) = k
    BY <1>3, <1>6
  <2>2. lo \in Int
    BY <1>1
  <2> QED BY <1>6, <2>1, <2>2, CandidateRight DEF KeyOf
<1> QED BY <1>4, <1>5, <1>6 DEF ScansAreExact, RangeIsExact

\* An empty list.
LEMMA SkipStarts ==
  ASSUME SkipInit
  PROVE  SkipInv /\ Map!Init
<1>1. Len(skipNodes) = 0 /\ Stored = {}
  BY DEF SkipInit, Stored
<1>2. MaxLevel \in Nat \ {0}
  BY SkipAssumption
<1>3. SkipTypeOK
  BY <1>1, <1>2 DEF SkipInit, SkipTypeOK
<1>4. SkipInv
  BY <1>1, <1>3 DEF SkipInv, SkipInit, LevelNodes, LeadsOn, Forward
<1>5. ValuesAreStored
  BY <1>4, FindsStored
<1>6. \A k \in ListKeys : Value(k) = Missing
  BY <1>1, <1>5 DEF ValuesAreStored
<1> QED BY <1>4, <1>6 DEF Map!Init, Missing

\* Every step keeps the invariant, and is a put of the map.
LEMMA SkipSteps ==
  ASSUME SkipInv, [SkipNext]_skipVars
  PROVE  SkipInv' /\ Map!Next
<1>1. CASE UNCHANGED skipVars
  <2>1. skipNodes' = skipNodes /\ skipHead' = skipHead /\ level' = level
    BY <1>1 DEF skipVars
  <2>2. SkipInv'
    BY <2>1 DEF SkipInv, SkipTypeOK, LevelNodes, LeadsOn, Behind, OnLevel, Forward, KeyOf, Stored
  <2>3. ValuesAreStored /\ ValuesAreStored'
    BY <2>2, FindsStored, FindsStoredNext
  <2>4. Stored' = Stored /\ \A i \in Stored : KeyOf(i)' = KeyOf(i)
    BY <2>1 DEF Stored, KeyOf
  <2>5. ASSUME NEW q \in ListKeys
        PROVE  Value(q)' = Value(q)
    <3>1. CASE \E i \in Stored : KeyOf(i) = q
      BY <2>1, <2>3, <2>4, <3>1 DEF ValuesAreStored
    <3>2. CASE \A i \in Stored : KeyOf(i) # q
      BY <2>3, <2>4, <3>2 DEF ValuesAreStored
    <3> QED BY <3>1, <3>2
  <2>6. [q \in ListKeys |-> Value(q)]' = [q \in ListKeys |-> Value(q)]
    BY <2>5
  <2> QED BY <2>2, <2>6 DEF Map!Next, Map!Unaffected
<1>2. CASE SkipNext
  <2>1. PICK k \in ListKeys, v \in ListValues :
          SkipReplace(k, v) \/ \E drawn \in 1 .. MaxLevel : SkipInsert(k, v, drawn)
    BY <1>2 DEF SkipNext
  <2>2. SkipInv' /\ Map!Put(k, v)
    BY <2>1, SkipReplaceStep, SkipInsertStep
  <2> QED BY <2>2 DEF Map!Next
<1> QED BY <1>1, <1>2

\* Every call puts what it was given.
LEMMA SkipPuts ==
  ASSUME SkipInv
  PROVE  \A k \in ListKeys, v \in ListValues :
           SkipReplace(k, v) \/ (\E drawn \in 1 .. MaxLevel : SkipInsert(k, v, drawn))
             => Map!Put(k, v)
BY SkipReplaceStep, SkipInsertStep

\* Whatever levels are drawn, the skip list is a map from keys to values and its
\* scans return the keys of their range in order (skiplist.rs).
THEOREM SkipListIsMap == SkipSpec => ImplementsKeyedValues
<1>1. SkipInit => SkipInv /\ Map!Init
  BY SkipStarts
<1>2. SkipInv /\ [SkipNext]_skipVars => SkipInv' /\ Map!Next
  BY SkipSteps
<1> DEFINE Exact == /\ Returns(SortedKeys, {k \in ListKeys : Found(k)})
                    /\ \A lo, hi \in ListKeys : RangeIsExact(lo, hi)
<1>3. SkipInv => Exact
  BY ScansRight DEF ScansAreExact
<1> HIDE DEF Exact
<1> DEFINE Puts == skipVars' # skipVars => \A k \in ListKeys, v \in ListValues :
              SkipReplace(k, v) \/ (\E drawn \in 1 .. MaxLevel : SkipInsert(k, v, drawn))
                => Map!Put(k, v)
<1>4. SkipInv => Puts
  BY SkipPuts
<1>5. SkipSpec => []SkipInv
  BY <1>1, <1>2, PTL DEF SkipSpec
<1>6. SkipSpec => Map!Spec
  BY <1>1, <1>2, <1>5, PTL DEF SkipSpec, Map!Spec
<1>7. SkipSpec => []Exact
  BY <1>3, <1>5, PTL
<1> HIDE DEF Puts
<1>8. SkipSpec => [][Puts]_skipVars
  BY <1>4, <1>5, PTL
<1> QED BY <1>6, <1>7, <1>8, PTL DEF ImplementsKeyedValues, Puts, Exact
=============================================================================
