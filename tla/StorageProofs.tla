---------------------------- MODULE StorageProofs ----------------------------
(***************************************************************************)
(* Proofs about the page store, for any number of pages, rows and values.  *)
(***************************************************************************)
EXTENDS Storage, OrderLemmas, SequenceTheorems, TLAPS

-----------------------------------------------------------------------------
(* The roomiest page.                                                      *)

\* The free-space counters are within 0 .. Capacity.
SpaceBounded == \A p \in DOMAIN space : space[p] \in 0 .. Capacity

\* page_with_space returns a page that has room, whenever there is one.
LEMMA RoomiestIsRoomy ==
  ASSUME SpaceBounded, DOMAIN space \subseteq Nat, Roomy # {}
  PROVE  Roomiest \in Roomy
<1> USE BoundsAssumption
<1> DEFINE used(p) == Capacity - space[p]
           least == Min({used(p) : p \in Roomy})
           best == {p \in Roomy : used(p) = least}
<1>1. \A p \in Roomy : p \in Nat /\ space[p] \in 0 .. Capacity
  BY DEF Roomy, SpaceBounded
<1>2. {used(p) : p \in Roomy} \subseteq Nat /\ {used(p) : p \in Roomy} # {}
  BY <1>1
<1>3. least \in {used(p) : p \in Roomy} /\ \A u \in {used(p) : p \in Roomy} : least <= u
  <2> HIDE DEF least
  <2> QED BY <1>2, MinIsIn DEF least
<1>4. best # {} /\ best \subseteq Nat
  BY <1>1, <1>3
<1>5. Min(best) \in best /\ \A q \in best : Min(best) <= q
  <2> HIDE DEF best
  <2> QED BY <1>4, MinIsIn
<1>6. \A q \in Roomy : \/ space[Min(best)] > space[q]
                       \/ space[Min(best)] = space[q] /\ Min(best) <= q
  <2> SUFFICES ASSUME NEW q \in Roomy
               PROVE  \/ space[Min(best)] > space[q]
                      \/ space[Min(best)] = space[q] /\ Min(best) <= q
    OBVIOUS
  <2>1. used(Min(best)) = least /\ least <= used(q) /\ Min(best) \in Roomy
    <3> HIDE DEF least
    <3> QED BY <1>3, <1>5
  <2>2. CASE used(q) = least
    <3>1. Min(best) <= q
      BY <1>5, <2>2
    <3>2. used(q) = used(Min(best))
      BY <2>1, <2>2
    <3> HIDE DEF best, least
    <3> QED BY <1>1, <2>1, <3>1, <3>2
  <2>3. CASE used(q) # least
    BY <1>1, <2>1, <2>3
  <2> QED BY <2>2, <2>3
<1> QED BY <1>5, <1>6 DEF Roomiest

-----------------------------------------------------------------------------
(* The page accounts.                                                      *)

\* The free stack holds page ids.
Stacked == freeIds \in Seq(PageIds)

\* PageAccounting and the one fact it needs besides.
Accounts == Stacked /\ PageAccounting

\* A page the pager hands out was neither live nor is it free any more.
LEMMA AllocTakesDeadPage ==
  ASSUME Accounts, Alloc
  PROVE  /\ Stacked'
         /\ highWater' \in 0 .. MaxPages
         /\ \A i, j \in DOMAIN freeIds' : freeIds'[i] = freeIds'[j] => i = j
         /\ AllocId \notin LivePages
         /\ \A p \in PageIds :
              /\ p < highWater' <=> \/ p \in LivePages \cup {AllocId}
                                    \/ p \in Range(freeIds')
              /\ p \in Range(freeIds') => p \notin LivePages \cup {AllocId}
<1> USE BoundsAssumption DEF PageIds
<1>1. CASE freeIds = <<>>
  <2>1. AllocId = highWater /\ freeIds' = freeIds /\ highWater' = highWater + 1
    BY <1>1 DEF Alloc, AllocId
  <2>2. highWater \in PageIds /\ highWater \notin LivePages /\ Range(freeIds) = {}
    BY <1>1, <2>1 DEF Accounts, PageAccounting, Alloc, Range
  <2> QED BY <1>1, <2>1, <2>2 DEF Accounts, Stacked, PageAccounting
<1>2. CASE freeIds # <<>>
  <2> DEFINE n == Len(freeIds)
  <2>1. /\ n \in Nat \ {0} /\ DOMAIN freeIds = 1 .. n
        /\ \A i \in 1 .. n : freeIds[i] \in PageIds
    BY <1>2 DEF Accounts, Stacked
  <2>2. /\ freeIds' = SubSeq(freeIds, 1, n - 1) /\ highWater' = highWater
        /\ AllocId = freeIds[n]
    BY <1>2 DEF Alloc, AllocId, Front, Last
  <2>3. /\ freeIds' \in Seq(PageIds) /\ DOMAIN freeIds' = 1 .. n - 1
        /\ \A i \in 1 .. n - 1 : freeIds'[i] = freeIds[i]
    <3>1. /\ SubSeq(freeIds, 1, n - 1) \in Seq(PageIds)
          /\ Len(SubSeq(freeIds, 1, n - 1)) = IF 1 <= n - 1 THEN n - 1 ELSE 0
          /\ \A i \in 1 .. n - 1 : SubSeq(freeIds, 1, n - 1)[i] = freeIds[i]
      BY <2>1, SubSeqProperties
    <3> QED BY <2>1, <2>2, <3>1
  <2> HIDE DEF n
  <2>4. /\ Range(freeIds) = {freeIds[i] : i \in 1 .. n}
        /\ Range(freeIds') = {freeIds[i] : i \in 1 .. n - 1}
    BY <2>1, <2>3 DEF Range
  <2>5. freeIds[n] \notin Range(freeIds')
    <3>1. \A i \in 1 .. n - 1 : freeIds[i] # freeIds[n]
      BY <2>1 DEF Accounts, PageAccounting
    <3> QED BY <2>4, <3>1
  <2>6. freeIds[n] \in Range(freeIds) /\ freeIds[n] \in PageIds
    BY <2>1, <2>4
  <2>7. \A p \in PageIds : p \in Range(freeIds) <=> p \in Range(freeIds') \/ p = freeIds[n]
    <3>1. 1 .. n = (1 .. n - 1) \cup {n}
      BY <2>1
    <3> QED BY <2>4, <3>1
  <2>8. /\ freeIds[n] \notin LivePages
        /\ \A p \in PageIds : p < highWater <=> p \in LivePages \/ p \in Range(freeIds)
    BY <2>6 DEF Accounts, PageAccounting
  <2>9. \A p \in PageIds :
          /\ p < highWater' <=> \/ p \in LivePages \cup {freeIds[n]}
                                \/ p \in Range(freeIds')
          /\ p \in Range(freeIds') => p \notin LivePages \cup {freeIds[n]}
    BY <2>2, <2>5, <2>7, <2>8 DEF Accounts, PageAccounting
  <2>10. \A i, j \in DOMAIN freeIds' : freeIds'[i] = freeIds'[j] => i = j
    BY <2>1, <2>3 DEF Accounts, PageAccounting
  <2> QED BY <2>2, <2>3, <2>8, <2>9, <2>10 DEF Accounts, Stacked, PageAccounting
<1> QED BY <1>1, <1>2

\* The page table and the counters change their domains only through these.
LEMMA WithDomain ==
  ASSUME NEW f, NEW key, NEW value
  PROVE  /\ DOMAIN With(f, key, value) = DOMAIN f \cup {key}
         /\ With(f, key, value)[key] = value
         /\ \A x \in DOMAIN f \ {key} : With(f, key, value)[x] = f[x]
BY DEF With

LEMMA WithoutDomain ==
  ASSUME NEW f, NEW keys
  PROVE  /\ DOMAIN Without(f, keys) = DOMAIN f \ keys
         /\ \A x \in DOMAIN f \ keys : Without(f, keys)[x] = f[x]
BY DEF Without, Restrict

\* Steps that keep the live pages and the free stack, and credit pages that are
\* live with at most what a page has, keep the accounts.
LEMMA SamePages ==
  ASSUME Accounts, LivePages' = LivePages, freeIds' = freeIds, highWater' = highWater,
         DOMAIN space' \subseteq LivePages, todo' \subseteq LivePages, SpaceBounded'
  PROVE  Accounts'
BY DEF Accounts, Stacked, PageAccounting, SpaceBounded

LEMMA InsertKeepsAccounts ==
  ASSUME Accounts, NEW id, NEW v, Insert(id, v)
  PROVE  Accounts'
<1> USE BoundsAssumption DEF PageIds
<1> DEFINE row == IF id > 0 THEN id ELSE nextRow
<1>0. /\ SpaceBounded /\ DOMAIN space \subseteq LivePages /\ LivePages \subseteq PageIds
      /\ todo \subseteq LivePages
  BY DEF Accounts, PageAccounting, SpaceBounded
<1>1. CASE Roomy # {}
  <2>1. Roomiest \in Roomy
    <3>1. DOMAIN space \subseteq Nat
      <4>1. PageIds \subseteq Nat
        OBVIOUS
      <4> HIDE DEF PageIds
      <4> QED BY <1>0, <4>1
    <3> QED BY <1>0, <1>1, <3>1, RoomiestIsRoomy
  <2>2. /\ pages' = With(pages, Roomiest, AppendRow(pages[Roomiest], row, v))
        /\ space' = [space EXCEPT ![Roomiest] = @ - 1]
        /\ freeIds' = freeIds /\ highWater' = highWater /\ todo' = todo
    BY <1>1 DEF Insert, AddRow
  <2>3. Roomiest \in DOMAIN space /\ space[Roomiest] >= 1
    BY <2>1 DEF Roomy
  <2>4. LivePages' = LivePages
    <3>1. DOMAIN pages' = LivePages \cup {Roomiest}
      BY <2>2, WithDomain DEF LivePages
    <3> QED BY <1>0, <2>3, <3>1 DEF LivePages
  <2>5. SpaceBounded' /\ DOMAIN space' = DOMAIN space
    BY <1>0, <2>2, <2>3 DEF SpaceBounded
  <2> QED BY <1>0, <2>2, <2>4, <2>5, SamePages
<1>2. CASE Roomy = {}
  <2>1. /\ Alloc
        /\ pages' = With(pages, AllocId, AppendRow(EmptyPage, row, v))
        /\ space' = With(space, AllocId, Capacity - 1) /\ todo' = todo
    BY <1>2 DEF Insert, AddRow
  <2>2. LivePages' = LivePages \cup {AllocId}
    <3>1. DOMAIN pages' = LivePages \cup {AllocId}
      BY <2>1, WithDomain DEF LivePages
    <3> QED BY <3>1 DEF LivePages
  <2>3. SpaceBounded' /\ DOMAIN space' = DOMAIN space \cup {AllocId}
    <3>1. /\ DOMAIN space' = DOMAIN space \cup {AllocId}
          /\ space'[AllocId] = Capacity - 1
          /\ \A p \in DOMAIN space \ {AllocId} : space'[p] = space[p]
      BY <2>1 DEF With
    <3> QED BY <1>0, <3>1 DEF SpaceBounded
  <2>4. AllocId \in PageIds
    BY <2>1 DEF Alloc
  <2> HIDE DEF PageIds
  <2> QED BY <1>0, <2>1, <2>2, <2>3, <2>4, AllocTakesDeadPage
          DEF Accounts, PageAccounting, SpaceBounded
<1> QED BY <1>1, <1>2

\* A split: the page keeps its id, the other half gets a dead one.
LEMMA SplitKeepsAccounts ==
  ASSUME Accounts, NEW p \in PageIds, Split(p)
  PROVE  Accounts'
<1> USE BoundsAssumption
<1> DEFINE live == LiveSlots(pages[p])
           mid == Len(live) \div 2
           left == SubSeq(live, 1, mid)
           right == SubSeq(live, mid + 1, Len(live))
<1>0. /\ SpaceBounded /\ DOMAIN space \subseteq LivePages /\ LivePages \subseteq PageIds
      /\ todo \subseteq LivePages
  BY DEF Accounts, PageAccounting, SpaceBounded
<1>1. /\ Alloc /\ p \in todo /\ todo' = todo \ {p}
      /\ pages' = With([pages EXCEPT ![p] = PageOf(@, left)], AllocId,
                       PageOf(pages[p], right))
      /\ space' = With(With(space, p, Capacity), AllocId, Capacity)
  BY DEF Split, Visiting
<1>2. LivePages' = LivePages \cup {AllocId}
  <2> DEFINE rest == [pages EXCEPT ![p] = PageOf(@, left)]
  <2>1. DOMAIN rest = LivePages
    BY DEF LivePages
  <2>2. DOMAIN pages' = DOMAIN rest \cup {AllocId}
    <3> HIDE DEF rest
    <3> QED BY <1>1, WithDomain DEF rest
  <2> QED BY <2>1, <2>2 DEF LivePages
<1>3. SpaceBounded' /\ DOMAIN space' = DOMAIN space \cup {p, AllocId}
  <2> DEFINE mine == With(space, p, Capacity)
  <2>1. /\ DOMAIN mine = DOMAIN space \cup {p} /\ mine[p] = Capacity
        /\ \A q \in DOMAIN space \ {p} : mine[q] = space[q]
    BY DEF With
  <2>2. /\ DOMAIN space' = DOMAIN mine \cup {AllocId} /\ space'[AllocId] = Capacity
        /\ \A q \in DOMAIN mine \ {AllocId} : space'[q] = mine[q]
    <3> HIDE DEF mine
    <3> QED BY <1>1 DEF With, mine
  <2> HIDE DEF mine
  <2> QED BY <1>0, <2>1, <2>2 DEF SpaceBounded
<1>4. AllocId \in PageIds
  BY <1>1 DEF Alloc
<1> QED BY <1>0, <1>1, <1>2, <1>3, <1>4, AllocTakesDeadPage
        DEF Accounts, PageAccounting, SpaceBounded

\* A merge: the page that is freed was live, so it is not on the free stack yet.
LEMMA MergeKeepsAccounts ==
  ASSUME Accounts, NEW p \in PageIds, Merge(p)
  PROVE  Accounts'
<1> USE BoundsAssumption
<1> DEFINE into == Min(LivePages \ {p})
           n == Len(freeIds)
<1>0. /\ SpaceBounded /\ DOMAIN space \subseteq LivePages /\ LivePages \subseteq PageIds
      /\ todo \subseteq LivePages
  BY DEF Accounts, PageAccounting, SpaceBounded
<1>1. /\ p \in LivePages /\ LivePages # {p} /\ todo' = todo \ {p}
      /\ pages' = Without([pages EXCEPT ![into] =
                             Extended(@, pages[p], LiveSlots(pages[p]))], {p})
      /\ space' = Without(With(space, into, Capacity), {p})
      /\ freeIds' = Append(freeIds, p) /\ highWater' = highWater
  BY <1>0 DEF Merge, Visiting, Underfull, Forgotten
<1>2. into \in LivePages \ {p}
  <2>1. LivePages \ {p} \subseteq Nat /\ LivePages \ {p} # {}
    BY <1>0, <1>1 DEF PageIds
  <2> QED BY <2>1, MinIsIn
<1>3. LivePages' = LivePages \ {p}
  BY <1>1 DEF LivePages, Without, Restrict
<1>4. SpaceBounded' /\ DOMAIN space' = (DOMAIN space \cup {into}) \ {p}
  <2> HIDE DEF into
  <2>1. space' = [q \in (DOMAIN space \cup {into}) \ {p} |->
                    IF q = into THEN Capacity ELSE space[q]]
    BY <1>1 DEF With, Without, Restrict
  <2> QED BY <1>0, <2>1 DEF SpaceBounded
<1>5. /\ n \in Nat /\ DOMAIN freeIds = 1 .. n /\ \A i \in 1 .. n : freeIds[i] \in PageIds
      /\ freeIds' \in Seq(PageIds) /\ DOMAIN freeIds' = 1 .. n + 1
      /\ freeIds'[n + 1] = p /\ \A i \in 1 .. n : freeIds'[i] = freeIds[i]
  BY <1>1, AppendProperties DEF Accounts, Stacked
<1>6. Range(freeIds') = Range(freeIds) \cup {p}
  <2> HIDE DEF n
  <2>1. 1 .. n + 1 = (1 .. n) \cup {n + 1}
    BY <1>5
  <2>2. /\ Range(freeIds) = {freeIds[i] : i \in 1 .. n}
        /\ Range(freeIds') = {freeIds'[i] : i \in 1 .. n + 1}
    BY <1>5 DEF Range
  <2> QED BY <1>5, <2>1, <2>2
<1>7. \A i, j \in DOMAIN freeIds' : freeIds'[i] = freeIds'[j] => i = j
  <2> HIDE DEF n
  <2>1. \A i \in 1 .. n : freeIds[i] # p
    BY <1>1, <1>5 DEF Accounts, PageAccounting, Range
  <2> QED BY <1>5, <2>1 DEF Accounts, PageAccounting
<1> HIDE DEF into, n
<1> QED BY <1>0, <1>1, <1>2, <1>3, <1>4, <1>5, <1>6, <1>7
        DEF Accounts, Stacked, PageAccounting, SpaceBounded

\* A reload numbers the pages from 0 and forgets the free stack.
LEMMA ReloadKeepsAccounts ==
  ASSUME Accounts, Reload
  PROVE  Accounts'
<1> USE BoundsAssumption
<1>0. PICK n \in 1 .. MaxPages : \E old \in Numberings(n) :
        LET on == [p \in 0 .. n - 1 |-> pages[old[p]]]
        IN  Verified(on) /\ pages' = on /\ highWater' = n
  BY DEF Reload
<1>1. PICK old \in Numberings(n) :
        LET on == [p \in 0 .. n - 1 |-> pages[old[p]]]
        IN  Verified(on) /\ pages' = on /\ highWater' = n
  BY <1>0
<1> DEFINE on == [p \in 0 .. n - 1 |-> pages[old[p]]]
<1>2. LivePages' = 0 .. n - 1 /\ DOMAIN on = 0 .. n - 1
  BY <1>1 DEF LivePages
<1>3. DOMAIN space \subseteq 0 .. n - 1
  <2>1. DOMAIN space \subseteq DOMAIN on
    BY <1>1 DEF Verified
  <2> QED BY <1>2, <2>1
<1>4. freeIds' = <<>> /\ space' = space /\ todo' = {}
  BY DEF Reload, fsmVars
<1>5. Range(freeIds') = {} /\ freeIds' \in Seq(PageIds)
  BY <1>4 DEF Range
<1> HIDE DEF on
<1> QED BY <1>1, <1>2, <1>3, <1>4, <1>5
        DEF Accounts, Stacked, PageAccounting, PageIds

\* Init and the rest of the steps.
LEMMA AccountsInductive ==
  /\ Init => Accounts
  /\ Accounts /\ [Next]_vars => Accounts'
<1> USE BoundsAssumption
<1>1. Init => Accounts
  BY DEF Init, Accounts, Stacked, PageAccounting, LivePages, Range, PageIds
<1>2. ASSUME Accounts, [Next]_vars PROVE Accounts'
  <2>0. /\ SpaceBounded /\ DOMAIN space \subseteq LivePages /\ todo \subseteq LivePages
    BY <1>2 DEF Accounts, PageAccounting, SpaceBounded
  <2>1. ASSUME NEW id \in GivenIds \cup {0}, NEW v \in Values, Insert(id, v)
        PROVE  Accounts'
    BY <1>2, <2>1, InsertKeepsAccounts
  <2>2. ASSUME NEW op \in Ops, NEW t \in Values, DeleteWhere(op, t)
        PROVE  Accounts'
    <3>1. /\ LivePages' = LivePages /\ freeIds' = freeIds /\ highWater' = highWater
          /\ space' = space /\ todo' = todo
      BY <2>2 DEF DeleteWhere, LivePages, fsmVars
    <3> QED BY <1>2, <2>0, <3>1, SamePages DEF SpaceBounded
  <2>3. ASSUME NEW v \in Values, NEW op \in Ops, NEW t \in Values, UpdateWhere(v, op, t)
        PROVE  Accounts'
    <3>1. /\ LivePages' = LivePages /\ freeIds' = freeIds /\ highWater' = highWater
          /\ space' = space /\ todo' = todo
      BY <2>3 DEF UpdateWhere, LivePages, fsmVars
    <3> QED BY <1>2, <2>0, <3>1, SamePages DEF SpaceBounded
  <2>4. CASE StartCompaction
    BY <1>2, <2>0, <2>4, SamePages
       DEF StartCompaction, pagerVars, fsmVars, LivePages, SpaceBounded
  <2>5. ASSUME NEW p \in PageIds, SkipPage(p)
        PROVE  Accounts'
    BY <1>2, <2>0, <2>5, SamePages
       DEF SkipPage, pagerVars, fsmVars, LivePages, SpaceBounded
  <2>6. ASSUME NEW p \in PageIds, Split(p)
        PROVE  Accounts'
    BY <1>2, <2>6, SplitKeepsAccounts
  <2>7. ASSUME NEW p \in PageIds, Merge(p)
        PROVE  Accounts'
    BY <1>2, <2>7, MergeKeepsAccounts
  <2>8. ASSUME NEW p \in PageIds, Repack(p)
        PROVE  Accounts'
    <3>1. /\ LivePages' = LivePages /\ freeIds' = freeIds /\ highWater' = highWater
          /\ space' = With(space, p, Capacity) /\ todo' = todo \ {p} /\ p \in todo
      BY <2>8 DEF Repack, Visiting, LivePages
    <3>2. DOMAIN space' = DOMAIN space \cup {p} /\ SpaceBounded'
      BY <2>0, <3>1 DEF With, SpaceBounded
    <3> QED BY <1>2, <2>0, <3>1, <3>2, SamePages
  <2>9. CASE Reload
    BY <1>2, <2>9, ReloadKeepsAccounts
  <2>10. CASE UNCHANGED vars
    BY <1>2, <2>10
       DEF vars, Accounts, Stacked, PageAccounting, LivePages
  <2> QED BY <1>2, <2>1, <2>2, <2>3, <2>4, <2>5, <2>6, <2>7, <2>8, <2>9, <2>10 DEF Next
<1> QED BY <1>1, <1>2

\* No sequence of statements, splits, merges, repacks and reloads loses a page,
\* hands one out twice, or leaves room credited to a page that is gone.
THEOREM PagesAccounted == Spec => []PageAccounting
<1>1. Accounts => PageAccounting
  BY DEF Accounts
<1> QED BY AccountsInductive, <1>1, PTL DEF Spec

-----------------------------------------------------------------------------
(* Row ids.                                                                *)

\* Every mapped row id is below the allocator.
MappedBelowNextRow ==
  /\ nextRow \in Nat \ {0}
  /\ \A r \in Mapped : r \in Nat /\ r < nextRow

\* The index is a function on the values, and lists mapped rows only.
RowIdInv ==
  /\ MappedBelowNextRow
  /\ index = [v \in Values |-> index[v]]
  /\ IndexedRowsExist

\* Steps that only move rows keep the row ids.
LEMMA SameRows ==
  ASSUME RowIdInv, Mapped' = Mapped, index' = index, nextRow' = nextRow
  PROVE  RowIdInv'
BY DEF RowIdInv, MappedBelowNextRow, IndexedRowsExist

\* Moving rows neither adds nor drops one.
LEMMA RelocatedDomain ==
  ASSUME NEW map, NEW slots, NEW p, NEW start
  PROVE  DOMAIN Relocated(map, slots, p, start) = DOMAIN map
BY DEF Relocated

LEMMA InsertKeepsRowIds ==
  ASSUME RowIdInv, NEW id \in Nat, NEW v \in Values, Insert(id, v)
  PROVE  RowIdInv'
<1> DEFINE row == IF id > 0 THEN id ELSE nextRow
<1>1. /\ \E p, slot : rowMap' = With(rowMap, row, [page |-> p, slot |-> slot])
      /\ nextRow' = Max({nextRow, row + 1})
      /\ index' = IF indexed THEN [index EXCEPT ![v] = @ \cup {row}] ELSE index
  BY DEF Insert, AddRow, NextRowAfter
<1>2. row \in Nat \ {0} /\ nextRow \in Nat \ {0}
  BY DEF RowIdInv, MappedBelowNextRow
<1>3. nextRow' \in Nat \ {0} /\ nextRow <= nextRow' /\ row < nextRow'
  <2> HIDE DEF row
  <2>1. \E m \in {nextRow, row + 1} : \A x \in {nextRow, row + 1} : m >= x
    BY <1>2
  <2>2. nextRow' \in {nextRow, row + 1} /\ \A x \in {nextRow, row + 1} : nextRow' >= x
    BY <1>1, <2>1 DEF Max
  <2> QED BY <1>2, <2>2
<1>4. Mapped' = Mapped \cup {row}
  BY <1>1 DEF Mapped, With
<1> HIDE DEF row
<1>5. MappedBelowNextRow'
  BY <1>2, <1>3, <1>4 DEF RowIdInv, MappedBelowNextRow
<1>6. index' = [w \in Values |-> index'[w]] /\ IndexedRowsExist'
  BY <1>1, <1>4 DEF RowIdInv, IndexedRowsExist
<1> QED BY <1>5, <1>6 DEF RowIdInv

LEMMA DeleteKeepsRowIds ==
  ASSUME RowIdInv, NEW op, NEW target, DeleteWhere(op, target)
  PROVE  RowIdInv'
<1> DEFINE rows == Matching(op, target) \cap Mapped
<1>1. /\ rowMap' = Without(rowMap, rows) /\ nextRow' = nextRow
      /\ index' = [v \in Values |-> index[v] \ rows]
  BY DEF DeleteWhere, Unindexed
<1> HIDE DEF rows
<1>2. Mapped' = Mapped \ rows
  BY <1>1 DEF Mapped, Without, Restrict
<1> QED BY <1>1, <1>2 DEF RowIdInv, MappedBelowNextRow, IndexedRowsExist

LEMMA RowIdInductive ==
  /\ Init => RowIdInv
  /\ RowIdInv /\ [Next]_vars => RowIdInv'
<1>1. Init => RowIdInv
  BY DEF Init, RowIdInv, MappedBelowNextRow, IndexedRowsExist, Mapped
<1>2. ASSUME RowIdInv, [Next]_vars PROVE RowIdInv'
  <2>1. ASSUME NEW id \in GivenIds \cup {0}, NEW v \in Values, Insert(id, v)
        PROVE  RowIdInv'
    BY <1>2, <2>1, InsertKeepsRowIds, BoundsAssumption
  <2>2. ASSUME NEW op \in Ops, NEW t \in Values, DeleteWhere(op, t)
        PROVE  RowIdInv'
    BY <1>2, <2>2, DeleteKeepsRowIds
  <2>3. ASSUME NEW v \in Values, NEW op \in Ops, NEW t \in Values, UpdateWhere(v, op, t)
        PROVE  RowIdInv'
    <3>1. Mapped' = Mapped /\ index' = index /\ nextRow' = nextRow
      BY <2>3 DEF UpdateWhere, Mapped
    <3> QED BY <1>2, <3>1, SameRows
  <2>4. ASSUME NEW p \in PageIds, Split(p)
        PROVE  RowIdInv'
    <3>1. /\ \E left, right, new :
               rowMap' = Relocated(Relocated(rowMap, left, p, 0), right, new, 0)
          /\ index' = index /\ nextRow' = nextRow
      BY <2>4 DEF Split
    <3>2. Mapped' = Mapped
      BY <3>1, RelocatedDomain DEF Mapped
    <3> QED BY <1>2, <3>1, <3>2, SameRows
  <2>5. ASSUME NEW p \in PageIds, Merge(p)
        PROVE  RowIdInv'
    <3>1. /\ \E live, into, start : rowMap' = Relocated(rowMap, live, into, start)
          /\ index' = index /\ nextRow' = nextRow
      BY <2>5 DEF Merge
    <3>2. Mapped' = Mapped
      BY <3>1, RelocatedDomain DEF Mapped
    <3> QED BY <1>2, <3>1, <3>2, SameRows
  <2>6. ASSUME NEW p \in PageIds, SkipPage(p) \/ Repack(p)
        PROVE  RowIdInv'
    BY <1>2, <2>6, SameRows DEF SkipPage, Repack, Mapped
  <2>7. CASE StartCompaction \/ Reload \/ UNCHANGED vars
    BY <1>2, <2>7, SameRows DEF StartCompaction, Reload, vars, Mapped
  <2> QED BY <1>2, <2>1, <2>2, <2>3, <2>4, <2>5, <2>6, <2>7 DEF Next
<1> QED BY <1>1, <1>2

\* Whatever was deleted, moved or damaged, the index lists no row the row-id map
\* does not know (row 7 of the invariant reference).
THEOREM IndexedRows == Spec => []IndexedRowsExist
<1>1. RowIdInv => IndexedRowsExist
  BY DEF RowIdInv
<1> QED BY RowIdInductive, <1>1, PTL DEF Spec

\* An automatic row id is never one that is in use, however the statements gave
\* their own ids before (src/src/mutation.rs, insert).
THEOREM FreshRowIds == Spec => []MappedBelowNextRow
<1>1. RowIdInv => MappedBelowNextRow
  BY DEF RowIdInv
<1> QED BY RowIdInductive, <1>1, PTL DEF Spec
-----------------------------------------------------------------------------
(* Pages and their live slots.                                             *)

Slots == [row : Nat, off : Nat, live : BOOLEAN]

\* A page as the statements and the compaction leave it: a cell for every slot,
\* and every slot at its own offset.
Laid(page) ==
  /\ page \in [cells : Seq(Values), slots : Seq(Slots)]
  /\ Len(page.cells) = Len(page.slots)
  /\ \A i \in DOMAIN page.slots : page.slots[i].off = i

\* ss lists live slots of the page, none of them twice.
Picked(page, ss) ==
  /\ ss \in Seq(Slots)
  /\ \A k \in DOMAIN ss : /\ ss[k].off \in LiveIndices(page)
                          /\ ss[k] = page.slots[ss[k].off]
  /\ \A j, k \in DOMAIN ss : ss[j].off = ss[k].off => j = k

\* LiveSlots lists every live slot of the page once, and a live slot that has
\* only live slots before it where it is.
LEMMA LiveSlotsPicked ==
  ASSUME NEW page, Laid(page)
  PROVE  /\ Picked(page, LiveSlots(page))
         /\ Len(LiveSlots(page)) = LiveCount(page) /\ LiveCount(page) \in Nat
         /\ LiveCount(page) <= Len(page.slots)
         /\ \A i \in LiveIndices(page) :
              \E k \in DOMAIN LiveSlots(page) : LiveSlots(page)[k].off = i
         /\ \A i \in LiveIndices(page) : 1 .. i \subseteq LiveIndices(page) =>
              i \in DOMAIN LiveSlots(page) /\ LiveSlots(page)[i].off = i
<1> DEFINE n == Len(page.slots)
           L == LiveIndices(page)
           m == LiveCount(page)
           nth(k) == CHOOSE i \in L : Place(L, i) = k
<1>1. /\ n \in Nat /\ DOMAIN page.slots = 1 .. n
      /\ \A i \in 1 .. n : page.slots[i] \in Slots /\ page.slots[i].off = i
  BY DEF Laid
<1>2. L \subseteq 1 .. n
  BY <1>1 DEF LiveIndices
<1>3. LiveSlots(page) = [k \in 1 .. m |-> page.slots[nth(k)]]
  BY DEF LiveSlots, Place
<1> HIDE DEF n, L
<1>4. /\ m = Cardinality(L) /\ m \in Nat
      /\ \A i \in L : Place(L, i) \in 1 .. m
      /\ \A i, j \in L : Place(L, i) = Place(L, j) => i = j
      /\ \A k \in 1 .. m : \E i \in L : Place(L, i) = k
      /\ \A k \in L : 1 .. k \subseteq L => Place(L, k) = k
  BY <1>1, <1>2, Places DEF LiveCount, L
<1> HIDE DEF m
<1>5. m <= n
  <2> DEFINE all == 1 .. n
  <2>1. IsFiniteSet(all) /\ Cardinality(all) = n
    BY <1>1, FS_Interval
  <2>2. L \in SUBSET all
    BY <1>2
  <2> HIDE DEF all
  <2>3. Cardinality(L) <= Cardinality(all)
    BY <2>1, <2>2, FS_Subset
  <2> QED BY <1>4, <2>1, <2>3
<1>6. \A k \in 1 .. m : nth(k) \in L /\ Place(L, nth(k)) = k
  BY <1>4
<1>7. \A i \in L : nth(Place(L, i)) = i
  BY <1>4, <1>6
<1> HIDE DEF nth
<1>8. \A k \in 1 .. m : LiveSlots(page)[k] = page.slots[nth(k)]
                        /\ LiveSlots(page)[k].off = nth(k)
  BY <1>1, <1>2, <1>3, <1>6
<1>9. LiveSlots(page) \in Seq(Slots) /\ Len(LiveSlots(page)) = m
      /\ DOMAIN LiveSlots(page) = 1 .. m
  BY <1>1, <1>2, <1>3, <1>4, <1>6
<1>10. Picked(page, LiveSlots(page))
  BY <1>6, <1>8, <1>9 DEF Picked, L
<1>11. \A i \in L : \E k \in 1 .. m : LiveSlots(page)[k].off = i
  BY <1>4, <1>7, <1>8
<1>12. \A i \in L : 1 .. i \subseteq L => i \in 1 .. m /\ LiveSlots(page)[i].off = i
  <2> SUFFICES ASSUME NEW i \in L, 1 .. i \subseteq L
               PROVE  i \in 1 .. m /\ LiveSlots(page)[i].off = i
    OBVIOUS
  <2>1. Place(L, i) = i
    BY <1>4
  <2> QED BY <1>4, <1>7, <1>8, <2>1
<1> QED BY <1>4, <1>5, <1>9, <1>10, <1>11, <1>12 DEF m, L, n

\* A part of a list of live slots is one too.
LEMMA PartPicked ==
  ASSUME NEW page, NEW ss, Picked(page, ss),
         NEW a \in Nat \ {0}, NEW b \in Nat, b <= Len(ss)
  PROVE  /\ Picked(page, SubSeq(ss, a, b))
         /\ DOMAIN SubSeq(ss, a, b) = 1 .. b - a + 1
         /\ \A k \in 1 .. b - a + 1 : SubSeq(ss, a, b)[k] = ss[a + k - 1]
<1> DEFINE part == SubSeq(ss, a, b)
<1>1. ss \in Seq(Slots) /\ DOMAIN ss = 1 .. Len(ss) /\ Len(ss) \in Nat
  BY DEF Picked
<1>2. part = [k \in 1 .. b - a + 1 |-> ss[a + k - 1]]
  BY <1>1
<1>3. \A k \in 1 .. b - a + 1 : a + k - 1 \in DOMAIN ss
  BY <1>1
<1> HIDE DEF part
<1>4. part \in Seq(Slots)
  <2>1. \A k \in 1 .. b - a + 1 : part[k] \in Slots
    BY <1>1, <1>2, <1>3
  <2>2. b - a + 1 \in Nat \/ 1 .. b - a + 1 = {}
    OBVIOUS
  <2> QED BY <1>2, <2>1, <2>2
<1>5. \A j, k \in 1 .. b - a + 1 : part[j].off = part[k].off => j = k
  BY <1>2, <1>3 DEF Picked
<1>6. DOMAIN part = 1 .. b - a + 1
  BY <1>2
<1>7. \A k \in DOMAIN part : /\ part[k].off \in LiveIndices(page)
                            /\ part[k] = page.slots[part[k].off]
  BY <1>2, <1>3, <1>6 DEF Picked
<1>8. Picked(page, part)
  BY <1>4, <1>5, <1>6, <1>7 DEF Picked
<1> QED BY <1>2, <1>6, <1>8 DEF part
\* The elements of a concatenation, by where they come from.
LEMMA ConcatElements ==
  ASSUME NEW S, NEW c \in Seq(S), NEW d \in Seq(S)
  PROVE  /\ c \o d \in Seq(S) /\ Len(c \o d) = Len(c) + Len(d)
         /\ \A i \in 1 .. Len(c) : (c \o d)[i] = c[i]
         /\ \A k \in 1 .. Len(d) : (c \o d)[Len(c) + k] = d[k]
<1>1. Len(c) \in Nat /\ Len(d) \in Nat
  OBVIOUS
<1>2. \A i \in 1 .. Len(c) + Len(d) :
        (c \o d)[i] = IF i <= Len(c) THEN c[i] ELSE d[i - Len(c)]
  BY ConcatProperties
<1>3. ASSUME NEW k \in 1 .. Len(d) PROVE (c \o d)[Len(c) + k] = d[k]
  <2>1. /\ Len(c) + k \in 1 .. Len(c) + Len(d) /\ ~(Len(c) + k <= Len(c))
        /\ Len(c) + k - Len(c) = k
    BY <1>1
  <2> QED BY <1>2, <2>1
<1>4. ASSUME NEW i \in 1 .. Len(c) PROVE (c \o d)[i] = c[i]
  <2>1. i \in 1 .. Len(c) + Len(d) /\ i <= Len(c)
    BY <1>1
  <2> QED BY <1>2, <2>1
<1> QED BY <1>3, <1>4, ConcatProperties

\* What repack, split and merge make of listed live slots is laid out like every
\* page, holds the rows of the slots in their order, and their cells.
LEMMA PageOfLaid ==
  ASSUME NEW page, Laid(page), NEW ss, Picked(page, ss)
  PROVE  /\ Laid(PageOf(page, ss))
         /\ DOMAIN PageOf(page, ss).slots = DOMAIN ss
         /\ \A k \in DOMAIN ss :
              /\ PageOf(page, ss).slots[k] = [row |-> ss[k].row, off |-> k, live |-> TRUE]
              /\ PageOf(page, ss).cells[k] = page.cells[ss[k].off]
              /\ ss[k].off \in DOMAIN page.cells
<1> DEFINE n == Len(ss)
           new == PageOf(page, ss)
<1>1. ss \in Seq(Slots) /\ n \in Nat /\ DOMAIN ss = 1 .. n
      /\ \A k \in 1 .. n : ss[k] \in Slots
  BY DEF Picked
<1>2. page.cells \in Seq(Values) /\ DOMAIN page.cells = DOMAIN page.slots
  BY DEF Laid
<1>3. \A k \in 1 .. n : ss[k].off \in DOMAIN page.cells
                        /\ page.cells[ss[k].off] \in Values
  BY <1>1, <1>2 DEF Picked, LiveIndices
<1>4. /\ new.cells = [k \in 1 .. n |-> page.cells[ss[k].off]]
      /\ new.slots = [k \in 1 .. n |-> [row |-> ss[k].row, off |-> k, live |-> TRUE]]
      /\ new = [cells |-> new.cells, slots |-> new.slots]
  BY <1>1, <1>3 DEF PageOf, CellAt
<1> HIDE DEF n, new
<1>5. new.cells \in Seq(Values) /\ Len(new.cells) = n
  BY <1>1, <1>3, <1>4
<1>6. new.slots \in Seq(Slots) /\ Len(new.slots) = n
  <2>1. \A k \in 1 .. n : [row |-> ss[k].row, off |-> k, live |-> TRUE] \in Slots
    BY <1>1 DEF Slots
  <2> QED BY <1>1, <1>4, <2>1
<1>7. Laid(new)
  <2>1. \A k \in DOMAIN new.slots : new.slots[k].off = k
    BY <1>4
  <2> QED BY <1>4, <1>5, <1>6, <2>1 DEF Laid
<1> QED BY <1>1, <1>3, <1>4, <1>7 DEF n, new

LEMMA ExtendedLaid ==
  ASSUME NEW page, Laid(page), NEW other, Laid(other), NEW ss, Picked(other, ss)
  PROVE  LET all == Extended(page, other, ss)
             n   == Len(page.slots)
         IN  /\ Laid(all) /\ n \in Nat
             /\ DOMAIN all.slots = 1 .. n + Len(ss)
             /\ \A i \in 1 .. n : all.slots[i] = page.slots[i] /\ all.cells[i] = page.cells[i]
             /\ \A k \in DOMAIN ss :
                  /\ all.slots[n + k] = [row |-> ss[k].row, off |-> n + k, live |-> TRUE]
                  /\ all.cells[n + k] = other.cells[ss[k].off]
<1> DEFINE all == Extended(page, other, ss)
           n == Len(page.slots)
           m == Len(ss)
           part == PageOf(other, ss)
           moved == [k \in DOMAIN ss |->
                       [row |-> ss[k].row, off |-> n + k, live |-> TRUE]]
<1>1. ss \in Seq(Slots) /\ m \in Nat /\ DOMAIN ss = 1 .. m
      /\ \A k \in 1 .. m : ss[k] \in Slots
  BY DEF Picked
<1>2. /\ page.cells \in Seq(Values) /\ page.slots \in Seq(Slots)
      /\ n \in Nat /\ Len(page.cells) = n /\ DOMAIN page.slots = 1 .. n
      /\ \A i \in 1 .. n : page.slots[i].off = i
  BY DEF Laid
<1>3. /\ part.cells \in Seq(Values) /\ Len(part.cells) = m
      /\ \A k \in 1 .. m : part.cells[k] = other.cells[ss[k].off]
  <2>1. Laid(part) /\ DOMAIN part.slots = DOMAIN ss
        /\ \A k \in DOMAIN ss : part.cells[k] = other.cells[ss[k].off]
    <3> HIDE DEF n, m, moved, all
    <3> HIDE DEF part
    <3>1. Laid(other) /\ Picked(other, ss)
      OBVIOUS
    <3>2. /\ Laid(PageOf(other, ss))
          /\ DOMAIN PageOf(other, ss).slots = DOMAIN ss
          /\ \A k \in DOMAIN ss :
              /\ PageOf(other, ss).slots[k] = [row |-> ss[k].row, off |-> k, live |-> TRUE]
              /\ PageOf(other, ss).cells[k] = other.cells[ss[k].off]
              /\ ss[k].off \in DOMAIN other.cells
      BY ONLY <3>1, PageOfLaid
    <3> QED BY <3>2 DEF part
  <2> HIDE DEF part, m
  <2>2. part.cells \in Seq(Values) /\ part.slots \in Seq(Slots)
        /\ Len(part.cells) = Len(part.slots)
    BY <2>1 DEF Laid
  <2>3. Len(part.slots) = m
    BY <1>1, <2>1, <2>2
  <2> QED BY <1>1, <2>1, <2>2, <2>3
<1>4. /\ moved \in Seq(Slots) /\ Len(moved) = m
      /\ \A k \in 1 .. m : moved[k] = [row |-> ss[k].row, off |-> n + k, live |-> TRUE]
  <2>1. \A k \in 1 .. m : [row |-> ss[k].row, off |-> n + k, live |-> TRUE] \in Slots
    BY <1>1, <1>2 DEF Slots
  <2> QED BY <1>1, <2>1
<1>5. all = [cells |-> page.cells \o part.cells, slots |-> page.slots \o moved]
  BY DEF Extended
<1> HIDE DEF all, n, m, part, moved
<1>6. /\ all.cells \in Seq(Values) /\ Len(all.cells) = n + m
      /\ \A i \in 1 .. n : all.cells[i] = page.cells[i]
      /\ \A k \in 1 .. m : all.cells[n + k] = other.cells[ss[k].off]
  <2>1. all.cells = page.cells \o part.cells
    BY <1>5
  <2> DEFINE c == page.cells
             d == part.cells
  <2>2. c \in Seq(Values) /\ d \in Seq(Values) /\ Len(c) = n /\ Len(d) = m
    BY <1>2, <1>3
  <2> HIDE DEF c, d
  <2>3. /\ c \o d \in Seq(Values) /\ Len(c \o d) = n + m
        /\ \A i \in 1 .. n : (c \o d)[i] = c[i]
        /\ \A k \in 1 .. m : (c \o d)[n + k] = d[k]
    <3>1. c \in Seq(Values) /\ d \in Seq(Values)
      BY <2>2
    <3>2. /\ c \o d \in Seq(Values) /\ Len(c \o d) = Len(c) + Len(d)
          /\ \A i \in 1 .. Len(c) : (c \o d)[i] = c[i]
          /\ \A k \in 1 .. Len(d) : (c \o d)[Len(c) + k] = d[k]
      BY ONLY <3>1, ConcatElements
    <3> QED BY <2>2, <3>2
  <2> QED BY <1>3, <2>1, <2>3 DEF c, d
<1>7. /\ all.slots \in Seq(Slots) /\ Len(all.slots) = n + m
      /\ \A i \in 1 .. n : all.slots[i] = page.slots[i]
      /\ \A k \in 1 .. m :
           all.slots[n + k] = [row |-> ss[k].row, off |-> n + k, live |-> TRUE]
  <2>1. all.slots = page.slots \o moved
    BY <1>5
  <2> DEFINE c == page.slots
  <2>2. c \in Seq(Slots) /\ Len(c) = n
    BY <1>2 DEF n
  <2> HIDE DEF c
  <2>3. /\ c \o moved \in Seq(Slots) /\ Len(c \o moved) = n + m
        /\ \A i \in 1 .. n : (c \o moved)[i] = c[i]
        /\ \A k \in 1 .. m : (c \o moved)[n + k] = moved[k]
    <3>1. c \in Seq(Slots) /\ moved \in Seq(Slots)
      BY <1>4, <2>2
    <3>2. /\ c \o moved \in Seq(Slots) /\ Len(c \o moved) = Len(c) + Len(moved)
          /\ \A i \in 1 .. Len(c) : (c \o moved)[i] = c[i]
          /\ \A k \in 1 .. Len(moved) : (c \o moved)[Len(c) + k] = moved[k]
      BY ONLY <3>1, ConcatElements
    <3> QED BY <1>4, <2>2, <3>2
  <2> QED BY <1>4, <2>1, <2>3 DEF c
<1>8. \A i \in 1 .. n + m : all.slots[i].off = i
  <2> SUFFICES ASSUME NEW i \in 1 .. n + m PROVE all.slots[i].off = i
    OBVIOUS
  <2>1. CASE i <= n
    BY <1>2, <1>7, <2>1
  <2>2. CASE i > n
    <3> DEFINE k == i - n
    <3>1. k \in 1 .. m /\ n + k = i
      BY <1>1, <1>2, <2>2
    <3> HIDE DEF k
    <3>2. all.slots[n + k] = [row |-> ss[k].row, off |-> n + k, live |-> TRUE]
      BY <1>7, <3>1
    <3> QED BY <3>1, <3>2
  <2> QED BY <1>1, <1>2, <2>1, <2>2
<1>9. Laid(all)
  BY <1>5, <1>6, <1>7, <1>8 DEF Laid
<1> QED BY <1>1, <1>2, <1>6, <1>7, <1>9 DEF all, n, m

LEMMA AppendRowLaid ==
  ASSUME NEW page, Laid(page), NEW row \in Nat, NEW v \in Values
  PROVE  LET more == AppendRow(page, row, v)
             n    == Len(page.slots)
         IN  /\ Laid(more) /\ n \in Nat
             /\ DOMAIN more.slots = 1 .. n + 1
             /\ \A i \in 1 .. n : more.slots[i] = page.slots[i] /\ more.cells[i] = page.cells[i]
             /\ more.slots[n + 1] = [row |-> row, off |-> n + 1, live |-> TRUE]
             /\ more.cells[n + 1] = v
<1> DEFINE more == AppendRow(page, row, v)
           n == Len(page.slots)
           slot == [row |-> row, off |-> n + 1, live |-> TRUE]
<1>1. /\ page.cells \in Seq(Values) /\ page.slots \in Seq(Slots)
      /\ n \in Nat /\ Len(page.cells) = n
      /\ \A i \in 1 .. n : page.slots[i].off = i
  BY DEF Laid
<1>2. slot \in Slots
  BY <1>1 DEF Slots
<1>3. more = [cells |-> Append(page.cells, v), slots |-> Append(page.slots, slot)]
  BY DEF AppendRow
<1> HIDE DEF more, n, slot
<1>4. /\ more.cells \in Seq(Values) /\ Len(more.cells) = n + 1
      /\ \A i \in 1 .. n : more.cells[i] = page.cells[i]
      /\ more.cells[n + 1] = v
  BY <1>1, <1>3, AppendProperties
<1>5. /\ more.slots \in Seq(Slots) /\ Len(more.slots) = n + 1
      /\ \A i \in 1 .. n : more.slots[i] = page.slots[i]
      /\ more.slots[n + 1] = slot
  BY <1>1, <1>2, <1>3, AppendProperties DEF n
<1>6. slot.off = n + 1
  BY DEF slot
<1>7. \A i \in 1 .. n + 1 : more.slots[i].off = i
  BY <1>1, <1>5, <1>6
<1>8. Laid(more)
  BY <1>3, <1>4, <1>5, <1>7 DEF Laid
<1> QED BY <1>1, <1>4, <1>5, <1>8 DEF more, n, slot
-----------------------------------------------------------------------------
(* What each step does to the pages and the row-id map.                    *)

RowsBelow(page, n) == \A i \in DOMAIN page.slots : page.slots[i].row < n

\* Every page is laid out, and knows only row ids the allocator has passed.
Layout == \A p \in LivePages : Laid(pages[p]) /\ RowsBelow(pages[p], nextRow)

\* What is known of every reachable store.
StoreInv == Accounts /\ RowIdInv /\ Mapped \subseteq RowIds /\ Layout

LEMMA EmptyLaid == Laid(EmptyPage) /\ DOMAIN EmptyPage.slots = {}
  BY DEF Laid, EmptyPage

\* An insert appends one row to a live page or to a fresh one.
LEMMA InsertEffect ==
  ASSUME StoreInv, NEW id \in Nat, NEW v \in Values, Insert(id, v)
  PROVE  \E p, page :
           LET row == IF id > 0 THEN id ELSE nextRow
           IN  /\ p \in PageIds /\ Laid(page) /\ RowsBelow(page, nextRow)
               /\ p \in LivePages => page = pages[p]
               /\ p \notin LivePages => page = EmptyPage
               /\ row \in RowIds /\ nextRow <= nextRow' /\ row < nextRow'
               /\ nextRow \in Nat /\ nextRow' \in Nat
               /\ pages' = With(pages, p, AppendRow(page, row, v))
               /\ rowMap' = With(rowMap, row, [page |-> p, slot |-> Len(page.slots) + 1])
               /\ index' = IF indexed THEN [index EXCEPT ![v] = @ \cup {row}] ELSE index
               /\ indexed' = indexed
               /\ intact' = (intact /\ row \notin Mapped)
<1> USE BoundsAssumption
<1> DEFINE row == IF id > 0 THEN id ELSE nextRow
<1>1. row \in RowIds /\ nextRow' = Max({nextRow, row + 1})
  BY DEF Insert, AddRow, NextRowAfter
<1>2. row \in Nat /\ nextRow \in Nat \ {0}
  BY <1>1 DEF StoreInv, RowIdInv, MappedBelowNextRow, RowIds
<1>3. nextRow <= nextRow' /\ row < nextRow' /\ nextRow' \in Nat
  <2> HIDE DEF row
  <2>1. \E m \in {nextRow, row + 1} : \A x \in {nextRow, row + 1} : m >= x
    BY <1>2
  <2>2. nextRow' \in {nextRow, row + 1} /\ \A x \in {nextRow, row + 1} : nextRow' >= x
    BY <1>1, <2>1 DEF Max
  <2> QED BY <1>2, <2>2
<1>4. /\ SpaceBounded /\ DOMAIN space \subseteq LivePages /\ LivePages \subseteq PageIds
  BY DEF StoreInv, Accounts, PageAccounting, SpaceBounded
<1>5. CASE Roomy # {}
  <2>1. Roomiest \in Roomy
    <3>1. DOMAIN space \subseteq Nat
      <4>1. PageIds \subseteq Nat
        BY DEF PageIds
      <4> QED BY <1>4, <4>1
    <3> QED BY <1>4, <1>5, <3>1, RoomiestIsRoomy
  <2>2. Roomiest \in LivePages /\ Roomiest \in PageIds
    BY <1>4, <2>1 DEF Roomy
  <2>3. AddRow(Roomiest, pages[Roomiest], id, row, v)
    BY <1>5 DEF Insert
  <2>4. Laid(pages[Roomiest]) /\ RowsBelow(pages[Roomiest], nextRow)
    BY <2>2 DEF StoreInv, Layout
  <2> HIDE DEF row
  <2> QED BY <1>1, <1>2, <1>3, <2>2, <2>3, <2>4 DEF AddRow, row
<1>6. CASE Roomy = {}
  <2>1. Alloc /\ AddRow(AllocId, EmptyPage, id, row, v)
    BY <1>6 DEF Insert
  <2>2. AllocId \notin LivePages /\ AllocId \in PageIds
    BY <2>1, AllocTakesDeadPage DEF StoreInv, Alloc
  <2>3. Laid(EmptyPage) /\ RowsBelow(EmptyPage, nextRow)
    BY EmptyLaid DEF RowsBelow
  <2> HIDE DEF row
  <2> QED BY <1>1, <1>2, <1>3, <2>1, <2>2, <2>3 DEF AddRow, row
<1> QED BY <1>5, <1>6

\* A split spreads the live slots of a page over it and a fresh page.
LEMMA SplitEffect ==
  ASSUME StoreInv, NEW p \in PageIds, Split(p)
  PROVE  \E left, right, new :
           /\ p \in LivePages /\ new \notin LivePages
           /\ Picked(pages[p], left) /\ Picked(pages[p], right)
           /\ \A i \in LiveIndices(pages[p]) :
                \/ \E k \in DOMAIN left : left[k].off = i
                \/ \E k \in DOMAIN right : right[k].off = i
           /\ \A j \in DOMAIN left, k \in DOMAIN right : left[j].off # right[k].off
           /\ LivePages' = LivePages \cup {new}
           /\ pages'[p] = PageOf(pages[p], left) /\ pages'[new] = PageOf(pages[p], right)
           /\ \A q \in LivePages \ {p} : pages'[q] = pages[q]
           /\ rowMap' = Relocated(Relocated(rowMap, left, p, 0), right, new, 0)
<1> DEFINE live == LiveSlots(pages[p])
           n == Len(live)
           mid == Len(live) \div 2
           left == SubSeq(live, 1, mid)
           right == SubSeq(live, mid + 1, Len(live))
           rest == [pages EXCEPT ![p] = PageOf(@, left)]
<1>1. /\ Alloc /\ p \in todo
      /\ pages' = With(rest, AllocId, PageOf(pages[p], right))
      /\ rowMap' = Relocated(Relocated(rowMap, left, p, 0), right, AllocId, 0)
  BY DEF Split, Visiting
<1>2. p \in LivePages
  BY <1>1 DEF StoreInv, Accounts, PageAccounting
<1>3. /\ Picked(pages[p], live) /\ n \in Nat
      /\ \A i \in LiveIndices(pages[p]) : \E k \in DOMAIN live : live[k].off = i
  BY <1>2, LiveSlotsPicked DEF StoreInv, Layout
<1>4. DOMAIN live = 1 .. n /\ live \in Seq(Slots)
  BY <1>3 DEF Picked
<1>5. mid \in Nat /\ mid <= n
  <2> HIDE DEF live
  <2> QED BY <1>3
<1>6. AllocId \notin LivePages
  BY <1>1, AllocTakesDeadPage DEF StoreInv
<1>7. LivePages' = LivePages \cup {AllocId}
  <2>1. DOMAIN rest = LivePages
    BY DEF LivePages
  <2> HIDE DEF rest
  <2>2. DOMAIN pages' = DOMAIN rest \cup {AllocId}
    BY <1>1, WithDomain
  <2> QED BY <2>1, <2>2 DEF LivePages
<1>8. /\ pages'[AllocId] = PageOf(pages[p], right)
      /\ pages'[p] = PageOf(pages[p], left)
      /\ \A q \in LivePages \ {p} : pages'[q] = pages[q]
  <2>1. /\ DOMAIN rest = LivePages /\ rest[p] = PageOf(pages[p], left)
        /\ \A q \in LivePages \ {p} : rest[q] = pages[q]
    BY <1>2 DEF LivePages
  <2> DEFINE half == PageOf(pages[p], right)
  <2> HIDE DEF rest, half
  <2>2. /\ pages'[AllocId] = half
        /\ \A q \in DOMAIN rest \ {AllocId} : pages'[q] = rest[q]
    BY <1>1 DEF With, half
  <2> QED BY <1>2, <1>6, <2>1, <2>2 DEF half
<1> HIDE DEF live, mid
<1>9. /\ Picked(pages[p], left) /\ DOMAIN left = 1 .. mid
      /\ \A k \in 1 .. mid : left[k] = live[k]
  <2>1. /\ Picked(pages[p], SubSeq(live, 1, mid))
        /\ DOMAIN SubSeq(live, 1, mid) = 1 .. mid - 1 + 1
        /\ \A k \in 1 .. mid - 1 + 1 : SubSeq(live, 1, mid)[k] = live[1 + k - 1]
    BY <1>3, <1>5, PartPicked
  <2>2. mid - 1 + 1 = mid /\ \A k \in 1 .. mid : 1 + k - 1 = k
    BY <1>5
  <2> QED BY <2>1, <2>2
<1>10. /\ Picked(pages[p], right) /\ DOMAIN right = 1 .. n - mid
       /\ \A k \in 1 .. n - mid : right[k] = live[mid + k]
  <2>1. /\ Picked(pages[p], SubSeq(live, mid + 1, n))
        /\ DOMAIN SubSeq(live, mid + 1, n) = 1 .. n - (mid + 1) + 1
        /\ \A k \in 1 .. n - (mid + 1) + 1 :
             SubSeq(live, mid + 1, n)[k] = live[mid + 1 + k - 1]
    <3>1. mid + 1 \in Nat \ {0} /\ n \in Nat /\ n <= Len(live)
      BY <1>3, <1>5
    <3> QED BY <1>3, <3>1, PartPicked
  <2>2. n - (mid + 1) + 1 = n - mid /\ \A k \in 1 .. n - mid : mid + 1 + k - 1 = mid + k
    BY <1>3, <1>5
  <2> QED BY <2>1, <2>2
<1> HIDE DEF left, right
<1>11. \A i \in LiveIndices(pages[p]) : \/ \E k \in DOMAIN left : left[k].off = i
                                        \/ \E k \in DOMAIN right : right[k].off = i
  <2> SUFFICES ASSUME NEW i \in LiveIndices(pages[p])
               PROVE  \/ \E k \in DOMAIN left : left[k].off = i
                      \/ \E k \in DOMAIN right : right[k].off = i
    OBVIOUS
  <2>1. PICK k \in 1 .. n : live[k].off = i
    BY <1>3, <1>4
  <2>2. CASE k <= mid
    BY <1>5, <1>9, <2>1, <2>2
  <2>3. CASE k > mid
    <3>1. PICK m : m = k - mid
      OBVIOUS
    <3>2. m \in 1 .. n - mid /\ mid + m = k
      BY <1>3, <1>5, <2>3, <3>1
    <3>3. right[m].off = i
      BY <1>10, <2>1, <3>2
    <3> QED BY <1>10, <3>2, <3>3
  <2> QED BY <1>3, <1>5, <2>2, <2>3
<1>12. ASSUME NEW j \in DOMAIN left, NEW k \in DOMAIN right
       PROVE  left[j].off # right[k].off
  <2>1. j \in 1 .. n /\ mid + k \in 1 .. n /\ j # mid + k
    BY <1>3, <1>5, <1>9, <1>10
  <2>2. left[j] = live[j] /\ right[k] = live[mid + k]
    BY <1>9, <1>10
  <2> QED BY <1>3, <1>4, <2>1, <2>2 DEF Picked
<1> HIDE DEF n, rest
<1> QED BY <1>1, <1>2, <1>6, <1>7, <1>8, <1>9, <1>10, <1>11, <1>12

\* A merge puts the live slots of a page behind those of another.
LEMMA MergeEffect ==
  ASSUME StoreInv, NEW p \in PageIds, Merge(p)
  PROVE  \E into, live :
           /\ p \in LivePages /\ into \in LivePages \ {p}
           /\ Picked(pages[p], live)
           /\ \A i \in LiveIndices(pages[p]) : \E k \in DOMAIN live : live[k].off = i
           /\ LivePages' = LivePages \ {p}
           /\ pages'[into] = Extended(pages[into], pages[p], live)
           /\ \A q \in LivePages \ {p, into} : pages'[q] = pages[q]
           /\ rowMap' = Relocated(rowMap, live, into, Len(pages[into].slots))
<1> DEFINE into == Min(LivePages \ {p})
           live == LiveSlots(pages[p])
           rest == [pages EXCEPT ![into] = Extended(@, pages[p], live)]
<1>0. LivePages \subseteq PageIds /\ todo \subseteq LivePages
  BY DEF StoreInv, Accounts, PageAccounting
<1>1. /\ p \in LivePages /\ LivePages # {p}
      /\ pages' = Without(rest, {p})
      /\ rowMap' = Relocated(rowMap, live, into, Len(pages[into].slots))
  BY <1>0 DEF Merge, Visiting, Underfull
<1>2. into \in LivePages \ {p}
  <2>1. LivePages \ {p} \subseteq Nat /\ LivePages \ {p} # {}
    BY <1>0, <1>1, BoundsAssumption DEF PageIds
  <2> QED BY <2>1, MinIsIn
<1>3. /\ Picked(pages[p], live)
      /\ \A i \in LiveIndices(pages[p]) : \E k \in DOMAIN live : live[k].off = i
  BY <1>1, LiveSlotsPicked DEF StoreInv, Layout
<1> HIDE DEF into, live
<1>4. /\ DOMAIN rest = LivePages /\ rest[into] = Extended(pages[into], pages[p], live)
      /\ \A q \in LivePages \ {into} : rest[q] = pages[q]
  BY <1>2 DEF LivePages
<1> HIDE DEF rest
<1>5. /\ DOMAIN pages' = DOMAIN rest \ {p}
      /\ \A q \in DOMAIN rest \ {p} : pages'[q] = rest[q]
  BY <1>1, WithoutDomain
<1>6. LivePages' = LivePages \ {p}
  BY <1>4, <1>5 DEF LivePages
<1> QED BY <1>1, <1>2, <1>3, <1>4, <1>5, <1>6

\* A repack moves the live slots of a page to its front.
LEMMA RepackEffect ==
  ASSUME StoreInv, NEW p \in PageIds, Repack(p)
  PROVE  \E live :
           /\ p \in LivePages /\ Picked(pages[p], live)
           /\ \A i \in LiveIndices(pages[p]) : \E k \in DOMAIN live : live[k].off = i
           /\ intact' => intact /\ \A k \in DOMAIN live : live[k].off = k
           /\ LivePages' = LivePages
           /\ pages'[p] = PageOf(pages[p], live)
           /\ \A q \in LivePages \ {p} : pages'[q] = pages[q]
           /\ rowMap' = rowMap
<1> DEFINE live == LiveSlots(pages[p])
<1>1. /\ p \in todo /\ rowMap' = rowMap
      /\ pages' = [pages EXCEPT ![p] = PageOf(@, live)]
      /\ intact' = (intact /\ \A i \in DOMAIN live : pages[p].slots[i].live)
  BY DEF Repack, Visiting
<1>2. p \in LivePages /\ Laid(pages[p])
  BY <1>1 DEF StoreInv, Accounts, PageAccounting, Layout
<1>3. /\ Picked(pages[p], live)
      /\ Len(live) = LiveCount(pages[p]) /\ LiveCount(pages[p]) \in Nat
      /\ LiveCount(pages[p]) <= Len(pages[p].slots)
      /\ \A i \in LiveIndices(pages[p]) : \E k \in DOMAIN live : live[k].off = i
      /\ \A i \in LiveIndices(pages[p]) : 1 .. i \subseteq LiveIndices(pages[p]) =>
              i \in DOMAIN live /\ live[i].off = i
  BY <1>2, LiveSlotsPicked
<1> HIDE DEF live
<1>4. /\ DOMAIN live = 1 .. Len(live) /\ DOMAIN live \subseteq DOMAIN pages[p].slots
  <2>1. live \in Seq(Slots) /\ pages[p].slots \in Seq(Slots)
    BY <1>2, <1>3 DEF Picked, Laid
  <2> QED BY <1>3, <2>1
<1>5. ASSUME intact', NEW k \in DOMAIN live PROVE live[k].off = k
  <2>1. \A i \in DOMAIN live : i \in LiveIndices(pages[p])
    BY <1>1, <1>4, <1>5 DEF LiveIndices
  <2>2. 1 .. k \subseteq DOMAIN live
    BY <1>3, <1>4
  <2> QED BY <1>3, <2>1, <2>2
<1>6. /\ LivePages' = LivePages /\ pages'[p] = PageOf(pages[p], live)
      /\ \A q \in LivePages \ {p} : pages'[q] = pages[q]
  BY <1>1, <1>2 DEF LivePages
<1> QED BY <1>1, <1>2, <1>3, <1>5, <1>6
-----------------------------------------------------------------------------
(* Every page stays laid out, and below the row-id allocator.              *)

\* Pages whose slots show no new row id are below the same bound.
LEMMA PageOfRows ==
  ASSUME NEW page, Laid(page), NEW ss, Picked(page, ss), NEW n, RowsBelow(page, n)
  PROVE  RowsBelow(PageOf(page, ss), n)
<1>1. \A k \in DOMAIN ss : ss[k].row < n
  BY DEF Picked, RowsBelow, LiveIndices
<1>2. DOMAIN PageOf(page, ss).slots = DOMAIN ss
      /\ \A k \in DOMAIN ss : PageOf(page, ss).slots[k].row = ss[k].row
  BY DEF PageOf
<1> QED BY <1>1, <1>2 DEF RowsBelow

LEMMA ExtendedRows ==
  ASSUME NEW page, Laid(page), NEW other, Laid(other), NEW ss, Picked(other, ss),
         NEW n, RowsBelow(page, n), RowsBelow(other, n)
  PROVE  RowsBelow(Extended(page, other, ss), n)
<1> DEFINE all == Extended(page, other, ss)
           m == Len(page.slots)
<1>1. \A k \in DOMAIN ss : ss[k].row < n
  BY DEF Picked, RowsBelow, LiveIndices
<1>2. /\ m \in Nat /\ DOMAIN page.slots = 1 .. m
      /\ Len(ss) \in Nat /\ DOMAIN ss = 1 .. Len(ss)
  BY DEF Laid, Picked
<1>3. /\ DOMAIN all.slots = 1 .. m + Len(ss)
      /\ \A i \in 1 .. m : all.slots[i] = page.slots[i]
      /\ \A k \in DOMAIN ss :
           all.slots[m + k] = [row |-> ss[k].row, off |-> m + k, live |-> TRUE]
  BY ExtendedLaid
<1> HIDE DEF all, m
<1>4. ASSUME NEW i \in 1 .. m + Len(ss) PROVE all.slots[i].row < n
  <2>1. CASE i <= m
    BY <1>2, <1>3, <2>1 DEF RowsBelow
  <2>2. CASE i > m
    <3>1. PICK k : k = i - m
      OBVIOUS
    <3>2. k \in DOMAIN ss /\ m + k = i
      BY <1>2, <2>2, <3>1
    <3>3. all.slots[m + k] = [row |-> ss[k].row, off |-> m + k, live |-> TRUE]
      BY <1>3, <3>2
    <3> QED BY <1>1, <3>2, <3>3
  <2> QED BY <1>2, <2>1, <2>2
<1> QED BY <1>3, <1>4 DEF RowsBelow, all

\* A bound on row ids may grow.
LEMMA RowsBelowMore ==
  ASSUME NEW page, Laid(page), NEW n \in Nat, NEW m \in Nat, n <= m, RowsBelow(page, n)
  PROVE  RowsBelow(page, m)
<1>1. \A i \in DOMAIN page.slots : page.slots[i].row \in Nat
  <2>1. \A i \in DOMAIN page.slots : page.slots[i] \in Slots
    BY DEF Laid
  <2> QED BY <2>1 DEF Slots
<1> QED BY <1>1 DEF RowsBelow

LEMMA InsertKeepsStore ==
  ASSUME StoreInv, NEW id \in Nat, NEW v \in Values, Insert(id, v)
  PROVE  Layout' /\ (Mapped \subseteq RowIds)'
<1> DEFINE row == IF id > 0 THEN id ELSE nextRow
<1>1. PICK p, page :
        /\ p \in PageIds /\ Laid(page) /\ RowsBelow(page, nextRow)
        /\ p \in LivePages => page = pages[p]
        /\ p \notin LivePages => page = EmptyPage
        /\ row \in RowIds /\ nextRow <= nextRow' /\ row < nextRow'
        /\ nextRow \in Nat /\ nextRow' \in Nat
        /\ pages' = With(pages, p, AppendRow(page, row, v))
        /\ rowMap' = With(rowMap, row, [page |-> p, slot |-> Len(page.slots) + 1])
  BY InsertEffect
<1>2. row \in Nat
  BY <1>1, BoundsAssumption DEF RowIds
<1> HIDE DEF row
<1>3. /\ Laid(AppendRow(page, row, v))
      /\ RowsBelow(AppendRow(page, row, v), nextRow')
  <2> DEFINE more == AppendRow(page, row, v)
             n == Len(page.slots)
  <2>1. /\ Laid(more) /\ n \in Nat
        /\ DOMAIN more.slots = 1 .. n + 1
        /\ \A i \in 1 .. n : more.slots[i] = page.slots[i]
        /\ more.slots[n + 1] = [row |-> row, off |-> n + 1, live |-> TRUE]
    BY <1>1, <1>2, AppendRowLaid
  <2>2. DOMAIN page.slots = 1 .. n /\ RowsBelow(page, nextRow')
    BY <1>1, RowsBelowMore DEF Laid
  <2> HIDE DEF more, n
  <2>3. 1 .. n + 1 = (1 .. n) \cup {n + 1}
    BY <2>1
  <2>4. \A i \in 1 .. n + 1 : more.slots[i].row < nextRow'
    <3>1. more.slots[n + 1].row < nextRow'
      BY <1>1, <2>1
    <3>2. \A i \in 1 .. n : more.slots[i].row < nextRow'
      BY <2>1, <2>2 DEF RowsBelow
    <3> QED BY <2>3, <3>1, <3>2
  <2> QED BY <2>1, <2>4 DEF RowsBelow, more
<1>4. /\ LivePages' = LivePages \cup {p} /\ pages'[p] = AppendRow(page, row, v)
      /\ \A q \in LivePages \ {p} : pages'[q] = pages[q]
  <2> DEFINE more == AppendRow(page, row, v)
  <2> HIDE DEF more
  <2>1. pages' = [x \in LivePages \cup {p} |-> IF x = p THEN more ELSE pages[x]]
    BY <1>1 DEF With, LivePages, more
  <2> QED BY <2>1 DEF more, LivePages
<1>5. \A q \in LivePages : Laid(pages[q]) /\ RowsBelow(pages[q], nextRow')
  BY <1>1, RowsBelowMore DEF StoreInv, Layout
<1>6. Mapped' = Mapped \cup {row}
  BY <1>1, WithDomain DEF Mapped
<1> QED BY <1>1, <1>3, <1>4, <1>5, <1>6 DEF Layout, StoreInv

LEMMA DeleteKeepsStore ==
  ASSUME StoreInv, NEW op, NEW target, DeleteWhere(op, target)
  PROVE  /\ Layout' /\ Mapped' \subseteq Mapped
<1> DEFINE rows == Matching(op, target) \cap Mapped
           dead(p, i) == \E r \in rows : rowMap[r] = [page |-> p, slot |-> i]
           slots(p) == [i \in DOMAIN pages[p].slots |->
                          IF dead(p, i) THEN [pages[p].slots[i] EXCEPT !.live = FALSE]
                          ELSE pages[p].slots[i]]
<1>1. /\ pages' = [p \in LivePages |-> [pages[p] EXCEPT !.slots = slots(p)]]
      /\ rowMap' = Without(rowMap, rows) /\ nextRow' = nextRow
  BY DEF DeleteWhere
<1>2. Mapped' \subseteq Mapped
  BY <1>1 DEF Mapped, Without, Restrict
<1> HIDE DEF rows, dead
<1>3. ASSUME NEW p \in LivePages
      PROVE  Laid(pages'[p]) /\ RowsBelow(pages'[p], nextRow')
  <2>1. Laid(pages[p]) /\ RowsBelow(pages[p], nextRow)
    BY DEF StoreInv, Layout
  <2>2. /\ pages'[p] = [cells |-> pages[p].cells, slots |-> slots(p)]
    BY <1>1, <2>1 DEF Laid
  <2>3. /\ slots(p) \in Seq(Slots) /\ Len(slots(p)) = Len(pages[p].slots)
        /\ DOMAIN slots(p) = DOMAIN pages[p].slots
        /\ \A i \in DOMAIN pages[p].slots : /\ slots(p)[i].off = pages[p].slots[i].off
                                            /\ slots(p)[i].row = pages[p].slots[i].row
    <3>1. /\ pages[p].slots \in Seq(Slots)
          /\ \A i \in DOMAIN pages[p].slots : pages[p].slots[i] \in Slots
      BY <2>1 DEF Laid
    <3>2. \A i \in DOMAIN pages[p].slots :
            /\ slots(p)[i] \in Slots /\ slots(p)[i].off = pages[p].slots[i].off
            /\ slots(p)[i].row = pages[p].slots[i].row
      BY <3>1 DEF Slots
    <3> DEFINE old == pages[p].slots
               new == slots(p)
    <3>3. /\ Len(old) \in Nat /\ DOMAIN old = 1 .. Len(old)
          /\ new = [i \in 1 .. Len(old) |-> new[i]]
          /\ \A i \in 1 .. Len(old) : new[i] \in Slots
      <4>1. Len(old) \in Nat /\ DOMAIN old = 1 .. Len(old)
        BY <3>1
      <4>2. new = [i \in DOMAIN old |-> new[i]]
        OBVIOUS
      <4>3. \A i \in DOMAIN old : new[i] \in Slots
        BY <3>2
      <4> HIDE DEF old, new
      <4> QED BY <4>1, <4>2, <4>3
    <3>4. new \in Seq(Slots) /\ Len(new) = Len(old) /\ DOMAIN new = DOMAIN old
      <4> HIDE DEF old, new
      <4> QED BY <3>3
    <3> QED BY <3>2, <3>4
  <2> HIDE DEF slots
  <2> QED BY <1>1, <2>1, <2>2, <2>3 DEF Laid, RowsBelow
<1>4. LivePages' = LivePages
  BY <1>1 DEF LivePages
<1> QED BY <1>2, <1>3, <1>4 DEF Layout

LEMMA UpdateKeepsStore ==
  ASSUME StoreInv, NEW v \in Values, NEW op, NEW target, UpdateWhere(v, op, target)
  PROVE  Layout' /\ Mapped' = Mapped
<1>1. PICK done :
        /\ pages' = [p \in LivePages |->
             [pages[p] EXCEPT !.cells =
                [i \in DOMAIN @ |->
                   IF \E r \in done : rowMap[r] = [page |-> p, slot |-> i]
                   THEN v ELSE @[i]]]]
        /\ rowMap' = rowMap /\ nextRow' = nextRow
  BY DEF UpdateWhere
<1> DEFINE hit(p, i) == \E r \in done : rowMap[r] = [page |-> p, slot |-> i]
           cells(p) == [i \in DOMAIN pages[p].cells |->
                          IF hit(p, i) THEN v ELSE pages[p].cells[i]]
<1>2. pages' = [p \in LivePages |-> [pages[p] EXCEPT !.cells = cells(p)]]
  BY <1>1
<1> HIDE DEF hit
<1>3. ASSUME NEW p \in LivePages
      PROVE  Laid(pages'[p]) /\ RowsBelow(pages'[p], nextRow')
  <2>1. Laid(pages[p]) /\ RowsBelow(pages[p], nextRow)
    BY DEF StoreInv, Layout
  <2>2. pages'[p] = [cells |-> cells(p), slots |-> pages[p].slots]
    BY <1>2, <2>1 DEF Laid
  <2>3. cells(p) \in Seq(Values) /\ Len(cells(p)) = Len(pages[p].cells)
    BY <2>1 DEF Laid
  <2> HIDE DEF cells
  <2> QED BY <1>1, <2>1, <2>2, <2>3 DEF Laid, RowsBelow
<1>4. LivePages' = LivePages /\ Mapped' = Mapped
  BY <1>1, <1>2 DEF LivePages, Mapped
<1> QED BY <1>3, <1>4 DEF Layout

LEMMA SplitKeepsStore ==
  ASSUME StoreInv, NEW p \in PageIds, Split(p)
  PROVE  Layout' /\ Mapped' = Mapped
<1>1. PICK left, right, new :
           /\ p \in LivePages /\ new \notin LivePages
           /\ Picked(pages[p], left) /\ Picked(pages[p], right)
           /\ LivePages' = LivePages \cup {new}
           /\ pages'[p] = PageOf(pages[p], left) /\ pages'[new] = PageOf(pages[p], right)
           /\ \A q \in LivePages \ {p} : pages'[q] = pages[q]
           /\ rowMap' = Relocated(Relocated(rowMap, left, p, 0), right, new, 0)
  BY SplitEffect
<1>2. nextRow' = nextRow
  BY DEF Split
<1>3. \A q \in LivePages : Laid(pages[q]) /\ RowsBelow(pages[q], nextRow)
  BY DEF StoreInv, Layout
<1>4. /\ Laid(PageOf(pages[p], left)) /\ RowsBelow(PageOf(pages[p], left), nextRow)
      /\ Laid(PageOf(pages[p], right)) /\ RowsBelow(PageOf(pages[p], right), nextRow)
  BY <1>1, <1>3, PageOfLaid, PageOfRows
<1>5. Mapped' = Mapped
  BY <1>1, RelocatedDomain DEF Mapped
<1> QED BY <1>1, <1>2, <1>3, <1>4, <1>5 DEF Layout

LEMMA MergeKeepsStore ==
  ASSUME StoreInv, NEW p \in PageIds, Merge(p)
  PROVE  Layout' /\ Mapped' = Mapped
<1>1. PICK into, live :
           /\ p \in LivePages /\ into \in LivePages \ {p}
           /\ Picked(pages[p], live)
           /\ LivePages' = LivePages \ {p}
           /\ pages'[into] = Extended(pages[into], pages[p], live)
           /\ \A q \in LivePages \ {p, into} : pages'[q] = pages[q]
           /\ rowMap' = Relocated(rowMap, live, into, Len(pages[into].slots))
  BY MergeEffect
<1>2. nextRow' = nextRow
  BY DEF Merge
<1>3. \A q \in LivePages : Laid(pages[q]) /\ RowsBelow(pages[q], nextRow)
  BY DEF StoreInv, Layout
<1>4. /\ Laid(pages'[into]) /\ RowsBelow(pages'[into], nextRow)
  BY <1>1, <1>3, ExtendedLaid, ExtendedRows
<1>5. Mapped' = Mapped
  BY <1>1, RelocatedDomain DEF Mapped
<1> QED BY <1>1, <1>2, <1>3, <1>4, <1>5 DEF Layout

LEMMA RepackKeepsStore ==
  ASSUME StoreInv, NEW p \in PageIds, Repack(p)
  PROVE  Layout' /\ Mapped' = Mapped
<1>1. PICK live :
           /\ p \in LivePages /\ Picked(pages[p], live)
           /\ LivePages' = LivePages
           /\ pages'[p] = PageOf(pages[p], live)
           /\ \A q \in LivePages \ {p} : pages'[q] = pages[q]
           /\ rowMap' = rowMap
  BY RepackEffect
<1>2. nextRow' = nextRow
  BY DEF Repack
<1>3. \A q \in LivePages : Laid(pages[q]) /\ RowsBelow(pages[q], nextRow)
  BY DEF StoreInv, Layout
<1>4. Laid(pages'[p]) /\ RowsBelow(pages'[p], nextRow)
  BY <1>1, <1>3, PageOfLaid, PageOfRows
<1> QED BY <1>1, <1>2, <1>3, <1>4 DEF Layout, Mapped

\* The pages of a reloaded store, one for one.
LEMMA ReloadEffect ==
  ASSUME Reload
  PROVE  \E n, old :
           /\ n \in Nat /\ LivePages' = 0 .. n - 1
           /\ \A i \in 0 .. n - 1 : old[i] \in LivePages /\ pages'[i] = pages[old[i]]
           /\ \A p \in LivePages : \E i \in 0 .. n - 1 : old[i] = p
           /\ Verified(pages')
<1>0. PICK n \in 1 .. MaxPages : \E old \in Numberings(n) :
        LET on == [p \in 0 .. n - 1 |-> pages[old[p]]]
        IN  Verified(on) /\ pages' = on /\ highWater' = n
  BY DEF Reload
<1>1. PICK old \in Numberings(n) :
        LET on == [p \in 0 .. n - 1 |-> pages[old[p]]]
        IN  Verified(on) /\ pages' = on /\ highWater' = n
  BY <1>0
<1>2. pages' = [p \in 0 .. n - 1 |-> pages[old[p]]] /\ Verified(pages')
  BY <1>1
<1>3. n \in Nat
  BY BoundsAssumption
<1>4. /\ \A i \in 0 .. n - 1 : old[i] \in LivePages
      /\ \A p \in LivePages : \E i \in 0 .. n - 1 : old[i] = p
  BY DEF Numberings
<1> QED BY <1>2, <1>3, <1>4 DEF LivePages

LEMMA ReloadKeepsStore ==
  ASSUME StoreInv, Reload
  PROVE  Layout' /\ Mapped' = Mapped
<1>1. PICK n, old :
           /\ n \in Nat /\ LivePages' = 0 .. n - 1
           /\ \A i \in 0 .. n - 1 : old[i] \in LivePages /\ pages'[i] = pages[old[i]]
  BY ReloadEffect
<1>2. nextRow' = nextRow /\ rowMap' = rowMap
  BY DEF Reload
<1> QED BY <1>1, <1>2 DEF StoreInv, Layout, Mapped
LEMMA StoreInductive ==
  /\ Init => StoreInv
  /\ StoreInv /\ [Next]_vars => StoreInv'
<1>1. Init => StoreInv
  <2>1. Init => Layout /\ Mapped \subseteq RowIds
    BY DEF Init, Layout, LivePages, Mapped
  <2> QED BY <2>1, AccountsInductive, RowIdInductive DEF StoreInv
<1>2. ASSUME StoreInv, [Next]_vars PROVE StoreInv'
  <2>1. Accounts' /\ RowIdInv'
    BY <1>2, AccountsInductive, RowIdInductive DEF StoreInv
  <2>2. ASSUME Layout', Mapped' \subseteq Mapped PROVE StoreInv'
    BY <1>2, <2>1, <2>2 DEF StoreInv, RowIds
  <2>3. ASSUME NEW id \in GivenIds \cup {0}, NEW v \in Values, Insert(id, v)
        PROVE  StoreInv'
    <3>1. id \in Nat
      BY BoundsAssumption
    <3> QED BY <1>2, <2>1, <2>3, <3>1, InsertKeepsStore DEF StoreInv
  <2>4. ASSUME NEW op \in Ops, NEW t \in Values, DeleteWhere(op, t)
        PROVE  StoreInv'
    BY <1>2, <2>2, <2>4, DeleteKeepsStore
  <2>5. ASSUME NEW v \in Values, NEW op \in Ops, NEW t \in Values, UpdateWhere(v, op, t)
        PROVE  StoreInv'
    BY <1>2, <2>2, <2>5, UpdateKeepsStore
  <2>6. ASSUME NEW p \in PageIds, Split(p) PROVE StoreInv'
    BY <1>2, <2>2, <2>6, SplitKeepsStore
  <2>7. ASSUME NEW p \in PageIds, Merge(p) PROVE StoreInv'
    BY <1>2, <2>2, <2>7, MergeKeepsStore
  <2>8. ASSUME NEW p \in PageIds, Repack(p) PROVE StoreInv'
    BY <1>2, <2>2, <2>8, RepackKeepsStore
  <2>9. CASE Reload
    BY <1>2, <2>2, <2>9, ReloadKeepsStore
  <2>10. CASE StartCompaction \/ (\E p \in PageIds : SkipPage(p)) \/ UNCHANGED vars
    <3>1. pages' = pages /\ rowMap' = rowMap /\ nextRow' = nextRow
      BY <2>10 DEF StartCompaction, SkipPage, pagerVars, vars
    <3> QED BY <1>2, <2>2, <3>1 DEF StoreInv, Layout, LivePages, Mapped
  <2> QED BY <1>2, <2>3, <2>4, <2>5, <2>6, <2>7, <2>8, <2>9, <2>10 DEF Next
<1> QED BY <1>1, <1>2

\* However pages were split, merged, repacked, saved and loaded: a page has a cell
\* for every slot and every slot at its own offset, so both read paths see the
\* same cell (src/src/mutation.rs, read_row_cell and read_row_cell_fast).
THEOREM ReadPathsAgree == Spec => []PathsAgree
<1>1. StoreInv => PathsAgree
  BY DEF StoreInv, Layout, Laid, PathsAgree
<1> QED BY StoreInductive, <1>1, PTL DEF Spec

\* An automatic row id is not one that a page, live or tombstoned, or the row-id
\* map still knows (src/src/mutation.rs, insert; src/README.md:572-573).
THEOREM AutomaticIdsFresh == Spec => []NextRowIsFresh
<1>1. StoreInv => NextRowIsFresh
  BY DEF StoreInv, RowIdInv, MappedBelowNextRow, Layout, RowsBelow, NextRowIsFresh
<1> QED BY StoreInductive, <1>1, PTL DEF Spec
-----------------------------------------------------------------------------
(* The row-id map and the pages, while the store is intact.                *)

\* Every mapped row has a live slot where the map says, and every live slot is
\* where the map says its row is.
Named == \A r \in Mapped : NamesLiveSlot(r)
Placed ==
  \A p \in LivePages : \A i \in LiveIndices(pages[p]) :
    /\ pages[p].slots[i].row \in Mapped
    /\ rowMap[pages[p].slots[i].row] = [page |-> p, slot |-> i]
Agree == Named /\ Placed

\* The cell the row-id map leads to.
CellOf(r) == pages[rowMap[r].page].cells[rowMap[r].slot]

\* A step after which every live slot has a copy, with the same cell.
Carried ==
  \A p \in LivePages : \A i \in LiveIndices(pages[p]) :
    \E q \in LivePages' : \E j \in LiveIndices(pages'[q]) :
      /\ pages'[q].slots[j].row = pages[p].slots[i].row
      /\ pages'[q].cells[j] = pages[p].cells[i]

\* A step that keeps the rows and what they hold.
RowsStay == Mapped' = Mapped /\ \A r \in Mapped : CellOf(r)' = CellOf(r)

\* The invariant speaks of pairs of a page and a slot.
LEMMA MapInvariantSays ==
  MapAgreesWithPages <=> (intact => Agree)
<1>1. \A at : at \in LiveAt <=> \E p \in LivePages : \E i \in LiveIndices(pages[p]) : at = <<p, i>>
  BY DEF LiveAt, LiveIndices
<1>2. \A p, i : RowAt(<<p, i>>) = pages[p].slots[i].row
  BY DEF RowAt
<1>3. Placed <=> \A at \in LiveAt : /\ RowAt(at) \in Mapped
                                    /\ rowMap[RowAt(at)] = [page |-> at[1], slot |-> at[2]]
  <2> DEFINE Right(p, i) == /\ pages[p].slots[i].row \in Mapped
                            /\ rowMap[pages[p].slots[i].row] = [page |-> p, slot |-> i]
             RightAt(at) == /\ RowAt(at) \in Mapped
                            /\ rowMap[RowAt(at)] = [page |-> at[1], slot |-> at[2]]
  <2>1. \A p, i : RightAt(<<p, i>>) <=> Right(p, i)
    BY <1>2
  <2>2. Placed <=> \A p \in LivePages : \A i \in LiveIndices(pages[p]) : Right(p, i)
    BY DEF Placed
  <2> HIDE DEF Right, RightAt
  <2>3. (\A at \in LiveAt : RightAt(at)) <=>
          \A p \in LivePages : \A i \in LiveIndices(pages[p]) : Right(p, i)
    <3>1. ASSUME \A at \in LiveAt : RightAt(at), NEW p \in LivePages,
                 NEW i \in LiveIndices(pages[p])
          PROVE  Right(p, i)
      <4>1. <<p, i>> \in LiveAt
        BY <1>1
      <4> QED BY <2>1, <3>1, <4>1
    <3>2. ASSUME \A p \in LivePages : \A i \in LiveIndices(pages[p]) : Right(p, i),
                 NEW at \in LiveAt
          PROVE  RightAt(at)
      <4>1. PICK p \in LivePages : \E i \in LiveIndices(pages[p]) : at = <<p, i>>
        BY <1>1
      <4>2. PICK i \in LiveIndices(pages[p]) : at = <<p, i>>
        BY <4>1
      <4>3. RightAt(<<p, i>>)
        BY <2>1, <3>2
      <4> QED BY <4>2, <4>3
    <3> QED BY <3>1, <3>2
  <2> QED BY <2>2, <2>3 DEF RightAt
<1> QED BY <1>3 DEF MapAgreesWithPages, Agree, Named

\* Steps that carry every live slot along, and leave none that the map does not
\* name, keep the map and the rows.
LEMMA MovesKeepMap ==
  ASSUME Agree, Mapped' = Mapped, Placed', Carried
  PROVE  Agree' /\ RowsStay
<1>1. ASSUME NEW r \in Mapped
      PROVE  NamesLiveSlot(r)' /\ CellOf(r)' = CellOf(r)
  <2>1. PICK p, i : p = rowMap[r].page /\ i = rowMap[r].slot
    OBVIOUS
  <2>2. p \in LivePages /\ i \in LiveIndices(pages[p]) /\ pages[p].slots[i].row = r
    BY <2>1 DEF Agree, Named, NamesLiveSlot, LiveIndices
  <2>3. PICK q \in LivePages' : \E j \in LiveIndices(pages'[q]) :
          pages'[q].slots[j].row = r /\ pages'[q].cells[j] = pages[p].cells[i]
    BY <2>2 DEF Carried
  <2>4. PICK j \in LiveIndices(pages'[q]) :
          pages'[q].slots[j].row = r /\ pages'[q].cells[j] = pages[p].cells[i]
    BY <2>3
  <2>5. rowMap'[r] = [page |-> q, slot |-> j]
    BY <2>3, <2>4 DEF Placed
  <2>6. rowMap'[r].page = q /\ rowMap'[r].slot = j
    BY <2>5
  <2> QED BY <2>1, <2>3, <2>4, <2>6 DEF NamesLiveSlot, CellOf, LiveIndices
<1> QED BY <1>1 DEF Agree, Named, RowsStay

\* The rows of listed live slots are mapped there, so they are different rows.
LEMMA PickedRows ==
  ASSUME Placed, NEW p \in LivePages, NEW ss, Picked(pages[p], ss)
  PROVE  /\ \A k \in DOMAIN ss : /\ ss[k].row \in Mapped
                                 /\ rowMap[ss[k].row] = [page |-> p, slot |-> ss[k].off]
         /\ \A j, k \in DOMAIN ss : ss[j].row = ss[k].row => j = k
<1>1. \A k \in DOMAIN ss : /\ ss[k].row \in Mapped
                           /\ rowMap[ss[k].row] = [page |-> p, slot |-> ss[k].off]
  BY DEF Placed, Picked
<1>2. ASSUME NEW j \in DOMAIN ss, NEW k \in DOMAIN ss, ss[j].row = ss[k].row
      PROVE  j = k
  <2>1. [page |-> p, slot |-> ss[j].off] = [page |-> p, slot |-> ss[k].off]
    BY <1>1, <1>2
  <2>2. ss[j].off = ss[k].off
    BY <2>1
  <2> QED BY <2>2 DEF Picked
<1> QED BY <1>1, <1>2

\* Where the rows of a list of different rows go, and that no other row moves.
LEMMA RelocatedRows ==
  ASSUME NEW map, NEW ss \in Seq(Slots), NEW p, NEW start \in Nat,
         \A j, k \in DOMAIN ss : ss[j].row = ss[k].row => j = k
  PROVE  /\ \A k \in DOMAIN ss : ss[k].row \in DOMAIN map =>
              Relocated(map, ss, p, start)[ss[k].row] = [page |-> p, slot |-> start + k]
         /\ \A r \in DOMAIN map : (\A k \in DOMAIN ss : ss[k].row # r) =>
              Relocated(map, ss, p, start)[r] = map[r]
<1>1. ASSUME NEW k \in DOMAIN ss, ss[k].row \in DOMAIN map
      PROVE  Relocated(map, ss, p, start)[ss[k].row] = [page |-> p, slot |-> start + k]
  <2>1. {i \in DOMAIN ss : ss[i].row = ss[k].row} = {k}
    OBVIOUS
  <2>2. Max({k}) = k
    <3>1. k \in Nat
      OBVIOUS
    <3> QED BY <3>1 DEF Max
  <2> QED BY <1>1, <2>1, <2>2 DEF Relocated
<1>2. ASSUME NEW r \in DOMAIN map, \A k \in DOMAIN ss : ss[k].row # r
      PROVE  Relocated(map, ss, p, start)[r] = map[r]
  <2>1. {i \in DOMAIN ss : ss[i].row = r} = {}
    BY <1>2
  <2> QED BY <2>1 DEF Relocated
<1> QED BY <1>1, <1>2

LEMMA SplitKeepsMap ==
  ASSUME StoreInv, Agree, NEW p \in PageIds, Split(p)
  PROVE  Agree' /\ RowsStay
<1>1. PICK left, right, new :
           /\ p \in LivePages /\ new \notin LivePages
           /\ Picked(pages[p], left) /\ Picked(pages[p], right)
           /\ \A i \in LiveIndices(pages[p]) :
                \/ \E k \in DOMAIN left : left[k].off = i
                \/ \E k \in DOMAIN right : right[k].off = i
           /\ \A j \in DOMAIN left, k \in DOMAIN right : left[j].off # right[k].off
           /\ LivePages' = LivePages \cup {new}
           /\ pages'[p] = PageOf(pages[p], left) /\ pages'[new] = PageOf(pages[p], right)
           /\ \A q \in LivePages \ {p} : pages'[q] = pages[q]
           /\ rowMap' = Relocated(Relocated(rowMap, left, p, 0), right, new, 0)
  BY SplitEffect
<1> DEFINE half == Relocated(rowMap, left, p, 0)
<1>2. /\ Laid(pages[p])
      /\ DOMAIN pages'[p].slots = DOMAIN left
      /\ \A k \in DOMAIN left :
           /\ pages'[p].slots[k] = [row |-> left[k].row, off |-> k, live |-> TRUE]
           /\ pages'[p].cells[k] = pages[p].cells[left[k].off]
      /\ DOMAIN pages'[new].slots = DOMAIN right
      /\ \A k \in DOMAIN right :
           /\ pages'[new].slots[k] = [row |-> right[k].row, off |-> k, live |-> TRUE]
           /\ pages'[new].cells[k] = pages[p].cells[right[k].off]
  <2>1. Laid(pages[p])
    BY <1>1 DEF StoreInv, Layout
  <2> QED BY <1>1, <2>1, PageOfLaid
<1>3. /\ \A k \in DOMAIN left : /\ left[k].row \in Mapped
                                /\ rowMap[left[k].row] = [page |-> p, slot |-> left[k].off]
      /\ \A k \in DOMAIN right : /\ right[k].row \in Mapped
                                 /\ rowMap[right[k].row] = [page |-> p, slot |-> right[k].off]
      /\ \A j, k \in DOMAIN left : left[j].row = left[k].row => j = k
      /\ \A j, k \in DOMAIN right : right[j].row = right[k].row => j = k
  BY <1>1, PickedRows DEF Agree
<1>4. \A j \in DOMAIN left, k \in DOMAIN right : left[j].row # right[k].row
  <2> SUFFICES ASSUME NEW j \in DOMAIN left, NEW k \in DOMAIN right,
                      left[j].row = right[k].row
               PROVE  FALSE
    OBVIOUS
  <2>1. [page |-> p, slot |-> left[j].off] = [page |-> p, slot |-> right[k].off]
    BY <1>3
  <2>2. left[j].off = right[k].off
    BY <2>1
  <2> QED BY <1>1, <2>2
<1>5. /\ left \in Seq(Slots) /\ right \in Seq(Slots)
      /\ \A k \in DOMAIN left : k \in Nat
      /\ \A k \in DOMAIN right : k \in Nat
  BY <1>1 DEF Picked
<1>6. /\ DOMAIN half = Mapped
      /\ \A k \in DOMAIN left : half[left[k].row] = [page |-> p, slot |-> k]
      /\ \A r \in Mapped : (\A k \in DOMAIN left : left[k].row # r) => half[r] = rowMap[r]
  <2>1. \A k \in DOMAIN left : 0 + k = k
    BY <1>5
  <2>2. /\ \A k \in DOMAIN left : left[k].row \in DOMAIN rowMap =>
             Relocated(rowMap, left, p, 0)[left[k].row] = [page |-> p, slot |-> 0 + k]
        /\ \A r \in DOMAIN rowMap : (\A k \in DOMAIN left : left[k].row # r) =>
             Relocated(rowMap, left, p, 0)[r] = rowMap[r]
    BY <1>3, <1>5, RelocatedRows
  <2>3. DOMAIN half = Mapped
    BY RelocatedDomain DEF Mapped
  <2> QED BY <1>3, <2>1, <2>2, <2>3 DEF Mapped
<1> HIDE DEF half
<1>7. /\ Mapped' = Mapped
      /\ \A k \in DOMAIN right : rowMap'[right[k].row] = [page |-> new, slot |-> k]
      /\ \A r \in Mapped : (\A k \in DOMAIN right : right[k].row # r) => rowMap'[r] = half[r]
  <2>1. \A k \in DOMAIN right : 0 + k = k
    BY <1>5
  <2>2. rowMap' = Relocated(half, right, new, 0)
    BY <1>1 DEF half
  <2>3. /\ \A k \in DOMAIN right : right[k].row \in DOMAIN half =>
             Relocated(half, right, new, 0)[right[k].row] = [page |-> new, slot |-> 0 + k]
        /\ \A r \in DOMAIN half : (\A k \in DOMAIN right : right[k].row # r) =>
             Relocated(half, right, new, 0)[r] = half[r]
    BY <1>3, <1>5, RelocatedRows
  <2>4. Mapped' = Mapped
    BY <1>6, <2>2, RelocatedDomain DEF Mapped
  <2> QED BY <1>3, <1>6, <2>1, <2>2, <2>3, <2>4
<1>8. \A k \in DOMAIN left : rowMap'[left[k].row] = [page |-> p, slot |-> k]
  BY <1>3, <1>4, <1>6, <1>7
<1>9. ASSUME NEW q \in LivePages \ {p}, NEW i \in LiveIndices(pages[q])
      PROVE  /\ pages'[q] = pages[q] /\ pages[q].slots[i].row \in Mapped
             /\ rowMap'[pages[q].slots[i].row] = [page |-> q, slot |-> i]
  <2>1. PICK r : r = pages[q].slots[i].row
    OBVIOUS
  <2>2. r \in Mapped /\ rowMap[r] = [page |-> q, slot |-> i]
    BY <2>1 DEF Agree, Placed
  <2>3. rowMap[r].page = q
    BY <2>2
  <2>4. /\ \A k \in DOMAIN left : left[k].row # r
        /\ \A k \in DOMAIN right : right[k].row # r
    <3>1. ASSUME NEW k \in DOMAIN left, left[k].row = r PROVE FALSE
      <4>1. rowMap[r] = [page |-> p, slot |-> left[k].off]
        BY <1>3, <3>1
      <4> QED BY <2>3, <4>1
    <3>2. ASSUME NEW k \in DOMAIN right, right[k].row = r PROVE FALSE
      <4>1. rowMap[r] = [page |-> p, slot |-> right[k].off]
        BY <1>3, <3>2
      <4> QED BY <2>3, <4>1
    <3> QED BY <3>1, <3>2
  <2>5. rowMap'[r] = rowMap[r]
    BY <1>6, <1>7, <2>2, <2>4
  <2> QED BY <1>1, <2>1, <2>2, <2>5
<1>10. Placed'
  <2> SUFFICES ASSUME NEW q \in LivePages', NEW i \in LiveIndices(pages'[q])
               PROVE  /\ pages'[q].slots[i].row \in Mapped'
                      /\ rowMap'[pages'[q].slots[i].row] = [page |-> q, slot |-> i]
    BY DEF Placed
  <2>1. CASE q = p
    <3>1. i \in DOMAIN left
      BY <1>2, <2>1 DEF LiveIndices
    <3>2. pages'[q].slots[i] = [row |-> left[i].row, off |-> i, live |-> TRUE]
      BY <1>2, <2>1, <3>1
    <3>3. pages'[q].slots[i].row = left[i].row
      BY <3>2
    <3> QED BY <1>3, <1>7, <1>8, <2>1, <3>1, <3>3
  <2>2. CASE q = new
    <3>1. i \in DOMAIN right
      BY <1>2, <2>2 DEF LiveIndices
    <3>2. pages'[q].slots[i] = [row |-> right[i].row, off |-> i, live |-> TRUE]
      BY <1>2, <2>2, <3>1
    <3>3. pages'[q].slots[i].row = right[i].row
      BY <3>2
    <3> QED BY <1>3, <1>7, <2>2, <3>1, <3>3
  <2>3. CASE q \in LivePages \ {p}
    <3>1. pages'[q] = pages[q]
      BY <1>1, <2>3
    <3> QED BY <1>7, <1>9, <2>3, <3>1
  <2> QED BY <1>1, <2>1, <2>2, <2>3
<1>11. Carried
  <2> SUFFICES ASSUME NEW q \in LivePages, NEW i \in LiveIndices(pages[q])
               PROVE  \E t \in LivePages' : \E j \in LiveIndices(pages'[t]) :
                        /\ pages'[t].slots[j].row = pages[q].slots[i].row
                        /\ pages'[t].cells[j] = pages[q].cells[i]
    BY DEF Carried
  <2>1. CASE q # p
    BY <1>1, <1>9, <2>1
  <2>2. ASSUME q = p, NEW k \in DOMAIN left, left[k].off = i
        PROVE  /\ k \in LiveIndices(pages'[p])
               /\ pages'[p].slots[k].row = pages[q].slots[i].row
               /\ pages'[p].cells[k] = pages[q].cells[i]
    <3>1. left[k] = pages[p].slots[i]
      BY <1>1, <2>2 DEF Picked
    <3>2. pages'[p].slots[k] = [row |-> left[k].row, off |-> k, live |-> TRUE]
      BY <1>2
    <3> QED BY <1>2, <2>2, <3>1, <3>2 DEF LiveIndices
  <2>3. ASSUME q = p, NEW k \in DOMAIN right, right[k].off = i
        PROVE  /\ k \in LiveIndices(pages'[new])
               /\ pages'[new].slots[k].row = pages[q].slots[i].row
               /\ pages'[new].cells[k] = pages[q].cells[i]
    <3>1. right[k] = pages[p].slots[i]
      BY <1>1, <2>3 DEF Picked
    <3>2. pages'[new].slots[k] = [row |-> right[k].row, off |-> k, live |-> TRUE]
      BY <1>2
    <3> QED BY <1>2, <2>3, <3>1, <3>2 DEF LiveIndices
  <2> QED BY <1>1, <2>1, <2>2, <2>3
<1> QED BY <1>7, <1>10, <1>11, MovesKeepMap
LEMMA MergeKeepsMap ==
  ASSUME StoreInv, Agree, NEW p \in PageIds, Merge(p)
  PROVE  Agree' /\ RowsStay
<1>1. PICK into, live :
           /\ p \in LivePages /\ into \in LivePages \ {p}
           /\ Picked(pages[p], live)
           /\ \A i \in LiveIndices(pages[p]) : \E k \in DOMAIN live : live[k].off = i
           /\ LivePages' = LivePages \ {p}
           /\ pages'[into] = Extended(pages[into], pages[p], live)
           /\ \A q \in LivePages \ {p, into} : pages'[q] = pages[q]
           /\ rowMap' = Relocated(rowMap, live, into, Len(pages[into].slots))
  BY MergeEffect
<1>2. Laid(pages[p]) /\ Laid(pages[into])
  BY <1>1 DEF StoreInv, Layout
<1>3. PICK n \in Nat : n = Len(pages[into].slots) /\ DOMAIN pages[into].slots = 1 .. n
  BY <1>2 DEF Laid
<1>4. live \in Seq(Slots) /\ Len(live) \in Nat /\ DOMAIN live = 1 .. Len(live)
  BY <1>1 DEF Picked
<1>5. /\ DOMAIN pages'[into].slots = 1 .. n + Len(live)
      /\ \A i \in 1 .. n : /\ pages'[into].slots[i] = pages[into].slots[i]
                           /\ pages'[into].cells[i] = pages[into].cells[i]
      /\ \A k \in DOMAIN live :
           /\ pages'[into].slots[n + k] = [row |-> live[k].row, off |-> n + k, live |-> TRUE]
           /\ pages'[into].cells[n + k] = pages[p].cells[live[k].off]
  <2> PICK page, other : page = pages[into] /\ other = pages[p]
    OBVIOUS
  <2> DEFINE all == Extended(page, other, live)
             m == Len(page.slots)
  <2>1. /\ Laid(page) /\ Laid(other) /\ Picked(other, live)
        /\ pages'[into] = all /\ n = m
    BY <1>1, <1>2, <1>3
  <2>2. /\ DOMAIN all.slots = 1 .. m + Len(live)
        /\ \A i \in 1 .. m : all.slots[i] = page.slots[i] /\ all.cells[i] = page.cells[i]
        /\ \A k \in DOMAIN live :
             /\ all.slots[m + k] = [row |-> live[k].row, off |-> m + k, live |-> TRUE]
             /\ all.cells[m + k] = other.cells[live[k].off]
    BY ONLY <2>1, ExtendedLaid
  <2> HIDE DEF all, m
  <2> QED BY <2>1, <2>2
<1>6. /\ \A k \in DOMAIN live : /\ live[k].row \in Mapped
                                /\ rowMap[live[k].row] = [page |-> p, slot |-> live[k].off]
      /\ \A j, k \in DOMAIN live : live[j].row = live[k].row => j = k
  BY <1>1, PickedRows DEF Agree
<1>7. /\ Mapped' = Mapped
      /\ \A k \in DOMAIN live : rowMap'[live[k].row] = [page |-> into, slot |-> n + k]
      /\ \A r \in Mapped : (\A k \in DOMAIN live : live[k].row # r) => rowMap'[r] = rowMap[r]
  <2>1. rowMap' = Relocated(rowMap, live, into, n)
    BY <1>1, <1>3
  <2>2. /\ \A k \in DOMAIN live : live[k].row \in DOMAIN rowMap =>
             Relocated(rowMap, live, into, n)[live[k].row] = [page |-> into, slot |-> n + k]
        /\ \A r \in DOMAIN rowMap : (\A k \in DOMAIN live : live[k].row # r) =>
             Relocated(rowMap, live, into, n)[r] = rowMap[r]
    BY <1>4, <1>6, RelocatedRows
  <2>3. DOMAIN rowMap' = DOMAIN rowMap
    BY <2>1, RelocatedDomain
  <2> QED BY <1>6, <2>1, <2>2, <2>3 DEF Mapped
<1>8. ASSUME NEW q \in LivePages \ {p}, NEW i \in LiveIndices(pages[q])
      PROVE  /\ pages[q].slots[i].row \in Mapped
             /\ rowMap'[pages[q].slots[i].row] = [page |-> q, slot |-> i]
  <2>1. PICK r : r = pages[q].slots[i].row
    OBVIOUS
  <2>2. r \in Mapped /\ rowMap[r] = [page |-> q, slot |-> i]
    BY <2>1 DEF Agree, Placed
  <2>3. rowMap[r].page = q
    BY <2>2
  <2>4. ASSUME NEW k \in DOMAIN live, live[k].row = r PROVE FALSE
    <3>1. rowMap[r] = [page |-> p, slot |-> live[k].off]
      BY <1>6, <2>4
    <3> QED BY <2>3, <3>1
  <2>5. rowMap'[r] = rowMap[r]
    BY <1>7, <2>2, <2>4
  <2> QED BY <2>1, <2>2, <2>5
<1>9. Placed'
  <2> SUFFICES ASSUME NEW q \in LivePages', NEW i \in LiveIndices(pages'[q])
               PROVE  /\ pages'[q].slots[i].row \in Mapped'
                      /\ rowMap'[pages'[q].slots[i].row] = [page |-> q, slot |-> i]
    BY DEF Placed
  <2>1. CASE q # into
    <3>1. pages'[q] = pages[q] /\ q \in LivePages \ {p}
      BY <1>1, <2>1
    <3> QED BY <1>7, <1>8, <3>1
  <2>2. CASE q = into /\ i \in 1 .. n
    <3>1. pages'[q].slots[i] = pages[q].slots[i] /\ i \in LiveIndices(pages[q])
      BY <1>3, <1>5, <2>2 DEF LiveIndices
    <3> QED BY <1>1, <1>7, <1>8, <2>2, <3>1
  <2>3. ASSUME q = into, NEW k \in DOMAIN live, i = n + k
        PROVE  /\ pages'[q].slots[i].row \in Mapped'
               /\ rowMap'[pages'[q].slots[i].row] = [page |-> q, slot |-> i]
    <3>1. pages'[q].slots[i] = [row |-> live[k].row, off |-> n + k, live |-> TRUE]
      BY <1>5, <2>3
    <3>2. pages'[q].slots[i].row = live[k].row
      BY <3>1
    <3> QED BY <1>6, <1>7, <2>3, <3>2
  <2>4. ASSUME q = into, i \notin 1 .. n PROVE \E k \in DOMAIN live : i = n + k
    <3>1. i \in 1 .. n + Len(live)
      BY <1>5, <2>4 DEF LiveIndices
    <3>2. i - n \in 1 .. Len(live) /\ i = n + (i - n)
      BY <1>4, <2>4, <3>1
    <3> QED BY <1>4, <3>2
  <2> QED BY <2>1, <2>2, <2>3, <2>4
<1>10. Carried
  <2> SUFFICES ASSUME NEW q \in LivePages, NEW i \in LiveIndices(pages[q])
               PROVE  \E t \in LivePages' : \E j \in LiveIndices(pages'[t]) :
                        /\ pages'[t].slots[j].row = pages[q].slots[i].row
                        /\ pages'[t].cells[j] = pages[q].cells[i]
    BY DEF Carried
  <2>1. CASE q \notin {p, into}
    BY <1>1, <2>1
  <2>2. CASE q = into
    <3>1. i \in 1 .. n
      BY <1>3, <2>2 DEF LiveIndices
    <3>2. i \in 1 .. n + Len(live)
      BY <1>4, <3>1
    <3>3. /\ i \in LiveIndices(pages'[into])
          /\ pages'[into].slots[i].row = pages[q].slots[i].row
          /\ pages'[into].cells[i] = pages[q].cells[i]
      BY <1>5, <2>2, <3>1, <3>2 DEF LiveIndices
    <3> QED BY <1>1, <3>3
  <2>3. CASE q = p
    <3>1. PICK k \in DOMAIN live : live[k].off = i
      BY <1>1, <2>3
    <3>2. live[k] = pages[p].slots[i]
      BY <1>1, <3>1 DEF Picked
    <3>3. n + k \in 1 .. n + Len(live)
      BY <1>4
    <3>4. pages'[into].slots[n + k] = [row |-> live[k].row, off |-> n + k, live |-> TRUE]
      BY <1>5
    <3>5. /\ n + k \in LiveIndices(pages'[into])
          /\ pages'[into].slots[n + k].row = pages[q].slots[i].row
          /\ pages'[into].cells[n + k] = pages[q].cells[i]
      BY <1>5, <2>3, <3>1, <3>2, <3>3, <3>4 DEF LiveIndices
    <3> QED BY <1>1, <3>5
  <2> QED BY <2>1, <2>2, <2>3
<1> QED BY <1>7, <1>9, <1>10, MovesKeepMap

\* A repack that moves no live row: the slots it drops are the last ones.
LEMMA RepackKeepsMap ==
  ASSUME StoreInv, Agree, NEW p \in PageIds, Repack(p), intact'
  PROVE  Agree' /\ RowsStay
<1>1. PICK live :
           /\ p \in LivePages /\ Picked(pages[p], live)
           /\ \A i \in LiveIndices(pages[p]) : \E k \in DOMAIN live : live[k].off = i
           /\ intact' => intact /\ \A k \in DOMAIN live : live[k].off = k
           /\ LivePages' = LivePages
           /\ pages'[p] = PageOf(pages[p], live)
           /\ \A q \in LivePages \ {p} : pages'[q] = pages[q]
           /\ rowMap' = rowMap
  BY RepackEffect
<1>2. /\ DOMAIN pages'[p].slots = DOMAIN live
      /\ \A k \in DOMAIN live :
           /\ pages'[p].slots[k] = [row |-> live[k].row, off |-> k, live |-> TRUE]
           /\ pages'[p].cells[k] = pages[p].cells[live[k].off]
  <2>1. Laid(pages[p])
    BY <1>1 DEF StoreInv, Layout
  <2> QED BY <1>1, <2>1, PageOfLaid
<1>3. ASSUME NEW k \in DOMAIN live
      PROVE  /\ k \in LiveIndices(pages[p]) /\ k \in LiveIndices(pages'[p])
             /\ pages'[p].slots[k].row = pages[p].slots[k].row
             /\ pages'[p].cells[k] = pages[p].cells[k]
  <2>1. k \in LiveIndices(pages[p]) /\ live[k] = pages[p].slots[k]
    BY <1>1 DEF Picked
  <2>2. pages'[p].slots[k] = [row |-> live[k].row, off |-> k, live |-> TRUE]
    BY <1>2
  <2> QED BY <1>1, <1>2, <2>1, <2>2 DEF LiveIndices
<1>4. LiveIndices(pages'[p]) = DOMAIN live /\ LiveIndices(pages[p]) = DOMAIN live
  <2>1. LiveIndices(pages'[p]) \subseteq DOMAIN live
    BY <1>2 DEF LiveIndices
  <2>2. LiveIndices(pages[p]) \subseteq DOMAIN live
    BY <1>1
  <2> QED BY <1>3, <2>1, <2>2
<1>5. Mapped' = Mapped
  BY <1>1 DEF Mapped
<1>6. Placed'
  <2> SUFFICES ASSUME NEW q \in LivePages', NEW i \in LiveIndices(pages'[q])
               PROVE  /\ pages'[q].slots[i].row \in Mapped'
                      /\ rowMap'[pages'[q].slots[i].row] = [page |-> q, slot |-> i]
    BY DEF Placed
  <2>1. q \in LivePages /\ i \in LiveIndices(pages[q])
        /\ pages'[q].slots[i].row = pages[q].slots[i].row
    BY <1>1, <1>3, <1>4
  <2> QED BY <1>1, <1>5, <2>1 DEF Agree, Placed
<1>7. Carried
  BY <1>1, <1>3, <1>4 DEF Carried
<1> QED BY <1>5, <1>6, <1>7, MovesKeepMap

\* A reload: the pages it numbers anew passed verification against the saved map,
\* so they have the ids they had.
LEMMA ReloadKeepsMap ==
  ASSUME StoreInv, Agree, Reload
  PROVE  Agree' /\ RowsStay
<1>1. PICK n, old :
           /\ n \in Nat /\ LivePages' = 0 .. n - 1
           /\ \A i \in 0 .. n - 1 : old[i] \in LivePages /\ pages'[i] = pages[old[i]]
           /\ \A p \in LivePages : \E i \in 0 .. n - 1 : old[i] = p
           /\ Verified(pages')
  BY ReloadEffect
<1>2. rowMap' = rowMap /\ Mapped' = Mapped
  BY DEF Reload, Mapped
<1>3. Placed'
  BY <1>1, <1>2 DEF Placed, Verified, LiveIndices, LivePages
<1>4. Carried
  BY <1>1 DEF Carried
<1> QED BY <1>2, <1>3, <1>4, MovesKeepMap
-----------------------------------------------------------------------------
(* What a full scan returns, and what the statements do to it.             *)

\* The table as the row-id map reads it.
TableOf == [r \in RowIds |-> IF r \in Mapped THEN CellOf(r) ELSE Null]

\* A mapped row has a cell, and the cell holds a value.
LEMMA CellsAreValues ==
  ASSUME StoreInv, Named, NEW r \in Mapped
  PROVE  /\ rowMap[r].page \in LivePages
         /\ rowMap[r].slot \in LiveIndices(pages[rowMap[r].page])
         /\ pages[rowMap[r].page].slots[rowMap[r].slot].row = r
         /\ CellOf(r) \in Values /\ CellOf(r) # Null
         /\ CellAt(pages[rowMap[r].page], rowMap[r].slot) = CellOf(r)
<1>1. PICK p, i : p = rowMap[r].page /\ i = rowMap[r].slot
  OBVIOUS
<1>2. p \in LivePages /\ i \in LiveIndices(pages[p]) /\ pages[p].slots[i].row = r
  BY <1>1 DEF Named, NamesLiveSlot, LiveIndices
<1>3. /\ pages[p].cells \in Seq(Values) /\ pages[p].slots \in Seq(Slots)
      /\ Len(pages[p].cells) = Len(pages[p].slots)
  BY <1>2 DEF StoreInv, Layout, Laid
<1>4. i \in DOMAIN pages[p].cells /\ pages[p].cells[i] \in Values
  BY <1>2, <1>3 DEF LiveIndices
<1> QED BY <1>1, <1>2, <1>4, ValuesAssumption DEF CellOf, CellAt

\* A scan finds what the map finds.
LEMMA ScanReadsMap ==
  ASSUME StoreInv, Agree
  PROVE  Contents = TableOf
<1> DEFINE held(r) == {at \in LiveAt : RowAt(at) = r}
           seen(at) == CellAt(pages[at[1]], at[2])
<1>1. \A at : at \in LiveAt <=> \E p \in LivePages : \E i \in LiveIndices(pages[p]) : at = <<p, i>>
  BY DEF LiveAt, LiveIndices
<1>2. ASSUME NEW r \in Mapped
      PROVE  held(r) = {<<rowMap[r].page, rowMap[r].slot>>}
  <2>1. PICK p, i : p = rowMap[r].page /\ i = rowMap[r].slot
    OBVIOUS
  <2>2. p \in LivePages /\ i \in LiveIndices(pages[p]) /\ pages[p].slots[i].row = r
    BY <2>1, CellsAreValues DEF Agree
  <2>3. <<p, i>> \in held(r)
    BY <1>1, <2>2 DEF RowAt
  <2>4. ASSUME NEW at \in held(r) PROVE at = <<p, i>>
    <3>1. PICK q \in LivePages : \E j \in LiveIndices(pages[q]) : at = <<q, j>>
      BY <1>1
    <3>2. PICK j \in LiveIndices(pages[q]) : at = <<q, j>>
      BY <3>1
    <3>3. pages[q].slots[j].row = r
      BY <3>2 DEF RowAt
    <3>4. rowMap[r] = [page |-> q, slot |-> j]
      BY <3>3 DEF Agree, Placed
    <3>5. rowMap[r].page = q /\ rowMap[r].slot = j
      BY <3>4
    <3> QED BY <2>1, <3>2, <3>5
  <2> QED BY <2>1, <2>3, <2>4
<1>3. ASSUME NEW r, r \notin Mapped
      PROVE  held(r) = {}
  <2> SUFFICES ASSUME NEW at \in held(r) PROVE FALSE
    OBVIOUS
  <2>1. PICK q \in LivePages : \E j \in LiveIndices(pages[q]) : at = <<q, j>>
    BY <1>1
  <2>2. PICK j \in LiveIndices(pages[q]) : at = <<q, j>>
    BY <2>1
  <2>3. pages[q].slots[j].row = r
    BY <2>2 DEF RowAt
  <2> QED BY <1>3, <2>3 DEF Agree, Placed
<1>4. Contents = [r \in RowIds |->
                    IF held(r) = {} THEN Null ELSE seen(CHOOSE at \in held(r) : TRUE)]
  BY DEF Contents
<1>5. ASSUME NEW r \in Mapped
      PROVE  /\ held(r) # {}
             /\ seen(CHOOSE at \in held(r) : TRUE) = CellOf(r)
  <2>1. PICK at : at = <<rowMap[r].page, rowMap[r].slot>>
    OBVIOUS
  <2>2. held(r) = {at}
    BY <1>2, <2>1
  <2> HIDE DEF held
  <2>3. (CHOOSE x \in held(r) : TRUE) = at
    BY <2>2
  <2>4. seen(at) = CellOf(r)
    BY <2>1, CellsAreValues DEF Agree
  <2> QED BY <2>2, <2>3, <2>4
<1> HIDE DEF held, seen
<1> QED BY <1>3, <1>4, <1>5 DEF TableOf

\* A scan returns values or nothing, whatever state the store is in.
LEMMA ScanType ==
  ASSUME StoreInv
  PROVE  Contents \in [RowIds -> Values \cup {Null}]
<1>1. ASSUME NEW at \in LiveAt PROVE CellAt(pages[at[1]], at[2]) \in Values \cup {Null}
  <2>1. at[1] \in LivePages
    BY DEF LiveAt
  <2>2. pages[at[1]].cells \in Seq(Values)
    BY <2>1 DEF StoreInv, Layout, Laid
  <2> QED BY <2>2 DEF CellAt
<1> QED BY <1>1 DEF Contents

\* While the store is intact the index lists the rows by their cells.
Listed == \A r \in Mapped, v \in Values : r \in index[v] <=> CellOf(r) = v

LEMMA ListedIsIndexInvariant ==
  ASSUME StoreInv, Agree
  PROVE  ListedUnderValue <=> Listed
<1>1. Contents = TableOf
  BY ScanReadsMap
<1>2. \A r \in Mapped : TableOf[r] = CellOf(r)
  BY DEF TableOf, StoreInv
<1> QED BY <1>1, <1>2 DEF ListedUnderValue, Listed

\* The rows a statement selects are the ones the table selects, whichever way it
\* looks for them.
LEMMA SelectionIsExact ==
  ASSUME StoreInv, Agree, indexed => Listed, NEW op, NEW t \in Values
  PROVE  Matching(op, t) \cap Mapped = StatementsOnTable!Selected(op, t)
<1>1. Contents = TableOf
  BY ScanReadsMap
<1>2. \A r \in RowIds : Contents[r] # Null <=> r \in Mapped
  BY <1>1, CellsAreValues DEF TableOf, Agree
<1>3. \A r \in Mapped : r \in RowIds /\ Contents[r] = CellOf(r)
  BY <1>1 DEF TableOf, StoreInv
<1>4. StatementsOnTable!Selected(op, t) = {r \in Mapped : Matches(op, CellOf(r), t)}
  BY <1>2, <1>3 DEF StatementsOnTable!Selected, StatementsOnTable!Present
<1>5. CASE indexed /\ op = "Eq"
  <2>1. \A r \in Mapped : Matches(op, CellOf(r), t) <=> r \in index[t]
    BY <1>5, CellsAreValues DEF Matches, Listed, Agree
  <2> QED BY <1>4, <1>5, <2>1 DEF Matching
<1>6. CASE ~(indexed /\ op = "Eq")
  <2>1. Matching(op, t) = {r \in Mapped : Matches(op, CellOf(r), t)}
    BY <1>6, CellsAreValues DEF Matching, Agree
  <2> QED BY <1>4, <2>1
<1> QED BY <1>5, <1>6
\* A new row has a slot of its own, and the map names it.
LEMMA InsertKeepsMap ==
  ASSUME StoreInv, Agree, indexed => Listed, NEW id \in Nat, NEW v \in Values,
         Insert(id, v), intact'
  PROVE  /\ Agree' /\ (indexed => Listed)'
         /\ LET row == IF id > 0 THEN id ELSE nextRow
            IN  /\ row \in RowIds /\ row \notin Mapped
                /\ TableOf' = [TableOf EXCEPT ![row] = v]
<1> PICK row : row = IF id > 0 THEN id ELSE nextRow
  OBVIOUS
<1>1. PICK p, page :
        /\ p \in PageIds /\ Laid(page)
        /\ p \in LivePages => page = pages[p]
        /\ p \notin LivePages => page = EmptyPage
        /\ row \in RowIds
        /\ pages' = With(pages, p, AppendRow(page, row, v))
        /\ rowMap' = With(rowMap, row, [page |-> p, slot |-> Len(page.slots) + 1])
        /\ index' = IF indexed THEN [index EXCEPT ![v] = @ \cup {row}] ELSE index
        /\ indexed' = indexed
        /\ intact' = (intact /\ row \notin Mapped)
  BY InsertEffect
<1>2. row \in Nat /\ row \notin Mapped
  <2>1. row \in Nat
    BY <1>1, BoundsAssumption DEF RowIds
  <2>2. row \notin Mapped
    BY <1>1, Zenon
  <2> QED BY <2>1, <2>2
<1>3. PICK n \in Nat : n = Len(page.slots) /\ DOMAIN page.slots = 1 .. n
  BY <1>1 DEF Laid
<1>4. PICK more : more = AppendRow(page, row, v)
  OBVIOUS
<1>5. /\ DOMAIN more.slots = 1 .. n + 1
      /\ \A i \in 1 .. n : more.slots[i] = page.slots[i] /\ more.cells[i] = page.cells[i]
      /\ more.slots[n + 1] = [row |-> row, off |-> n + 1, live |-> TRUE]
      /\ more.cells[n + 1] = v
  <2> DEFINE wide == AppendRow(page, row, v)
             m == Len(page.slots)
  <2>1. /\ DOMAIN wide.slots = 1 .. m + 1
        /\ \A i \in 1 .. m : wide.slots[i] = page.slots[i] /\ wide.cells[i] = page.cells[i]
        /\ wide.slots[m + 1] = [row |-> row, off |-> m + 1, live |-> TRUE]
        /\ wide.cells[m + 1] = v
    BY <1>1, <1>2, AppendRowLaid
  <2>2. wide = more /\ m = n
    BY <1>3, <1>4
  <2> HIDE DEF wide, m
  <2> QED BY <2>1, <2>2
<1>6. /\ LivePages' = LivePages \cup {p} /\ pages'[p] = more
      /\ \A q \in LivePages \ {p} : pages'[q] = pages[q]
  BY <1>1, <1>4 DEF With, LivePages
<1>7. /\ Mapped' = Mapped \cup {row}
      /\ rowMap'[row] = [page |-> p, slot |-> n + 1]
      /\ \A r \in Mapped : rowMap'[r] = rowMap[r]
  BY <1>1, <1>2, <1>3 DEF With, Mapped
<1>8. /\ n + 1 \in LiveIndices(pages'[p]) /\ pages'[p].slots[n + 1].row = row
      /\ pages'[p].cells[n + 1] = v
  BY <1>5, <1>6 DEF LiveIndices
<1>9. ASSUME NEW q \in LivePages, NEW i \in LiveIndices(pages[q])
      PROVE  /\ i \in LiveIndices(pages'[q])
             /\ pages'[q].slots[i] = pages[q].slots[i]
             /\ pages'[q].cells[i] = pages[q].cells[i]
  <2>1. CASE q = p
    <3>1. page = pages[p] /\ i \in 1 .. n
      BY <1>1, <1>3, <2>1 DEF LiveIndices
    <3>2. i \in 1 .. n + 1
      BY <3>1
    <3> QED BY <1>5, <1>6, <2>1, <3>1, <3>2 DEF LiveIndices
  <2>2. CASE q # p
    BY <1>6, <2>2
  <2> QED BY <2>1, <2>2
<1>10. ASSUME NEW q \in LivePages', NEW i \in LiveIndices(pages'[q]), <<q, i>> # <<p, n + 1>>
       PROVE  /\ q \in LivePages /\ i \in LiveIndices(pages[q])
              /\ pages'[q].slots[i] = pages[q].slots[i]
  <2>1. CASE q # p
    BY <1>6, <2>1
  <2>2. CASE q = p
    <3>1. i \in 1 .. n /\ more.slots[i] = page.slots[i]
      <4>1. i \in 1 .. n + 1 /\ i # n + 1
        BY <1>5, <1>6, <1>10, <2>2 DEF LiveIndices
      <4>2. i \in 1 .. n
        BY <4>1
      <4> QED BY <1>5, <4>2
    <3>2. page.slots # <<>> /\ i \in LiveIndices(page)
      BY <1>3, <1>6, <2>2, <3>1 DEF LiveIndices
    <3>3. p \in LivePages
      <4>1. i \in DOMAIN page.slots
        BY <1>3, <3>1
      <4>2. page # EmptyPage
        BY <4>1, EmptyLaid
      <4> QED BY <1>1, <4>2
    <3> QED BY <1>1, <1>6, <2>2, <3>1, <3>2, <3>3
  <2> QED BY <2>1, <2>2
<1>11. Placed'
  <2> SUFFICES ASSUME NEW q \in LivePages', NEW i \in LiveIndices(pages'[q])
               PROVE  /\ pages'[q].slots[i].row \in Mapped'
                      /\ rowMap'[pages'[q].slots[i].row] = [page |-> q, slot |-> i]
    BY DEF Placed
  <2>1. CASE q = p /\ i = n + 1
    BY <1>7, <1>8, <2>1
  <2>2. CASE ~(q = p /\ i = n + 1)
    <3>1. /\ q \in LivePages /\ i \in LiveIndices(pages[q])
          /\ pages'[q].slots[i] = pages[q].slots[i]
      BY <1>10, <2>2
    <3> QED BY <1>7, <3>1 DEF Agree, Placed
  <2> QED BY <2>1, <2>2
<1>12. ASSUME NEW r \in Mapped
       PROVE  NamesLiveSlot(r)' /\ CellOf(r)' = CellOf(r)
  <2>1. PICK q, i : q = rowMap[r].page /\ i = rowMap[r].slot
    OBVIOUS
  <2>2. q \in LivePages /\ i \in LiveIndices(pages[q]) /\ pages[q].slots[i].row = r
    BY <2>1, CellsAreValues DEF Agree
  <2>3. rowMap'[r].page = q /\ rowMap'[r].slot = i /\ q \in LivePages'
    BY <1>6, <1>7, <2>1, <2>2
  <2> QED BY <1>9, <2>1, <2>2, <2>3 DEF NamesLiveSlot, CellOf, LiveIndices
<1>13. NamesLiveSlot(row)' /\ CellOf(row)' = v
  <2>1. rowMap'[row].page = p /\ rowMap'[row].slot = n + 1 /\ p \in LivePages'
    BY <1>6, <1>7
  <2> QED BY <1>8, <2>1 DEF NamesLiveSlot, CellOf, LiveIndices
<1>14. Agree'
  BY <1>7, <1>11, <1>12, <1>13 DEF Agree, Named
<1>15. (indexed => Listed)'
  <2> SUFFICES ASSUME indexed, NEW r \in Mapped', NEW w \in Values
               PROVE  r \in index'[w] <=> CellOf(r)' = w
    BY <1>1 DEF Listed
  <2>1. /\ index' = [index EXCEPT ![v] = @ \cup {row}]
        /\ index = [x \in Values |-> index[x]] /\ row \notin index[w]
    BY <1>1, <1>2 DEF StoreInv, RowIdInv, IndexedRowsExist
  <2>2. r \in index'[w] <=> r \in index[w] \/ (w = v /\ r = row)
    BY <2>1
  <2>3. CASE r \in Mapped
    BY <1>2, <1>12, <2>2, <2>3 DEF Listed
  <2>4. CASE r = row
    BY <1>13, <2>1, <2>2, <2>4
  <2> QED BY <1>7, <2>3, <2>4
<1>16. TableOf' = [TableOf EXCEPT ![row] = v]
  <2>1. TableOf' = [r \in RowIds |-> IF r \in Mapped' THEN CellOf(r)' ELSE Null]
    BY DEF TableOf
  <2>2. \A r \in RowIds : TableOf'[r] = IF r = row THEN v ELSE TableOf[r]
    BY <1>2, <1>7, <1>12, <1>13, <2>1 DEF TableOf
  <2> QED BY <2>1, <2>2 DEF TableOf
<1> QED BY <1>1, <1>2, <1>14, <1>15, <1>16

\* A delete drops the selected rows from the pages, the map and the index.
LEMMA DeleteKeepsMap ==
  ASSUME StoreInv, Agree, indexed => Listed, NEW op, NEW target,
         DeleteWhere(op, target)
  PROVE  /\ Agree' /\ (indexed => Listed)'
         /\ TableOf' = [r \in RowIds |-> IF r \in Matching(op, target) \cap Mapped
                                         THEN Null ELSE TableOf[r]]
<1> PICK rows : rows = Matching(op, target) \cap Mapped
  OBVIOUS
<1> DEFINE dead(p, i) == \E r \in rows : rowMap[r] = [page |-> p, slot |-> i]
<1>1. /\ pages' = [p \in LivePages |->
           [pages[p] EXCEPT !.slots =
              [i \in DOMAIN @ |-> IF dead(p, i) THEN [@[i] EXCEPT !.live = FALSE]
                                  ELSE @[i]]]]
      /\ rowMap' = Without(rowMap, rows) /\ indexed' = indexed
      /\ index' = [v \in Values |-> index[v] \ rows]
  BY DEF DeleteWhere, Unindexed
<1>2. rows \subseteq Mapped
  OBVIOUS
<1>3. /\ Mapped' = Mapped \ rows /\ \A r \in Mapped \ rows : rowMap'[r] = rowMap[r]
      /\ LivePages' = LivePages
  BY <1>1 DEF Mapped, LivePages, Without, Restrict
<1>4. \A r \in Mapped : /\ rowMap[r].page \in LivePages
                        /\ rowMap[r].slot \in LiveIndices(pages[rowMap[r].page])
                        /\ pages[rowMap[r].page].slots[rowMap[r].slot].row = r
  BY CellsAreValues DEF Agree
<1>5. ASSUME NEW p \in LivePages, NEW i \in LiveIndices(pages[p])
      PROVE  dead(p, i) <=> pages[p].slots[i].row \in rows
  <2>1. PICK r : r = pages[p].slots[i].row
    OBVIOUS
  <2>2. r \in Mapped /\ rowMap[r] = [page |-> p, slot |-> i]
    BY <2>1 DEF Agree, Placed
  <2>3. ASSUME NEW s \in rows, rowMap[s] = [page |-> p, slot |-> i] PROVE s = r
    <3>1. rowMap[s].page = p /\ rowMap[s].slot = i
      BY <2>3
    <3> QED BY <1>2, <1>4, <2>1, <3>1
  <2> QED BY <2>1, <2>2, <2>3
<1>6. ASSUME NEW p \in LivePages
      PROVE  /\ pages'[p].cells = pages[p].cells
             /\ DOMAIN pages'[p].slots = DOMAIN pages[p].slots
             /\ \A i \in DOMAIN pages[p].slots :
                  /\ pages'[p].slots[i].row = pages[p].slots[i].row
                  /\ pages'[p].slots[i].live <=> pages[p].slots[i].live /\ ~dead(p, i)
  <2>1. Laid(pages[p])
    BY DEF StoreInv, Layout
  <2>2. /\ pages[p] \in [cells : Seq(Values), slots : Seq(Slots)]
        /\ \A i \in DOMAIN pages[p].slots : pages[p].slots[i] \in Slots
    BY <2>1 DEF Laid
  <2> HIDE DEF dead
  <2>3. /\ pages'[p].cells = pages[p].cells
        /\ pages'[p].slots = [i \in DOMAIN pages[p].slots |->
             IF dead(p, i) THEN [pages[p].slots[i] EXCEPT !.live = FALSE]
             ELSE pages[p].slots[i]]
    BY <1>1, <2>2
  <2>4. ASSUME NEW i \in DOMAIN pages[p].slots
        PROVE  /\ pages'[p].slots[i].row = pages[p].slots[i].row
               /\ pages'[p].slots[i].live <=> pages[p].slots[i].live /\ ~dead(p, i)
    BY <2>2, <2>3 DEF Slots
  <2> QED BY <2>3, <2>4
<1>7. \A p \in LivePages : LiveIndices(pages'[p]) = {i \in LiveIndices(pages[p]) : ~dead(p, i)}
  <2> HIDE DEF dead
  <2> QED BY <1>6 DEF LiveIndices
<1>8. \A p \in LivePages : \A i \in LiveIndices(pages[p]) :
        /\ i \in LiveIndices(pages'[p]) <=> pages[p].slots[i].row \notin rows
        /\ pages'[p].slots[i].row = pages[p].slots[i].row
        /\ pages'[p].cells[i] = pages[p].cells[i]
  <2> HIDE DEF dead
  <2> QED BY <1>5, <1>6, <1>7 DEF LiveIndices
<1>9. \A p \in LivePages : LiveIndices(pages'[p]) \subseteq LiveIndices(pages[p])
  BY <1>7
<1> HIDE DEF dead
<1>10. Placed'
  <2> SUFFICES ASSUME NEW p \in LivePages, NEW i \in LiveIndices(pages'[p])
               PROVE  /\ pages'[p].slots[i].row \in Mapped'
                      /\ rowMap'[pages'[p].slots[i].row] = [page |-> p, slot |-> i]
    BY <1>3 DEF Placed
  <2>1. i \in LiveIndices(pages[p])
    BY <1>9
  <2>2. pages[p].slots[i].row \notin rows /\ pages'[p].slots[i].row = pages[p].slots[i].row
    BY <1>8, <2>1
  <2> QED BY <1>3, <2>1, <2>2 DEF Agree, Placed
<1>11. ASSUME NEW r \in Mapped \ rows
       PROVE  NamesLiveSlot(r)' /\ CellOf(r)' = CellOf(r)
  <2>1. PICK p, i : p = rowMap[r].page /\ i = rowMap[r].slot
    OBVIOUS
  <2>2. p \in LivePages /\ i \in LiveIndices(pages[p]) /\ pages[p].slots[i].row = r
    BY <1>4, <2>1
  <2>3. rowMap'[r].page = p /\ rowMap'[r].slot = i /\ p \in LivePages'
    BY <1>3, <2>1, <2>2
  <2>4. /\ i \in LiveIndices(pages'[p]) /\ pages'[p].slots[i].row = r
        /\ pages'[p].cells[i] = pages[p].cells[i]
    BY <1>8, <2>2
  <2> QED BY <2>1, <2>3, <2>4 DEF NamesLiveSlot, CellOf, LiveIndices
<1>12. Agree'
  BY <1>3, <1>10, <1>11 DEF Agree, Named
<1>13. (indexed => Listed)'
  BY <1>1, <1>3, <1>11 DEF Listed
<1>14. TableOf' = [r \in RowIds |-> IF r \in rows THEN Null ELSE TableOf[r]]
  <2>1. TableOf' = [r \in RowIds |-> IF r \in Mapped' THEN CellOf(r)' ELSE Null]
    BY DEF TableOf
  <2>2. \A r \in RowIds : TableOf'[r] = IF r \in rows THEN Null ELSE TableOf[r]
    BY <1>2, <1>3, <1>11, <2>1 DEF TableOf
  <2> QED BY <2>1, <2>2
<1> QED BY <1>12, <1>13, <1>14

\* An update rewrites the cells of the selected rows.
LEMMA UpdateKeepsMap ==
  ASSUME StoreInv, Agree, indexed => Listed, NEW v \in Values, NEW op, NEW target,
         UpdateWhere(v, op, target), intact'
  PROVE  /\ Agree' /\ (indexed => Listed)'
         /\ TableOf' = [r \in RowIds |-> IF r \in Matching(op, target) \cap Mapped
                                         THEN v ELSE TableOf[r]]
<1> PICK rows : rows = Matching(op, target) \cap Mapped
  OBVIOUS
<1>1. \A r \in Mapped : /\ rowMap[r].page \in LivePages
                        /\ rowMap[r].slot \in LiveIndices(pages[rowMap[r].page])
                        /\ pages[rowMap[r].page].slots[rowMap[r].slot].row = r
  BY CellsAreValues DEF Agree
<1> DEFINE hit(p, i) == \E r \in rows : rowMap[r] = [page |-> p, slot |-> i]
<1>2. /\ pages' = [p \in LivePages |->
           [pages[p] EXCEPT !.cells = [i \in DOMAIN @ |-> IF hit(p, i) THEN v ELSE @[i]]]]
      /\ rowMap' = rowMap /\ indexed' = indexed /\ index' = index
      /\ intact' = (intact /\ (~indexed \/ pages' = pages))
  <2> DEFINE homed == {r \in rows : rowMap[r].page \in LivePages}
             Rewritten(done) ==
               [p \in LivePages |->
                  [pages[p] EXCEPT !.cells =
                     [i \in DOMAIN @ |->
                        IF \E r \in done : rowMap[r] = [page |-> p, slot |-> i]
                        THEN v ELSE @[i]]]]
  <2>1. homed = rows
    BY <1>1
  <2>2. \E done \in SUBSET homed : (homed = rows => done = rows) /\ pages' = Rewritten(done)
    BY DEF UpdateWhere
  <2>3. pages' = Rewritten(rows)
    <3> HIDE DEF homed, Rewritten
    <3> QED BY <2>1, <2>2
  <2> QED BY <2>3 DEF UpdateWhere
<1>3. rows \subseteq Mapped
  OBVIOUS
<1>4. /\ Mapped' = Mapped /\ LivePages' = LivePages
  BY <1>2 DEF Mapped, LivePages
<1>5. ASSUME NEW p \in LivePages, NEW i \in LiveIndices(pages[p])
      PROVE  hit(p, i) <=> pages[p].slots[i].row \in rows
  <2>1. PICK r : r = pages[p].slots[i].row
    OBVIOUS
  <2>2. r \in Mapped /\ rowMap[r] = [page |-> p, slot |-> i]
    BY <2>1 DEF Agree, Placed
  <2>3. ASSUME NEW s \in rows, rowMap[s] = [page |-> p, slot |-> i] PROVE s = r
    <3>1. rowMap[s].page = p /\ rowMap[s].slot = i
      BY <2>3
    <3> QED BY <1>1, <1>3, <2>1, <3>1
  <2> QED BY <2>1, <2>2, <2>3
<1> HIDE DEF hit
<1>6. ASSUME NEW p \in LivePages
      PROVE  /\ pages'[p].slots = pages[p].slots
             /\ LiveIndices(pages'[p]) = LiveIndices(pages[p])
             /\ \A i \in LiveIndices(pages[p]) :
                  pages'[p].cells[i] = IF pages[p].slots[i].row \in rows THEN v
                                       ELSE pages[p].cells[i]
  <2>1. Laid(pages[p])
    BY DEF StoreInv, Layout
  <2>2. /\ pages'[p].slots = pages[p].slots
        /\ pages'[p].cells = [i \in DOMAIN pages[p].cells |->
                                IF hit(p, i) THEN v ELSE pages[p].cells[i]]
    BY <1>2, <2>1 DEF Laid
  <2>3. DOMAIN pages[p].cells = DOMAIN pages[p].slots
    BY <2>1 DEF Laid
  <2> QED BY <1>5, <2>2, <2>3 DEF LiveIndices
<1>7. Placed'
  <2> SUFFICES ASSUME NEW p \in LivePages', NEW i \in LiveIndices(pages'[p])
               PROVE  /\ pages'[p].slots[i].row \in Mapped'
                      /\ rowMap'[pages'[p].slots[i].row] = [page |-> p, slot |-> i]
    BY DEF Placed
  <2>1. p \in LivePages /\ i \in LiveIndices(pages[p]) /\ pages'[p].slots = pages[p].slots
    BY <1>4, <1>6
  <2> QED BY <1>2, <1>4, <2>1 DEF Agree, Placed
<1>8. ASSUME NEW r \in Mapped
      PROVE  NamesLiveSlot(r)' /\ CellOf(r)' = IF r \in rows THEN v ELSE CellOf(r)
  <2>1. PICK p, i : p = rowMap[r].page /\ i = rowMap[r].slot
    OBVIOUS
  <2>2. p \in LivePages /\ i \in LiveIndices(pages[p]) /\ pages[p].slots[i].row = r
    BY <1>1, <2>1
  <2>3. CellOf(r)' = pages'[p].cells[i] /\ CellOf(r) = pages[p].cells[i]
    BY <1>2, <2>1 DEF CellOf
  <2>4. CellOf(r)' = IF r \in rows THEN v ELSE CellOf(r)
    BY <1>6, <2>2, <2>3
  <2>5. NamesLiveSlot(r)'
    BY <1>2, <1>4, <1>6, <2>1, <2>2 DEF NamesLiveSlot, LiveIndices
  <2> QED BY <2>4, <2>5
<1>9. Agree'
  BY <1>4, <1>7, <1>8 DEF Agree, Named
<1>10. (indexed => Listed)'
  <2> SUFFICES ASSUME indexed PROVE Listed'
    BY <1>2
  <2>1. pages' = pages
    BY <1>2
  <2> QED BY <1>2, <1>4, <2>1 DEF Listed, CellOf
<1>11. TableOf' = [r \in RowIds |-> IF r \in rows THEN v ELSE TableOf[r]]
  <2>1. TableOf' = [r \in RowIds |-> IF r \in Mapped' THEN CellOf(r)' ELSE Null]
    BY DEF TableOf
  <2>2. \A r \in RowIds : TableOf'[r] = IF r \in rows THEN v ELSE TableOf[r]
    BY <1>3, <1>4, <1>8, <2>1 DEF TableOf
  <2> QED BY <2>1, <2>2
<1> QED BY <1>9, <1>10, <1>11
\* What is known of every reachable store, and of every intact one.
MapInv == StoreInv /\ (intact => Agree /\ (indexed => Listed))

\* Steps that keep the rows keep the index listing them.
LEMMA RowsStayListed ==
  ASSUME indexed => Listed, RowsStay, index' = index, indexed' = indexed
  PROVE  (indexed => Listed)' /\ TableOf' = TableOf
<1>1. Mapped' = Mapped /\ \A r \in Mapped : CellOf(r)' = CellOf(r)
  BY DEF RowsStay
<1>2. (indexed => Listed)'
  BY <1>1 DEF Listed
<1>3. TableOf' = TableOf
  BY <1>1 DEF TableOf
<1> QED BY <1>2, <1>3

\* The steps that are no statements.
Upkeep == \/ StartCompaction \/ Reload \/ UNCHANGED vars
          \/ \E p \in PageIds : SkipPage(p) \/ Split(p) \/ Merge(p) \/ Repack(p)

LEMMA UpkeepKeepsMap ==
  ASSUME StoreInv, Agree, indexed => Listed, Upkeep, intact'
  PROVE  Agree' /\ (indexed => Listed)' /\ TableOf' = TableOf
<1>1. index' = index /\ indexed' = indexed
  BY DEF Upkeep, StartCompaction, Reload, vars, SkipPage, Split, Merge, Repack
<1>2. Agree' /\ RowsStay
  <2>1. ASSUME NEW p \in PageIds, Split(p) PROVE Agree' /\ RowsStay
    BY <2>1, SplitKeepsMap
  <2>2. ASSUME NEW p \in PageIds, Merge(p) PROVE Agree' /\ RowsStay
    BY <2>2, MergeKeepsMap
  <2>3. ASSUME NEW p \in PageIds, Repack(p) PROVE Agree' /\ RowsStay
    BY <2>3, RepackKeepsMap
  <2>4. CASE Reload
    BY <2>4, ReloadKeepsMap
  <2>5. CASE StartCompaction \/ (\E p \in PageIds : SkipPage(p)) \/ UNCHANGED vars
    <3>1. pages' = pages /\ rowMap' = rowMap
      BY <2>5 DEF StartCompaction, SkipPage, pagerVars, vars
    <3>2. Mapped' = Mapped /\ LivePages' = LivePages
      BY <3>1 DEF Mapped, LivePages
    <3>3. Agree'
      BY <3>1, <3>2 DEF Agree, Named, Placed, NamesLiveSlot
    <3>4. RowsStay
      BY <3>1, <3>2 DEF RowsStay, CellOf
    <3> QED BY <3>3, <3>4
  <2> QED BY <2>1, <2>2, <2>3, <2>4, <2>5 DEF Upkeep
<1> QED BY <1>1, <1>2, RowsStayListed

\* A store that is intact was intact before.
LEMMA IntactOnce ==
  ASSUME [Next]_vars, intact'
  PROVE  intact
<1>1. ASSUME NEW id, NEW v, Insert(id, v) PROVE intact
  BY <1>1 DEF Insert, AddRow
<1>2. ASSUME NEW op, NEW t, DeleteWhere(op, t) PROVE intact
  BY <1>2 DEF DeleteWhere
<1>3. ASSUME NEW v, NEW op, NEW t, UpdateWhere(v, op, t) PROVE intact
  BY <1>3 DEF UpdateWhere
<1>4. ASSUME NEW p, SkipPage(p) \/ Split(p) \/ Merge(p) \/ Repack(p) PROVE intact
  BY <1>4 DEF SkipPage, Split, Merge, Repack
<1>5. ASSUME StartCompaction \/ Reload \/ UNCHANGED vars PROVE intact
  BY <1>5 DEF StartCompaction, Reload, vars
<1> QED BY <1>1, <1>2, <1>3, <1>4, <1>5 DEF Next

LEMMA MapInductive ==
  /\ Init => MapInv
  /\ MapInv /\ [Next]_vars => MapInv'
<1>1. Init => MapInv
  <2>1. Init => Agree /\ Listed
    BY DEF Init, Agree, Named, Placed, Mapped, LivePages, Listed
  <2> QED BY <2>1, StoreInductive DEF MapInv
<1>2. ASSUME MapInv, [Next]_vars PROVE MapInv'
  <2>1. StoreInv'
    BY <1>2, StoreInductive DEF MapInv
  <2> SUFFICES ASSUME intact' PROVE Agree' /\ (indexed => Listed)'
    BY <2>1 DEF MapInv
  <2>2. StoreInv /\ Agree /\ (indexed => Listed)
    BY <1>2, IntactOnce DEF MapInv
  <2>3. ASSUME NEW id \in GivenIds \cup {0}, NEW v \in Values, Insert(id, v)
        PROVE  Agree' /\ (indexed => Listed)'
    <3>1. id \in Nat
      BY BoundsAssumption
    <3> QED BY <2>2, <2>3, <3>1, InsertKeepsMap
  <2>4. ASSUME NEW op \in Ops, NEW t \in Values, DeleteWhere(op, t)
        PROVE  Agree' /\ (indexed => Listed)'
    BY <2>2, <2>4, DeleteKeepsMap
  <2>5. ASSUME NEW v \in Values, NEW op \in Ops, NEW t \in Values, UpdateWhere(v, op, t)
        PROVE  Agree' /\ (indexed => Listed)'
    BY <2>2, <2>5, UpdateKeepsMap
  <2>6. CASE Upkeep
    BY <2>2, <2>6, UpkeepKeepsMap
  <2> QED BY <1>2, <2>3, <2>4, <2>5, <2>6 DEF Next, Upkeep
<1> QED BY <1>1, <1>2

\* Rows 4 and 9 of the invariant reference: until a repack moves a live row or a
\* row id is given twice, the row-id map and the live slots name each other.
THEOREM MapNamesPages == Spec => []MapAgreesWithPages
<1>1. MapInv => MapAgreesWithPages
  BY MapInvariantSays DEF MapInv
<1> QED BY MapInductive, <1>1, PTL DEF Spec

\* The index of an intact store lists every row under its value and no other.
THEOREM IndexListsRows == Spec => []IndexAgrees
<1>1. MapInv => IndexAgrees
  BY ListedIsIndexInvariant DEF MapInv, IndexAgrees
<1> QED BY MapInductive, <1>1, PTL DEF Spec

-----------------------------------------------------------------------------
(* The store implements a table.                                           *)

\* A scan of an intact store, before and after a step.
LEMMA IntactScan == MapInv /\ intact => Contents = TableOf
  BY ScanReadsMap DEF MapInv

LEMMA ScanIsTable ==
  ASSUME MapInv, MapInv', intact, intact'
  PROVE  Contents = TableOf /\ Contents' = TableOf'
<1>1. (MapInv /\ intact => Contents = TableOf)'
  BY IntactScan, PTL
<1> QED BY <1>1, IntactScan

LEMMA AnyScan == MapInv => Contents \in [RowIds -> Values \cup {Null}]
  BY ScanType DEF MapInv

\* A statement of an intact store does to a scan what the table says.
LEMMA InsertIsTableInsert ==
  ASSUME MapInv, MapInv', intact, intact', NEW id \in Nat, NEW v \in Values, Insert(id, v)
  PROVE  StatementsOnTable!Insert(IF id > 0 THEN id ELSE nextRow, v)
<1> PICK row : row = IF id > 0 THEN id ELSE nextRow
  OBVIOUS
<1>1. Contents = TableOf /\ Contents' = TableOf'
  BY ScanIsTable
<1>2. row \in RowIds /\ row \notin Mapped /\ TableOf' = [TableOf EXCEPT ![row] = v]
  BY InsertKeepsMap DEF MapInv
<1>3. TableOf[row] = Null
  BY <1>2 DEF TableOf
<1> QED BY <1>1, <1>2, <1>3 DEF StatementsOnTable!Insert
LEMMA DeleteIsTableDelete ==
  ASSUME MapInv, MapInv', intact, intact', NEW op, NEW t \in Values, DeleteWhere(op, t)
  PROVE  StatementsOnTable!DeleteWhere(op, t)
<1>1. Contents = TableOf /\ Contents' = TableOf'
  BY ScanIsTable
<1>2. Matching(op, t) \cap Mapped = StatementsOnTable!Selected(op, t)
  BY SelectionIsExact DEF MapInv
<1>3. TableOf' = [r \in RowIds |-> IF r \in Matching(op, t) \cap Mapped
                                   THEN Null ELSE TableOf[r]]
  BY DeleteKeepsMap DEF MapInv
<1> QED BY <1>1, <1>2, <1>3 DEF StatementsOnTable!DeleteWhere

LEMMA UpdateIsTableUpdate ==
  ASSUME MapInv, MapInv', intact, intact', NEW v \in Values, NEW op, NEW t \in Values,
         UpdateWhere(v, op, t)
  PROVE  StatementsOnTable!UpdateWhere(v, op, t)
<1>1. Contents = TableOf /\ Contents' = TableOf'
  BY ScanIsTable
<1>2. Matching(op, t) \cap Mapped = StatementsOnTable!Selected(op, t)
  BY SelectionIsExact DEF MapInv
<1>3. TableOf' = [r \in RowIds |-> IF r \in Matching(op, t) \cap Mapped
                                   THEN v ELSE TableOf[r]]
  BY UpdateKeepsMap DEF MapInv
<1> QED BY <1>1, <1>2, <1>3 DEF StatementsOnTable!UpdateWhere

\* Every other step leaves a scan as it was.
LEMMA UpkeepKeepsTable ==
  ASSUME MapInv, MapInv', intact, intact', Upkeep
  PROVE  Contents' = Contents
<1>1. Contents = TableOf /\ Contents' = TableOf'
  BY ScanIsTable
<1>2. TableOf' = TableOf
  BY UpkeepKeepsMap DEF MapInv
<1> QED BY <1>1, <1>2

\* The second conjunct of ImplementsTable, as one action.
Kept ==
  intact /\ intact' =>
    /\ \A id \in GivenIds \cup {0}, v \in Values :
         Insert(id, v) => StatementsOnTable!Insert(IF id > 0 THEN id ELSE nextRow, v)
    /\ \A op \in Ops, t \in Values :
         /\ DeleteWhere(op, t) => StatementsOnTable!DeleteWhere(op, t)
         /\ \A v \in Values :
              UpdateWhere(v, op, t) => StatementsOnTable!UpdateWhere(v, op, t)
    /\ todo # {} \/ StartCompaction \/ Reload => UNCHANGED Contents

LEMMA StepsAreKept ==
  ASSUME MapInv, MapInv', [Next]_vars
  PROVE  Kept
<1> SUFFICES ASSUME intact, intact' PROVE Kept
  BY DEF Kept
<1>1. ASSUME NEW id \in GivenIds \cup {0}, NEW v \in Values, Insert(id, v)
      PROVE  StatementsOnTable!Insert(IF id > 0 THEN id ELSE nextRow, v)
  <2>1. id \in Nat
    BY BoundsAssumption
  <2> QED BY <1>1, <2>1, InsertIsTableInsert
<1>2. ASSUME NEW op \in Ops, NEW t \in Values, DeleteWhere(op, t)
      PROVE  StatementsOnTable!DeleteWhere(op, t)
  BY <1>2, DeleteIsTableDelete
<1>3. ASSUME NEW op \in Ops, NEW t \in Values, NEW v \in Values, UpdateWhere(v, op, t)
      PROVE  StatementsOnTable!UpdateWhere(v, op, t)
  BY <1>3, UpdateIsTableUpdate
<1>4. ASSUME todo # {} \/ StartCompaction \/ Reload PROVE Upkeep
  <2>1. ASSUME NEW id, NEW v, Insert(id, v) PROVE todo = {}
    BY <2>1 DEF Insert
  <2>2. ASSUME NEW op, NEW t, DeleteWhere(op, t) PROVE todo = {}
    BY <2>2 DEF DeleteWhere
  <2>3. ASSUME NEW v, NEW op, NEW t, UpdateWhere(v, op, t) PROVE todo = {}
    BY <2>3 DEF UpdateWhere
  <2> QED BY <1>4, <2>1, <2>2, <2>3 DEF Next, Upkeep
<1>5. todo # {} \/ StartCompaction \/ Reload => UNCHANGED Contents
  BY <1>4, UpkeepKeepsTable
<1> QED BY <1>1, <1>2, <1>3, <1>5 DEF Kept

\* Every step of the store is a statement of the table, a step that changes
\* nothing a scan sees, or one that gives up the promise.
LEMMA StepsAreTableSteps ==
  ASSUME MapInv, MapInv', [Next]_vars
  PROVE  [StatementsOnTable!Next]_<<Contents, intact>>
<1>1. Contents' \in [RowIds -> Values \cup {Null}]
  <2>1. (MapInv => Contents \in [RowIds -> Values \cup {Null}])'
    BY AnyScan, PTL
  <2> QED BY <2>1
<1>2. CASE ~intact'
  BY <1>1, <1>2 DEF StatementsOnTable!Next
<1>3. CASE intact'
  <2>1. intact
    BY <1>3, IntactOnce
  <2>2. ASSUME StatementsOnTable!Statement
        PROVE  StatementsOnTable!Next
    BY <1>3, <2>1, <2>2 DEF StatementsOnTable!Next
  <2>3. ASSUME NEW id \in GivenIds \cup {0}, NEW v \in Values, Insert(id, v)
        PROVE  StatementsOnTable!Statement
    <3>1. id \in Nat
      BY BoundsAssumption
    <3> PICK row : row = IF id > 0 THEN id ELSE nextRow
      OBVIOUS
    <3>2. StatementsOnTable!Insert(row, v)
      BY <1>3, <2>1, <2>3, <3>1, InsertIsTableInsert
    <3>3. row \in RowIds
      BY <2>3 DEF Insert
    <3> QED BY <3>2, <3>3 DEF StatementsOnTable!Statement
  <2>4. ASSUME NEW op \in Ops, NEW t \in Values, DeleteWhere(op, t)
        PROVE  StatementsOnTable!Statement
    <3>1. StatementsOnTable!DeleteWhere(op, t)
      BY <1>3, <2>1, <2>4, DeleteIsTableDelete
    <3> QED BY <3>1 DEF StatementsOnTable!Statement
  <2>5. ASSUME NEW v \in Values, NEW op \in Ops, NEW t \in Values, UpdateWhere(v, op, t)
        PROVE  StatementsOnTable!Statement
    <3>1. StatementsOnTable!UpdateWhere(v, op, t)
      BY <1>3, <2>1, <2>5, UpdateIsTableUpdate
    <3> QED BY <3>1 DEF StatementsOnTable!Statement
  <2>6. CASE Upkeep
    BY <1>3, <2>1, <2>6, UpkeepKeepsTable
  <2> QED BY <2>2, <2>3, <2>4, <2>5, <2>6 DEF Next, Upkeep
<1> QED BY <1>2, <1>3

\* The paged store, its row-id map and its index do what the table of module
\* Table does: every statement of an intact store changes a full scan exactly as
\* the table says, by whichever path it found its rows, and no split, merge, repack
\* or reload changes a scan (src/src/mutation.rs; src/src/compact.rs).
THEOREM TableImplemented == Spec => ImplementsTable
<1>1. Init => StatementsOnTable!Init
  <2>1. Init => StoreInv /\ Agree /\ intact = TRUE
    <3>1. Init => Agree /\ intact = TRUE
      BY DEF Init, Agree, Named, Placed, Mapped, LivePages
    <3> QED BY <3>1, StoreInductive
  <2>2. ASSUME Init PROVE TableOf = [r \in RowIds |-> Null]
    BY <2>2 DEF TableOf, Init, Mapped
  <2> QED BY <2>1, <2>2, ScanReadsMap DEF StatementsOnTable!Init
<1>2. MapInv /\ MapInv' /\ [Next]_vars => [StatementsOnTable!Next]_<<Contents, intact>>
  BY StepsAreTableSteps
<1>3. MapInv /\ MapInv' /\ [Next]_vars => [Kept]_vars
  BY StepsAreKept
<1>4. Spec => []MapInv
  BY MapInductive, PTL DEF Spec
<1>5. Spec => StatementsOnTable!Spec
  BY <1>1, <1>2, <1>4, PTL DEF Spec, StatementsOnTable!Spec
<1>6. Spec => [][Kept]_vars
  BY <1>3, <1>4, PTL DEF Spec
<1> QED BY <1>5, <1>6, PTL DEF ImplementsTable, Kept
=============================================================================
