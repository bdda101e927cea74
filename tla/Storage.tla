------------------------------- MODULE Storage -------------------------------
(***************************************************************************)
(* The paged row store of src/src: the pager (pager.rs), the free-space    *)
(* map (fsm.rs), the row-id map (rowid.rs), the secondary index of the     *)
(* data column (index.rs), the statements that change rows (mutation.rs),  *)
(* the compaction pass (compact.rs), and saving and loading the file       *)
(* (format.rs, verify.rs).                                                 *)
(*                                                                         *)
(* A table has its row-id column and one data column, whose cells are kept *)
(* decoded: a page's `cells` is the sequence of values its column region   *)
(* holds, plain or run-length encoded alike.  Sizes are counted in rows.   *)
(* Slots and offsets count from 1, page ids from 0.  Only data pages are   *)
(* modelled; dictionary pages are in module DictIndex.  The maps of the    *)
(* code (the pager's slots, the free-space counters, the row-id map) are   *)
(* functions whose domain is the set of keys present.                      *)
(*                                                                         *)
(* compact() is a loop over the data pages that were live when it began;   *)
(* each iteration is an action and `todo` holds the pages still to visit.  *)
(* No statement runs while todo is not empty: the engine is one thread.    *)
(*                                                                         *)
(* `intact` is a history variable: it becomes FALSE at the first step      *)
(* after which the code itself no longer keeps its structures together.    *)
(* There are three: a repack that moves a live row to another slot, an     *)
(* insert under a row id that is in use, and an update of an indexed cell. *)
(***************************************************************************)
EXTENDS Integers, Sequences, SequencesExt, FiniteSetsExt

CONSTANTS
  MaxPages,   \* bound on page ids: 0 .. MaxPages - 1
  MaxRow,     \* bound on row ids: 1 .. MaxRow
  MaxSlots,   \* bound on the slots of a page an insert may extend
  DamageRows, \* bound on row ids in stores that are no longer intact
  GivenIds,   \* the row ids a statement gives itself
  Values,     \* cell values, a set of integers
  Null,       \* Value::Null, what a read outside the column region returns
  Capacity,   \* rows a fresh page takes: PAGE_DATA_CAPACITY over the row width
  SplitRows,  \* rows above which a body is longer than SPLIT_THRESHOLD
  Ops         \* the comparison operators predicates use

PageIds == 0 .. MaxPages - 1
RowIds == 1 .. MaxRow
MergeThreshold == 2

ASSUME BoundsAssumption ==
  /\ MaxPages \in Nat \ {0} /\ MaxRow \in Nat /\ MaxSlots \in Nat
  /\ Capacity \in Nat \ {0} /\ SplitRows \in Nat /\ GivenIds \subseteq Nat \ {0}
ASSUME ValuesAssumption == Values \subseteq Int /\ Null \notin Values
ASSUME OpsAssumption == Ops \subseteq {"Eq", "Ne", "Lt", "Le", "Gt", "Ge"}

VARIABLES
  pages,      \* Pager::slots
  freeIds,    \* Pager::free_ids, a stack
  highWater,  \* Pager::high_water
  fsmFree,    \* Fsm::free_pages
  space,      \* Fsm::space
  rowMap,     \* RowIdMap::map
  nextRow,    \* Database::next_row_id
  indexed,    \* whether the data column has a secondary index
  index,      \* IndexCache::entries: value -> row ids
  zoned,      \* pages with an entry in the zone maps
  todo,       \* pages the running compaction has still to visit
  intact

vars == <<pages, freeIds, highWater, fsmFree, space, rowMap, nextRow, indexed,
          index, zoned, todo, intact>>
pagerVars == <<pages, freeIds, highWater>>
fsmVars == <<fsmFree, space>>

-----------------------------------------------------------------------------
(* Pages and slots.                                                        *)

LivePages == DOMAIN pages
Mapped == DOMAIN rowMap

With(f, key, value) ==
  [x \in DOMAIN f \cup {key} |-> IF x = key THEN value ELSE f[x]]
Without(f, keys) == Restrict(f, DOMAIN f \ keys)

EmptyPage == [cells |-> <<>>, slots |-> <<>>]
LiveIndices(page) == {i \in DOMAIN page.slots : page.slots[i].live}
LiveCount(page) == Cardinality(LiveIndices(page))

\* The live slots, in the order of the page.
LiveSlots(page) ==
  LET nth(k) == CHOOSE i \in LiveIndices(page) :
                  Cardinality({j \in LiveIndices(page) : j <= i}) = k
  IN  [k \in 1 .. LiveCount(page) |-> page.slots[nth(k)]]

HasTombstones(page) == LiveCount(page) # Len(page.slots)

\* read_cell: past the end of the region a cell reads as null.
CellAt(page, i) == IF i \in DOMAIN page.cells THEN page.cells[i] ELSE Null

\* CmpOp::apply: null matches nothing but "different".
Matches(op, a, b) ==
  IF a = Null THEN op = "Ne"
  ELSE CASE op = "Eq" -> a = b
         [] op = "Ne" -> a # b
         [] op = "Lt" -> a < b
         [] op = "Le" -> a <= b
         [] op = "Gt" -> a > b
         [] op = "Ge" -> a >= b

\* Fault: the cells are copied from the front of the page.
PageOfFront(page, slots) ==
  [cells |-> [i \in DOMAIN slots |-> CellAt(page, i)],
   slots |-> [i \in DOMAIN slots |->
                [row |-> slots[i].row, off |-> i, live |-> TRUE]]]

\* A new page of the given live slots of `page`, numbered from the front.
PageOf(page, slots) ==
  [cells |-> [i \in DOMAIN slots |-> CellAt(page, slots[i].off)],
   slots |-> [i \in DOMAIN slots |->
                [row |-> slots[i].row, off |-> i, live |-> TRUE]]]

\* Fault: the moved slots keep the offset they had on their old page.
ExtendedOldOffsets(page, other, slots) ==
  [cells |-> page.cells \o PageOf(other, slots).cells,
   slots |-> page.slots \o slots]

\* `page` with the given live slots of `other` behind its own.
Extended(page, other, slots) ==
  LET start == Len(page.slots)
  IN  [cells |-> page.cells \o PageOf(other, slots).cells,
       slots |-> page.slots \o
                   [i \in DOMAIN slots |->
                      [row |-> slots[i].row, off |-> start + i, live |-> TRUE]]]

\* Fault: a row keeps the slot number it had before it moved.
RelocatedPageOnly(map, slots, p, start) ==
  [r \in DOMAIN map |->
     IF \E i \in DOMAIN slots : slots[i].row = r
     THEN [map[r] EXCEPT !.page = p] ELSE map[r]]

\* relocate for each of `slots`, now at start + 1, start + 2, ... of page p: a
\* row without an entry gets none, and the last slot of a row wins.
Relocated(map, slots, p, start) ==
  LET at(r) == {i \in DOMAIN slots : slots[i].row = r}
  IN  [r \in DOMAIN map |->
         IF at(r) # {}
         THEN [page |-> p, slot |-> start + Max(at(r))] ELSE map[r]]

-----------------------------------------------------------------------------
(* The pager and the free-space map.                                       *)

\* The id alloc returns: the last one freed, else a new one.
AllocId == IF freeIds # <<>> THEN Last(freeIds) ELSE highWater

Alloc ==
  /\ AllocId \in PageIds
  /\ IF freeIds # <<>>
     THEN freeIds' = Front(freeIds) /\ UNCHANGED highWater
     ELSE highWater' = highWater + 1 /\ UNCHANGED freeIds

Roomy == {p \in DOMAIN space : space[p] >= 1}

\* page_with_space: the page with the most room, the smallest id of several.
Roomiest ==
  CHOOSE p \in Roomy :
    \A q \in Roomy : space[p] > space[q] \/ (space[p] = space[q] /\ p <= q)

-----------------------------------------------------------------------------
Init ==
  /\ pages = <<>>
  /\ freeIds = <<>> /\ highWater = 0
  /\ fsmFree = {} /\ space = <<>>
  /\ rowMap = <<>> /\ nextRow = 1
  /\ indexed \in BOOLEAN
  /\ index = [v \in Values |-> {}]
  /\ zoned = {} /\ todo = {} /\ intact = TRUE

-----------------------------------------------------------------------------
(* Statements.                                                             *)

\* Fault: an explicit row id does not move the allocator.
NextRowAfterAuto(id, row) == IF id = 0 THEN row + 1 ELSE nextRow

\* The allocator after a row was inserted, under a given id (> 0) or its own.
NextRowAfter(id, row) == Max({nextRow, row + 1})

AppendRow(page, row, v) ==
  [cells |-> Append(page.cells, v),
   slots |-> Append(page.slots,
                    [row |-> row, off |-> Len(page.slots) + 1, live |-> TRUE])]

\* append_row to page p, then the index, the zone maps and the id allocator.
\* That p is live is the invariant PageAccounting ("page vanished" otherwise).
AddRow(p, page, id, row, v) ==
  /\ pages' = With(pages, p, AppendRow(page, row, v))
  /\ rowMap' = With(rowMap, row, [page |-> p, slot |-> Len(page.slots) + 1])
  /\ nextRow' = NextRowAfter(id, row)
  /\ index' = IF indexed THEN [index EXCEPT ![v] = @ \cup {row}] ELSE index
  /\ zoned' = zoned \cup {p}
  /\ intact' = (intact /\ row \notin Mapped)
  /\ UNCHANGED <<fsmFree, indexed, todo>>

\* insert: id 0 stands for every first cell that is not a positive integer.
Insert(id, v) ==
  LET row == IF id > 0 THEN id ELSE nextRow
  IN  /\ todo = {}
      /\ row \in RowIds
      /\ \/ /\ Roomy # {}
            /\ Len(pages[Roomiest].slots) < MaxSlots
            /\ AddRow(Roomiest, pages[Roomiest], id, row, v)
            /\ space' = [space EXCEPT ![Roomiest] = @ - 1]
            /\ UNCHANGED <<freeIds, highWater>>
         \/ /\ Roomy = {}
            /\ Alloc
            /\ AddRow(AllocId, EmptyPage, id, row, v)
            /\ space' = With(space, AllocId, Capacity - 1)

\* collect_matching: an equality predicate on an indexed column asks the index,
\* every other predicate reads each mapped row through the row-id map.
Matching(op, target) ==
  IF indexed /\ op = "Eq" THEN index[target]
  ELSE {r \in Mapped :
          /\ rowMap[r].page \in LivePages
          /\ Matches(op, CellAt(pages[rowMap[r].page], rowMap[r].slot), target)}

\* Fault: the index keeps the deleted rows.
UnindexedNever(rows) == index

\* The index without the given rows, whatever entry lists them.
Unindexed(rows) == [v \in Values |-> index[v] \ rows]

\* delete_where: only the slot the map names is tombstoned.
DeleteWhere(op, target) ==
  LET rows == Matching(op, target) \cap Mapped
      dead(p, i) == \E r \in rows : rowMap[r] = [page |-> p, slot |-> i]
  IN  /\ todo = {}
      /\ rows # {}
      /\ pages' = [p \in LivePages |->
           [pages[p] EXCEPT !.slots =
              [i \in DOMAIN @ |-> IF dead(p, i) THEN [@[i] EXCEPT !.live = FALSE]
                                  ELSE @[i]]]]
      /\ rowMap' = Without(rowMap, rows)
      /\ index' = Unindexed(rows)
      /\ UNCHANGED <<freeIds, highWater, fsmVars, nextRow, indexed, zoned, todo, intact>>

\* update_where rewrites the cell and nothing else. A row whose page is gone
\* ends the statement with an error after some of the others were rewritten.
UpdateWhere(v, op, target) ==
  LET rows == Matching(op, target) \cap Mapped
      homed == {r \in rows : rowMap[r].page \in LivePages}
  IN  /\ todo = {}
      /\ rows # {}
      /\ \E done \in SUBSET homed :
           /\ homed = rows => done = rows
           /\ pages' = [p \in LivePages |->
                [pages[p] EXCEPT !.cells =
                   [i \in DOMAIN @ |->
                      IF \E r \in done : rowMap[r] = [page |-> p, slot |-> i]
                      THEN v ELSE @[i]]]]
      /\ intact' = (intact /\ (~indexed \/ pages' = pages))
      /\ UNCHANGED <<freeIds, highWater, fsmVars, rowMap, nextRow, indexed, index,
                     zoned, todo>>

-----------------------------------------------------------------------------
(* Compaction.                                                             *)

StartCompaction ==
  /\ todo = {}
  /\ LivePages # {}
  /\ todo' = LivePages
  /\ UNCHANGED <<pagerVars, fsmVars, rowMap, nextRow, indexed, index, zoned, intact>>

\* The page the loop visits next.
Visiting(p) == p \in todo /\ \A q \in todo : p <= q

Overfull(p) == Len(pages[p].cells) > SplitRows
Underfull(p) == LiveCount(pages[p]) < MergeThreshold /\ LivePages # {p}

\* split declines a page with fewer than four live rows.
NothingToDo(p) ==
  \/ Overfull(p) /\ LiveCount(pages[p]) < 4
  \/ ~Overfull(p) /\ ~Underfull(p) /\ ~HasTombstones(pages[p])

SkipPage(p) ==
  /\ Visiting(p) /\ NothingToDo(p)
  /\ todo' = todo \ {p}
  /\ UNCHANGED <<pagerVars, fsmVars, rowMap, nextRow, indexed, index, zoned, intact>>

\* split: the first half of the live rows stays, the second moves to a new
\* page. The new page gets no zone-map entry.
Split(p) ==
  LET live == LiveSlots(pages[p])
      mid == Len(live) \div 2
      left == SubSeq(live, 1, mid)
      right == SubSeq(live, mid + 1, Len(live))
      new == AllocId
  IN  /\ Visiting(p) /\ Overfull(p) /\ Len(live) >= 4
      /\ Alloc
      /\ pages' = With([pages EXCEPT ![p] = PageOf(@, left)],
                       new, PageOf(pages[p], right))
      /\ rowMap' = Relocated(Relocated(rowMap, left, p, 0), right, new, 0)
      /\ space' = With(With(space, p, Capacity), new, Capacity)
      /\ todo' = todo \ {p}
      /\ UNCHANGED <<fsmFree, nextRow, indexed, index, zoned, intact>>

\* Fault: a freed page keeps its free-space counter.
ForgottenKept(p, into) == With(space, into, Capacity)

\* The free-space counters after page p was merged away into page `into`.
Forgotten(p, into) == Without(With(space, into, Capacity), {p})

\* merge: the live rows go behind the slots of the first other data page, and
\* the id is returned to the pager and to the free-page list of the FSM.
Merge(p) ==
  LET into == Min(LivePages \ {p})
      live == LiveSlots(pages[p])
  IN  /\ Visiting(p) /\ ~Overfull(p) /\ Underfull(p)
      /\ pages' = Without([pages EXCEPT ![into] = Extended(@, pages[p], live)], {p})
      /\ rowMap' = Relocated(rowMap, live, into, Len(pages[into].slots))
      /\ space' = Forgotten(p, into)
      /\ fsmFree' = fsmFree \cup {p}
      /\ freeIds' = Append(freeIds, p)
      /\ todo' = todo \ {p}
      /\ UNCHANGED <<highWater, nextRow, indexed, index, zoned, intact>>

\* repack: the live rows move to the front of their page. The row-id map is
\* not told.
Repack(p) ==
  LET live == LiveSlots(pages[p])
  IN  /\ Visiting(p) /\ ~Overfull(p) /\ ~Underfull(p) /\ HasTombstones(pages[p])
      /\ pages' = [pages EXCEPT ![p] = PageOf(@, live)]
      /\ space' = With(space, p, Capacity)
      /\ todo' = todo \ {p}
      /\ intact' = (intact /\ \A i \in DOMAIN live : pages[p].slots[i].live)
      /\ UNCHANGED <<freeIds, highWater, fsmFree, rowMap, nextRow, indexed, index, zoned>>

-----------------------------------------------------------------------------
(* Saving and loading.                                                     *)

\* decode allocates the data records in the order encode_database wrote them,
\* whatever ids they had: the new ids number the live pages from 0.
Numberings(n) ==
  {old \in [0 .. n - 1 -> LivePages] :
     /\ \A i, j \in 0 .. n - 1 : i < j => old[i] < old[j]
     /\ \A p \in LivePages : \E i \in 0 .. n - 1 : old[i] = p}

\* verify, on the pages `on` and the maps as they were saved.
Verified(on) ==
  /\ \A p \in DOMAIN on :
       /\ Len(on[p].cells) = Len(on[p].slots)
       /\ \A i \in DOMAIN on[p].slots :
            on[p].slots[i].live =>
              /\ on[p].slots[i].row \in Mapped
              /\ rowMap[on[p].slots[i].row] = [page |-> p, slot |-> i]
  /\ \A r \in Mapped :
       /\ rowMap[r].page \in DOMAIN on
       /\ rowMap[r].slot <= Len(on[rowMap[r].page].slots)
  /\ DOMAIN space \cup zoned \subseteq DOMAIN on

\* checkpoint, then a process that decodes and verifies the file. A file that
\* fails verification loads no database, and this action is not enabled.
Reload ==
  /\ todo = {}
  /\ \E n \in 1 .. MaxPages : \E old \in Numberings(n) :
       LET on == [p \in 0 .. n - 1 |-> pages[old[p]]]
       IN  /\ Verified(on)
           /\ pages' = on
           /\ highWater' = n
  /\ freeIds' = <<>>
  /\ UNCHANGED <<fsmVars, rowMap, nextRow, indexed, index, zoned, todo, intact>>

Next ==
  \/ \E id \in GivenIds \cup {0}, v \in Values : Insert(id, v)
  \/ \E op \in Ops, t \in Values : DeleteWhere(op, t)
  \/ \E v \in Values, op \in Ops, t \in Values : UpdateWhere(v, op, t)
  \/ StartCompaction
  \/ \E p \in PageIds : SkipPage(p) \/ Split(p) \/ Merge(p) \/ Repack(p)
  \/ Reload

Spec == Init /\ [][Next]_vars

-----------------------------------------------------------------------------
(* What keeps the page store, its maps and its index together (the         *)
(* contracts of src/README.md, section 23).                                *)

\* The slot the row-id map names for r, where there is one.
NamesLiveSlot(r) ==
  LET p == rowMap[r].page
      i == rowMap[r].slot
  IN  /\ p \in LivePages
      /\ i \in DOMAIN pages[p].slots
      /\ pages[p].slots[i].row = r
      /\ pages[p].slots[i].live

LiveAt ==
  UNION {{<<p, i>> : i \in {j \in DOMAIN pages[p].slots : pages[p].slots[j].live}} :
           p \in LivePages}
RowAt(at) == pages[at[1]].slots[at[2]].row

\* What scan_all returns, read as a function of the row id.
Contents ==
  LET live == LiveAt
      held(r) == {at \in live : RowAt(at) = r}
      seen(at) == CellAt(pages[at[1]], at[2])
  IN  [r \in RowIds |->
         IF held(r) = {} THEN Null ELSE seen(CHOOSE at \in held(r) : TRUE)]

StatementsOnTable == INSTANCE Table WITH rows <- Contents, Absent <- Null

\* The engine keeps the promise of module Table: until a step that breaks
\* `intact`, every statement changes what a full scan returns exactly as the
\* table says, whichever path (row-id map or index) it found its rows by, and
\* no split, merge, repack or reload changes it.
ImplementsTable ==
  /\ StatementsOnTable!Spec
  /\ [][intact /\ intact' =>
         /\ \A id \in GivenIds \cup {0}, v \in Values :
              Insert(id, v) => StatementsOnTable!Insert(IF id > 0 THEN id ELSE nextRow, v)
         /\ \A op \in Ops, t \in Values :
              /\ DeleteWhere(op, t) => StatementsOnTable!DeleteWhere(op, t)
              /\ \A v \in Values :
                   UpdateWhere(v, op, t) => StatementsOnTable!UpdateWhere(v, op, t)
         /\ todo # {} \/ StartCompaction \/ Reload => UNCHANGED Contents]_vars

\* Every page id below the high-water mark is either live or waiting on the
\* pager's free stack, once; the free-space map counts room on live data pages
\* only, never more than a page has, so an insert never lands on a page that has
\* vanished; and a running compaction never meets a page that was freed
\* (src/src/pager.rs, alloc and free; src/src/fsm.rs; src/src/compact.rs, compact).
PageAccounting ==
  /\ highWater \in 0 .. MaxPages
  /\ \A p \in PageIds :
       /\ p < highWater <=> (p \in LivePages \/ p \in Range(freeIds))
       /\ p \in Range(freeIds) => p \notin LivePages
  /\ LivePages \subseteq PageIds
  /\ DOMAIN space \cup todo \subseteq LivePages
  /\ \A p \in DOMAIN space : space[p] \in 0 .. Capacity
  /\ \A i, j \in DOMAIN freeIds : freeIds[i] = freeIds[j] => i = j

\* The physical layout of a page: a cell for every slot and every slot at its
\* own offset, so the fast path, which reads at the slot's offset, and the safe
\* path, which reads at its index, see the same cell (src/src/mutation.rs,
\* read_row_cell and read_row_cell_fast).
PathsAgree ==
  \A p \in LivePages :
    /\ Len(pages[p].cells) = Len(pages[p].slots)
    /\ \A i \in DOMAIN pages[p].slots : pages[p].slots[i].off = i

\* Rows 4 and 9 of the invariant reference, while the store is intact: the
\* row-id map and the live slots of the pages name each other, through any
\* sequence of statements, splits, merges and reloads.
MapAgreesWithPages ==
  intact =>
    /\ \A r \in Mapped : NamesLiveSlot(r)
    /\ \A at \in LiveAt :
         /\ RowAt(at) \in Mapped
         /\ rowMap[RowAt(at)] = [page |-> at[1], slot |-> at[2]]

\* Row 7: every row id the index lists exists, even in a store that is no
\* longer intact.
IndexedRowsExist == \A v \in Values : index[v] \subseteq Mapped

\* The index lists every row under its value and under no other.
ListedUnderValue ==
  LET contents == Contents
  IN  \A r \in Mapped, v \in Values : r \in index[v] <=> contents[r] = v

\* While the store is intact the index lists the rows by their values, through
\* inserts, deletes by either path, splits, merges and reloads.
IndexAgrees == indexed /\ intact => ListedUnderValue

\* src/README.md:651-652: "Updates move a row id from the old value's entry to
\* the new value's entry."
UpdatesMoveIndexEntries == indexed => ListedUnderValue

\* The next-row-id counter is past every row id that any page, live or
\* tombstoned, still knows, so an automatic id is never one that is or was in
\* use (src/README.md:572-573).
NextRowIsFresh ==
  /\ \A r \in Mapped : r < nextRow
  /\ \A p \in LivePages : \A i \in DOMAIN pages[p].slots :
       pages[p].slots[i].row < nextRow

\* src/README.md:1129: "After compaction, every surviving row is reachable at
\* the slot the row-id map names for it".
SurvivorsReachable == todo = {} => \A r \in Mapped : NamesLiveSlot(r)

-----------------------------------------------------------------------------
\* A bound for TLC: a store in which `intact` is lost is explored while it has
\* few rows.
Bounded == intact \/ nextRow <= DamageRows
=============================================================================
