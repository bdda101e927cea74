------------------------------ MODULE BufferPool -----------------------------
(***************************************************************************)
(* The fixed-capacity buffer pool of src/src/bufferpool.rs: pins, dirty    *)
(* and reference bits, and second-chance (clock) eviction, with the caller *)
(* it is written for: a page's bytes come from the backing store, and a    *)
(* writeback the pool hands out goes to it.                                *)
(*                                                                         *)
(* Frames count from 0.  `store` and `newest` belong to the caller: what   *)
(* the backing store holds of each page, and what was last put into it.    *)
(***************************************************************************)
EXTENDS Integers, Sequences, SequencesExt, FiniteSetsExt

CONSTANTS
  PoolPages,  \* page ids
  Contents,   \* what pages hold
  Frames,     \* number of frames
  MaxPins     \* bound on the pins of a page

ASSUME PoolAssumption == Frames \in Nat \ {0} /\ MaxPins \in Nat \ {0}

FrameIds == 0 .. Frames - 1
NoPoolPage == "none"
NoBytes == "zeros"

VARIABLES
  frames,     \* BufferPool::frames
  pageTable,  \* BufferPool::page_table: page -> frame
  freeList,   \* BufferPool::free_list, a stack
  hand,       \* BufferPool::clock_hand
  store,
  newest,
  refused     \* whether the last install found every frame pinned

poolVars == <<frames, pageTable, freeList, hand, store, newest, refused>>

EmptyFrame ==
  [page |-> NoPoolPage, data |-> NoBytes, pins |-> 0, dirty |-> FALSE, referenced |-> FALSE]

Resident == DOMAIN pageTable
FrameOf(p) == frames[pageTable[p]]
WithEntry(f, key, value) ==
  [x \in DOMAIN f \cup {key} |-> IF x = key THEN value ELSE f[x]]

\* The frame the hand is at after k steps.
Under(k) == (hand + k) % Frames

\* The reference bit of the frame under the k-th step of the sweep: the first
\* round clears the bits of the frames it passes.
ReferencedAt(k) == frames[Under(k)].referenced /\ k < Frames

Evictable(k) == frames[Under(k)].pins = 0 /\ ~ReferencedAt(k)

\* Fault: one round of the clock.
SweepOneRound == {k \in 0 .. Frames - 1 : Evictable(k)}

\* The steps, of at most two rounds, at which choose_victim may stop.
Sweep == {k \in 0 .. 2 * Frames - 1 : Evictable(k)}

\* The frames whose reference bit the first n steps of the sweep clear.
ClearedBy(n) ==
  {Under(k) : k \in {j \in 0 .. n - 1 : frames[Under(j)].pins = 0}}
Swept(n) ==
  [f \in FrameIds |->
     IF f \in ClearedBy(n) THEN [frames[f] EXCEPT !.referenced = FALSE] ELSE frames[f]]

-----------------------------------------------------------------------------
PoolInit ==
  /\ frames = [f \in FrameIds |-> EmptyFrame]
  /\ pageTable = <<>>
  /\ freeList = [i \in 1 .. Frames |-> Frames - i]
  /\ hand = 0
  /\ store \in [PoolPages -> Contents]
  /\ newest = store
  /\ refused = FALSE

Installed(p, d) ==
  [page |-> p, data |-> d, pins |-> 1, dirty |-> TRUE, referenced |-> TRUE]

\* install of a resident page: its bytes are replaced, and it is not pinned.
InstallResident(p, d) ==
  /\ p \in Resident
  /\ frames' = [frames EXCEPT ![pageTable[p]] =
                  [@ EXCEPT !.data = d, !.dirty = TRUE, !.referenced = TRUE]]
  /\ refused' = FALSE
  /\ UNCHANGED <<pageTable, freeList, hand, store>>

InstallFree(p, d) ==
  /\ p \notin Resident /\ freeList # <<>>
  /\ frames' = [frames EXCEPT ![Last(freeList)] = Installed(p, d)]
  /\ pageTable' = WithEntry(pageTable, p, Last(freeList))
  /\ freeList' = Front(freeList)
  /\ refused' = FALSE
  /\ UNCHANGED <<hand, store>>

\* The page that loses its frame leaves the page table.
Unmapped(victim) == Restrict(pageTable, Resident \ {victim.page})

\* A dirty victim's bytes go to the store.
WrittenBack(victim) ==
  IF victim.dirty THEN [store EXCEPT ![victim.page] = victim.data] ELSE store

InstallEvicting(p, d) ==
  /\ p \notin Resident /\ freeList = <<>> /\ Sweep # {}
  /\ LET k == Min(Sweep)
         victim == frames[Under(k)]
     IN  /\ frames' = [Swept(k) EXCEPT ![Under(k)] = Installed(p, d)]
         /\ pageTable' = WithEntry(Unmapped(victim), p, Under(k))
         /\ hand' = Under(k + 1)
         /\ store' = WrittenBack(victim)
  /\ refused' = FALSE
  /\ UNCHANGED freeList

\* Every frame is pinned: two rounds bring the hand back, and clear no bit.
InstallRefused(p) ==
  /\ p \notin Resident /\ freeList = <<>> /\ Sweep = {}
  /\ frames' = Swept(2 * Frames)
  /\ refused' = TRUE
  /\ UNCHANGED <<pageTable, freeList, hand, store, newest>>

\* The caller puts new bytes into a page.
Install(p, d) ==
  /\ InstallResident(p, d) \/ InstallFree(p, d) \/ InstallEvicting(p, d)
  /\ newest' = [newest EXCEPT ![p] = d]

\* The caller faults a page in with the bytes the store has.
FaultIn(p) ==
  /\ p \notin Resident
  /\ InstallFree(p, store[p]) \/ InstallEvicting(p, store[p])
  /\ UNCHANGED newest

Touched(f) == [f EXCEPT !.pins = @ + 1, !.referenced = TRUE]

Pin(p) ==
  /\ p \in Resident /\ FrameOf(p).pins < MaxPins
  /\ frames' = [frames EXCEPT ![pageTable[p]] = Touched(@)]
  /\ refused' = FALSE
  /\ UNCHANGED <<pageTable, freeList, hand, store, newest>>

\* Fault: the page is not marked dirty.
RewrittenClean(f, d) == [Touched(f) EXCEPT !.data = d]

\* pin_mut, and the bytes the caller then writes.
Rewritten(f, d) == [Touched(f) EXCEPT !.data = d, !.dirty = TRUE]

PinMut(p, d) ==
  /\ p \in Resident /\ FrameOf(p).pins < MaxPins
  /\ frames' = [frames EXCEPT ![pageTable[p]] = Rewritten(@, d)]
  /\ newest' = [newest EXCEPT ![p] = d]
  /\ refused' = FALSE
  /\ UNCHANGED <<pageTable, freeList, hand, store>>

Released(f) == [f EXCEPT !.pins = @ - 1]

Unpin(p) ==
  /\ p \in Resident /\ FrameOf(p).pins > 0
  /\ frames' = [frames EXCEPT ![pageTable[p]] = Released(@)]
  /\ refused' = FALSE
  /\ UNCHANGED <<pageTable, freeList, hand, store, newest>>

MarkDirty(p) ==
  /\ p \in Resident
  /\ frames' = [frames EXCEPT ![pageTable[p]] = [@ EXCEPT !.dirty = TRUE]]
  /\ refused' = FALSE
  /\ UNCHANGED <<pageTable, freeList, hand, store, newest>>

\* flush; flush_all is one flush after another.
Flush(p) ==
  /\ p \in Resident /\ FrameOf(p).dirty
  /\ frames' = [frames EXCEPT ![pageTable[p]] = [@ EXCEPT !.dirty = FALSE]]
  /\ store' = [store EXCEPT ![p] = FrameOf(p).data]
  /\ refused' = FALSE
  /\ UNCHANGED <<pageTable, freeList, hand, newest>>

PoolNext ==
  \/ \E p \in PoolPages, d \in Contents : Install(p, d) \/ PinMut(p, d)
  \/ \E p \in PoolPages :
       InstallRefused(p) \/ FaultIn(p) \/ Pin(p) \/ Unpin(p) \/ MarkDirty(p) \/ Flush(p)

PoolSpec == PoolInit /\ [][PoolNext]_poolVars

-----------------------------------------------------------------------------
(* Properties.                                                             *)

\* What was last put into a page is in its frame, or in the store if the page
\* was evicted: no eviction order and no mix of pins, flushes and reinstalls
\* loses a write (src/src/bufferpool.rs, acquire_frame).
NoWriteLost ==
  \A p \in PoolPages :
    newest[p] = IF p \in Resident THEN FrameOf(p).data ELSE store[p]

\* A pinned page is never evicted, and a request is refused only when every
\* frame is pinned (src/src/bufferpool.rs:7-9 and PoolError::AllFramesPinned).
PinsRespected ==
  [][/\ \A p \in Resident : FrameOf(p).pins > 0 => p \in Resident'
     /\ refused' => \A f \in FrameIds : frames[f].pins > 0]_poolVars
=============================================================================
