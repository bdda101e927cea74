----------------------------- MODULE CacheProofs -----------------------------
(***************************************************************************)
(* Proofs about the caches.  The buffer pool of BufferPool: whatever the   *)
(* number of frames, no write is lost and no pinned page is evicted.  The  *)
(* LRU cache of LruCache: it implements RecencyCache, by an invariant that *)
(* names the order of slots its list threads.                              *)
(***************************************************************************)
EXTENDS BufferPool, LruCache, OrderLemmas, SequenceTheorems

FrameType ==
  [page: PoolPages \cup {NoPoolPage}, data: Contents \cup {NoBytes}, pins: Nat,
   dirty: BOOLEAN, referenced: BOOLEAN]

PoolTypeOK ==
  /\ frames \in [FrameIds -> FrameType]
  /\ Resident \subseteq PoolPages
  /\ pageTable \in [Resident -> FrameIds]
  /\ freeList \in Seq(FrameIds)
  /\ hand \in FrameIds
  /\ store \in [PoolPages -> Contents]
  /\ newest \in [PoolPages -> Contents]
  /\ refused \in BOOLEAN

Free == {freeList[i] : i \in 1 .. Len(freeList)}

\* A page's frame says so, and every frame is on the free list, once, or is
\* the frame of the page it names.
TableMatchesFrames ==
  /\ \A p \in Resident : FrameOf(p).page = p /\ pageTable[p] \notin Free
  /\ \A i, j \in 1 .. Len(freeList) : freeList[i] = freeList[j] => i = j
  /\ \A f \in FrameIds \ Free :
       frames[f].page \in Resident /\ pageTable[frames[f].page] = f

\* A clean page's bytes are those of the store.
CleanIsStored == \A p \in Resident : ~FrameOf(p).dirty => store[p] = FrameOf(p).data

PoolInv == PoolTypeOK /\ TableMatchesFrames /\ CleanIsStored /\ NoWriteLost

-----------------------------------------------------------------------------
(* Arithmetic of the hand, and the sweep.                                  *)

\* The hand stays among the frames.
LEMMA UnderIsFrame ==
  ASSUME hand \in FrameIds, NEW k \in Nat
  PROVE  Under(k) \in FrameIds
BY PoolAssumption DEF FrameIds, Under

\* The second round of the sweep passes every frame.
LEMMA SecondRoundPassesAll ==
  ASSUME hand \in FrameIds, NEW f \in FrameIds
  PROVE  \E k \in Frames .. 2 * Frames - 1 : Under(k) = f
<1> USE PoolAssumption
<1> DEFINE k == IF f >= hand THEN Frames + f - hand ELSE Frames + Frames + f - hand
<1>1. k \in Frames .. 2 * Frames - 1
  BY DEF FrameIds
<1>2. CASE f >= hand
  <2>1. hand + k = Frames + f
    BY <1>2 DEF FrameIds
  <2>2. (Frames + f) % Frames = f
    BY DEF FrameIds
  <2> QED BY <1>1, <2>1, <2>2 DEF Under
<1>3. CASE f < hand
  <2>1. hand + k = Frames + Frames + f
    BY <1>3 DEF FrameIds
  <2>2. (Frames + Frames + f) % Frames = f
    BY DEF FrameIds
  <2> QED BY <1>1, <2>1, <2>2 DEF Under
<1> QED BY <1>2, <1>3 DEF FrameIds

\* choose_victim gives up only when every frame is pinned.
LEMMA NothingEvictableAllPinned ==
  ASSUME PoolTypeOK, Sweep = {}, NEW f \in FrameIds
  PROVE  frames[f].pins > 0
<1>1. PICK k \in Frames .. 2 * Frames - 1 : Under(k) = f
  BY SecondRoundPassesAll DEF PoolTypeOK
<1>2. k \in 0 .. 2 * Frames - 1 /\ ~(k < Frames)
  BY PoolAssumption
<1>3. frames[f].pins # 0
  BY <1>1, <1>2 DEF Sweep, Evictable, ReferencedAt
<1> QED BY <1>3 DEF PoolTypeOK, FrameType

\* The frame choose_victim stops at is not pinned.
LEMMA VictimIsUnpinned ==
  ASSUME PoolTypeOK, Sweep # {}
  PROVE  /\ Min(Sweep) \in Nat
         /\ Under(Min(Sweep)) \in FrameIds
         /\ frames[Under(Min(Sweep))].pins = 0
<1>1. Sweep \subseteq Nat
  BY DEF Sweep
<1>2. Min(Sweep) \in Sweep
  BY <1>1, MinIsIn
<1>3. frames[Under(Min(Sweep))].pins = 0
  BY <1>2 DEF Sweep, Evictable
<1> QED BY <1>1, <1>2, <1>3, UnderIsFrame DEF PoolTypeOK

\* Passing a frame clears its reference bit and nothing else.
LEMMA SweptFrames ==
  ASSUME PoolTypeOK, NEW n \in Nat
  PROVE  /\ Swept(n) \in [FrameIds -> FrameType]
         /\ \A f \in FrameIds :
              /\ Swept(n)[f].page = frames[f].page
              /\ Swept(n)[f].data = frames[f].data
              /\ Swept(n)[f].pins = frames[f].pins
              /\ Swept(n)[f].dirty = frames[f].dirty
<1>1. \A f \in FrameIds : frames[f] \in FrameType
  BY DEF PoolTypeOK
<1>2. \A f \in FrameIds :
        Swept(n)[f] = frames[f] \/ Swept(n)[f] = [frames[f] EXCEPT !.referenced = FALSE]
  BY DEF Swept
<1>3. \A f \in FrameIds :
        /\ Swept(n)[f] \in FrameType
        /\ Swept(n)[f].page = frames[f].page
        /\ Swept(n)[f].data = frames[f].data
        /\ Swept(n)[f].pins = frames[f].pins
        /\ Swept(n)[f].dirty = frames[f].dirty
  BY <1>1, <1>2 DEF FrameType
<1> QED BY <1>3 DEF Swept

-----------------------------------------------------------------------------
(* What each operation keeps.                                              *)

\* An operation on one resident page changes its frame, and what the store
\* has of it, and nothing of any other page.
LEMMA ResidentPageChanges ==
  ASSUME PoolInv,
         NEW p \in Resident,
         NEW g \in FrameType, g.page = p,
         frames' = [frames EXCEPT ![pageTable[p]] = g],
         UNCHANGED <<pageTable, freeList, hand>>,
         store' \in [PoolPages -> Contents], newest' \in [PoolPages -> Contents],
         refused' \in BOOLEAN,
         \A q \in PoolPages \ {p} : store'[q] = store[q] /\ newest'[q] = newest[q],
         newest'[p] = g.data,
         ~g.dirty => store'[p] = g.data
  PROVE  PoolInv'
<1> USE DEF PoolInv, Resident
<1>1. PoolTypeOK'
  BY DEF PoolTypeOK
<1>2. frames'[pageTable[p]] = g /\ \A f \in FrameIds \ {pageTable[p]} : frames'[f] = frames[f]
  BY DEF PoolTypeOK
<1>3. \A q \in Resident \ {p} : pageTable[q] \in FrameIds \ {pageTable[p]}
  BY DEF PoolTypeOK, TableMatchesFrames, FrameOf
<1>4. \A q \in Resident \ {p} : frames'[pageTable'[q]] = frames[pageTable[q]]
  BY <1>2, <1>3
<1>5. TableMatchesFrames'
  <2>1. \A q \in Resident' : FrameOf(q)'.page = q /\ pageTable'[q] \notin Free'
    BY <1>2, <1>4 DEF TableMatchesFrames, FrameOf, Free
  <2>2. \A f \in (FrameIds \ Free)' : frames'[f].page \in Resident' /\ pageTable'[frames'[f].page] = f
    <3> SUFFICES ASSUME NEW f \in FrameIds \ Free
                 PROVE  frames'[f].page \in Resident /\ pageTable[frames'[f].page] = f
      BY DEF Free
    <3>1. CASE f = pageTable[p]
      BY <1>2, <3>1
    <3>2. CASE f # pageTable[p]
      BY <1>2, <3>2 DEF TableMatchesFrames
    <3> QED BY <3>1, <3>2
  <2> QED BY <2>1, <2>2 DEF TableMatchesFrames
<1>6. CleanIsStored'
  BY <1>2, <1>4 DEF CleanIsStored, FrameOf, PoolTypeOK
<1>7. NoWriteLost'
  BY <1>2, <1>4 DEF NoWriteLost, FrameOf, PoolTypeOK
<1> QED BY <1>1, <1>5, <1>6, <1>7

\* Front drops the last element.
LEMMA FrontDropsLast ==
  ASSUME NEW S, NEW s \in Seq(S), Len(s) > 0
  PROVE  /\ Front(s) \in Seq(S)
         /\ Len(Front(s)) = Len(s) - 1
         /\ \A i \in 1 .. Len(s) - 1 : Front(s)[i] = s[i]
<1>1. \A i \in 1 .. Len(s) - 1 : s[i] \in S
  OBVIOUS
<1>2. Len(s) \in Nat
  OBVIOUS
<1> DEFINE n == Len(s) - 1
<1>3. n \in Int /\ \A i \in 1 .. n : s[i] \in S
  BY <1>1, <1>2
<1> HIDE DEF n
<1>4. /\ SubSeq(s, 1, n) \in Seq(S)
      /\ Len(SubSeq(s, 1, n)) = IF 1 <= n THEN n - 1 + 1 ELSE 0
      /\ \A i \in 1 .. n - 1 + 1 : SubSeq(s, 1, n)[i] = s[1 + i - 1]
  BY <1>3, SubSeqProperties
<1>5. n = Len(s) - 1 /\ n >= 0
  BY <1>2 DEF n
<1> QED BY <1>2, <1>3, <1>4, <1>5 DEF Front

\* A page gets the frame on top of the free list.
LEMMA InstallFreeKeeps ==
  ASSUME PoolInv, NEW p \in PoolPages, NEW d \in Contents,
         InstallFree(p, d), newest' = [newest EXCEPT ![p] = d]
  PROVE  PoolInv'
<1> USE DEF PoolInv
<1> DEFINE n == Len(freeList)
           f == freeList[n]
<1>1. n \in Nat \ {0} /\ f \in FrameIds /\ f \in Free
  BY DEF InstallFree, PoolTypeOK, Free
<1>2. /\ frames' = [frames EXCEPT ![f] = Installed(p, d)]
      /\ pageTable' = WithEntry(pageTable, p, f)
      /\ UNCHANGED <<hand, store>> /\ refused' = FALSE /\ p \notin Resident
  BY DEF InstallFree, Last
<1>3. /\ Len(freeList') = n - 1
      /\ \A i \in 1 .. n - 1 : freeList'[i] = freeList[i]
      /\ freeList' \in Seq(FrameIds)
  BY <1>1, FrontDropsLast DEF InstallFree, PoolTypeOK
<1> HIDE DEF f, n
<1>4. Free' = Free \ {f}
  <2>1. \A i \in 1 .. n - 1 : freeList[i] # f
    BY <1>1 DEF TableMatchesFrames, f, n
  <2>2. Free' = {freeList[i] : i \in 1 .. n - 1}
    BY <1>1, <1>3 DEF Free
  <2>3. Free = {freeList[i] : i \in 1 .. n - 1} \cup {f}
    BY <1>1 DEF Free, f, n
  <2> QED BY <2>1, <2>2, <2>3
<1>5. /\ Resident' = Resident \cup {p}
      /\ pageTable'[p] = f
      /\ \A q \in Resident : q # p /\ pageTable'[q] = pageTable[q]
  BY <1>2 DEF WithEntry, Resident
<1>6. /\ Installed(p, d) \in FrameType
      /\ Installed(p, d).page = p /\ Installed(p, d).data = d /\ Installed(p, d).dirty
  BY DEF Installed, FrameType
<1>7. /\ frames'[f] = Installed(p, d)
      /\ \A q \in FrameIds \ {f} : frames'[q] = frames[q]
      /\ frames' \in [FrameIds -> FrameType]
  BY <1>1, <1>2, <1>6 DEF PoolTypeOK
<1>8. \A q \in Resident : pageTable[q] \in FrameIds \ {f}
  BY <1>1 DEF TableMatchesFrames, PoolTypeOK
<1>9. PoolTypeOK'
  <2>1. pageTable' \in [Resident' -> FrameIds]
    BY <1>1, <1>2, <1>5 DEF WithEntry, PoolTypeOK
  <2>2. newest' \in [PoolPages -> Contents]
    BY DEF PoolTypeOK
  <2>3. Resident' \subseteq PoolPages
    BY <1>5 DEF PoolTypeOK
  <2>4. hand' \in FrameIds /\ store' \in [PoolPages -> Contents] /\ refused' \in BOOLEAN
    BY <1>2 DEF PoolTypeOK
  <2> QED BY <2>1, <2>2, <2>3, <2>4, <1>3, <1>7 DEF PoolTypeOK
<1>10. TableMatchesFrames'
  <2>1. \A q \in Resident' : FrameOf(q)'.page = q /\ pageTable'[q] \notin Free'
    BY <1>4, <1>5, <1>6, <1>7, <1>8 DEF TableMatchesFrames, FrameOf
  <2>2. \A i, j \in 1 .. Len(freeList') : freeList'[i] = freeList'[j] => i = j
    BY <1>1, <1>3 DEF TableMatchesFrames, n
  <2>3. \A x \in FrameIds \ Free' : frames'[x].page \in Resident' /\ pageTable'[frames'[x].page] = x
    <3> SUFFICES ASSUME NEW x \in FrameIds \ Free'
                 PROVE  frames'[x].page \in Resident' /\ pageTable'[frames'[x].page] = x
      OBVIOUS
    <3>1. CASE x = f
      BY <1>5, <1>6, <1>7, <3>1
    <3>2. CASE x # f
      BY <1>4, <1>5, <1>7, <3>2 DEF TableMatchesFrames
    <3> QED BY <3>1, <3>2
  <2> QED BY <2>1, <2>2, <2>3 DEF TableMatchesFrames
<1>11. CleanIsStored'
  BY <1>2, <1>5, <1>6, <1>7, <1>8 DEF CleanIsStored, FrameOf
<1>12. NoWriteLost'
  BY <1>5, <1>6, <1>7, <1>8, <1>2 DEF NoWriteLost, FrameOf, PoolTypeOK
<1> QED BY <1>9, <1>10, <1>11, <1>12

\* A page gets the frame of an unpinned page, whose bytes are then the store's.
LEMMA InstallEvictingKeeps ==
  ASSUME PoolInv, NEW p \in PoolPages, NEW d \in Contents,
         InstallEvicting(p, d), newest' = [newest EXCEPT ![p] = d]
  PROVE  PoolInv'
<1> USE DEF PoolInv
<1> DEFINE k == Min(Sweep)
           f == Under(k)
           v == frames[f].page
<1>1. k \in Nat /\ f \in FrameIds /\ Under(k + 1) \in FrameIds
  BY VictimIsUnpinned, UnderIsFrame DEF InstallEvicting, PoolTypeOK
<1>2. /\ frames' = [Swept(k) EXCEPT ![f] = Installed(p, d)]
      /\ pageTable' = WithEntry(Unmapped(frames[f]), p, f)
      /\ hand' = Under(k + 1)
      /\ store' = WrittenBack(frames[f])
      /\ freeList' = freeList /\ freeList = <<>> /\ refused' = FALSE /\ p \notin Resident
  BY DEF InstallEvicting
<1> HIDE DEF k, f
<1>3. Free = {} /\ Free' = {}
  BY <1>2 DEF Free
<1>4. /\ v \in Resident /\ pageTable[v] = f /\ FrameOf(v) = frames[f]
      /\ \A q \in Resident \ {v} : pageTable[q] \in FrameIds \ {f}
  BY <1>1, <1>3 DEF TableMatchesFrames, FrameOf, PoolTypeOK
<1>5. /\ Resident' = (Resident \ {v}) \cup {p}
      /\ pageTable'[p] = f
      /\ \A q \in Resident \ {v} : q # p /\ pageTable'[q] = pageTable[q]
  BY <1>2 DEF WithEntry, Unmapped, Restrict, Resident
<1>6. /\ Installed(p, d) \in FrameType
      /\ Installed(p, d).page = p /\ Installed(p, d).data = d /\ Installed(p, d).dirty
  BY DEF Installed, FrameType
<1>7. /\ frames'[f] = Installed(p, d)
      /\ frames' \in [FrameIds -> FrameType]
      /\ \A q \in FrameIds \ {f} : /\ frames'[q].page = frames[q].page
                                   /\ frames'[q].data = frames[q].data
                                   /\ frames'[q].dirty = frames[q].dirty
  <2>1. Swept(k) \in [FrameIds -> FrameType]
    BY <1>1, SweptFrames
  <2>2. frames'[f] = Installed(p, d) /\ frames' \in [FrameIds -> FrameType]
    BY <1>1, <1>2, <1>6, <2>1
  <2>3. \A q \in FrameIds \ {f} : frames'[q] = Swept(k)[q]
    BY <1>2, <2>1
  <2> QED BY <1>1, <2>2, <2>3, SweptFrames
<1>8. /\ store' \in [PoolPages -> Contents]
      /\ store'[v] = newest[v]
      /\ \A q \in PoolPages \ {v} : store'[q] = store[q]
  <2>1. newest[v] = frames[f].data /\ newest[v] \in Contents /\ v \in PoolPages
    BY <1>4 DEF NoWriteLost, PoolTypeOK
  <2>2. CASE frames[f].dirty
    BY <1>2, <2>1, <2>2 DEF WrittenBack, PoolTypeOK
  <2>3. CASE ~frames[f].dirty
    <3>1. store[v] = frames[f].data
      BY <1>4, <2>3 DEF CleanIsStored
    <3> QED BY <1>2, <2>1, <2>3, <3>1 DEF WrittenBack, PoolTypeOK
  <2> QED BY <2>2, <2>3
<1>9. PoolTypeOK'
  <2>1. pageTable' \in [Resident' -> FrameIds]
    BY <1>1, <1>2, <1>5 DEF WithEntry, Unmapped, Restrict, PoolTypeOK
  <2>2. newest' \in [PoolPages -> Contents]
    BY DEF PoolTypeOK
  <2> QED BY <1>1, <2>1, <2>2, <1>2, <1>5, <1>7, <1>8 DEF PoolTypeOK
<1> HIDE DEF v
<1>10. TableMatchesFrames'
  <2>1. \A q \in Resident' : FrameOf(q)'.page = q /\ pageTable'[q] \notin Free'
    BY <1>3, <1>4, <1>5, <1>6, <1>7 DEF TableMatchesFrames, FrameOf
  <2>2. \A x \in FrameIds \ Free' : frames'[x].page \in Resident' /\ pageTable'[frames'[x].page] = x
    <3> SUFFICES ASSUME NEW x \in FrameIds
                 PROVE  frames'[x].page \in Resident' /\ pageTable'[frames'[x].page] = x
      OBVIOUS
    <3>1. CASE x = f
      BY <1>5, <1>6, <1>7, <3>1
    <3>2. CASE x # f
      <4>1. frames'[x].page = frames[x].page
        BY <1>7, <3>2
      <4>2. frames[x].page \in Resident /\ pageTable[frames[x].page] = x
        BY <1>3 DEF TableMatchesFrames
      <4>3. frames[x].page # v
        BY <1>4, <3>2, <4>2
      <4> QED BY <1>5, <4>1, <4>2, <4>3
    <3> QED BY <3>1, <3>2
  <2>3. \A i, j \in 1 .. Len(freeList') : freeList'[i] = freeList'[j] => i = j
    BY <1>2 DEF TableMatchesFrames
  <2> QED BY <2>1, <2>2, <2>3 DEF TableMatchesFrames
<1>11. \A q \in Resident' \ {p} : /\ q \in Resident \ {v} /\ q \in PoolPages
                                  /\ FrameOf(q)'.data = FrameOf(q).data
                                  /\ FrameOf(q)'.dirty = FrameOf(q).dirty
                                  /\ store'[q] = store[q]
  BY <1>4, <1>5, <1>7, <1>8 DEF FrameOf, PoolTypeOK
<1>12. FrameOf(p)'.data = d /\ FrameOf(p)'.dirty
  BY <1>5, <1>6, <1>7 DEF FrameOf
<1>13. CleanIsStored'
  BY <1>11, <1>12 DEF CleanIsStored
<1>14. NoWriteLost'
  <2> SUFFICES ASSUME NEW q \in PoolPages
               PROVE  newest'[q] = IF q \in Resident' THEN FrameOf(q)'.data ELSE store'[q]
    BY DEF NoWriteLost
  <2>1. CASE q = p
    BY <1>5, <1>12, <2>1 DEF PoolTypeOK
  <2>2. CASE q # p /\ q \in Resident'
    BY <1>11, <2>2 DEF NoWriteLost, PoolTypeOK
  <2>3. CASE q # p /\ q \notin Resident'
    <3>1. newest'[q] = newest[q]
      BY <2>3 DEF PoolTypeOK
    <3>2. CASE q = v
      BY <1>8, <2>3, <3>1, <3>2
    <3>3. CASE q # v
      BY <1>5, <1>8, <2>3, <3>1, <3>3 DEF NoWriteLost
    <3> QED BY <3>2, <3>3
  <2> QED BY <2>1, <2>2, <2>3
<1> QED BY <1>9, <1>10, <1>13, <1>14

\* What the operations on a resident page make of its frame: the page it names
\* stays, and its bytes change to those given or not at all.
LEMMA ChangedFrames ==
  ASSUME NEW f \in FrameType, NEW d \in Contents
  PROVE  /\ \A g \in {[f EXCEPT !.data = d, !.dirty = TRUE, !.referenced = TRUE],
                      Rewritten(f, d)} :
              g \in FrameType /\ g.page = f.page /\ g.data = d /\ g.dirty
         /\ Touched(f) \in FrameType /\ Touched(f).page = f.page
         /\ Touched(f).data = f.data /\ Touched(f).dirty = f.dirty
<1>1. [f EXCEPT !.data = d, !.dirty = TRUE, !.referenced = TRUE] \in FrameType
  BY DEF FrameType
<1>2. f.pins + 1 \in Nat /\ f \in FrameType
  BY DEF FrameType
<1>3. /\ Touched(f) \in FrameType /\ Touched(f).page = f.page
      /\ Touched(f).data = f.data /\ Touched(f).dirty = f.dirty
  BY <1>2 DEF Touched, FrameType
<1>4. \A t \in FrameType : /\ [t EXCEPT !.data = d, !.dirty = TRUE] \in FrameType
                           /\ [t EXCEPT !.data = d, !.dirty = TRUE].page = t.page
                           /\ [t EXCEPT !.data = d, !.dirty = TRUE].data = d
                           /\ [t EXCEPT !.data = d, !.dirty = TRUE].dirty
  BY DEF FrameType
<1>5. Rewritten(f, d) = [Touched(f) EXCEPT !.data = d, !.dirty = TRUE]
  BY DEF Rewritten
<1>6. /\ Rewritten(f, d) \in FrameType /\ Rewritten(f, d).page = f.page
      /\ Rewritten(f, d).data = d /\ Rewritten(f, d).dirty
  BY <1>3, <1>4, <1>5
<1> QED BY <1>1, <1>3, <1>6 DEF FrameType

-----------------------------------------------------------------------------
(* The invariant, and the theorems.                                        *)

\* The empty pool.
LEMMA PoolInitially ==
  ASSUME PoolInit
  PROVE  PoolInv
<1> USE PoolAssumption
<1>1. Resident = {} /\ Len(freeList) = Frames
  BY DEF PoolInit, Resident
<1>2. PoolTypeOK
  <2>1. EmptyFrame \in FrameType
    BY DEF EmptyFrame, FrameType
  <2>2. \A i \in 1 .. Frames : Frames - i \in FrameIds
    BY DEF FrameIds
  <2>3. freeList \in Seq(FrameIds)
    BY <2>2 DEF PoolInit
  <2>4. pageTable \in [Resident -> FrameIds]
    BY <1>1 DEF PoolInit, Resident
  <2>5. frames \in [FrameIds -> FrameType] /\ hand \in FrameIds
    BY <2>1 DEF PoolInit, FrameIds
  <2> QED BY <1>1, <2>3, <2>4, <2>5 DEF PoolTypeOK, PoolInit
<1>3. TableMatchesFrames
  <2>1. \A f \in FrameIds : f = freeList[Frames - f] /\ Frames - f \in 1 .. Frames
    BY DEF PoolInit, FrameIds
  <2>2. FrameIds \subseteq Free
    BY <1>1, <2>1 DEF Free
  <2> QED BY <1>1, <2>2 DEF TableMatchesFrames, PoolInit
<1> QED BY <1>1, <1>2, <1>3 DEF PoolInv, CleanIsStored, NoWriteLost, PoolInit

\* Every step of the pool keeps the invariant.
LEMMA PoolStep ==
  ASSUME PoolInv, [PoolNext]_poolVars
  PROVE  PoolInv'
<1>1. ASSUME NEW p \in PoolPages, NEW d \in Contents, Install(p, d)
      PROVE  PoolInv'
  <2>1. CASE InstallResident(p, d)
    <3> DEFINE g == [FrameOf(p) EXCEPT !.data = d, !.dirty = TRUE, !.referenced = TRUE]
    <3>1. p \in Resident /\ g \in FrameType /\ g.page = p /\ g.data = d /\ g.dirty
      <4>1. p \in Resident /\ FrameOf(p) \in FrameType /\ FrameOf(p).page = p
        BY <2>1 DEF InstallResident, PoolInv, PoolTypeOK, TableMatchesFrames, FrameOf
      <4> QED BY <4>1, ChangedFrames
    <3>2. /\ frames' = [frames EXCEPT ![pageTable[p]] = g]
          /\ UNCHANGED <<pageTable, freeList, hand, store>> /\ refused' = FALSE
          /\ newest' = [newest EXCEPT ![p] = d]
      BY <1>1, <2>1 DEF Install, InstallResident, FrameOf
    <3> HIDE DEF g
    <3> QED BY <3>1, <3>2, ResidentPageChanges DEF PoolInv, PoolTypeOK
  <2>2. CASE InstallFree(p, d)
    BY <1>1, <2>2, InstallFreeKeeps DEF Install
  <2>3. CASE InstallEvicting(p, d)
    BY <1>1, <2>3, InstallEvictingKeeps DEF Install
  <2> QED BY <1>1, <2>1, <2>2, <2>3 DEF Install
<1>2. ASSUME NEW p \in PoolPages, NEW d \in Contents, PinMut(p, d)
      PROVE  PoolInv'
  <2> DEFINE g == Rewritten(FrameOf(p), d)
  <2>1. p \in Resident /\ g \in FrameType /\ g.page = p /\ g.data = d /\ g.dirty
    <3>1. p \in Resident /\ FrameOf(p) \in FrameType /\ FrameOf(p).page = p
      BY <1>2 DEF PinMut, PoolInv, PoolTypeOK, TableMatchesFrames, FrameOf
    <3> QED BY <3>1, ChangedFrames
  <2>2. /\ frames' = [frames EXCEPT ![pageTable[p]] = g]
        /\ UNCHANGED <<pageTable, freeList, hand, store>> /\ refused' = FALSE
        /\ newest' = [newest EXCEPT ![p] = d]
    BY <1>2 DEF PinMut, FrameOf
  <2> HIDE DEF g
  <2> QED BY <2>1, <2>2, ResidentPageChanges DEF PoolInv, PoolTypeOK
<1>3. ASSUME NEW p \in PoolPages, InstallRefused(p)
      PROVE  PoolInv'
  <2>1. /\ frames' = Swept(2 * Frames) /\ refused' = TRUE
        /\ UNCHANGED <<pageTable, freeList, hand, store, newest>>
    BY <1>3 DEF InstallRefused
  <2>2. /\ frames' \in [FrameIds -> FrameType]
        /\ \A f \in FrameIds : /\ frames'[f].page = frames[f].page
                               /\ frames'[f].data = frames[f].data
                               /\ frames'[f].dirty = frames[f].dirty
    BY <2>1, SweptFrames, PoolAssumption DEF PoolInv
  <2>3. PoolTypeOK'
    BY <2>1, <2>2 DEF PoolInv, PoolTypeOK, Resident
  <2>4. TableMatchesFrames'
    BY <2>1, <2>2 DEF PoolInv, PoolTypeOK, TableMatchesFrames, FrameOf, Resident, Free
  <2>5. CleanIsStored'
    BY <2>1, <2>2 DEF PoolInv, PoolTypeOK, CleanIsStored, FrameOf, Resident
  <2>6. NoWriteLost'
    BY <2>1, <2>2 DEF PoolInv, PoolTypeOK, NoWriteLost, FrameOf, Resident
  <2> QED BY <2>3, <2>4, <2>5, <2>6 DEF PoolInv
<1>4. ASSUME NEW p \in PoolPages, FaultIn(p)
      PROVE  PoolInv'
  <2>1. store[p] = newest[p] /\ store[p] \in Contents /\ newest' = [newest EXCEPT ![p] = store[p]]
    BY <1>4 DEF FaultIn, PoolInv, PoolTypeOK, NoWriteLost
  <2> QED BY <1>4, <2>1, InstallFreeKeeps, InstallEvictingKeeps DEF FaultIn
<1>5. ASSUME NEW p \in PoolPages, Pin(p) \/ Unpin(p) \/ MarkDirty(p)
      PROVE  PoolInv'
  <2>1. p \in Resident /\ FrameOf(p) \in FrameType
    BY <1>5 DEF Pin, Unpin, MarkDirty, PoolInv, PoolTypeOK, FrameOf
  <2>2. \E g \in FrameType :
          /\ frames' = [frames EXCEPT ![pageTable[p]] = g]
          /\ g.page = FrameOf(p).page /\ g.data = FrameOf(p).data
          /\ FrameOf(p).dirty => g.dirty
    <3>1. CASE Pin(p)
      <4> DEFINE g == Touched(FrameOf(p))
      <4>1. frames' = [frames EXCEPT ![pageTable[p]] = g]
        BY <3>1 DEF Pin, FrameOf
      <4>2. g \in FrameType /\ g.page = FrameOf(p).page /\ g.data = FrameOf(p).data
            /\ (FrameOf(p).dirty => g.dirty)
        <5>1. Contents # {}
          BY <2>1 DEF PoolInv, PoolTypeOK, Resident
        <5> QED BY <2>1, <5>1, ChangedFrames
      <4> QED BY <4>1, <4>2
    <3>2. CASE Unpin(p)
      <4> DEFINE g == Released(FrameOf(p))
      <4>1. frames' = [frames EXCEPT ![pageTable[p]] = g]
        BY <3>2 DEF Unpin, FrameOf
      <4>2. g \in FrameType /\ g.page = FrameOf(p).page /\ g.data = FrameOf(p).data
            /\ (FrameOf(p).dirty => g.dirty)
        BY <2>1, <3>2 DEF Unpin, Released, FrameType
      <4> QED BY <4>1, <4>2
    <3>3. CASE MarkDirty(p)
      <4> DEFINE g == [FrameOf(p) EXCEPT !.dirty = TRUE]
      <4>1. frames' = [frames EXCEPT ![pageTable[p]] = g]
        BY <3>3 DEF MarkDirty, FrameOf
      <4>2. g \in FrameType /\ g.page = FrameOf(p).page /\ g.data = FrameOf(p).data
            /\ (FrameOf(p).dirty => g.dirty)
        BY <2>1 DEF FrameType
      <4> QED BY <4>1, <4>2
    <3> QED BY <1>5, <3>1, <3>2, <3>3
  <2>3. UNCHANGED <<pageTable, freeList, hand, store, newest>> /\ refused' = FALSE
    BY <1>5 DEF Pin, Unpin, MarkDirty
  <2>4. /\ FrameOf(p).page = p /\ newest[p] = FrameOf(p).data
        /\ ~FrameOf(p).dirty => store[p] = FrameOf(p).data
    BY <2>1 DEF PoolInv, PoolTypeOK, TableMatchesFrames, CleanIsStored, NoWriteLost
  <2>5. store' \in [PoolPages -> Contents] /\ newest' \in [PoolPages -> Contents]
    BY <2>3 DEF PoolInv, PoolTypeOK
  <2> QED BY <2>1, <2>2, <2>3, <2>4, <2>5, ResidentPageChanges
<1>6. ASSUME NEW p \in PoolPages, Flush(p)
      PROVE  PoolInv'
  <2> DEFINE g == [FrameOf(p) EXCEPT !.dirty = FALSE]
  <2>1. /\ p \in Resident /\ newest[p] = FrameOf(p).data /\ newest[p] \in Contents
        /\ g \in FrameType /\ g.page = p /\ g.data = newest[p]
    <3>1. p \in Resident /\ newest[p] = FrameOf(p).data /\ newest[p] \in Contents
      BY <1>6 DEF Flush, PoolInv, PoolTypeOK, NoWriteLost
    <3>2. FrameOf(p) \in FrameType /\ FrameOf(p).page = p
      BY <3>1 DEF PoolInv, PoolTypeOK, TableMatchesFrames, FrameOf
    <3>3. g \in FrameType /\ g.page = FrameOf(p).page /\ g.data = FrameOf(p).data
      BY <3>2 DEF FrameType
    <3> QED BY <3>1, <3>2, <3>3
  <2>2. /\ frames' = [frames EXCEPT ![pageTable[p]] = g]
        /\ store' = [store EXCEPT ![p] = newest[p]]
        /\ UNCHANGED <<pageTable, freeList, hand, newest>> /\ refused' = FALSE
    BY <1>6, <2>1 DEF Flush, FrameOf
  <2> HIDE DEF g
  <2> QED BY <2>1, <2>2, ResidentPageChanges DEF PoolInv, PoolTypeOK
<1>7. CASE UNCHANGED poolVars
  BY <1>7 DEF poolVars, PoolInv, PoolTypeOK, TableMatchesFrames, CleanIsStored, NoWriteLost,
              Resident, FrameOf, Free
<1> QED BY <1>1, <1>2, <1>3, <1>4, <1>5, <1>6, <1>7 DEF PoolNext

\* The pool's invariant holds throughout: the page table, the free list and the
\* frames agree, and a clean page is as the store has it.
THEOREM PoolInvariant == PoolSpec => []PoolInv
<1>1. PoolInit => PoolInv
  BY PoolInitially
<1>2. PoolInv /\ [PoolNext]_poolVars => PoolInv'
  BY PoolStep
<1> QED BY <1>1, <1>2, PTL DEF PoolSpec

\* For any number of frames: what was last put into a page is in its frame, or
\* in the store if the page was evicted (src/src/bufferpool.rs, acquire_frame).
THEOREM WritesKept == PoolSpec => []NoWriteLost
<1>1. PoolInv => NoWriteLost
  BY DEF PoolInv
<1> QED BY <1>1, PoolInvariant, PTL

\* For any number of frames: no step evicts a pinned page, and an install is
\* refused only when every frame is pinned (src/src/bufferpool.rs,
\* choose_victim).
THEOREM PinnedPagesStay == PoolSpec => PinsRespected
<1> DEFINE Respects == /\ \A p \in Resident : FrameOf(p).pins > 0 => p \in Resident'
                       /\ refused' => \A f \in FrameIds : frames[f].pins > 0
<1>1. ASSUME PoolInv, PoolNext
      PROVE  Respects
  <2>1. \A p \in Resident : FrameOf(p).pins > 0 => p \in Resident'
    <3> SUFFICES ASSUME NEW q \in Resident, FrameOf(q).pins > 0
                 PROVE  q \in Resident'
      OBVIOUS
    <3>1. ASSUME NEW p \in PoolPages, NEW d, InstallEvicting(p, d)
          PROVE  q \in Resident'
      <4> DEFINE f == Under(Min(Sweep))
      <4>1. pageTable' = WithEntry(Unmapped(frames[f]), p, f)
        BY <3>1 DEF InstallEvicting
      <4>2. f \in FrameIds /\ frames[f].pins = 0
        BY <1>1, <3>1, VictimIsUnpinned DEF InstallEvicting, PoolInv
      <4> HIDE DEF f
      <4>3. frames[f].page # q
        <5>1. freeList = <<>> /\ Free = {}
          BY <3>1 DEF InstallEvicting, Free
        <5>2. frames[f].page \in Resident /\ FrameOf(frames[f].page) = frames[f]
          BY <1>1, <4>2, <5>1 DEF PoolInv, TableMatchesFrames, FrameOf
        <5> QED BY <4>2, <5>2
      <4> QED BY <4>1, <4>3 DEF WithEntry, Unmapped, Restrict, Resident
    <3>2. ASSUME NEW p \in PoolPages, NEW d, InstallFree(p, d)
          PROVE  q \in Resident'
      BY <3>2 DEF InstallFree, WithEntry, Resident
    <3>3. CASE UNCHANGED pageTable
      BY <3>3 DEF Resident
    <3> QED
      BY <1>1, <3>1, <3>2, <3>3
      DEF PoolNext, Install, InstallResident, PinMut, InstallRefused, FaultIn, Pin, Unpin,
          MarkDirty, Flush
  <2>2. ASSUME refused', NEW f \in FrameIds
        PROVE  frames[f].pins > 0
    <3>1. \E p \in PoolPages : InstallRefused(p)
      BY <1>1, <2>2
      DEF PoolNext, Install, InstallResident, InstallFree, InstallEvicting, PinMut, FaultIn,
          Pin, Unpin, MarkDirty, Flush
    <3>2. Sweep = {}
      BY <3>1 DEF InstallRefused
    <3> QED BY <1>1, <3>2, NothingEvictableAllPinned DEF PoolInv
  <2> QED BY <2>1, <2>2
<1>2. PoolInv /\ [PoolNext]_poolVars => [Respects]_poolVars
  BY <1>1
<1>3. PoolSpec => [][Respects]_poolVars
  BY <1>2, PoolInvariant, PTL DEF PoolSpec
<1> QED BY <1>3 DEF PinsRespected

-----------------------------------------------------------------------------
(* The threaded list of the LRU cache.                                     *)

NodeRec == [key : Keys, item : Items, prev : Nat, next : Nat]
Slab == Seq(NodeRec \cup {NoNode})

\* A list is its nodes and its two ends.
IsList(l) == l = [nodes |-> l.nodes, head |-> l.head, tail |-> l.tail] /\ l.nodes \in Slab

\* The q-th of m slots in order, Nil before the first and behind the last.
At(o, m, q) == IF q \in 1 .. m THEN o[q] ELSE Nil

\* The list leads through the m slots of o in order, forth and back.
Threads(l, o, m) ==
  /\ m \in Nat /\ o \in [1 .. m -> 1 .. Len(l.nodes)]
  /\ \A p, q \in 1 .. m : o[p] = o[q] => p = q
  /\ l.head = At(o, m, 1) /\ l.tail = At(o, m, m)
  /\ \A q \in 1 .. m : /\ l.nodes[o[q]] \in NodeRec
                       /\ l.nodes[o[q]].prev = At(o, m, q - 1)
                       /\ l.nodes[o[q]].next = At(o, m, q + 1)

\* The order without its p-th slot, and with slot i in front.
Without(o, m, p) == [q \in 1 .. m - 1 |-> IF q < p THEN o[q] ELSE o[q + 1]]
Ahead(o, m, i) == [q \in 1 .. m + 1 |-> IF q = 1 THEN i ELSE o[q - 1]]

\* Relinking leaves what a node stores.
SameData(l, r) ==
  /\ Len(r.nodes) = Len(l.nodes)
  /\ \A s \in 1 .. Len(l.nodes) : l.nodes[s] \in NodeRec =>
       /\ r.nodes[s] \in NodeRec
       /\ r.nodes[s].key = l.nodes[s].key /\ r.nodes[s].item = l.nodes[s].item

\* r is list l with the link forth of a slot, or the head, leading elsewhere.
LinksForth(l, slot, to, r) ==
  /\ IsList(r) /\ SameData(l, r)
  /\ r.head = (IF slot = Nil THEN to ELSE l.head) /\ r.tail = l.tail
  /\ \A s \in 1 .. Len(l.nodes) : s # slot => r.nodes[s] = l.nodes[s]
  /\ slot # Nil => r.nodes[slot].next = to /\ r.nodes[slot].prev = l.nodes[slot].prev

\* The same of the link back, or the tail.
LinksBack(l, slot, to, r) ==
  /\ IsList(r) /\ SameData(l, r)
  /\ r.tail = (IF slot = Nil THEN to ELSE l.tail) /\ r.head = l.head
  /\ \A s \in 1 .. Len(l.nodes) : s # slot => r.nodes[s] = l.nodes[s]
  /\ slot # Nil => r.nodes[slot].prev = to /\ r.nodes[slot].next = l.nodes[slot].next

\* A link of a node led elsewhere.
LEMMA RelinkedNode ==
  ASSUME NEW n \in NodeRec, NEW to \in Nat
  PROVE  /\ [n EXCEPT !["next"] = to] \in NodeRec /\ [n EXCEPT !["prev"] = to] \in NodeRec
         /\ [n EXCEPT !["next"] = to].key = n.key /\ [n EXCEPT !["prev"] = to].key = n.key
         /\ [n EXCEPT !["next"] = to].item = n.item /\ [n EXCEPT !["prev"] = to].item = n.item
         /\ [n EXCEPT !["next"] = to].prev = n.prev /\ [n EXCEPT !["prev"] = to].prev = to
         /\ [n EXCEPT !["next"] = to].next = to /\ [n EXCEPT !["prev"] = to].next = n.next
BY DEF NodeRec

\* A slab with one node changed.
LEMMA ChangedSlab ==
  ASSUME NEW s \in Slab, NEW i \in 1 .. Len(s), NEW n \in NodeRec \cup {NoNode}
  PROVE  /\ [s EXCEPT ![i] = n] \in Slab /\ Len([s EXCEPT ![i] = n]) = Len(s)
         /\ \A j \in 1 .. Len(s) : [s EXCEPT ![i] = n][j] = IF j = i THEN n ELSE s[j]
BY ExceptSeq DEF Slab

\* Linked leads the link forth, or the head, elsewhere.
LEMMA LinkedNext ==
  ASSUME NEW l, IsList(l), NEW slot \in Nat, NEW to \in Nat,
         slot # Nil => slot \in 1 .. Len(l.nodes) /\ l.nodes[slot] \in NodeRec,
         NEW r, r = Linked(l, slot, "next", "head", to)
  PROVE  LinksForth(l, slot, to, r)
<1> USE DEF LinksForth
<1> DEFINE node == [l.nodes[slot] EXCEPT !["next"] = to]
           changed == [l.nodes EXCEPT ![slot] = node]
<1>1. CASE slot = Nil
  <2>1. r = [nodes |-> l.nodes, head |-> to, tail |-> l.tail]
    BY <1>1 DEF IsList, Linked
  <2> QED BY <1>1, <2>1 DEF IsList, SameData, Nil
<1>2. CASE slot # Nil
  <2>1. r = [nodes |-> changed, head |-> l.head, tail |-> l.tail]
    BY <1>2 DEF IsList, Linked
  <2>2. /\ node \in NodeRec /\ node.key = l.nodes[slot].key /\ node.item = l.nodes[slot].item
        /\ node.prev = l.nodes[slot].prev /\ node.next = to
    BY <1>2, RelinkedNode
  <2> HIDE DEF node
  <2>3. /\ changed \in Slab /\ Len(changed) = Len(l.nodes)
        /\ \A j \in 1 .. Len(l.nodes) : changed[j] = IF j = slot THEN node ELSE l.nodes[j]
    BY <1>2, <2>2, ChangedSlab DEF IsList
  <2> HIDE DEF changed
  <2> QED BY <1>2, <2>1, <2>2, <2>3 DEF IsList, SameData
<1> QED BY <1>1, <1>2

\* Linked leads the link back, or the tail, elsewhere.
LEMMA LinkedPrev ==
  ASSUME NEW l, IsList(l), NEW slot \in Nat, NEW to \in Nat,
         slot # Nil => slot \in 1 .. Len(l.nodes) /\ l.nodes[slot] \in NodeRec,
         NEW r, r = Linked(l, slot, "prev", "tail", to)
  PROVE  LinksBack(l, slot, to, r)
<1> USE DEF LinksBack
<1> DEFINE node == [l.nodes[slot] EXCEPT !["prev"] = to]
           changed == [l.nodes EXCEPT ![slot] = node]
<1>1. CASE slot = Nil
  <2>1. r = [nodes |-> l.nodes, head |-> l.head, tail |-> to]
    BY <1>1 DEF IsList, Linked
  <2> QED BY <1>1, <2>1 DEF IsList, SameData, Nil
<1>2. CASE slot # Nil
  <2>1. r = [nodes |-> changed, head |-> l.head, tail |-> l.tail]
    BY <1>2 DEF IsList, Linked
  <2>2. /\ node \in NodeRec /\ node.key = l.nodes[slot].key /\ node.item = l.nodes[slot].item
        /\ node.next = l.nodes[slot].next /\ node.prev = to
    BY <1>2, RelinkedNode
  <2> HIDE DEF node
  <2>3. /\ changed \in Slab /\ Len(changed) = Len(l.nodes)
        /\ \A j \in 1 .. Len(l.nodes) : changed[j] = IF j = slot THEN node ELSE l.nodes[j]
    BY <1>2, <2>2, ChangedSlab DEF IsList
  <2> HIDE DEF changed
  <2> QED BY <1>2, <2>1, <2>2, <2>3 DEF IsList, SameData
<1> QED BY <1>1, <1>2

\* detach takes its node out of the order.
LEMMA DetachThreads ==
  ASSUME NEW l, IsList(l), NEW o, NEW m, Threads(l, o, m), NEW p \in 1 .. m,
         NEW r, r = Detached(l, o[p])
  PROVE  /\ IsList(r) /\ SameData(l, r) /\ Threads(r, Without(o, m, p), m - 1)
         /\ r.nodes[o[p]] \in NodeRec
<1> DEFINE i == o[p]
           prev == At(o, m, p - 1)
           next == At(o, m, p + 1)
           w == Without(o, m, p)
<1>1. /\ m \in Nat /\ m >= 1 /\ o \in [1 .. m -> 1 .. Len(l.nodes)] /\ Len(l.nodes) \in Nat
      /\ \A a, b \in 1 .. m : o[a] = o[b] => a = b
      /\ \A q \in 1 .. m : /\ l.nodes[o[q]] \in NodeRec
                           /\ l.nodes[o[q]].prev = At(o, m, q - 1)
                           /\ l.nodes[o[q]].next = At(o, m, q + 1)
      /\ l.head = At(o, m, 1) /\ l.tail = At(o, m, m)
  BY LenProperties DEF Threads, IsList, Slab
<1>2. PICK k : k = Linked(l, prev, "next", "head", next)
  OBVIOUS
<1>3. r = Linked(k, next, "prev", "tail", prev)
  BY <1>1, <1>2 DEF Detached
<1>4. /\ prev \in Nat /\ next \in Nat
      /\ prev # Nil => p - 1 \in 1 .. m /\ prev = o[p - 1] /\ prev \in 1 .. Len(l.nodes)
      /\ next # Nil => p + 1 \in 1 .. m /\ next = o[p + 1] /\ next \in 1 .. Len(l.nodes)
      /\ p = 1 => prev = Nil
      /\ p # 1 => prev # Nil
      /\ p = m => next = Nil
      /\ p # m => next # Nil
  <2>1. \A q \in 1 .. m : o[q] \in 1 .. Len(l.nodes) /\ o[q] # 0 /\ o[q] \in Nat
    BY <1>1
  <2> QED BY <1>1, <2>1 DEF At, Nil
<1> HIDE DEF prev, next
<1>5. /\ IsList(k) /\ SameData(l, k)
      /\ k.head = (IF prev = Nil THEN next ELSE l.head) /\ k.tail = l.tail
      /\ \A s \in 1 .. Len(l.nodes) : s # prev => k.nodes[s] = l.nodes[s]
      /\ prev # Nil => k.nodes[prev].next = next /\ k.nodes[prev].prev = l.nodes[prev].prev
  <2>1. prev # Nil => prev \in 1 .. Len(l.nodes) /\ l.nodes[prev] \in NodeRec
    BY <1>1, <1>4
  <2>2. prev \in Nat /\ next \in Nat
    BY <1>4
  <2>3. LinksForth(l, prev, next, k)
    BY <2>1, <2>2, <1>2, LinkedNext
  <2> QED BY <2>3 DEF LinksForth
<1>6. next # Nil => next \in 1 .. Len(k.nodes) /\ k.nodes[next] \in NodeRec
  BY <1>1, <1>4, <1>5 DEF SameData
<1>7. /\ IsList(r) /\ SameData(k, r)
      /\ r.tail = (IF next = Nil THEN prev ELSE k.tail) /\ r.head = k.head
      /\ \A s \in 1 .. Len(k.nodes) : s # next => r.nodes[s] = k.nodes[s]
      /\ next # Nil => r.nodes[next].prev = prev /\ r.nodes[next].next = k.nodes[next].next
  <2>1. prev \in Nat /\ next \in Nat /\ IsList(k)
    BY <1>4, <1>5
  <2>2. LinksBack(k, next, prev, r)
    BY <2>1, <1>3, <1>6, LinkedPrev
  <2> QED BY <2>2 DEF LinksBack
<1>8. SameData(l, r)
  BY <1>5, <1>7 DEF SameData
<1>9. \A q \in 1 .. m : r.nodes[o[q]] \in NodeRec
  BY <1>1, <1>8 DEF SameData
<1>10. ASSUME NEW q \in 1 .. m, q # p
       PROVE  /\ r.nodes[o[q]].prev = IF q = p + 1 THEN prev ELSE At(o, m, q - 1)
              /\ r.nodes[o[q]].next = IF q = p - 1 THEN next ELSE At(o, m, q + 1)
  <2>1. o[q] \in 1 .. Len(l.nodes) /\ o[q] \in 1 .. Len(k.nodes)
    BY <1>1, <1>5 DEF SameData
  <2>2. (o[q] = prev /\ prev # Nil) <=> q = p - 1
    <3>1. q = p - 1 => prev # Nil
      BY <1>1, <1>4
    <3>2. prev # Nil => (o[q] = o[p - 1] <=> q = p - 1)
      BY <1>1, <1>4
    <3> QED BY <1>4, <3>1, <3>2
  <2>3. (o[q] = next /\ next # Nil) <=> q = p + 1
    <3>1. q = p + 1 => next # Nil
      BY <1>1, <1>4
    <3>2. next # Nil => (o[q] = o[p + 1] <=> q = p + 1)
      BY <1>1, <1>4
    <3> QED BY <1>4, <3>1, <3>2
  <2>4. o[q] # Nil
    BY <2>1 DEF Nil
  <2>5. l.nodes[o[q]].prev = At(o, m, q - 1) /\ l.nodes[o[q]].next = At(o, m, q + 1)
    BY <1>1
  <2>6. k.nodes[o[q]].prev = l.nodes[o[q]].prev
        /\ k.nodes[o[q]].next = IF q = p - 1 THEN next ELSE l.nodes[o[q]].next
    BY <1>5, <2>1, <2>2, <2>4
  <2>7. r.nodes[o[q]].next = k.nodes[o[q]].next
        /\ r.nodes[o[q]].prev = IF q = p + 1 THEN prev ELSE k.nodes[o[q]].prev
    BY <1>7, <2>1, <2>3, <2>4
  <2> QED BY <2>5, <2>6, <2>7
<1>11. /\ m - 1 \in Nat
       /\ \A q \in 1 .. m - 1 : /\ q < p => w[q] = o[q] /\ q \in 1 .. m /\ q # p
                                /\ q >= p => w[q] = o[q + 1] /\ q + 1 \in 1 .. m /\ q + 1 # p
  BY <1>1 DEF Without
<1>12. w \in [1 .. m - 1 -> 1 .. Len(r.nodes)]
  <2>1. w = [q \in 1 .. m - 1 |-> w[q]]
    BY DEF Without
  <2> HIDE DEF w
  <2>2. \A q \in 1 .. m - 1 : w[q] \in 1 .. Len(r.nodes)
    <3>1. Len(r.nodes) = Len(l.nodes)
      BY <1>8 DEF SameData
    <3>2. \A q \in 1 .. m : o[q] \in 1 .. Len(r.nodes)
      BY <1>1, <3>1
    <3>3. ASSUME NEW q \in 1 .. m - 1 PROVE w[q] \in 1 .. Len(r.nodes)
      <4>1. q < p \/ q >= p
        BY <1>1
      <4> QED BY <1>11, <3>2, <4>1
    <3> QED BY <3>3
  <2> QED BY <2>1, <2>2
<1>13. \A a, b \in 1 .. m - 1 : w[a] = w[b] => a = b
  <2> HIDE DEF w
  <2> SUFFICES ASSUME NEW a \in 1 .. m - 1, NEW b \in 1 .. m - 1, w[a] = w[b] PROVE a = b
    OBVIOUS
  <2> DEFINE up(q) == IF q < p THEN q ELSE q + 1
  <2>1. w[a] = o[up(a)] /\ w[b] = o[up(b)] /\ up(a) \in 1 .. m /\ up(b) \in 1 .. m
    BY <1>11
  <2>2. up(a) = up(b)
    BY <1>1, <2>1
  <2> QED BY <2>2
<1>14. \A q \in 0 .. m : At(w, m - 1, q) = IF q < p THEN At(o, m, q) ELSE At(o, m, q + 1)
  <2> HIDE DEF w
  <2> SUFFICES ASSUME NEW q \in 0 .. m
               PROVE  At(w, m - 1, q) = IF q < p THEN At(o, m, q) ELSE At(o, m, q + 1)
    OBVIOUS
  <2>1. CASE q \in 1 .. m - 1
    BY <1>11, <2>1 DEF At
  <2>2. CASE q = 0
    BY <1>1, <2>2 DEF At
  <2>3. CASE q = m
    BY <1>1, <2>3 DEF At
  <2>4. q \in 1 .. m - 1 \/ q = 0 \/ q = m
    BY <1>1
  <2> QED BY <2>1, <2>2, <2>3, <2>4
<1> HIDE DEF w
<1>15. r.head = At(w, m - 1, 1) /\ r.tail = At(w, m - 1, m - 1)
  <2>1. r.head = IF prev = Nil THEN next ELSE At(o, m, 1)
    BY <1>1, <1>5, <1>7
  <2>2. r.tail = IF next = Nil THEN prev ELSE At(o, m, m)
    BY <1>1, <1>5, <1>7
  <2>3. At(w, m - 1, 1) = IF p = 1 THEN next ELSE At(o, m, 1)
    <3>1. At(w, m - 1, 1) = IF 1 < p THEN At(o, m, 1) ELSE At(o, m, 2)
      BY <1>1, <1>14
    <3> QED BY <1>1, <3>1 DEF next
  <2>4. At(w, m - 1, m - 1) = IF p = m THEN prev ELSE At(o, m, m)
    <3>1. At(w, m - 1, m - 1) = IF m - 1 < p THEN At(o, m, m - 1) ELSE At(o, m, m - 1 + 1)
      BY <1>1, <1>14
    <3>2. m - 1 + 1 = m /\ (m - 1 < p <=> p = m)
      BY <1>1
    <3> QED BY <3>1, <3>2 DEF prev
  <2> QED BY <1>4, <2>1, <2>2, <2>3, <2>4
<1>16. ASSUME NEW q \in 1 .. m - 1
       PROVE  /\ r.nodes[w[q]] \in NodeRec
              /\ r.nodes[w[q]].prev = At(w, m - 1, q - 1)
              /\ r.nodes[w[q]].next = At(w, m - 1, q + 1)
  <2>1. /\ At(w, m - 1, q - 1) = IF q - 1 < p THEN At(o, m, q - 1) ELSE At(o, m, q)
        /\ At(w, m - 1, q + 1) = IF q + 1 < p THEN At(o, m, q + 1) ELSE At(o, m, q + 2)
    <3>1. q - 1 \in 0 .. m /\ q + 1 \in 0 .. m /\ q - 1 + 1 = q /\ q + 1 + 1 = q + 2
      BY <1>1
    <3> QED BY <1>14, <3>1
  <2>2. CASE q < p
    <3>1. w[q] = o[q] /\ q \in 1 .. m /\ q # p
      BY <1>11, <2>2
    <3>2. /\ r.nodes[o[q]].prev = At(o, m, q - 1)
          /\ r.nodes[o[q]].next = IF q = p - 1 THEN next ELSE At(o, m, q + 1)
      BY <1>10, <2>2, <3>1
    <3>3. q = p - 1 => At(o, m, q + 2) = next
      BY DEF next
    <3> QED BY <1>9, <2>1, <2>2, <3>1, <3>2, <3>3
  <2>3. CASE q >= p
    <3>1. w[q] = o[q + 1] /\ q + 1 \in 1 .. m /\ q + 1 # p
      BY <1>11, <2>3
    <3>2. /\ r.nodes[o[q + 1]].prev = IF q + 1 = p + 1 THEN prev ELSE At(o, m, q + 1 - 1)
          /\ r.nodes[o[q + 1]].next = IF q + 1 = p - 1 THEN next ELSE At(o, m, q + 1 + 1)
      BY <1>10, <3>1
    <3>3. q = p => At(o, m, q - 1) = prev
      BY DEF prev
    <3>4. q + 1 - 1 = q /\ q + 1 + 1 = q + 2
      OBVIOUS
    <3> QED BY <1>9, <2>1, <2>3, <3>1, <3>2, <3>3, <3>4
  <2> QED BY <2>2, <2>3
<1>17. Threads(r, w, m - 1)
  BY <1>11, <1>12, <1>13, <1>15, <1>16 DEF Threads
<1> QED BY <1>7, <1>8, <1>9, <1>17 DEF w

\* push_front puts its node in front of the order.
LEMMA PushThreads ==
  ASSUME NEW l, IsList(l), NEW o, NEW m, Threads(l, o, m),
         NEW i \in 1 .. Len(l.nodes), l.nodes[i] \in NodeRec, \A q \in 1 .. m : o[q] # i,
         NEW r, r = Pushed(l, i)
  PROVE  IsList(r) /\ SameData(l, r) /\ Threads(r, Ahead(o, m, i), m + 1)
<1> DEFINE node == [l.nodes[i] EXCEPT !.prev = Nil, !.next = l.head]
           changed == [l.nodes EXCEPT ![i] = node]
           linked == [l EXCEPT !.nodes[i] = [@ EXCEPT !.prev = Nil, !.next = l.head]]
           a == Ahead(o, m, i)
<1>1. /\ m \in Nat /\ o \in [1 .. m -> 1 .. Len(l.nodes)] /\ Len(l.nodes) \in Nat
      /\ \A p, q \in 1 .. m : o[p] = o[q] => p = q
      /\ \A q \in 1 .. m : /\ l.nodes[o[q]] \in NodeRec
                           /\ l.nodes[o[q]].prev = At(o, m, q - 1)
                           /\ l.nodes[o[q]].next = At(o, m, q + 1)
      /\ l.head = At(o, m, 1) /\ l.tail = At(o, m, m)
  BY LenProperties DEF Threads, IsList, Slab
<1>2. /\ l.head \in Nat /\ l.tail \in Nat /\ i # Nil /\ i \in Nat
      /\ l.head # Nil => m >= 1 /\ l.head = o[1]
      /\ l.head = Nil <=> m = 0
      /\ l.tail = Nil <=> m = 0
  <2>1. \A q \in 1 .. m : o[q] \in Nat /\ o[q] # Nil
    BY <1>1 DEF Nil
  <2>2. m = 0 => l.head = Nil /\ l.tail = Nil
    BY <1>1 DEF At
  <2>3. m # 0 => l.head = o[1] /\ l.tail = o[m] /\ 1 \in 1 .. m /\ m \in 1 .. m /\ m >= 1
    BY <1>1 DEF At
  <2>4. i # Nil /\ i \in Nat /\ Nil \in Nat
    BY DEF Nil
  <2> QED BY <2>1, <2>2, <2>3, <2>4
<1>3. /\ node \in NodeRec /\ node.key = l.nodes[i].key /\ node.item = l.nodes[i].item
      /\ node.prev = Nil /\ node.next = l.head
  BY <1>2 DEF NodeRec, Nil
<1>4. linked = [nodes |-> changed, head |-> l.head, tail |-> l.tail]
  BY DEF IsList
<1> HIDE DEF node
<1>5. /\ changed \in Slab /\ Len(changed) = Len(l.nodes)
      /\ \A j \in 1 .. Len(l.nodes) : changed[j] = IF j = i THEN node ELSE l.nodes[j]
  BY <1>3, ChangedSlab DEF IsList
<1> HIDE DEF changed
<1>6. /\ IsList(linked) /\ SameData(l, linked)
      /\ linked.nodes = changed /\ linked.head = l.head /\ linked.tail = l.tail
  BY <1>3, <1>4, <1>5 DEF IsList, SameData
<1> DEFINE joined == IF l.head = Nil THEN linked ELSE Linked(linked, l.head, "prev", "tail", i)
<1>7. r = [joined EXCEPT !.head = i, !.tail = IF @ = Nil THEN i ELSE @]
  BY DEF Pushed
<1> HIDE DEF linked
<1>8. /\ IsList(joined) /\ SameData(linked, joined) /\ joined.tail = l.tail
      /\ \A s \in 1 .. Len(l.nodes) : s # l.head => joined.nodes[s] = changed[s]
      /\ l.head # Nil => joined.nodes[l.head].prev = i /\ joined.nodes[l.head].next = changed[l.head].next
  <2>1. CASE l.head = Nil
    <3>1. SameData(linked, linked)
      BY DEF SameData
    <3> QED BY <1>6, <2>1, <3>1
  <2>2. CASE l.head # Nil
    <3>1. l.head \in 1 .. Len(linked.nodes) /\ linked.nodes[l.head] \in NodeRec
      BY <1>1, <1>2, <1>3, <1>5, <1>6, <2>2
    <3>2. PICK k : k = Linked(linked, l.head, "prev", "tail", i)
      OBVIOUS
    <3>3. LinksBack(linked, l.head, i, k)
      BY <1>2, <1>6, <3>1, <3>2, LinkedPrev
    <3>4. joined = k
      BY <2>2, <3>2
    <3> HIDE DEF joined
    <3> QED BY <1>5, <1>6, <2>2, <3>3, <3>4 DEF LinksBack
  <2> QED BY <2>1, <2>2
<1> HIDE DEF joined
<1>9. r = [nodes |-> joined.nodes, head |-> i, tail |-> IF l.tail = Nil THEN i ELSE l.tail]
  BY <1>7, <1>8 DEF IsList
<1>10. /\ IsList(r) /\ r.nodes = joined.nodes /\ r.head = i
       /\ r.tail = IF l.tail = Nil THEN i ELSE l.tail
  BY <1>8, <1>9 DEF IsList
<1>11. SameData(l, r)
  BY <1>6, <1>8, <1>10 DEF SameData
<1>12. Len(r.nodes) = Len(l.nodes)
  BY <1>11 DEF SameData
<1>13. /\ m + 1 \in Nat /\ a[1] = i /\ 1 \in 1 .. m + 1
       /\ \A q \in 2 .. m + 1 : a[q] = o[q - 1] /\ q - 1 \in 1 .. m /\ q \in 1 .. m + 1
       /\ \A q \in 1 .. m + 1 : q = 1 \/ q \in 2 .. m + 1
  BY <1>1 DEF Ahead
<1>14. a \in [1 .. m + 1 -> 1 .. Len(r.nodes)]
  <2>1. a = [q \in 1 .. m + 1 |-> a[q]]
    BY DEF Ahead
  <2> HIDE DEF a
  <2>2. \A q \in 1 .. m + 1 : a[q] \in 1 .. Len(r.nodes)
    <3> TAKE q \in 1 .. m + 1
    <3>1. CASE q = 1
      BY <1>12, <1>13, <3>1
    <3>2. CASE q \in 2 .. m + 1
      BY <1>1, <1>12, <1>13, <3>2
    <3> QED BY <1>13, <3>1, <3>2
  <2> QED BY <2>1, <2>2
<1> HIDE DEF a
<1>15. \A p, q \in 1 .. m + 1 : a[p] = a[q] => p = q
  <2> TAKE p, q \in 1 .. m + 1
  <2> HAVE a[p] = a[q]
  <2>1. CASE p \in 2 .. m + 1 /\ q \in 2 .. m + 1
    <3>1. p - 1 = q - 1
      BY <1>1, <1>13, <2>1
    <3> QED BY <2>1, <3>1
  <2>2. CASE p = 1 \/ q = 1
    BY <1>13, <2>2
  <2> QED BY <1>13, <2>1, <2>2
<1>16. \A q \in 0 .. m + 2 : At(a, m + 1, q) = IF q = 0 THEN Nil ELSE IF q = 1 THEN i ELSE At(o, m, q - 1)
  <2> TAKE q \in 0 .. m + 2
  <2>1. CASE q = 0
    BY <2>1 DEF At
  <2>2. CASE q = 1
    BY <1>13, <2>2 DEF At
  <2>3. CASE q \in 2 .. m + 1
    BY <1>13, <2>3 DEF At
  <2>4. CASE q = m + 2
    BY <1>1, <2>4 DEF At
  <2>5. q = 0 \/ q = 1 \/ q \in 2 .. m + 1 \/ q = m + 2
    BY <1>1
  <2> QED BY <2>1, <2>2, <2>3, <2>4, <2>5
<1>17. r.head = At(a, m + 1, 1) /\ r.tail = At(a, m + 1, m + 1)
  <2>1. m + 1 \in 0 .. m + 2 /\ 1 \in 0 .. m + 2 /\ m + 1 - 1 = m /\ m + 1 # 0
        /\ (m + 1 = 1 <=> m = 0)
    BY <1>1
  <2>2. At(a, m + 1, 1) = i
    BY <1>16, <2>1
  <2>3. At(a, m + 1, m + 1) = IF m = 0 THEN i ELSE At(o, m, m)
    <3>1. PICK x : x = m + 1
      OBVIOUS
    <3>2. x \in 0 .. m + 2 /\ x - 1 = m /\ x # 0 /\ (x = 1 <=> m = 0)
      BY <1>1, <3>1
    <3>3. At(a, m + 1, x) = IF x = 0 THEN Nil ELSE IF x = 1 THEN i ELSE At(o, m, x - 1)
      BY <1>16, <3>2
    <3>4. At(a, m + 1, x) = IF m = 0 THEN i ELSE At(o, m, m)
      BY ONLY <3>2, <3>3
    <3> QED BY <3>1, <3>4
  <2> QED BY <1>1, <1>2, <1>10, <2>2, <2>3
<1>18. ASSUME NEW q \in 1 .. m + 1
       PROVE  /\ r.nodes[a[q]] \in NodeRec
              /\ r.nodes[a[q]].prev = At(a, m + 1, q - 1)
              /\ r.nodes[a[q]].next = At(a, m + 1, q + 1)
  <2>1. CASE q = 1
    <3>1. a[q] = i /\ i # l.head
      BY <1>1, <1>2, <1>13, <2>1
    <3>2. r.nodes[i] = node
      BY <1>5, <1>8, <1>10, <3>1
    <3>3. At(a, m + 1, q - 1) = Nil /\ At(a, m + 1, q + 1) = At(o, m, 1)
      <4>1. q - 1 = 0 /\ q + 1 = 2 /\ 0 \in 0 .. m + 2 /\ 2 \in 0 .. m + 2 /\ 2 - 1 = 1
        BY <1>1, <2>1
      <4> QED BY <1>16, <4>1
    <3> QED BY <1>1, <1>3, <3>1, <3>2, <3>3
  <2>2. CASE q \in 2 .. m + 1
    <3>1. /\ a[q] = o[q - 1] /\ q - 1 \in 1 .. m
          /\ q - 1 \in 0 .. m + 2 /\ q + 1 \in 0 .. m + 2
          /\ q - 1 # 0 /\ q + 1 # 0 /\ q + 1 # 1 /\ q + 1 - 1 = q - 1 + 1
          /\ (q - 1 = 1 => q = 2)
      BY <1>1, <1>13, <2>2
    <3>2. /\ At(a, m + 1, q - 1) = IF q - 1 = 1 THEN i ELSE At(o, m, q - 1 - 1)
          /\ At(a, m + 1, q + 1) = At(o, m, q - 1 + 1)
      BY <1>16, <3>1
    <3>3. o[q - 1] # i /\ o[q - 1] \in 1 .. Len(l.nodes) /\ changed[o[q - 1]] = l.nodes[o[q - 1]]
      BY <1>1, <1>5, <3>1
    <3>4. /\ l.nodes[o[q - 1]] \in NodeRec
          /\ l.nodes[o[q - 1]].prev = At(o, m, q - 1 - 1)
          /\ l.nodes[o[q - 1]].next = At(o, m, q - 1 + 1)
      BY <1>1, <3>1
    <3>5. r.nodes[o[q - 1]] \in NodeRec
      BY <1>11, <3>3, <3>4 DEF SameData
    <3>6. CASE q - 1 = 1
      <4>1. l.head = o[q - 1] /\ l.head # Nil
        <5>1. 1 \in 1 .. m /\ m # 0
          BY <1>1, <3>1, <3>6
        <5> QED BY <1>1, <1>2, <3>6, <5>1
      <4> QED BY <1>8, <1>10, <3>1, <3>2, <3>3, <3>4, <3>5, <3>6, <4>1
    <3>7. CASE q - 1 # 1
      <4>1. l.head # o[q - 1]
        <5>1. 1 \in 1 .. m /\ l.head = o[1]
          BY <1>1, <3>1 DEF At
        <5> QED BY <1>1, <3>1, <3>7, <5>1
      <4> QED BY <1>8, <1>10, <3>1, <3>2, <3>3, <3>4, <3>5, <3>7, <4>1
    <3> QED BY <3>6, <3>7
  <2> QED BY <1>13, <2>1, <2>2
<1>19. Threads(r, a, m + 1)
  BY <1>13, <1>14, <1>15, <1>17, <1>18 DEF Threads
<1> QED BY <1>10, <1>11, <1>19 DEF a

-----------------------------------------------------------------------------
(* Sequences as functions.                                                 *)

\* A function on 1 .. n is a sequence.
LEMMA FunctionIsSeq ==
  ASSUME NEW S, NEW n \in Nat, NEW f \in [1 .. n -> S]
  PROVE  f \in Seq(S) /\ Len(f) = n
<1>1. f \in Seq(S)
  BY SeqDef
<1>2. DOMAIN f = 1 .. Len(f) /\ Len(f) \in Nat /\ DOMAIN f = 1 .. n
  BY <1>1, LenProperties
<1> QED BY <1>1, <1>2

\* An element in front.
LEMMA InFront ==
  ASSUME NEW S, NEW n \in Nat, NEW f \in [1 .. n -> S], NEW e \in S
  PROVE  <<e>> \o f = [j \in 1 .. n + 1 |-> IF j = 1 THEN e ELSE f[j - 1]]
<1> DEFINE g == [j \in 1 .. n + 1 |-> IF j = 1 THEN e ELSE f[j - 1]]
<1>1. f \in Seq(S) /\ Len(f) = n
  BY FunctionIsSeq
<1>2. <<e>> \in Seq(S) /\ Len(<<e>>) = 1 /\ <<e>>[1] = e
  OBVIOUS
<1>3. /\ <<e>> \o f \in Seq(S) /\ Len(<<e>> \o f) = 1 + n
      /\ \A i \in 1 .. 1 + n : (<<e>> \o f)[i] = IF i <= 1 THEN e ELSE f[i - 1]
  <2> HIDE DEF g
  <2>1. /\ <<e>> \o f \in Seq(S) /\ Len(<<e>> \o f) = Len(<<e>>) + Len(f)
        /\ \A i \in 1 .. Len(<<e>>) + Len(f) : (<<e>> \o f)[i] =
              IF i <= Len(<<e>>) THEN <<e>>[i] ELSE f[i - Len(<<e>>)]
    BY <1>1, <1>2, ConcatProperties
  <2> QED BY <1>1, <1>2, <2>1
<1>4. g \in [1 .. n + 1 -> S] /\ \A i \in 1 .. n + 1 : g[i] = IF i <= 1 THEN e ELSE f[i - 1]
  OBVIOUS
<1> HIDE DEF g
<1>5. g \in Seq(S) /\ Len(g) = n + 1
  BY <1>4, FunctionIsSeq
<1>6. <<e>> \o f = g
  BY <1>3, <1>4, <1>5, SeqEqual
<1> QED BY <1>6 DEF g

\* An element taken out.
LEMMA TakenOut ==
  ASSUME NEW S, NEW n \in Nat, NEW f \in [1 .. n -> S], NEW p \in 1 .. n
  PROVE  RemoveAt(f, p) = [j \in 1 .. n - 1 |-> IF j < p THEN f[j] ELSE f[j + 1]]
<1> DEFINE g == [j \in 1 .. n - 1 |-> IF j < p THEN f[j] ELSE f[j + 1]]
           a == SubSeq(f, 1, p - 1)
           b == SubSeq(f, p + 1, n)
<1>1. f \in Seq(S) /\ Len(f) = n /\ RemoveAt(f, p) = a \o b
  BY FunctionIsSeq DEF RemoveAt
<1>2. a \in Seq(S) /\ Len(a) = p - 1 /\ \A i \in 1 .. p - 1 : a[i] = f[i]
  <2>1. \A i \in 1 .. p - 1 : f[i] \in S
    OBVIOUS
  <2>2. /\ a \in Seq(S) /\ Len(a) = IF 1 <= p - 1 THEN p - 1 - 1 + 1 ELSE 0
        /\ \A i \in 1 .. p - 1 - 1 + 1 : a[i] = f[1 + i - 1]
    BY <2>1, SubSeqProperties
  <2> HIDE DEF a
  <2> QED BY <2>2
<1>3. b \in Seq(S) /\ Len(b) = n - p /\ \A i \in 1 .. n - p : b[i] = f[p + i]
  <2>1. \A i \in p + 1 .. n : f[i] \in S
    OBVIOUS
  <2>2. /\ b \in Seq(S) /\ Len(b) = IF p + 1 <= n THEN n - (p + 1) + 1 ELSE 0
        /\ \A i \in 1 .. n - (p + 1) + 1 : b[i] = f[p + 1 + i - 1]
    BY <2>1, SubSeqProperties
  <2> HIDE DEF b
  <2> QED BY <2>2
<1> HIDE DEF a, b
<1>4. /\ a \o b \in Seq(S) /\ Len(a \o b) = n - 1
      /\ \A i \in 1 .. n - 1 : (a \o b)[i] = IF i < p THEN f[i] ELSE f[i + 1]
  <2> HIDE DEF g
  <2>1. /\ a \o b \in Seq(S) /\ Len(a \o b) = Len(a) + Len(b)
        /\ \A i \in 1 .. Len(a) + Len(b) : (a \o b)[i] =
              IF i <= Len(a) THEN a[i] ELSE b[i - Len(a)]
    BY <1>2, <1>3, ConcatProperties
  <2>2. Len(a) + Len(b) = n - 1
    BY <1>2, <1>3
  <2>3. ASSUME NEW i \in 1 .. n - 1
        PROVE  (a \o b)[i] = IF i < p THEN f[i] ELSE f[i + 1]
    <3>1. (a \o b)[i] = IF i <= p - 1 THEN a[i] ELSE b[i - (p - 1)]
      BY <1>2, <2>1, <2>2
    <3>2. CASE i < p
      BY <1>2, <3>1, <3>2
    <3>3. CASE i >= p
      <4>1. i - (p - 1) \in 1 .. n - p /\ p + (i - (p - 1)) = i + 1
        BY <3>3
      <4> QED BY <1>3, <3>1, <3>3, <4>1
    <3>4. i < p \/ i >= p
      OBVIOUS
    <3> QED BY ONLY <3>2, <3>3, <3>4
  <2> QED BY <2>1, <2>2, <2>3
<1>5. g \in [1 .. n - 1 -> S] /\ \A i \in 1 .. n - 1 : g[i] = IF i < p THEN f[i] ELSE f[i + 1]
  OBVIOUS
<1> HIDE DEF g
<1>6. g \in Seq(S) /\ Len(g) = n - 1
  BY <1>5, FunctionIsSeq
<1>7. a \o b = g
  BY <1>4, <1>5, <1>6, SeqEqual
<1> QED BY <1>1, <1>7 DEF g

\* The last element left out is the last one taken out.
LEMMA FrontTakesOut ==
  ASSUME NEW S, NEW n \in Nat \ {0}, NEW f \in [1 .. n -> S]
  PROVE  Front(f) = RemoveAt(f, n)
<1>1. f \in Seq(S) /\ Len(f) = n
  BY FunctionIsSeq
<1>2. SubSeq(f, n + 1, n) = <<>>
  BY SubSeqEmpty
<1>3. SubSeq(f, 1, n - 1) \in Seq(S)
  <2>1. \A i \in 1 .. n - 1 : f[i] \in S
    OBVIOUS
  <2> QED BY <2>1, SubSeqProperties
<1> QED BY <1>1, <1>2, <1>3, ConcatEmptySeq DEF Front, RemoveAt

-----------------------------------------------------------------------------
(* The walk along the links.                                               *)

EntryRec == [key : Keys, item : Items]

\* What a slot stores, and what the m slots of o store in order.
Entry(l, i) == [key |-> l.nodes[i].key, item |-> l.nodes[i].item]
Entries(l, o, m) == [q \in 1 .. m |-> Entry(l, o[q])]

\* The walks of k steps from every slot, given those of k - 1 steps.
StepsFrom(l, f, k) ==
  [i \in 0 .. Len(l.nodes) |->
     IF i = Nil \/ k = 0 THEN <<>> ELSE <<Entry(l, i)>> \o f[k - 1][l.nodes[i].next]]

\* f has the walks of up to n steps.
Walks(f, l, n) == f = [k \in 0 .. n |-> StepsFrom(l, f, k)]

\* The walks of k steps depend on those of k - 1 steps.
LEMMA SameSteps ==
  ASSUME NEW l, NEW f, NEW g, NEW k, k # 0 => f[k - 1] = g[k - 1]
  PROVE  StepsFrom(l, f, k) = StepsFrom(l, g, k)
<1>1. CASE k = 0
  BY <1>1 DEF StepsFrom
<1>2. CASE k # 0
  BY <1>2 DEF StepsFrom
<1> QED BY <1>1, <1>2

\* There are walks of any number of steps, by smallest counterexample.
LEMMA WalksExist ==
  ASSUME NEW l, NEW N \in Nat
  PROVE  \E f : Walks(f, l, N)
<1> DEFINE Walked(n) == \E f : Walks(f, l, n)
           Missing == {n \in 0 .. N : ~Walked(n)}
<1> SUFFICES ASSUME Missing # {}
             PROVE  FALSE
  <2>1. N \notin Missing => Walked(N)
    OBVIOUS
  <2> QED BY <2>1
<1>1. Missing \subseteq Nat
  OBVIOUS
<1> DEFINE m == Min(Missing)
<1>2. m \in Missing /\ \A q \in Missing : m <= q
  <2> HIDE DEF Missing
  <2> QED BY <1>1, MinIsIn
<1> HIDE DEF m
<1>3. m \in 0 .. N /\ ~Walked(m)
  BY <1>2
<1>4. \E f : \A k \in 0 .. m - 1 : f[k] = StepsFrom(l, f, k)
  <2>1. CASE m = 0
    BY <2>1
  <2>2. CASE m # 0
    <3>1. m - 1 \in 0 .. N /\ m - 1 \notin Missing
      BY <1>2, <1>3, <2>2
    <3>2. PICK f : Walks(f, l, m - 1)
      BY <3>1
    <3> QED BY <3>2 DEF Walks
  <2> QED BY <2>1, <2>2
<1>5. PICK f : \A k \in 0 .. m - 1 : f[k] = StepsFrom(l, f, k)
  BY <1>4
<1> DEFINE g == [k \in 0 .. m |-> IF k = m THEN StepsFrom(l, f, m) ELSE f[k]]
<1>6. g = [k \in 0 .. m |-> g[k]] /\ g[m] = StepsFrom(l, f, m)
      /\ \A k \in 0 .. m - 1 : g[k] = f[k]
  BY <1>3
<1> HIDE DEF g
<1>7. \A k \in 0 .. m : g[k] = StepsFrom(l, g, k)
  <2> TAKE k \in 0 .. m
  <2>1. k # 0 => f[k - 1] = g[k - 1]
    <3>1. m \in Nat /\ k \in 0 .. m
      BY <1>3
    <3>2. k # 0 => k - 1 \in 0 .. m - 1
      BY ONLY <3>1
    <3> QED BY <1>6, <3>2
  <2>2. StepsFrom(l, f, k) = StepsFrom(l, g, k)
    BY <2>1, SameSteps
  <2>3. CASE k = m
    BY <1>6, <2>2, <2>3
  <2>4. CASE k # m
    <3>1. k \in 0 .. m - 1
      BY <1>3, <2>4
    <3> QED BY <1>5, <1>6, <2>2, <3>1
  <2> QED BY <2>3, <2>4
<1>8. Walks(g, l, m)
  BY <1>6, <1>7 DEF Walks
<1> QED BY <1>3, <1>8

\* There are no more slots in order than slots.
LEMMA ThreadsFit ==
  ASSUME NEW l, IsList(l), NEW o, NEW m, Threads(l, o, m)
  PROVE  m <= Len(l.nodes) /\ Len(l.nodes) \in Nat /\ m \in Nat
<1>1. /\ m \in Nat /\ o \in [1 .. m -> 1 .. Len(l.nodes)] /\ Len(l.nodes) \in Nat
      /\ \A p, q \in 1 .. m : o[p] = o[q] => p = q
  BY LenProperties DEF Threads, IsList, Slab
<1>2. o \in Injection(1 .. m, 1 .. Len(l.nodes))
  BY <1>1 DEF Injection, IsInjective
<1>3. /\ IsFiniteSet(1 .. m) /\ Cardinality(1 .. m) = m
      /\ IsFiniteSet(1 .. Len(l.nodes)) /\ Cardinality(1 .. Len(l.nodes)) = Len(l.nodes)
  <2>1. ASSUME NEW n \in Nat
        PROVE  IsFiniteSet(1 .. n) /\ Cardinality(1 .. n) = n
    <3>1. IsFiniteSet(1 .. n) /\ Cardinality(1 .. n) = IF 1 > n THEN 0 ELSE n - 1 + 1
      BY FS_Interval
    <3> QED BY <3>1
  <2> QED BY <1>1, <2>1
<1> QED BY <1>1, <1>2, <1>3, FS_Injection

\* The entries have their type.
LEMMA EntriesType ==
  ASSUME NEW l, IsList(l), NEW o, NEW m, Threads(l, o, m)
  PROVE  Entries(l, o, m) \in [1 .. m -> EntryRec]
<1>1. \A q \in 1 .. m : l.nodes[o[q]] \in NodeRec
  BY DEF Threads
<1>2. \A q \in 1 .. m : Entry(l, o[q]) \in EntryRec
  BY <1>1 DEF Entry, EntryRec, NodeRec
<1> QED BY <1>2 DEF Entries

\* The walk of enough steps from the p-th slot collects the entries from there.
LEMMA WalkFrom ==
  ASSUME NEW l, IsList(l), NEW o, NEW m, Threads(l, o, m), NEW f,
         Walks(f, l, Len(l.nodes))
  PROVE  \A n \in 0 .. Len(l.nodes), p \in 1 .. m + 1 :
           m + 1 - p <= n =>
             f[n][At(o, m, p)] = [j \in 1 .. m + 1 - p |-> Entry(l, o[p + j - 1])]
<1>1. /\ m \in Nat /\ o \in [1 .. m -> 1 .. Len(l.nodes)] /\ Len(l.nodes) \in Nat
      /\ \A q \in 1 .. m : /\ l.nodes[o[q]] \in NodeRec
                           /\ l.nodes[o[q]].next = At(o, m, q + 1)
  BY LenProperties DEF Threads, IsList, Slab
<1> DEFINE N == Len(l.nodes)
           Rest(p) == [j \in 1 .. m + 1 - p |-> Entry(l, o[p + j - 1])]
           Right(n) == \A p \in 1 .. m + 1 : m + 1 - p <= n => f[n][At(o, m, p)] = Rest(p)
           Wrong == {n \in 0 .. N : ~Right(n)}
<1> SUFFICES ASSUME Wrong # {} PROVE FALSE
  OBVIOUS
<1>2. Wrong \subseteq Nat
  BY <1>1
<1> DEFINE n == Min(Wrong)
<1>3. n \in Wrong /\ \A q \in Wrong : n <= q
  <2> HIDE DEF Wrong
  <2> QED BY <1>2, MinIsIn
<1> HIDE DEF n
<1>4. n \in 0 .. N /\ ~Right(n)
  BY <1>3
<1>5. f[n] = StepsFrom(l, f, n)
  BY <1>4 DEF Walks
<1>6. PICK p \in 1 .. m + 1 : m + 1 - p <= n /\ f[n][At(o, m, p)] # Rest(p)
  BY <1>4
<1>7. At(o, m, p) \in 0 .. N
  BY <1>1 DEF At, Nil
<1>8. CASE p = m + 1
  <2>1. At(o, m, p) = Nil
    BY <1>1, <1>8 DEF At
  <2>2. f[n][At(o, m, p)] = <<>>
    BY <1>5, <1>7, <2>1 DEF StepsFrom
  <2>3. Rest(p) = <<>>
    BY <1>1, <1>8
  <2> QED BY <1>6, <2>2, <2>3
<1>9. CASE p # m + 1
  <2>1. p \in 1 .. m /\ p + 1 \in 1 .. m + 1 /\ n # 0 /\ n - 1 \in 0 .. N /\ n \in Nat
        /\ m + 1 - (p + 1) <= n - 1 /\ m + 1 - (p + 1) = m - p /\ m - p \in Nat
    <3>1. m \in Nat /\ N \in Nat /\ n \in 0 .. N /\ p \in 1 .. m + 1 /\ m + 1 - p <= n /\ p # m + 1
      BY <1>1, <1>4, <1>6, <1>9
    <3> QED BY ONLY <3>1
  <2>2. Right(n - 1)
    <3>1. ~(n <= n - 1)
      BY <2>1
    <3>2. n - 1 \notin Wrong
      BY <1>3, <3>1
    <3> QED BY <2>1, <3>2
  <2>3. f[n - 1][At(o, m, p + 1)] = Rest(p + 1)
    BY <2>1, <2>2
  <2>4. At(o, m, p) = o[p] /\ o[p] # Nil /\ l.nodes[o[p]].next = At(o, m, p + 1)
    <3>1. o[p] \in 1 .. N
      BY <1>1, <2>1
    <3> QED BY <1>1, <2>1, <3>1 DEF At, Nil
  <2>5. f[n][At(o, m, p)] = <<Entry(l, o[p])>> \o f[n - 1][At(o, m, p + 1)]
    BY <1>5, <1>7, <2>1, <2>4 DEF StepsFrom
  <2>6. \A q \in 1 .. m : Entry(l, o[q]) \in EntryRec
    BY <1>1 DEF Entry, EntryRec, NodeRec
  <2>7. Rest(p + 1) \in [1 .. m - p -> EntryRec]
    <3>1. \A j \in 1 .. m - p : p + 1 + j - 1 \in 1 .. m
      <4>1. m \in Nat /\ p \in 1 .. m
        BY <1>1, <2>1
      <4> QED BY ONLY <4>1
    <3> QED BY <2>1, <2>6, <3>1
  <2>8. <<Entry(l, o[p])>> \o Rest(p + 1)
          = [j \in 1 .. m - p + 1 |-> IF j = 1 THEN Entry(l, o[p]) ELSE Rest(p + 1)[j - 1]]
    <3>1. Entry(l, o[p]) \in EntryRec
      BY <2>1, <2>6
    <3> HIDE DEF Rest
    <3> QED BY <2>1, <2>7, <3>1, InFront
  <2>9. \A j \in 1 .. m - p + 1 :
          (IF j = 1 THEN Entry(l, o[p]) ELSE Rest(p + 1)[j - 1]) = Entry(l, o[p + j - 1])
    <3> TAKE j \in 1 .. m - p + 1
    <3>1. CASE j = 1
      BY <2>1, <3>1
    <3>2. CASE j # 1
      <4>1. j - 1 \in 1 .. m - p /\ j - 1 \in 1 .. m + 1 - (p + 1) /\ p + 1 + (j - 1) - 1 = p + j - 1
        BY <2>1, <3>2
      <4>2. Rest(p + 1)[j - 1] = Entry(l, o[p + 1 + (j - 1) - 1])
        BY <4>1
      <4>3. Rest(p + 1)[j - 1] = Entry(l, o[p + j - 1])
        BY ONLY <4>1, <4>2
      <4> HIDE DEF Rest
      <4> QED BY <3>2, <4>3
    <3> QED BY <3>1, <3>2
  <2>10. m - p + 1 = m + 1 - p
    BY <1>1, <2>1
  <2>11. <<Entry(l, o[p])>> \o Rest(p + 1) = Rest(p)
    <3>1. <<Entry(l, o[p])>> \o Rest(p + 1) = [j \in 1 .. m - p + 1 |-> Entry(l, o[p + j - 1])]
      <4> HIDE DEF Rest
      <4> QED BY ONLY <2>8, <2>9
    <3> QED BY <2>10, <3>1
  <2> QED BY <1>6, <2>3, <2>5, <2>11
<1> QED BY <1>8, <1>9

\* The walk reads the order of the list.
WalkReads == \A o, m : IsList(List) /\ Threads(List, o, m) => Walk = Entries(List, o, m)

\* It does in every state.
LEMMA WalkRight == WalkReads
<1> SUFFICES ASSUME NEW o, NEW m, IsList(List), Threads(List, o, m)
             PROVE  Walk = Entries(List, o, m)
  BY DEF WalkReads
<1>1. List.nodes = nodes /\ List.head = head
  BY DEF List
<1>2. m <= Len(nodes) /\ Len(nodes) \in Nat /\ m \in Nat
  BY <1>1, ThreadsFit
<1> DEFINE Row(g, n) == [i \in 0 .. Len(nodes) |->
             IF i = Nil \/ n = 0 THEN <<>>
             ELSE <<[key |-> nodes[i].key, item |-> nodes[i].item]>> \o g[n - 1][nodes[i].next]]
           from == CHOOSE g : g = [n \in 0 .. Len(nodes) |-> Row(g, n)]
<1>3. \A g, n : Row(g, n) = StepsFrom(List, g, n)
  BY <1>1 DEF StepsFrom, Entry
<1>4. Walk = from[Len(nodes)][head]
  BY DEF Walk
<1> HIDE DEF Row
<1>5. \E g : g = [n \in 0 .. Len(nodes) |-> Row(g, n)]
  <2>1. PICK g : Walks(g, List, Len(nodes))
    BY <1>2, WalksExist
  <2> QED BY <1>3, <2>1 DEF Walks
<1>6. from = [n \in 0 .. Len(nodes) |-> Row(from, n)]
  BY <1>5
<1> HIDE DEF from
<1>7. Walks(from, List, Len(List.nodes))
  BY <1>1, <1>3, <1>6 DEF Walks
<1>8. from[Len(nodes)][At(o, m, 1)] = [j \in 1 .. m + 1 - 1 |-> Entry(List, o[1 + j - 1])]
  <2>1. Len(nodes) \in 0 .. Len(List.nodes) /\ 1 \in 1 .. m + 1 /\ m + 1 - 1 <= Len(nodes)
    BY <1>1, <1>2
  <2> QED BY <1>7, <2>1, WalkFrom
<1>9. head = At(o, m, 1)
  BY <1>1 DEF Threads
<1>10. m + 1 - 1 = m /\ \A j \in 1 .. m : 1 + j - 1 = j
  BY <1>2
<1> QED BY <1>4, <1>8, <1>9, <1>10 DEF Entries

\* The same of the next state.
LEMMA WalkRightNext == WalkReads'
BY WalkRight, PTL

-----------------------------------------------------------------------------
(* The cache as an order of slots.                                         *)

\* The list threads the m slots of o, the keys map to them one to one, and the
\* free slots are others.
Holding(l, o, m, so, fr) ==
  /\ IsList(l) /\ Threads(l, o, m)
  /\ DOMAIN so \subseteq Keys
  /\ \A q \in 1 .. m : l.nodes[o[q]].key \in DOMAIN so /\ so[l.nodes[o[q]].key] = o[q]
  /\ \A k \in DOMAIN so : \E q \in 1 .. m : so[k] = o[q] /\ l.nodes[o[q]].key = k
  /\ fr \in Seq(1 .. Len(l.nodes))
  /\ \A a, b \in 1 .. Len(fr) : fr[a] = fr[b] => a = b
  /\ \A a \in 1 .. Len(fr), q \in 1 .. m : fr[a] # o[q]

\* What the slots of an order are.
LEMMA ThreadsParts ==
  ASSUME NEW l, IsList(l), NEW o, NEW m, Threads(l, o, m)
  PROVE  /\ m \in Nat /\ o \in [1 .. m -> 1 .. Len(l.nodes)] /\ Len(l.nodes) \in Nat
         /\ \A a, b \in 1 .. m : o[a] = o[b] => a = b
         /\ \A q \in 1 .. m : l.nodes[o[q]] \in NodeRec
BY LenProperties DEF Threads, IsList, Slab

\* w has the slots of o but the p-th.
AllBut(w, o, m, p) ==
  /\ \A q \in 1 .. m - 1 : \E s \in 1 .. m : s # p /\ w[q] = o[s]
  /\ \A s \in 1 .. m : s # p => \E q \in 1 .. m - 1 : w[q] = o[s]

\* The slots of an order without its p-th, and of one with slot i in front.
LEMMA WithoutSlots ==
  ASSUME NEW m \in Nat, NEW o, NEW p \in 1 .. m
  PROVE  AllBut(Without(o, m, p), o, m, p)
<1>1. ASSUME NEW q \in 1 .. m - 1
      PROVE  \E s \in 1 .. m : s # p /\ Without(o, m, p)[q] = o[s]
  <2>1. CASE q < p
    <3>1. q \in 1 .. m /\ q # p /\ Without(o, m, p)[q] = o[q]
      BY <2>1 DEF Without
    <3> QED BY <3>1
  <2>2. CASE q >= p
    <3>1. q + 1 \in 1 .. m /\ q + 1 # p /\ Without(o, m, p)[q] = o[q + 1]
      BY <2>2 DEF Without
    <3> QED BY <3>1
  <2> QED BY <2>1, <2>2
<1>2. ASSUME NEW s \in 1 .. m, s # p
      PROVE  \E q \in 1 .. m - 1 : Without(o, m, p)[q] = o[s]
  <2>1. CASE s < p
    <3>1. s \in 1 .. m - 1 /\ Without(o, m, p)[s] = o[s]
      BY <2>1 DEF Without
    <3> QED BY <3>1
  <2>2. CASE s > p
    <3>1. s - 1 \in 1 .. m - 1 /\ ~(s - 1 < p) /\ s - 1 + 1 = s
      BY <2>2
    <3>2. Without(o, m, p)[s - 1] = o[s]
      BY <3>1 DEF Without
    <3> QED BY <3>1, <3>2
  <2> QED BY <1>2, <2>1, <2>2
<1> QED BY <1>1, <1>2 DEF AllBut

\* An order with slot i in front.
LEMMA AheadSlots ==
  ASSUME NEW m \in Nat, NEW o, NEW i
  PROVE  /\ 1 \in 1 .. m + 1 /\ Ahead(o, m, i)[1] = i
         /\ \A q \in 1 .. m + 1 : q # 1 => q - 1 \in 1 .. m /\ Ahead(o, m, i)[q] = o[q - 1]
         /\ \A s \in 1 .. m : s + 1 \in 1 .. m + 1 /\ Ahead(o, m, i)[s + 1] = o[s]
BY DEF Ahead

\* What the slots of an order store, with one in front and without one.
LEMMA EntriesAhead ==
  ASSUME NEW m \in Nat, NEW o, NEW i, NEW r, NEW E \in [1 .. m -> EntryRec],
         \A q \in 1 .. m : Entry(r, o[q]) = E[q], Entry(r, i) \in EntryRec
  PROVE  Entries(r, Ahead(o, m, i), m + 1) = <<Entry(r, i)>> \o E
<1> DEFINE e == Entry(r, i)
<1>1. <<e>> \o E = [j \in 1 .. m + 1 |-> IF j = 1 THEN e ELSE E[j - 1]]
  BY InFront
<1>2. \A j \in 1 .. m + 1 : Entry(r, Ahead(o, m, i)[j]) = IF j = 1 THEN e ELSE E[j - 1]
  BY AheadSlots
<1> HIDE DEF e
<1>3. Entries(r, Ahead(o, m, i), m + 1) = [j \in 1 .. m + 1 |-> IF j = 1 THEN e ELSE E[j - 1]]
  BY <1>2 DEF Entries
<1> QED BY <1>1, <1>3 DEF e

\* The entries without the p-th.
LEMMA EntriesWithout ==
  ASSUME NEW m \in Nat, NEW o, NEW p \in 1 .. m, NEW r, NEW E \in [1 .. m -> EntryRec],
         \A q \in 1 .. m : q # p => Entry(r, o[q]) = E[q]
  PROVE  Entries(r, Without(o, m, p), m - 1) = RemoveAt(E, p)
<1>1. RemoveAt(E, p) = [j \in 1 .. m - 1 |-> IF j < p THEN E[j] ELSE E[j + 1]]
  BY TakenOut
<1>2. ASSUME NEW j \in 1 .. m - 1
      PROVE  Entry(r, Without(o, m, p)[j]) = IF j < p THEN E[j] ELSE E[j + 1]
  <2>1. CASE j < p
    <3>1. j \in 1 .. m /\ j # p /\ Without(o, m, p)[j] = o[j]
      BY <2>1 DEF Without
    <3> QED BY <2>1, <3>1
  <2>2. CASE j >= p
    <3>1. j + 1 \in 1 .. m /\ j + 1 # p /\ Without(o, m, p)[j] = o[j + 1] /\ ~(j < p)
      BY <2>2 DEF Without
    <3> QED BY <3>1
  <2> QED BY <2>1, <2>2
<1>3. Entries(r, Without(o, m, p), m - 1) = [j \in 1 .. m - 1 |-> IF j < p THEN E[j] ELSE E[j + 1]]
  BY <1>2 DEF Entries
<1> QED BY <1>1, <1>3

\* Relinking leaves the entries.
LEMMA EntriesKept ==
  ASSUME NEW l, NEW r, SameData(l, r), NEW o, NEW m, Threads(l, o, m)
  PROVE  \A q \in 1 .. m : Entry(r, o[q]) = Entries(l, o, m)[q]
<1>1. \A q \in 1 .. m : o[q] \in 1 .. Len(l.nodes) /\ l.nodes[o[q]] \in NodeRec
  BY DEF Threads
<1> QED BY <1>1 DEF SameData, Entry, Entries

\* A node moved to the front of the list is the front of the order.
LEMMA Moved ==
  ASSUME NEW l, NEW o, NEW m, NEW so, NEW fr, Holding(l, o, m, so, fr), NEW p \in 1 .. m,
         NEW r, r = Pushed(Detached(l, o[p]), o[p])
  PROVE  LET n == Ahead(Without(o, m, p), m - 1, o[p])
             E == Entries(l, o, m)
         IN  Holding(r, n, m, so, fr) /\ Entries(r, n, m) = <<E[p]>> \o RemoveAt(E, p)
<1> DEFINE w == Without(o, m, p)
           i == o[p]
           n == Ahead(w, m - 1, i)
           E == Entries(l, o, m)
<1>1. /\ IsList(l) /\ Threads(l, o, m) /\ m \in Nat /\ m - 1 \in Nat /\ m - 1 + 1 = m
      /\ o \in [1 .. m -> 1 .. Len(l.nodes)] /\ Len(l.nodes) \in Nat
      /\ \A a, b \in 1 .. m : o[a] = o[b] => a = b
      /\ \A q \in 1 .. m : l.nodes[o[q]] \in NodeRec
  <2>1. IsList(l) /\ Threads(l, o, m)
    BY DEF Holding
  <2>2. m \in Nat
    BY <2>1, ThreadsParts
  <2>3. m - 1 \in Nat /\ m - 1 + 1 = m
    BY <2>2
  <2> QED BY <2>1, <2>3, ThreadsParts
<1>2. PICK d : d = Detached(l, i)
  OBVIOUS
<1>3. IsList(d) /\ SameData(l, d) /\ Threads(d, w, m - 1) /\ d.nodes[i] \in NodeRec
  BY <1>1, <1>2, DetachThreads
<1>4. i \in 1 .. Len(d.nodes) /\ Len(d.nodes) = Len(l.nodes)
  BY <1>1, <1>3 DEF SameData
<1>5. AllBut(w, o, m, p)
  BY <1>1, WithoutSlots
<1> HIDE DEF w
<1>6. \A q \in 1 .. m - 1 : w[q] # i
  <2> TAKE q \in 1 .. m - 1
  <2>1. PICK s \in 1 .. m : s # p /\ w[q] = o[s]
    BY <1>5 DEF AllBut
  <2> QED BY <1>1, <2>1
<1>7. IsList(r) /\ SameData(d, r) /\ Threads(r, n, m)
  <2>1. IsList(r) /\ SameData(d, r) /\ Threads(r, n, m - 1 + 1)
    BY <1>2, <1>3, <1>4, <1>6, PushThreads
  <2> QED BY <1>1, <2>1
<1>8. SameData(l, r)
  BY <1>3, <1>7 DEF SameData
<1>9. /\ 1 \in 1 .. m /\ n[1] = i
      /\ \A q \in 1 .. m : q # 1 => q - 1 \in 1 .. m - 1 /\ n[q] = w[q - 1]
      /\ \A s \in 1 .. m - 1 : s + 1 \in 1 .. m /\ n[s + 1] = w[s]
  BY <1>1, AheadSlots
<1> HIDE DEF n
<1>10. /\ \A q \in 1 .. m : \E s \in 1 .. m : n[q] = o[s]
       /\ \A s \in 1 .. m : \E q \in 1 .. m : n[q] = o[s]
  <2>1. ASSUME NEW q \in 1 .. m PROVE \E s \in 1 .. m : n[q] = o[s]
    <3>1. CASE q = 1
      BY <1>9, <3>1
    <3>2. CASE q # 1
      BY <1>5, <1>9, <3>2 DEF AllBut
    <3> QED BY <3>1, <3>2
  <2>2. ASSUME NEW s \in 1 .. m PROVE \E q \in 1 .. m : n[q] = o[s]
    <3>1. CASE s = p
      BY <1>9, <3>1
    <3>2. CASE s # p
      <4>1. PICK q \in 1 .. m - 1 : w[q] = o[s]
        BY <1>5, <3>2 DEF AllBut
      <4>2. q + 1 \in 1 .. m /\ n[q + 1] = o[s]
        BY <1>9, <4>1
      <4> QED BY <4>2
    <3> QED BY <3>1, <3>2
  <2> QED BY <2>1, <2>2
<1>11. \A q \in 1 .. m : r.nodes[o[q]].key = l.nodes[o[q]].key
  BY <1>1, <1>8 DEF SameData
<1>12. Holding(r, n, m, so, fr)
  <2>1. \A q \in 1 .. m : r.nodes[n[q]].key \in DOMAIN so /\ so[r.nodes[n[q]].key] = n[q]
    <3> TAKE q \in 1 .. m
    <3>1. PICK s \in 1 .. m : n[q] = o[s]
      BY <1>10
    <3>2. l.nodes[o[s]].key \in DOMAIN so /\ so[l.nodes[o[s]].key] = o[s]
      BY DEF Holding
    <3> QED BY <1>11, <3>1, <3>2
  <2>2. \A k \in DOMAIN so : \E q \in 1 .. m : so[k] = n[q] /\ r.nodes[n[q]].key = k
    <3> TAKE k \in DOMAIN so
    <3>1. PICK s \in 1 .. m : so[k] = o[s] /\ l.nodes[o[s]].key = k
      BY DEF Holding
    <3>2. PICK q \in 1 .. m : n[q] = o[s]
      BY <1>10
    <3> QED BY <1>11, <3>1, <3>2
  <2>3. Len(r.nodes) = Len(l.nodes)
    BY <1>8 DEF SameData
  <2>4. \A a \in 1 .. Len(fr), q \in 1 .. m : fr[a] # n[q]
    BY <1>10 DEF Holding
  <2> QED BY <1>7, <2>1, <2>2, <2>3, <2>4 DEF Holding
<1>13. E \in [1 .. m -> EntryRec]
  BY <1>1, EntriesType
<1>14. \A q \in 1 .. m : Entry(r, o[q]) = E[q]
  BY <1>1, <1>8, EntriesKept
<1> HIDE DEF E
<1>15. Entries(r, w, m - 1) = RemoveAt(E, p)
  BY <1>1, <1>13, <1>14, EntriesWithout DEF w
<1> DEFINE F == Entries(r, w, m - 1)
<1>16. F \in [1 .. m - 1 -> EntryRec] /\ \A q \in 1 .. m - 1 : Entry(r, w[q]) = F[q]
  <2>1. \A q \in 1 .. m - 1 : Entry(r, w[q]) \in EntryRec
    BY <1>5, <1>13, <1>14 DEF AllBut
  <2> QED BY <2>1 DEF Entries
<1>17. Entry(r, i) = E[p] /\ Entry(r, i) \in EntryRec
  BY <1>13, <1>14
<1> HIDE DEF F
<1>18. Entries(r, n, m - 1 + 1) = <<Entry(r, i)>> \o F
  <2>1. PICK x, u, j, G : x = m - 1 /\ u = w /\ j = i /\ G = F
    OBVIOUS
  <2>2. /\ x \in Nat /\ G \in [1 .. x -> EntryRec] /\ Entry(r, j) \in EntryRec
        /\ \A q \in 1 .. x : Entry(r, u[q]) = G[q]
    BY <1>1, <1>16, <1>17, <2>1
  <2>3. Entries(r, Ahead(u, x, j), x + 1) = <<Entry(r, j)>> \o G
    BY ONLY <2>2, EntriesAhead, SMTT(30)
  <2> QED BY <2>1, <2>3 DEF n
<1>19. Entries(r, n, m) = <<E[p]>> \o RemoveAt(E, p)
  BY <1>1, <1>15, <1>17, <1>18 DEF F
<1> QED BY <1>12, <1>19 DEF n, w, E

\* A stored item changes the entry of its key.
LEMMA Stored ==
  ASSUME NEW l, NEW o, NEW m, NEW so, NEW fr, Holding(l, o, m, so, fr), NEW p \in 1 .. m,
         NEW v \in Items, NEW r, r = [l EXCEPT !.nodes[o[p]] = [@ EXCEPT !.item = v]]
  PROVE  LET E == Entries(l, o, m)
         IN  /\ Holding(r, o, m, so, fr)
             /\ Entries(r, o, m)[p] = [key |-> l.nodes[o[p]].key, item |-> v]
             /\ RemoveAt(Entries(r, o, m), p) = RemoveAt(E, p)
<1> DEFINE i == o[p]
           node == [l.nodes[i] EXCEPT !.item = v]
           changed == [l.nodes EXCEPT ![i] = node]
           E == Entries(l, o, m)
<1>1. /\ IsList(l) /\ Threads(l, o, m) /\ m \in Nat
      /\ o \in [1 .. m -> 1 .. Len(l.nodes)] /\ Len(l.nodes) \in Nat
      /\ \A a, b \in 1 .. m : o[a] = o[b] => a = b
      /\ \A q \in 1 .. m : l.nodes[o[q]] \in NodeRec
  <2>1. IsList(l) /\ Threads(l, o, m)
    BY DEF Holding
  <2> QED BY <2>1, ThreadsParts
<1>2. /\ node \in NodeRec /\ node.key = l.nodes[i].key /\ node.item = v
      /\ node.prev = l.nodes[i].prev /\ node.next = l.nodes[i].next
  BY <1>1 DEF NodeRec
<1>3. r = [nodes |-> changed, head |-> l.head, tail |-> l.tail]
  BY <1>1 DEF IsList
<1> HIDE DEF node
<1>4. /\ changed \in Slab /\ Len(changed) = Len(l.nodes) /\ i \in 1 .. Len(l.nodes)
      /\ \A j \in 1 .. Len(l.nodes) : changed[j] = IF j = i THEN node ELSE l.nodes[j]
  BY <1>1, <1>2, ChangedSlab DEF IsList
<1> HIDE DEF changed
<1>5. IsList(r) /\ r.nodes = changed /\ r.head = l.head /\ r.tail = l.tail
  <2>1. r.nodes = changed /\ r.head = l.head /\ r.tail = l.tail
    BY <1>3
  <2> QED BY <1>3, <1>4, <2>1 DEF IsList
<1>6. \A q \in 1 .. m : /\ r.nodes[o[q]] \in NodeRec
                        /\ r.nodes[o[q]].key = l.nodes[o[q]].key
                        /\ r.nodes[o[q]].prev = l.nodes[o[q]].prev
                        /\ r.nodes[o[q]].next = l.nodes[o[q]].next
                        /\ q # p => r.nodes[o[q]].item = l.nodes[o[q]].item
  <2> TAKE q \in 1 .. m
  <2>1. o[q] \in 1 .. Len(l.nodes) /\ (o[q] = i <=> q = p) /\ l.nodes[o[q]] \in NodeRec
    BY <1>1
  <2>2. r.nodes[o[q]] = IF o[q] = i THEN node ELSE l.nodes[o[q]]
    BY <1>4, <1>5, <2>1
  <2>3. CASE q = p
    BY <1>2, <2>1, <2>2, <2>3
  <2>4. CASE q # p
    BY <2>1, <2>2, <2>4
  <2> QED BY <2>3, <2>4
<1>7. Threads(r, o, m)
  BY <1>1, <1>4, <1>5, <1>6 DEF Threads
<1>8. Holding(r, o, m, so, fr)
  <2>1. Len(r.nodes) = Len(l.nodes) /\ \A q \in 1 .. m : r.nodes[o[q]].key = l.nodes[o[q]].key
    BY <1>4, <1>5, <1>6
  <2>2. \A q \in 1 .. m : r.nodes[o[q]].key \in DOMAIN so /\ so[r.nodes[o[q]].key] = o[q]
    BY <2>1 DEF Holding
  <2>3. \A k \in DOMAIN so : \E q \in 1 .. m : so[k] = o[q] /\ r.nodes[o[q]].key = k
    <3> TAKE k \in DOMAIN so
    <3>1. PICK q \in 1 .. m : so[k] = o[q] /\ l.nodes[o[q]].key = k
      BY DEF Holding
    <3> QED BY <2>1, <3>1
  <2> QED BY <1>5, <1>7, <2>1, <2>2, <2>3 DEF Holding
<1>9. Entries(r, o, m)[p] = [key |-> l.nodes[o[p]].key, item |-> v]
  BY <1>2, <1>4, <1>5 DEF Entries, Entry
<1>10. E \in [1 .. m -> EntryRec] /\ Entries(r, o, m) \in [1 .. m -> EntryRec]
  BY <1>1, <1>5, <1>7, EntriesType
<1>11. \A q \in 1 .. m : q # p => Entry(r, o[q]) = E[q]
  BY <1>6 DEF Entry, Entries
<1>12. \A q \in 1 .. m : q # p => Entry(r, o[q]) = Entries(r, o, m)[q]
  BY DEF Entries
<1>13. PICK G : G = Entries(r, o, m)
  OBVIOUS
<1> HIDE DEF E
<1>14. Entries(r, Without(o, m, p), m - 1) = RemoveAt(E, p)
  <2>1. m \in Nat
    BY <1>1
  <2> QED BY <1>10, <1>11, <2>1, EntriesWithout
<1>15. Entries(r, Without(o, m, p), m - 1) = RemoveAt(G, p)
  <2>1. G \in [1 .. m -> EntryRec] /\ \A q \in 1 .. m : q # p => Entry(r, o[q]) = G[q]
    BY <1>10, <1>12, <1>13
  <2>2. m \in Nat
    BY <1>1
  <2> QED BY <2>1, <2>2, EntriesWithout
<1> QED BY <1>8, <1>9, <1>13, <1>14, <1>15 DEF E

\* r leads through the order as l does, and slot i has node n.
ThreadsToo(l, o, m, i, n, r) ==
  /\ IsList(r) /\ Threads(r, o, m) /\ i \in 1 .. Len(r.nodes) /\ r.nodes[i] = n
  /\ \A q \in 1 .. m : r.nodes[o[q]] = l.nodes[o[q]]

\* Another slot's node may change.
LEMMA OtherSlot ==
  ASSUME NEW l, IsList(l), NEW o, NEW m, Threads(l, o, m), NEW i \in 1 .. Len(l.nodes),
         \A q \in 1 .. m : o[q] # i, NEW n \in NodeRec \cup {NoNode},
         NEW r, r = [l EXCEPT !.nodes[i] = n]
  PROVE  ThreadsToo(l, o, m, i, n, r) /\ Len(r.nodes) = Len(l.nodes)
<1> DEFINE changed == [l.nodes EXCEPT ![i] = n]
<1>1. r = [nodes |-> changed, head |-> l.head, tail |-> l.tail]
  BY DEF IsList
<1>2. /\ changed \in Slab /\ Len(changed) = Len(l.nodes)
      /\ \A j \in 1 .. Len(l.nodes) : changed[j] = IF j = i THEN n ELSE l.nodes[j]
  BY ChangedSlab DEF IsList
<1> HIDE DEF changed
<1>3. r.nodes = changed /\ r.head = l.head /\ r.tail = l.tail
  BY <1>1
<1>4. IsList(r)
  BY <1>1, <1>2, <1>3 DEF IsList
<1>5. \A q \in 1 .. m : o[q] \in 1 .. Len(l.nodes)
  BY ThreadsParts
<1>6. \A q \in 1 .. m : r.nodes[o[q]] = l.nodes[o[q]]
  BY <1>2, <1>3, <1>5
<1>7. Threads(r, o, m)
  BY <1>2, <1>3, <1>6 DEF Threads
<1> QED BY <1>2, <1>3, <1>4, <1>6, <1>7 DEF ThreadsToo

\* A node may be appended.
LEMMA GrownSlab ==
  ASSUME NEW l, IsList(l), NEW o, NEW m, Threads(l, o, m), NEW n \in NodeRec,
         NEW r, r = [l EXCEPT !.nodes = Append(@, n)]
  PROVE  ThreadsToo(l, o, m, Len(l.nodes) + 1, n, r) /\ Len(r.nodes) = Len(l.nodes) + 1
<1> DEFINE grown == Append(l.nodes, n)
<1>1. r = [nodes |-> grown, head |-> l.head, tail |-> l.tail]
  BY DEF IsList
<1>2. /\ grown \in Slab /\ Len(grown) = Len(l.nodes) + 1 /\ grown[Len(l.nodes) + 1] = n
      /\ \A j \in 1 .. Len(l.nodes) : grown[j] = l.nodes[j]
  BY DEF IsList, Slab
<1> HIDE DEF grown
<1>3. r.nodes = grown /\ r.head = l.head /\ r.tail = l.tail
  BY <1>1
<1>4. IsList(r)
  BY <1>1, <1>2, <1>3 DEF IsList
<1>5. \A q \in 1 .. m : o[q] \in 1 .. Len(l.nodes)
  BY ThreadsParts
<1>6. \A q \in 1 .. m : r.nodes[o[q]] = l.nodes[o[q]]
  BY <1>2, <1>3, <1>5
<1>7. o \in [1 .. m -> 1 .. Len(r.nodes)]
  BY <1>2, <1>3, ThreadsParts
<1>8. Threads(r, o, m)
  BY <1>3, <1>6, <1>7 DEF Threads
<1>9. Len(l.nodes) + 1 \in 1 .. Len(l.nodes) + 1
  BY ThreadsParts
<1> QED BY <1>2, <1>3, <1>4, <1>6, <1>8, <1>9 DEF ThreadsToo

\* A dropped key leaves the order, and its slot is free.
LEMMA DroppedOne ==
  ASSUME NEW l, NEW o, NEW m, NEW so, NEW fr, Holding(l, o, m, so, fr), NEW p \in 1 .. m,
         NEW r, r = Dropped(l, o[p])
  PROVE  /\ Holding(r, Without(o, m, p), m - 1,
                    Restrict(so, DOMAIN so \ {l.nodes[o[p]].key}), Append(fr, o[p]))
         /\ Entries(r, Without(o, m, p), m - 1) = RemoveAt(Entries(l, o, m), p)
<1> DEFINE w == Without(o, m, p)
           i == o[p]
           k0 == l.nodes[i].key
           s0 == Restrict(so, DOMAIN so \ {k0})
           f0 == Append(fr, i)
<1>1. IsList(l) /\ Threads(l, o, m)
  BY DEF Holding
<1>2. /\ m \in Nat /\ o \in [1 .. m -> 1 .. Len(l.nodes)] /\ Len(l.nodes) \in Nat
      /\ \A a, b \in 1 .. m : o[a] = o[b] => a = b
      /\ \A q \in 1 .. m : l.nodes[o[q]] \in NodeRec
  BY <1>1, ThreadsParts
<1>3. PICK d : d = Detached(l, i)
  OBVIOUS
<1>4. IsList(d) /\ SameData(l, d) /\ Threads(d, w, m - 1)
  BY <1>1, <1>3, DetachThreads
<1>5. AllBut(w, o, m, p)
  BY <1>2, WithoutSlots
<1> HIDE DEF w
<1>6. \A q \in 1 .. m - 1 : w[q] # i
  <2> TAKE q \in 1 .. m - 1
  <2>1. PICK s \in 1 .. m : s # p /\ w[q] = o[s]
    BY <1>5 DEF AllBut
  <2> QED BY <1>2, <2>1
<1>7. r = [d EXCEPT !.nodes[i] = NoNode] /\ i \in 1 .. Len(d.nodes) /\ Len(d.nodes) = Len(l.nodes)
  BY <1>2, <1>3, <1>4 DEF Dropped, SameData
<1>8. /\ IsList(r) /\ Threads(r, w, m - 1) /\ Len(r.nodes) = Len(d.nodes)
      /\ \A q \in 1 .. m - 1 : r.nodes[w[q]] = d.nodes[w[q]]
  <2>1. PICK x : x = m - 1
    OBVIOUS
  <2>2. Threads(d, w, x) /\ \A q \in 1 .. x : w[q] # i
    BY <1>4, <1>6, <2>1
  <2>3. /\ IsList(r) /\ Threads(r, w, x) /\ Len(r.nodes) = Len(d.nodes)
        /\ \A q \in 1 .. x : r.nodes[w[q]] = d.nodes[w[q]]
    <3>1. NoNode \in NodeRec \cup {NoNode} /\ IsList(d)
      BY <1>4
    <3>2. ThreadsToo(d, w, x, i, NoNode, r) /\ Len(r.nodes) = Len(d.nodes)
      <4> HIDE DEF i, w
      <4>1. i \in 1 .. Len(d.nodes) /\ r = [d EXCEPT !.nodes[i] = NoNode]
        BY <1>7
      <4> QED BY ONLY <2>2, <3>1, <4>1, OtherSlot
    <3> QED BY <3>2 DEF ThreadsToo
  <2> QED BY <2>1, <2>3
<1>9. \A s \in 1 .. m : s # p => r.nodes[o[s]].key = l.nodes[o[s]].key
                                 /\ r.nodes[o[s]].item = l.nodes[o[s]].item
  <2> TAKE s \in 1 .. m
  <2> HAVE s # p
  <2>1. PICK q \in 1 .. m - 1 : w[q] = o[s]
    BY <1>5 DEF AllBut
  <2>2. r.nodes[o[s]] = d.nodes[o[s]]
    BY <1>8, <2>1
  <2>3. o[s] \in 1 .. Len(l.nodes) /\ l.nodes[o[s]] \in NodeRec
    BY <1>2
  <2> QED BY <1>4, <2>2, <2>3 DEF SameData
<1>10. \A k \in DOMAIN so : k # k0 => k \in DOMAIN s0 /\ s0[k] = so[k]
  BY DEF Restrict
<1>11. DOMAIN s0 = DOMAIN so \ {k0}
  BY DEF Restrict
<1> HIDE DEF s0
<1>12. \A s \in 1 .. m : s # p => l.nodes[o[s]].key # k0
  <2> TAKE s \in 1 .. m
  <2>1. so[l.nodes[o[s]].key] = o[s] /\ so[l.nodes[o[p]].key] = o[p]
    BY DEF Holding
  <2>2. o[s] = o[p] => s = p
    BY <1>2
  <2> QED BY <2>1, <2>2
<1>13. \A q \in 1 .. m - 1 : r.nodes[w[q]].key \in DOMAIN s0 /\ s0[r.nodes[w[q]].key] = w[q]
  <2> TAKE q \in 1 .. m - 1
  <2>1. PICK s \in 1 .. m : s # p /\ w[q] = o[s]
    BY <1>5 DEF AllBut
  <2>2. l.nodes[o[s]].key \in DOMAIN so /\ so[l.nodes[o[s]].key] = o[s]
    BY DEF Holding
  <2> QED BY <1>9, <1>10, <1>12, <2>1, <2>2
<1>14. \A k \in DOMAIN s0 : \E q \in 1 .. m - 1 : s0[k] = w[q] /\ r.nodes[w[q]].key = k
  <2> TAKE k \in DOMAIN s0
  <2>1. k \in DOMAIN so /\ k # k0 /\ s0[k] = so[k]
    BY <1>10, <1>11
  <2>2. PICK s \in 1 .. m : so[k] = o[s] /\ l.nodes[o[s]].key = k
    BY <2>1 DEF Holding
  <2>3. s # p
    BY <2>1, <2>2
  <2>4. PICK q \in 1 .. m - 1 : w[q] = o[s]
    BY <1>5, <2>3 DEF AllBut
  <2> QED BY <1>9, <2>1, <2>2, <2>3, <2>4
<1>15. /\ f0 \in Seq(1 .. Len(r.nodes)) /\ Len(f0) = Len(fr) + 1 /\ Len(fr) \in Nat
       /\ f0[Len(fr) + 1] = i /\ \A a \in 1 .. Len(fr) : f0[a] = fr[a]
  <2>1. fr \in Seq(1 .. Len(r.nodes)) /\ i \in 1 .. Len(r.nodes)
    BY <1>7, <1>8 DEF Holding
  <2> QED BY <2>1
<1> HIDE DEF f0
<1>16. \A a \in 1 .. Len(f0) : (a \in 1 .. Len(fr) /\ f0[a] = fr[a]) \/ (a = Len(fr) + 1 /\ f0[a] = i)
  BY <1>15
<1>17. \A a \in 1 .. Len(fr) : fr[a] # i /\ \A s \in 1 .. m : fr[a] # o[s]
  BY DEF Holding
<1>18. \A a, b \in 1 .. Len(f0) : f0[a] = f0[b] => a = b
  <2>1. \A a, b \in 1 .. Len(fr) : fr[a] = fr[b] => a = b
    BY DEF Holding
  <2> QED BY <1>16, <1>17, <2>1
<1>19. \A a \in 1 .. Len(f0), q \in 1 .. m - 1 : f0[a] # w[q]
  <2> TAKE a \in 1 .. Len(f0), q \in 1 .. m - 1
  <2>1. PICK s \in 1 .. m : s # p /\ w[q] = o[s]
    BY <1>5 DEF AllBut
  <2> QED BY <1>6, <1>16, <1>17, <2>1
<1>20. DOMAIN s0 \subseteq Keys
  BY <1>11 DEF Holding
<1>21. Holding(r, w, m - 1, s0, f0)
  BY <1>8, <1>13, <1>14, <1>15, <1>18, <1>19, <1>20 DEF Holding
<1>22. Entries(r, w, m - 1) = RemoveAt(Entries(l, o, m), p)
  <2>1. PICK E : E = Entries(l, o, m)
    OBVIOUS
  <2>2. E \in [1 .. m -> EntryRec]
    BY <1>1, <2>1, EntriesType
  <2>3. \A q \in 1 .. m : q # p => Entry(r, o[q]) = E[q]
    BY <1>9, <2>1 DEF Entry, Entries
  <2>4. m \in Nat
    BY <1>2
  <2> QED BY <2>1, <2>2, <2>3, <2>4, EntriesWithout DEF w
<1> QED BY <1>21, <1>22 DEF w, s0, f0

\* A list that leads through the order too, with slot i for a new node.
RoomFor(l, o, m, fr, i, n, r, fr1) ==
  /\ IsList(r) /\ Threads(r, o, m)
  /\ i \in 1 .. Len(r.nodes) /\ r.nodes[i] = n
  /\ \A q \in 1 .. m : o[q] # i /\ r.nodes[o[q]] = l.nodes[o[q]]
  /\ fr1 \in Seq(1 .. Len(r.nodes))
  /\ \A a, b \in 1 .. Len(fr1) : fr1[a] = fr1[b] => a = b
  /\ \A a \in 1 .. Len(fr1) : fr1[a] # i /\ \A q \in 1 .. m : fr1[a] # o[q]

\* The slot of put: the last free one, or a new one.
LEMMA SlotForNew ==
  ASSUME NEW l, NEW o, NEW m, NEW so, NEW fr, Holding(l, o, m, so, fr),
         NEW n \in NodeRec, NEW i, i = IF fr # <<>> THEN Last(fr) ELSE Len(l.nodes) + 1,
         NEW r, r = IF fr # <<>> THEN [l EXCEPT !.nodes[i] = n]
                    ELSE [l EXCEPT !.nodes = Append(@, n)],
         NEW fr1, fr1 = IF fr # <<>> THEN Front(fr) ELSE fr
  PROVE  RoomFor(l, o, m, fr, i, n, r, fr1)
<1>1. /\ IsList(l) /\ Threads(l, o, m) /\ fr \in Seq(1 .. Len(l.nodes))
      /\ \A a, b \in 1 .. Len(fr) : fr[a] = fr[b] => a = b
      /\ \A a \in 1 .. Len(fr), q \in 1 .. m : fr[a] # o[q]
  BY DEF Holding
<1>2. /\ m \in Nat /\ Len(l.nodes) \in Nat
      /\ \A q \in 1 .. m : o[q] \in 1 .. Len(l.nodes)
  BY <1>1, ThreadsParts
<1>3. CASE fr # <<>>
  <2> DEFINE N == Len(fr)
  <2>1. N \in Nat \ {0} /\ N \in 1 .. N /\ i = fr[N] /\ i \in 1 .. Len(l.nodes)
    <3>1. N \in Nat \ {0}
      BY <1>1, <1>3, EmptySeq
    <3>2. N \in 1 .. N
      BY <3>1
    <3>3. fr[N] \in 1 .. Len(l.nodes)
      BY <1>1, <3>2, ElementOfSeq
    <3> QED BY <1>3, <3>1, <3>2, <3>3 DEF Last
  <2>2. \A q \in 1 .. m : o[q] # i
    BY <1>1, <2>1
  <2>3. /\ IsList(r) /\ Threads(r, o, m) /\ Len(r.nodes) = Len(l.nodes) /\ r.nodes[i] = n
        /\ \A q \in 1 .. m : r.nodes[o[q]] = l.nodes[o[q]]
    <3>1. r = [l EXCEPT !.nodes[i] = n]
      BY <1>3
    <3>2. ThreadsToo(l, o, m, i, n, r) /\ Len(r.nodes) = Len(l.nodes)
      BY <1>1, <2>1, <2>2, <3>1, OtherSlot
    <3> QED BY <3>2 DEF ThreadsToo
  <2>4. /\ fr1 \in Seq(1 .. Len(l.nodes)) /\ Len(fr1) = N - 1
        /\ \A a \in 1 .. N - 1 : fr1[a] = fr[a] /\ a \in 1 .. N /\ a # N
    <3>1. fr1 = SubSeq(fr, 1, N - 1)
      BY <1>3 DEF Front
    <3>2. \A a \in 1 .. N - 1 : a \in 1 .. N /\ a # N
      BY <2>1
    <3>3. \A a \in 1 .. N - 1 : fr[a] \in 1 .. Len(l.nodes)
      BY <1>1, <3>2, ElementOfSeq
    <3>4. /\ SubSeq(fr, 1, N - 1) \in Seq(1 .. Len(l.nodes))
          /\ Len(SubSeq(fr, 1, N - 1)) = IF 1 <= N - 1 THEN N - 1 - 1 + 1 ELSE 0
          /\ \A a \in 1 .. N - 1 - 1 + 1 : SubSeq(fr, 1, N - 1)[a] = fr[1 + a - 1]
      <4>1. 1 \in Int /\ N - 1 \in Int
        BY <2>1
      <4> QED BY <3>3, <4>1, SubSeqProperties
    <3> HIDE DEF N
    <3>5. N - 1 - 1 + 1 = N - 1 /\ \A a \in 1 .. N - 1 : 1 + a - 1 = a
      BY <2>1
    <3>6. Len(fr1) = N - 1
      BY <2>1, <3>1, <3>4
    <3> QED BY <3>1, <3>2, <3>4, <3>5, <3>6
  <2> HIDE DEF N
  <2>5. \A a, b \in 1 .. Len(fr1) : fr1[a] = fr1[b] => a = b
    <3> TAKE a, b \in 1 .. Len(fr1)
    <3>1. a \in 1 .. Len(fr) /\ b \in 1 .. Len(fr) /\ fr1[a] = fr[a] /\ fr1[b] = fr[b]
      BY <2>4 DEF N
    <3> QED BY <1>1, <3>1
  <2>6. \A a \in 1 .. Len(fr1) : fr1[a] # i /\ \A q \in 1 .. m : fr1[a] # o[q]
    BY <1>1, <2>1, <2>4 DEF N
  <2> QED BY <2>1, <2>2, <2>3, <2>4, <2>5, <2>6 DEF RoomFor
<1>4. CASE fr = <<>>
  <2>1. i = Len(l.nodes) + 1 /\ r = [l EXCEPT !.nodes = Append(@, n)] /\ fr1 = fr
    BY <1>4
  <2>2. /\ IsList(r) /\ Threads(r, o, m) /\ Len(r.nodes) = Len(l.nodes) + 1
        /\ r.nodes[Len(l.nodes) + 1] = n
        /\ \A q \in 1 .. m : r.nodes[o[q]] = l.nodes[o[q]]
    <3>1. IsList(l) /\ Threads(l, o, m) /\ r = [l EXCEPT !.nodes = Append(@, n)]
      BY <1>1, <2>1
    <3>2. ThreadsToo(l, o, m, Len(l.nodes) + 1, n, r) /\ Len(r.nodes) = Len(l.nodes) + 1
      BY <3>1, GrownSlab
    <3> QED BY <3>2 DEF ThreadsToo
  <2>3. i \in 1 .. Len(r.nodes) /\ \A q \in 1 .. m : o[q] # i
    BY <1>2, <2>1, <2>2
  <2>4. Len(fr1) = 0 /\ fr1 \in Seq(1 .. Len(r.nodes))
    BY <1>4, <2>1, EmptySeq
  <2>5. r.nodes[i] = n
    BY <2>1, <2>2
  <2>6. \A a \in 1 .. Len(fr1) : FALSE
    BY <2>4
  <2> HIDE <1>4
  <2> QED BY <2>2, <2>3, <2>4, <2>5, <2>6 DEF RoomFor
<1> QED BY <1>3, <1>4

\* Key k with item v was put before the others.
AddedTo(l, o, m, so, k, v, i, r, fr1) ==
  /\ Holding(r, Ahead(o, m, i), m + 1, SlotWith(so, k, i), fr1)
  /\ Entries(r, Ahead(o, m, i), m + 1) = <<[key |-> k, item |-> v]>> \o Entries(l, o, m)

\* A new key in front.
LEMMA Added ==
  ASSUME NEW l, NEW o, NEW m, NEW so, NEW fr, Holding(l, o, m, so, fr),
         NEW k \in Keys, k \notin DOMAIN so, NEW v \in Items, NEW i, NEW n \in NodeRec,
         n.key = k, n.item = v,
         NEW b, NEW fr1, RoomFor(l, o, m, fr, i, n, b, fr1), NEW r, r = Pushed(b, i)
  PROVE  AddedTo(l, o, m, so, k, v, i, r, fr1)
<1> DEFINE a == Ahead(o, m, i)
           s1 == SlotWith(so, k, i)
<1>1. /\ IsList(l) /\ Threads(l, o, m)
      /\ IsList(b) /\ Threads(b, o, m)
      /\ i \in 1 .. Len(b.nodes) /\ b.nodes[i] = n
      /\ \A q \in 1 .. m : o[q] # i /\ b.nodes[o[q]] = l.nodes[o[q]]
  BY DEF Holding, RoomFor
<1>2. /\ m \in Nat /\ \A q \in 1 .. m : o[q] \in 1 .. Len(b.nodes) /\ b.nodes[o[q]] \in NodeRec
  BY <1>1, ThreadsParts
<1>3. IsList(r) /\ SameData(b, r) /\ Threads(r, a, m + 1)
  BY <1>1, PushThreads
<1>4. r.nodes[i].key = k /\ r.nodes[i].item = v /\ Len(r.nodes) = Len(b.nodes)
  BY <1>1, <1>3 DEF SameData
<1>5. \A q \in 1 .. m : r.nodes[o[q]].key = l.nodes[o[q]].key /\ r.nodes[o[q]].item = l.nodes[o[q]].item
  BY <1>1, <1>2, <1>3 DEF SameData
<1>6. /\ 1 \in 1 .. m + 1 /\ a[1] = i
      /\ \A q \in 1 .. m + 1 : q # 1 => q - 1 \in 1 .. m /\ a[q] = o[q - 1]
      /\ \A s \in 1 .. m : s + 1 \in 1 .. m + 1 /\ a[s + 1] = o[s]
  BY <1>2, AheadSlots
<1> HIDE DEF a
<1>7. DOMAIN s1 = DOMAIN so \cup {k} /\ s1[k] = i /\ \A x \in DOMAIN so : x # k /\ s1[x] = so[x]
  BY DEF SlotWith
<1> HIDE DEF s1
<1>8. \A q \in 1 .. m + 1 : r.nodes[a[q]].key \in DOMAIN s1 /\ s1[r.nodes[a[q]].key] = a[q]
  <2> TAKE q \in 1 .. m + 1
  <2>1. CASE q = 1
    BY <1>4, <1>6, <1>7, <2>1
  <2>2. CASE q # 1
    <3>1. PICK s \in 1 .. m : a[q] = o[s]
      BY <1>6, <2>2
    <3>2. l.nodes[o[s]].key \in DOMAIN so /\ so[l.nodes[o[s]].key] = o[s]
      BY DEF Holding
    <3> QED BY <1>5, <1>7, <3>1, <3>2
  <2> QED BY <2>1, <2>2
<1>9. \A x \in DOMAIN s1 : \E q \in 1 .. m + 1 : s1[x] = a[q] /\ r.nodes[a[q]].key = x
  <2> TAKE x \in DOMAIN s1
  <2>1. CASE x = k
    BY <1>4, <1>6, <1>7, <2>1
  <2>2. CASE x # k
    <3>1. x \in DOMAIN so
      BY <1>7, <2>2
    <3>2. PICK s \in 1 .. m : so[x] = o[s] /\ l.nodes[o[s]].key = x
      BY <3>1 DEF Holding
    <3>3. s + 1 \in 1 .. m + 1 /\ a[s + 1] = o[s]
      BY <1>6
    <3> QED BY <1>5, <1>7, <3>1, <3>2, <3>3
  <2> QED BY <2>1, <2>2
<1>10. DOMAIN s1 \subseteq Keys
  BY <1>7 DEF Holding
<1>11. /\ fr1 \in Seq(1 .. Len(r.nodes))
       /\ \A c, d \in 1 .. Len(fr1) : fr1[c] = fr1[d] => c = d
       /\ \A c \in 1 .. Len(fr1), q \in 1 .. m + 1 : fr1[c] # a[q]
  <2>1. \A c \in 1 .. Len(fr1) : fr1[c] # i /\ \A q \in 1 .. m : fr1[c] # o[q]
    BY DEF RoomFor
  <2>2. \A c \in 1 .. Len(fr1), q \in 1 .. m + 1 : fr1[c] # a[q]
    <3> TAKE c \in 1 .. Len(fr1), q \in 1 .. m + 1
    <3> QED BY <1>6, <2>1
  <2> QED BY <1>4, <2>2 DEF RoomFor
<1>12. Holding(r, a, m + 1, s1, fr1)
  BY <1>3, <1>8, <1>9, <1>10, <1>11 DEF Holding
<1>13. Entries(r, a, m + 1) = <<[key |-> k, item |-> v]>> \o Entries(l, o, m)
  <2>1. PICK E : E = Entries(l, o, m)
    OBVIOUS
  <2>2. E \in [1 .. m -> EntryRec]
    BY <1>1, <2>1, EntriesType
  <2>3. \A q \in 1 .. m : Entry(r, o[q]) = E[q]
    BY <1>5, <2>1 DEF Entry, Entries
  <2>4. Entry(r, i) = [key |-> k, item |-> v] /\ Entry(r, i) \in EntryRec /\ m \in Nat
    BY <1>2, <1>4 DEF Entry, EntryRec
  <2>5. Entries(r, Ahead(o, m, i), m + 1) = <<Entry(r, i)>> \o E
    BY <2>2, <2>3, <2>4, EntriesAhead
  <2> QED BY <2>1, <2>4, <2>5 DEF a
<1> QED BY <1>12, <1>13 DEF a, s1, AddedTo

-----------------------------------------------------------------------------
(* The cache implements the abstract one.                                  *)

LruInv == \E o, m : Holding(List, o, m, slotOf, free)

\* As many keys as slots in order.
LEMMA KeysCounted ==
  ASSUME NEW l, NEW o, NEW m, NEW so, NEW fr, Holding(l, o, m, so, fr)
  PROVE  Cardinality(DOMAIN so) = m /\ m \in Nat
<1> DEFINE f == [q \in 1 .. m |-> l.nodes[o[q]].key]
<1>1. m \in Nat /\ \A a, b \in 1 .. m : o[a] = o[b] => a = b
  BY ThreadsParts DEF Holding
<1>2. \A q \in 1 .. m : l.nodes[o[q]].key \in DOMAIN so /\ so[l.nodes[o[q]].key] = o[q]
  BY DEF Holding
<1>3. \A k \in DOMAIN so : \E q \in 1 .. m : so[k] = o[q] /\ l.nodes[o[q]].key = k
  BY DEF Holding
<1>4. f \in [1 .. m -> DOMAIN so] /\ \A q \in 1 .. m : f[q] = l.nodes[o[q]].key
  BY <1>2
<1> HIDE DEF f
<1>5. \A a, b \in 1 .. m : f[a] = f[b] => a = b
  BY <1>1, <1>2, <1>4
<1>6. \A k \in DOMAIN so : \E q \in 1 .. m : f[q] = k
  BY <1>3, <1>4
<1>7. f \in Bijection(1 .. m, DOMAIN so)
  BY <1>4, <1>5, <1>6 DEF Bijection, Injection, Surjection, IsInjective
<1>8. ExistsBijection(1 .. m, DOMAIN so)
  BY <1>7 DEF ExistsBijection
<1>9. IsFiniteSet(1 .. m) /\ Cardinality(1 .. m) = m
  <2>1. IsFiniteSet(1 .. m) /\ Cardinality(1 .. m) = IF 1 > m THEN 0 ELSE m - 1 + 1
    BY <1>1, FS_Interval
  <2> QED BY <1>1, <2>1
<1> QED BY <1>1, <1>8, <1>9, FS_Bijection

\* The walk, while the list holds an order.
LEMMA WalkHolds ==
  ASSUME NEW o, NEW m, Holding(List, o, m, slotOf, free)
  PROVE  /\ Walk = Entries(List, o, m) /\ m \in Nat
         /\ Walk \in [1 .. m -> EntryRec] /\ Len(Walk) = m /\ DOMAIN Walk = 1 .. m
         /\ \A q \in 1 .. m : Walk[q].key = List.nodes[o[q]].key
<1>1. IsList(List) /\ Threads(List, o, m)
  BY DEF Holding
<1>2. Walk = Entries(List, o, m)
  BY <1>1, WalkRight DEF WalkReads
<1>3. m \in Nat
  BY <1>1, ThreadsParts
<1>4. Entries(List, o, m) \in [1 .. m -> EntryRec]
  BY <1>1, EntriesType
<1>5. Len(Walk) = m
  BY <1>2, <1>3, <1>4, FunctionIsSeq
<1>6. \A q \in 1 .. m : Entries(List, o, m)[q].key = List.nodes[o[q]].key
  BY DEF Entries, Entry
<1> QED BY <1>2, <1>3, <1>4, <1>5, <1>6

\* A key that is there, and its place.
LEMMA PlaceOfKey ==
  ASSUME NEW o, NEW m, Holding(List, o, m, slotOf, free), NEW k \in Cached
  PROVE  \E p \in 1 .. m :
           /\ slotOf[k] = o[p] /\ List.nodes[o[p]].key = k /\ Walk[p].key = k
           /\ RecencyOrder!Holds(k) /\ RecencyOrder!Place(k) = p
           /\ RecencyOrder!Others(k) = RemoveAt(Walk, p)
<1>1. /\ DOMAIN Walk = 1 .. m
      /\ \A q \in 1 .. m : Walk[q].key = List.nodes[o[q]].key
  BY WalkHolds
<1>2. PICK p \in 1 .. m : slotOf[k] = o[p] /\ List.nodes[o[p]].key = k
  BY DEF Holding, Cached
<1>3. \A q \in 1 .. m : Walk[q].key = k => q = p
  <2> TAKE q \in 1 .. m
  <2> HAVE Walk[q].key = k
  <2>1. o[q] = o[p]
    <3>1. slotOf[List.nodes[o[q]].key] = o[q]
      BY DEF Holding
    <3>2. List.nodes[o[q]].key = k
      BY <1>1
    <3> QED BY <1>2, <3>1, <3>2
  <2>2. IsList(List) /\ Threads(List, o, m)
    BY DEF Holding
  <2> QED BY <2>1, <2>2, ThreadsParts
<1>4. Walk[p].key = k /\ p \in DOMAIN Walk
  BY <1>1, <1>2
<1>5. RecencyOrder!Holds(k)
  BY <1>4 DEF RecencyOrder!Holds
<1>6. RecencyOrder!Place(k) = p
  BY <1>1, <1>3, <1>4 DEF RecencyOrder!Place
<1>7. RecencyOrder!Others(k) = RemoveAt(Walk, p)
  BY <1>5, <1>6 DEF RecencyOrder!Others, RecencyOrder!RemoveAt, RemoveAt
<1> QED BY <1>2, <1>4, <1>5, <1>6, <1>7

\* A key that is not there.
LEMMA NoPlace ==
  ASSUME NEW o, NEW m, Holding(List, o, m, slotOf, free), NEW k, k \notin Cached
  PROVE  ~RecencyOrder!Holds(k) /\ RecencyOrder!Others(k) = Walk
<1>1. /\ DOMAIN Walk = 1 .. m
      /\ \A q \in 1 .. m : Walk[q].key = List.nodes[o[q]].key
  BY WalkHolds
<1>2. \A q \in 1 .. m : List.nodes[o[q]].key \in Cached
  BY DEF Holding, Cached
<1>3. ~RecencyOrder!Holds(k)
  BY <1>1, <1>2 DEF RecencyOrder!Holds
<1> QED BY <1>3 DEF RecencyOrder!Others

\* A list that becomes the cache's.
LEMMA ListNext ==
  ASSUME NEW l, IsList(l), Becomes(l)
  PROVE  List' = l
BY DEF Becomes, List, IsList

\* The walk of the next state.
LEMMA WalkNext ==
  ASSUME NEW o, NEW m, NEW l, Becomes(l), NEW so, slotOf' = so, NEW fr, free' = fr,
         Holding(l, o, m, so, fr)
  PROVE  LruInv' /\ Walk' = Entries(l, o, m)
<1>1. IsList(l) /\ Threads(l, o, m)
  BY DEF Holding
<1>2. List' = l
  BY <1>1, ListNext
<1>3. Holding(List', o, m, slotOf', free')
  BY <1>2
<1>4. LruInv'
  BY <1>3 DEF LruInv
<1>5. Walk' = Entries(List', o, m)
  BY <1>1, <1>2, WalkRightNext DEF WalkReads
<1> QED BY <1>2, <1>4, <1>5

\* get of a key that is there.
LEMMA GetStep ==
  ASSUME LruInv, NEW k \in Keys, Get(k)
  PROVE  LruInv' /\ RecencyOrder!Get(k)
<1>1. PICK o, m : Holding(List, o, m, slotOf, free)
  BY DEF LruInv
<1>2. k \in Cached /\ slotOf' = slotOf /\ free' = free
      /\ Becomes(Pushed(Detached(List, slotOf[k]), slotOf[k]))
  BY DEF Get
<1>3. PICK p \in 1 .. m :
        /\ slotOf[k] = o[p] /\ List.nodes[o[p]].key = k /\ Walk[p].key = k
        /\ RecencyOrder!Holds(k) /\ RecencyOrder!Place(k) = p
        /\ RecencyOrder!Others(k) = RemoveAt(Walk, p)
  BY <1>1, <1>2, PlaceOfKey
<1>4. PICK r : r = Pushed(Detached(List, o[p]), o[p])
  OBVIOUS
<1>5. PICK n : n = Ahead(Without(o, m, p), m - 1, o[p])
  OBVIOUS
<1>6. /\ Holding(r, n, m, slotOf, free)
      /\ Entries(r, n, m) = <<Entries(List, o, m)[p]>> \o RemoveAt(Entries(List, o, m), p)
  BY <1>1, <1>4, <1>5, Moved
<1>7. PICK so, fr : so = slotOf /\ fr = free
  OBVIOUS
<1>8. LruInv' /\ Walk' = Entries(r, n, m)
  BY <1>2, <1>3, <1>4, <1>6, <1>7, WalkNext
<1>9. Walk = Entries(List, o, m)
  BY <1>1, WalkHolds
<1> QED BY <1>3, <1>6, <1>8, <1>9 DEF RecencyOrder!Get

\* put of a key that is there.
LEMMA ReplaceStep ==
  ASSUME LruInv, NEW k \in Keys, NEW v \in Items, Replace(k, v)
  PROVE  LruInv' /\ RecencyOrder!Put(k, v)
<1>1. PICK o, m : Holding(List, o, m, slotOf, free)
  BY DEF LruInv
<1> DEFINE stored(i) == [List EXCEPT !.nodes[i] = [@ EXCEPT !.item = v]]
<1>2. k \in Cached /\ slotOf' = slotOf /\ free' = free
      /\ Becomes(Pushed(Detached(stored(slotOf[k]), slotOf[k]), slotOf[k]))
  BY DEF Replace
<1>3. PICK p \in 1 .. m :
        /\ slotOf[k] = o[p] /\ List.nodes[o[p]].key = k /\ Walk[p].key = k
        /\ RecencyOrder!Holds(k) /\ RecencyOrder!Place(k) = p
        /\ RecencyOrder!Others(k) = RemoveAt(Walk, p)
  BY <1>1, <1>2, PlaceOfKey
<1>4. PICK s : s = stored(o[p])
  OBVIOUS
<1>5. /\ Holding(s, o, m, slotOf, free)
      /\ Entries(s, o, m)[p] = [key |-> k, item |-> v]
      /\ RemoveAt(Entries(s, o, m), p) = RemoveAt(Entries(List, o, m), p)
  BY <1>1, <1>3, <1>4, Stored
<1>6. PICK r : r = Pushed(Detached(s, o[p]), o[p])
  OBVIOUS
<1>7. Becomes(r)
  BY <1>2, <1>3, <1>4, <1>6
<1> HIDE DEF stored
<1>8. PICK n : n = Ahead(Without(o, m, p), m - 1, o[p])
  OBVIOUS
<1>9. /\ Holding(r, n, m, slotOf, free)
      /\ Entries(r, n, m) = <<Entries(s, o, m)[p]>> \o RemoveAt(Entries(s, o, m), p)
  BY <1>5, <1>6, <1>8, Moved
<1>10. PICK so, fr : so = slotOf /\ fr = free
  OBVIOUS
<1>11. LruInv' /\ Walk' = Entries(r, n, m)
  BY <1>2, <1>7, <1>9, <1>10, WalkNext
<1>12. Walk = Entries(List, o, m)
  BY <1>1, WalkHolds
<1> QED BY <1>3, <1>5, <1>9, <1>11, <1>12 DEF RecencyOrder!Put

\* remove of a key that is there.
LEMMA RemoveStep ==
  ASSUME LruInv, NEW k \in Keys, RemoveKey(k)
  PROVE  LruInv' /\ RecencyOrder!RemoveKey(k)
<1>1. PICK o, m : Holding(List, o, m, slotOf, free)
  BY DEF LruInv
<1>2. /\ k \in Cached /\ slotOf' = Restrict(slotOf, Cached \ {k}) /\ free' = Append(free, slotOf[k])
      /\ Becomes(Dropped(List, slotOf[k]))
  BY DEF RemoveKey
<1>3. PICK p \in 1 .. m :
        /\ slotOf[k] = o[p] /\ List.nodes[o[p]].key = k /\ Walk[p].key = k
        /\ RecencyOrder!Holds(k) /\ RecencyOrder!Place(k) = p
        /\ RecencyOrder!Others(k) = RemoveAt(Walk, p)
  BY <1>1, <1>2, PlaceOfKey
<1>4. PICK r, n, x, so, fr :
        /\ r = Dropped(List, o[p]) /\ n = Without(o, m, p) /\ x = m - 1
        /\ so = Restrict(slotOf, DOMAIN slotOf \ {k}) /\ fr = Append(free, o[p])
  OBVIOUS
<1>5. Holding(r, n, x, so, fr) /\ Entries(r, n, x) = RemoveAt(Entries(List, o, m), p)
  BY <1>1, <1>3, <1>4, DroppedOne
<1>6. Becomes(r) /\ slotOf' = so /\ free' = fr
  BY <1>2, <1>3, <1>4 DEF Cached
<1>7. LruInv' /\ Walk' = Entries(r, n, x)
  BY <1>5, <1>6, WalkNext
<1>8. Walk = Entries(List, o, m)
  BY <1>1, WalkHolds
<1> QED BY <1>3, <1>5, <1>7, <1>8 DEF RecencyOrder!RemoveKey

\* put of a new key, once there is room: the list, keys and free slots it starts
\* from hold an order.
LEMMA PutWithRoom ==
  ASSUME NEW l, NEW o, NEW m, NEW so, NEW fr, Holding(l, o, m, so, fr),
         NEW k \in Keys, k \notin DOMAIN so, NEW v \in Items,
         NEW n, n = [key |-> k, item |-> v, prev |-> Nil, next |-> Nil],
         NEW i, i = IF fr # <<>> THEN Last(fr) ELSE Len(l.nodes) + 1,
         NEW b, b = IF fr # <<>> THEN [l EXCEPT !.nodes[i] = n]
                    ELSE [l EXCEPT !.nodes = Append(@, n)],
         slotOf' = SlotWith(so, k, i),
         free' = IF fr # <<>> THEN Front(fr) ELSE fr,
         Becomes(Pushed(b, i))
  PROVE  LruInv' /\ Walk' = <<[key |-> k, item |-> v]>> \o Entries(l, o, m)
<1>1. n \in NodeRec /\ n.key = k /\ n.item = v
  BY DEF NodeRec, Nil
<1>2. PICK f : f = IF fr # <<>> THEN Front(fr) ELSE fr
  OBVIOUS
<1>3. RoomFor(l, o, m, fr, i, n, b, f)
  BY <1>1, <1>2, SlotForNew
<1>4. PICK r, a, x, s : r = Pushed(b, i) /\ a = Ahead(o, m, i) /\ x = m + 1 /\ s = SlotWith(so, k, i)
  OBVIOUS
<1>5. Holding(r, a, x, s, f) /\ Entries(r, a, x) = <<[key |-> k, item |-> v]>> \o Entries(l, o, m)
  <2>1. AddedTo(l, o, m, so, k, v, i, r, f)
    BY <1>1, <1>3, <1>4, Added
  <2> QED BY <1>4, <2>1 DEF AddedTo
<1>6. Becomes(r) /\ slotOf' = s /\ free' = f
  BY <1>2, <1>4
<1>7. LruInv' /\ Walk' = Entries(r, a, x)
  BY <1>5, <1>6, WalkNext
<1> QED BY <1>5, <1>7

\* put of a new key, after an eviction from a full cache.
LEMMA PutStep ==
  ASSUME LruInv, NEW k \in Keys, NEW v \in Items, Put(k, v)
  PROVE  LruInv' /\ RecencyOrder!Put(k, v)
<1>1. PICK o, m : Holding(List, o, m, slotOf, free)
  BY DEF LruInv
<1>5. /\ Walk = Entries(List, o, m) /\ m \in Nat /\ Walk \in [1 .. m -> EntryRec] /\ Len(Walk) = m
  BY <1>1, WalkHolds
<1>6. Cardinality(Cached) = m
  BY <1>1, KeysCounted DEF Cached
<1>3. PICK l, so, fr, n, i, b :
        /\ l = IF m >= Room THEN Dropped(List, tail) ELSE List
        /\ so = IF m >= Room THEN Restrict(slotOf, Cached \ {nodes[tail].key}) ELSE slotOf
        /\ fr = IF m >= Room THEN Append(free, tail) ELSE free
        /\ n = [key |-> k, item |-> v, prev |-> Nil, next |-> Nil]
        /\ i = IF fr # <<>> THEN Last(fr) ELSE Len(nodes) + 1
        /\ b = IF fr # <<>> THEN [l EXCEPT !.nodes[i] = n]
               ELSE [l EXCEPT !.nodes = Append(@, n)]
  OBVIOUS
<1>4. /\ k \notin Cached
      /\ slotOf' = SlotWith(so, k, i)
      /\ free' = IF fr # <<>> THEN Front(fr) ELSE fr
      /\ Becomes(Pushed(b, i))
  BY <1>3, <1>6 DEF Put
<1>7. ~RecencyOrder!Holds(k) /\ RecencyOrder!Others(k) = Walk
  BY <1>1, <1>4, NoPlace
<1>8. List.nodes = nodes /\ List.tail = tail
  BY DEF List
<1>9. CASE m >= Room
  <2>1. m >= Room /\ m \in Nat \ {0} /\ m \in 1 .. m
    BY <1>5, <1>9, LruAssumption
  <2>2. tail = o[m]
    BY <1>1, <1>8, <2>1 DEF Holding, Threads, At
  <2>3. PICK w, x : w = Without(o, m, m) /\ x = m - 1
    OBVIOUS
  <2>4. Holding(l, w, x, so, fr) /\ Entries(l, w, x) = RemoveAt(Entries(List, o, m), m)
    <3>1. l = Dropped(List, o[m])
      BY <1>3, <1>9, <2>2
    <3>2. so = Restrict(slotOf, DOMAIN slotOf \ {List.nodes[o[m]].key}) /\ fr = Append(free, o[m])
      BY <1>3, <1>8, <1>9, <2>2 DEF Cached
    <3> QED BY <1>1, <2>1, <2>3, <3>1, <3>2, DroppedOne
  <2>5. k \notin DOMAIN so /\ fr # <<>>
    <3>1. DOMAIN so \subseteq Cached
      BY <1>3, <1>9 DEF Restrict
    <3>2. free \in Seq(1 .. Len(List.nodes))
      BY <1>1 DEF Holding
    <3>3. fr = Append(free, tail)
      BY <1>3, <1>9
    <3>4. tail \in 1 .. Len(List.nodes)
      <4>1. IsList(List) /\ Threads(List, o, m)
        BY <1>1 DEF Holding
      <4> QED BY <2>1, <2>2, <4>1, ThreadsParts
    <3>5. Len(fr) # 0
      BY <3>2, <3>3, <3>4
    <3> QED BY <1>4, <3>1, <3>5, EmptySeq
  <2>6. i = IF fr # <<>> THEN Last(fr) ELSE Len(l.nodes) + 1
    BY <1>3, <2>5
  <2>7. LruInv' /\ Walk' = <<[key |-> k, item |-> v]>> \o Entries(l, w, x)
    <3>1. n = [key |-> k, item |-> v, prev |-> Nil, next |-> Nil]
      BY <1>3
    <3>2. b = IF fr # <<>> THEN [l EXCEPT !.nodes[i] = n] ELSE [l EXCEPT !.nodes = Append(@, n)]
      BY <1>3
    <3> QED BY <1>4, <2>4, <2>5, <2>6, <3>1, <3>2, PutWithRoom
  <2>8. Front(Walk) = RemoveAt(Walk, m)
    BY <1>5, <2>1, FrontTakesOut
  <2>9. ~(Len(Walk) < Room)
    BY <1>5, <2>1, LruAssumption
  <2>10. Walk' = <<[key |-> k, item |-> v]>> \o Front(Walk)
    BY <1>5, <2>4, <2>7, <2>8
  <2> QED BY <1>7, <2>7, <2>9, <2>10 DEF RecencyOrder!Put, RecencyOrder!Front, Front
<1>10. CASE ~(m >= Room)
  <2>1. m < Room
    BY <1>5, <1>10, LruAssumption
  <2>2. l = List /\ so = slotOf /\ fr = free
    BY <1>3, <1>10
  <2>3. i = IF fr # <<>> THEN Last(fr) ELSE Len(l.nodes) + 1
    BY <1>3, <1>8, <2>2
  <2>4. Holding(l, o, m, so, fr) /\ k \notin DOMAIN so
    BY <1>1, <1>4, <2>2 DEF Cached
  <2>5. LruInv' /\ Walk' = <<[key |-> k, item |-> v]>> \o Entries(l, o, m)
    <3>1. n = [key |-> k, item |-> v, prev |-> Nil, next |-> Nil]
      BY <1>3
    <3>2. b = IF fr # <<>> THEN [l EXCEPT !.nodes[i] = n] ELSE [l EXCEPT !.nodes = Append(@, n)]
      BY <1>3
    <3> QED BY <1>4, <2>3, <2>4, <3>1, <3>2, PutWithRoom
  <2> QED BY <1>5, <1>7, <2>1, <2>2, <2>5 DEF RecencyOrder!Put
<1> QED BY <1>9, <1>10

\* A new cache is empty.
LEMMA LruInitInv ==
  ASSUME LruInit
  PROVE  LruInv /\ RecencyOrder!Init
<1>1. PICK o : o = [q \in 1 .. 0 |-> 0]
  OBVIOUS
<1>2. slotOf = <<>> /\ nodes = <<>> /\ free = <<>> /\ head = Nil /\ tail = Nil
  BY DEF LruInit
<1>3. List.nodes = <<>> /\ List.head = Nil /\ List.tail = Nil /\ IsList(List)
  BY <1>2, EmptySeq DEF List, IsList, Slab
<1>4. Len(<<>>) = 0 /\ <<>> \in Seq(1 .. 0) /\ DOMAIN <<>> = {}
  BY EmptySeq
<1>5. o \in [1 .. 0 -> 1 .. 0]
  BY <1>1
<1>6. Threads(List, o, 0)
  BY <1>3, <1>4, <1>5 DEF Threads, At
<1>7. Holding(List, o, 0, slotOf, free)
  BY <1>2, <1>3, <1>4, <1>6 DEF Holding
<1>8. Walk = Entries(List, o, 0)
  BY <1>7, WalkHolds
<1>9. Entries(List, o, 0) = <<>>
  BY DEF Entries
<1> QED BY <1>7, <1>8, <1>9 DEF LruInv, RecencyOrder!Init

\* Every step keeps the invariant, and is one of the abstract cache.
LEMMA LruStep ==
  ASSUME LruInv, [LruNext]_lruVars
  PROVE  LruInv' /\ [RecencyOrder!Next]_Walk
<1>1. CASE UNCHANGED lruVars
  BY <1>1 DEF lruVars, LruInv, List, Walk
<1>2. CASE LruNext
  <2>1. PICK k \in Keys : Get(k) \/ RemoveKey(k) \/ \E v \in Items : Replace(k, v) \/ Put(k, v)
    BY <1>2 DEF LruNext
  <2>2. CASE Get(k)
    BY <2>2, GetStep DEF RecencyOrder!Next
  <2>3. CASE RemoveKey(k)
    BY <2>3, RemoveStep DEF RecencyOrder!Next
  <2>4. ASSUME NEW v \in Items, Replace(k, v) \/ Put(k, v)
        PROVE  LruInv' /\ RecencyOrder!Put(k, v)
    BY <2>4, ReplaceStep, PutStep
  <2> QED BY <2>1, <2>2, <2>3, <2>4 DEF RecencyOrder!Next
<1> QED BY <1>1, <1>2

\* Each call does what the call of its name promises.
LEMMA LruCalls ==
  ASSUME LruInv
  PROVE  \A k \in Keys :
           /\ Get(k) => RecencyOrder!Get(k)
           /\ RemoveKey(k) => RecencyOrder!RemoveKey(k)
           /\ \A v \in Items : Replace(k, v) \/ Put(k, v) => RecencyOrder!Put(k, v)
BY GetStep, RemoveStep, ReplaceStep, PutStep

\* The LRU cache implements the abstract one: whatever the keys, items and the
\* capacity, each call of LruCache does what the call of its name promises.
THEOREM LruRefines == LruSpec => ImplementsRecencyCache
<1>1. LruInit => LruInv /\ RecencyOrder!Init
  BY LruInitInv
<1>2. LruInv /\ [LruNext]_lruVars => LruInv' /\ [RecencyOrder!Next]_Walk
  BY LruStep
<1>3. LruInv /\ [LruNext]_lruVars =>
        [lruVars' # lruVars => \A k \in Keys :
         /\ Get(k) => RecencyOrder!Get(k)
         /\ RemoveKey(k) => RecencyOrder!RemoveKey(k)
         /\ \A v \in Items : Replace(k, v) \/ Put(k, v) => RecencyOrder!Put(k, v)]_lruVars
  BY LruCalls
<1> QED BY <1>1, <1>2, <1>3, PTL DEF LruSpec, ImplementsRecencyCache, RecencyOrder!Spec

=============================================================================
