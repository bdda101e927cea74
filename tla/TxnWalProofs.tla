---------------------------- MODULE TxnWalProofs ----------------------------
(***************************************************************************)
(* Proofs about the write-ahead log and recovery: the log stays one run of *)
(* lsns, what a restart rebuilds out of any log never collides with the    *)
(* transactions that begin after it, and out of a serial history it        *)
(* rebuilds the committed database.                                        *)
(***************************************************************************)
EXTENDS TxnManagerProofs, TxnWal, FiniteSetTheorems

-----------------------------------------------------------------------------
(* The segments of the log.                                                *)

\* The first lsn a segment can hold, and the lsn after its last record: the log
\* starts at 0, and the first lsn is 1.
First(seg) == IF seg.start = 0 THEN 1 ELSE seg.start
End(seg) == First(seg) + Cardinality(seg.records)

\* A segment holds one record of each lsn from its first on.
Filled(seg) ==
  /\ seg = [start |-> seg.start, records |-> seg.records]
  /\ seg.start \in Nat /\ IsFiniteSet(seg.records)
  /\ LsnsOf(seg.records) = First(seg) .. End(seg) - 1
  /\ \A a, b \in seg.records : a.lsn = b.lsn => a = b

\* s is the last segment: the next record goes behind it.
Last(segs, s, next) == End(s) = next /\ \A u \in segs : u.start <= s.start

\* Of two segments the one that starts first ends where the other starts, or
\* before; one is the last, and each other is followed by one that starts where
\* it ends.
Chained(segs, next) ==
  /\ \A s, u \in segs : /\ s.start = u.start => s = u
                        /\ s.start < u.start => End(s) <= u.start
  /\ \E s \in segs : Last(segs, s, next)
  /\ \A s \in segs : \/ Last(segs, s, next)
                     \/ \E u \in segs : u.start = End(s) /\ s.start < u.start

\* Only a log without a record has an empty segment.
SegmentsSound(segs, next) ==
  /\ next \in Nat /\ next >= 1
  /\ \A seg \in segs : Filled(seg)
  /\ \A seg \in segs : seg.records # {} \/ (segs = {Segment(0)} /\ next = 1)
  /\ Chained(segs, next)

LEMMA FilledEnds ==
  ASSUME NEW seg, Filled(seg)
  PROVE  /\ First(seg) \in Nat /\ First(seg) >= 1 /\ seg.start <= First(seg)
         /\ Cardinality(seg.records) \in Nat /\ seg.start \in Nat
         /\ End(seg) \in Nat /\ End(seg) >= First(seg)
         /\ seg.records # {} => End(seg) > First(seg)
<1>1. seg.start \in Nat /\ Cardinality(seg.records) \in Nat
  BY FS_CardinalityType DEF Filled
<1>2. seg.records # {} => Cardinality(seg.records) # 0
  BY FS_EmptySet DEF Filled
<1> QED BY <1>1, <1>2 DEF First, End

LEMMA OpenIsLast ==
  ASSUME NEW segs, NEW next, SegmentsSound(segs, next)
  PROVE  Open(segs) \in segs /\ Last(segs, Open(segs), next)
<1>1. PICK s \in segs : Last(segs, s, next)
  BY DEF SegmentsSound, Chained
<1>2. Open(segs) \in segs /\ \A other \in segs : other.start <= Open(segs).start
  BY <1>1 DEF Open, Last
<1>3. s.start \in Nat /\ Open(segs).start \in Nat
  BY <1>2 DEF SegmentsSound, Filled
<1>4. s.start = Open(segs).start
  BY <1>1, <1>2, <1>3 DEF Last
<1>5. s = Open(segs)
  BY <1>1, <1>2, <1>4 DEF SegmentsSound, Chained
<1> QED BY <1>1, <1>5

\* The log whose segments are so is one run of lsns.
LEMMA ContiguousLog ==
  ASSUME SegmentsSound(segments, nextLsn)
  PROVE  LogIsContiguous
<1>1. nextLsn \in Nat /\ nextLsn >= 1
  BY DEF SegmentsSound
<1>2. \A seg \in segments : Filled(seg)
  BY DEF SegmentsSound
<1>3. ASSUME NEW n
      PROVE  n \in LsnsOf(Log) <=>
               \E seg \in segments : n \in First(seg) .. End(seg) - 1
  <2>1. n \in LsnsOf(Log) <=> \E seg \in segments : n \in LsnsOf(seg.records)
    BY DEF LsnsOf, Log
  <2> QED BY <1>2, <2>1 DEF Filled
<1>4. ASSUME nextLsn > 1
      PROVE  nextLsn - 1 \in LsnsOf(Log)
  <2>1. PICK s \in segments : End(s) = nextLsn /\ s.records # {}
    BY <1>1, <1>4 DEF SegmentsSound, Chained, Last
  <2>2. nextLsn - 1 \in First(s) .. End(s) - 1
    BY <1>1, <1>2, <1>4, <2>1, FilledEnds
  <2> QED BY <1>3, <2>2
<1>5. ASSUME NEW s \in segments
      PROVE  \/ End(s) = nextLsn
             \/ End(s) < nextLsn /\ End(s) \in LsnsOf(Log)
  <2>1. CASE End(s) = nextLsn
    BY <2>1
  <2>2. CASE \E u \in segments : u.start = End(s) /\ s.start < u.start
    <3>1. PICK u \in segments : u.start = End(s) /\ s.start < u.start
      BY <2>2
    <3>2. PICK last \in segments : End(last) = nextLsn /\ u.start <= last.start
      BY DEF SegmentsSound, Chained, Last
    <3>3. End(s) >= 1 /\ End(s) \in Nat /\ s.start \in Nat
      BY <1>2, FilledEnds
    <3>4. First(u) = End(s)
      BY <3>1, <3>3 DEF First
    <3>5. u.records # {}
      <4>1. s # u
        BY <3>1, <3>3
      <4> QED BY <4>1 DEF SegmentsSound
    <3>6. End(u) > First(u) /\ End(u) \in Nat /\ First(u) \in Nat
      BY <1>2, <3>5, FilledEnds
    <3>7. End(u) <= nextLsn
      <4>1. CASE u.start = last.start
        <5>1. u = last
          BY <4>1 DEF SegmentsSound, Chained
        <5> QED BY <1>1, <3>2, <5>1
      <4>2. CASE u.start < last.start
        <5>1. End(u) <= last.start
          BY <4>2 DEF SegmentsSound, Chained
        <5>2. last.start <= First(last) /\ First(last) <= End(last)
              /\ last.start \in Nat /\ First(last) \in Nat
          BY <1>2, FilledEnds
        <5> QED BY <1>1, <3>2, <3>6, <5>1, <5>2
      <4>3. u.start \in Nat /\ last.start \in Nat
        BY <1>2, FilledEnds
      <4> QED BY <3>2, <4>1, <4>2, <4>3
    <3>8. End(s) \in First(u) .. End(u) - 1
      BY <3>4, <3>6
    <3> QED BY <1>1, <1>3, <3>3, <3>4, <3>6, <3>7, <3>8
  <2> QED BY <2>1, <2>2 DEF SegmentsSound, Chained, Last
<1>6. ASSUME NEW n \in LsnsOf(Log)
      PROVE  n < nextLsn /\ (n + 1 = nextLsn \/ n + 1 \in LsnsOf(Log))
  <2>1. PICK s \in segments : n \in First(s) .. End(s) - 1
    BY <1>3
  <2>2. First(s) \in Nat /\ End(s) \in Nat
    BY <1>2, FilledEnds
  <2>3. CASE n + 1 = End(s)
    BY <1>1, <1>5, <2>1, <2>2, <2>3
  <2>4. CASE n + 1 # End(s)
    <3>1. n + 1 \in First(s) .. End(s) - 1
      BY <2>1, <2>2, <2>4
    <3> QED BY <1>1, <1>3, <1>5, <2>1, <2>2, <3>1
  <2> QED BY <2>3, <2>4
<1>7. ASSUME NEW a \in Log, NEW b \in Log, a.lsn = b.lsn
      PROVE  a = b
  <2>1. PICK s \in segments : a \in s.records
    BY DEF Log
  <2>2. PICK u \in segments : b \in u.records
    BY DEF Log
  <2>3. a.lsn \in First(s) .. End(s) - 1 /\ a.lsn \in First(u) .. End(u) - 1
    BY <1>2, <1>7, <2>1, <2>2 DEF Filled, LsnsOf
  <2>4. /\ s.start \in Nat /\ u.start \in Nat /\ End(s) \in Nat /\ End(u) \in Nat
        /\ First(s) \in Nat /\ First(u) \in Nat
        /\ s.start <= First(s) /\ u.start <= First(u)
    BY <1>2, FilledEnds
  <2>5. ~(s.start < u.start) /\ ~(u.start < s.start)
    BY <2>3, <2>4 DEF SegmentsSound, Chained
  <2>6. s = u
    BY <2>4, <2>5 DEF SegmentsSound, Chained
  <2> QED BY <1>2, <1>7, <2>1, <2>2, <2>6 DEF Filled
<1> QED BY <1>4, <1>6, <1>7 DEF LogIsContiguous

\* A record of the next lsn goes to the last segment, or to a new one behind it.
LEMMA AppendedSound ==
  ASSUME NEW segs, NEW next, SegmentsSound(segs, next), NEW rec, rec.lsn = next
  PROVE  SegmentsSound(Appended(segs, rec), next + 1)
<1> DEFINE last == Open(segs)
           grown == [start |-> last.start, records |-> last.records \cup {rec}]
           fresh == [start |-> rec.lsn, records |-> {rec}]
<1>1. /\ last \in segs /\ End(last) = next
      /\ \A s \in segs : s.start <= last.start
  BY OpenIsLast DEF Last
<1>2. /\ next \in Nat /\ next >= 1 /\ \A s \in segs : Filled(s)
      /\ \A s, u \in segs : /\ s.start = u.start => s = u
                            /\ s.start < u.start => End(s) <= u.start
      /\ \A s \in segs : \/ Last(segs, s, next)
                         \/ \E u \in segs : u.start = End(s) /\ s.start < u.start
  BY DEF SegmentsSound, Chained
<1>3. \A s \in segs : /\ s.start \in Nat /\ First(s) \in Nat /\ End(s) \in Nat
                      /\ s.start <= First(s) /\ First(s) <= End(s)
                      /\ Cardinality(s.records) \in Nat
                      /\ First(s) >= 1
  BY <1>2, FilledEnds
<1>4. CASE Cardinality(last.records) >= SegRecords
  <2>1. Appended(segs, rec) = segs \cup {fresh}
    BY <1>4 DEF Appended
  <2>2. Cardinality(last.records) # 0
    BY <1>1, <1>3, <1>4, WalAssumption
  <2>3. \A s \in segs : s.records # {}
    <3>1. last.records # {}
      BY <2>2, FS_EmptySet
    <3> QED BY <1>1, <3>1 DEF SegmentsSound, Segment
  <2>4. next > last.start
    BY <1>1, <1>2, <1>3, <2>2 DEF End
  <2>5. /\ fresh.start = next /\ fresh.records = {rec} /\ First(fresh) = next
        /\ Cardinality(fresh.records) = 1 /\ IsFiniteSet(fresh.records)
    <3>1. fresh.start = next /\ fresh.records = {rec}
      OBVIOUS
    <3>2. Cardinality(fresh.records) = 1 /\ IsFiniteSet(fresh.records)
      BY <3>1, FS_Singleton
    <3> QED BY <1>2, <3>1, <3>2 DEF First
  <2>6. End(fresh) = next + 1
    BY <1>2, <2>5 DEF End
  <2>7. Filled(fresh)
    <3>1. LsnsOf(fresh.records) = {next}
      BY <2>5 DEF LsnsOf
    <3>2. First(fresh) .. End(fresh) - 1 = {next}
      BY <1>2, <2>5, <2>6
    <3> QED BY <1>2, <2>5, <3>1, <3>2 DEF Filled
  <2> HIDE DEF last, fresh
  <2>8. \A s \in segs : s.start < next /\ End(s) <= next
    <3> SUFFICES ASSUME NEW s \in segs PROVE s.start < next /\ End(s) <= next
      OBVIOUS
    <3>1. s.start < next
      BY <1>1, <1>2, <1>3, <2>4
    <3>2. CASE s.start = last.start
      BY <1>1, <1>2, <3>1, <3>2
    <3>3. CASE s.start < last.start
      BY <1>1, <1>2, <1>3, <2>4, <3>1, <3>3
    <3> QED BY <1>1, <1>3, <3>2, <3>3
  <2>9. ASSUME NEW s \in segs
        PROVE  \E u \in segs \cup {fresh} : u.start = End(s) /\ s.start < u.start
    <3>1. CASE Last(segs, s, next)
      BY <2>5, <2>8, <3>1 DEF Last
    <3> QED BY <1>2, <3>1
  <2>10. Last(segs \cup {fresh}, fresh, next + 1)
    BY <1>2, <1>3, <2>5, <2>6, <2>8 DEF Last
  <2>11. Chained(segs \cup {fresh}, next + 1)
    <3>1. ASSUME NEW s \in segs \cup {fresh}, NEW u \in segs \cup {fresh}
          PROVE  /\ s.start = u.start => s = u
                 /\ s.start < u.start => End(s) <= u.start
      BY <1>2, <1>3, <2>5, <2>8
    <3> QED BY <2>9, <2>10, <3>1 DEF Chained
  <2> QED BY <1>2, <2>1, <2>3, <2>5, <2>7, <2>11 DEF SegmentsSound
<1>5. CASE ~(Cardinality(last.records) >= SegRecords)
  <2>1. last = [start |-> last.start, records |-> last.records]
    BY <1>1, <1>2 DEF Filled
  <2>2. Appended(segs, rec) = (segs \ {last}) \cup {grown}
    <3>1. [last EXCEPT !.records = @ \cup {rec}] = grown
      BY ONLY <2>1
    <3> QED BY <1>5, <3>1 DEF Appended
  <2>3. grown.start = last.start /\ grown.records = last.records \cup {rec}
    OBVIOUS
  <2>4. IsFiniteSet(last.records) /\ LsnsOf(last.records) = First(last) .. next - 1
        /\ \A a, b \in last.records : a.lsn = b.lsn => a = b
    BY <1>1, <1>2 DEF Filled
  <2>5. rec \notin last.records /\ \A a \in last.records : a.lsn # next
    BY <1>2, <1>1, <1>3, <2>4 DEF LsnsOf
  <2>6. /\ IsFiniteSet(grown.records)
        /\ Cardinality(grown.records) = Cardinality(last.records) + 1
    BY <2>3, <2>4, <2>5, FS_AddElement
  <2>7. First(grown) = First(last)
    BY <2>3 DEF First
  <2>8. End(grown) = next + 1
    BY <1>1, <1>3, <2>6, <2>7 DEF End
  <2>9. Filled(grown)
    <3>1. LsnsOf(grown.records) = LsnsOf(last.records) \cup {next}
      BY <2>3 DEF LsnsOf
    <3>2. First(last) .. next = (First(last) .. next - 1) \cup {next}
      BY <1>1, <1>2, <1>3
    <3>3. LsnsOf(grown.records) = First(grown) .. End(grown) - 1
      <4>1. End(grown) - 1 = next
        BY <1>2, <2>8
      <4>2. LsnsOf(last.records) = First(last) .. next - 1
        BY <2>4
      <4> HIDE DEF last, grown
      <4> QED BY <2>7, <3>1, <3>2, <4>1, <4>2
    <3>4. \A a, b \in grown.records : a.lsn = b.lsn => a = b
      BY <2>3, <2>4, <2>5
    <3> QED BY <1>1, <1>3, <2>3, <2>6, <3>3, <3>4 DEF Filled
  <2>10. ASSUME NEW s \in segs \ {last}
         PROVE  /\ s.start < last.start /\ End(s) <= last.start
                /\ s.records # {}
    <3>1. s.start < last.start /\ End(s) <= last.start
      BY <1>1, <1>2, <1>3
    <3> QED BY <1>1, <3>1 DEF SegmentsSound
  <2> HIDE DEF last, grown
  <2> DEFINE new == (segs \ {last}) \cup {grown}
  <2>11. ASSUME NEW s \in segs \ {last}
         PROVE  \E u \in new : u.start = End(s) /\ s.start < u.start
    <3>1. ~Last(segs, s, next)
      BY <1>1, <1>3, <2>10 DEF Last
    <3>2. PICK u \in segs : u.start = End(s) /\ s.start < u.start
      BY <1>2, <3>1
    <3> QED BY <2>3, <3>2
  <2>12. Last(new, grown, next + 1)
    BY <1>1, <2>3, <2>8 DEF Last
  <2>13. Chained(new, next + 1)
    <3>1. ASSUME NEW s \in new, NEW u \in new
          PROVE  /\ s.start = u.start => s = u
                 /\ s.start < u.start => End(s) <= u.start
      BY <1>1, <1>2, <1>3, <2>3, <2>10
    <3> QED BY <2>11, <2>12, <3>1 DEF Chained
  <2> QED BY <1>2, <2>2, <2>3, <2>9, <2>10, <2>13 DEF SegmentsSound
<1> QED BY <1>4, <1>5

\* A checkpoint drops old segments whole, and keeps the one of its marker.
LEMMA TruncatedSound ==
  ASSUME NEW segs, NEW next, SegmentsSound(segs, next), NEW lsn \in Nat, lsn + 1 < next
  PROVE  SegmentsSound(TruncatedBefore(segs, lsn), next)
<1> DEFINE kept == {seg \in segs : seg.start + Cardinality(seg.records) > lsn}
<1>1. /\ next \in Nat /\ next > 1 /\ \A s \in segs : Filled(s)
      /\ \A s \in segs : s.records # {}
      /\ \A s, u \in segs : /\ s.start = u.start => s = u
                            /\ s.start < u.start => End(s) <= u.start
      /\ \A s \in segs : \/ Last(segs, s, next)
                         \/ \E u \in segs : u.start = End(s) /\ s.start < u.start
  BY DEF SegmentsSound, Chained
<1>2. \A s \in segs : /\ s.start \in Nat /\ First(s) \in Nat /\ End(s) \in Nat
                      /\ s.start <= First(s) /\ First(s) <= End(s)
                      /\ Cardinality(s.records) \in Nat
  BY <1>1, FilledEnds
<1>3. \A s \in segs : /\ s.start + Cardinality(s.records) <= End(s)
                      /\ End(s) <= s.start + Cardinality(s.records) + 1
  BY <1>2 DEF First, End
<1>4. PICK last \in segs : Last(segs, last, next)
  BY DEF SegmentsSound, Chained
<1>5. last \in kept
  BY <1>1, <1>2, <1>3, <1>4 DEF Last
<1>6. TruncatedBefore(segs, lsn) = kept
  BY <1>5 DEF TruncatedBefore, NotEmpty
<1>7. ASSUME NEW s \in kept, NEW u \in segs, s.start < u.start
      PROVE  u \in kept
  <2>1. End(s) <= u.start
    BY <1>1, <1>7
  <2>2. u.start + Cardinality(u.records) > lsn
    BY <1>2, <1>3, <1>7, <2>1
  <2> QED BY <2>2
<1>8. \A s \in kept : Last(segs, s, next) => Last(kept, s, next)
  BY DEF Last
<1>9. Chained(kept, next)
  BY <1>1, <1>4, <1>5, <1>7, <1>8 DEF Chained
<1> QED BY <1>1, <1>6, <1>9 DEF SegmentsSound

-----------------------------------------------------------------------------
(* The log of the specification.                                           *)

LogInvariant == SegmentsSound(segments, nextLsn)

LEMMA InitLog == WalInit => LogInvariant
<1> SUFFICES ASSUME WalInit PROVE LogInvariant
  OBVIOUS
<1> DEFINE seg == Segment(0)
<1>1. segments = {seg} /\ nextLsn = 1 /\ seg = [start |-> 0, records |-> {}]
  BY DEF WalInit, Segment
<1>2. First(seg) = 1 /\ Cardinality(seg.records) = 0 /\ IsFiniteSet(seg.records)
  BY <1>1, FS_EmptySet DEF First
<1>3. End(seg) = 1
  BY <1>2 DEF End
<1>4. Filled(seg)
  BY <1>1, <1>2, <1>3 DEF Filled, LsnsOf
<1>5. Chained(segments, nextLsn)
  BY <1>1, <1>3 DEF Chained, Last
<1> QED BY <1>1, <1>4, <1>5 DEF LogInvariant, SegmentsSound

LEMMA JournalKeepsLog ==
  ASSUME LogInvariant, NEW t, NEW type, NEW payload, Journal(t, type, payload)
  PROVE  LogInvariant'
<1> DEFINE rec == [lsn |-> nextLsn, txn |-> t, type |-> type,
                   row |-> payload.row, value |-> payload.value]
<1>1. segments' = Appended(segments, rec) /\ nextLsn' = nextLsn + 1 /\ rec.lsn = nextLsn
  BY DEF Journal
<1>2. SegmentsSound(Appended(segments, rec), nextLsn + 1)
  BY <1>1, AppendedSound DEF LogInvariant
<1> QED BY <1>1, <1>2 DEF LogInvariant

LEMMA CheckpointKeepsLog ==
  ASSUME LogInvariant, Checkpoint
  PROVE  LogInvariant'
<1> DEFINE marker == [lsn |-> nextLsn, txn |-> 0, type |-> "Checkpoint",
                      row |-> NoPayload.row, value |-> NoPayload.value]
           marked == Appended(segments, marker)
<1>1. /\ segments' = IF nextLsn > 1 THEN TruncatedBefore(marked, nextLsn - 1) ELSE marked
      /\ nextLsn' = nextLsn + 1 /\ marker.lsn = nextLsn
  BY DEF Checkpoint
<1>2. SegmentsSound(marked, nextLsn + 1)
  BY <1>1, AppendedSound DEF LogInvariant
<1>3. nextLsn \in Nat /\ nextLsn >= 1
  BY DEF LogInvariant, SegmentsSound
<1>4. ASSUME nextLsn > 1
      PROVE  SegmentsSound(TruncatedBefore(marked, nextLsn - 1), nextLsn + 1)
  <2>1. nextLsn - 1 \in Nat /\ nextLsn - 1 + 1 < nextLsn + 1
    BY <1>3
  <2> QED BY <1>2, <2>1, TruncatedSound
<1> QED BY <1>1, <1>2, <1>4 DEF LogInvariant

LEMMA LogStep ==
  ASSUME LogInvariant, [WalNext]_allVars
  PROVE  LogInvariant'
<1>1. ASSUME UNCHANGED walVars PROVE LogInvariant'
  BY <1>1 DEF walVars, LogInvariant
<1>2. CASE UNCHANGED allVars
  BY <1>1, <1>2 DEF allVars
<1>3. CASE TransactionNext
  <2>1. PICK t \in TxnIds : \/ \E type, payload : Journal(t, type, payload)
                            \/ UNCHANGED walVars
    BY <1>3 DEF TransactionNext, LoggedBegin, LoggedCommit, LoggedAbort,
                LoggedWrite, LoggedDelete, Unlogged
  <2> QED BY <1>1, <2>1, JournalKeepsLog
<1>4. CASE UnloggedSavepoint \/ UnloggedLock \/ UnloggedCollect \/ Restart
  BY <1>1, <1>4 DEF UnloggedSavepoint, UnloggedLock, UnloggedCollect, Restart
<1>5. CASE Checkpoint
  BY <1>5, CheckpointKeepsLog
<1> QED BY <1>2, <1>3, <1>4, <1>5 DEF WalNext

-----------------------------------------------------------------------------
(* Least and greatest numbers.                                             *)

LEMMA LeastIsIn ==
  ASSUME NEW S \in SUBSET Nat, S # {}
  PROVE  \E m \in S : \A n \in S : m <= n
<1> DEFINE R == OpToRel(<, Nat)
<1>1. PICK x \in S : \A y \in S : ~(<<y, x>> \in R)
  <2> HIDE DEF R
  <2>1. IsWellFoundedOn(R, Nat)
    BY NatLessThanWellFounded DEF R
  <2> QED BY <2>1, WFMin
<1>2. ASSUME NEW y \in S PROVE x <= y
  <2>1. ~(y < x)
    BY <1>1 DEF OpToRel
  <2> QED BY <2>1
<1> QED BY <1>2

LEMMA MaxOfIs ==
  ASSUME NEW S \in SUBSET Nat, NEW N \in Nat, \A n \in S : n <= N
  PROVE  /\ MaxOf(S) \in S \cup {0} /\ MaxOf(S) \in 0 .. N
         /\ \A n \in S : n <= MaxOf(S)
<1> DEFINE T == {N - n : n \in S \cup {0}}
<1>1. T \in SUBSET Nat /\ T # {}
  OBVIOUS
<1>2. PICK x \in T : \A y \in T : x <= y
  <2> HIDE DEF T
  <2> QED BY <1>1, LeastIsIn
<1>3. PICK m \in S \cup {0} : x = N - m
  BY <1>2
<1>4. \A n \in S : n <= m
  <2> SUFFICES ASSUME NEW n \in S PROVE n <= m
    OBVIOUS
  <2>1. N - m <= N - n
    BY <1>2, <1>3
  <2> QED BY <2>1
<1>5. MaxOf(S) \in S \cup {0} /\ \A n \in S : n <= MaxOf(S)
  BY <1>4 DEF MaxOf
<1>6. \A n \in S \cup {0} : n \in 0 .. N
  OBVIOUS
<1> QED BY <1>5, <1>6

-----------------------------------------------------------------------------
(* The records of the log.                                                 *)

RecordsTyped ==
  /\ nextLsn <= MaxLsn + 1 /\ nextTxnId >= 1
  /\ \A rec \in Log :
       rec.txn \in TxnIds \cup {0} /\ rec.txn < nextTxnId /\ rec.value \in Cells

\* The log is finite: a record for each of its lsns.
LEMMA LogIsFinite ==
  ASSUME LogInvariant, RecordsTyped
  PROVE  /\ \A rec \in Log : rec.lsn \in 1 .. MaxLsn
         /\ \A a, b \in Log : a.lsn = b.lsn => a = b
         /\ IsFiniteSet(Log) /\ Cardinality(Log) <= MaxLsn
<1>1. LogIsContiguous
  BY ContiguousLog DEF LogInvariant
<1>2. nextLsn \in Nat
  BY DEF LogInvariant, SegmentsSound
<1>3. ASSUME NEW rec \in Log PROVE rec.lsn \in 1 .. MaxLsn
  <2>1. PICK s \in segments : rec \in s.records
    BY DEF Log
  <2>2. rec.lsn \in First(s) .. End(s) - 1 /\ First(s) \in Nat /\ First(s) >= 1 /\ End(s) \in Nat
    BY <2>1, FilledEnds DEF LogInvariant, SegmentsSound, Filled, LsnsOf
  <2>3. rec.lsn < nextLsn
    BY <1>1 DEF LogIsContiguous, LsnsOf
  <2> QED BY <1>2, <2>2, <2>3, WalAssumption DEF RecordsTyped
<1>4. \A a, b \in Log : a.lsn = b.lsn => a = b
  BY <1>1 DEF LogIsContiguous
<1> DEFINE lsnOf == [rec \in Log |-> rec.lsn]
<1>5. lsnOf \in Injection(Log, 1 .. MaxLsn)
  BY <1>3, <1>4 DEF Injection, IsInjective
<1>6. IsFiniteSet(1 .. MaxLsn) /\ Cardinality(1 .. MaxLsn) = MaxLsn
  BY FS_Interval, WalAssumption
<1>7. IsFiniteSet(Log) /\ Cardinality(Log) <= MaxLsn
  BY <1>5, <1>6, FS_Injection
<1> QED BY <1>3, <1>4, <1>7

\* Each transaction to replay committed in a record of its own.
LEMMA ReplayableIsFinite ==
  ASSUME LogInvariant, RecordsTyped
  PROVE  /\ IsFiniteSet(Replayable) /\ Cardinality(Replayable) \in 0 .. MaxLsn
         /\ Replayable \subseteq TxnIds
<1> DEFINE commitOf(t) == CHOOSE rec \in LogOf("Commit") : rec.txn = t
           lsnOf == [t \in Replayable |-> commitOf(t).lsn]
<1>1. \A t \in Replayable : commitOf(t) \in Log /\ commitOf(t).txn = t
  BY DEF Replayable, LogOf
<1>2. lsnOf \in Injection(Replayable, 1 .. MaxLsn)
  <2> HIDE DEF commitOf
  <2>1. lsnOf \in [Replayable -> 1 .. MaxLsn]
    BY <1>1, LogIsFinite
  <2>2. ASSUME NEW a \in Replayable, NEW b \in Replayable, lsnOf[a] = lsnOf[b]
        PROVE  a = b
    BY <1>1, <2>2, LogIsFinite
  <2> QED BY <2>1, <2>2 DEF Injection, IsInjective
<1>3. IsFiniteSet(1 .. MaxLsn) /\ Cardinality(1 .. MaxLsn) = MaxLsn
  BY FS_Interval, WalAssumption
<1>4. IsFiniteSet(Replayable) /\ Cardinality(Replayable) <= MaxLsn
  BY <1>2, <1>3, FS_Injection
<1> QED BY <1>4, FS_CardinalityType, WalAssumption DEF Replayable

\* Commit timestamps of recovery grow with the ids of the transactions.
LEMMA RecoveredTimes ==
  ASSUME LogInvariant, RecordsTyped, NEW t \in Replayable
  PROVE  /\ RecoveredTs(t) \in 1 .. Cardinality(Replayable)
         /\ \A u \in Replayable : t <= u => RecoveredTs(t) <= RecoveredTs(u)
<1> DEFINE before(u) == {x \in Replayable : x < u}
<1>1. IsFiniteSet(Replayable) /\ Cardinality(Replayable) \in Nat /\ Replayable \subseteq Nat
  <2>1. IsFiniteSet(Replayable) /\ Replayable \subseteq TxnIds
    BY ReplayableIsFinite
  <2> QED BY <2>1, FS_CardinalityType, TxnIdsAssumption
<1>2. \A u : IsFiniteSet(before(u)) /\ Cardinality(before(u)) \in Nat
  BY <1>1, FS_Subset, FS_CardinalityType
<1>3. Cardinality(before(t)) < Cardinality(Replayable)
  <2>1. before(t) \in SUBSET (Replayable \ {t})
    BY <1>1
  <2>2. /\ IsFiniteSet(Replayable \ {t})
        /\ Cardinality(Replayable \ {t}) = Cardinality(Replayable) - 1
    BY <1>1, FS_RemoveElement
  <2>3. Cardinality(before(t)) <= Cardinality(Replayable \ {t})
    BY <2>1, <2>2, FS_Subset
  <2> HIDE DEF before
  <2> QED BY <1>1, <1>2, <2>2, <2>3
<1>4. ASSUME NEW u \in Replayable, t <= u
      PROVE  Cardinality(before(t)) <= Cardinality(before(u))
  <2>1. \A x \in Replayable : x < t => x < u
    BY <1>1, <1>4
  <2>2. before(t) \in SUBSET before(u)
    BY <2>1
  <2> QED BY <1>2, <2>2, FS_Subset
<1>5. \A u : RecoveredTs(u) = 1 + Cardinality(before(u))
  BY DEF RecoveredTs
<1> HIDE DEF before
<1> QED BY <1>1, <1>2, <1>3, <1>4, <1>5

-----------------------------------------------------------------------------
(* What a restart makes of the log.                                        *)

OnRow(r) == {rec \in Replayed : rec.row = r}
Earlier(r, rec) == {a \in OnRow(r) : ReplayedBefore(a, rec)}
Later(r, rec) == {b \in OnRow(r) : ReplayedBefore(rec, b)}
NextOf(r, rec) == CHOOSE b \in Later(r, rec) : Later(r, rec) \ {b} = Later(r, b)

RecoveredVersion(r, rec) ==
  [value |-> rec.value, begin |-> RecoveredTs(rec.txn),
   end |-> IF Later(r, rec) = {} THEN TsInf ELSE RecoveredTs(NextOf(r, rec).txn),
   writer |-> rec.txn, committed |-> TRUE, pos |-> Cardinality(Earlier(r, rec)) + 1]

LEMMA RecoveredVersions ==
  ASSUME NEW r
  PROVE  RecoveredChain(r) = {RecoveredVersion(r, rec) : rec \in OnRow(r)}
BY DEF RecoveredChain, RecoveredVersion, OnRow, Earlier, Later, NextOf

\* Replay is a total order of the records of a row.
LEMMA ReplayOrder ==
  ASSUME LogInvariant, RecordsTyped, NEW r
  PROVE  /\ OnRow(r) \subseteq Log
         /\ \A a \in OnRow(r) : a.txn \in Replayable /\ a.txn \in Nat /\ a.lsn \in Nat
         /\ \A a, b \in OnRow(r) : a = b \/ ReplayedBefore(a, b) \/ ReplayedBefore(b, a)
<1>1. OnRow(r) \subseteq Log /\ \A a \in OnRow(r) : a.txn \in Replayable
  BY DEF OnRow, Replayed, LogOf
<1>2. \A a \in OnRow(r) : a.txn \in Nat /\ a.lsn \in Nat
  BY <1>1, LogIsFinite, ReplayableIsFinite, TxnIdsAssumption
<1>3. \A a, b \in OnRow(r) : a.lsn = b.lsn => a = b
  BY <1>1, LogIsFinite
<1> QED BY <1>1, <1>2, <1>3 DEF ReplayedBefore

\* The version that closes another is of the record replayed next.
LEMMA NextIsLeast ==
  ASSUME LogInvariant, RecordsTyped, NEW r, NEW rec \in OnRow(r), Later(r, rec) # {}
  PROVE  /\ NextOf(r, rec) \in Later(r, rec)
         /\ \A b \in Later(r, rec) : b = NextOf(r, rec) \/ ReplayedBefore(NextOf(r, rec), b)
<1> DEFINE L == Later(r, rec)
<1>1. /\ L \subseteq OnRow(r) /\ \A b \in L : ReplayedBefore(rec, b)
      /\ \A a \in OnRow(r) : a.txn \in Nat /\ a.lsn \in Nat
  BY ReplayOrder DEF Later
<1>2. PICK txn \in {b.txn : b \in L} : \A n \in {b.txn : b \in L} : txn <= n
  <2>1. {b.txn : b \in L} \in SUBSET Nat /\ {b.txn : b \in L} # {}
    BY <1>1
  <2> QED BY <2>1, LeastIsIn
<1> DEFINE ofTxn == {b \in L : b.txn = txn}
<1>3. PICK lsn \in {b.lsn : b \in ofTxn} : \A n \in {b.lsn : b \in ofTxn} : lsn <= n
  <2>1. {b.lsn : b \in ofTxn} \in SUBSET Nat /\ {b.lsn : b \in ofTxn} # {}
    BY <1>1, <1>2
  <2> QED BY <2>1, LeastIsIn
<1>4. PICK least \in L : least.txn = txn /\ least.lsn = lsn
  BY <1>3
<1>5. ASSUME NEW b \in L, ReplayedBefore(b, least) PROVE FALSE
  <2>1. b.txn \in Nat /\ b.lsn \in Nat /\ txn \in Nat /\ lsn \in Nat
    BY <1>1, <1>4
  <2>2. txn <= b.txn
    BY <1>2
  <2>3. b.txn = txn => lsn <= b.lsn
    BY <1>3
  <2>4. b.txn < txn \/ (b.txn = txn /\ b.lsn < lsn)
    BY <1>4, <1>5 DEF ReplayedBefore
  <2> HIDE DEF L, ofTxn
  <2> QED BY <2>1, <2>2, <2>3, <2>4
<1>6. \A b \in L : b = least \/ ReplayedBefore(least, b)
  BY <1>1, <1>5, ReplayOrder
<1>7. L \ {least} = Later(r, least)
  <2>1. \A b \in Later(r, least) : b \in L /\ b # least
    BY <1>1, <1>4 DEF Later, ReplayedBefore
  <2> QED BY <1>1, <1>6, <2>1 DEF Later
<1>8. NextOf(r, rec) \in L /\ L \ {NextOf(r, rec)} = Later(r, NextOf(r, rec))
  BY <1>4, <1>7 DEF NextOf
<1> QED BY <1>8 DEF Later

\* The recovered versions of a row are versions, finished in the past and apart.
LEMMA RecoveredRow ==
  ASSUME LogInvariant, RecordsTyped, NEW r
  PROVE  /\ RecoveredChain(r) \subseteq Versions
         /\ \A v \in RecoveredChain(r) :
              /\ v.begin <= Cardinality(Replayable) /\ v.begin <= v.end
              /\ v.end = TsInf \/ v.end <= Cardinality(Replayable)
              /\ \E rec \in Log : v.writer = rec.txn
         /\ \A v, w \in RecoveredChain(r) : v = w \/ v.end <= w.begin \/ w.end <= v.begin
<1> DEFINE N == Cardinality(Replayable)
           V(rec) == RecoveredVersion(r, rec)
<1>1. N \in 0 .. MaxLsn /\ N < TsInf /\ N \in Nat /\ Replayable \subseteq TxnIds
  BY ReplayableIsFinite, WalAssumption, TsInfAssumption
<1>2. ASSUME NEW rec \in OnRow(r)
      PROVE  /\ V(rec).begin = RecoveredTs(rec.txn) /\ V(rec).writer = rec.txn
             /\ V(rec).end = IF Later(r, rec) = {} THEN TsInf
                             ELSE RecoveredTs(NextOf(r, rec).txn)
  BY DEF RecoveredVersion
<1>3. \A a \in OnRow(r) : /\ a \in Log /\ a.txn \in Replayable /\ a.txn \in Nat
                           /\ RecoveredTs(a.txn) \in 1 .. N
  BY ReplayOrder, RecoveredTimes
<1>4. ASSUME NEW a \in OnRow(r), NEW b \in OnRow(r), ReplayedBefore(a, b)
      PROVE  a.txn <= b.txn /\ RecoveredTs(a.txn) <= RecoveredTs(b.txn)
  <2>1. a.txn <= b.txn
    BY <1>3, <1>4 DEF ReplayedBefore
  <2> QED BY <1>3, <2>1, RecoveredTimes
<1>5. ASSUME NEW rec \in OnRow(r), Later(r, rec) # {}
      PROVE  /\ V(rec).end \in 1 .. N /\ V(rec).begin <= V(rec).end
             /\ \A b \in Later(r, rec) : V(rec).end <= V(b).begin
  <2> DEFINE next == NextOf(r, rec)
  <2>1. /\ next \in Later(r, rec)
        /\ \A b \in Later(r, rec) : b = next \/ ReplayedBefore(next, b)
    BY <1>5, NextIsLeast
  <2>2. next \in OnRow(r) /\ ReplayedBefore(rec, next)
    BY <2>1 DEF Later
  <2>3. V(rec).end = RecoveredTs(next.txn) /\ V(rec).begin = RecoveredTs(rec.txn)
    BY <1>2, <1>5
  <2> HIDE DEF next, V
  <2>4. \A b \in Later(r, rec) : b \in OnRow(r) /\ V(b).begin = RecoveredTs(b.txn)
    BY <1>2 DEF Later, V
  <2>5. \A b \in Later(r, rec) : RecoveredTs(next.txn) <= RecoveredTs(b.txn)
    BY <1>3, <1>4, <2>1, <2>2, <2>4
  <2> QED BY <1>3, <1>4, <2>2, <2>3, <2>4, <2>5
<1>6. ASSUME NEW rec \in OnRow(r)
      PROVE  /\ V(rec) \in Versions
             /\ V(rec).begin <= N /\ V(rec).begin <= V(rec).end
             /\ V(rec).end = TsInf \/ V(rec).end <= N
             /\ V(rec).writer = rec.txn /\ rec \in Log
  <2>1. V(rec).begin \in 1 .. N
    BY <1>2, <1>3
  <2>2. /\ V(rec).end = TsInf \/ V(rec).end \in 1 .. N
        /\ V(rec).begin <= V(rec).end
    <3>1. CASE Later(r, rec) = {}
      <4>1. V(rec).end = TsInf
        BY <1>2, <3>1
      <4> HIDE DEF V, N
      <4> QED BY <1>1, <2>1, <4>1, TsInfAssumption
    <3>2. CASE Later(r, rec) # {}
      BY <1>5, <3>2
    <3> QED BY <3>1, <3>2
  <2>3. Cardinality(Earlier(r, rec)) + 1 \in 1 .. MaxPos
    <3>1. Earlier(r, rec) \in SUBSET (Log \ {rec})
      BY <1>3, ReplayOrder DEF Earlier, ReplayedBefore
    <3>2. IsFiniteSet(Log) /\ Cardinality(Log) \in Nat /\ Cardinality(Log) <= MaxLsn
      BY LogIsFinite, FS_CardinalityType
    <3>3. IsFiniteSet(Log \ {rec}) /\ Cardinality(Log \ {rec}) = Cardinality(Log) - 1
      BY <1>3, <3>2, FS_RemoveElement
    <3>4. /\ Cardinality(Earlier(r, rec)) <= Cardinality(Log \ {rec})
          /\ Cardinality(Earlier(r, rec)) \in Nat
      BY <3>1, <3>3, FS_Subset, FS_CardinalityType
    <3> QED BY <3>2, <3>3, <3>4, WalAssumption, MaxUndoAssumption
  <2>4. rec.value \in Cells /\ rec.txn \in TxnIds
    BY <1>1, <1>3 DEF RecordsTyped
  <2>5. V(rec).begin \in Timestamps /\ V(rec).end \in Timestamps
    BY <1>1, <2>1, <2>2, TsInfAssumption DEF Timestamps
  <2>6. V(rec) = [value |-> rec.value, begin |-> V(rec).begin, end |-> V(rec).end,
                  writer |-> rec.txn, committed |-> TRUE,
                  pos |-> Cardinality(Earlier(r, rec)) + 1]
    BY DEF RecoveredVersion
  <2> HIDE DEF V
  <2>7. V(rec) \in Versions
    <3>1. \A begin, end \in Timestamps, pos \in 1 .. MaxPos :
            [value |-> rec.value, begin |-> begin, end |-> end, writer |-> rec.txn,
             committed |-> TRUE, pos |-> pos] \in Versions
      BY <2>4 DEF Versions
    <3> QED BY <2>3, <2>5, <2>6, <3>1
  <2> QED BY <1>1, <1>2, <1>3, <2>1, <2>2, <2>6, <2>7 DEF V
<1>7. ASSUME NEW a \in OnRow(r), NEW b \in OnRow(r), ReplayedBefore(a, b)
      PROVE  V(a).end <= V(b).begin
  <2>1. b \in Later(r, a)
    BY <1>7 DEF Later
  <2> QED BY <1>5, <2>1
<1>8. RecoveredChain(r) = {V(rec) : rec \in OnRow(r)}
  BY RecoveredVersions
<1> HIDE DEF V, N
<1>9. \A a, b \in OnRow(r) : V(a) = V(b) \/ V(a).end <= V(b).begin \/ V(b).end <= V(a).begin
  BY <1>7, ReplayOrder
<1> QED BY <1>6, <1>8, <1>9 DEF N

-----------------------------------------------------------------------------
(* The manager over its log.                                               *)

\* A step of the manager with its log is a step of the manager or a restart.
LEMMA WalSteps == [WalNext]_allVars => [Next]_vars \/ Restart
<1> SUFFICES ASSUME [WalNext]_allVars PROVE [Next]_vars \/ Restart
  OBVIOUS
<1>1. CASE TransactionNext
  <2>1. PICK t \in TxnIds :
          \/ \E level \in Isolations : LoggedBegin(t, level)
          \/ LoggedCommit(t)
          \/ LoggedAbort(t)
          \/ \E r \in Rows :
               \/ \E c \in Values : LoggedWrite(t, r, c)
               \/ LoggedDelete(t, r)
               \/ Unlogged(t, r)
    BY <1>1 DEF TransactionNext
  <2>2. LifecycleNext \/ StatementNext
    BY <2>1 DEF LoggedBegin, LoggedCommit, LoggedAbort, LoggedWrite, LoggedDelete, Unlogged,
                LifecycleNext, StatementNext
  <2> QED BY <2>2 DEF Next
<1>2. CASE UnloggedSavepoint \/ UnloggedLock \/ UnloggedCollect \/ Checkpoint
  BY <1>2 DEF UnloggedSavepoint, UnloggedLock, UnloggedCollect, Checkpoint, Next
<1>3. CASE UNCHANGED allVars
  BY <1>3 DEF allVars
<1> QED BY <1>1, <1>2, <1>3 DEF WalNext

\* Types, locks, lifetimes and the log: what a restart, too, establishes.
RecoveryInv ==
  /\ TypeInv /\ LocksHeldByActive /\ PastLifetimes /\ WritersKnown
  /\ LogInvariant /\ RecordsTyped

LEMMA InitRecovery == WalInit => RecoveryInv
<1> SUFFICES ASSUME WalInit PROVE RecoveryInv
  OBVIOUS
<1>1. Init /\ segments = {Segment(0)} /\ nextLsn = 1
  BY DEF WalInit
<1>2. RecordsTyped
  BY <1>1, WalAssumption DEF Init, RecordsTyped, Log, Segment
<1>3. PastLifetimes /\ WritersKnown
  BY <1>1 DEF Init, PastLifetimes, CommittedInThePast, DisjointLifetimes, Committed, WritersKnown
<1> QED BY <1>1, <1>2, <1>3, InitType, InitLocks, InitLog DEF RecoveryInv

\* An appended record is the only new one.
LEMMA AppendedRecords ==
  ASSUME NEW segs, NEW next, SegmentsSound(segs, next), NEW rec,
         NEW seg \in Appended(segs, rec), NEW a \in seg.records
  PROVE  a = rec \/ \E s \in segs : a \in s.records
<1> DEFINE last == Open(segs)
<1>1. last \in segs /\ last = [start |-> last.start, records |-> last.records]
  BY OpenIsLast DEF SegmentsSound, Filled
<1>2. [last EXCEPT !.records = @ \cup {rec}]
        = [start |-> last.start, records |-> last.records \cup {rec}]
  BY ONLY <1>1
<1>3. \/ seg \in segs
      \/ seg.records = {rec}
      \/ seg.records = last.records \cup {rec}
  BY <1>2 DEF Appended
<1> QED BY <1>1, <1>3

LEMMA JournalKeepsRecords ==
  ASSUME LogInvariant, RecordsTyped, NEW t \in TxnIds, NEW type, NEW payload,
         Journal(t, type, payload), payload.value \in Cells,
         nextTxnId \in Nat, nextTxnId' \in Nat, nextTxnId <= nextTxnId', t < nextTxnId'
  PROVE  RecordsTyped'
<1> DEFINE new == [lsn |-> nextLsn, txn |-> t, type |-> type,
                   row |-> payload.row, value |-> payload.value]
<1>1. segments' = Appended(segments, new) /\ nextLsn' = nextLsn + 1 /\ nextLsn <= MaxLsn
  BY DEF Journal
<1>2. nextLsn \in Nat /\ SegmentsSound(segments, nextLsn)
  BY DEF LogInvariant, SegmentsSound
<1>3. new.txn = t /\ new.value = payload.value
  OBVIOUS
<1> HIDE DEF new
<1>4. ASSUME NEW rec \in Log'
      PROVE  rec.txn \in TxnIds \cup {0} /\ rec.txn < nextTxnId' /\ rec.value \in Cells
  <2>1. PICK seg \in Appended(segments, new) : rec \in seg.records
    BY <1>1 DEF Log
  <2>2. rec = new \/ rec \in Log
    BY <1>2, <2>1, AppendedRecords DEF Log
  <2>3. CASE rec = new
    BY <1>3, <2>3
  <2>4. CASE rec \in Log
    <3>1. rec.txn \in TxnIds \cup {0} /\ rec.txn < nextTxnId /\ rec.value \in Cells
      BY <2>4 DEF RecordsTyped
    <3>2. \A x \in TxnIds \cup {0} : x < nextTxnId => x < nextTxnId'
      BY TxnIdsAssumption
    <3> QED BY <3>1, <3>2
  <2> QED BY <2>2, <2>3, <2>4
<1> QED BY <1>1, <1>2, <1>4, WalAssumption DEF RecordsTyped

LEMMA CheckpointKeepsRecords ==
  ASSUME LogInvariant, RecordsTyped, Checkpoint,
         nextTxnId \in Nat, nextTxnId' \in Nat, nextTxnId <= nextTxnId'
  PROVE  RecordsTyped'
<1> DEFINE marker == [lsn |-> nextLsn, txn |-> 0, type |-> "Checkpoint",
                      row |-> NoPayload.row, value |-> NoPayload.value]
           marked == Appended(segments, marker)
<1>1. /\ segments' = IF nextLsn > 1 THEN TruncatedBefore(marked, nextLsn - 1) ELSE marked
      /\ nextLsn' = nextLsn + 1 /\ nextLsn <= MaxLsn
  BY DEF Checkpoint
<1>2. nextLsn \in Nat /\ SegmentsSound(segments, nextLsn)
  BY DEF LogInvariant, SegmentsSound
<1>3. marker.txn = 0 /\ marker.value \in Cells
  BY DEF NoPayload, Cells
<1>4. \A s \in segments' : s \in marked \/ s.records = {}
  BY <1>1 DEF TruncatedBefore, NotEmpty, Segment
<1> HIDE DEF marker
<1>5. ASSUME NEW rec \in Log'
      PROVE  rec.txn \in TxnIds \cup {0} /\ rec.txn < nextTxnId' /\ rec.value \in Cells
  <2>0. 0 < nextTxnId'
    BY DEF RecordsTyped
  <2>1. PICK seg \in marked : rec \in seg.records
    BY <1>4 DEF Log
  <2>2. rec = marker \/ rec \in Log
    BY <1>2, <2>1, AppendedRecords DEF Log
  <2>3. CASE rec = marker
    BY <1>3, <2>0, <2>3
  <2>4. CASE rec \in Log
    <3>1. rec.txn \in TxnIds \cup {0} /\ rec.txn < nextTxnId /\ rec.value \in Cells
      BY <2>4 DEF RecordsTyped
    <3>2. \A x \in TxnIds \cup {0} : x < nextTxnId => x < nextTxnId'
      BY TxnIdsAssumption
    <3> QED BY <3>1, <3>2
  <2> QED BY <2>2, <2>3, <2>4
<1> QED BY <1>1, <1>2, <1>5, WalAssumption DEF RecordsTyped

\* A transaction that writes a record has an id the allocator handed out.
LEMMA JournalledStep ==
  ASSUME TypeInv, TransactionNext
  PROVE  \/ UNCHANGED walVars
         \/ \E t \in TxnIds : \E type, payload :
              Journal(t, type, payload) /\ payload.value \in Cells /\ t < nextTxnId'
<1> OtherFields /\ FreshIds
  BY TypeOKParts DEF TypeInv
<1> USE DEF clockVars, idVars, endVars, viewVars, setVars, undoVars, lockVars
<1>1. \A t \in TxnIds : state[t] # "Unknown" => t < nextTxnId
  <2> SUFFICES ASSUME NEW t \in TxnIds, state[t] # "Unknown" PROVE t < nextTxnId
    OBVIOUS
  <2>1. ~(t >= nextTxnId) /\ t \in Nat /\ nextTxnId \in Nat
    BY TxnIdsAssumption DEF FreshIds, OtherFields
  <2> QED BY <2>1
<1>2. NoPayload.value \in Cells
  BY DEF NoPayload, Cells
<1>3. PICK t \in TxnIds :
        \/ \E level \in Isolations : LoggedBegin(t, level)
        \/ LoggedCommit(t)
        \/ LoggedAbort(t)
        \/ \E r \in Rows :
             \/ \E c \in Values : LoggedWrite(t, r, c)
             \/ LoggedDelete(t, r)
             \/ Unlogged(t, r)
  BY DEF TransactionNext
<1>4. ASSUME NEW level \in Isolations, LoggedBegin(t, level)
      PROVE  Journal(t, "Begin", NoPayload) /\ t < nextTxnId'
  BY <1>4, TxnIdsAssumption DEF LoggedBegin, Begin, OtherFields
<1>5. ASSUME LoggedCommit(t)
      PROVE  Journal(t, "Commit", NoPayload) /\ t < nextTxnId'
  BY <1>1, <1>5 DEF LoggedCommit, Commit, IsLive, Live
<1>6. ASSUME LoggedAbort(t)
      PROVE  Journal(t, "Abort", NoPayload) /\ t < nextTxnId'
  BY <1>1, <1>6 DEF LoggedAbort, CommitConflict, Rollback, UndoAll, IsLive, Live
<1>7. ASSUME NEW r \in Rows, NEW c \in Values, LoggedWrite(t, r, c)
      PROVE  \E type, payload :
               Journal(t, type, payload) /\ payload.value \in Cells /\ t < nextTxnId'
  <2>1. t < nextTxnId'
    BY <1>1, <1>7 DEF LoggedWrite, Insert, Update, Write, IsLive, Live
  <2>2. [row |-> r, value |-> c].value \in Cells
    BY DEF Cells
  <2> QED BY <1>7, <2>1, <2>2 DEF LoggedWrite
<1>8. ASSUME NEW r \in Rows, LoggedDelete(t, r)
      PROVE  \E type, payload :
               Journal(t, type, payload) /\ payload.value \in Cells /\ t < nextTxnId'
  <2>1. t < nextTxnId'
    BY <1>1, <1>8 DEF LoggedDelete, Delete, Write, IsLive, Live
  <2>2. [row |-> r, value |-> Absent].value \in Cells
    BY DEF Cells
  <2> QED BY <1>8, <2>1, <2>2 DEF LoggedDelete
<1>9. \A r : Unlogged(t, r) => UNCHANGED walVars
  BY DEF Unlogged
<1> QED BY <1>2, <1>3, <1>4, <1>5, <1>6, <1>7, <1>8, <1>9

LEMMA StepKeepsRecovery ==
  ASSUME RecoveryInv, [WalNext]_allVars, [Next]_vars
  PROVE  RecoveryInv'
<1>1. TypeInv' /\ LocksHeldByActive' /\ WritersKnown'
  BY NextType, NextLocks, KnownStep DEF RecoveryInv
<1>2. ActiveIsLive
  BY DEF RecoveryInv, LocksHeldByActive
<1>3. PastLifetimes'
  BY <1>1, <1>2, LifetimesStep DEF RecoveryInv
<1>4. LogInvariant'
  BY LogStep DEF RecoveryInv
<1>5. /\ nextTxnId \in Nat /\ nextTxnId' \in Nat /\ nextTxnId <= nextTxnId'
  BY <1>1, FrameOfNext, TypeOKParts, TypeOKPartsPrime DEF RecoveryInv, TypeInv, OtherFields, Frame
<1>6. RecordsTyped'
  <2>1. ASSUME UNCHANGED walVars PROVE RecordsTyped'
    <3>1. \A x \in TxnIds \cup {0} : x < nextTxnId => x < nextTxnId'
      BY <1>5, TxnIdsAssumption
    <3>2. Log' = Log /\ nextLsn' = nextLsn
      BY <2>1 DEF walVars, Log
    <3> QED BY <1>5, <3>1, <3>2 DEF RecoveryInv, RecordsTyped
  <2>2. CASE TransactionNext
    BY <1>5, <2>1, <2>2, JournalledStep, JournalKeepsRecords DEF RecoveryInv
  <2>3. CASE Checkpoint
    BY <1>5, <2>3, CheckpointKeepsRecords DEF RecoveryInv
  <2>4. CASE UnloggedSavepoint \/ UnloggedLock \/ UnloggedCollect \/ Restart
    BY <2>1, <2>4 DEF UnloggedSavepoint, UnloggedLock, UnloggedCollect, Restart
  <2>5. CASE UNCHANGED allVars
    BY <2>1, <2>5 DEF allVars
  <2> QED BY <2>2, <2>3, <2>4, <2>5 DEF WalNext
<1> QED BY <1>1, <1>3, <1>4, <1>6 DEF RecoveryInv

\* The clock and the allocator of recovery are past every record.
LEMMA RecoveredCounters ==
  ASSUME RecoveryInv
  PROVE  /\ RecoveredNextId \in Nat /\ RecoveredNextId >= 1
         /\ \A rec \in Log : rec.txn < RecoveredNextId
         /\ LET ts == MaxOf({1 + Cardinality(Replayable), MaxOf(LsnsOf(Log)) + 1})
            IN  ts \in Nat /\ ts < TsInf /\ Cardinality(Replayable) < ts
<1>1. /\ LogInvariant /\ RecordsTyped /\ nextTxnId \in Nat
  BY TypeOKParts DEF RecoveryInv, TypeInv, OtherFields
<1> DEFINE ids == {rec.txn : rec \in Log}
           lsns == LsnsOf(Log)
           count == Cardinality(Replayable)
<1>2. ids \in SUBSET Nat /\ \A n \in ids : n <= nextTxnId
  <2>1. \A x \in TxnIds \cup {0} : x \in Nat /\ (x < nextTxnId => x <= nextTxnId)
    BY <1>1, TxnIdsAssumption
  <2> QED BY <1>1, <2>1 DEF RecordsTyped
<1>3. lsns \in SUBSET Nat /\ \A n \in lsns : n <= MaxLsn
  BY <1>1, LogIsFinite DEF LsnsOf
<1>4. count \in 0 .. MaxLsn
  BY <1>1, ReplayableIsFinite
<1> HIDE DEF ids, lsns, count
<1>5. MaxOf(ids) \in Nat /\ \A n \in ids : n <= MaxOf(ids)
  BY <1>1, <1>2, MaxOfIs
<1>6. MaxOf(lsns) \in 0 .. MaxLsn
  BY <1>3, MaxOfIs, WalAssumption
<1>7. /\ MaxOf({1, MaxOf(ids) + 1}) \in Nat
      /\ 1 <= MaxOf({1, MaxOf(ids) + 1}) /\ MaxOf(ids) + 1 <= MaxOf({1, MaxOf(ids) + 1})
  <2>1. {1, MaxOf(ids) + 1} \in SUBSET Nat /\ MaxOf(ids) + 1 \in Nat
        /\ \A n \in {1, MaxOf(ids) + 1} : n <= MaxOf(ids) + 1
    BY <1>5
  <2> QED BY <2>1, MaxOfIs
<1>8. \A n \in ids : n < MaxOf({1, MaxOf(ids) + 1})
  BY <1>2, <1>5, <1>7
<1>9. /\ MaxOf({1 + count, MaxOf(lsns) + 1}) \in 0 .. MaxLsn + 1
      /\ 1 + count <= MaxOf({1 + count, MaxOf(lsns) + 1})
  <2>1. {1 + count, MaxOf(lsns) + 1} \in SUBSET Nat /\ MaxLsn + 1 \in Nat
        /\ \A n \in {1 + count, MaxOf(lsns) + 1} : n <= MaxLsn + 1
    BY <1>4, <1>6, WalAssumption
  <2> QED BY <2>1, MaxOfIs
<1>10. RecoveredNextId = MaxOf({1, MaxOf(ids) + 1})
  BY DEF RecoveredNextId, ids
<1>11. \A rec \in Log : rec.txn \in ids
  BY DEF ids
<1> QED BY <1>4, <1>7, <1>8, <1>9, <1>10, <1>11, WalAssumption, TsInfAssumption DEF lsns, count

LEMMA RestartKeepsRecovery ==
  ASSUME RecoveryInv, Restart
  PROVE  RecoveryInv'
<1> DEFINE N == Cardinality(Replayable)
<1>1. /\ nextTxnId' \in Nat /\ \A rec \in Log : rec.txn < nextTxnId'
      /\ nextTs' \in Nat /\ nextTs' < TsInf /\ N < nextTs' /\ nextTxnId' >= 1
  BY RecoveredCounters DEF Restart
<1>2. /\ chains' = [r \in Rows |-> RecoveredChain(r)]
      /\ state' = [t \in TxnIds |-> "Unknown"] /\ active' = {}
      /\ savepoints' = [t \in TxnIds |-> {}]
      /\ exclusive' = [r \in Rows |-> NoTxn] /\ shared' = [r \in Rows |-> {}]
      /\ waitFor' = [t \in TxnIds |-> {}] /\ UNCHANGED walVars
  BY DEF Restart
<1>3. \A r : /\ RecoveredChain(r) \subseteq Versions
             /\ \A v \in RecoveredChain(r) :
                  /\ v.begin <= N /\ v.begin <= v.end
                  /\ v.end = TsInf \/ v.end <= N
                  /\ \E rec \in Log : v.writer = rec.txn
             /\ \A v, w \in RecoveredChain(r) : v = w \/ v.end <= w.begin \/ w.end <= v.begin
  BY RecoveredRow DEF RecoveryInv
<1>4. N \in Nat
  BY ReplayableIsFinite, WalAssumption DEF RecoveryInv
<1> HIDE DEF N
<1>5. TypeInv'
  <2>1. LockTables'
    BY <1>2 DEF LockTables
  <2>2. OtherFields'
    BY <1>1, TsInfAssumption DEF Restart, OtherFields, IsolationLevels, Timestamps
  <2>3. SetFields'
    BY DEF Restart, SetFields
  <2>4. DataFields'
    BY <1>2, <1>3 DEF Restart, DataFields
  <2>5. SavepointsInUndo' /\ FreshIds'
    BY <1>2 DEF SavepointsInUndo, FreshIds
  <2> QED BY <2>1, <2>2, <2>3, <2>4, <2>5, TypeOKPartsPrime DEF TypeInv
<1>6. \A t \in TxnIds : ~IsLive(t)'
  BY <1>2 DEF IsLive, Live
<1>7. LocksHeldByActive'
  BY <1>2, <1>6 DEF LocksHeldByActive, ActiveIsLive
<1>8. ASSUME NEW r \in Rows, NEW v \in chains'[r]
      PROVE  /\ v \in RecoveredChain(r) /\ v.begin < nextTs' /\ v.begin <= v.end
             /\ v.end = TsInf \/ v.end < nextTs'
             /\ v.writer < nextTxnId' /\ ~IsLive(v.writer)'
  <2>1. v \in RecoveredChain(r)
    BY <1>2
  <2>2. v \in Versions
    BY <1>3, <2>1
  <2>3. v.begin \in Nat /\ v.end \in Nat /\ v.writer \in TxnIds
    BY <2>2 DEF Versions, Timestamps
  <2>4. v.begin <= N /\ v.begin <= v.end /\ (v.end = TsInf \/ v.end <= N)
    BY <1>3, <2>1
  <2>5. PICK rec \in Log : v.writer = rec.txn
    BY <1>3, <2>1
  <2>6. v.writer < nextTxnId'
    BY <1>1, <2>5
  <2>7. v.begin < nextTs' /\ (v.end = TsInf \/ v.end < nextTs')
    BY <1>1, <1>4, <2>3, <2>4
  <2> QED BY <1>6, <2>1, <2>3, <2>4, <2>6, <2>7
<1>9. WritersKnown'
  BY <1>8 DEF WritersKnown
<1>10. CommittedInThePast'
  BY <1>8 DEF CommittedInThePast, Committed
<1>11. DisjointLifetimes'
  BY <1>3, <1>8 DEF DisjointLifetimes, Committed
<1>12. LogInvariant' /\ RecordsTyped'
  <2>1. LogInvariant'
    BY <1>2 DEF RecoveryInv, LogInvariant, walVars
  <2>2. Log' = Log /\ nextLsn' = nextLsn
    BY <1>2 DEF Log, walVars
  <2>3. RecordsTyped'
    BY <1>1, <2>2 DEF RecoveryInv, RecordsTyped
  <2> QED BY <2>1, <2>3
<1> QED BY <1>5, <1>7, <1>9, <1>10, <1>11, <1>12 DEF RecoveryInv, PastLifetimes

\* The inductive invariant of the manager over its log, restarts included.
THEOREM RecoveryInvariant == WalSpec => []RecoveryInv
<1>1. RecoveryInv /\ [WalNext]_allVars => RecoveryInv'
  BY WalSteps, StepKeepsRecovery, RestartKeepsRecovery
<1> QED BY <1>1, InitRecovery, PTL DEF WalSpec

\* After any number of checkpoints and restarts the log is one run of lsns (run
\* txn_recovery), in every instance.
THEOREM LogStaysContiguous == WalSpec => []LogIsContiguous
<1>1. RecoveryInv => LogIsContiguous
  BY ContiguousLog DEF RecoveryInv, LogInvariant
<1> QED BY <1>1, RecoveryInvariant, PTL

\* After any number of restarts no transaction collides with a recovered one
\* (run txn_recovery), in every instance.
THEOREM RecoveryNeverCollides == WalSpec => []NoCollisionAfterRestart
<1>1. RecoveryInv => NoCollisionAfterRestart
  BY DEF RecoveryInv, RecordsTyped, PastLifetimes, CommittedInThePast,
         NoCollisionAfterRestart
<1> QED BY <1>1, RecoveryInvariant, PTL

-----------------------------------------------------------------------------
(* Recovery of serial histories.                                           *)

Changes == LogOf("Insert") \cup LogOf("Update") \cup LogOf("Delete")
WritesOf(t, r) == {rec \in Changes : rec.txn = t /\ rec.row = r}

\* rec is the last of the records.
LastOf(rec, records) == rec \in records /\ \A b \in records : b.lsn <= rec.lsn

\* What a record replayed last on its row holds is what the row recovers as.
LastWins ==
  \A r \in Rows :
    /\ OnRow(r) = {} => RecoveredValue(r) = Absent
    /\ OnRow(r) # {} => \E last \in OnRow(r) : Later(r, last) = {}
    /\ \A last \in OnRow(r) : Later(r, last) = {} => RecoveredValue(r) = last.value

\* The greatest of some positive numbers is one of them.
LEMMA MaxOfIsIn ==
  ASSUME NEW S \in SUBSET Nat, NEW N \in Nat, \A n \in S : n > 0 /\ n <= N, S # {}
  PROVE  MaxOf(S) \in S /\ \A n \in S : n <= MaxOf(S)
<1>1. MaxOf(S) \in S \cup {0} /\ \A n \in S : n <= MaxOf(S)
  BY MaxOfIs
<1>2. PICK n \in S : n \in Nat /\ n > 0
  OBVIOUS
<1>3. \A m : n <= m => m # 0
  BY <1>2
<1> QED BY <1>1, <1>3

\* Of the records of a row one is replayed last.
LEMMA LastExists ==
  ASSUME RecoveryInv, NEW r, OnRow(r) # {}
  PROVE  \E last \in OnRow(r) : Later(r, last) = {}
<1>1. /\ nextTxnId \in Nat /\ LogInvariant /\ RecordsTyped
  BY TypeOKParts DEF RecoveryInv, TypeInv, OtherFields
<1>2. \A a \in OnRow(r) : /\ a.txn \in Nat /\ a.txn > 0 /\ a.txn <= nextTxnId
                          /\ a.lsn \in Nat /\ a.lsn > 0 /\ a.lsn <= MaxLsn
  <2>1. \A a \in OnRow(r) : a \in Log /\ a.txn \in Replayable
    BY <1>1, ReplayOrder
  <2>2. \A a \in Log : a.lsn \in 1 .. MaxLsn /\ a.txn < nextTxnId
    BY <1>1, LogIsFinite DEF RecordsTyped
  <2>3. \A t \in Replayable : t \in Nat /\ t > 0
    <3>1. \A t \in Replayable : t \in Nat /\ t # 0
      BY <1>1, ReplayableIsFinite, TxnIdsAssumption
    <3>2. \A t \in Nat : t # 0 => t > 0
      OBVIOUS
    <3> QED BY <3>1, <3>2
  <2> QED BY <1>1, <2>1, <2>2, <2>3, WalAssumption
<1> DEFINE ids == {a.txn : a \in OnRow(r)}
<1>3. PICK top \in ids : \A n \in ids : n <= top
  <2>1. ids \in SUBSET Nat /\ ids # {} /\ \A n \in ids : n > 0 /\ n <= nextTxnId
    BY <1>2
  <2> HIDE DEF ids
  <2> QED BY <1>1, <2>1, MaxOfIsIn
<1> DEFINE lsns == {a.lsn : a \in {b \in OnRow(r) : b.txn = top}}
<1>4. PICK lsn \in lsns : \A n \in lsns : n <= lsn
  <2>1. lsns \in SUBSET Nat /\ lsns # {} /\ \A n \in lsns : n > 0 /\ n <= MaxLsn
    BY <1>2, <1>3
  <2> HIDE DEF lsns
  <2> QED BY <2>1, MaxOfIsIn, WalAssumption
<1>5. PICK last \in OnRow(r) : last.txn = top /\ last.lsn = lsn
  BY <1>4
<1>6. ASSUME NEW b \in OnRow(r), ReplayedBefore(last, b) PROVE FALSE
  <2>1. b.txn <= last.txn /\ (b.txn = last.txn => b.lsn <= last.lsn)
    BY <1>3, <1>4, <1>5
  <2>2. /\ b.txn \in Nat /\ last.txn \in Nat /\ b.lsn \in Nat /\ last.lsn \in Nat
    BY <1>2
  <2> QED BY ONLY <1>6, <2>1, <2>2 DEF ReplayedBefore
<1> QED BY <1>5, <1>6 DEF Later

LEMMA LastWinsHolds == RecoveryInv => LastWins
<1> SUFFICES ASSUME RecoveryInv, NEW r \in Rows
             PROVE  /\ OnRow(r) = {} => RecoveredValue(r) = Absent
                    /\ OnRow(r) # {} => \E last \in OnRow(r) : Later(r, last) = {}
                    /\ \A last \in OnRow(r) :
                         Later(r, last) = {} => RecoveredValue(r) = last.value
  BY DEF LastWins
<1> DEFINE V(rec) == RecoveredVersion(r, rec)
<1>1. LogInvariant /\ RecordsTyped
  BY DEF RecoveryInv
<1>2. RecoveredChain(r) = {V(rec) : rec \in OnRow(r)}
  BY RecoveredVersions
<1>3. ASSUME OnRow(r) = {} PROVE RecoveredValue(r) = Absent
  <2>1. RecoveredChain(r) = {}
    BY <1>2, <1>3
  <2> QED BY <2>1 DEF RecoveredValue, Current
<1>4. ASSUME NEW last \in OnRow(r), Later(r, last) = {}
      PROVE  RecoveredValue(r) = last.value
  <2>1. /\ V(last).committed /\ V(last).end = TsInf /\ V(last).value = last.value
        /\ V(last) \in RecoveredChain(r)
    BY <1>2, <1>4 DEF RecoveredVersion
  <2>2. ASSUME NEW rec \in OnRow(r), V(rec).end = TsInf PROVE rec = last
    <3>1. ASSUME rec # last PROVE FALSE
      <4>1. Later(r, rec) # {}
        BY <1>1, <1>4, <3>1, ReplayOrder DEF Later
      <4>2. NextOf(r, rec) \in OnRow(r)
        BY <1>1, <4>1, NextIsLeast DEF Later
      <4>3. RecoveredTs(NextOf(r, rec).txn) <= Cardinality(Replayable)
            /\ RecoveredTs(NextOf(r, rec).txn) \in Nat
            /\ Cardinality(Replayable) \in 0 .. MaxLsn
        BY <1>1, <4>2, ReplayOrder, RecoveredTimes, ReplayableIsFinite
      <4>4. V(rec).end = RecoveredTs(NextOf(r, rec).txn)
        BY <4>1 DEF RecoveredVersion
      <4> HIDE DEF V
      <4> QED BY <2>2, <4>3, <4>4, WalAssumption, TsInfAssumption
    <3> QED BY <3>1
  <2> HIDE DEF V
  <2>3. Current(RecoveredChain(r)) = {V(last)}
    BY <1>2, <2>1, <2>2 DEF Current
  <2>4. V(last).pos \in 1 .. MaxPos
    BY <1>1, <2>1, RecoveredRow DEF Versions
  <2>5. Newest({V(last)}) \in {V(last)}
    BY <2>4, NewestIsIn
  <2> QED BY <2>1, <2>3, <2>5 DEF RecoveredValue
<1> QED BY <1>3, <1>4, LastExists

\* The same, after a step.
LEMMA LastWinsNext == RecoveryInv' => LastWins'
BY LastWinsHolds, PTL

-----------------------------------------------------------------------------
(* What each step leaves alone, and what it logs.                          *)

\* No record precedes the Begin of its transaction.
BeginsFirst ==
  \A b \in LogOf("Begin"), rec \in Log : rec.txn = b.txn => rec = b \/ b.lsn < rec.lsn

\* The log does not say of a running transaction that it committed.
LiveUnended == \A t \in TxnIds : IsLive(t) => \A c \in LogOf("Commit") : c.txn # t

WriteSetsCover ==
  \A t \in TxnIds, r \in Rows :
    IsLive(t) /\ OwnIntents(t, chains[r]) # {} => r \in writeSet[t]

\* A log that was never truncated has the writes of a running transaction, the
\* last of them the one its newest intent holds.
WritesLogged ==
  LogOf("Checkpoint") = {} =>
    \A t \in TxnIds, r \in Rows : IsLive(t) =>
      /\ OwnIntents(t, chains[r]) = {} <=> WritesOf(t, r) = {}
      /\ \A rec \in WritesOf(t, r) :
           LastOf(rec, WritesOf(t, r)) => Newest(OwnIntents(t, chains[r])).value = rec.value

SerialInv ==
  /\ RecoveryInv /\ BeginsFirst /\ LiveUnended /\ WriteSetsCover /\ WritesLogged
  /\ SerialRecoveryIsExact

RecordOf(t, type, payload) ==
  [lsn |-> nextLsn, txn |-> t, type |-> type, row |-> payload.row, value |-> payload.value]

\* The step leaves every row's current version.
KeepsCurrent == \A r \in Rows : Current(chains[r])' = Current(chains[r])

\* If u runs after the step it ran before, with the same intents and write set.
KeepsIntents(u) ==
  IsLive(u)' => /\ IsLive(u) /\ writeSet'[u] = writeSet[u]
                /\ \A r \in Rows : OwnIntents(u, chains[r])' = OwnIntents(u, chains[r])

LEMMA JournalGrows ==
  ASSUME LogInvariant, RecordsTyped, NEW t, NEW type, NEW payload, Journal(t, type, payload)
  PROVE  /\ Log' = Log \cup {RecordOf(t, type, payload)}
         /\ nextLsn \in Nat /\ \A rec \in Log : rec.lsn \in Nat /\ rec.lsn < nextLsn
<1> DEFINE new == RecordOf(t, type, payload)
           last == Open(segments)
<1>1. segments' = Appended(segments, new)
  BY DEF Journal, RecordOf
<1>2. SegmentsSound(segments, nextLsn) /\ nextLsn \in Nat /\ LogIsContiguous
  BY ContiguousLog DEF LogInvariant, SegmentsSound
<1>3. last \in segments /\ last = [start |-> last.start, records |-> last.records]
  BY <1>2, OpenIsLast DEF SegmentsSound, Filled
<1>4. [last EXCEPT !.records = @ \cup {new}]
        = [start |-> last.start, records |-> last.records \cup {new}]
  BY ONLY <1>3
<1>5. \/ segments' = segments \cup {[start |-> new.lsn, records |-> {new}]}
      \/ segments' = (segments \ {last})
                        \cup {[start |-> last.start, records |-> last.records \cup {new}]}
  BY <1>1, <1>4 DEF Appended
<1> DEFINE fresh == [start |-> new.lsn, records |-> {new}]
           grown == [start |-> last.start, records |-> last.records \cup {new}]
<1>8. fresh.records = {new} /\ grown.records = last.records \cup {new}
  OBVIOUS
<1> HIDE DEF new, last, fresh, grown
<1>6. Log' = Log \cup {new}
  <2>1. CASE segments' = segments \cup {fresh}
    BY <1>8, <2>1 DEF Log
  <2>2. CASE segments' = (segments \ {last}) \cup {grown}
    <3>1. ASSUME NEW rec \in Log PROVE rec \in Log'
      <4>1. PICK seg \in segments : rec \in seg.records
        BY DEF Log
      <4>2. CASE seg = last
        BY <1>8, <2>2, <4>1, <4>2 DEF Log
      <4>3. CASE seg # last
        BY <2>2, <4>1, <4>3 DEF Log
      <4> QED BY <4>2, <4>3
    <3>2. new \in Log'
      BY <1>8, <2>2 DEF Log
    <3>3. Log' \subseteq Log \cup {new}
      BY <1>3, <1>8, <2>2 DEF Log
    <3> QED BY <3>1, <3>2, <3>3
  <2> QED BY <1>5, <2>1, <2>2 DEF fresh, grown
<1>7. \A rec \in Log : rec.lsn \in Nat /\ rec.lsn < nextLsn
  BY <1>2, LogIsFinite DEF LogIsContiguous, LsnsOf
<1> QED BY <1>2, <1>6, <1>7 DEF new

\* The steps that log nothing.
LEMMA QuietStep ==
  ASSUME TypeInv, ~\E t \in TxnIds : RollbackToSavepoint(t),
         \/ \E t \in TxnIds, r \in Rows : Unlogged(t, r)
         \/ UnloggedSavepoint \/ UnloggedLock \/ UnloggedCollect
  PROVE  /\ UNCHANGED walVars /\ KeepsCurrent
         /\ \A u \in TxnIds : KeepsIntents(u)
<1> OtherFields /\ DataFields
  BY TypeOKParts DEF TypeInv
<1> USE DEF clockVars, idVars, endVars, viewVars, setVars, undoVars, lockVars
<1>1. UNCHANGED walVars
  BY DEF Unlogged, UnloggedSavepoint, UnloggedLock, UnloggedCollect
<1>2. ASSUME UNCHANGED <<chains, writeSet>>, \A u \in TxnIds : IsLive(u)' => IsLive(u)
      PROVE  KeepsCurrent /\ \A u \in TxnIds : KeepsIntents(u)
  BY <1>2 DEF KeepsCurrent, KeepsIntents, Current, OwnIntents
<1>3. UNCHANGED state => \A u \in TxnIds : IsLive(u)' => IsLive(u)
  BY DEF IsLive
<1>4. ASSUME NEW t \in TxnIds, NEW r \in Rows, Unlogged(t, r)
      PROVE  KeepsCurrent /\ \A u \in TxnIds : KeepsIntents(u)
  <2>1. UNCHANGED <<chains, writeSet>>
    BY <1>4 DEF Unlogged, Prepare, Read, ExclusiveConflict, InsertExisting, WriteMissing
  <2>2. \A u \in TxnIds : IsLive(u)' => IsLive(u)
    BY <1>3, <1>4
       DEF Unlogged, Prepare, Read, ExclusiveConflict, InsertExisting, WriteMissing,
           IsLive, Live, OtherFields
  <2> QED BY <1>2, <2>1, <2>2
<1>5. ASSUME UnloggedSavepoint PROVE KeepsCurrent /\ \A u \in TxnIds : KeepsIntents(u)
  <2>1. UNCHANGED <<chains, writeSet, state>>
    BY <1>5 DEF UnloggedSavepoint, SavepointNext, Savepoint, ReleaseSavepoint
  <2> QED BY <1>2, <1>3, <2>1
<1>6. ASSUME UnloggedLock PROVE KeepsCurrent /\ \A u \in TxnIds : KeepsIntents(u)
  <2>1. UNCHANGED <<chains, writeSet, state>>
    BY <1>6 DEF UnloggedLock, LockNext, AcquireExclusive, AcquireShared, AddPredicateLock
  <2> QED BY <1>2, <1>3, <2>1
<1>7. ASSUME UnloggedCollect PROVE KeepsCurrent /\ \A u \in TxnIds : KeepsIntents(u)
  <2>1. UNCHANGED <<writeSet, state>> /\ \A r \in Rows : chains'[r] = Retained(chains[r])
    BY <1>7 DEF UnloggedCollect, GarbageCollect
  <2>2. KeepsCurrent
    BY <2>1 DEF KeepsCurrent, Current, Retained
  <2>3. \A u \in TxnIds : KeepsIntents(u)
    BY <2>1 DEF KeepsIntents, OwnIntents, Retained, IsLive
  <2> QED BY <2>2, <2>3
<1> QED BY <1>1, <1>4, <1>5, <1>6, <1>7

LEMMA BeginStep ==
  ASSUME TypeInv, WritersKnown, NEW t \in TxnIds, NEW level \in Isolations, Begin(t, level)
  PROVE  /\ KeepsCurrent /\ \A u \in TxnIds \ {t} : KeepsIntents(u)
         /\ \A r \in Rows : OwnIntents(t, chains[r])' = {}
         /\ t = nextTxnId
<1> OtherFields /\ DataFields
  BY TypeOKParts DEF TypeInv
<1> USE DEF clockVars, idVars, endVars, viewVars, setVars, undoVars, lockVars
<1>1. t = nextTxnId /\ UNCHANGED <<chains, writeSet>> /\ t \in Nat
      /\ \A u \in TxnIds \ {t} : state'[u] = state[u]
  BY TxnIdsAssumption DEF Begin, OtherFields
<1>2. \A r \in Rows : \A v \in chains[r] : v.writer # t
  BY <1>1 DEF WritersKnown
<1>3. KeepsCurrent
  BY <1>1 DEF KeepsCurrent, Current
<1>4. \A u \in TxnIds \ {t} : KeepsIntents(u)
  BY <1>1 DEF KeepsIntents, OwnIntents, IsLive
<1> QED BY <1>1, <1>2, <1>3, <1>4 DEF OwnIntents

LEMMA AbortStep ==
  ASSUME TypeInv, NEW t \in TxnIds, UndoAll(t)
  PROVE  KeepsCurrent /\ \A u \in TxnIds : KeepsIntents(u)
<1> OtherFields /\ DataFields
  BY TypeOKParts DEF TypeInv
<1> USE DEF clockVars, idVars, endVars, viewVars, setVars, undoVars, lockVars
<1>1. /\ \A r \in Rows : chains'[r] = chains[r] \/ chains'[r] = StripWriter(chains[r], t)
      /\ UNCHANGED writeSet
      /\ \A u \in TxnIds \ {t} : state'[u] = state[u]
      /\ state'[t] = "Aborted"
  BY DEF UndoAll, OtherFields
<1>2. KeepsCurrent
  BY <1>1 DEF KeepsCurrent, Current, StripWriter, OwnIntents
<1>3. ~IsLive(t)'
  BY <1>1 DEF IsLive, Live
<1>4. \A u \in TxnIds \ {t} : KeepsIntents(u)
  BY <1>1, OthersLeaveIntents DEF KeepsIntents, IsLive
<1> QED BY <1>2, <1>3, <1>4 DEF KeepsIntents

LEMMA WriteStep ==
  ASSUME TypeInv, NEW t \in TxnIds, NEW r \in Rows, NEW c \in Cells, Write(t, r, c)
  PROVE  /\ KeepsCurrent /\ \A u \in TxnIds \ {t} : KeepsIntents(u)
         /\ UNCHANGED state /\ r \in writeSet'[t] /\ writeSet[t] \subseteq writeSet'[t]
         /\ \A q \in Rows \ {r} : OwnIntents(t, chains[q])' = OwnIntents(t, chains[q])
         /\ OwnIntents(t, chains[r])' # {}
         /\ Newest(OwnIntents(t, chains[r])').value = c
<1> OtherFields /\ DataFields /\ SetFields
  BY TypeOKParts DEF TypeInv
<1> USE DEF clockVars, idVars, endVars, viewVars, setVars, undoVars, lockVars
<1> DEFINE intent == Intent(t, c, chains[r])
           own == OwnIntents(t, chains[r])
<1>1. /\ UNCHANGED state /\ writeSet' = [writeSet EXCEPT ![t] = @ \cup {r}]
      /\ Push(t, r, c)
  BY DEF Write
<1>2. /\ chains'[r] = chains[r] \cup {intent}
      /\ \A q \in Rows \ {r} : chains'[q] = chains[q]
  BY <1>1, PushedVersions
<1>3. intent.writer = t /\ ~intent.committed /\ intent.value = c /\ intent.pos = NextPos(chains[r])
  BY DEF Intent
<1>4. \A v \in chains[r] : v.pos \in 1 .. MaxPos
  BY DEF DataFields, Versions
<1>5. NextPos(chains[r]) \in Nat /\ \A v \in chains[r] : v.pos < NextPos(chains[r])
  BY <1>4, NewestIsIn, MaxUndoAssumption DEF NextPos
<1> HIDE DEF intent
<1>6. KeepsCurrent
  <2> SUFFICES ASSUME NEW q \in Rows PROVE Current(chains[q])' = Current(chains[q])
    BY DEF KeepsCurrent
  <2> QED BY <1>2, <1>3 DEF Current
<1>7. \A u \in TxnIds \ {t} : KeepsIntents(u)
  <2> SUFFICES ASSUME NEW u \in TxnIds \ {t}, IsLive(u)' PROVE KeepsIntents(u)
    BY DEF KeepsIntents
  <2>1. \A q \in Rows : OwnIntents(u, chains[q])' = OwnIntents(u, chains[q])
    BY <1>2, <1>3 DEF OwnIntents
  <2>2. IsLive(u) /\ writeSet'[u] = writeSet[u]
    BY <1>1 DEF IsLive, SetFields
  <2> QED BY <2>1, <2>2 DEF KeepsIntents
<1>8. OwnIntents(t, chains[r])' = own \cup {intent}
  BY <1>2, <1>3 DEF OwnIntents
<1>9. \A q \in Rows \ {r} : OwnIntents(t, chains[q])' = OwnIntents(t, chains[q])
  BY <1>2 DEF OwnIntents
<1>10. Newest(own \cup {intent}) = intent
  <2>1. \A v \in own : v.pos \in Nat /\ v.pos < intent.pos
    BY <1>3, <1>4, <1>5 DEF OwnIntents
  <2>2. intent.pos \in Nat
    BY <1>3, <1>5
  <2> HIDE DEF own
  <2>3. \A v \in own \cup {intent} : v.pos <= intent.pos
    BY <2>1, <2>2
  <2>4. \A v \in own \cup {intent} : intent.pos <= v.pos => v = intent
    BY <2>1, <2>2
  <2> QED BY <2>3, <2>4 DEF Newest
<1>11. r \in writeSet'[t] /\ writeSet[t] \subseteq writeSet'[t]
  BY <1>1 DEF SetFields
<1> QED BY <1>1, <1>3, <1>6, <1>7, <1>8, <1>9, <1>10, <1>11

\* A row has one current version at most, after a step too.
CurrentIsOne ==
  \A r \in Rows : \A v, w \in Current(chains[r]) : v = w

LEMMA OneCurrentHolds == TypeInv /\ PastLifetimes => CurrentIsOne
BY OneCurrent DEF CurrentIsOne

LEMMA OneCurrentNext == TypeInv' /\ PastLifetimes' => CurrentIsOne'
BY OneCurrentHolds, PTL

LEMMA CommitStep ==
  ASSUME TypeInv, PastLifetimes, PastLifetimes', TypeInv', NEW t \in TxnIds, Commit(t)
  PROVE  /\ \A u \in TxnIds : KeepsIntents(u)
         /\ ~IsLive(t)'
         /\ \A r \in Rows : OwnIntents(t, chains[r]) = {} =>
              LatestCommitted(r)' = LatestCommitted(r)
         /\ \A r \in writeSet[t] : OwnIntents(t, chains[r]) # {} =>
              LatestCommitted(r)' = Newest(OwnIntents(t, chains[r])).value
<1> OtherFields /\ DataFields /\ SetFields
  BY TypeOKParts DEF TypeInv
<1> USE DEF clockVars, idVars, endVars, viewVars, setVars, undoVars, lockVars
<1> nextTs \in Timestamps
  BY TsInfAssumption DEF OtherFields, Timestamps
<1>1. /\ \A r \in Rows : chains'[r] = IF r \in writeSet[t]
                                      THEN FinalizeWrite(chains[r], t, nextTs) ELSE chains[r]
      /\ UNCHANGED writeSet
      /\ \A u \in TxnIds \ {t} : state'[u] = state[u]
      /\ state'[t] = "Committed"
  BY DEF Commit, OtherFields
<1>2. ~IsLive(t)'
  BY <1>1 DEF IsLive, Live
<1>3. \A u \in TxnIds \ {t} : KeepsIntents(u)
  BY <1>1, OthersLeaveIntents DEF KeepsIntents, IsLive
<1>4. ASSUME NEW r \in Rows, OwnIntents(t, chains[r]) = {}
      PROVE  LatestCommitted(r)' = LatestCommitted(r)
  <2>1. chains'[r] = chains[r]
    BY <1>1, <1>4 DEF FinalizeWrite
  <2> QED BY <2>1 DEF LatestCommitted, Current
<1>5. ASSUME NEW r \in writeSet[t], OwnIntents(t, chains[r]) # {}
      PROVE  LatestCommitted(r)' = Newest(OwnIntents(t, chains[r])).value
  <2>0. r \in Rows /\ chains[r] \in SUBSET Versions
    BY DEF SetFields, DataFields
  <2>1. PICK mine \in OwnIntents(t, chains[r]), closed \in SUBSET Current(chains[r]) :
          /\ mine = Newest(OwnIntents(t, chains[r]))
          /\ FinalizeWrite(chains[r], t, nextTs) = Finalized(chains[r], mine, closed, nextTs)
    BY <1>5, <2>0, FinalizeWriteVersions
  <2>2. mine \in Versions
    BY <2>0 DEF OwnIntents
  <2>3. Stamped(mine, nextTs) \in chains'[r]
    BY <1>1, <2>0, <2>1 DEF Finalized
  <2>4. /\ Stamped(mine, nextTs).committed /\ Stamped(mine, nextTs).end = TsInf
        /\ Stamped(mine, nextTs).value = mine.value
    BY <2>2, StampedFields
  <2> DEFINE top == Stamped(mine, nextTs)
             now == Current(chains[r])'
  <2>5. top \in now
    BY <2>3, <2>4 DEF Current
  <2> HIDE DEF top
  <2>6. \A v \in now : v = top
    BY <2>0, <2>5, OneCurrentNext DEF CurrentIsOne
  <2>7. now = {top}
    BY <2>5, <2>6
  <2>8. top.pos \in 1 .. MaxPos
    BY <2>2, StampedFields DEF Versions, top
  <2> HIDE DEF now
  <2>9. Newest({top}) = top
    BY <2>8, NewestIsIn
  <2>10. LatestCommitted(r)' = IF now = {} THEN Absent ELSE Newest(now).value
    BY DEF LatestCommitted, now, Newest
  <2> QED BY <2>1, <2>4, <2>7, <2>9, <2>10 DEF top
<1> QED BY <1>2, <1>3, <1>4, <1>5 DEF KeepsIntents

-----------------------------------------------------------------------------
(* The invariant of serial histories.                                      *)

SideInv == BeginsFirst /\ LiveUnended /\ WriteSetsCover /\ WritesLogged

\* Without a new record, and with the intents of whoever runs as they were.
LEMMA QuietKeepsSides ==
  ASSUME SideInv, Log' = Log, \A u \in TxnIds : KeepsIntents(u)
  PROVE  SideInv'
<1>1. BeginsFirst' /\ \A type : LogOf(type)' = LogOf(type)
  BY DEF SideInv, BeginsFirst, LogOf
<1>2. \A u, r : WritesOf(u, r)' = WritesOf(u, r)
  BY <1>1 DEF WritesOf, Changes
<1>3. LiveUnended' /\ WriteSetsCover'
  BY <1>1 DEF SideInv, LiveUnended, WriteSetsCover, KeepsIntents
<1>4. ASSUME LogOf("Checkpoint")' = {}, NEW u \in TxnIds, NEW r \in Rows, IsLive(u)'
      PROVE  /\ OwnIntents(u, chains[r])' = {} <=> WritesOf(u, r)' = {}
             /\ \A rec \in WritesOf(u, r)' : LastOf(rec, WritesOf(u, r)') =>
                  Newest(OwnIntents(u, chains[r])').value = rec.value
  <2>1. IsLive(u) /\ OwnIntents(u, chains[r])' = OwnIntents(u, chains[r])
    BY <1>4 DEF KeepsIntents
  <2> QED BY <1>1, <1>2, <1>4, <2>1 DEF SideInv, WritesLogged
<1>5. WritesLogged'
  BY <1>4 DEF WritesLogged, LastOf, Newest
<1> QED BY <1>1, <1>3, <1>5 DEF SideInv

\* A new record behind the others, of a step that writes no row.
LEMMA EndsKeepSides ==
  ASSUME SideInv, NEW new, Log' = Log \cup {new}, new.lsn \in Nat,
         \A rec \in Log : rec.lsn \in Nat /\ rec.lsn < new.lsn,
         new.type = "Begin" => \A rec \in Log : rec.txn # new.txn,
         new.type = "Commit" => ~IsLive(new.txn)',
         new.type \notin {"Insert", "Update", "Delete"},
         \A u \in TxnIds :
           \/ KeepsIntents(u)
           \/ /\ \A r \in Rows : OwnIntents(u, chains[r])' = {}
              /\ \A rec \in Log : rec.txn # u
              /\ new.type # "Commit"
  PROVE  SideInv'
<1>1. BeginsFirst'
  BY DEF SideInv, BeginsFirst, LogOf
<1>2. \A u, r : WritesOf(u, r)' = WritesOf(u, r)
  BY DEF WritesOf, Changes, LogOf
<1>3. LiveUnended'
  <2> SUFFICES ASSUME NEW u \in TxnIds, IsLive(u)', NEW c \in LogOf("Commit")'
               PROVE  c.txn # u
    BY DEF LiveUnended
  <2>1. c \in Log' /\ c.type = "Commit"
    BY DEF LogOf
  <2>2. CASE c = new
    BY <2>1, <2>2
  <2>3. CASE c \in Log
    BY <2>1, <2>3 DEF SideInv, LiveUnended, KeepsIntents, LogOf
  <2> QED BY <2>1, <2>2, <2>3
<1>4. WriteSetsCover'
  BY DEF SideInv, WriteSetsCover, KeepsIntents
<1>5. ASSUME LogOf("Checkpoint")' = {}, NEW u \in TxnIds, NEW r \in Rows, IsLive(u)'
      PROVE  /\ OwnIntents(u, chains[r])' = {} <=> WritesOf(u, r)' = {}
             /\ \A rec \in WritesOf(u, r)' : LastOf(rec, WritesOf(u, r)') =>
                  Newest(OwnIntents(u, chains[r])').value = rec.value
  <2>1. CASE KeepsIntents(u)
    <3>1. IsLive(u) /\ OwnIntents(u, chains[r])' = OwnIntents(u, chains[r])
      BY <1>5, <2>1 DEF KeepsIntents
    <3>2. LogOf("Checkpoint") = {}
      BY <1>5 DEF LogOf
    <3> QED BY <1>2, <3>1, <3>2 DEF SideInv, WritesLogged
  <2>2. CASE OwnIntents(u, chains[r])' = {} /\ \A rec \in Log : rec.txn # u
    <3>1. WritesOf(u, r) = {}
      BY <2>2 DEF WritesOf, Changes, LogOf
    <3> QED BY <1>2, <2>2, <3>1
  <2> QED BY <2>1, <2>2
<1>6. WritesLogged'
  BY <1>5 DEF WritesLogged, LastOf, Newest
<1> QED BY <1>1, <1>3, <1>4, <1>6 DEF SideInv

\* A write logs what its intent holds.
LEMMA WriteKeepsSides ==
  ASSUME SideInv, TypeInv, NEW t \in TxnIds, NEW r \in Rows, NEW c \in Cells,
         IsLive(t), Write(t, r, c),
         NEW new, Log' = Log \cup {new}, new.lsn \in Nat,
         \A rec \in Log : rec.lsn \in Nat /\ rec.lsn < new.lsn,
         new.type \in {"Insert", "Update", "Delete"}, new.txn = t, new.row = r, new.value = c
  PROVE  SideInv'
<1>1. /\ \A u \in TxnIds \ {t} : KeepsIntents(u)
      /\ UNCHANGED state /\ r \in writeSet'[t] /\ writeSet[t] \subseteq writeSet'[t]
      /\ \A q \in Rows \ {r} : OwnIntents(t, chains[q])' = OwnIntents(t, chains[q])
      /\ OwnIntents(t, chains[r])' # {}
      /\ Newest(OwnIntents(t, chains[r])').value = c
  BY WriteStep
<1>2. \A u \in TxnIds : IsLive(u)' => IsLive(u)
  BY <1>1 DEF IsLive
<1>3. BeginsFirst'
  BY DEF SideInv, BeginsFirst, LogOf
<1>4. LiveUnended'
  BY <1>2 DEF SideInv, LiveUnended, LogOf
<1>5. WriteSetsCover'
  <2> SUFFICES ASSUME NEW u \in TxnIds, NEW q \in Rows, IsLive(u)',
                      OwnIntents(u, chains[q])' # {}
               PROVE  q \in writeSet'[u]
    BY DEF WriteSetsCover
  <2>1. CASE u # t
    BY <1>1, <2>1 DEF KeepsIntents, SideInv, WriteSetsCover
  <2>2. CASE u = t
    BY <1>1, <1>2, <2>2 DEF SideInv, WriteSetsCover
  <2> QED BY <2>1, <2>2
<1>6. ASSUME NEW u, NEW q, u # t \/ q # r
      PROVE  WritesOf(u, q)' = WritesOf(u, q)
  BY <1>6 DEF WritesOf, Changes, LogOf
<1>7. /\ new \in WritesOf(t, r)'
      /\ \A rec \in WritesOf(t, r)' : rec = new \/ rec.lsn < new.lsn
  BY DEF WritesOf, Changes, LogOf
<1>8. ASSUME LogOf("Checkpoint")' = {}, NEW u \in TxnIds, NEW q \in Rows, IsLive(u)'
      PROVE  /\ OwnIntents(u, chains[q])' = {} <=> WritesOf(u, q)' = {}
             /\ \A rec \in WritesOf(u, q)' : LastOf(rec, WritesOf(u, q)') =>
                  Newest(OwnIntents(u, chains[q])').value = rec.value
  <2>1. CASE u = t /\ q = r
    <3>1. ASSUME NEW rec \in WritesOf(t, r)', LastOf(rec, WritesOf(t, r)') PROVE rec = new
      <4>1. new.lsn <= rec.lsn /\ rec.lsn \in Nat
        BY <1>7, <3>1 DEF LastOf, WritesOf, Changes, LogOf
      <4> QED BY <1>7, <4>1
    <3> QED BY <1>1, <1>7, <2>1, <3>1
  <2>2. CASE u # t \/ q # r
    <3>1. IsLive(u) /\ OwnIntents(u, chains[q])' = OwnIntents(u, chains[q])
      BY <1>1, <1>2, <1>8, <2>2 DEF KeepsIntents
    <3>2. LogOf("Checkpoint") = {}
      BY <1>8 DEF LogOf
    <3>3. WritesOf(u, q)' = WritesOf(u, q)
      BY <1>6, <2>2
    <3> QED BY <3>1, <3>2, <3>3 DEF SideInv, WritesLogged
  <2> QED BY <2>1, <2>2
<1>9. WritesLogged'
  BY <1>8 DEF WritesLogged, LastOf, Newest
<1> QED BY <1>3, <1>4, <1>5, <1>9 DEF SideInv

-----------------------------------------------------------------------------
(* What a whole log replays, and when a restart recovers it exactly.       *)

\* The changes of the transactions that committed.
Durable ==
  {rec \in Changes : rec.txn \in TxnIds /\ \E c \in LogOf("Commit") : c.txn = rec.txn}

\* A whole log replays the changes of every transaction that committed.
WholeLogReplayed == LogIsWhole => Replayed = Durable

LEMMA WholeReplay == RecoveryInv /\ BeginsFirst => WholeLogReplayed
<1> SUFFICES ASSUME RecoveryInv, BeginsFirst, LogIsWhole PROVE Replayed = Durable
  BY DEF WholeLogReplayed
<1>1. LogInvariant /\ RecordsTyped
  BY DEF RecoveryInv
<1>2. \A rec \in Log : rec.lsn \in Nat
  BY <1>1, LogIsFinite
<1>3. Replayed \subseteq Durable
  BY DEF Replayed, Replayable, Durable, Changes
<1>4. ASSUME NEW rec \in Durable PROVE rec \in Replayed
  <2>1. rec \in Changes /\ rec \in Log /\ rec.txn \in TxnIds /\ rec.type # "Begin"
    BY DEF Durable, Changes, LogOf
  <2>2. PICK c \in LogOf("Commit") : c.txn = rec.txn
    BY DEF Durable
  <2>3. PICK b \in LogOf("Begin") : b.txn = rec.txn
    BY <2>1, TxnIdsAssumption DEF LogIsWhole
  <2>4. rec.txn \in Replayable
    BY <2>1, <2>2, <2>3 DEF Replayable, LogIsWhole
  <2>5. b.lsn < rec.lsn
    BY <2>1, <2>3 DEF BeginsFirst, LogOf
  <2>6. \A d \in LogOf("Begin") : d.txn = rec.txn => d.lsn <= b.lsn
    <3> SUFFICES ASSUME NEW d \in LogOf("Begin"), d.txn = rec.txn PROVE d.lsn <= b.lsn
      OBVIOUS
    <3>1. b \in Log /\ d \in Log
      BY DEF LogOf
    <3>2. d = b \/ d.lsn < b.lsn
      BY <2>3, <3>1 DEF BeginsFirst
    <3> QED BY <1>2, <3>1, <3>2
  <2> QED BY <2>1, <2>3, <2>4, <2>5, <2>6 DEF Replayed, Changes
<1> QED BY <1>3, <1>4

LEMMA WholeReplayNext == RecoveryInv' /\ BeginsFirst' => WholeLogReplayed'
BY WholeReplay, PTL

\* A log that is whole behind a new record was whole before it.
LEMMA WholeBefore ==
  ASSUME NEW new, Log' = Log \cup {new}, new.type = "Begin" => \A rec \in Log : rec.txn # new.txn
  PROVE  (LogIsWhole' => LogIsWhole) /\ (CommitsInIdOrder' => CommitsInIdOrder)
<1>1. \A type : LogOf(type) \subseteq LogOf(type)'
  BY DEF LogOf
<1>2. ASSUME LogIsWhole', NEW rec \in Log, rec.txn # 0
      PROVE  \E b \in LogOf("Begin") : b.txn = rec.txn
  <2>1. PICK b \in LogOf("Begin")' : b.txn = rec.txn
    BY <1>2 DEF LogIsWhole
  <2>2. b # new
    BY <2>1 DEF LogOf
  <2> QED BY <2>1, <2>2 DEF LogOf
<1>3. LogIsWhole' => LogIsWhole
  <2> SUFFICES ASSUME LogIsWhole' PROVE LogIsWhole
    OBVIOUS
  <2>1. \A a \in LogOf("Abort") : \A c \in LogOf("Commit") : a.txn # c.txn
    BY <1>1 DEF LogIsWhole
  <2>2. LogOf("Checkpoint") = {}
    BY <1>1 DEF LogIsWhole
  <2> QED BY <1>2, <2>1, <2>2 DEF LogIsWhole
<1> QED BY <1>1, <1>3 DEF CommitsInIdOrder

\* The same records replayed recover the same row.
LEMMA SameReplay ==
  ASSUME LastWins, LastWins', Replayed' = Replayed, NEW r \in Rows
  PROVE  RecoveredValue(r)' = RecoveredValue(r)
<1>1. OnRow(r)' = OnRow(r) /\ \A rec : Later(r, rec)' = Later(r, rec)
  BY DEF OnRow, Later, ReplayedBefore
<1>2. CASE OnRow(r) = {}
  BY <1>1, <1>2 DEF LastWins
<1>3. CASE OnRow(r) # {}
  <2>1. PICK last \in OnRow(r) : Later(r, last) = {}
    BY <1>3 DEF LastWins
  <2>2. RecoveredValue(r) = last.value
    BY <2>1 DEF LastWins
  <2>3. RecoveredValue(r)' = last.value
    BY <1>1, <2>1 DEF LastWins
  <2> QED BY <2>2, <2>3
<1> QED BY <1>2, <1>3

\* Exactness survives a step that neither commits a change nor moves a current version.
LEMMA ExactKept ==
  ASSUME RecoveryInv, RecoveryInv', BeginsFirst, BeginsFirst', SerialRecoveryIsExact,
         LogIsWhole' => LogIsWhole, CommitsInIdOrder' => CommitsInIdOrder,
         Durable' = Durable, KeepsCurrent
  PROVE  SerialRecoveryIsExact'
<1> SUFFICES ASSUME LogIsWhole', CommitsInIdOrder', NEW r \in Rows
             PROVE  RecoveredValue(r)' = LatestCommitted(r)'
  BY DEF SerialRecoveryIsExact
<1>1. RecoveredValue(r) = LatestCommitted(r)
  BY DEF SerialRecoveryIsExact
<1>2. Replayed' = Replayed
  BY WholeReplay, WholeReplayNext DEF WholeLogReplayed
<1>3. RecoveredValue(r)' = RecoveredValue(r)
  BY <1>2, SameReplay, LastWinsHolds, LastWinsNext
<1>4. LatestCommitted(r)' = LatestCommitted(r)
  <2>1. Current(chains[r])' = Current(chains[r])
    BY DEF KeepsCurrent
  <2>2. Newest(Current(chains[r]))' = Newest(Current(chains[r]))
    BY <2>1 DEF Newest
  <2> QED BY <2>1, <2>2 DEF LatestCommitted
<1> QED BY <1>1, <1>3, <1>4

\* A commit replays the writes of t last, and leaves the newest of them current.
LEMMA ExactCommit ==
  ASSUME RecoveryInv, RecoveryInv', SideInv, BeginsFirst', SerialRecoveryIsExact,
         NEW t \in TxnIds, Commit(t),
         NEW new, Log' = Log \cup {new}, new.type = "Commit", new.txn = t,
         new.lsn \in Nat, \A rec \in Log : rec.lsn \in Nat /\ rec.lsn < new.lsn
  PROVE  SerialRecoveryIsExact'
<1> SUFFICES ASSUME LogIsWhole', CommitsInIdOrder', NEW r \in Rows
             PROVE  RecoveredValue(r)' = LatestCommitted(r)'
  BY DEF SerialRecoveryIsExact
<1>1. LogIsWhole /\ CommitsInIdOrder
  BY WholeBefore
<1>2. RecoveredValue(r) = LatestCommitted(r)
  BY <1>1 DEF SerialRecoveryIsExact
<1>3. Replayed = Durable /\ Replayed' = Durable'
  BY <1>1, WholeReplay, WholeReplayNext DEF SideInv, WholeLogReplayed
<1>4. Changes' = Changes /\ LogOf("Commit")' = LogOf("Commit") \cup {new}
  BY DEF Changes, LogOf
<1>5. Durable' = Durable \cup {rec \in Changes : rec.txn = t}
  BY <1>4 DEF Durable
<1>6. OnRow(r)' = OnRow(r) \cup WritesOf(t, r)
  BY <1>3, <1>5 DEF OnRow, WritesOf
<1>7. LastWins /\ LastWins'
  BY LastWinsHolds, LastWinsNext
<1>8. IsLive(t) /\ LogOf("Checkpoint") = {}
  BY <1>1 DEF Commit, LogIsWhole
<1>9. /\ OwnIntents(t, chains[r]) = {} <=> WritesOf(t, r) = {}
      /\ \A rec \in WritesOf(t, r) :
           LastOf(rec, WritesOf(t, r)) => Newest(OwnIntents(t, chains[r])).value = rec.value
  BY <1>8 DEF SideInv, WritesLogged
<1>10. /\ OwnIntents(t, chains[r]) = {} => LatestCommitted(r)' = LatestCommitted(r)
       /\ r \in writeSet[t] /\ OwnIntents(t, chains[r]) # {} =>
            LatestCommitted(r)' = Newest(OwnIntents(t, chains[r])).value
  BY CommitStep DEF RecoveryInv
<1>11. CASE WritesOf(t, r) = {}
  <2>1. OnRow(r)' = OnRow(r) /\ \A rec : Later(r, rec)' = Later(r, rec)
    BY <1>6, <1>11 DEF Later, ReplayedBefore
  <2>2. RecoveredValue(r)' = RecoveredValue(r)
    <3>1. CASE OnRow(r) = {}
      BY <1>7, <2>1, <3>1 DEF LastWins
    <3>2. CASE OnRow(r) # {}
      <4>1. PICK last \in OnRow(r) : Later(r, last) = {}
        BY <1>7, <3>2 DEF LastWins
      <4>2. RecoveredValue(r) = last.value
        BY <1>7, <4>1 DEF LastWins
      <4>3. RecoveredValue(r)' = last.value
        BY <1>7, <2>1, <4>1 DEF LastWins
      <4> QED BY <4>2, <4>3
    <3> QED BY <3>1, <3>2
  <2> QED BY <1>2, <1>9, <1>10, <1>11, <2>2
<1>12. CASE WritesOf(t, r) # {}
  <2>1. PICK write \in WritesOf(t, r) : TRUE
    BY <1>12
  <2>2. PICK last \in OnRow(r)' : Later(r, last)' = {}
    BY <1>6, <1>7, <1>12 DEF LastWins
  <2>3. RecoveredValue(r)' = last.value
    BY <1>7, <2>2 DEF LastWins
  <2>4. last \in Changes /\ last.row = r /\ last.txn \in TxnIds
        /\ \E c \in LogOf("Commit")' : c.txn = last.txn
    BY <1>3, <1>4, <2>2 DEF OnRow, Durable
  <2>5. \A b \in WritesOf(t, r) : ~ReplayedBefore(last, b)
    BY <1>6, <2>2 DEF Later
  <2>6. t \in Nat /\ last.txn \in Nat
    BY <2>4, TxnIdsAssumption
  <2>7. ~(last.txn < t)
    BY <2>1, <2>5 DEF ReplayedBefore, WritesOf
  <2>8. ~(t < last.txn)
    <3> SUFFICES ASSUME t < last.txn PROVE FALSE
      OBVIOUS
    <3>1. PICK c \in LogOf("Commit")' : c.txn = last.txn
      BY <2>4
    <3>2. c # new
      BY <2>6, <3>1
    <3>3. c \in Log
      BY <1>4, <3>1, <3>2 DEF LogOf
    <3>4. new.lsn < c.lsn
      BY <1>4, <3>1 DEF CommitsInIdOrder
    <3> QED BY <3>3, <3>4
  <2>9. last \in WritesOf(t, r)
    BY <2>4, <2>6, <2>7, <2>8 DEF WritesOf
  <2>10. LastOf(last, WritesOf(t, r))
    <3> SUFFICES ASSUME NEW b \in WritesOf(t, r) PROVE b.lsn <= last.lsn
      BY <2>9 DEF LastOf
    <3>1. b.lsn \in Nat /\ last.lsn \in Nat /\ b.txn = last.txn
      BY <2>9 DEF WritesOf, Changes, LogOf
    <3>2. ~(last.lsn < b.lsn)
      BY <2>5, <3>1 DEF ReplayedBefore
    <3> QED BY <3>1, <3>2
  <2>11. OwnIntents(t, chains[r]) # {} /\ r \in writeSet[t]
    BY <1>8, <1>9, <1>12 DEF SideInv, WriteSetsCover
  <2> QED BY <1>9, <1>10, <2>3, <2>9, <2>10, <2>11
<1> QED BY <1>11, <1>12

-----------------------------------------------------------------------------
(* The steps, one kind at a time.                                          *)

LEMMA InitSerial == WalInit => SerialInv
<1> SUFFICES ASSUME WalInit PROVE SerialInv
  OBVIOUS
<1>1. Init /\ segments = {Segment(0)}
  BY DEF WalInit
<1>2. Log = {} /\ \A type : LogOf(type) = {}
  BY <1>1 DEF Log, LogOf, Segment
<1>3. \A t \in TxnIds : ~IsLive(t)
  BY <1>1 DEF Init, IsLive, Live
<1>4. Replayed = {}
  BY <1>2 DEF Replayed
<1>5. RecoveryInv
  BY InitRecovery
<1>6. SerialRecoveryIsExact
  <2> SUFFICES ASSUME NEW r \in Rows PROVE RecoveredValue(r) = LatestCommitted(r)
    BY DEF SerialRecoveryIsExact
  <2>1. RecoveredValue(r) = Absent
    BY <1>4, <1>5, LastWinsHolds DEF LastWins, OnRow
  <2>2. LatestCommitted(r) = Absent
    BY <1>1 DEF Init, LatestCommitted, Current
  <2> QED BY <2>1, <2>2
<1> QED BY <1>2, <1>3, <1>5, <1>6
        DEF SerialInv, BeginsFirst, LiveUnended, WriteSetsCover, WritesLogged

LEMMA SerialQuiet ==
  ASSUME SerialInv, RecoveryInv', UNCHANGED walVars, KeepsCurrent,
         \A u \in TxnIds : KeepsIntents(u)
  PROVE  SerialInv'
<1>1. Log' = Log
  BY DEF walVars, Log
<1>2. SideInv'
  BY <1>1, QuietKeepsSides DEF SerialInv, SideInv
<1>3. (LogIsWhole' => LogIsWhole) /\ (CommitsInIdOrder' => CommitsInIdOrder)
  BY <1>1 DEF LogIsWhole, CommitsInIdOrder, LogOf
<1>4. Durable' = Durable
  BY <1>1 DEF Durable, Changes, LogOf
<1> QED BY <1>2, <1>3, <1>4, ExactKept DEF SerialInv, SideInv

LEMMA SerialJournal ==
  ASSUME SerialInv, RecoveryInv', NEW t \in TxnIds,
         \/ \E level \in Isolations : LoggedBegin(t, level)
         \/ LoggedCommit(t)
         \/ LoggedAbort(t)
         \/ \E r \in Rows : (\E c \in Values : LoggedWrite(t, r, c)) \/ LoggedDelete(t, r)
  PROVE  SerialInv'
<1>1. /\ RecoveryInv /\ SideInv /\ TypeInv /\ PastLifetimes /\ WritersKnown
      /\ LogInvariant /\ RecordsTyped /\ SerialRecoveryIsExact
      /\ TypeInv' /\ PastLifetimes'
  BY DEF SerialInv, RecoveryInv, SideInv
<1>2. ASSUME NEW type, NEW payload, Journal(t, type, payload)
      PROVE  LET new == RecordOf(t, type, payload)
             IN  /\ Log' = Log \cup {new} /\ new.lsn \in Nat
                 /\ \A rec \in Log : rec.lsn \in Nat /\ rec.lsn < new.lsn
                 /\ new.txn = t /\ new.type = type /\ new.row = payload.row
                 /\ new.value = payload.value
  BY <1>1, <1>2, JournalGrows DEF RecordOf
<1>3. ASSUME NEW new, Log' = Log \cup {new}, new.type \notin {"Insert", "Update", "Delete", "Commit"}
      PROVE  Durable' = Durable
  BY <1>3 DEF Durable, Changes, LogOf
<1>4. ASSUME NEW level \in Isolations, LoggedBegin(t, level) PROVE SerialInv'
  <2>1. Begin(t, level) /\ Journal(t, "Begin", NoPayload)
    BY <1>4 DEF LoggedBegin
  <2> DEFINE new == RecordOf(t, "Begin", NoPayload)
  <2>2. /\ Log' = Log \cup {new} /\ new.lsn \in Nat
        /\ \A rec \in Log : rec.lsn \in Nat /\ rec.lsn < new.lsn
        /\ new.txn = t /\ new.type = "Begin"
    BY <1>2, <2>1
  <2> HIDE DEF new
  <2>3. /\ KeepsCurrent /\ \A u \in TxnIds \ {t} : KeepsIntents(u)
        /\ \A r \in Rows : OwnIntents(t, chains[r])' = {}
        /\ t = nextTxnId
    BY <1>1, <2>1, BeginStep
  <2>4. \A rec \in Log : rec.txn # t
    <3>1. nextTxnId \in Nat /\ ~(nextTxnId < nextTxnId)
      BY <2>3, TxnIdsAssumption
    <3> QED BY <1>1, <2>3, <3>1 DEF RecordsTyped
  <2>5. SideInv'
    BY <1>1, <2>2, <2>3, <2>4, EndsKeepSides
  <2>6. (LogIsWhole' => LogIsWhole) /\ (CommitsInIdOrder' => CommitsInIdOrder)
    BY <2>2, <2>4, WholeBefore
  <2>7. Durable' = Durable
    BY <1>3, <2>2
  <2> QED BY <1>1, <2>3, <2>5, <2>6, <2>7, ExactKept DEF SerialInv, SideInv
<1>5. ASSUME LoggedCommit(t) PROVE SerialInv'
  <2>1. Commit(t) /\ Journal(t, "Commit", NoPayload)
    BY <1>5 DEF LoggedCommit
  <2> DEFINE new == RecordOf(t, "Commit", NoPayload)
  <2>2. /\ Log' = Log \cup {new} /\ new.lsn \in Nat
        /\ \A rec \in Log : rec.lsn \in Nat /\ rec.lsn < new.lsn
        /\ new.txn = t /\ new.type = "Commit"
    BY <1>2, <2>1
  <2> HIDE DEF new
  <2>3. (\A u \in TxnIds : KeepsIntents(u)) /\ ~IsLive(t)'
    BY <1>1, <2>1, CommitStep
  <2>4. SideInv'
    BY <1>1, <2>2, <2>3, EndsKeepSides
  <2>5. SerialRecoveryIsExact'
    BY <1>1, <2>1, <2>2, <2>4, ExactCommit DEF SideInv
  <2> QED BY <2>4, <2>5 DEF SerialInv, SideInv
<1>6. ASSUME LoggedAbort(t) PROVE SerialInv'
  <2>1. UndoAll(t) /\ Journal(t, "Abort", NoPayload)
    BY <1>6 DEF LoggedAbort, CommitConflict, Rollback
  <2> DEFINE new == RecordOf(t, "Abort", NoPayload)
  <2>2. /\ Log' = Log \cup {new} /\ new.lsn \in Nat
        /\ \A rec \in Log : rec.lsn \in Nat /\ rec.lsn < new.lsn
        /\ new.txn = t /\ new.type = "Abort"
    BY <1>2, <2>1
  <2> HIDE DEF new
  <2>3. KeepsCurrent /\ \A u \in TxnIds : KeepsIntents(u)
    BY <1>1, <2>1, AbortStep
  <2>4. SideInv'
    BY <1>1, <2>2, <2>3, EndsKeepSides
  <2>5. (LogIsWhole' => LogIsWhole) /\ (CommitsInIdOrder' => CommitsInIdOrder)
    BY <2>2, WholeBefore
  <2>6. Durable' = Durable
    BY <1>3, <2>2
  <2> QED BY <1>1, <2>3, <2>4, <2>5, <2>6, ExactKept DEF SerialInv, SideInv
<1>7. ASSUME NEW r \in Rows, NEW c \in Cells, NEW type \in {"Insert", "Update", "Delete"},
             IsLive(t), Write(t, r, c), Journal(t, type, [row |-> r, value |-> c])
      PROVE  SerialInv'
  <2> DEFINE new == RecordOf(t, type, [row |-> r, value |-> c])
  <2>1. /\ Log' = Log \cup {new} /\ new.lsn \in Nat
        /\ \A rec \in Log : rec.lsn \in Nat /\ rec.lsn < new.lsn
        /\ new.txn = t /\ new.type = type /\ new.row = r /\ new.value = c
    BY <1>2, <1>7
  <2> HIDE DEF new
  <2>2. KeepsCurrent
    BY <1>1, <1>7, WriteStep
  <2>3. SideInv'
    BY <1>1, <1>7, <2>1, WriteKeepsSides
  <2>4. (LogIsWhole' => LogIsWhole) /\ (CommitsInIdOrder' => CommitsInIdOrder)
    BY <2>1, WholeBefore
  <2>5. Durable' = Durable
    <3>1. \A d \in LogOf("Commit") : d.txn # t
      BY <1>1, <1>7 DEF SideInv, LiveUnended
    <3>2. LogOf("Commit")' = LogOf("Commit") /\ Changes' = Changes \cup {new}
      BY <2>1 DEF LogOf, Changes
    <3> QED BY <2>1, <3>1, <3>2 DEF Durable
  <2> QED BY <1>1, <2>2, <2>3, <2>4, <2>5, ExactKept DEF SerialInv, SideInv
<1>8. ASSUME NEW r \in Rows, NEW c \in Values, LoggedWrite(t, r, c) PROVE SerialInv'
  <2>1. c \in Cells /\ IsLive(t) /\ Write(t, r, c)
    BY <1>8 DEF LoggedWrite, Insert, Update, Cells
  <2>2. \/ Journal(t, "Insert", [row |-> r, value |-> c])
        \/ Journal(t, "Update", [row |-> r, value |-> c])
    BY <1>8 DEF LoggedWrite
  <2> QED BY <1>7, <2>1, <2>2
<1>9. ASSUME NEW r \in Rows, LoggedDelete(t, r) PROVE SerialInv'
  <2>1. /\ Absent \in Cells /\ IsLive(t) /\ Write(t, r, Absent)
        /\ Journal(t, "Delete", [row |-> r, value |-> Absent])
    BY <1>9 DEF LoggedDelete, Delete, Cells
  <2> QED BY <1>7, <2>1
<1> QED BY <1>4, <1>5, <1>6, <1>8, <1>9

LEMMA ContiguousHolds == LogInvariant => LogIsContiguous
BY ContiguousLog DEF LogInvariant

LEMMA ContiguousNext == LogInvariant' => LogIsContiguous'
BY ContiguousHolds, PTL

\* A checkpoint leaves its marker in the log, which is then not whole.
LEMMA SerialCheckpoint ==
  ASSUME SerialInv, RecoveryInv', Checkpoint
  PROVE  SerialInv'
<1> DEFINE marker == [lsn |-> nextLsn, txn |-> 0, type |-> "Checkpoint",
                      row |-> NoPayload.row, value |-> NoPayload.value]
           marked == Appended(segments, marker)
<1>1. /\ RecoveryInv /\ SideInv /\ LogInvariant /\ RecordsTyped /\ LogInvariant' /\ RecordsTyped'
  BY DEF SerialInv, RecoveryInv, SideInv
<1>2. /\ segments' = IF nextLsn > 1 THEN TruncatedBefore(marked, nextLsn - 1) ELSE marked
      /\ nextLsn' = nextLsn + 1
  BY DEF Checkpoint
<1>3. nextLsn \in Nat /\ nextLsn >= 1 /\ SegmentsSound(segments, nextLsn)
  BY <1>1 DEF LogInvariant, SegmentsSound
<1>4. \A s \in segments' : s \in marked \/ s.records = {}
  BY <1>2 DEF TruncatedBefore, NotEmpty, Segment
<1>5. marker.type = "Checkpoint" /\ marker.lsn = nextLsn
  OBVIOUS
<1> HIDE DEF marker
<1>6. \A rec \in Log' : rec \in Log \/ rec = marker
  <2> SUFFICES ASSUME NEW rec \in Log' PROVE rec \in Log \/ rec = marker
    OBVIOUS
  <2>1. PICK seg \in marked : rec \in seg.records
    BY <1>4 DEF Log
  <2> QED BY <1>3, <2>1, AppendedRecords DEF Log
<1>7. \A rec \in Log : rec.lsn \in Nat /\ rec.lsn < nextLsn
  BY <1>1, ContiguousLog, LogIsFinite DEF LogInvariant, LogIsContiguous, LsnsOf
<1>8. marker \in Log'
  <2>1. LogIsContiguous'
    BY <1>1, ContiguousNext
  <2>2. PICK rec \in Log' : rec.lsn = nextLsn' - 1
    BY <1>2, <1>3, <2>1 DEF LogIsContiguous, LsnsOf
  <2>3. rec.lsn = nextLsn
    BY <1>2, <1>3, <2>2
  <2> QED BY <1>6, <1>7, <2>2, <2>3
<1>9. LogOf("Checkpoint")' # {}
  BY <1>5, <1>8 DEF LogOf
<1>10. WritesLogged' /\ SerialRecoveryIsExact'
  BY <1>9 DEF WritesLogged, SerialRecoveryIsExact, LogIsWhole
<1>11. BeginsFirst'
  BY <1>1, <1>3, <1>5, <1>6, <1>7 DEF SideInv, BeginsFirst, LogOf
<1>12. \A u \in TxnIds : KeepsIntents(u)
  BY DEF Checkpoint, GarbageCollect, endVars, setVars, KeepsIntents, OwnIntents, Retained, IsLive
<1>13. LiveUnended'
  BY <1>1, <1>5, <1>6, <1>12 DEF SideInv, LiveUnended, KeepsIntents, LogOf
<1>14. WriteSetsCover'
  BY <1>1, <1>12 DEF SideInv, WriteSetsCover, KeepsIntents
<1> QED BY <1>10, <1>11, <1>13, <1>14 DEF SerialInv

\* A restart makes what the log recovers the committed database.
LEMMA SerialRestart ==
  ASSUME SerialInv, RecoveryInv', Restart
  PROVE  SerialInv'
<1>1. /\ chains' = [r \in Rows |-> RecoveredChain(r)]
      /\ state' = [t \in TxnIds |-> "Unknown"] /\ UNCHANGED walVars
  BY DEF Restart
<1>2. Log' = Log /\ \A t \in TxnIds : ~IsLive(t)'
  BY <1>1 DEF walVars, Log, IsLive, Live
<1>3. BeginsFirst'
  BY <1>2 DEF SerialInv, BeginsFirst, LogOf
<1>4. LiveUnended' /\ WriteSetsCover' /\ WritesLogged'
  BY <1>2 DEF LiveUnended, WriteSetsCover, WritesLogged
<1>5. ASSUME NEW r \in Rows PROVE RecoveredValue(r)' = LatestCommitted(r)'
  <2>1. RecoveredChain(r)' = RecoveredChain(r)
    BY <1>2 DEF RecoveredChain, Replayed, Replayable, LogOf, RecoveredTs, ReplayedBefore
  <2>2. chains'[r] = RecoveredChain(r)'
    BY <1>1, <2>1
  <2> QED BY <2>2 DEF RecoveredValue, LatestCommitted, Current, Newest
<1>6. SerialRecoveryIsExact'
  BY <1>5 DEF SerialRecoveryIsExact
<1> QED BY <1>3, <1>4, <1>6 DEF SerialInv

\* No transaction takes a write back before it ends: what a rollback to a
\* savepoint undoes stays in the log as if it had been kept.
NoRollbackToSavepoint == [][~\E t \in TxnIds : RollbackToSavepoint(t)]_allVars

LEMMA SerialStep ==
  ASSUME SerialInv, [WalNext]_allVars, [~\E t \in TxnIds : RollbackToSavepoint(t)]_allVars
  PROVE  SerialInv'
<1>1. RecoveryInv /\ TypeInv
  BY DEF SerialInv, RecoveryInv
<1>2. RecoveryInv'
  BY <1>1, WalSteps, StepKeepsRecovery, RestartKeepsRecovery
<1>3. CASE UNCHANGED allVars
  <2>1. UNCHANGED walVars /\ UNCHANGED <<chains, state, writeSet>>
    BY <1>3 DEF allVars, vars, endVars, setVars
  <2>2. KeepsCurrent /\ \A u \in TxnIds : KeepsIntents(u)
    BY <2>1 DEF KeepsCurrent, KeepsIntents, Current, OwnIntents, IsLive
  <2> QED BY <1>2, <2>1, <2>2, SerialQuiet
<1>4. ASSUME ~\E t \in TxnIds : RollbackToSavepoint(t),
             \/ \E t \in TxnIds, r \in Rows : Unlogged(t, r)
             \/ UnloggedSavepoint \/ UnloggedLock \/ UnloggedCollect
      PROVE  SerialInv'
  BY <1>1, <1>2, <1>4, QuietStep, SerialQuiet
<1>5. ASSUME ~\E t \in TxnIds : RollbackToSavepoint(t), TransactionNext PROVE SerialInv'
  <2>1. PICK t \in TxnIds :
          \/ \E level \in Isolations : LoggedBegin(t, level)
          \/ LoggedCommit(t)
          \/ LoggedAbort(t)
          \/ \E r \in Rows : (\E c \in Values : LoggedWrite(t, r, c)) \/ LoggedDelete(t, r)
          \/ \E r \in Rows : Unlogged(t, r)
    BY <1>5 DEF TransactionNext
  <2> QED BY <1>2, <1>4, <1>5, <2>1, SerialJournal
<1>6. Checkpoint \/ Restart => SerialInv'
  BY <1>2, SerialCheckpoint, SerialRestart
<1> QED BY <1>3, <1>4, <1>5, <1>6 DEF WalNext

\* With transactions that commit in the order they began and a log never
\* truncated, a restart recovers exactly the committed database (run
\* txn_recovery), in every instance and whatever restarted before, as long as no
\* savepoint is rolled back.
THEOREM SerialRecovery == WalSpec /\ NoRollbackToSavepoint => []SerialRecoveryIsExact
<1>1. /\ SerialInv
      /\ [WalNext]_allVars /\ [~\E t \in TxnIds : RollbackToSavepoint(t)]_allVars
      => SerialInv'
  BY SerialStep
<1>2. SerialInv => SerialRecoveryIsExact
  BY DEF SerialInv
<1> QED BY <1>1, <1>2, InitSerial, PTL DEF WalSpec, NoRollbackToSavepoint
=============================================================================
