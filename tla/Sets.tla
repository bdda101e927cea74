-------------------------------- MODULE Sets ---------------------------------
(***************************************************************************)
(* The sets of src/src: the bit set, the compressed bitmap and its index,  *)
(* the roaring bitmap, the range set, the interval tree and the bit        *)
(* matrix.  A behaviour works on two sets of one kind, and keeps beside    *)
(* each the members its calls promise.  A word is the set of its bits.     *)
(*                                                                         *)
(* `unsettled` is a history variable: the members over which the code      *)
(* departs from what it documents, of which SetsMeanMembers says nothing.  *)
(***************************************************************************)
EXTENDS Integers, Sequences, FiniteSets, SequencesExt, FiniteSetsExt

CONSTANTS
  WordBits,          \* bits of a word: 64
  Bits,              \* the members used, from 0
  ArrayMax,          \* ARRAY_MAX
  ChunkSize,         \* low values of a chunk: 65536
  Lowest, Highest,   \* i64::MIN and i64::MAX
  Nodes,             \* the order of the matrices
  SecondSets,        \* sets the second handle starts from
  IndexedValues,     \* values of the columns an index is built from
  MaxRows            \* bound: rows of such a column

VARIABLES family, first, second, inFirst, inSecond, unsettled

setVars == <<family, first, second, inFirst, inSecond, unsettled>>

Least(S) == CHOOSE x \in S : \A y \in S : x <= y
Greatest(S) == CHOOSE x \in S : \A y \in S : x >= y
Ascending(S) == SetToSortSeq(S, <)

(***************************************************************************)
(* BitSet.                                                                 *)
(***************************************************************************)
Ensure(words, w) == words \o [i \in 1 .. w + 1 - Len(words) |-> {}]
WordAt(words, w) == IF w < Len(words) THEN words[w + 1] ELSE {}
BitInsert(words, x) == [Ensure(words, x \div WordBits) EXCEPT ![x \div WordBits + 1] = @ \cup {x % WordBits}]
BitRemove(words, x) ==
  IF x \div WordBits >= Len(words) THEN words ELSE [words EXCEPT ![x \div WordBits + 1] = @ \ {x % WordBits}]
BitContains(words, x) == x % WordBits \in WordAt(words, x \div WordBits)

\* Fault: the set does not grow for the members of the other.
UnionWithin(a, b) == [i \in DOMAIN a |-> a[i] \cup WordAt(b, i - 1)]

\* union_with, intersect_with and difference_with.
UnionWith(a, b) ==
  LET grown == Ensure(a, IF b = <<>> THEN 0 ELSE Len(b) - 1)
  IN  [i \in DOMAIN grown |-> grown[i] \cup WordAt(b, i - 1)]
IntersectWith(a, b) == [i \in DOMAIN a |-> a[i] \cap WordAt(b, i - 1)]
DifferenceWith(a, b) == [i \in DOMAIN a |-> a[i] \ WordAt(b, i - 1)]

CountIn(words, n) == FoldLeft(LAMBDA t, w : t + Cardinality(w), 0, SubSeq(words, 1, n))
BitRank(words, x) ==
  LET w == x \div WordBits
  IN  CountIn(words, Least({w, Len(words)})) + Cardinality({b \in WordAt(words, w) : b < x % WordBits})
\* The word the n-th bit is in, and its place among the word's own bits.
BitSelect(words, n) ==
  LET w == Least({i \in DOMAIN words : n < CountIn(words, i)})
  IN  IF n >= CountIn(words, Len(words)) THEN <<>>
      ELSE <<(w - 1) * WordBits + Ascending(words[w])[n - CountIn(words, w - 1) + 1]>>
BitMax(words) ==
  LET used == {i \in DOMAIN words : words[i] # {}}
  IN  IF used = {} THEN <<>> ELSE <<(Greatest(used) - 1) * WordBits + Greatest(words[Greatest(used)])>>
BitMin(words) ==
  LET used == {i \in DOMAIN words : words[i] # {}}
  IN  IF used = {} THEN <<>> ELSE <<(Least(used) - 1) * WordBits + Least(words[Least(used)])>>
BitsOf(words) ==
  FlattenSeq([i \in DOMAIN words |-> [k \in 1 .. Cardinality(words[i]) |->
                                        (i - 1) * WordBits + Ascending(words[i])[k]]])
IsSubsetOf(a, b) == \A i \in DOMAIN a : a[i] \ WordAt(b, i - 1) = {}
IsDisjoint(a, b) == \A i \in 1 .. Least({Len(a), Len(b)}) : a[i] \cap b[i] = {}

BitSetStep ==
  /\ family = "bitset"
  /\ \/ \E x \in Bits : first' = BitInsert(first, x) /\ inFirst' = inFirst \cup {x}
     \/ \E x \in Bits : first' = BitRemove(first, x) /\ inFirst' = inFirst \ {x}
     \/ first' = UnionWith(first, second) /\ inFirst' = inFirst \cup inSecond
     \/ first' = IntersectWith(first, second) /\ inFirst' = inFirst \cap inSecond
     \/ first' = DifferenceWith(first, second) /\ inFirst' = inFirst \ inSecond
  /\ UNCHANGED <<family, second, inSecond, unsettled>>

(***************************************************************************)
(* Bitmap: fills <<value, run>> and literals <<bits>>.  compress masks the *)
(* flag bit, the top one, out of every word.                               *)
(***************************************************************************)
LiteralBits == 0 .. WordBits - 2
WordsFor(len) == (len + WordBits - 1) \div WordBits

Compress(lits) ==
  LET put(out, l) ==
        LET w == l \cap LiteralBits
        IN  IF w \notin {{}, LiteralBits} THEN Append(out, <<w>>)
            ELSE IF out # <<>> /\ Len(Last(out)) = 2 /\ Last(out)[1] = w THEN Front(out) \o <<<<w, Last(out)[2] + 1>>>>
            ELSE Append(out, <<w, 1>>)
  IN  FoldLeft(put, <<>>, lits)

Decompress(words, len) ==
  LET unrolled == FlattenSeq([i \in DOMAIN words |->
                    [k \in 1 .. (IF Len(words[i]) = 2 THEN words[i][2] ELSE 1) |-> words[i][1]]])
  IN  [i \in 1 .. WordsFor(len) |-> WordAt(unrolled, i - 1)]

FromLiterals(lits, len) == [words |-> Compress(lits), len |-> len]
FromSetBits(set, len) ==
  FromLiterals([i \in 1 .. WordsFor(len) |-> {b \in 0 .. WordBits - 1 : (i - 1) * WordBits + b \in set /\
                                                                       (i - 1) * WordBits + b < len}], len)
ToSetBits(m) == SelectSeq(BitsOf(Decompress(m.words, m.len)), LAMBDA p : p < m.len)

\* and, or, not and popcount.
MapAnd(a, b) ==
  LET len == Least({a.len, b.len})
      x == Decompress(a.words, len)
      y == Decompress(b.words, len)
  IN  FromLiterals([i \in DOMAIN x |-> x[i] \cap y[i]], len)
MapOr(a, b) ==
  LET len == Greatest({a.len, b.len})
      x == Decompress(a.words, len)
      y == Decompress(b.words, len)
  IN  FromLiterals([i \in DOMAIN x |-> x[i] \cup y[i]], len)
MapNot(a) ==
  LET x == Decompress(a.words, a.len) IN FromLiterals([i \in DOMAIN x |-> LiteralBits \ x[i]], a.len)
\* Each bit of the last word past the length takes one from its count.
PopCount(m) ==
  LET lits == Decompress(m.words, m.len)
      excess == Len(lits) * WordBits - m.len
  IN  IF lits = <<>> THEN 0
      ELSE CountIn(lits, Len(lits) - 1) + Greatest({0, Cardinality(Last(lits)) - excess})

\* The rows that have the top bit of their word; and the bits behind a length.
TopRows(rows) == {p \in rows : p % WordBits \notin LiteralBits}
BitsBehind(len) == len .. WordsFor(len) * WordBits - 1

\* A complement fills its last word, and a longer map that is joined to it shows
\* the bits behind its length.
BitmapStep ==
  /\ family = "bitmap"
  /\ \/ first' = MapAnd(first, second) /\ inFirst' = inFirst \cap inSecond /\ UNCHANGED unsettled
     \/ first' = MapOr(first, second) /\ inFirst' = inFirst \cup inSecond /\ UNCHANGED unsettled
     \/ /\ first' = MapNot(first) /\ inFirst' = (0 .. first.len - 1) \ inFirst
        /\ unsettled' = unsettled \cup BitsBehind(first.len)
  /\ UNCHANGED <<family, second, inSecond>>

\* BitmapIndex::build over a column, and its look-ups.
BuildIndex(column) ==
  [v \in {column[i] : i \in DOMAIN column} |->
     FromSetBits({i - 1 : i \in {i \in DOMAIN column : column[i] = v}}, Len(column))]
EmptyMap == [words |-> <<>>, len |-> 0]
MapOf(index, v) == IF v \in DOMAIN index THEN index[v] ELSE EmptyMap
RowsWith(index, v) == ToSetBits(MapOf(index, v))
LookupAnd(index, v, u) == IF {v, u} \subseteq DOMAIN index THEN ToSetBits(MapAnd(index[v], index[u])) ELSE <<>>
LookupOr(index, v, u) == ToSetBits(MapOr(MapOf(index, v), MapOf(index, u)))

(***************************************************************************)
(* RoaringBitmap: the chunks in use, each an array or a bitmap.            *)
(***************************************************************************)
EmptyChunks == [h \in {} |-> {}]
ChunkOf(chunks, x) ==
  LET h == x \div ChunkSize IN IF h \in DOMAIN chunks THEN chunks[h] ELSE [form |-> "array", low |-> {}]
WithChunk(chunks, x, c) == [h \in DOMAIN chunks \cup {x \div ChunkSize} |-> IF h = x \div ChunkSize THEN c ELSE chunks[h]]
ChunkInsert(c, low) ==
  LET grown == c.low \cup {low}
  IN  [form |-> IF c.form = "array" /\ Cardinality(grown) > ArrayMax THEN "bitmap" ELSE c.form, low |-> grown]
RoaringInsert(chunks, x) == WithChunk(chunks, x, ChunkInsert(ChunkOf(chunks, x), x % ChunkSize))
RoaringContains(chunks, x) == x % ChunkSize \in ChunkOf(chunks, x).low
\* A chunk that has become empty goes; a bitmap that has become small stays one.
RoaringRemove(chunks, x) ==
  LET low == ChunkOf(chunks, x).low \ {x % ChunkSize}
  IN  IF x \div ChunkSize \notin DOMAIN chunks THEN chunks
      ELSE IF low = {} THEN [h \in DOMAIN chunks \ {x \div ChunkSize} |-> chunks[h]]
      ELSE [chunks EXCEPT ![x \div ChunkSize].low = low]
RoaringValues(chunks) ==
  FlattenSeq([i \in 1 .. Cardinality(DOMAIN chunks) |->
                LET h == Ascending(DOMAIN chunks)[i]
                IN  [k \in 1 .. Cardinality(chunks[h].low) |-> h * ChunkSize + Ascending(chunks[h].low)[k]]])
\* maybe_shrink, which only union calls.
Shrunk(c) == IF Cardinality(c.low) <= ArrayMax THEN [c EXCEPT !.form = "array"] ELSE c
RoaringUnion(a, b) ==
  LET all == FoldLeft(RoaringInsert, a, RoaringValues(b)) IN [h \in DOMAIN all |-> Shrunk(all[h])]
RoaringIntersect(a, b) == FoldLeft(RoaringInsert, EmptyChunks, SelectSeq(RoaringValues(a), LAMBDA x : RoaringContains(b, x)))
RoaringDifference(a, b) == FoldLeft(RoaringInsert, EmptyChunks, SelectSeq(RoaringValues(a), LAMBDA x : ~RoaringContains(b, x)))
\* min and max, of the first and of the last chunk.
RoaringMin(chunks) ==
  LET h == Least(DOMAIN chunks) IN IF DOMAIN chunks = {} THEN <<>> ELSE <<h * ChunkSize + Least(chunks[h].low)>>
RoaringMax(chunks) ==
  LET h == Greatest(DOMAIN chunks) IN IF DOMAIN chunks = {} THEN <<>> ELSE <<h * ChunkSize + Greatest(chunks[h].low)>>

RoaringStep ==
  /\ family = "roaring"
  /\ \/ \E x \in Bits : first' = RoaringInsert(first, x) /\ inFirst' = inFirst \cup {x}
     \/ \E x \in Bits : first' = RoaringRemove(first, x) /\ inFirst' = inFirst \ {x}
     \/ first' = RoaringUnion(first, second) /\ inFirst' = inFirst \cup inSecond
     \/ first' = RoaringIntersect(first, second) /\ inFirst' = inFirst \cap inSecond
     \/ first' = RoaringDifference(first, second) /\ inFirst' = inFirst \ inSecond
  /\ UNCHANGED <<family, second, inSecond, unsettled>>

(***************************************************************************)
(* RangeSet: ranges <<lo, hi>> in order.  The arithmetic saturates.        *)
(***************************************************************************)
Pred(x) == Greatest({x - 1, Lowest})
Succ(x) == Least({x + 1, Highest})

\* add: the loop, with the new range as far as it has grown.
RangeAdd(ranges, lo, hi) ==
  LET pass(s, r) ==
        IF r[2] < Pred(s.lo) THEN [s EXCEPT !.out = Append(@, r)]
        ELSE IF r[1] > Succ(s.hi)
             THEN [s EXCEPT !.out = (IF s.inserted THEN @ ELSE Append(@, <<s.lo, s.hi>>)) \o <<r>>, !.inserted = TRUE]
        ELSE [s EXCEPT !.lo = Least({s.lo, r[1]}), !.hi = Greatest({s.hi, r[2]})]
      done == FoldLeft(pass, [out |-> <<>>, lo |-> lo, hi |-> hi, inserted |-> FALSE], ranges)
      all == IF done.inserted THEN done.out ELSE Append(done.out, <<done.lo, done.hi>>)
  IN  IF lo > hi THEN ranges ELSE SortSeq(all, LAMBDA a, b : a[1] < b[1])

\* contains: a binary search from place lo to before place hi.
RECURSIVE Covers(_, _, _, _)
Covers(ranges, lo, hi, x) ==
  LET mid == (lo + hi) \div 2
  IN  IF lo >= hi THEN FALSE
      ELSE IF x < ranges[mid + 1][1] THEN Covers(ranges, lo, mid, x)
      ELSE IF x > ranges[mid + 1][2] THEN Covers(ranges, mid + 1, hi, x)
      ELSE TRUE
RangeContains(ranges, x) == Covers(ranges, 0, Len(ranges), x)

RangeUnion(a, b) == FoldLeft(LAMBDA s, r : RangeAdd(s, r[1], r[2]), a, b)
RECURSIVE RangeIntersect(_, _)
RangeIntersect(a, b) ==
  IF a = <<>> \/ b = <<>> THEN <<>>
  ELSE LET lo == Greatest({a[1][1], b[1][1]})
           hi == Least({a[1][2], b[1][2]})
           rest == IF a[1][2] < b[1][2] THEN RangeIntersect(Tail(a), b) ELSE RangeIntersect(a, Tail(b))
       IN  (IF lo <= hi THEN <<<<lo, hi>>>> ELSE <<>>) \o rest
RangeOverlaps(ranges, lo, hi) == lo <= hi /\ \E i \in DOMAIN ranges : ranges[i][1] <= hi /\ lo <= ranges[i][2]
RangeComplement(ranges, lo, hi) ==
  LET pass(s, r) ==
        IF r[2] < lo \/ r[1] > hi THEN s
        ELSE [out |-> IF Greatest({r[1], lo}) > s.cursor
                      THEN Append(s.out, <<s.cursor, Greatest({r[1], lo}) - 1>>) ELSE s.out,
              cursor |-> Greatest({s.cursor, Succ(r[2])})]
      done == FoldLeft(pass, [out |-> <<>>, cursor |-> lo], ranges)
  IN  IF done.cursor <= hi THEN Append(done.out, <<done.cursor, hi>>) ELSE done.out

\* A complement up to i64::MAX keeps that number, also where a range covers it.
RangeStep ==
  /\ family = "ranges"
  /\ \/ \E lo, hi \in Lowest .. Highest :
          first' = RangeAdd(first, lo, hi) /\ inFirst' = inFirst \cup lo .. hi /\ UNCHANGED unsettled
     \/ first' = RangeUnion(first, second) /\ inFirst' = inFirst \cup inSecond /\ UNCHANGED unsettled
     \/ first' = RangeIntersect(first, second) /\ inFirst' = inFirst \cap inSecond /\ UNCHANGED unsettled
     \/ \E lo, hi \in Lowest .. Highest :
          /\ lo <= hi /\ first' = RangeComplement(first, lo, hi) /\ inFirst' = lo .. hi \ inFirst
          /\ unsettled' = unsettled \cup (lo .. hi \cap inFirst \cap {Highest})
  /\ UNCHANGED <<family, second, inSecond>>

(***************************************************************************)
(* IntervalTree: built of intervals in order, the middle one the root.     *)
(***************************************************************************)
NoTree == <<>>
Interval(a, b, id) == [lo |-> Least({a, b}), hi |-> Greatest({a, b}), id |-> id]
Meets(v, lo, hi) == v.lo <= hi /\ lo <= v.hi

RECURSIVE BuildRange(_)
BuildRange(sorted) ==
  IF sorted = <<>> THEN NoTree
  ELSE LET mid == Len(sorted) \div 2 + 1
           l == BuildRange(SubSeq(sorted, 1, mid - 1))
           r == BuildRange(SubSeq(sorted, mid + 1, Len(sorted)))
       IN  [interval |-> sorted[mid], left |-> l, right |-> r,
            maxHi |-> Greatest({sorted[mid].hi} \cup {t.maxHi : t \in {l, r} \ {NoTree}})]
BuildTree(intervals) == BuildRange(SortSeq(intervals, LAMBDA a, b : a.lo < b.lo \/ (a.lo = b.lo /\ a.hi < b.hi)))

RECURSIVE QueryNode(_, _, _)
QueryNode(t, lo, hi) ==
  IF t = NoTree \/ t.maxHi < lo THEN <<>>
  ELSE QueryNode(t.left, lo, hi) \o (IF Meets(t.interval, lo, hi) THEN <<t.interval>> ELSE <<>>)
       \o (IF t.interval.lo <= hi THEN QueryNode(t.right, lo, hi) ELSE <<>>)
RECURSIVE Stab(_, _, _)
Stab(t, lo, hi) ==
  t # NoTree /\ t.maxHi >= lo /\
  (Meets(t.interval, lo, hi) \/ Stab(t.left, lo, hi) \/ (t.interval.lo <= hi /\ Stab(t.right, lo, hi)))

\* The tree of one interval more; the intervals are numbered.
IntervalStep ==
  /\ family = "intervals" /\ Cardinality(inFirst) < 3
  /\ \E a \in 0 .. Highest, b \in {0, 1, Highest} :
       /\ inFirst' = inFirst \cup {Interval(a, b, Cardinality(inFirst))}
       /\ first' = BuildTree(SetToSortSeq(inFirst', LAMBDA x, y : x.id < y.id))
  /\ UNCHANGED <<family, second, inSecond, unsettled>>

(***************************************************************************)
(* BitMatrix: a row is the set of its columns.                             *)
(***************************************************************************)
Places2 == 0 .. Nodes - 1
SetBit(m, r, c, value) ==
  IF r >= Nodes \/ c >= Nodes THEN m
  ELSE [m EXCEPT ![r] = IF value THEN @ \cup {c} ELSE @ \ {c}]
TransitiveClosureOf(m) ==
  LET through(a, k) == [i \in Places2 |-> IF k \in a[i] THEN a[i] \cup a[k] ELSE a[i]]
  IN  FoldLeft(through, m, [k \in 1 .. Nodes |-> k - 1])
Reaches(m, x) == {y \in Places2 : \A S \in SUBSET Places2 : m[x] \subseteq S /\ (\A z \in S : m[z] \subseteq S) => y \in S}

MatrixStep ==
  /\ family = "matrix"
  /\ \/ \E r, c \in 0 .. Nodes, v \in BOOLEAN :
          /\ first' = SetBit(first, r, c, v)
          /\ inFirst' = IF v THEN inFirst \cup ({<<r, c>>} \cap (Places2 \X Places2)) ELSE inFirst \ {<<r, c>>}
     \/ /\ first' = TransitiveClosureOf(first)
        /\ inFirst' = {p \in Places2 \X Places2 : p[2] \in Reaches([r \in Places2 |-> {c \in Places2 : <<r, c>> \in inFirst}], p[1])}
  /\ UNCHANGED <<family, second, inSecond, unsettled>>

-----------------------------------------------------------------------------
IndexBuilt(column) ==
  /\ first = BuildIndex(column)
  /\ inFirst = {<<i - 1, column[i]>> : i \in DOMAIN column}
  /\ unsettled = TopRows(0 .. Len(column) - 1)

SetsInit ==
  \/ /\ family = "bitset" /\ first = <<>> /\ inFirst = {} /\ unsettled = {}
     /\ \E S \in SecondSets : second = FoldLeft(BitInsert, <<>>, Ascending(S)) /\ inSecond = S
  \/ /\ family = "bitmap"
     /\ \E S, T \in SecondSets, m, n \in {0, WordBits, WordBits + 1, 2 * WordBits + 1} :
          /\ first = FromSetBits(S, m) /\ inFirst = S \cap 0 .. m - 1
          /\ second = FromSetBits(T, n) /\ inSecond = T \cap 0 .. n - 1
          /\ unsettled = TopRows(0 .. Greatest({m, n}) - 1)
  \/ /\ family = "index" /\ second = <<>> /\ inSecond = {}
     /\ \E n \in 0 .. MaxRows : \E column \in [1 .. n -> IndexedValues] : IndexBuilt(column)
  \/ /\ family = "roaring" /\ first = EmptyChunks /\ inFirst = {} /\ unsettled = {}
     /\ \E S \in SecondSets : second = FoldLeft(RoaringInsert, EmptyChunks, Ascending(S)) /\ inSecond = S
  \/ /\ family = "ranges" /\ first = <<>> /\ inFirst = {} /\ unsettled = {}
     /\ \E S \in SecondSets : second = FoldLeft(LAMBDA s, x : RangeAdd(s, x, x), <<>>, Ascending(S)) /\ inSecond = S
  \/ /\ family = "intervals" /\ first = NoTree /\ inFirst = {} /\ second = <<>> /\ inSecond = {}
     /\ unsettled = {}
  \/ /\ family = "matrix" /\ first = [r \in Places2 |-> {}] /\ inFirst = {} /\ second = <<>> /\ inSecond = {}
     /\ unsettled = {}

SetsNext == BitSetStep \/ BitmapStep \/ RoaringStep \/ RangeStep \/ IntervalStep \/ MatrixStep

(***************************************************************************)
(* Each kind.                                                              *)
(***************************************************************************)
BitSetMeans(words, S) ==
  LET listed == BitsOf(words)
  IN  /\ listed = Ascending(S) /\ CountIn(words, Len(words)) = Cardinality(S)
      /\ \A x \in Bits : (x \in S) = BitContains(words, x) /\ BitRank(words, x) = Cardinality({y \in S : y < x})
      /\ \A n \in Bits : BitSelect(words, n) = (IF n < Len(listed) THEN <<listed[n + 1]>> ELSE <<>>)
      /\ IF S = {} THEN BitMin(words) = <<>> /\ BitMax(words) = <<>>
         ELSE BitMin(words) = <<Least(S)>> /\ BitMax(words) = <<Greatest(S)>>

Settled(rows) == SelectSeq(rows, LAMBDA p : p \notin unsettled)

BitmapMeans(m, S) ==
  /\ Settled(ToSetBits(m)) = Ascending(S \ unsettled)
  /\ m.len % WordBits = 0 =>
       PopCount(m) - Cardinality(S \ unsettled) \in 0 .. Cardinality(unsettled \cap 0 .. m.len - 1)

RowsOf(pairs, v) == {p[1] : p \in {p \in pairs : p[2] = v}}
IndexMeans(index, pairs) ==
  LET rows(v) == RowsOf(pairs, v) \ unsettled
      values == IndexedValues \cup {0}
  IN  \A v, u \in values :
        /\ Settled(RowsWith(index, v)) = Ascending(rows(v))
        /\ Settled(LookupAnd(index, v, u)) = Ascending(rows(v) \cap rows(u))
        /\ Settled(LookupOr(index, v, u)) = Ascending(rows(v) \cup rows(u))

RoaringMeans(chunks, S) ==
  /\ RoaringValues(chunks) = Ascending(S)
  /\ \A x \in Bits : (x \in S) = RoaringContains(chunks, x)
  /\ \A h \in DOMAIN chunks : /\ chunks[h].low # {}
                              /\ chunks[h].form = "array" => Cardinality(chunks[h].low) <= ArrayMax
  /\ S # {} => RoaringMin(chunks) = <<Least(S)>> /\ RoaringMax(chunks) = <<Greatest(S)>>

RangesMean(ranges, S) ==
  LET settled == (Lowest .. Highest) \ unsettled
  IN  /\ \A x \in settled : (x \in S) = RangeContains(ranges, x)
      /\ \A lo, hi \in Lowest .. Highest :
           lo .. hi \subseteq settled => RangeOverlaps(ranges, lo, hi) = (S \cap lo .. hi # {})
      /\ \A i, j \in DOMAIN ranges : i < j /\ ranges[j][1] \in settled => ranges[j][1] > ranges[i][2] + 1

IntervalsMean(tree, V) ==
  \A lo, hi \in Lowest .. Highest :
    LET hits == {v \in V : Meets(v, lo, hi)}
        found == QueryNode(tree, lo, hi)
    IN  lo <= hi => /\ ToSet(found) = hits /\ Len(found) = Cardinality(hits)
                    /\ \A i, j \in DOMAIN found : i < j => found[i].lo <= found[j].lo
                    /\ Stab(tree, lo, hi) = (hits # {})

(***************************************************************************)
(* After any operations each structure answers as the set of its members:  *)
(* across word, chunk and range borders, with handles of different lengths *)
(* and in either form of a chunk.  It says nothing of the members and      *)
(* calls where bitmap.rs and rangeset.rs do not do what they document:     *)
(* rows at the top bit of a word of a bitmap (bitmap.rs:3-4), bits behind  *)
(* the length of a complement (bitmap.rs:101), the population count of a   *)
(* map whose last word is not full (bitmap.rs:114), and i64::MAX once a    *)
(* complement was taken of a set that had it (rangeset.rs:155).            *)
(***************************************************************************)
SetsMeanMembers ==
  CASE family = "bitset" -> /\ BitSetMeans(first, inFirst) /\ BitSetMeans(second, inSecond)
                            /\ IsSubsetOf(first, second) = (inFirst \subseteq inSecond)
                            /\ IsDisjoint(first, second) = (inFirst \cap inSecond = {})
    [] family = "bitmap" -> BitmapMeans(first, inFirst) /\ BitmapMeans(second, inSecond)
    [] family = "index" -> IndexMeans(first, inFirst)
    [] family = "roaring" -> RoaringMeans(first, inFirst) /\ RoaringMeans(second, inSecond)
    [] family = "ranges" -> RangesMean(first, inFirst) /\ RangesMean(second, inSecond)
    [] family = "intervals" -> IntervalsMean(first, inFirst)
    [] family = "matrix" -> \A p \in Places2 \X Places2 : (p \in inFirst) = (p[2] \in first[p[1]])
=============================================================================
