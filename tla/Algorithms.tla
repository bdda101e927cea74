----------------------------- MODULE Algorithms ------------------------------
(***************************************************************************)
(* The algorithms of src/src that take whole inputs: the joins of join.rs, *)
(* the hash partitioning of partition.rs, the window functions of          *)
(* window.rs and the aggregate of query.rs.  A step runs one of them.      *)
(***************************************************************************)
EXTENDS Expressions, SequencesExt, FiniteSetsExt

CONSTANTS
  AlgorithmJobs,   \* the inputs, each with the algorithm it is for
  HashOfKey        \* fxhash_u64 of the integers used as keys

VARIABLES algorithmJob, result

algorithmVars == <<algorithmJob, result>>

Width(rows) == IF rows = <<>> THEN 0 ELSE Len(rows[1])
NullRow(rows) == [i \in 1 .. Width(rows) |-> Null]
PlacesOf(rows, Test(_)) == SelectSeq([i \in DOMAIN rows |-> i], Test)
SeqAt(rows, places) == [i \in DOMAIN places |-> rows[places[i]]]

(***************************************************************************)
(* join.rs.  emit_join gives the left row alone for a semi or anti join.   *)
(***************************************************************************)
Emitted(l, r, kind) == IF kind \in {"semi", "anti"} THEN l ELSE l \o r
PadsRight(kind) == kind \in {"left", "full"}
PadsLeft(kind) == kind \in {"right", "full"}

\* hash_join: built on the left, probed by the right rows in turn.
HashJoin(L, R, lc, rc, kind) ==
  LET hits(r) == PlacesOf(L, LAMBDA l : Cell(L[l], lc) = Cell(R[r], rc))
      probe(r) == IF hits(r) # <<>> THEN [k \in DOMAIN hits(r) |-> Emitted(L[hits(r)[k]], R[r], kind)]
                  ELSE IF PadsLeft(kind) THEN <<Emitted(NullRow(L), R[r], kind)>> ELSE <<>>
      alone == PlacesOf(L, LAMBDA l : \A r \in DOMAIN R : Cell(L[l], lc) # Cell(R[r], rc))
  IN  FlattenSeq([r \in DOMAIN R |-> probe(r)]) \o
      (IF PadsRight(kind) THEN [k \in DOMAIN alone |-> Emitted(L[alone[k]], NullRow(R), kind)] ELSE <<>>)

\* nested_loop_join: no left padding, semi and anti resolved behind the loop.
NestedLoopJoin(L, R, lc, rc, op, kind) ==
  LET hits(l) == PlacesOf(R, LAMBDA r : Apply(op, Cell(L[l], lc), Cell(R[r], rc)))
      loop(l) == IF hits(l) = <<>> THEN (IF PadsRight(kind) THEN <<L[l] \o NullRow(R)>> ELSE <<>>)
                 ELSE [k \in DOMAIN hits(l) |-> L[l] \o R[hits(l)[k]]]
  IN  CASE kind = "semi" -> SeqAt(L, PlacesOf(L, LAMBDA l : hits(l) # <<>>))
        [] kind = "anti" -> SeqAt(L, PlacesOf(L, LAMBDA l : hits(l) = <<>>))
        [] OTHER -> FlattenSeq([l \in DOMAIN L |-> loop(l)])

\* Fault: the run of equal keys on the right is one row.
RunOfOne(rows, i, col, v) == i + 1

\* The rows behind place i that hold exactly value v: a run ends before it.
RunEnd(rows, i, col, v) ==
  LeastOf({j \in i .. Len(rows) + 1 : j = Len(rows) + 1 \/ Cell(rows[j], col) # v})

\* sort_merge_join from places i and j of the sorted inputs.
RECURSIVE MergeFrom(_, _, _, _, _, _, _)
MergeFrom(L, R, lc, rc, kind, i, j) ==
  LET lv == Cell(L[i], lc)
      rv == Cell(R[j], rc)
      padRight == IF PadsRight(kind) THEN <<Emitted(L[i], NullRow(R), kind)>> ELSE <<>>
      padLeft == IF PadsLeft(kind) THEN <<Emitted(NullRow(L), R[j], kind)>> ELSE <<>>
  IN  IF i > Len(L) /\ j > Len(R) THEN <<>>
      ELSE IF j > Len(R) \/ (i <= Len(L) /\ TotalCmp(lv, rv) < 0)
           THEN padRight \o MergeFrom(L, R, lc, rc, kind, i + 1, j)
      ELSE IF i > Len(L) \/ TotalCmp(lv, rv) > 0
           THEN padLeft \o MergeFrom(L, R, lc, rc, kind, i, j + 1)
      ELSE LET p == RunEnd(L, i, lc, lv)
               q == RunEnd(R, j, rc, rv)
           IN  FlattenSeq([a \in 1 .. p - i |-> [b \in 1 .. q - j |-> Emitted(L[i + a - 1], R[j + b - 1], kind)]])
               \o MergeFrom(L, R, lc, rc, kind, p, q)

SortMergeJoin(L, R, lc, rc, kind) ==
  LET sorted(rows, col) == StableSort(rows, LAMBDA a, b : TotalCmp(Cell(a, col), Cell(b, col)))
  IN  MergeFrom(sorted(L, lc), sorted(R, rc), lc, rc, kind, 1, 1)

\* cross_join
CrossJoin(L, R) == FlattenSeq([l \in DOMAIN L |-> [r \in DOMAIN R |-> L[l] \o R[r]]])

(***************************************************************************)
(* partition.rs: keys by the low bits of their hash, as places from 0.     *)
(***************************************************************************)
NextPowerOfTwo(n) == LeastOf({2 ^ k : k \in {k \in 0 .. n : 2 ^ k >= n}})
PartitionOf(key, n) == HashOfKey[key] % n
Routed(keys, n) ==
  [p \in 0 .. n - 1 |-> SelectSeq([i \in DOMAIN keys |-> i - 1], LAMBDA i : PartitionOf(keys[i + 1], n) = p)]
Copartition(left, right, n) == <<Routed(left, NextPowerOfTwo(n)), Routed(right, NextPowerOfTwo(n))>>

\* Partitioner: push_keys, histogram, max_partition.
Partitioned(keys, n) ==
  LET buckets == Routed(keys, NextPowerOfTwo(n))
      sizes == [p \in DOMAIN buckets |-> Len(buckets[p])]
  IN  [buckets |-> buckets, histogram |-> sizes, largest |-> GreatestOf(Range(sizes) \cup {0})]

(***************************************************************************)
(* window.rs over one partition, and over the partitions of a column.      *)
(***************************************************************************)
Ratio(p, q) == <<"ratio", p, q>>
Changes(rows, col, i) == i = 1 \/ Cell(rows[i], col) # Cell(rows[i - 1], col)

\* The accumulator after each row, from a start, given out by a last step.
Running(rows, start, Add(_, _), Out(_)) ==
  LET acc[i \in 0 .. Len(rows)] == IF i = 0 THEN start ELSE Add(acc[i - 1], rows[i])
  IN  [i \in DOMAIN rows |-> Out(acc[i])]

Extremum(old, v, d) ==
  IF IsNull(v) THEN old ELSE IF IsNull(old) THEN v ELSE IF d * TotalCmp(v, old) < 0 THEN v ELSE old

\* NTile: the first (n % tiles) tiles have one row more.
Tiled(n, tiles) ==
  LET size(t) == n \div tiles + (IF t <= n % tiles THEN 1 ELSE 0)
  IN  FlattenSeq([t \in 1 .. tiles |-> [i \in 1 .. size(t) |-> IntOf(t)]])

Compute(func, arg, rows, col) ==
  LET n == Len(rows)
      same(acc) == IntOf(acc)
      ranks(step(_, _)) == LET rank[i \in 0 .. n] == IF i = 0 THEN 0
                                                     ELSE IF Changes(rows, col, i) THEN step(rank[i - 1], i)
                                                     ELSE rank[i - 1]
                           IN  rank
      rank == ranks(LAMBDA r, i : i)
      dense == ranks(LAMBDA r, i : r + 1)
      ends(i) == LeastOf({j \in i .. n : j = n \/ Changes(rows, col, j + 1)})
      average(acc) == IF acc.count = 0 THEN Ratio(0, 1) ELSE Ratio(acc.sum, acc.count)
  IN  CASE func = "row_number" -> [i \in 1 .. n |-> IntOf(i)]
        [] func = "rank" -> [i \in 1 .. n |-> IntOf(rank[i])]
        [] func = "dense_rank" -> [i \in 1 .. n |-> IntOf(dense[i])]
        [] func = "lag" -> [i \in 1 .. n |-> IF i > arg THEN Cell(rows[i - arg], col) ELSE Null]
        [] func = "lead" -> [i \in 1 .. n |-> IF i + arg <= n THEN Cell(rows[i + arg], col) ELSE Null]
        [] func = "sum" ->
             Running(rows, 0, LAMBDA a, r : IF IsNumeric(Cell(r, col)) THEN a + Cell(r, col)[2] ELSE a, same)
        [] func = "count" -> Running(rows, 0, LAMBDA a, r : IF IsNull(Cell(r, col)) THEN a ELSE a + 1, same)
        [] func = "min" -> Running(rows, Null, LAMBDA a, r : Extremum(a, Cell(r, col), 1), LAMBDA a : a)
        [] func = "max" -> Running(rows, Null, LAMBDA a, r : Extremum(a, Cell(r, col), -1), LAMBDA a : a)
        [] func = "avg" ->
             Running(rows, [sum |-> 0, count |-> 0],
                     LAMBDA a, r : IF IsNumeric(Cell(r, col))
                                   THEN [sum |-> a.sum + Cell(r, col)[2], count |-> a.count + 1] ELSE a, average)
        [] func = "first" -> [i \in 1 .. n |-> Cell(rows[1], col)]
        [] func = "last" -> [i \in 1 .. n |-> Cell(rows[n], col)]
        [] func = "nth" -> [i \in 1 .. n |-> IF arg <= n THEN Cell(rows[arg], col) ELSE Null]
        [] func = "percent_rank" -> [i \in 1 .. n |-> IF n = 1 THEN Ratio(0, 1) ELSE Ratio(rank[i] - 1, n - 1)]
        [] func = "cume_dist" -> [i \in 1 .. n |-> Ratio(ends(i), n)]
        [] func = "ntile" -> Tiled(n, IF arg = 0 THEN 1 ELSE arg)

\* partitions: <<start, end>>, a new one where the column changes.
Partitions(rows, col) ==
  LET begins == PlacesOf(rows, LAMBDA i : Changes(rows, col, i))
  IN  [p \in DOMAIN begins |-> <<begins[p] - 1, IF p = Len(begins) THEN Len(rows) ELSE begins[p + 1] - 1>>]

ComputePartitioned(func, arg, rows, partCol, col) ==
  LET parts == Partitions(rows, partCol)
  IN  FlattenSeq([p \in DOMAIN parts |-> Compute(func, arg, SubSeq(rows, parts[p][1] + 1, parts[p][2]), col)])

(***************************************************************************)
(* aggregate of query.rs: nulls are skipped, and numbers summed.           *)
(***************************************************************************)
Aggregate(rows, col) ==
  FoldLeft(LAMBDA a, r :
             LET v == Cell(r, col)
             IN  IF IsNull(v) THEN a
                 ELSE [count |-> a.count + 1, sum |-> IF IsNumeric(v) THEN a.sum + v[2] ELSE a.sum,
                       min |-> Extremum(a.min, v, 1), max |-> Extremum(a.max, v, -1)],
           [count |-> 0, sum |-> 0, min |-> Null, max |-> Null], rows)

-----------------------------------------------------------------------------
NoResult == <<"none">>
AlgorithmInit == algorithmJob \in AlgorithmJobs /\ result = NoResult

RunsJob(kind, value) ==
  /\ algorithmJob.kind = kind /\ result = NoResult
  /\ result' = <<"result", value>>
  /\ UNCHANGED algorithmJob

RunJoins ==
  LET j == algorithmJob
  IN  RunsJob("join", [hash |-> HashJoin(j.left, j.right, 1, 1, j.join),
                       nested |-> NestedLoopJoin(j.left, j.right, 1, 1, j.op, j.join),
                       merge |-> SortMergeJoin(j.left, j.right, 1, 1, j.join),
                       cross |-> CrossJoin(j.left, j.right)])
RunPartition ==
  LET j == algorithmJob
  IN  RunsJob("partition", [both |-> Copartition(j.left, j.right, j.n), one |-> Partitioned(j.left, j.n)])
RunWindow ==
  LET j == algorithmJob
  IN  RunsJob("window", ComputePartitioned(j.func, j.arg, j.rows, 1, 2))
RunAggregate == RunsJob("aggregate", Aggregate(algorithmJob.rows, 2))

AlgorithmNext == RunJoins \/ RunPartition \/ RunWindow \/ RunAggregate

(***************************************************************************)
(* The definitions.                                                        *)
(***************************************************************************)
Times(x, rows) == Cardinality({i \in DOMAIN rows : rows[i] = x})

\* How often a join owes row x, given the pairs of places that meet.
OwedTimes(x, L, R, meets, kind) ==
  LET met == {p[1] : p \in meets}
      missed == DOMAIN R \ {p[2] : p \in meets}
      singles(S) == Cardinality({l \in S : L[l] = x})
  IN  CASE kind = "semi" -> singles(met)
        [] kind = "anti" -> singles(DOMAIN L \ met)
        [] OTHER -> Cardinality({p \in meets : L[p[1]] \o R[p[2]] = x})
                    + (IF PadsRight(kind) THEN Cardinality({l \in DOMAIN L \ met : L[l] \o NullRow(R) = x}) ELSE 0)
                    + (IF PadsLeft(kind) THEN Cardinality({r \in missed : NullRow(L) \o R[r] = x}) ELSE 0)

JoinIsExact(rows, L, R, meets, kind) ==
  \A x \in Range(rows) \cup Range(L) \cup Range(CrossJoin(L, R))
           \cup {l \o NullRow(R) : l \in Range(L)} \cup {NullRow(L) \o r : r \in Range(R)} :
    Times(x, rows) = OwedTimes(x, L, R, meets, kind)

Pairing(L, R, Test(_, _)) == {p \in (DOMAIN L) \X (DOMAIN R) : Test(Cell(L[p[1]], 1), Cell(R[p[2]], 1))}

(***************************************************************************)
(* Nothing is said of the joins in the cases that the code gives no rows   *)
(* of their own, or other rows than the kind's comment (join.rs:17-31):    *)
(*   - semi and anti of hash_join and sort_merge_join, which give a left   *)
(*     row for each pair;                                                  *)
(*   - right and full of nested_loop_join, which drops the right rows that *)
(*     meet no left one.                                                   *)
(***************************************************************************)
KindIgnored(kind) == kind \in {"semi", "anti"}
\* An integer and a real that are equal numbers: one order, but not one value.
MixedKeys(L, R) == \E p \in Pairing(L, R, LAMBDA a, b : TotalCmp(a, b) = 0 /\ a # b) : TRUE

JoinsMeet(j, rows) ==
  LET L == j.left
      R == j.right
      equal == Pairing(L, R, LAMBDA a, b : a = b)
  IN  /\ ~KindIgnored(j.join) => JoinIsExact(rows.hash, L, R, equal, j.join)
      /\ ~KindIgnored(j.join) /\ ~MixedKeys(L, R) => JoinIsExact(rows.merge, L, R, equal, j.join)
      /\ ~PadsLeft(j.join) =>
           JoinIsExact(rows.nested, L, R, Pairing(L, R, LAMBDA a, b : Apply(j.op, a, b)), j.join)
      /\ JoinIsExact(rows.cross, L, R, Pairing(L, R, LAMBDA a, b : TRUE), "inner")

\* Equal keys of the two sides are in buckets of one number, each place in one.
PartitionMeets(j, got) ==
  LET left == got.both[1]
      right == got.both[2]
      pairsOf(p) == {<<l, r>> \in Range(left[p]) \X Range(right[p]) : j.left[l + 1] = j.right[r + 1]}
  IN  /\ UNION {pairsOf(p) : p \in DOMAIN left}
           = {<<l, r>> \in (0 .. Len(j.left) - 1) \X (0 .. Len(j.right) - 1) : j.left[l + 1] = j.right[r + 1]}
      /\ \A p, q \in DOMAIN left : p # q => Range(left[p]) \cap Range(left[q]) = {}
      /\ got.one.buckets = left
      /\ SumFunction(got.one.histogram) = Len(j.left)
      /\ \A p \in DOMAIN left : got.one.histogram[p] <= got.one.largest

\* The window value of row i, defined on the rows of its partition.
WindowMeaning(j, i) ==
  LET v(k) == Cell(j.rows[k], 2)
      part == {k \in DOMAIN j.rows : Cell(j.rows[k], 1) = Cell(j.rows[i], 1)}
      size == Cardinality(part)
      upTo == {k \in part : k <= i}
      nth(n) == LET at == {k \in part : Cardinality({m \in part : m <= k}) = n}
                IN  IF at = {} THEN Null ELSE v(CHOOSE k \in at : TRUE)
      numbers == {k \in upTo : IsNumeric(v(k))}
      total == MapThenSumSet(LAMBDA k : v(k)[2], numbers)
      best(d) == LET present == {k \in upTo : ~IsNull(v(k))}
                 IN  IF present = {} THEN Null
                     ELSE v(CHOOSE k \in present : \A m \in present : d * TotalCmp(v(k), v(m)) <= 0)
      below == Cardinality({k \in part : TotalCmp(v(k), v(i)) < 0})
  IN  CASE j.func = "row_number" -> IntOf(Cardinality(upTo))
        [] j.func = "rank" -> IntOf(below + 1)
        [] j.func = "dense_rank" -> IntOf(Cardinality({v(k) : k \in upTo}))
        [] j.func = "lag" -> nth(Cardinality(upTo) - j.arg)
        [] j.func = "lead" -> nth(Cardinality(upTo) + j.arg)
        [] j.func = "sum" -> IntOf(total)
        [] j.func = "count" -> IntOf(Cardinality({k \in upTo : ~IsNull(v(k))}))
        [] j.func = "min" -> best(1)
        [] j.func = "max" -> best(-1)
        [] j.func = "avg" -> IF numbers = {} THEN Ratio(0, 1) ELSE Ratio(total, Cardinality(numbers))
        [] j.func = "first" -> nth(1)
        [] j.func = "last" -> nth(size)
        [] j.func = "nth" -> nth(j.arg)
        [] j.func = "percent_rank" -> IF size = 1 THEN Ratio(0, 1) ELSE Ratio(below, size - 1)
        [] j.func = "cume_dist" -> Ratio(Cardinality({k \in part : TotalCmp(v(k), v(i)) <= 0}), size)
        [] j.func = "ntile" ->
             IntOf(CHOOSE t \in 1 .. size : LET tiles == LeastOf({size, j.arg})
                                               begin(u) == (u - 1) * (size \div j.arg)
                                                           + LeastOf({u - 1, size % j.arg})
                                           IN  begin(t) < Cardinality(upTo) /\ Cardinality(upTo) <= begin(t + 1))

(***************************************************************************)
(* The joins give every row as often as the relation of the two inputs     *)
(* owes it: hashing, nested loops and merging agree but for what is named  *)
(* above, and partitions of equal number hold every pair that meets.  A    *)
(* window function of a row is the one its partition defines, and an       *)
(* aggregate skips nulls only.                                             *)
(***************************************************************************)
AlgorithmsMeetDefinitions ==
  result # NoResult =>
    LET j == algorithmJob
        got == result[2]
    IN  CASE j.kind = "join" -> JoinsMeet(j, got)
          [] j.kind = "partition" -> PartitionMeets(j, got)
          [] j.kind = "window" -> got = [i \in DOMAIN j.rows |-> WindowMeaning(j, i)]
          [] j.kind = "aggregate" ->
               LET values == {i \in DOMAIN j.rows : ~IsNull(Cell(j.rows[i], 2))}
                   at(i) == Cell(j.rows[i], 2)
               IN  /\ got.count = Cardinality(values)
                   /\ got.sum = MapThenSumSet(LAMBDA i : at(i)[2], {i \in values : IsNumeric(at(i))})
                   /\ (values = {}) = IsNull(got.min) /\ (values = {}) = IsNull(got.max)
                   /\ \A i \in values : TotalCmp(got.min, at(i)) <= 0 /\ TotalCmp(at(i), got.max) <= 0
=============================================================================
