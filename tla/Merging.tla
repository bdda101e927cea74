------------------------------- MODULE Merging -------------------------------
(***************************************************************************)
(* The sorts and merges of src/src: the external sort of sort.rs, the      *)
(* loser tree of kmerge.rs, the radix sort of radixsort.rs and the merge   *)
(* of two streams.  A step feeds a batch, gives one element out or makes   *)
(* one pass.                                                               *)
(***************************************************************************)
EXTENDS Expressions, SequencesExt

CONSTANTS
  MergeJobs,   \* the inputs, each with the algorithm it is for
  MaxKey,      \* i64::MAX, with which the loser tree marks an exhausted run
  Radix,       \* the buckets of a pass: 256
  Digits       \* the passes: 8

VARIABLES
  mergeJob,
  work,        \* the algorithm's own fields
  merged,      \* what it gave out, or the array it sorts in place
  merging      \* "on" until it is done

mergeVars == <<mergeJob, work, merged, merging>>

\* compare_rows: the first key that tells the rows apart.
CompareRows(a, b, keys) ==
  LET cmp(k) == (IF keys[k].asc THEN 1 ELSE -1) * TotalCmp(Cell(a, keys[k].col), Cell(b, keys[k].col))
      told == {k \in DOMAIN keys : cmp(k) # 0}
  IN  IF told = {} THEN 0 ELSE cmp(LeastOf(told))

\* sort_rows is the standard library's stable sort.
SortRows(rows, keys) == StableSort(rows, LAMBDA a, b : CompareRows(a, b, keys))

\* encode_row writes the width in one byte, and decode_row reads that many cells.
Spilled(row) == Upto(row, Len(row) % 256)

(***************************************************************************)
(* ExternalSort: feed, and finish, which takes the least head of the runs. *)
(***************************************************************************)
Heads(w) == {r \in DOMAIN w.runs : w.cursors[r] <= Len(w.runs[r])}
Head1(w, r) == w.runs[r][w.cursors[r]]

\* Fault: of equal heads the run that was fed last goes first.
BestNewest(w, keys) ==
  CHOOSE r \in Heads(w) : \A q \in Heads(w) :
    LET c == CompareRows(Head1(w, r), Head1(w, q), keys) IN c < 0 \/ (c = 0 /\ r >= q)

BestHead(w, keys) ==
  CHOOSE r \in Heads(w) : \A q \in Heads(w) :
    LET c == CompareRows(Head1(w, r), Head1(w, q), keys) IN c < 0 \/ (c = 0 /\ r <= q)

Feed ==
  /\ mergeJob.kind = "external" /\ merging = "on" /\ work.fed < Len(mergeJob.batches)
  /\ LET run == SortRows(mergeJob.batches[work.fed + 1], mergeJob.keys)
     IN  work' = [work EXCEPT !.fed = @ + 1, !.cursors = Append(@, 1),
                              !.runs = Append(@, [i \in DOMAIN run |-> Spilled(run[i])])]
  /\ UNCHANGED <<mergeJob, merged, merging>>

FinishTurn ==
  /\ mergeJob.kind = "external" /\ merging = "on" /\ work.fed = Len(mergeJob.batches)
  /\ IF Heads(work) = {} THEN merging' = "done" /\ UNCHANGED <<work, merged>>
     ELSE LET r == BestHead(work, mergeJob.keys)
          IN  /\ merged' = Append(merged, Head1(work, r))
              /\ work' = [work EXCEPT !.cursors[r] = @ + 1]
              /\ UNCHANGED merging
  /\ UNCHANGED mergeJob

(***************************************************************************)
(* LoserTree over runs of keys: leaves count from 0, the inner nodes 1 to  *)
(* k - 1 hold the leaf that lost there, and Nobody an empty node.          *)
(***************************************************************************)
Nobody == -1
LeafKey(t, leaf) ==
  IF t.cursors[leaf] < Len(t.runs[leaf]) THEN t.runs[leaf][t.cursors[leaf] + 1] ELSE MaxKey

RECURSIVE Climbs(_, _, _)
Climbs(t, node, winner) ==
  IF node = 0 THEN [t EXCEPT !.winner = winner]
  ELSE LET held == t.tree[node]
       IN  IF held = Nobody THEN [t EXCEPT !.tree[node] = winner]
           ELSE IF LeafKey(t, held) < LeafKey(t, winner)
                THEN Climbs([t EXCEPT !.tree[node] = winner], node \div 2, held)
                ELSE Climbs(t, node \div 2, winner)

Play(t, leaf) == Climbs(t, (leaf + Cardinality(DOMAIN t.runs)) \div 2, leaf)

\* new: at least one run, and every leaf played in turn.
Built(runs) ==
  LET k == IF runs = <<>> THEN 1 ELSE Len(runs)
      t == [runs |-> [l \in 0 .. k - 1 |-> IF runs = <<>> THEN <<>> ELSE runs[l + 1]],
            cursors |-> [l \in 0 .. k - 1 |-> 0],
            tree |-> [n \in 0 .. k - 1 |-> Nobody], winner |-> 0]
  IN  IF k = 1 THEN t ELSE FoldLeft(Play, t, [l \in 1 .. k |-> l - 1])

\* next
LoserNext ==
  /\ mergeJob.kind = "losers" /\ merging = "on"
  /\ LET leaf == work.winner
         key == LeafKey(work, leaf)
     IN  IF key = MaxKey THEN merging' = "done" /\ UNCHANGED <<work, merged>>
         ELSE /\ merged' = Append(merged, [key |-> key, run |-> leaf])
              /\ work' = Play([work EXCEPT !.cursors[leaf] = @ + 1], leaf)
              /\ UNCHANGED merging
  /\ UNCHANGED mergeJob

(***************************************************************************)
(* sort_pairs: a counting sort by one digit after another, lowest first.   *)
(* A signed key is sorted as the unsigned one with its sign bit flipped.   *)
(***************************************************************************)
Unsigned == Radix ^ Digits
ToSortable(k) == (k + Unsigned \div 2) % Unsigned
FromSortable(u) == u - Unsigned \div 2
Digit(k, pass) == (k \div Radix ^ pass) % Radix

\* The buckets one behind the other, each filled in the order of the array.
Distributed(pairs, pass) ==
  FlattenSeq([b \in 1 .. Radix |-> SelectSeq(pairs, LAMBDA p : Digit(p.key, pass) = b - 1)])

RadixPass ==
  /\ mergeJob.kind = "radix" /\ merging = "on"
  /\ IF work.pass = Digits THEN merging' = "done" /\ UNCHANGED <<work, merged>>
     ELSE /\ merged' = Distributed(merged, work.pass)
          /\ work' = [work EXCEPT !.pass = @ + 1]
          /\ UNCHANGED merging
  /\ UNCHANGED mergeJob

(***************************************************************************)
(* merge_sorted, dedup_sorted, top_n and group_partitions.                 *)
(***************************************************************************)
RECURSIVE MergeSorted(_, _, _)
MergeSorted(a, b, keys) ==
  IF a = <<>> THEN b ELSE IF b = <<>> THEN a
  ELSE IF CompareRows(a[1], b[1], keys) <= 0 THEN <<a[1]>> \o MergeSorted(Tail(a), b, keys)
  ELSE <<b[1]>> \o MergeSorted(a, Tail(b), keys)

\* A row goes if it compares equal to the row kept before it.
DedupSorted(rows, keys) ==
  FoldLeft(LAMBDA kept, r : IF kept # <<>> /\ CompareRows(Last(kept), r, keys) = 0 THEN kept ELSE Append(kept, r),
           <<>>, rows)

TopN(rows, keys, n) == Upto(SortRows(rows, keys), n)

\* Ranges <<start, end>>, places counted from 0 and the end exclusive.
GroupPartitions(rows, keys) ==
  LET cut(ranges, i) == IF CompareRows(rows[Last(ranges)[1] + 1], rows[i], keys) = 0
                        THEN [ranges EXCEPT ![Len(ranges)] = <<@[1], i>>]
                        ELSE Append(ranges, <<i - 1, i>>)
  IN  IF rows = <<>> THEN <<>> ELSE FoldLeft(cut, <<<<0, 1>>>>, [i \in 1 .. Len(rows) - 1 |-> i + 1])

\* Two sorted streams merged, and the other operators on what comes of it.
MergeTwo ==
  /\ mergeJob.kind = "two" /\ merging = "on"
  /\ LET rows == MergeSorted(SortRows(mergeJob.left, mergeJob.keys), SortRows(mergeJob.right, mergeJob.keys),
                             mergeJob.keys)
     IN  /\ merged' = rows
         /\ work' = [kept |-> DedupSorted(rows, mergeJob.keys),
                     top |-> TopN(mergeJob.right \o mergeJob.left, mergeJob.keys, mergeJob.n),
                     ranges |-> GroupPartitions(rows, mergeJob.keys)]
  /\ merging' = "done"
  /\ UNCHANGED mergeJob

-----------------------------------------------------------------------------
MergeInit ==
  /\ mergeJob \in MergeJobs
  /\ work = CASE mergeJob.kind = "external" -> [fed |-> 0, runs |-> <<>>, cursors |-> <<>>]
              [] mergeJob.kind = "losers" -> Built(mergeJob.runs)
              [] mergeJob.kind = "radix" -> [pass |-> 0]
              [] mergeJob.kind = "two" -> <<>>
  /\ merged = IF mergeJob.kind = "radix"
              THEN [i \in DOMAIN mergeJob.keys |-> [key |-> ToSortable(mergeJob.keys[i]), payload |-> i]]
              ELSE <<>>
  /\ merging = "on"

MergeNext == Feed \/ FinishTurn \/ LoserNext \/ RadixPass \/ MergeTwo

(***************************************************************************)
(* However the input was cut into runs, batches or digits, the result is   *)
(* the whole input in the order of the keys with equal keys as they came:  *)
(* no element is lost, doubled or overtaken by an equal one.  A loser tree *)
(* gives up each run at the first key MaxKey, and keeps the order of keys  *)
(* and of each run, not that between runs.  Of the merged rows, one row is *)
(* kept per key, the first n are the top n, and the ranges cut them where  *)
(* the key changes.                                                        *)
(***************************************************************************)
MergesAreExact ==
  merging = "done" =>
    CASE mergeJob.kind = "external" -> merged = SortRows(FlattenSeq(mergeJob.batches), mergeJob.keys)
      [] mergeJob.kind = "losers" ->
           /\ \A i, j \in DOMAIN merged : i < j => merged[i].key <= merged[j].key
           /\ \A r \in DOMAIN work.runs :
                LET mine == SelectSeq(merged, LAMBDA m : m.run = r)
                IN  [i \in DOMAIN mine |-> mine[i].key] = SelectSeq(work.runs[r], LAMBDA k : k # MaxKey)
      [] mergeJob.kind = "radix" ->
           [i \in DOMAIN merged |-> [key |-> FromSortable(merged[i].key), payload |-> merged[i].payload]]
             = StableSort([i \in DOMAIN mergeJob.keys |-> [key |-> mergeJob.keys[i], payload |-> i]],
                          LAMBDA a, b : a.key - b.key)
      [] mergeJob.kind = "two" ->
           LET differ(i) == i = 1 \/ CompareRows(merged[i - 1], merged[i], mergeJob.keys) # 0
               begins == SelectSeq([i \in DOMAIN merged |-> i], differ)
           IN  /\ merged = SortRows(mergeJob.left \o mergeJob.right, mergeJob.keys)
               /\ work.kept = [g \in DOMAIN begins |-> merged[begins[g]]]
               /\ Len(work.top) = LeastOf({mergeJob.n, Len(merged)})
               /\ \A i \in DOMAIN work.top : CompareRows(work.top[i], merged[i], mergeJob.keys) = 0
               /\ work.ranges = [g \in DOMAIN begins |->
                                   <<begins[g] - 1, IF g = Len(begins) THEN Len(merged) ELSE begins[g + 1] - 1>>]
=============================================================================
