----------------------------- MODULE VectorExec ------------------------------
(***************************************************************************)
(* The batch operators of src/src/vexec.rs.  A pipeline is one operator    *)
(* over a filtered scan, two of them for a join, and is opened, drained    *)
(* and closed by Pipeline::run.  A step is one turn of the loop inside the *)
(* operator's next: a batch of a child, or a batch given out.              *)
(***************************************************************************)
EXTENDS Expressions, Functions

CONSTANTS
  BatchSize,     \* DEFAULT_BATCH_SIZE, at which a join gives its rows out
  Operators,     \* the operators that are run, as records
  LeftTables,    \* the inputs: sequences of rows of one width
  RightTables,
  SourceSizes,   \* the batch sizes of the scans and of the sort
  MaxRuns        \* how often one pipeline is run

VARIABLES
  op,            \* the operator and its parameters
  left, right,   \* the scans: rows, batch size, predicate, position
  state,         \* the operator's own fields
  out,           \* the rows of the batches given out in this run
  phase,         \* "closed", "open" or "drained"
  runs

execVars == <<op, left, right, state, out, phase, runs>>

(***************************************************************************)
(* Column vectors: what a typed column keeps of a value.                   *)
(***************************************************************************)
Stored(type, v) ==
  IF IsNull(v) \/ Kind(v) = type THEN v
  ELSE IF {type, Kind(v)} = {"int", "real"} THEN <<type, v[2]>>
  ELSE <<type, 0>>

\* cast_value, with null for the casts it refuses.
CastValue(v, type) ==
  CASE IsNull(v) \/ Failed(v) -> Null
    [] Kind(v) = type -> v
    [] type \in {"int", "real"} /\ IsNumeric(v) -> <<type, v[2]>>
    [] type = "bool" /\ IsNumeric(v) -> BoolOf(v[2] # 0)
    [] type = "text" /\ Kind(v) = "int" -> TextOf(v[2])
    [] OTHER -> Null

(***************************************************************************)
(* ScanOp over a VecChunkSource, below a FilterOp.                         *)
(***************************************************************************)
Scan(rows, size, predicate) == [rows |-> rows, size |-> size, where |-> predicate, pos |-> 0]
Keeps(src, row) == EvalWith(src.where, row) = BoolOf(TRUE)
KeptRows(src, rows) == SelectSeq(rows, LAMBDA r : Keeps(src, r))
BatchAt(src, p) == KeptRows(src, Upto(After(src.rows, p), src.size))

\* The batches of the scan that still have a row after the filter, by position.
Turnouts(src) ==
  {p \in src.pos .. Len(src.rows) - 1 : (p - src.pos) % src.size = 0 /\ BatchAt(src, p) # <<>>}

\* next: the batch, and the scan behind it; no row for the end.
Pulled(src) ==
  IF Turnouts(src) = {} THEN [batch |-> <<>>, src |-> [src EXCEPT !.pos = Len(src.rows)]]
  ELSE LET p == CHOOSE q \in Turnouts(src) : \A r \in Turnouts(src) : q <= r
       IN  [batch |-> BatchAt(src, p),
            src |-> [src EXCEPT !.pos = IF p + src.size < Len(src.rows) THEN p + src.size
                                        ELSE Len(src.rows)]]

Rewound(src) == [src EXCEPT !.pos = 0]
Ended(pull) == pull.batch = <<>>

(***************************************************************************)
(* Aggregates.                                                             *)
(***************************************************************************)
NewAgg == [count |-> 0, sum |-> 0, min |-> Null, max |-> Null, first |-> Null, last |-> Null,
           distinct |-> {}]

\* The one of two present values that goes first in direction d; a wins a tie.
Better(a, b, d) ==
  IF IsNull(a) THEN b ELSE IF IsNull(b) THEN a ELSE IF d * TotalCmp(b, a) < 0 THEN b ELSE a

UpdateAgg(s, func, v) ==
  IF IsNull(v) THEN IF func = "count" THEN [s EXCEPT !.count = @ + 1] ELSE s
  ELSE CASE func = "count" -> [s EXCEPT !.count = @ + 1]
         [] func = "distinct" -> [s EXCEPT !.distinct = @ \cup {v},
                                           !.count = Cardinality(s.distinct \cup {v})]
         [] func \in {"sum", "avg"} ->
              IF IsNumeric(v) THEN [s EXCEPT !.sum = @ + v[2], !.count = @ + 1] ELSE s
         [] func = "min" -> [s EXCEPT !.min = Better(@, v, 1)]
         [] func = "max" -> [s EXCEPT !.max = Better(@, v, -1)]
         [] func = "first" -> [s EXCEPT !.first = IF IsNull(@) THEN v ELSE @]
         [] func = "last" -> [s EXCEPT !.last = v]

\* combine: the state of one part, then of the part behind it.
CombineAgg(s, t, func) ==
  LET distinct == s.distinct \cup t.distinct
  IN  [count |-> IF func = "distinct" THEN Cardinality(distinct) ELSE s.count + t.count,
       sum |-> s.sum + t.sum,
       min |-> Better(s.min, t.min, 1),
       max |-> Better(s.max, t.max, -1),
       first |-> IF IsNull(s.first) THEN t.first ELSE s.first,
       last |-> IF IsNull(t.last) THEN s.last ELSE t.last,
       distinct |-> distinct]

FinalAgg(s, func) ==
  CASE func = "count" -> IntOf(s.count)
    [] func = "distinct" -> IntOf(Cardinality(s.distinct))
    [] func = "sum" -> IF s.count = 0 THEN Null ELSE RealOf(s.sum)
    [] func = "avg" -> IF s.count = 0 THEN Null ELSE RealOf(Quotient(s.sum, s.count))
    [] func = "min" -> s.min
    [] func = "max" -> s.max
    [] func = "first" -> s.first
    [] func = "last" -> s.last

\* The state after a sequence of values, from state s or from a new one.
AggFrom(s, func, values) ==
  LET run[i \in 0 .. Len(values)] ==
        IF i = 0 THEN s ELSE UpdateAgg(run[i - 1], func, values[i])
  IN  run[Len(values)]
AggOver(func, values) == AggFrom(NewAgg, func, values)

AggType(func) == IF func \in {"sum", "avg"} THEN "real" ELSE "int"

KeyOf(row, cols) == [k \in DOMAIN cols |-> Cell(row, cols[k])]
AggInput(spec, row) == IF spec.col = 0 THEN IntOf(1) ELSE Cell(row, spec.col)

\* The groups with the rows of a batch: keys in the order they were first seen.
Grouped(groups, rows) ==
  LET key(i) == KeyOf(rows[i], op.groupCols)
      known == {groups[g].key : g \in DOMAIN groups}
      begins == SelectSeq([i \in DOMAIN rows |-> i],
                          LAMBDA i : key(i) \notin known /\ \A j \in 1 .. i - 1 : key(j) # key(i))
      all == groups \o [n \in DOMAIN begins |->
                          [key |-> key(begins[n]), states |-> [i \in DOMAIN op.specs |-> NewAgg]]]
      members(g) == SelectSeq(rows, LAMBDA r : KeyOf(r, op.groupCols) = all[g].key)
  IN  [g \in DOMAIN all |->
         [all[g] EXCEPT !.states =
            [i \in DOMAIN op.specs |->
               AggFrom(@[i], op.specs[i].func,
                       [n \in DOMAIN members(g) |-> AggInput(op.specs[i], members(g)[n])])]]]

GroupRow(g) ==
  [k \in DOMAIN g.key |-> Stored("int", g.key[k])] \o
  [i \in DOMAIN op.specs |->
     Stored(AggType(op.specs[i].func), FinalAgg(g.states[i], op.specs[i].func))]

(***************************************************************************)
(* Sort keys, and the rows a join makes of a left row.                     *)
(***************************************************************************)
RowCmp(a, b, keys) ==
  LET cmp(k) == (IF keys[k].asc THEN 1 ELSE -1) * TotalCmp(Cell(a, keys[k].col), Cell(b, keys[k].col))
      told == {k \in DOMAIN keys : cmp(k) # 0}
  IN  IF told = {} THEN 0 ELSE cmp(CHOOSE k \in told : \A j \in told : k <= j)

\* The build rows under the left row's key, oldest first.
Matches(row, build) ==
  LET key == KeyOf(row, op.leftKeys)
  IN  SelectSeq([i \in DOMAIN build |-> i], LAMBDA i : KeyOf(build[i], op.rightKeys) = key)

Nulls(n) == [i \in 1 .. n |-> Null]

JoinRows(row, build, rightWidth) ==
  LET hits == Matches(row, build)
  IN  CASE op.kind = "semi" -> IF hits = <<>> THEN <<>> ELSE <<row>>
        [] op.kind = "anti" -> IF hits = <<>> THEN <<row>> ELSE <<>>
        [] op.kind \in {"left", "outer"} /\ hits = <<>> -> <<row \o Nulls(rightWidth)>>
        [] OTHER -> [i \in DOMAIN hits |-> row \o build[hits[i]]]

\* The rows of a batch joined in turn until BatchSize rows are pending: the
\* rows of the batch behind that point are dropped.
Joined(pending, matched, rows, build, rightWidth) ==
  LET run[i \in 0 .. Len(rows)] ==
        IF i = 0 THEN [rows |-> pending, matched |-> matched]
        ELSE LET p == run[i - 1]
             IN  IF Len(p.rows) >= BatchSize THEN p
                 ELSE [rows |-> p.rows \o JoinRows(rows[i], build, rightWidth),
                       matched |-> IF op.kind \in {"semi", "anti"} THEN p.matched
                                   ELSE p.matched \cup {Matches(rows[i], build)[k] :
                                                          k \in DOMAIN Matches(rows[i], build)}]
  IN  run[Len(rows)]

(***************************************************************************)
(* The operators' own fields, and what open resets of them.                *)
(***************************************************************************)
Fresh == [loading |-> TRUE, buffer |-> <<>>, groups |-> <<>>, matched |-> {}, pending |-> <<>>,
          batch |-> <<>>, pos |-> 0, seen |-> 0, emitted |-> 0, leftWidth |-> 0, rightWidth |-> 1]

\* Fault: what a limit has seen and given out is kept.
OpenedCounting(s) ==
  [s EXCEPT !.loading = op.name # "sort" \/ s.buffer = <<>>, !.pos = IF op.name = "cross" THEN @ ELSE 0]

\* A sort keeps a buffer it has filled, an aggregation its groups, a join its rows.
Opened(s) ==
  [s EXCEPT !.loading = op.name # "sort" \/ s.buffer = <<>>,
            !.pos = IF op.name = "cross" THEN @ ELSE 0, !.seen = 0, !.emitted = 0]

ExecInit ==
  /\ op \in Operators
  /\ \E l \in LeftTables, n \in SourceSizes : left = Scan(l, n, op.where)
  /\ \E r \in (IF op.name \in {"cross", "join"} THEN RightTables ELSE {<<>>}), n \in SourceSizes :
       right = Scan(r, n, Lit(BoolOf(TRUE)))
  /\ state = Fresh
  /\ out = <<>> /\ phase = "closed" /\ runs = 0

Open ==
  /\ phase # "open"
  /\ runs < MaxRuns
  /\ left' = Rewound(left) /\ right' = Rewound(right)
  /\ state' = Opened(state)
  /\ out' = <<>> /\ phase' = "open" /\ runs' = runs + 1
  /\ UNCHANGED op

\* next has no further batch: the pipeline is closed.
Drain ==
  /\ phase' = "drained"
  /\ UNCHANGED out

Give(rows) ==
  /\ out' = out \o rows
  /\ UNCHANGED phase

\* A turn that only takes a batch in.
Take == UNCHANGED <<out, phase>>

Turn(names) == phase = "open" /\ op.name \in names /\ UNCHANGED <<op, runs>>

(***************************************************************************)
(* FilterOp alone, ProjectOp and ExprMapOp: a batch in, a batch out.       *)
(***************************************************************************)
RowOut(row) ==
  CASE op.name = "filter" -> row
    [] op.name = "project" -> [k \in DOMAIN op.cols |-> row[op.cols[k]]]
    [] op.name = "map" -> Append(row, Stored(op.type, CastValue(EvalWith(op.expr, row), op.type)))

RowTurn ==
  /\ Turn({"filter", "project", "map"})
  /\ left' = Pulled(left).src
  /\ IF Ended(Pulled(left)) THEN Drain
     ELSE Give([i \in DOMAIN Pulled(left).batch |-> RowOut(Pulled(left).batch[i])])
  /\ UNCHANGED <<right, state>>

(***************************************************************************)
(* LimitOp.                                                                *)
(***************************************************************************)
LimitFull ==
  /\ Turn({"limit"}) /\ state.emitted >= op.limit
  /\ Drain
  /\ UNCHANGED <<left, right, state>>

LimitTurn ==
  /\ Turn({"limit"}) /\ state.emitted < op.limit
  /\ LET pull == Pulled(left)
         skip == IF state.seen >= op.offset THEN 0
                 ELSE Len(Upto(pull.batch, op.offset - state.seen))
         kept == Upto(After(pull.batch, skip), op.limit - state.emitted)
     IN  /\ left' = pull.src
         /\ IF Ended(pull) THEN Drain ELSE Give(kept)
         /\ state' = [state EXCEPT !.seen = @ + skip + Len(kept), !.emitted = @ + Len(kept)]
  /\ UNCHANGED right

(***************************************************************************)
(* HashAggOp: the whole child, then one batch with a row per group.        *)
(***************************************************************************)
AggLoad ==
  /\ Turn({"agg"}) /\ state.emitted = 0 /\ ~Ended(Pulled(left))
  /\ left' = Pulled(left).src
  /\ state' = [state EXCEPT !.groups = Grouped(@, Pulled(left).batch)]
  /\ Take
  /\ UNCHANGED right

AggGive ==
  /\ Turn({"agg"}) /\ state.emitted = 0 /\ Ended(Pulled(left))
  /\ left' = Pulled(left).src
  /\ Give([g \in DOMAIN state.groups |-> GroupRow(state.groups[g])])
  /\ state' = [state EXCEPT !.emitted = 1]
  /\ UNCHANGED right

AggEnd ==
  /\ Turn({"agg"}) /\ state.emitted = 1
  /\ Drain
  /\ UNCHANGED <<left, right, state>>

(***************************************************************************)
(* SortOp.                                                                 *)
(***************************************************************************)
SortLoad ==
  /\ Turn({"sort"}) /\ state.loading
  /\ left' = Pulled(left).src
  /\ state' = IF Ended(Pulled(left))
              THEN [state EXCEPT !.loading = FALSE,
                                 !.buffer = StableSort(@, LAMBDA a, b : RowCmp(a, b, op.keys))]
              ELSE [state EXCEPT !.buffer = @ \o Pulled(left).batch]
  /\ Take
  /\ UNCHANGED right

SortGive ==
  /\ Turn({"sort"}) /\ ~state.loading
  /\ LET batch == Upto(After(state.buffer, state.pos), left.size)
     IN  /\ IF batch = <<>> THEN Drain ELSE Give(batch)
         /\ state' = [state EXCEPT !.pos = @ + Len(batch)]
  /\ UNCHANGED <<left, right>>

(***************************************************************************)
(* CrossJoinOp and HashJoinOp read their right side first.                 *)
(***************************************************************************)
\* Fault: a right side without rows is asked again.
BuildUntilRows ==
  /\ Turn({"cross", "join"}) /\ state.loading
  /\ LET pull == Pulled(right)
     IN  /\ right' = pull.src
         /\ state' = IF Ended(pull)
                     THEN [state EXCEPT !.loading = state.buffer = <<>>, !.matched = {}]
                     ELSE [state EXCEPT !.buffer = @ \o pull.batch,
                                        !.rightWidth = Len(pull.batch[1])]
  /\ Take
  /\ UNCHANGED left

BuildTurn ==
  /\ Turn({"cross", "join"}) /\ state.loading
  /\ LET pull == Pulled(right)
     IN  /\ right' = pull.src
         /\ state' = IF Ended(pull)
                     THEN [state EXCEPT !.loading = FALSE, !.matched = {}]
                     ELSE [state EXCEPT !.buffer = @ \o pull.batch,
                                        !.rightWidth = Len(pull.batch[1])]
  /\ Take
  /\ UNCHANGED left

\* Nothing on the right: the cross join ends without asking its left side.
CrossEmpty ==
  /\ Turn({"cross"}) /\ ~state.loading /\ state.buffer = <<>>
  /\ Drain
  /\ UNCHANGED <<left, right, state>>

CrossPull ==
  /\ Turn({"cross"}) /\ ~state.loading /\ state.buffer # <<>> /\ state.pos >= Len(state.batch)
  /\ LET pull == Pulled(left)
     IN  /\ left' = pull.src
         /\ state' = IF Ended(pull) THEN [state EXCEPT !.pending = <<>>]
                     ELSE [state EXCEPT !.batch = pull.batch, !.pos = 0]
         /\ IF Ended(pull) THEN out' = out \o state.pending /\ phase' = "drained" ELSE Take
  /\ UNCHANGED right

\* A left row with every right row, until the batch is full: the right rows
\* that did not fit are dropped.
CrossRow ==
  /\ Turn({"cross"}) /\ ~state.loading /\ state.buffer # <<>> /\ state.pos < Len(state.batch)
  /\ LET product == [i \in DOMAIN state.buffer |-> state.batch[state.pos + 1] \o state.buffer[i]]
         full == Len(state.pending) + Len(product) >= BatchSize
         pending == state.pending \o Upto(product, BatchSize - Len(state.pending))
     IN  /\ state' = [state EXCEPT !.pos = @ + 1, !.pending = IF full THEN <<>> ELSE pending]
         /\ IF full THEN Give(pending) ELSE Take
  /\ UNCHANGED <<left, right>>

\* The build rows no left row met, padded on the left, for a right or outer join.
Unmatched ==
  IF op.kind \notin {"right", "outer"} THEN <<>>
  ELSE LET missed == SelectSeq([i \in DOMAIN state.buffer |-> i], LAMBDA i : i \notin state.matched)
       IN  [k \in DOMAIN missed |-> Nulls(state.leftWidth) \o state.buffer[missed[k]]]

JoinTurn ==
  /\ Turn({"join"}) /\ ~state.loading
  /\ LET pull == Pulled(left)
         step == Joined(state.pending, state.matched, pull.batch, state.buffer, state.rightWidth)
         full == Len(step.rows) >= BatchSize
     IN  /\ left' = pull.src
         /\ IF Ended(pull)
            THEN /\ state' = [state EXCEPT !.pending = <<>>]
                 /\ out' = out \o state.pending \o Upto(Unmatched, BatchSize - Len(state.pending))
                 /\ phase' = "drained"
            ELSE /\ state' = [state EXCEPT !.matched = step.matched,
                                           !.leftWidth = Len(pull.batch[1]),
                                           !.pending = IF full THEN <<>> ELSE step.rows]
                 /\ IF full THEN Give(step.rows) ELSE Take
  /\ UNCHANGED right

ExecTurn ==
  \/ RowTurn \/ LimitFull \/ LimitTurn \/ AggLoad \/ AggGive \/ AggEnd \/ SortLoad \/ SortGive
  \/ BuildTurn \/ CrossEmpty \/ CrossPull \/ CrossRow \/ JoinTurn

ExecNext == Open \/ ExecTurn

(***************************************************************************)
(* What the operators promise, by definition over the whole inputs.        *)
(***************************************************************************)
AllLeft == KeptRows(left, left.rows)

\* The places of the left rows, in order, that satisfy a test.
Places(Test(_)) == SelectSeq([i \in DOMAIN AllLeft |-> i], Test)

\* The aggregate of a bag of values given by their places, without a fold.
AggDefinition(func, values) ==
  LET present == {i \in DOMAIN values : ~IsNull(values[i])}
      numbers == {i \in present : IsNumeric(values[i])}
      total == SumFunction([i \in numbers |-> values[i][2]])
      at(Wanted(_, _)) == values[CHOOSE i \in present : \A j \in present \ {i} : Wanted(i, j)]
      least(d) == at(LAMBDA i, j : LET c == d * TotalCmp(values[i], values[j])
                                   IN  c < 0 \/ (c = 0 /\ i < j))
  IN  CASE func = "count" -> IntOf(Len(values))
        [] func = "distinct" -> IntOf(Cardinality({values[i] : i \in present}))
        [] func = "sum" -> IF numbers = {} THEN Null ELSE RealOf(total)
        [] func = "avg" -> IF numbers = {} THEN Null ELSE RealOf(Quotient(total, Cardinality(numbers)))
        [] present = {} -> Null
        [] func = "min" -> least(1)
        [] func = "max" -> least(-1)
        [] func = "first" -> at(LAMBDA i, j : i < j)
        [] func = "last" -> at(LAMBDA i, j : i > j)

\* One row per group of the left rows, the group that begins first first.
AggRows ==
  LET key(i) == KeyOf(AllLeft[i], op.groupCols)
      begins == Places(LAMBDA i : \A j \in 1 .. i - 1 : key(j) # key(i))
      values(g, spec) == LET places == Places(LAMBDA i : key(i) = key(g))
                         IN  [n \in DOMAIN places |-> AggInput(spec, AllLeft[places[n]])]
  IN  [n \in DOMAIN begins |->
         [k \in DOMAIN op.groupCols |-> Stored("int", key(begins[n])[k])] \o
         [i \in DOMAIN op.specs |->
            Stored(AggType(op.specs[i].func),
                   AggDefinition(op.specs[i].func, values(begins[n], op.specs[i])))]]

\* Sorted by the keys, with the rows of equal keys in the order they came in.
SortedFrom(rows, from) ==
  LET cmp(a, b) == RowCmp(a, b, op.keys)
  IN  /\ \A i, j \in DOMAIN rows : i < j => cmp(rows[i], rows[j]) <= 0
      /\ \A i \in DOMAIN from : LET peers(seq) == SelectSeq(seq, LAMBDA r : cmp(r, from[i]) = 0)
                                IN  peers(rows) = peers(from)
      /\ Len(rows) = Len(from)

\* What a join owes, as places <<left, right>>: 0 where a left row stands
\* alone, and a left place behind the last for a right row no left row meets.
JoinPlaces(L, R) ==
  LET meets == {<<l, r>> \in (DOMAIN L) \X (DOMAIN R) : KeyOf(L[l], op.leftKeys) = KeyOf(R[r], op.rightKeys)}
      met == {l \in DOMAIN L : \E r \in DOMAIN R : <<l, r>> \in meets}
      missed == {r \in DOMAIN R : \A l \in DOMAIN L : <<l, r>> \notin meets}
      singles(S) == S \X {0}
  IN  CASE op.kind = "semi" -> singles(met)
        [] op.kind = "anti" -> singles(DOMAIN L \ met)
        [] OTHER -> meets
                    \cup (IF op.kind \in {"left", "outer"} THEN singles(DOMAIN L \ met) ELSE {})
                    \cup (IF op.kind \in {"right", "outer"} THEN {Len(L) + 1} \X missed ELSE {})

\* A side that gave no batch out has no columns on the left, one on the right.
JoinRow(L, R, p) ==
  IF op.kind \in {"semi", "anti"} THEN L[p[1]]
  ELSE (IF p[1] \in DOMAIN L THEN L[p[1]] ELSE Nulls(IF L = <<>> THEN 0 ELSE Len(L[1]))) \o
       (IF p[2] \in DOMAIN R THEN R[p[2]] ELSE Nulls(IF R = <<>> THEN 1 ELSE Len(R[1])))

\* The rows of a set of places in the order of the places.
InOrder(places, RowAt(_)) ==
  LET ahead(p) == {q \in places : q[1] < p[1] \/ (q[1] = p[1] /\ q[2] < p[2])}
      at == [p \in places |-> Cardinality(ahead(p)) + 1]
  IN  [k \in 1 .. Cardinality(places) |-> RowAt(CHOOSE p \in places : at[p] = k)]

\* A join gives out the pairs, padded rows and single rows it owes, in the
\* order of the left side, as long as they are fewer than a batch; from there
\* on it drops what did not fit, but no row comes more often than it is owed.
JoinGivesOwed ==
  LET L == AllLeft
      R == right.rows
      places == IF op.name = "cross" THEN (DOMAIN L) \X (DOMAIN R) ELSE JoinPlaces(L, R)
      rowAt(p) == IF op.name = "cross" THEN L[p[1]] \o R[p[2]] ELSE JoinRow(L, R, p)
  IN  IF Cardinality(places) < BatchSize THEN out = InOrder(places, rowAt)
      ELSE \A i \in DOMAIN out : Cardinality({j \in DOMAIN out : out[j] = out[i]})
                                   <= Cardinality({p \in places : rowAt(p) = out[i]})

\* combine: the aggregate states of two parts of the input make the state of
\* the whole, wherever the input is cut.
PartialAggregatesMerge ==
  op.name = "agg" /\ phase = "closed" =>
    \A i \in DOMAIN op.specs, cut \in 0 .. Len(left.rows) :
      LET func == op.specs[i].func
          values == [n \in DOMAIN left.rows |-> AggInput(op.specs[i], left.rows[n])]
      IN  CombineAgg(AggOver(func, Upto(values, cut)), AggOver(func, After(values, cut)), func)
            = AggOver(func, values)

(***************************************************************************)
(* A pipeline that has been drained once has given out exactly the rows    *)
(* the relational operator defines on the whole input, in its order,       *)
(* whatever the batches: a filter drops, a limit skips and stops across    *)
(* batch ends, a sort is stable, a group is one row, and a join keeps to   *)
(* the pairs it owes.  Aggregates of parts combine to those of the whole.  *)
(***************************************************************************)
OperatorsMatchRelations ==
  /\ PartialAggregatesMerge
  /\ phase = "drained" /\ (runs = 1 \/ op.name \in {"filter", "project", "map", "limit", "sort"}) =>
    CASE op.name \in {"filter", "project", "map"} -> out = [i \in DOMAIN AllLeft |-> RowOut(AllLeft[i])]
      [] op.name = "limit" -> out = Upto(After(AllLeft, op.offset), op.limit)
      [] op.name = "sort" -> SortedFrom(out, AllLeft)
      [] op.name = "agg" -> out = AggRows
      [] op.name \in {"join", "cross"} -> JoinGivesOwed

(***************************************************************************)
(* An open pipeline is drained: every loop of an operator ends.            *)
(***************************************************************************)
PipelinesDrain == (phase = "open") ~> (phase = "drained")
=============================================================================
