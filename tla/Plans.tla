-------------------------------- MODULE Plans --------------------------------
(***************************************************************************)
(* Query plans: the lowering of a SELECT and the rewriting optimizer of    *)
(* src/src/logical.rs, run in passes, and the second planner of            *)
(* src/src/plan.rs.  A plan is executed by the row-at-a-time operators of  *)
(* src/src/physical.rs; it is correct when it gives the rows the plan it   *)
(* was made from means.                                                    *)
(***************************************************************************)
EXTENDS Expressions, SequencesExt

CONSTANTS
  Tables,          \* the base tables: name -> [names, rows]
  Selects,         \* the SELECT statements that are planned
  BuiltPlans,      \* the logical plans that are built without a statement
  NodePlans,       \* the plans of plan.rs
  TableRows, IndexedCols, DistinctOf,      \* PlanStats
  SmallSide, MergeLimit    \* the sizes that choose the join algorithm

VARIABLES query, plan, passes, executor, pulled

planVars == <<query, plan, passes, executor, pulled>>

MaxPasses == 8

(***************************************************************************)
(* The operators of physical.rs.  A node is a record with its own state    *)
(* and its child; next asks the child for rows until it has one to give,   *)
(* and gives none at the end of the stream.                                *)
(***************************************************************************)
SmallestInt == -999    \* i64::MIN, the group key of what is not a number

ScanNode(rows) == [op |-> "scan", rows |-> rows]
FilterNode(child, predicate) == [op |-> "filter", child |-> child, predicate |-> predicate]
ProjectNode(child, exprs) == [op |-> "project", child |-> child, exprs |-> exprs]
\* Fault: the rows that are skipped count for the limit too.
LimitFromStart(child, limit, offset) ==
  [op |-> "limit", child |-> child, remaining |-> IF limit > offset THEN limit - offset ELSE 0, toSkip |-> offset]

LimitNode(child, limit, offset) ==
  [op |-> "limit", child |-> child, remaining |-> limit, toSkip |-> offset]
SortNode(child, keys) ==
  [op |-> "sort", child |-> child, loaded |-> FALSE, keys |-> keys, buffer |-> <<>>]
AggregateNode(child, groupCols, aggs) ==
  [op |-> "aggregate", child |-> child, loaded |-> FALSE, groupCols |-> groupCols, aggs |-> aggs,
   buffer |-> <<>>]

\* The rows in the order of the keys, rows with equal keys as they came.
SortedBy(rows, keys) ==
  LET sign(k) == IF keys[k].asc THEN 1 ELSE -1
      cmp(a, b, k) == sign(k) * TotalCmp(Cell(a, keys[k].col), Cell(b, keys[k].col))
      compare(a, b) == LET told == SelectSeq([k \in DOMAIN keys |-> cmp(a, b, k)], LAMBDA c : c # 0)
                       IN  IF told = <<>> THEN 0 ELSE told[1]
  IN  StableSort(rows, compare)

\* as_int of a value, or SmallestInt for the key of a group.
AsKey(v) == IF IsNumeric(v) THEN v[2] ELSE SmallestInt

\* AggState after the values of a group: every row counts, numbers are summed.
Aggregated(kind, values) ==
  LET numbers == SelectSeq(values, LAMBDA v : IsNumeric(v))
      most(d) == FoldLeft(LAMBDA a, v : IF d * v[2] > d * a THEN v[2] ELSE a, numbers[1][2], numbers)
  IN  CASE kind = "count" -> IntOf(Len(values))
        [] kind = "sum" -> IntOf(FoldLeft(LAMBDA s, v : s + v[2], 0, numbers))
        [] numbers = <<>> -> Null
        [] kind = "min" -> IntOf(most(-1))
        [] kind = "max" -> IntOf(most(1))

\* run: a row per key, in the order the keys were first met.
GroupRows(rows, groupCols, aggs) ==
  LET keyOf(row) == [k \in DOMAIN groupCols |-> AsKey(Cell(row, groupCols[k]))]
      order == FoldLeft(LAMBDA keys, row : IF Contains(keys, keyOf(row)) THEN keys
                                           ELSE Append(keys, keyOf(row)), <<>>, rows)
      members(key) == SelectSeq(rows, LAMBDA row : keyOf(row) = key)
      values(key, a) == [n \in DOMAIN members(key) |-> Cell(members(key)[n], aggs[a].column)]
  IN  [g \in DOMAIN order |->
         [k \in DOMAIN groupCols |-> IntOf(order[g][k])] \o
         [a \in DOMAIN aggs |-> Aggregated(aggs[a].kind, values(order[g], a))]]

(***************************************************************************)
(* next: no or one row, and the node behind it.                            *)
(***************************************************************************)
Gives(row, node) == [row |-> <<row>>, node |-> node]
Ends(node) == [row |-> <<>>, node |-> node]

RECURSIVE NextRow(_), Drained(_)
NextRow(node) ==
  LET pull == NextRow(node.child)
      with == [node EXCEPT !.child = pull.node]
      loaded == [node EXCEPT !.loaded = TRUE, !.child = ScanNode(<<>>),
                             !.buffer = LET rows == Drained(node.child)
                                        IN  IF node.op = "sort" THEN SortedBy(rows, node.keys)
                                            ELSE GroupRows(rows, node.groupCols, node.aggs)]
  IN  CASE node.op = "scan" ->
             IF node.rows = <<>> THEN Ends(node)
             ELSE Gives(Head(node.rows), ScanNode(Tail(node.rows)))
        [] node.op = "filter" ->
             IF pull.row = <<>> THEN Ends(with)
             ELSE IF SqlEval(node.predicate, pull.row[1]) = BoolOf(TRUE) THEN Gives(pull.row[1], with)
             ELSE NextRow(with)
        [] node.op = "project" ->
             IF pull.row = <<>> THEN Ends(with)
             ELSE Gives([i \in DOMAIN node.exprs |-> SqlEval(node.exprs[i], pull.row[1])], with)
        [] node.op = "limit" /\ node.toSkip > 0 ->
             IF pull.row = <<>> THEN Ends(with) ELSE NextRow([with EXCEPT !.toSkip = @ - 1])
        [] node.op = "limit" /\ node.toSkip = 0 ->
             IF node.remaining = 0 THEN Ends(node)
             ELSE IF pull.row = <<>> THEN Ends(with)
             ELSE Gives(pull.row[1], [with EXCEPT !.remaining = @ - 1])
        [] node.op \in {"sort", "aggregate"} ->
             IF ~node.loaded THEN NextRow(loaded)
             ELSE IF node.buffer = <<>> THEN Ends(node)
             ELSE Gives(Head(node.buffer), [node EXCEPT !.buffer = Tail(@)])

\* collect_rows.
Drained(node) ==
  LET pull == NextRow(node)
  IN  IF pull.row = <<>> THEN <<>> ELSE pull.row \o Drained(pull.node)

(***************************************************************************)
(* Logical plans.                                                          *)
(***************************************************************************)
TableScan(table) == [op |-> "scan", table |-> table]
Over(op, input, detail) == [op |-> op, input |-> input, detail |-> detail]
Selection(input, predicate) == Over("filter", input, predicate)
Projection(input, items) == Over("project", input, items)
JoinOf(kind, on, l, r) == [op |-> "join", kind |-> kind, on |-> on, left |-> l, right |-> r]
EmptyRelation == [op |-> "empty"]

RECURSIVE ContainsAggregate(_)
ContainsAggregate(e) == e[1] = "agg" \/ \E i \in DOMAIN e[3] : ContainsAggregate(e[3][i])

\* from_select: joins, WHERE, grouping or projection, DISTINCT, ORDER BY, LIMIT.
FromSelect(s) ==
  LET source == IF s.from = <<>> THEN EmptyRelation ELSE TableScan(s.from[1])
      joined == FoldLeft(LAMBDA p, j : JoinOf(j.kind, j.on, p, TableScan(j.table)), source, s.joins)
      when(clause, p, made) == IF clause = <<>> THEN p ELSE made
      filtered == when(s.filter, joined, Selection(joined, s.filter[1]))
      grouped == Over("aggregate", filtered, [groupBy |-> s.groupBy, items |-> s.items])
      shaped == IF s.groupBy # <<>> \/ \E i \in DOMAIN s.items : ContainsAggregate(s.items[i].expr)
                THEN when(s.having, grouped, Selection(grouped, s.having[1]))
                ELSE Projection(filtered, s.items)
      distinct == IF s.distinct THEN Over("distinct", shaped, <<>>) ELSE shaped
      sorted == when(s.orderBy, distinct, Over("sort", distinct, s.orderBy))
  IN  when(s.limit \o s.offset, sorted, Over("limit", sorted, [limit |-> s.limit, offset |-> s.offset]))

(***************************************************************************)
(* Constant folding, and conjunctions.                                     *)
(***************************************************************************)
IsLit(e, kind) == e[1] = "lit" /\ Kind(e[2]) = kind
True == Lit(BoolOf(TRUE))
False == Lit(BoolOf(FALSE))

\* fold_int, with the expression itself where it has no value.
FoldInts(op, a, b) ==
  IF op \in LogicOps \/ (op \in {"div", "mod"} /\ b[2][2] = 0) THEN Binary(op, a, b)
  ELSE Lit(ApplyBinary(op, a[2], b[2]))

FoldBinary(op, a, b) ==
  CASE IsLit(a, "int") /\ IsLit(b, "int") -> FoldInts(op, a, b)
    [] op = "and" /\ False \in {a, b} -> False
    [] op = "or" /\ True \in {a, b} -> True
    [] op = "and" /\ a = True -> b
    [] op = "and" /\ b = True -> a
    [] op = "or" /\ a = False /\ b = False -> False
    [] OTHER -> Binary(op, a, b)

RECURSIVE FoldConstants(_)
FoldConstants(e) ==
  IF e[1] = "binary" THEN FoldBinary(e[2], FoldConstants(e[3][1]), FoldConstants(e[3][2]))
  ELSE IF e[1] = "unary"
  THEN LET a == FoldConstants(e[3][1])
           folds == IF e[2] = "neg" THEN IsLit(a, "int") \/ IsLit(a, "real") ELSE IsLit(a, "bool")
       IN  IF folds THEN Lit(ApplyUnary(e[2], a[2])) ELSE Unary(e[2], a)
  ELSE e

RECURSIVE SplitConjuncts(_)
SplitConjuncts(e) ==
  IF e[1] = "binary" /\ e[2] = "and" THEN SplitConjuncts(e[3][1]) \o SplitConjuncts(e[3][2]) ELSE <<e>>
CombineConjuncts(es) == FoldLeft(LAMBDA acc, e : Binary("and", acc, e), Head(es), Tail(es))

(***************************************************************************)
(* The rewrite rules, children first.                                      *)
(***************************************************************************)
RewriteFilter(p) ==
  LET predicate == FoldConstants(p.detail)
      input == p.input
  IN  CASE predicate = True -> input
        [] predicate # True /\ input.op = "filter" ->
             Selection(input.input, FoldConstants(Binary("and", predicate, input.detail)))
        [] predicate # True /\ input.op = "project" ->
             Projection(Selection(input.input, predicate), input.detail)
        [] OTHER -> Selection(input, predicate)

RECURSIVE Rewrite(_)
Rewrite(p) ==
  CASE p.op \in {"scan", "empty"} -> p
    [] p.op = "join" -> [p EXCEPT !.left = Rewrite(@), !.right = Rewrite(@)]
    [] p.op = "filter" -> RewriteFilter([p EXCEPT !.input = Rewrite(@)])
    [] OTHER -> [p EXCEPT !.input = Rewrite(@)]

(***************************************************************************)
(* plan.rs: filters and limits are pushed down in one descent that stops   *)
(* at the first other node.                                                *)
(***************************************************************************)
RECURSIVE OptimizeNode(_)
OptimizeNode(n) ==
  IF n.op \notin {"filter", "limit"} THEN n
  ELSE LET input == OptimizeNode(n.input)
           sinks == \/ n.op = "limit" /\ input.op = "sort"
                    \/ /\ n.op = "filter" /\ input.op = "project"
                       /\ \A i \in DOMAIN input.detail : input.detail[i] = i
       IN  IF sinks THEN [input EXCEPT !.input = [n EXCEPT !.input = input.input]]
           ELSE [n EXCEPT !.input = input]

\* plan: the physical node, with the rows it is expected to give.
RECURSIVE PhysicalOf(_)
PhysicalOf(n) ==
  IF n.op = "scan" THEN [op |-> "scan", path |-> <<"sequential">>, est |-> TableRows]
  ELSE IF n.op = "join"
  THEN LET l == PhysicalOf(n.left)
           r == PhysicalOf(n.right)
       IN  [op |-> IF LeastOf({l.est, r.est}) < SmallSide THEN "hash join"
                   ELSE IF l.est + r.est < MergeLimit THEN "sort-merge join" ELSE "nested loop join",
            left |-> l, right |-> r, est |-> (l.est * r.est) \div GreatestOf({TableRows, 1})]
  ELSE LET child == PhysicalOf(n.input)
           filtered == CASE n.op = "filter" /\ n.detail.op = "eq" -> child.est \div DistinctOf
                         [] n.op = "filter" /\ n.detail.op \in {"lt", "le", "gt", "ge"} -> (child.est * 3) \div 10
                         [] OTHER -> child.est \div 2
           est == CASE n.op = "filter" -> filtered
                    [] n.op \in {"project", "sort"} -> child.est
                    [] n.op = "limit" -> LeastOf({child.est, n.detail})
                    [] n.op = "aggregate" -> GreatestOf({child.est \div (GreatestOf({Len(n.detail), 1}) * 10), 1})
       IN  IF n.op = "filter" /\ n.detail.op = "eq" /\ n.detail.col \in IndexedCols /\ child.op = "scan"
           THEN [child EXCEPT !.path = <<"index", n.detail.col, n.detail.value>>, !.est = est]
           ELSE [op |-> n.op, input |-> child, est |-> est]

(***************************************************************************)
(* The operators that run a logical plan.  Columns are found by name.      *)
(***************************************************************************)
IndexIn(names, name) == CHOOSE i \in DOMAIN names : names[i] = name
RECURSIVE Compiled(_, _)
Compiled(e, names) ==
  IF e[1] = "col" THEN Col(IndexIn(names, e[2]))
  ELSE Node(e[1], e[2], [i \in DOMAIN e[3] |-> Compiled(e[3][i], names)])

ItemName(item) == IF item.alias # <<>> THEN item.alias[1]
                  ELSE IF item.expr[1] = "col" THEN item.expr[2] ELSE "unnamed"
AggItems(detail) == SelectSeq(detail.items, LAMBDA item : item.expr[1] = "agg")
RECURSIVE NamesOf(_)
NamesOf(p) ==
  CASE p.op = "scan" -> Tables[p.table].names
    [] p.op = "empty" -> <<>>
    [] p.op = "join" -> NamesOf(p.left) \o NamesOf(p.right)
    [] p.op = "project" -> [i \in DOMAIN p.detail |-> ItemName(p.detail[i])]
    [] p.op = "aggregate" -> [k \in DOMAIN p.detail.groupBy |-> p.detail.groupBy[k][2]] \o
                             [a \in DOMAIN AggItems(p.detail) |-> ItemName(AggItems(p.detail)[a])]
    [] OTHER -> NamesOf(p.input)

AggSpecs(p) ==
  LET items == AggItems(p.detail)
      names == NamesOf(p.input)
  IN  [a \in DOMAIN items |-> [kind |-> items[a].expr[2], column |-> IndexIn(names, items[a].expr[3][1][2])]]
GroupCols(p) == [k \in DOMAIN p.detail.groupBy |-> IndexIn(NamesOf(p.input), p.detail.groupBy[k][2])]
SortKeys(p) == [k \in DOMAIN p.detail |-> [col |-> IndexIn(NamesOf(p.input), p.detail[k].expr[2]),
                                           asc |-> p.detail[k].ascending]]
LimitOf(p) == IF p.detail.limit = <<>> THEN 999 ELSE p.detail.limit[1]
OffsetOf(p) == IF p.detail.offset = <<>> THEN 0 ELSE p.detail.offset[1]

\* What a join or a DISTINCT gives, for which there is no row operator.
Pairs(p, l, r) ==
  LET on == Compiled(p.on, NamesOf(p))
      width == Len(NamesOf(p.right))
      meets(row) == SelectSeq([j \in DOMAIN r |-> row \o r[j]], LAMBDA both : SqlEval(on, both) = BoolOf(TRUE))
      given(row) == IF meets(row) = <<>> /\ p.kind = "left" THEN <<row \o [i \in 1 .. width |-> Null]>>
                    ELSE meets(row)
  IN  FoldLeft(LAMBDA acc, row : acc \o given(row), <<>>, l)
Distinct(rows) == FoldLeft(LAMBDA acc, row : IF Contains(acc, row) THEN acc ELSE Append(acc, row), <<>>, rows)

RECURSIVE Executable(_)
Executable(p) ==
  CASE p.op = "scan" -> ScanNode(Tables[p.table].rows)
    [] p.op = "empty" -> ScanNode(<<>>)
    [] p.op = "join" -> ScanNode(Pairs(p, Drained(Executable(p.left)), Drained(Executable(p.right))))
    [] p.op = "distinct" -> ScanNode(Distinct(Drained(Executable(p.input))))
    [] p.op = "filter" -> FilterNode(Executable(p.input), Compiled(p.detail, NamesOf(p.input)))
    [] p.op = "project" ->
         ProjectNode(Executable(p.input),
                     [i \in DOMAIN p.detail |-> Compiled(p.detail[i].expr, NamesOf(p.input))])
    [] p.op = "limit" -> LimitNode(Executable(p.input), LimitOf(p), OffsetOf(p))
    [] p.op = "sort" -> SortNode(Executable(p.input), SortKeys(p))
    [] p.op = "aggregate" -> AggregateNode(Executable(p.input), GroupCols(p), AggSpecs(p))

(***************************************************************************)
(* A query is lowered, rewritten in passes, and pulled row by row.         *)
(***************************************************************************)
NotRunning == ScanNode(<<>>)
Source == IF query.kind = "select" THEN FromSelect(query.of) ELSE query.of

PlanInit ==
  /\ \/ \E s \in Selects : query = [kind |-> "select", of |-> s]
     \/ \E p \in BuiltPlans : query = [kind |-> "plan", of |-> p]
     \/ \E n \in NodePlans : query = [kind |-> "node", of |-> n]
  /\ plan = Source
  /\ passes = 0 /\ executor = NotRunning /\ pulled = <<"not started">>

\* A pass of optimize that changes the plan.
Pass ==
  /\ query.kind # "node" /\ pulled = <<"not started">> /\ passes < MaxPasses
  /\ Rewrite(plan) # plan
  /\ plan' = Rewrite(plan) /\ passes' = passes + 1
  /\ UNCHANGED <<query, executor, pulled>>

OptimizeOnce ==
  /\ query.kind = "node" /\ passes = 0
  /\ plan' = OptimizeNode(plan) /\ passes' = 1
  /\ UNCHANGED <<query, executor, pulled>>

\* The plan, whatever passes it has been through, is run.
Start ==
  /\ query.kind # "node" /\ pulled = <<"not started">>
  /\ executor' = Executable(plan) /\ pulled' = <<"running", <<>>>>
  /\ UNCHANGED <<query, plan, passes>>

Pull ==
  /\ pulled[1] = "running"
  /\ LET pull == NextRow(executor)
     IN  /\ executor' = pull.node
         /\ pulled' = IF pull.row = <<>> THEN <<"ended", pulled[2]>> ELSE <<"running", pulled[2] \o pull.row>>
  /\ UNCHANGED <<query, plan, passes>>

PlanNext == Pass \/ OptimizeOnce \/ Start \/ Pull

(***************************************************************************)
(* The meaning of a plan, by definition over whole relations.              *)
(***************************************************************************)
PlacesIn(n, Test(_)) == SelectSeq([i \in 1 .. n |-> i], Test)

GroupMeaning(rows, cols, aggs) ==
  LET key(i) == [k \in DOMAIN cols |-> AsKey(Cell(rows[i], cols[k]))]
      firsts == PlacesIn(Len(rows), LAMBDA i : \A j \in 1 .. i - 1 : key(j) # key(i))
      numbers(g, c) == {i \in DOMAIN rows : key(i) = key(g) /\ IsNumeric(Cell(rows[i], c))}
      least(S, d) == CHOOSE x \in S : \A y \in S : d * x <= d * y
      value(g, a) ==
        LET at == numbers(g, a.column)
            sizes == {rows[i][a.column][2] : i \in at}
        IN  CASE a.kind = "count" -> IntOf(Cardinality({i \in DOMAIN rows : key(i) = key(g)}))
              [] a.kind = "sum" -> IntOf(SumFunction([i \in at |-> rows[i][a.column][2]]))
              [] at = {} -> Null
              [] a.kind = "min" -> IntOf(least(sizes, 1))
              [] a.kind = "max" -> IntOf(least(sizes, -1))
  IN  [n \in DOMAIN firsts |-> [k \in DOMAIN cols |-> IntOf(key(firsts[n])[k])] \o
                               [a \in DOMAIN aggs |-> value(firsts[n], aggs[a])]]

RECURSIVE PlanMeaning(_)
PlanMeaning(p) ==
  LET rows == PlanMeaning(p.input)
      names == NamesOf(p.input)
      val(e, row) == SqlEval(Compiled(e, names), row)
  IN  CASE p.op = "scan" -> Tables[p.table].rows
        [] p.op = "empty" -> <<>>
        [] p.op = "join" -> Pairs(p, PlanMeaning(p.left), PlanMeaning(p.right))
        [] p.op = "distinct" -> Distinct(rows)
        [] p.op = "filter" -> SelectSeq(rows, LAMBDA row : val(p.detail, row) = BoolOf(TRUE))
        [] p.op = "project" -> [n \in DOMAIN rows |-> [i \in DOMAIN p.detail |-> val(p.detail[i].expr, rows[n])]]
        [] p.op = "limit" -> Upto(After(rows, OffsetOf(p)), LimitOf(p))
        [] p.op = "sort" -> SortedBy(rows, SortKeys(p))
        [] p.op = "aggregate" -> GroupMeaning(rows, GroupCols(p), AggSpecs(p))

\* The same for the plans of plan.rs, whose columns are numbers.
RECURSIVE NodeMeaning(_)
NodeMeaning(n) ==
  LET rows == NodeMeaning(n.input)
      d == n.detail
      l == NodeMeaning(n.left)
      r == NodeMeaning(n.right)
  IN  CASE n.op = "scan" -> Tables[n.table].rows
        [] n.op = "filter" -> SelectSeq(rows, LAMBDA row : Apply(d.op, Cell(row, d.col), d.value))
        [] n.op = "project" -> [i \in DOMAIN rows |-> [k \in DOMAIN d |-> Cell(rows[i], d[k])]]
        [] n.op = "limit" -> Upto(rows, d)
        [] n.op = "sort" -> SortedBy(rows, d)
        [] n.op = "aggregate" -> GroupMeaning(rows, d, <<>>)
        [] n.op = "join" -> {<<i, j>> \in (DOMAIN l) \X (DOMAIN r) : Cell(l[i], n.leftCol) = Cell(r[j], n.rightCol)}

RECURSIVE NodesOf(_)
NodesOf(p) ==
  {p} \cup (CASE p.op \in {"scan", "empty"} -> {}
             [] p.op \in {"join", "hash join", "sort-merge join", "nested loop join"} ->
                  NodesOf(p.left) \cup NodesOf(p.right)
             [] OTHER -> NodesOf(p.input))
RECURSIVE SubTrees(_)
SubTrees(e) == {e} \cup UNION {SubTrees(e[3][i]) : i \in DOMAIN e[3]}

\* Folding TRUE AND x to x, and two filters into one, keeps the rows only if
\* x is a truth value: a number is true to AND and not to a filter.
TruthValued(e) == \/ e[1] \in {"isnull", "between", "in"} \/ IsLit(e, "bool") \/ IsLit(e, "null")
                  \/ e[1] = "unary" /\ e[2] = "not"
                  \/ e[1] = "binary" /\ e[2] \in CompareOps \cup LogicOps
SoundPredicate(e) ==
  /\ TruthValued(e)
  /\ \A t \in SubTrees(e) : t[1] = "binary" /\ t[2] = "and" => TruthValued(t[3][1]) /\ TruthValued(t[3][2])

\* A filter may sink below a projection that passes its columns on by name.
KeepsColumns(filter, project) ==
  \A t \in SubTrees(filter.detail) : t[1] = "col" =>
    \E i \in DOMAIN project.detail : /\ project.detail[i].expr = t
                                     /\ ItemName(project.detail[i]) = t[2]

SoundlyRewritten(p) ==
  \A n \in NodesOf(p) : n.op = "filter" =>
    /\ SoundPredicate(n.detail)
    /\ n.input.op = "project" => KeepsColumns(n, n.input)

\* A limit above a sort is pushed below it, where it takes other rows.
LimitAboveSort(p) ==
  \E n \in NodesOf(p) : n.op = "limit" /\ \E m \in NodesOf(n.input) : m.op = "sort"
\* The second equality filter folded into a scan replaces the first.
RECURSIVE IndexFilters(_)
IndexFilters(p) == IF p.op = "filter" /\ p.detail.op = "eq" /\ p.detail.col \in IndexedCols
                   THEN 1 + IndexFilters(p.input) ELSE 0
FiltersLost(p) == \E n \in NodesOf(p) : IndexFilters(n) > 1
FilterCount(p) == Cardinality({n \in NodesOf(p) : n.op = "filter"})
Enforced(p) == FilterCount(p) + Cardinality({n \in NodesOf(p) : n.op = "scan" /\ n.path[1] = "index"})

(***************************************************************************)
(* Whatever passes of the optimizer a plan has been through, running it    *)
(* gives the rows that the plan made from the statement means, in order,   *)
(* and nothing after the end; eight passes reach a plan no rule changes;   *)
(* splitting a predicate and combining it again keeps it.  The second      *)
(* planner keeps the rows of a plan and enforces each of its filters.  The *)
(* four unsound rewrites are the exceptions named above.                   *)
(***************************************************************************)
PlansKeepMeaning ==
  /\ pulled[1] = "ended" => /\ NextRow(executor).row = <<>>
                            /\ SoundlyRewritten(Source) => pulled[2] = PlanMeaning(Source)
  /\ passes = MaxPasses => Rewrite(plan) = plan
  /\ query.kind # "node" =>
       \A n \in NodesOf(plan) : n.op = "filter" =>
         LET parts == SplitConjuncts(n.detail)
         IN  SplitConjuncts(CombineConjuncts(parts)) = parts
  /\ query.kind = "node" =>
       /\ LimitAboveSort(Source) \/ NodeMeaning(plan) = NodeMeaning(Source)
       /\ FiltersLost(plan) \/ Enforced(PhysicalOf(plan)) = FilterCount(plan)
=============================================================================
