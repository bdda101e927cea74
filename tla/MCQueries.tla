------------------------------ MODULE MCQueries ------------------------------
(***************************************************************************)
(* The query layer on small inputs.  The parts do not call one another:    *)
(* a behaviour exercises one of them.                                      *)
(***************************************************************************)
EXTENDS VectorExec, ExprVm, Plans, Parsing, Merging, Algorithms, Codecs

(***************************************************************************)
(* Expressions.                                                            *)
(***************************************************************************)
Leaves == {Col(1), Col(2), Lit(Null), Lit(IntOf(0)), Lit(IntOf(2)), Lit(BoolOf(TRUE))}
Comparisons == {Binary(o, Col(1), b) : o \in {"eq", "lt", "ge"}, b \in {Lit(IntOf(1)), Lit(Null)}}
Trees ==
  Leaves
  \cup {Unary(o, a) : o \in {"neg", "not"}, a \in Leaves \cup Comparisons}
  \cup {Binary(o, a, b) : o \in {"add", "sub", "div", "mod", "ne", "le", "gt", "and", "or"},
                          a \in Leaves, b \in {Col(1), Lit(IntOf(2)), Lit(BoolOf(TRUE))}}
  \cup {Binary(o, a, b) : o \in LogicOps, a \in Comparisons, b \in Comparisons}
  \cup {Node("isnull", n, <<a>>) : n \in BOOLEAN, a \in Leaves}
  \cup {Node("between", 0, <<Col(1), a, b>>) : a \in Leaves, b \in Leaves}
  \cup {Node("in", 0, <<a, b, Col(2), Lit(IntOf(0))>>) : a \in Leaves, b \in Leaves}
Inputs == {<<a, b>> : a \in {Null, IntOf(-1), IntOf(1), RealOf(1)}, b \in {Null, IntOf(2), TextOf(1), BoolOf(FALSE)}}

(***************************************************************************)
(* Batch operators.                                                        *)
(***************************************************************************)
Always == Lit(BoolOf(TRUE))
Positive == Binary("gt", Col(2), Lit(IntOf(0)))
KeyAsc == <<[col |-> 1, asc |-> TRUE]>>
KeyDescValue == <<[col |-> 1, asc |-> FALSE], [col |-> 2, asc |-> TRUE]>>
AllAggs == <<[func |-> "count", col |-> 0], [func |-> "count", col |-> 2], [func |-> "sum", col |-> 2],
             [func |-> "avg", col |-> 2], [func |-> "min", col |-> 2], [func |-> "max", col |-> 2],
             [func |-> "first", col |-> 2], [func |-> "last", col |-> 2],
             [func |-> "distinct", col |-> 2]>>

Pipelines ==
  {[name |-> "filter", where |-> w] :
     w \in {Positive, Binary("and", Positive, Binary("ne", Col(1), Lit(IntOf(2)))),
            Binary("or", Node("call", "isnull", <<Col(1)>>),
                   Binary("lt", Node("coalesce", 0, <<Col(2), Lit(IntOf(1))>>), Lit(IntOf(1)))),
            Node("case", 0, <<Unary("not", Col(1)), Positive, Lit(BoolOf(FALSE))>>)}}
  \cup {[name |-> "project", where |-> w, cols |-> <<2, 1, 2>>] : w \in {Always, Positive}}
  \cup {[name |-> "map", where |-> Always, type |-> t, expr |-> e] :
          t \in {"int", "bool"},
          e \in {Binary("div", Lit(IntOf(4)), Col(2)), Unary("neg", Col(1)),
                 Node("call", "max", <<Col(1), Col(2)>>), Node("call", "abs", <<Col(2)>>)}}
  \cup {[name |-> "limit", where |-> w, offset |-> o, limit |-> n] :
          w \in {Always, Positive}, o \in 0 .. 3, n \in 0 .. 3}
  \cup {[name |-> "sort", where |-> Always, keys |-> k] : k \in {KeyAsc, KeyDescValue}}
  \cup {[name |-> "agg", where |-> w, groupCols |-> g, specs |-> AllAggs] :
          w \in {Always, Positive}, g \in {<<>>, <<1>>, <<1, 2>>}}
  \cup {[name |-> "cross", where |-> Always]}
  \cup {[name |-> "join", where |-> Always, kind |-> k, leftKeys |-> <<1>>, rightKeys |-> <<1>>] :
          k \in {"inner", "left", "right", "outer", "semi", "anti"}}

LeftInputs == {<<>>,
               <<<<IntOf(1), IntOf(0)>>, <<IntOf(2), IntOf(3)>>, <<IntOf(1), IntOf(2)>>>>,
               <<<<IntOf(2), IntOf(1)>>, <<Null, IntOf(1)>>, <<IntOf(2), Null>>, <<IntOf(0), IntOf(-2)>>, <<IntOf(2), IntOf(1)>>>>,
               <<<<Null, Null>>, <<IntOf(1), IntOf(-1)>>>>}
RightInputs == {<<>>, <<<<IntOf(1)>>>>, <<<<IntOf(2)>>, <<Null>>, <<IntOf(2)>>>>, <<<<IntOf(3)>>, <<IntOf(1)>>>>}

(***************************************************************************)
(* Plans.                                                                  *)
(***************************************************************************)
A == Col("a")
B == Col("b")
Num(n) == Lit(IntOf(n))
SmallTables ==
  [t |-> [names |-> <<"a", "b">>,
          rows |-> <<<<IntOf(2), IntOf(1)>>, <<IntOf(1), Null>>, <<IntOf(2), IntOf(5)>>, <<Null, IntOf(1)>>,
                     <<IntOf(1), BoolOf(TRUE)>>>>],
   u |-> [names |-> <<"c">>, rows |-> <<<<IntOf(1)>>, <<IntOf(2)>>, <<IntOf(1)>>>>],
   none |-> [names |-> <<"a", "b">>, rows |-> <<>>]]

Named(e) == [expr |-> e, alias |-> <<>>]
Agg(kind, name) == [expr |-> Node("agg", kind, <<B>>), alias |-> <<name>>]
Select(from, filter) ==
  [distinct |-> FALSE, items |-> <<Named(A), Named(B)>>, from |-> <<from>>, joins |-> <<>>,
   filter |-> filter, groupBy |-> <<>>, having |-> <<>>, orderBy |-> <<>>, limit |-> <<>>, offset |-> <<>>]
Predicates ==
  {Binary("gt", A, Num(1)),
   Binary("and", Binary("eq", Num(1), Binary("sub", Num(3), Num(2))), Binary("lt", B, Num(5))),
   Binary("and", B, Binary("le", Num(0), Unary("neg", Unary("neg", Num(1))))),
   Binary("or", Unary("not", Lit(BoolOf(TRUE))), Binary("ne", A, B)),
   Binary("eq", Binary("div", Num(4), Num(0)), A),
   Binary("and", Binary("and", Node("isnull", TRUE, <<A>>), Binary("ge", B, Num(1))), Lit(BoolOf(TRUE)))}
SelectStatements ==
  {Select(t, <<p>>) : t \in {"t", "none"}, p \in Predicates}
  \cup {[Select("t", <<Binary("gt", A, Num(0))>>) EXCEPT !.orderBy = o, !.limit = l, !.offset = f, !.distinct = d,
                                                         !.items = <<Named(i)>>] :
          o \in {<<>>, <<[expr |-> B, ascending |-> FALSE]>>}, l \in {<<>>, <<1>>, <<2>>}, f \in {<<>>, <<1>>},
          d \in BOOLEAN, i \in {B}}
  \cup {[Select("t", <<>>) EXCEPT !.items = <<Named(A), Agg("count", "n"), Agg("sum", "s"), Agg("min", "l"), Agg("max", "h")>>,
                                  !.groupBy = g, !.having = h, !.orderBy = <<[expr |-> Col("n"), ascending |-> TRUE]>>] :
          g \in {<<A>>, <<>>}, h \in {<<>>, <<Binary("ge", Col("s"), Num(2))>>}}
  \cup {[Select("t", <<Binary("gt", Col("c"), Num(0))>>) EXCEPT
           !.joins = <<[kind |-> k, table |-> "u", on |-> Binary("eq", A, Col("c"))]>>,
           !.items = <<Named(A), Named(Col("c")), [expr |-> Binary("add", A, Col("c")), alias |-> <<"z">>]>>] :
          k \in {"inner", "left"}}
  \cup {[Select("t", <<>>) EXCEPT !.from = <<>>, !.items = <<Named(Num(1))>>]}

\* Filters over filters, projections and limits, as a caller may build them.
HandMade ==
  LET swapped == Projection(TableScan("t"), <<[expr |-> A, alias |-> <<"b">>], [expr |-> B, alias |-> <<"a">>]>>)
      narrow == Projection(TableScan("t"), <<Named(A)>>)
      limited == Over("limit", TableScan("t"), [limit |-> <<2>>, offset |-> <<1>>])
  IN  {Selection(Selection(Selection(p, e), Lit(BoolOf(TRUE))), f) :
         p \in {swapped, narrow, limited, TableScan("t")},
         e \in {Binary("gt", A, Num(1)), Binary("and", Lit(BoolOf(TRUE)), A)},
         f \in {Node("isnull", FALSE, <<A>>), Binary("ge", A, Num(1))}}

Keep(input, col, o, v) == Over("filter", input, [col |-> col, op |-> o, value |-> IntOf(v)])
NodeQueries ==
  LET scan == TableScan("t")
      sorted == Over("sort", scan, <<[col |-> 2, asc |-> TRUE]>>)
      inputs == {scan, sorted, Over("project", scan, <<1, 2>>), Over("project", scan, <<2, 1>>),
                 Over("limit", scan, 2), Keep(scan, 1, "eq", 2), Keep(scan, 2, "lt", 3),
                 Keep(Over("project", scan, <<1, 2>>), 1, "ge", 2), Over("aggregate", scan, <<1>>)}
  IN  inputs \cup {Over("limit", i, 1) : i \in inputs} \cup {Keep(i, c, "eq", 1) : i \in inputs, c \in {1, 2}}
      \cup {[op |-> "join", left |-> i, right |-> TableScan("u"), leftCol |-> 1, rightCol |-> 1] : i \in inputs}

(***************************************************************************)
(* Texts.                                                                  *)
(***************************************************************************)
Simple == {A, Num(1)}
Compared == {Binary("lt", A, Num(1)), Node("between", 0, <<A, Num(1), Num(2)>>), Node("in", 0, <<A, Num(1), B>>),
             Node("isnull", TRUE, <<A>>), Node("like", 0, <<A, B>>), Unary("neg", B), Unary("not", A)}
SqlExprs ==
  LET once == Simple \cup Compared
  IN  once \cup {Unary(o, a) : o \in {"not", "neg"}, a \in once}
      \cup {Binary(o, a, b) : o \in {"or", "and", "eq", "sub", "mul"}, a \in once, b \in once}
      \cup {Binary(o, Binary(p, A, B), c) : o \in {"or", "and", "ge", "add", "div"}, p \in {"or", "and", "ne", "sub", "mod"}, c \in once}
      \cup {Binary(o, A, Binary(p, B, c)) : o \in {"or", "and", "le", "sub", "mul"}, p \in {"or", "and", "gt", "add", "div"}, c \in Simple}
      \cup {Node("between", 0, <<a, b, c>>) : a \in Compared, b \in Compared, c \in Compared}
      \cup {Node(n, FALSE, <<Binary("add", A, B)>>) : n \in {"isnull"}}
Aggs == {Node("agg", <<f, d>>, <<a>>) : f \in {"count", "max"}, d \in BOOLEAN, a \in {Star, A}}
PlainSelect ==
  [stmt |-> "select", distinct |-> FALSE, items |-> <<Named(Star)>>, source |-> [from |-> <<"t">>, alias |-> <<>>, joins |-> <<>>],
   filter |-> <<>>, groupBy |-> <<>>, having |-> <<>>, orderBy |-> <<>>, limit |-> <<>>, offset |-> <<>>]
JoinTo(k, t) == [kind |-> k, table |-> t, alias |-> <<"x">>,
                 on |-> Binary("eq", Node("qualified", <<"t", "a">>, <<>>), Node("qualified", <<"x", "b">>, <<>>))]
ColumnOf(name, type, notNull, key) == [name |-> name, type |-> type, notNull |-> notNull, primaryKey |-> key]
Statements ==
  {[PlainSelect EXCEPT !.distinct = TRUE, !.items = <<[expr |-> A, alias |-> <<"z">>], Named(Node("qualified", <<"t", "*">>, <<>>))>>,
                       !.source = [from |-> <<"t">>, alias |-> <<"y">>, joins |-> <<JoinTo("inner", "u"), JoinTo("left", "v")>>],
                       !.filter = <<Binary("lt", A, Num(1))>>],
   [PlainSelect EXCEPT !.items = <<Named(A), Named(Node("agg", <<"sum", FALSE>>, <<B>>))>>, !.groupBy = <<A, B>>,
                       !.having = <<Binary("gt", Node("agg", <<"count", TRUE>>, <<Star>>), Num(5))>>,
                       !.orderBy = <<[expr |-> A, ascending |-> FALSE], [expr |-> B, ascending |-> TRUE]>>,
                       !.limit = <<10>>, !.offset = <<2>>],
   [PlainSelect EXCEPT !.source = NoSource, !.items = <<Named(Num(1))>>, !.offset = <<1>>],
   [stmt |-> "insert", table |-> "t", columns |-> <<"a", "b">>, rows |-> <<<<Num(1), Num(2)>>, <<Lit(Null), A>>>>],
   [stmt |-> "insert", table |-> "t", columns |-> <<>>, rows |-> <<<<Num(1)>>>>],
   [stmt |-> "update", table |-> "t", assignments |-> <<<<"a", Binary("add", A, Num(1))>>, <<"b", Lit(BoolOf(TRUE))>>>>,
    filter |-> <<Binary("eq", B, Num(2))>>],
   [stmt |-> "delete", table |-> "t", filter |-> <<Unary("not", A)>>],
   [stmt |-> "create", name |-> "t", columns |-> <<ColumnOf("a", "int", TRUE, TRUE), ColumnOf("b", "text", TRUE, FALSE),
                                                   ColumnOf("c", "real", FALSE, FALSE)>>],
   [stmt |-> "drop", name |-> "t"]}
SqlScripts ==
  {<<[PlainSelect EXCEPT !.filter = <<e>>]>> : e \in SqlExprs \cup Aggs}
  \cup {<<a, b>> : a \in Statements, b \in {[stmt |-> "delete", table |-> "u", filter |-> <<>>]}}
TextExprs ==
  LET plain == Simple \cup {Unary("neg", B), Node("call", "f", <<>>), Node("call", "f", <<A, Num(1)>>), Unary("not", A)}
      twice == {Binary(o, a, b) : o \in {"or", "and", "eq", "sub", "mul"}, a \in plain, b \in plain}
  IN  plain \cup twice \cup {Unary(o, a) : o \in {"not", "neg"}, a \in twice}
      \cup {Binary(o, Binary(p, A, B), c) : o \in {"or", "and", "ge", "add", "div"}, p \in {"or", "and", "ne", "sub", "mod"}, c \in plain}
      \cup {Binary(o, A, Binary(p, B, c)) : o \in {"or", "and", "le", "sub", "mul"}, p \in {"or", "and", "gt", "add", "div"}, c \in Simple}

(***************************************************************************)
(* Inputs of sorts and merges.                                             *)
(***************************************************************************)
Pair(a, b) == <<IntOf(a), IntOf(b)>>
Asc == KeyAsc
Desc == <<[col |-> 2, asc |-> FALSE], [col |-> 1, asc |-> TRUE]>>
ShortRows == UNION {[1 .. n -> {Pair(1, 1), Pair(1, 2), Pair(2, 1), <<Null, IntOf(3)>>}] : n \in 0 .. 2}
SortedRuns == {<<>>, <<0>>, <<1, 1>>, <<0, 2, 9>>, <<9>>, <<1, 3>>}
SortsAndMerges ==
  {[kind |-> "external", batches |-> <<a, b, c>>, keys |-> k] :
     a \in ShortRows, b \in ShortRows, c \in {<<>>, <<Pair(1, 1)>>, <<Pair(2, 2), Pair(1, 0)>>}, k \in {Asc, Desc}}
  \cup {[kind |-> "two", left |-> a, right |-> b, keys |-> k, n |-> n] :
          a \in ShortRows, b \in ShortRows, k \in {Asc, Desc}, n \in {0, 1, 3}}
  \cup {[kind |-> "losers", runs |-> r] : r \in UNION {[1 .. n -> SortedRuns] : n \in 0 .. 3}}
  \cup {[kind |-> "losers", runs |-> <<a, <<0, 2, 9>>, b, <<1, 1>>, c>>] : a \in SortedRuns, b \in SortedRuns, c \in SortedRuns}
  \cup {[kind |-> "radix", keys |-> k] : k \in [1 .. 4 -> {-9, -1, 0, 5, 13}]}

(***************************************************************************)
(* Inputs of joins, partitions, windows and aggregates.                    *)
(***************************************************************************)
LeftRows == {<<>>, <<Pair(1, 1)>>, <<Pair(1, 1), Pair(2, 1), Pair(1, 3)>>,
             <<Pair(2, 1), <<Null, IntOf(1)>>, Pair(2, 1)>>, <<<<Null, Null>>, <<RealOf(1), IntOf(4)>>>>}
RightRows == {<<>>, <<<<IntOf(1)>>>>, <<<<IntOf(2)>>, <<IntOf(1)>>, <<IntOf(2)>>>>,
              <<<<Null>>, <<IntOf(3)>>, <<Null>>>>, <<<<RealOf(1)>>, <<IntOf(1)>>>>}
Scattered == [k \in 0 .. 4 |-> (k * 7) % 5]
KeyLists == {<<>>, <<0, 1, 2>>, <<3, 3, 1>>, <<4, 0, 4, 2>>}
WindowRows == {<<>>, <<Pair(1, 1)>>, <<Pair(1, 1), Pair(1, 1), Pair(1, 4), Pair(2, 3)>>,
               <<<<IntOf(1), Null>>, <<IntOf(1), Null>>, Pair(1, 2), Pair(1, 3), Pair(1, 3)>>,
               <<Pair(1, 2), Pair(2, -1), Pair(2, 0), Pair(2, 0), Pair(2, 5)>>}
WindowFunctions == {"row_number", "rank", "dense_rank", "lag", "lead", "sum", "count", "min", "max", "avg",
                    "first", "last", "nth", "percent_rank", "cume_dist", "ntile"}
WholeInputs ==
  {[kind |-> "join", left |-> l, right |-> r, op |-> o, join |-> k] :
     l \in LeftRows, r \in RightRows, o \in {"eq", "lt", "ne"},
     k \in {"inner", "left", "right", "full", "semi", "anti"}}
  \cup {[kind |-> "partition", left |-> a, right |-> b, n |-> n] : a \in KeyLists, b \in KeyLists, n \in 1 .. 4}
  \cup {[kind |-> "window", rows |-> r, func |-> f, arg |-> a] : r \in WindowRows, f \in WindowFunctions, a \in 1 .. 3}
  \cup {[kind |-> "aggregate", rows |-> r] : r \in WindowRows}

(***************************************************************************)
(* Inputs of the codecs.                                                   *)
(***************************************************************************)
UpTo(n, S) == UNION {[1 .. k -> S] : k \in 0 .. n}
SomeValues == [bool |-> {BoolOf(FALSE), BoolOf(TRUE)}, int |-> {IntOf(1), IntOf(-2)}, real |-> {RealOf(3)},
               text |-> {TextOf(0), TextOf(9)}]
SomeRuns(column) == {Run(v, c) : v \in SomeValues[column] \cup {Null}, c \in {1, 6, 15}}
Words == <<<<>>, <<1>>, <<1, 1>>, <<1, 2, 5>>, <<1, 2, 6, 1>>, <<2, 5>>>>
SortedWords == {[k \in 1 .. Cardinality(S) |-> Words[SetToSortSeq(S, <)[k]]] : S \in SUBSET (1 .. 6)}
               \cup {<<<<1>>, <<1>>, <<1>>, <<2, 5>>>>}
Ascii == ("!" :> 33) @@ ("$" :> 36) @@ ("%" :> 37) @@ ("*" :> 42) @@ ("-" :> 45) @@ ("?" :> 63) @@ ("[" :> 91)
         @@ ("\\" :> 92) @@ ("]" :> 93) @@ ("^" :> 94) @@ ("_" :> 95) @@ ("a" :> 97) @@ ("b" :> 98) @@ ("c" :> 99)
Globs == {<<"*", "a">>, <<"a", "*", "*", "b">>, <<"?", "*">>, <<"[", "a", "-", "b", "]", "*">>, <<"[", "!", "a", "]">>,
          <<"[", "a", "-", "]", "?">>, <<"[", "b">>, <<"\\", "*", "a">>, <<"a", "\\">>, <<"[", "]", "a">>}
Regexes == {<<>>, <<"^", "a", "*", "b", "$">>, <<"a", "*", "a">>, <<".", "*", "b">>, <<"b", "$">>, <<"$", "a">>,
            <<"^", "[", "a", "b", "]", "*", "$">>, <<"\\", "$", "$">>, <<"[", "$">>, <<"a", "\\">>, <<"*", "a">>,
            <<"^", ".", "*", "a", ".", "$">>, <<"[", "^", "a", "]", "*", "a", "$">>, <<"^", "$">>}
CodecInputs ==
  {[kind |-> "ints", scheme |-> "best", values |-> v] : v \in UpTo(4, {-32, -8, -7, 0, 1, 7, 8, 31})}
  \cup {[kind |-> "ints", scheme |-> s, values |-> v] :
          s \in {"bitpacked", "delta", "dod", "zigzag"}, v \in UpTo(3, {-32, -1, 0, 6, 31})}
  \cup {[kind |-> "nulls", values |-> v] : v \in UpTo(4, {Null, IntOf(0), IntOf(9)})}
  \cup {[kind |-> "entries", values |-> v] : v \in UpTo(4, {<<>>, <<1>>, <<1, 2>>})}
  \cup UNION {{[kind |-> "runs", column |-> c, list |-> l, n |-> n] : l \in UpTo(2, SomeRuns(c)), n \in {0, 1, 6, 16}} :
                c \in DOMAIN SomeValues}
  \cup {[kind |-> "runs", column |-> "int", list |-> l, n |-> n] :
          l \in [1 .. 3 -> {Run(IntOf(1), 2), Run(Null, 1), Run(IntOf(2), 1)}], n \in {0, 1, 4}}
  \cup {[kind |-> "bytes", codec |-> c, bytes |-> b] : c \in {"best", "store", "rle", "lz"}, b \in UpTo(8, {0, 1})}
  \cup {[kind |-> "block", strings |-> w, stride |-> n, target |-> Words[t]] : w \in SortedWords, n \in {0, 2, 3}, t \in 1 .. 6}
  \cup {[kind |-> "pattern", form |-> "like", pattern |-> p, text |-> t] :
          p \in UpTo(3, {"a", "%", "_", "\\"}) \cup {<<"%", "a", "%", "%">>, <<"_", "%", "b", "%">>}, t \in UpTo(3, {"a", "b", "%"})}
  \cup {[kind |-> "pattern", form |-> "glob", pattern |-> p, text |-> t] : p \in Globs, t \in UpTo(3, {"a", "b", "-", "*"})}
  \cup {[kind |-> "pattern", form |-> "regex", pattern |-> p, text |-> t] : p \in Regexes, t \in UpTo(3, {"a", "b", "$", "*"})}

VARIABLE exercised

vars == <<exercised, vmVars, execVars, planVars, parseVars, mergeVars, algorithmVars, codecVars>>

VmIdle == tree = Lit(Null) /\ inputRow = <<>> /\ pc = 1 /\ stack = <<>>
ExecIdle == /\ op = [name |-> "none"] /\ left = <<>> /\ right = <<>> /\ state = <<>>
            /\ out = <<>> /\ phase = "closed" /\ runs = 0
PlanIdle == /\ query = [kind |-> "none"] /\ plan = EmptyRelation /\ passes = 0
            /\ executor = NotRunning /\ pulled = <<"not started">>
ParseIdle == tokens = <<>> /\ origin = <<>> /\ language = "none" /\ at = 1 /\ parsed = <<>>
MergeIdle == mergeJob = [kind |-> "none"] /\ work = <<>> /\ merged = <<>> /\ merging = "off"
AlgorithmIdle == algorithmJob = [kind |-> "none"] /\ result = NoResult
CodecIdle == codecJob = [kind |-> "none"] /\ coded = <<>> /\ readBack = <<>> /\ coding = "off"

Init ==
  /\ exercised \in {"vm", "exec", "plan", "parse", "merge", "algorithm", "codec"}
  /\ IF exercised = "vm" THEN VmInit ELSE VmIdle
  /\ IF exercised = "exec" THEN ExecInit ELSE ExecIdle
  /\ IF exercised = "plan" THEN PlanInit ELSE PlanIdle
  /\ IF exercised = "parse" THEN ParseInit ELSE ParseIdle
  /\ IF exercised = "merge" THEN MergeInit ELSE MergeIdle
  /\ IF exercised = "algorithm" THEN AlgorithmInit ELSE AlgorithmIdle
  /\ IF exercised = "codec" THEN CodecInit ELSE CodecIdle

OthersIdle ==
  /\ exercised # "vm" => UNCHANGED vmVars
  /\ exercised # "exec" => UNCHANGED execVars
  /\ exercised # "plan" => UNCHANGED planVars
  /\ exercised # "parse" => UNCHANGED parseVars
  /\ exercised # "merge" => UNCHANGED mergeVars
  /\ exercised # "algorithm" => UNCHANGED algorithmVars
  /\ exercised # "codec" => UNCHANGED codecVars

Next ==
  /\ UNCHANGED exercised
  /\ \/ exercised = "vm" /\ Step
     \/ exercised = "exec" /\ ExecNext
     \/ exercised = "plan" /\ PlanNext
     \/ exercised = "parse" /\ ParseNext
     \/ exercised = "merge" /\ MergeNext
     \/ exercised = "algorithm" /\ AlgorithmNext
     \/ exercised = "codec" /\ CodecNext
  /\ OthersIdle

ExecTurns == exercised = "exec" /\ ExecTurn /\ UNCHANGED exercised /\ OthersIdle

Spec == Init /\ [][Next]_vars /\ WF_vars(ExecTurns)
=============================================================================
