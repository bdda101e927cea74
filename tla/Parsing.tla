------------------------------- MODULE Parsing -------------------------------
(***************************************************************************)
(* The two parsers: the statements and expressions of src/src/sql.rs, with *)
(* operator precedence by number, and the expressions of src/src/expr.rs,  *)
(* with a procedure per precedence.  The input is a sequence of tokens; a  *)
(* step parses one statement of a script.                                  *)
(***************************************************************************)
EXTENDS Expressions, SequencesExt

CONSTANTS
  Scripts,       \* lists of statements the SQL parser is to read
  ExprTexts      \* expressions the parser of expr.rs is to read

VARIABLES tokens, origin, language, at, parsed

parseVars == <<tokens, origin, language, at, parsed>>

(***************************************************************************)
(* Tokens, and results: what was got and where to go on, 0 for an error.   *)
(***************************************************************************)
Kw(word) == <<"kw", word>>
Sym(sign) == <<"sym", sign>>
Id(name) == <<"id", name>>
IntTok(n) == <<"int", n>>
Eof == <<"eof", "">>

Peek(p) == IF p \in DOMAIN tokens THEN tokens[p] ELSE Eof
Is(p, kind) == Peek(p)[1] = kind

Got(p, x) == [at |-> p, got |-> x]
Fail == Got(0, "error")
Then(r, More(_, _)) == IF r.at = 0 THEN r ELSE More(r.at, r.got)
\* What was got, if the token tok follows it.
Closed(r, tok) == IF r.at # 0 /\ Peek(r.at) = tok THEN Got(r.at + 1, r.got) ELSE Fail

Precedence == [or |-> 1, and |-> 2, eq |-> 3, ne |-> 3, lt |-> 3, le |-> 3, gt |-> 3, ge |-> 3,
               add |-> 4, sub |-> 4, mul |-> 5, div |-> 5, mod |-> 5]
Signs == [eq |-> "=", ne |-> "<>", lt |-> "<", le |-> "<=", gt |-> ">", ge |-> ">=",
          add |-> "+", sub |-> "-", mul |-> "*", div |-> "/", mod |-> "%"]
OpToken(op) == IF op \in LogicOps THEN Kw(op) ELSE Sym(Signs[op])
BinOps(p) == {op \in DOMAIN Precedence : OpToken(op) = Peek(p)}
TheOp(p) == CHOOSE op \in BinOps(p) : TRUE

AggWords == {"count", "sum", "avg", "min", "max"}
Literals == [true |-> BoolOf(TRUE), false |-> BoolOf(FALSE), null |-> Null]
Star == Node("star", "", <<>>)

(***************************************************************************)
(* Expressions of sql.rs.                                                  *)
(***************************************************************************)
ParseIdent(p) == IF Is(p, "id") THEN Got(p + 1, Peek(p)[2]) ELSE Fail

\* parse_column_or_call: a name, a qualified name, or all columns of a table.
ParseColumn(p) ==
  Then(ParseIdent(p), LAMBDA q, name :
    IF Peek(q) # Sym(".") THEN Got(q, Col(name))
    ELSE IF Peek(q + 1) = Sym("*") THEN Got(q + 2, Node("qualified", <<name, "*">>, <<>>))
    ELSE Then(ParseIdent(q + 1), LAMBDA r, col : Got(r, Node("qualified", <<name, col>>, <<>>))))

RECURSIVE ParseExpr(_, _), ParsePrefix(_), Climb(_, _, _), Parts(_, _, _)

\* Parts between commas, and up to a closing parenthesis.
Enclosed(kind, p) == Closed(Parts(kind, p, <<>>), Sym(")"))

\* parse_expr: a prefix, then postfixes and operators of at least minBp.
ParseExpr(p, minBp) == Then(ParsePrefix(p), LAMBDA q, lhs : Climb(lhs, q, minBp))

Climb(lhs, p, minBp) ==
  CASE Peek(p) = Kw("is") ->
         LET negated == Peek(p + 1) = Kw("not")
             q == IF negated THEN p + 2 ELSE p + 1
         IN  IF Peek(q) = Kw("null") THEN Climb(Node("isnull", negated, <<lhs>>), q + 1, minBp) ELSE Fail
    [] Peek(p) = Kw("like") ->
         Then(ParsePrefix(p + 1), LAMBDA q, rhs : Climb(Node("like", 0, <<lhs, rhs>>), q, minBp))
    [] Peek(p) = Kw("between") ->
         Then(Closed(ParseExpr(p + 1, 3), Kw("and")), LAMBDA q, lo :
           Then(ParseExpr(q, 3), LAMBDA r, hi : Climb(Node("between", 0, <<lhs, lo, hi>>), r, minBp)))
    [] Peek(p) = Kw("in") ->
         IF Peek(p + 1) # Sym("(") THEN Fail
         ELSE Then(Enclosed("expr", p + 2), LAMBDA q, list : Climb(Node("in", 0, <<lhs>> \o list), q, minBp))
    [] BinOps(p) # {} /\ Precedence[TheOp(p)] >= minBp ->
         Then(ParseExpr(p + 1, Precedence[TheOp(p)] + 1), LAMBDA q, rhs :
           Climb(Binary(TheOp(p), lhs, rhs), q, minBp))
    [] OTHER -> Got(p, lhs)

ParseAggregate(p) ==
  LET distinct == Peek(p + 2) = Kw("distinct")
      q == IF distinct THEN p + 3 ELSE p + 2
      arg == IF Peek(q) = Sym("*") THEN Got(q + 1, Star) ELSE ParseExpr(q, 0)
  IN  IF Peek(p + 1) # Sym("(") THEN Fail
      ELSE Then(Closed(arg, Sym(")")), LAMBDA r, e : Got(r, Node("agg", <<Peek(p)[2], distinct>>, <<e>>)))

ParsePrefix(p) ==
  CASE Peek(p) = Sym("-") -> Then(ParsePrefix(p + 1), LAMBDA q, e : Got(q, Unary("neg", e)))
    [] Peek(p) = Kw("not") -> Then(ParseExpr(p + 1, 2), LAMBDA q, e : Got(q, Unary("not", e)))
    [] Peek(p) = Sym("(") -> Closed(ParseExpr(p + 1, 0), Sym(")"))
    [] Is(p, "int") -> Got(p + 1, Lit(IntOf(Peek(p)[2])))
    [] Is(p, "kw") /\ Peek(p)[2] \in DOMAIN Literals -> Got(p + 1, Lit(Literals[Peek(p)[2]]))
    [] Is(p, "kw") /\ Peek(p)[2] \in AggWords -> ParseAggregate(p)
    [] Is(p, "id") -> ParseColumn(p)
    [] OTHER -> Fail

(***************************************************************************)
(* Statements of sql.rs, from the parts they are made of.                  *)
(***************************************************************************)
ParseAlias(p) ==
  IF Peek(p) = Kw("as") \/ Is(p, "id")
  THEN Then(ParseIdent(IF Is(p, "id") THEN p ELSE p + 1), LAMBDA q, name : Got(q, <<name>>))
  ELSE Got(p, <<>>)

ParseItem(p) ==
  IF Peek(p) = Sym("*") THEN Got(p + 1, [expr |-> Star, alias |-> <<>>])
  ELSE Then(ParseExpr(p, 0), LAMBDA q, e :
         Then(ParseAlias(q), LAMBDA r, alias : Got(r, [expr |-> e, alias |-> alias])))

ParseOrder(p) ==
  Then(ParseExpr(p, 0), LAMBDA q, e :
    Got(IF Peek(q) \in {Kw("asc"), Kw("desc")} THEN q + 1 ELSE q,
        [expr |-> e, ascending |-> Peek(q) # Kw("desc")]))

ParseAssignment(p) ==
  Then(Closed(ParseIdent(p), Sym("=")), LAMBDA q, col :
    Then(ParseExpr(q, 0), LAMBDA r, e : Got(r, <<col, e>>)))

ParseRow(p) == IF Peek(p) = Sym("(") THEN Enclosed("expr", p + 1) ELSE Fail

RECURSIVE ColumnFlags(_, _)
ColumnFlags(p, column) ==
  CASE Peek(p) = Kw("not") ->
         IF Peek(p + 1) = Kw("null") THEN ColumnFlags(p + 2, [column EXCEPT !.notNull = TRUE]) ELSE Fail
    [] Peek(p) = Id("primary") ->
         ColumnFlags(IF Peek(p + 1) = Id("key") THEN p + 2 ELSE p + 1,
                     [column EXCEPT !.notNull = TRUE, !.primaryKey = TRUE])
    [] OTHER -> Got(p, column)

ParseColumnSpec(p) ==
  Then(ParseIdent(p), LAMBDA q, name :
    IF Peek(q) \in {Kw(k) : k \in {"int", "real", "text", "bool"}}
    THEN ColumnFlags(q + 1, [name |-> name, type |-> Peek(q)[2], notNull |-> FALSE, primaryKey |-> FALSE])
    ELSE Fail)

ParsePart(kind, p) ==
  CASE kind = "item" -> ParseItem(p)
    [] kind = "expr" -> ParseExpr(p, 0)
    [] kind = "order" -> ParseOrder(p)
    [] kind = "assignment" -> ParseAssignment(p)
    [] kind = "row" -> ParseRow(p)
    [] kind = "name" -> ParseIdent(p)
    [] kind = "column" -> ParseColumnSpec(p)

Parts(kind, p, list) ==
  Then(ParsePart(kind, p), LAMBDA q, part :
    IF Peek(q) = Sym(",") THEN Parts(kind, q + 1, Append(list, part)) ELSE Got(q, Append(list, part)))

\* A clause that may be missing: its parts behind the words that begin it.
Clause(words, kind, p) ==
  CASE Peek(p) # Kw(words[1]) -> Got(p, <<>>)
    [] Len(words) = 2 /\ Peek(p) = Kw(words[1]) ->
         IF Peek(p + 1) = Kw(words[2]) THEN Parts(kind, p + 2, <<>>) ELSE Fail
    [] Len(words) = 1 /\ Peek(p) = Kw(words[1]) ->
         Then(ParsePart(kind, p + 1), LAMBDA q, part : Got(q, <<part>>))

Count(word, p) ==
  CASE Peek(p) # Kw(word) -> Got(p, <<>>)
    [] Peek(p) = Kw(word) -> IF Is(p + 1, "int") THEN Got(p + 2, <<Peek(p + 1)[2]>>) ELSE Fail

JoinWords(p) == IF Peek(p) \in {Kw("inner"), Kw("left")} THEN <<Peek(p), Kw("join")>> ELSE <<Kw("join")>>
ParseJoin(p) ==
  LET words == JoinWords(p)
      q == p + Len(words)
  IN  IF \E i \in DOMAIN words : Peek(p + i - 1) # words[i] THEN Fail
      ELSE Then(ParseIdent(q), LAMBDA r, table :
             Then(Closed(ParseAlias(r), Kw("on")), LAMBDA s, alias :
               Then(ParseExpr(s, 0), LAMBDA t, on :
                 Got(t, [kind |-> IF Peek(p) = Kw("left") THEN "left" ELSE "inner",
                         table |-> table, alias |-> alias, on |-> on]))))
RECURSIVE Joins(_, _)
Joins(p, list) ==
  IF Peek(p) \notin {Kw("join"), Kw("inner"), Kw("left")} THEN Got(p, list)
  ELSE Then(ParseJoin(p), LAMBDA q, join : Joins(q, Append(list, join)))

NoSource == [from |-> <<>>, alias |-> <<>>, joins |-> <<>>]
ParseSource(p) ==
  IF Peek(p) # Kw("from") THEN Got(p, NoSource)
  ELSE Then(ParseIdent(p + 1), LAMBDA q, table :
         Then(ParseAlias(q), LAMBDA r, alias :
           Then(Joins(r, <<>>), LAMBDA s, joins :
             Got(s, [from |-> <<table>>, alias |-> alias, joins |-> joins]))))

ParseSelect(p) ==
  LET distinct == Peek(p + 1) = Kw("distinct")
  IN  Then(Parts("item", IF distinct THEN p + 2 ELSE p + 1, <<>>), LAMBDA p1, items :
      Then(ParseSource(p1), LAMBDA p2, source :
      Then(Clause(<<"where">>, "expr", p2), LAMBDA p3, filter :
      Then(Clause(<<"group", "by">>, "expr", p3), LAMBDA p4, groupBy :
      Then(Clause(<<"having">>, "expr", p4), LAMBDA p5, having :
      Then(Clause(<<"order", "by">>, "order", p5), LAMBDA p6, orderBy :
      Then(Count("limit", p6), LAMBDA p7, limit :
      Then(Count("offset", p7), LAMBDA p8, offset :
        Got(p8, [stmt |-> "select", distinct |-> distinct, items |-> items, source |-> source,
                 filter |-> filter, groupBy |-> groupBy, having |-> having, orderBy |-> orderBy,
                 limit |-> limit, offset |-> offset])))))))))

ParseInsert(p) ==
  IF Peek(p + 1) # Kw("into") THEN Fail
  ELSE Then(ParseIdent(p + 2), LAMBDA q, table :
         Then(Closed(IF Peek(q) = Sym("(") THEN Enclosed("name", q + 1) ELSE Got(q, <<>>), Kw("values")),
              LAMBDA r, columns :
           Then(Parts("row", r, <<>>), LAMBDA s, rows :
             Got(s, [stmt |-> "insert", table |-> table, columns |-> columns, rows |-> rows]))))

ParseUpdate(p) ==
  Then(Closed(ParseIdent(p + 1), Kw("set")), LAMBDA q, table :
    Then(Parts("assignment", q, <<>>), LAMBDA r, assignments :
      Then(Clause(<<"where">>, "expr", r), LAMBDA s, filter :
        Got(s, [stmt |-> "update", table |-> table, assignments |-> assignments, filter |-> filter]))))

ParseDelete(p) ==
  IF Peek(p + 1) # Kw("from") THEN Fail
  ELSE Then(ParseIdent(p + 2), LAMBDA q, table :
         Then(Clause(<<"where">>, "expr", q), LAMBDA r, filter :
           Got(r, [stmt |-> "delete", table |-> table, filter |-> filter])))

ParseCreate(p) ==
  IF Peek(p + 1) # Kw("table") THEN Fail
  ELSE Then(Closed(ParseIdent(p + 2), Sym("(")), LAMBDA q, name :
         Then(Enclosed("column", q), LAMBDA r, columns :
           Got(r, [stmt |-> "create", name |-> name, columns |-> columns])))

ParseDrop(p) ==
  IF Peek(p + 1) # Kw("table") THEN Fail
  ELSE Then(ParseIdent(p + 2), LAMBDA q, name : Got(q, [stmt |-> "drop", name |-> name]))

\* parse_statement, with the semicolon that may follow.
Terminated(r) == IF r.at # 0 /\ Peek(r.at) = Sym(";") THEN Got(r.at + 1, r.got) ELSE r
ParseStatement(p) ==
  Terminated(CASE Peek(p) = Kw("select") -> ParseSelect(p)
               [] Peek(p) = Kw("insert") -> ParseInsert(p)
               [] Peek(p) = Kw("update") -> ParseUpdate(p)
               [] Peek(p) = Kw("delete") -> ParseDelete(p)
               [] Peek(p) = Kw("create") -> ParseCreate(p)
               [] Peek(p) = Kw("drop") -> ParseDrop(p)
               [] OTHER -> Fail)

(***************************************************************************)
(* Expressions of expr.rs: or, and, not, comparison, sum, product, sign.   *)
(***************************************************************************)
\* Fault: AND and OR are of one precedence.
LevelsMerged == <<LogicOps, {}, {}, CompareOps, {"add", "sub"}, {"mul", "div", "mod"}>>

Levels == <<{"or"}, {"and"}, {}, CompareOps, {"add", "sub"}, {"mul", "div", "mod"}>>

RECURSIVE Level(_, _), Fold(_, _, _), Signed(_), Atom(_), Args(_, _)
Level(n, p) ==
  CASE n = 3 /\ Peek(p) = Kw("not") -> Then(Level(3, p + 1), LAMBDA q, e : Got(q, Unary("not", e)))
    [] n = 3 /\ Peek(p) # Kw("not") -> Level(4, p)
    [] n = 7 -> Signed(p)
    [] OTHER -> Then(Level(n + 1, p), LAMBDA q, lhs : Fold(n, lhs, q))

\* The operators of one level from left to right; one comparison at most.
Fold(n, lhs, p) ==
  IF BinOps(p) \cap Levels[n] = {} THEN Got(p, lhs)
  ELSE Then(Level(n + 1, p + 1), LAMBDA q, rhs :
         LET e == Binary(TheOp(p), lhs, rhs) IN IF n = 4 THEN Got(q, e) ELSE Fold(n, e, q))

Signed(p) ==
  CASE Peek(p) = Sym("-") -> Then(Signed(p + 1), LAMBDA q, e : Got(q, Unary("neg", e)))
    [] Peek(p) = Sym("+") -> Signed(p + 1)
    [] OTHER -> Atom(p)

Args(p, list) ==
  Then(Level(1, p), LAMBDA q, e : IF Peek(q) = Sym(",") THEN Args(q + 1, Append(list, e))
                                  ELSE Got(q, Append(list, e)))

\* A token that nothing else fits is a column name, whatever it is.
Atom(p) ==
  CASE Is(p, "eof") -> Fail
    [] Peek(p) = Sym("(") -> Closed(Level(1, p + 1), Sym(")"))
    [] Is(p, "int") -> Got(p + 1, Lit(IntOf(Peek(p)[2])))
    [] Is(p, "kw") /\ Peek(p)[2] \in DOMAIN Literals -> Got(p + 1, Lit(Literals[Peek(p)[2]]))
    [] Peek(p + 1) = Sym("(") ->
         Then(IF Peek(p + 2) = Sym(")") THEN Got(p + 3, <<>>) ELSE Closed(Args(p + 2, <<>>), Sym(")")),
              LAMBDA q, args : Got(q, Node("call", Peek(p)[2], args)))
    [] OTHER -> Got(p + 1, Col(Peek(p)[2]))

\* parse: nothing may follow the expression.
ParseText == LET r == Level(1, 1) IN IF r.at = Len(tokens) + 1 THEN r ELSE Fail

(***************************************************************************)
(* Trees written as tokens, with the parentheses the precedence asks for.  *)
(***************************************************************************)
LevelOf(e) == CASE e[1] = "binary" -> Precedence[e[2]]
                [] e[1] = "unary" /\ e[2] = "not" -> 1
                [] e[1] = "between" -> 3
                [] e[1] \in {"isnull", "like", "in"} -> 6
                [] OTHER -> 7
LitTokens(v) == IF Kind(v) = "int" THEN <<IntTok(v[2])>>
                ELSE <<Kw(CHOOSE w \in DOMAIN Literals : Literals[w] = v)>>
RECURSIVE Write(_, _, _)
\* In sql.rs a NOT reaches over AND, in expr.rs it ends before a comparison does.
Write(lang, e, demanded) ==
  LET sub(i, n) == Write(lang, e[3][i], n)
      level == IF lang = "expr" /\ e[1] = "unary" /\ e[2] = "not" THEN 3 ELSE LevelOf(e)
      listed(from) == FoldLeft(LAMBDA acc, i : acc \o <<Sym(IF i = from THEN "(" ELSE ",")>> \o sub(i, 0),
                               <<>>, [i \in 1 .. Len(e[3]) - from + 1 |-> i + from - 1]) \o <<Sym(")")>>
      operands == IF e[2] \in CompareOps THEN <<4, 4>> ELSE <<Precedence[e[2]], Precedence[e[2]] + 1>>
      body ==
        CASE e[1] = "lit" -> LitTokens(e[2])
          [] e[1] = "col" -> <<Id(e[2])>>
          [] e[1] = "star" -> <<Sym("*")>>
          [] e[1] = "qualified" -> <<Id(e[2][1]), Sym("."), IF e[2][2] = "*" THEN Sym("*") ELSE Id(e[2][2])>>
          [] e[1] = "unary" -> IF e[2] = "neg" THEN <<Sym("-")>> \o sub(1, 7)
                               ELSE <<Kw("not")>> \o sub(1, IF lang = "sql" THEN 2 ELSE 3)
          [] e[1] = "binary" -> sub(1, operands[1]) \o <<OpToken(e[2])>> \o sub(2, operands[2])
          [] e[1] = "isnull" -> sub(1, 6) \o <<Kw("is")>> \o (IF e[2] THEN <<Kw("not")>> ELSE <<>>) \o <<Kw("null")>>
          [] e[1] = "like" -> sub(1, 6) \o <<Kw("like")>> \o sub(2, 7)
          [] e[1] = "between" -> sub(1, 6) \o <<Kw("between")>> \o sub(2, 3) \o <<Kw("and")>> \o sub(3, 3)
          [] e[1] = "in" -> sub(1, 6) \o <<Kw("in")>> \o listed(2)
          [] e[1] = "agg" -> <<Kw(e[2][1]), Sym("(")>> \o (IF e[2][2] THEN <<Kw("distinct")>> ELSE <<>>)
                             \o sub(1, 0) \o <<Sym(")")>>
          [] e[1] = "call" -> <<Id(e[2])>> \o (IF e[3] = <<>> THEN <<Sym("("), Sym(")")>> ELSE listed(1))
  IN  IF level < demanded THEN <<Sym("(")>> \o body \o <<Sym(")")>> ELSE body

Sql(e) == Write("sql", e, 0)
\* Parts with commas between them, and clauses with their words in front.
Spread(list, Written(_)) ==
  FoldLeft(LAMBDA acc, x : (IF acc = <<>> THEN <<>> ELSE Append(acc, Sym(","))) \o Written(x), <<>>, list)
Behind(words, list, Written(_)) == IF list = <<>> THEN <<>> ELSE words \o Spread(list, Written)
AsName(alias) == IF alias = <<>> THEN <<>> ELSE <<Kw("as"), Id(alias[1])>>
ItemTokens(i) == Sql(i.expr) \o AsName(i.alias)
OrderTokens(o) == Sql(o.expr) \o <<Kw(IF o.ascending THEN "asc" ELSE "desc")>>
JoinTokens(j) == (IF j.kind = "left" THEN <<Kw("left"), Kw("join")>> ELSE <<Kw("join")>>) \o <<Id(j.table)>>
                 \o AsName(j.alias) \o <<Kw("on")>> \o Sql(j.on)
SourceTokens(s) == IF s.from = <<>> THEN <<>>
                   ELSE <<Kw("from"), Id(s.from[1])>> \o AsName(s.alias)
                        \o FoldLeft(LAMBDA acc, j : acc \o JoinTokens(j), <<>>, s.joins)
RowTokens(row) == <<Sym("(")>> \o Spread(row, Sql) \o <<Sym(")")>>
NameTokens(name) == <<Id(name)>>
ColumnTokens(c) == <<Id(c.name), Kw(c.type)>> \o (IF c.primaryKey THEN <<Id("primary"), Id("key")>>
                                                 ELSE IF c.notNull THEN <<Kw("not"), Kw("null")>> ELSE <<>>)
StatementTokens(s) ==
  LET where == Behind(<<Kw("where")>>, s.filter, Sql)
  IN  CASE s.stmt = "select" ->
             <<Kw("select")>> \o (IF s.distinct THEN <<Kw("distinct")>> ELSE <<>>) \o Spread(s.items, ItemTokens)
             \o SourceTokens(s.source) \o where \o Behind(<<Kw("group"), Kw("by")>>, s.groupBy, Sql)
             \o Behind(<<Kw("having")>>, s.having, Sql) \o Behind(<<Kw("order"), Kw("by")>>, s.orderBy, OrderTokens)
             \o Behind(<<Kw("limit")>>, s.limit, LAMBDA n : <<IntTok(n)>>)
             \o Behind(<<Kw("offset")>>, s.offset, LAMBDA n : <<IntTok(n)>>)
        [] s.stmt = "insert" ->
             <<Kw("insert"), Kw("into"), Id(s.table)>>
             \o (IF s.columns = <<>> THEN <<>> ELSE <<Sym("(")>> \o Spread(s.columns, NameTokens) \o <<Sym(")")>>)
             \o Behind(<<Kw("values")>>, s.rows, RowTokens)
        [] s.stmt = "update" ->
             <<Kw("update"), Id(s.table)>>
             \o Behind(<<Kw("set")>>, s.assignments, LAMBDA a : <<Id(a[1]), Sym("=")>> \o Sql(a[2])) \o where
        [] s.stmt = "delete" -> <<Kw("delete"), Kw("from"), Id(s.table)>> \o where
        [] s.stmt = "create" -> <<Kw("create"), Kw("table"), Id(s.name), Sym("(")>>
                                \o Spread(s.columns, ColumnTokens) \o <<Sym(")")>>
        [] s.stmt = "drop" -> <<Kw("drop"), Kw("table"), Id(s.name)>>
ScriptTokens(stmts) == FoldLeft(LAMBDA acc, s : acc \o StatementTokens(s) \o <<Sym(";")>>, <<>>, stmts)

(***************************************************************************)
(* The tokens of a script or an expression, or the same less one of them.  *)
(***************************************************************************)
Without(seq, i) == SubSeq(seq, 1, i - 1) \o SubSeq(seq, i + 1, Len(seq))

ParseInit ==
  /\ \/ language = "sql" /\ \E s \in Scripts : origin = s /\ tokens = ScriptTokens(s)
     \/ language = "sql" /\ \E s \in Scripts : /\ origin = <<>>
                                              /\ \E i \in DOMAIN ScriptTokens(s) : tokens = Without(ScriptTokens(s), i)
     \/ language = "expr" /\ \E e \in ExprTexts : origin = <<e>> /\ tokens = Write("expr", e, 0)
  /\ at = 1 /\ parsed = <<>>

\* parse_script: statement by statement, up to an error.
ParseNextStatement ==
  /\ language = "sql" /\ at # 0 /\ Peek(at) # Eof
  /\ \E r \in {ParseStatement(at)} :
       /\ at' = r.at
       /\ parsed' = IF r.at = 0 THEN parsed ELSE Append(parsed, r.got)
  /\ UNCHANGED <<tokens, origin, language>>

ParseExpression ==
  /\ language = "expr" /\ at = 1 /\ parsed = <<>>
  /\ at' = ParseText.at
  /\ parsed' = <<ParseText.got>>
  /\ UNCHANGED <<tokens, origin, language>>

ParseNext == ParseNextStatement \/ ParseExpression

\* The tokens that carry content; the others may be written or left out.
Noise == {Sym("("), Sym(")"), Sym(";"), Kw("as"), Kw("asc"), Kw("inner"), Id("key")}
Content(toks) == SelectSeq(toks, LAMBDA t : t \notin Noise)

(***************************************************************************)
(* A tree written as text with no more parentheses than the precedence of  *)
(* its operators asks for is parsed to the same tree, by either parser;    *)
(* and a script that is accepted, though a token is missing, parses to     *)
(* statements that hold all of its content in its order: no token is       *)
(* skipped, made up or taken twice.                                        *)
(***************************************************************************)
ParsersRebuildTrees ==
  /\ at # 0 /\ Peek(at) = Eof /\ parsed # <<>> =>
       /\ origin # <<>> => parsed = origin
       /\ language = "sql" => Content(ScriptTokens(parsed)) = Content(tokens)
  /\ origin # <<>> => at # 0
=============================================================================
