----------------------------- MODULE Expressions -----------------------------
(***************************************************************************)
(* Values and the two expression languages.  src/src/expr.rs evaluates its *)
(* trees directly, with errors as results and short circuits; the trees of *)
(* the SQL front end are compiled by src/src/exprvm.rs to a program for a  *)
(* stack machine, and follow three-valued logic.                           *)
(***************************************************************************)
EXTENDS Integers, Sequences, FiniteSets

(***************************************************************************)
(* The cell values of src/src/value.rs: a kind and a number.  Reals stand  *)
(* for whole numbers, a text is its dictionary id, and a Boolean is 0 or   *)
(* 1.  Rows are sequences of values, and a relation is a sequence of rows. *)
(***************************************************************************)
Null == <<"null", 0>>
BoolOf(b) == <<"bool", IF b THEN 1 ELSE 0>>
IntOf(n) == <<"int", n>>
RealOf(n) == <<"real", n>>
TextOf(id) == <<"text", id>>

Kind(v) == v[1]
IsNull(v) == v = Null

LeastOf(S) == CHOOSE x \in S : \A y \in S : x <= y
GreatestOf(S) == CHOOSE x \in S : \A y \in S : x >= y
Sign(n) == IF n < 0 THEN -1 ELSE IF n > 0 THEN 1 ELSE 0

\* as_int and as_real answer for every kind but null and text.
IsNumeric(v) == Kind(v) \in {"bool", "int", "real"}

KindRank == [null |-> 0, bool |-> 1, int |-> 2, real |-> 3, text |-> 4]

\* total_cmp as -1, 0 or 1: null first, numbers by size, other kinds by tag.
TotalCmp(a, b) ==
  IF Kind(a) = Kind(b) \/ {Kind(a), Kind(b)} = {"int", "real"}
  THEN Sign(a[2] - b[2])
  ELSE Sign(KindRank[Kind(a)] - KindRank[Kind(b)])

\* CmpOp::apply: equality is of kind and number, the others are of the order.
Apply(op, a, b) ==
  IF IsNull(a) \/ IsNull(b) THEN op = "ne"
  ELSE LET c == TotalCmp(a, b)
       IN  CASE op = "eq" -> a = b
             [] op = "ne" -> a # b
             [] op = "lt" -> c < 0
             [] op = "le" -> c <= 0
             [] op = "gt" -> c > 0
             [] op = "ge" -> c >= 0

\* Division truncates towards zero and the remainder takes the sign of x.
Quotient(x, y) == Sign(x) * Sign(y) * ((Sign(x) * x) \div (Sign(y) * y))
Remainder(x, y) == x - y * Quotient(x, y)

\* The rows in the order of Before-comparisons, equal rows as they stood.
StableSort(rows, Cmp(_, _)) ==
  LET ahead(i) == {j \in DOMAIN rows : \/ Cmp(rows[j], rows[i]) < 0
                                       \/ Cmp(rows[j], rows[i]) = 0 /\ j < i}
      at == [i \in DOMAIN rows |-> Cardinality(ahead(i)) + 1]
  IN  [k \in DOMAIN rows |-> rows[CHOOSE i \in DOMAIN rows : at[i] = k]]

\* The first k rows, and what follows them.
Upto(rows, k) == SubSeq(rows, 1, IF k < Len(rows) THEN k ELSE Len(rows))
After(rows, k) == SubSeq(rows, k + 1, Len(rows))

\* A cell that the row does not have reads as null.
Cell(row, c) == IF c \in DOMAIN row THEN row[c] ELSE Null

(***************************************************************************)
(* Trees.  A node is <<tag, detail, operands>>.                            *)
(***************************************************************************)
Node(tag, detail, operands) == <<tag, detail, operands>>
Lit(v) == Node("lit", v, <<>>)
Col(i) == Node("col", i, <<>>)
Unary(op, a) == Node("unary", op, <<a>>)
Binary(op, a, b) == Node("binary", op, <<a, b>>)
CompareOps == {"eq", "ne", "lt", "le", "gt", "ge"}
LogicOps == {"and", "or"}

(***************************************************************************)
(* expr.rs: a value or an error, operands from left to right.              *)
(***************************************************************************)
Error(what) == <<"error", what>>
Failed(v) == Kind(v) = "error"

Truthy(v) == ~IsNull(v) /\ v[2] # 0

\* arith of expr.rs: real if a side is real, an error for text.
Arith(op, l, r) ==
  IF IsNull(l) \/ IsNull(r) THEN Null
  ELSE IF ~IsNumeric(l) \/ ~IsNumeric(r) THEN Error("type")
  ELSE IF op \in {"div", "mod"} /\ r[2] = 0 THEN Error("division by zero")
  ELSE <<IF "real" \in {Kind(l), Kind(r)} THEN "real" ELSE "int",
         CASE op = "add" -> l[2] + r[2]
           [] op = "sub" -> l[2] - r[2]
           [] op = "mul" -> l[2] * r[2]
           [] op = "div" -> Quotient(l[2], r[2])
           [] op = "mod" -> Remainder(l[2], r[2])>>

\* The functions of call, by name, for the number of arguments they take.
Arity(name, n) == CASE name \in {"abs", "isnull"} -> n = 1
                    [] name = "ifnull" -> n = 2
                    [] name \in {"min", "max"} -> n >= 2
                    [] name = "coalesce" -> n >= 1

\* The first argument, or failure, that is not null.
FirstPresent(args) ==
  LET present == {i \in DOMAIN args : ~IsNull(args[i])}
  IN  IF present = {} THEN Null
      ELSE args[CHOOSE i \in present : \A j \in present : i <= j]

\* The first argument no other argument goes before, by the sign d of the order.
Extreme(args, d) ==
  args[CHOOSE i \in DOMAIN args :
         /\ \A j \in DOMAIN args : d * TotalCmp(args[j], args[i]) >= 0
         /\ \A j \in 1 .. i - 1 : TotalCmp(args[j], args[i]) # 0]

Call(name, args) ==
  IF ~Arity(name, Len(args)) THEN Error("arity")
  ELSE CASE name = "abs" ->
              IF Kind(args[1]) \in {"bool", "text"} THEN Error("type")
              ELSE <<Kind(args[1]), Sign(args[1][2]) * args[1][2]>>
         [] name = "isnull" -> BoolOf(IsNull(args[1]))
         [] name \in {"ifnull", "coalesce"} -> FirstPresent(args)
         [] name = "min" -> Extreme(args, 1)
         [] name = "max" -> Extreme(args, -1)

RECURSIVE EvalWith(_, _)
EvalWith(e, row) ==
  LET detail == e[2]
      arg(i) == EvalWith(e[3][i], row)
      after(v, w) == IF Failed(v) THEN v ELSE w
      \* Every argument in turn, up to the first that fails.
      args == [i \in DOMAIN e[3] |-> arg(i)]
      firstFailed == CHOOSE i \in DOMAIN args :
                       Failed(args[i]) /\ \A j \in 1 .. i - 1 : ~Failed(args[j])
      anyFailed == \E i \in DOMAIN args : Failed(args[i])
  IN  CASE e[1] = "lit" -> detail
        [] e[1] = "col" -> IF detail \in DOMAIN row THEN row[detail] ELSE Error("unknown column")
        [] e[1] = "binary" /\ detail \in LogicOps ->
             LET l == arg(1)
                 settled == BoolOf(detail = "or")
             IN  after(l, IF Truthy(l) = (detail = "or") THEN settled
                          ELSE LET r == arg(2) IN after(r, BoolOf(Truthy(r))))
        [] e[1] = "binary" /\ detail \notin LogicOps ->
             IF anyFailed THEN args[firstFailed]
             ELSE IF detail \in CompareOps THEN BoolOf(Apply(detail, args[1], args[2]))
             ELSE Arith(detail, args[1], args[2])
        [] e[1] = "unary" /\ detail = "not" -> LET v == arg(1) IN after(v, BoolOf(~Truthy(v)))
        [] e[1] = "unary" /\ detail = "neg" ->
             LET v == arg(1)
             IN  after(v, IF Kind(v) \in {"int", "real"} THEN <<Kind(v), -v[2]>>
                          ELSE Error("type"))
        [] e[1] = "case" ->
             LET c == arg(1) IN after(c, IF Truthy(c) THEN arg(2) ELSE arg(3))
        [] e[1] = "coalesce" -> FirstPresent(args)
        [] e[1] = "call" ->
             IF anyFailed THEN args[firstFailed] ELSE Call(detail, args)

(***************************************************************************)
(* exprvm.rs: the program of a tree, operands before their operator.       *)
(***************************************************************************)
Op(code, detail) == <<code, detail>>

RECURSIVE Emit(_)
Emit(e) ==
  LET operands == [i \in DOMAIN e[3] |-> Emit(e[3][i])]
      joined[i \in 0 .. Len(operands)] ==
        IF i = 0 THEN <<>> ELSE joined[i - 1] \o operands[i]
  IN  joined[Len(operands)] \o
      <<CASE e[1] = "lit" -> Op("const", e[2])
          [] e[1] = "col" -> Op("column", e[2])
          [] e[1] = "in" -> Op("in", Len(e[3]) - 1)
          [] e[1] \in {"unary", "binary", "isnull", "between"} -> Op(e[1], e[2])>>

\* as_bool of exprvm.rs, with unknown for what is neither.
AsBool(v) == IF Kind(v) \in {"bool", "int"} THEN BoolOf(v[2] # 0) ELSE Null

ApplyUnary(op, v) ==
  CASE op = "neg" -> IF Kind(v) \in {"int", "real"} THEN <<Kind(v), -v[2]>> ELSE Null
    [] op = "not" -> IF Kind(v) \in {"bool", "int"} THEN BoolOf(v[2] = 0) ELSE Null

\* A Boolean operand makes a real of the result; no operation fails.
VmArith(op, a, b) ==
  IF ~IsNumeric(a) \/ ~IsNumeric(b) \/ (op \in {"div", "mod"} /\ b[2] = 0) THEN Null
  ELSE <<IF Kind(a) = "int" /\ Kind(b) = "int" THEN "int" ELSE "real", Arith(op, a, b)[2]>>

\* The value that settles a connective, then the one that leaves it open.
Connective(op, a, b) ==
  LET settles == BoolOf(op = "or")
  IN  IF settles \in {AsBool(a), AsBool(b)} THEN settles
      ELSE IF Null \in {AsBool(a), AsBool(b)} THEN Null
      ELSE BoolOf(op = "and")

ApplyBinary(op, a, b) ==
  IF op \in LogicOps THEN Connective(op, a, b)
  ELSE IF IsNull(a) \/ IsNull(b) THEN Null
  ELSE IF op \in CompareOps
       THEN LET c == TotalCmp(a, b)
            IN  BoolOf(CASE op = "eq" -> c = 0 [] op = "ne" -> c # 0
                       [] op = "lt" -> c < 0 [] op = "le" -> c <= 0
                       [] op = "gt" -> c > 0 [] op = "ge" -> c >= 0)
  ELSE VmArith(op, a, b)

\* The range test is unknown when any of the three is.
InRange(v, lo, hi) ==
  IF Null \in {v, lo, hi} THEN Null ELSE BoolOf(TotalCmp(v, lo) >= 0 /\ TotalCmp(v, hi) <= 0)

\* Fault: a miss is a miss, whatever nulls there are among the items.
MemberOrNot(probe, items) ==
  IF IsNull(probe) THEN Null ELSE BoolOf(\E i \in DOMAIN items : TotalCmp(probe, items[i]) = 0)

\* A miss with a null among the items is unknown.
Member(probe, items) ==
  IF IsNull(probe) THEN Null
  ELSE IF \E i \in DOMAIN items : ~IsNull(items[i]) /\ TotalCmp(probe, items[i]) = 0
       THEN BoolOf(TRUE)
  ELSE IF \E i \in DOMAIN items : IsNull(items[i]) THEN Null
  ELSE BoolOf(FALSE)

\* The value k places below the top; a stack that is too short reads as null.
Below(stack, k) == Cell(stack, Len(stack) - k)
Popped(stack, n) == SubSeq(stack, 1, Len(stack) - n)

\* One turn of the loop of eval: the stack after instruction op.
Execute(op, stack, row) ==
  LET top == Below(stack, 0)
      push(n, v) == Append(Popped(stack, n), v)
  IN  CASE op[1] = "const" -> push(0, op[2])
        [] op[1] = "column" -> push(0, Cell(row, op[2]))
        [] op[1] = "unary" -> push(1, ApplyUnary(op[2], top))
        [] op[1] = "binary" -> push(2, ApplyBinary(op[2], Below(stack, 1), top))
        [] op[1] = "isnull" -> push(1, BoolOf(IsNull(top) # op[2]))
        [] op[1] = "between" -> push(3, InRange(Below(stack, 2), Below(stack, 1), top))
        [] op[1] = "in" ->
             push(op[2] + 1, Member(Below(stack, op[2]),
                                    [i \in 1 .. op[2] |-> Below(stack, i - 1)]))

\* eval of a whole program.
RunProgram(program, row) ==
  LET stack[k \in 0 .. Len(program)] ==
        IF k = 0 THEN <<>> ELSE Execute(program[k], stack[k - 1], row)
  IN  Below(stack[Len(program)], 0)

SqlEval(e, row) == RunProgram(Emit(e), row)
=============================================================================
