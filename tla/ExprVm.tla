------------------------------- MODULE ExprVm --------------------------------
(***************************************************************************)
(* The stack machine of src/src/exprvm.rs: eval runs the program a SQL     *)
(* expression was compiled to against a row, one instruction a step.       *)
(***************************************************************************)
EXTENDS Expressions

CONSTANTS
  SqlTrees,      \* the expressions that are compiled
  VmRows         \* the rows they are evaluated for

VARIABLES tree, inputRow, pc, stack

vmVars == <<tree, inputRow, pc, stack>>

VmInit ==
  /\ tree \in SqlTrees
  /\ inputRow \in VmRows
  /\ pc = 1 /\ stack = <<>>

Program == Emit(tree)

Step ==
  /\ pc <= Len(Program)
  /\ stack' = Execute(Program[pc], stack, inputRow)
  /\ pc' = pc + 1
  /\ UNCHANGED <<tree, inputRow>>

(***************************************************************************)
(* Three-valued logic on the tree itself, without a stack: false, unknown, *)
(* true are 0, 1, 2, and a connective is a least or greatest of them.      *)
(***************************************************************************)
Truth(v) == IF Kind(v) \in {"bool", "int"} THEN IF v[2] = 0 THEN 0 ELSE 2 ELSE 1
FromTruth(t) == CASE t = 0 -> BoolOf(FALSE) [] t = 1 -> Null [] t = 2 -> BoolOf(TRUE)

RECURSIVE SqlMeaning(_, _)
SqlMeaning(e, row) ==
  LET m == [i \in DOMAIN e[3] |-> SqlMeaning(e[3][i], row)]
      unknown == \E i \in DOMAIN m : IsNull(m[i])
      equal(i) == IF IsNull(m[1]) \/ IsNull(m[i]) THEN 1
                  ELSE IF TotalCmp(m[1], m[i]) = 0 THEN 2 ELSE 0
  IN  CASE e[1] = "lit" -> e[2]
        [] e[1] = "col" -> Cell(row, e[2])
        [] e[1] = "isnull" -> BoolOf(IF e[2] THEN ~IsNull(m[1]) ELSE IsNull(m[1]))
        [] e[1] = "unary" -> IF e[2] = "neg" THEN ApplyUnary("neg", m[1])
                             ELSE FromTruth(2 - Truth(m[1]))
        [] e[1] = "binary" /\ e[2] = "and" -> FromTruth(LeastOf({Truth(m[1]), Truth(m[2])}))
        [] e[1] = "binary" /\ e[2] = "or" -> FromTruth(GreatestOf({Truth(m[1]), Truth(m[2])}))
        [] e[1] = "in" -> FromTruth(GreatestOf({equal(i) : i \in 2 .. Len(m)}))
        [] unknown -> Null
        [] e[1] = "between" -> BoolOf(TotalCmp(m[2], m[1]) <= 0 /\ TotalCmp(m[1], m[3]) <= 0)
        [] e[1] = "binary" /\ e[2] \in CompareOps ->
             BoolOf(TotalCmp(m[1], m[2]) \in (CASE e[2] = "eq" -> {0} [] e[2] = "ne" -> {-1, 1}
                                             [] e[2] = "lt" -> {-1} [] e[2] = "le" -> {-1, 0}
                                             [] e[2] = "gt" -> {1} [] e[2] = "ge" -> {0, 1}))
        [] OTHER -> VmArith(e[2], m[1], m[2])

(***************************************************************************)
(* A program that has run leaves one value on the stack: what the tree     *)
(* means under three-valued logic, whatever the order its operands were    *)
(* pushed and popped in.                                                   *)
(***************************************************************************)
MachineMeansTree == pc > Len(Program) => stack = <<SqlMeaning(tree, inputRow)>>
=============================================================================
