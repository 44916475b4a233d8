---------------------------- MODULE Constraints ----------------------------
(***************************************************************************)
(* What one statement tells width inference (instruction.rs,               *)
(* `SizeInference::statement`, `constrain_*`, `live_locals`): the widths   *)
(* its operands have by the way they are used, and the locals it names.    *)
(*                                                                         *)
(* The loop that feeds the statements is SizeInference, for which the      *)
(* operators AfterStatement and StatementLocals are the constants Fed and  *)
(* LocalsIn.                                                               *)
(***************************************************************************)
EXTENDS Sizing, Functions

CONSTANTS
    ConstrainExpr(_, _, _),  \* ConstrainExprByKind
    LocalsOf(_)              \* LocalsOfByKind

----------------------------------------------------------------------------
(* Constraining an expression.  The result has the widths found so far and *)
(* the width of the expression, if it is known under the constraint.       *)

Known(env, width) == [env |-> env, width |-> width]

\* `found`: records a width unless the local has one.
Found(env, id, width) ==
    IF env.sizes[id] = None THEN [env EXCEPT !.sizes[id] = width] ELSE env

\* Only for what the constraint finds in the expression's locals.
Constrain(env, e, expected) == ConstrainExpr(env, e, expected).env

ConstrainAll(env, args, expected) ==
    LET after[n \in 0 .. Len(args)] ==
          IF n = 0 THEN env ELSE Constrain(after[n - 1], args[n], expected)
    IN  after[Len(args)]

\* One more argument, if those before it have no width.
ConstrainUnlessKnown(found, arg) ==
    IF found.width # None THEN found ELSE ConstrainExpr(found.env, arg, None)

\* Constrains `args` one by one until one of them has a width.
ConstrainUntilKnown(env, args) ==
    LET after[n \in 0 .. Len(args)] ==
          IF n = 0 THEN Known(env, None)
                   ELSE ConstrainUnlessKnown(after[n - 1], args[n])
    IN  after[Len(args)]

ConstrainLocal(env, id, expected) ==
    IF env.sizes[id] # None THEN Known(env, env.sizes[id])
    ELSE IF expected # None THEN Known(Found(env, id, expected), expected)
    ELSE Known(env, None)

ConstrainPointer(env, load) ==
    LET space == LoadSpace(load)
    IN  IF space = None THEN env ELSE Constrain(env, load.ptr, AddressSize(space))

ConstrainSubPieceMsb(env, e, expected) ==
    LET size == OrElse(expected, CheckedSub(Concrete(ExprSize(env, e.src)), e.count))
        source == IF Concrete(size) = None THEN None ELSE Concrete(size) + e.count
    IN  Known(Constrain(env, e.src, source), size)

ConstrainRange(env, e, expected) ==
    LET size == IF e.bits = None THEN expected ELSE DivCeilByte(e.bits)
    IN  Known(Constrain(env, e.value, None), size)

ConstrainBuiltin(env, e, expected) ==
    LET first == ConstrainUntilKnown(env, e.args)
        size == IF e.builtin \in BooleanBuiltins THEN 1 ELSE expected
    IN  IF first.width = None THEN Known(first.env, size)
        ELSE Known(ConstrainAll(first.env, e.args, first.width), size)

ConstrainUnop(env, e, expected) ==
    CASE e.op = "BoolNegate" ->
            LET operand == ConstrainExpr(env, e.e, None)
            IN  Known(Constrain(operand.env, e.e, operand.width), 1)
      [] e.op = "AddressOf" ->
            LET storage == StorageFromExprSize(e.e)
                size == IF storage = None THEN None ELSE AddressSize(storage.space)
            IN  Known(env, OrElse(e.width, size))
      [] OTHER ->
            LET operand == IF expected # None THEN Known(env, expected)
                           ELSE ConstrainExpr(env, e.e, None)
            IN  Known(Constrain(operand.env, e.e, operand.width), operand.width)

ConstrainBinop(env, e, expected) ==
    LET first == ConstrainUntilKnown(env, <<e.lhs, e.rhs>>)
        width == IF e.op \in Boolean THEN first.width
                                     ELSE OrElse(expected, first.width)
        both == ConstrainAll(first.env, <<e.lhs, e.rhs>>, width)
    IN  Known(both, IF e.op \in Boolean THEN 1 ELSE width)

ConstrainExprByKind(env, e, expected) ==
    CASE e.kind = "SizedInt" -> Known(env, expected)
      [] e.kind = "Ident" /\ e.ident.form = "Named" ->
            ConstrainLocal(env, e.ident.id, expected)
      [] e.kind = "Ident" /\ e.ident.form # "Named" ->
            Known(env, StorageSize(env, e.ident))
      [] e.kind = "Load" ->
            Known(ConstrainPointer(env, e), OrElse(e.bytes, expected))
      [] e.kind = "SubPieceLsb" -> Known(Constrain(env, e.src, None), e.count)
      [] e.kind = "SubPieceMsb" -> ConstrainSubPieceMsb(env, e, expected)
      [] e.kind = "Range"        -> ConstrainRange(env, e, expected)
      [] e.kind = "FunctionCall" -> ConstrainBuiltin(env, e, expected)
      [] e.kind = "PcodeOp" -> Known(ConstrainAll(env, e.args, None), expected)
      [] e.kind = "Unop"         -> ConstrainUnop(env, e, expected)
      [] e.kind = "Binop"        -> ConstrainBinop(env, e, expected)
      [] e.kind = "Internal"     -> Known(env, expected)

----------------------------------------------------------------------------
(* Constraining a statement.                                               *)

\* A comparison given a width other than one byte keeps it, so that emission
\* rejects it.
ComparisonSize(e) ==
    IF e.kind = "Binop" /\ e.size # None /\ e.size # 1
    THEN IF e.op \in Comparison THEN e.size ELSE None
    ELSE None

ConstrainAssignment(env, st) ==
    LET expected == OrElse(st.size,
                      OrElse(StorageSize(env, st.lhs), ComparisonSize(st.rhs)))
        inferred == ConstrainExpr(env, st.rhs, expected)
        width == OrElse(expected, inferred.width)
    IN  IF st.lhs.form = "Named" /\ width # None
        THEN Found(inferred.env, st.lhs.id, width) ELSE inferred.env

ConstrainStatement(env, st) ==
    CASE st.kind = "Assignment" -> ConstrainAssignment(env, st)
      [] st.kind = "LoadAssignment" ->
            Constrain(ConstrainPointer(env, st.load), st.rhs, st.load.bytes)
      [] st.kind = "RangeAssignment" ->
            IF RangeKnown(st.range)
            THEN Constrain(env, st.rhs, DivCeilByte(st.range.bits)) ELSE env
      [] st.kind = "ConditionalBranch" -> Constrain(env, st.condition, 1)
      [] st.kind \in {"BranchIndirect", "CallIndirect", "Return"} ->
            Constrain(env, st.target, AddressSize(DefaultSpace))
      [] st.kind = "Expression" -> Constrain(env, st.expr, None)
      [] st.kind \in {"Internal", "Export", "Label", "Branch", "Call"} -> env

\* Faulty: the widths of table operands are dropped.
AfterUnnamed(known, st) ==
    ConstrainStatement([sizes |-> known,
                        operand |-> [t \in DOMAIN TableOperands |-> None]], st).sizes

\* The widths known after `body` is fed statement `i`, or all of it.
AfterStatement(known, st) ==
    ConstrainStatement([sizes |-> known, operand |-> TableOperands], st).sizes

----------------------------------------------------------------------------
(* Which locals a body uses (`live_locals`).                               *)

IdentLocals(ident) == IF ident.form = "Named" THEN {ident.id} ELSE {}

LocalsOfByKind(e) ==
    IF e.kind = "Ident" THEN IdentLocals(e.ident)
    ELSE UNION {LocalsOf(part) : part \in Range(Subexpressions(e))}

TargetLocals(target) == IF target.form = "Expr" THEN LocalsOf(target.expr) ELSE {}

StatementLocals(st) ==
    CASE st.kind = "Assignment" ->
            IdentLocals(st.lhs) \cup LocalsOf(st.rhs)
      [] st.kind = "LoadAssignment" -> LocalsOf(st.load.ptr) \cup LocalsOf(st.rhs)
      [] st.kind = "RangeAssignment" -> LocalsOf(st.range.value) \cup LocalsOf(st.rhs)
      [] st.kind \in {"Branch", "Call"} -> TargetLocals(st.target)
      [] st.kind = "ConditionalBranch" ->
            TargetLocals(st.target) \cup LocalsOf(st.condition)
      [] st.kind \in {"BranchIndirect", "CallIndirect", "Return"} -> LocalsOf(st.target)
      [] st.kind \in {"Expression", "Export"} -> LocalsOf(st.expr)
      [] st.kind \in {"Internal", "Label"} -> {}
============================================================================
