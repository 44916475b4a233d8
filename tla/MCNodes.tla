------------------------------ MODULE MCNodes ------------------------------
(***************************************************************************)
(* The expressions of a set of statements, for an instance: what Depth is, *)
(* and the values of the constants that close the recursion of sizing and  *)
(* constraining.  TLC's statistics follow a constant into its value and    *)
(* would follow a recursive one for ever; they do not look into a LET.     *)
(***************************************************************************)
EXTENDS Constraints, FiniteSetsExt

MCExprSize(env, e) == LET size == ExprSizeByKind(env, e) IN size

MCConstrainExpr(env, e, expected) ==
    LET constrained == ConstrainExprByKind(env, e, expected) IN constrained

MCLocalsOf(e) == LET locals == LocalsOfByKind(e) IN locals

TargetExpressions(target) == IF target.form = "Expr" THEN {target.expr} ELSE {}

StatementExpressions(st) ==
    CASE st.kind = "Assignment"      -> {st.rhs}
      [] st.kind = "LoadAssignment"  -> {st.load, st.rhs}
      [] st.kind = "RangeAssignment" -> {st.range, st.rhs}
      [] st.kind \in {"Branch", "Call"} -> TargetExpressions(st.target)
      [] st.kind = "ConditionalBranch" ->
            {st.condition} \cup TargetExpressions(st.target)
      [] st.kind \in {"BranchIndirect", "CallIndirect", "Return"} -> {st.target}
      [] st.kind \in {"Expression", "Export"} -> {st.expr}
      [] OTHER                       -> {}

Parts(e) == {Subexpressions(e)[n] : n \in DOMAIN Subexpressions(e)}
WithParts(exprs) == exprs \cup UNION {Parts(e) : e \in exprs}

\* No statement nests expressions deeper than five.
ExpressionsOf(sts) ==
    WithParts(WithParts(WithParts(WithParts(UNION {StatementExpressions(st) : st \in sts}))))

Depths(exprs) ==
    LET depth[e \in exprs] == 1 + Max({0} \cup {depth[part] : part \in Parts(e)})
    IN  depth
============================================================================
