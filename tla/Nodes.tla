------------------------------- MODULE Nodes -------------------------------
(***************************************************************************)
(* The nodes a producer may hand to the passes (streaming.rs, `ExprKind`,  *)
(* `StmtKind`, `TargetNode`): what each kind of node holds, by its Rust    *)
(* type, and how expressions nest.                                         *)
(*                                                                         *)
(* The passes recur over an expression.  Each function that does is here   *)
(* an operator constant (ExprSize, LowerExpr, ...), and its body a         *)
(* definition that calls the constant for the node's parts                 *)
(* (ExprSizeByKind, LowerExprByKind, ...).  An instance gives the constant *)
(* that definition, which closes the recursion; a theorem has that they    *)
(* agree on Expressions as its hypothesis.                                 *)
(***************************************************************************)
EXTENDS LoweringContext

CONSTANTS
    Depth,         \* expression -> how deep it nests
    TableOperands  \* what `Width::operand` names: table -> width or None

\* The expressions there are, with all their parts.
Expressions == DOMAIN Depth

\* A number of bytes or bits, or none.
Count == Nat \cup {None}

Subexpressions(e) ==
    CASE e.kind = "Load"         -> <<e.ptr>>
      [] e.kind = "Range"        -> <<e.value>>
      [] e.kind \in {"SubPieceMsb", "SubPieceLsb"} -> <<e.src>>
      [] e.kind \in {"FunctionCall", "PcodeOp", "Internal"} -> e.args
      [] e.kind = "Unop"         -> <<e.e>>
      [] e.kind = "Binop"        -> <<e.lhs, e.rhs>>
      [] OTHER                   -> <<>>

IsIdent(ident) ==
    /\ ident.form \in {"Register", "BitRange", "Named", "Table", "Field"}
    /\ ident.form = "Named" => ident.id \in Local
    /\ ident.form = "Table" => ident.id \in DOMAIN TableOperands

\* What a node of each kind holds besides other expressions.
IsExpression(e) ==
    /\ e.size \in Count
    /\ \/ e.kind = "SizedInt" /\ e.literal \in Count
       \/ e.kind = "Ident" /\ IsIdent(e.ident)
       \/ e.kind = "Load" /\ e.bytes \in Count
       \/ e.kind \in {"SubPieceMsb", "SubPieceLsb"} /\ e.count \in Nat
       \/ e.kind = "Range" /\ {e.start, e.bits} \subseteq Count
       \/ e.kind = "FunctionCall" /\ e.builtin \in Builtins
       \/ e.kind \in {"PcodeOp", "Internal"}
       \/ e.kind = "Unop" /\ e.op \in UnaryOperators /\ e.width \in Count
       \/ e.kind = "Binop" /\ e.op \in BinaryOperators

\* An expression's parts are expressions, which nest less deep.
ASSUME ExpressionsAssumption ==
    \A e \in Expressions :
       /\ IsExpression(e)
       /\ Depth[e] \in Nat
       /\ Subexpressions(e) \in Seq(Expressions)
       /\ \A n \in DOMAIN Subexpressions(e) : Depth[Subexpressions(e)[n]] < Depth[e]

\* A target is a label, an expression or a node no producer resolved.
IsTarget(target) ==
    /\ target.form \in {"Label", "Expr", "Node"}
    /\ target.form = "Expr" => target.expr \in Expressions

IsStatement(st) ==
    \/ /\ st.kind = "Assignment"
       /\ IsIdent(st.lhs) /\ st.size \in Count /\ st.rhs \in Expressions
    \/ /\ st.kind = "LoadAssignment"
       /\ st.load \in Expressions /\ st.load.kind = "Load" /\ st.rhs \in Expressions
    \/ /\ st.kind = "RangeAssignment"
       /\ st.range \in Expressions /\ st.range.kind = "Range" /\ st.rhs \in Expressions
    \/ st.kind \in {"Branch", "Call"} /\ IsTarget(st.target)
    \/ /\ st.kind = "ConditionalBranch"
       /\ IsTarget(st.target) /\ st.condition \in Expressions
    \/ /\ st.kind \in {"BranchIndirect", "CallIndirect", "Return"}
       /\ st.target \in Expressions
    \/ st.kind \in {"Expression", "Export"} /\ st.expr \in Expressions
    \/ st.kind \in {"Label", "Internal"}

\* What a context answers.
ASSUME ContextAssumption ==
    /\ \A id \in DOMAIN Registers :
          /\ Registers[id].space # UniqueSpace
          /\ Registers[id].offset \in Nat /\ Registers[id].size \in Nat \ {0}
    /\ \A id \in DOMAIN BitRanges :
          /\ BitRanges[id].storage # None
          /\ BitRanges[id].storage.space # UniqueSpace
          /\ BitRanges[id].storage.offset \in Nat
          /\ BitRanges[id].storage.size \in Nat \ {0}
          /\ BitRanges[id].start \in Nat /\ BitRanges[id].bits \in Nat
    /\ \A space \in DOMAIN AddressSizes : AddressSizes[space] \in Count
    /\ DOMAIN AddressSizes \subseteq DOMAIN SpaceNumbers
    /\ UniqueSpace \notin {ConstSpace, DefaultSpace}
============================================================================
