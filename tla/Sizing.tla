------------------------------- MODULE Sizing -------------------------------
(***************************************************************************)
(* The width and space queries that inference and emission share           *)
(* (instruction.rs, trait `Sizing`).  An `env` says what one phase knows:  *)
(* env.sizes maps each local to its width or None, and env.operand maps    *)
(* each table operand to the width that names its export, or None in the   *)
(* concrete domain.  A width is a number of bytes or one of those names.   *)
(***************************************************************************)
EXTENDS Nodes

CONSTANTS
    OperandWidths,   \* the symbolic widths: "the width table t exports"
    ExprSize(_, _)   \* ExprSizeByKind

ASSUME NoneAssumption == None \notin OperandWidths \cup Nat
ASSUME OperandsAssumption ==
    TableOperands \in [DOMAIN TableOperands -> OperandWidths \cup {None}]

\* `Width::size`: a concrete width's bytes; a symbolic width has none.
Concrete(width) == IF width \in OperandWidths THEN None ELSE width

StorageSize(env, ident) ==
    CASE ident.form = "Register" ->
            IF RegisterVarnode(ident.id) = None THEN None
            ELSE RegisterVarnode(ident.id).size
      [] ident.form = "BitRange" ->
            IF BitRangeInfo(ident.id) = None THEN None
            ELSE DivCeilByte(BitRangeInfo(ident.id).bits)
      [] ident.form = "Named" -> env.sizes[ident.id]
      [] ident.form = "Table" -> env.operand[ident.id]
      [] ident.form = "Field" -> None

\* The width of an expression, as far as its shape and `env` tell.  The width
\* the producer gave a node wins, except that a truncation whose source has
\* no known width, or too few bytes, has none at all: `expr_size` returns
\* early from the eagerly evaluated alternative.
ExprSizeByKind(env, e) ==
    LET Truncated == CheckedSub(Concrete(ExprSize(env, e.src)), e.count)
        Shape ==
          CASE e.kind = "SizedInt"     -> e.literal
            [] e.kind = "Ident"        -> StorageSize(env, e.ident)
            [] e.kind = "Load"         -> e.bytes
            [] e.kind = "SubPieceLsb"  -> e.count
            [] e.kind = "Range"        -> DivCeilByte(e.bits)
            [] e.kind = "FunctionCall" ->
                  IF e.builtin \in BooleanBuiltins THEN 1 ELSE None
            [] e.kind = "Unop" ->
                  IF e.op = "BoolNegate" THEN 1 ELSE ExprSize(env, e.e)
            [] e.kind = "Binop" ->
                  IF e.op \in Comparison THEN 1
                  ELSE OrElse(ExprSize(env, e.lhs), ExprSize(env, e.rhs))
            [] OTHER -> None
    IN  IF e.kind = "SubPieceMsb"
        THEN IF Truncated = None THEN None ELSE OrElse(e.size, Truncated)
        ELSE OrElse(e.size, Shape)

\* The storage an address-of expression names, without locals: their
\* storage is not allocated when widths are inferred.
StorageFromExprSize(e) ==
    CASE e.kind # "Ident"             -> None
      [] e.ident.form = "Register"    -> RegisterVarnode(e.ident.id)
      [] e.ident.form = "BitRange"    ->
            IF BitRangeInfo(e.ident.id) = None THEN None
            ELSE BitRangeInfo(e.ident.id).storage
      [] OTHER -> None

\* The space a load or store accesses; None for a name never resolved.
LoadSpace(load) ==
    CASE load.space = "default"  -> DefaultSpace
      [] load.space = "deferred" -> None
      [] OTHER                   -> load.space

\* A range whose start or width is still a macro parameter has no literal
\* parameters.
RangeKnown(range) == range.start # None /\ range.bits # None
============================================================================
