------------------------------- MODULE Pcode -------------------------------
(***************************************************************************)
(* The vocabulary the passes share: expressions and statements as the      *)
(* passes see them (streaming.rs, `ExprKind` and `StmtKind`), varnodes and *)
(* operator classes.                                                       *)
(*                                                                         *)
(* An expression is a record with a `kind`, the width `size` the producer  *)
(* knows (or None), and the fields of its kind.  Names, spaces, registers  *)
(* and user operations are opaque; offsets, widths and literals are        *)
(* numbers.                                                                *)
(***************************************************************************)
EXTENDS Naturals, Sequences

CONSTANTS
    None,      \* an absent Option
    MaxWord    \* u64::MAX, which an instance may scale down

\* Option::or_else.
OrElse(option, otherwise) == IF option # None THEN option ELSE otherwise

----------------------------------------------------------------------------
(* Varnodes.                                                               *)

ConstSpace == "const"

Varnode(space, offset, size) == [space |-> space, offset |-> offset, size |-> size]

Constant(value, size) == Varnode(ConstSpace, value, size)

\* The bytes of storage a varnode names.
Bytes(v) == {<<v.space, b>> : b \in v.offset .. v.offset + v.size - 1}

----------------------------------------------------------------------------
(* Identifiers and expressions.                                            *)

Register(id) == [form |-> "Register", id |-> id]
BitRange(id) == [form |-> "BitRange", id |-> id]
Named(id)    == [form |-> "Named", id |-> id]
Table(id)    == [form |-> "Table", id |-> id]
\* A decoder field or a global: names without storage.
Field(id)    == [form |-> "Field", id |-> id]

IdentExpr(ident, size) == [kind |-> "Ident", size |-> size, ident |-> ident]
\* `literal` is the width the literal was written with.
SizedInt(value, literal) ==
    [kind |-> "SizedInt", size |-> literal, value |-> value, literal |-> literal]
\* `space` is a space, "default" (none written) or "deferred" (unresolved).
LoadExpr(space, bytes, ptr) ==
    [kind |-> "Load", size |-> None, space |-> space, bytes |-> bytes, ptr |-> ptr]
\* `start` and `bits` are None for a parameter no macro expansion replaced.
RangeExpr(value, start, bits) ==
    [kind |-> "Range", size |-> None, value |-> value, start |-> start, bits |-> bits]
\* Drop `count` low bytes, and keep `count` low bytes.
SubPieceMsb(src, count) ==
    [kind |-> "SubPieceMsb", size |-> None, src |-> src, count |-> count]
SubPieceLsb(src, count) ==
    [kind |-> "SubPieceLsb", size |-> None, src |-> src, count |-> count]
FunctionCall(builtin, args) ==
    [kind |-> "FunctionCall", size |-> None, builtin |-> builtin, args |-> args]
PcodeOp(id, args) == [kind |-> "PcodeOp", size |-> None, id |-> id, args |-> args]
Unop(op, e) == [kind |-> "Unop", size |-> None, op |-> op, width |-> None, e |-> e]
\* `&e`, or `&:width e`.
AddressOf(width, e) ==
    [kind |-> "Unop", size |-> None, op |-> "AddressOf", width |-> width, e |-> e]
Binop(op, lhs, rhs) ==
    [kind |-> "Binop", size |-> None, op |-> op, lhs |-> lhs, rhs |-> rhs]
\* A macro call or a deferred call, which no consumer-form body holds.
InternalExpr(args) == [kind |-> "Internal", size |-> None, args |-> args]

\* The same node with a width the producer knows.
Sized(e, size) == [e EXCEPT !.size = size]

----------------------------------------------------------------------------
(* Statements and branch targets.                                          *)

ToLabel(name) == [form |-> "Label", name |-> name]
ToExpr(e)     == [form |-> "Expr", expr |-> e]
ToNode        == [form |-> "Node"]

Assignment(lhs, size, rhs) ==
    [kind |-> "Assignment", lhs |-> lhs, size |-> size, rhs |-> rhs]
LoadAssignment(load, rhs) == [kind |-> "LoadAssignment", load |-> load, rhs |-> rhs]
RangeAssignment(range, rhs) ==
    [kind |-> "RangeAssignment", range |-> range, rhs |-> rhs]
LabelStmt(name) == [kind |-> "Label", name |-> name]
Branch(target)  == [kind |-> "Branch", target |-> target]
Call(target)    == [kind |-> "Call", target |-> target]
ConditionalBranch(condition, target) ==
    [kind |-> "ConditionalBranch", condition |-> condition, target |-> target]
\* `goto [e]`, `call [e]` and `return [e]`.
BranchIndirect(e) == [kind |-> "BranchIndirect", target |-> e]
CallIndirect(e)   == [kind |-> "CallIndirect", target |-> e]
Return(e)         == [kind |-> "Return", target |-> e]
Effect(e)         == [kind |-> "Expression", expr |-> e]
\* `build`, `delayslot` and `export`: no consumer-form body holds them.
InternalStmt      == [kind |-> "Internal"]
Export(e)         == [kind |-> "Export", expr |-> e]

----------------------------------------------------------------------------
(* Opcodes, by Ghidra's names in Rust's spelling.                          *)

Opcodes ==
    {"Copy", "Load", "Store", "Branch", "CBranch", "BranchInd", "Call", "CallInd",
     "CallOther", "Return", "IntEqual", "IntNotEqual", "IntSLess", "IntSLessEqual",
     "IntLess", "IntLessEqual", "IntZext", "IntSext", "IntAdd", "IntSub", "IntCarry",
     "IntSCarry", "IntSBorrow", "Int2Comp", "IntNegate", "IntXor", "IntAnd", "IntOr",
     "IntLeft", "IntRight", "IntSRight", "IntMult", "IntDiv", "IntSDiv", "IntRem",
     "IntSRem", "BoolNegate", "BoolXor", "BoolAnd", "BoolOr", "FloatEqual",
     "FloatNotEqual", "FloatLess", "FloatLessEqual", "FloatNan", "FloatAdd", "FloatDiv",
     "FloatMult", "FloatSub", "FloatNeg", "FloatAbs", "FloatSqrt", "FloatInt2Float",
     "FloatFloat2Float", "FloatTrunc", "FloatCeil", "FloatFloor", "FloatRound",
     "MultiEqual", "Indirect", "Piece", "SubPiece", "Cast", "PtrAdd", "PtrSub",
     "SegmentOp", "CpoolRef", "New", "Insert", "Extract", "PopCount", "LzCount"}

\* Those that analyses add, and that no instruction's p-code holds.
PseudoOpcodes ==
    {"MultiEqual", "Indirect", "Cast", "PtrAdd", "PtrSub", "SegmentOp", "Insert",
     "Extract"}

RawOpcodes == Opcodes \ PseudoOpcodes

\* Why lowering fails.
LowerErrors ==
    {"UnknownSize", "ZeroSize", "CopySizeMismatch", "InputSizeMismatch",
     "InvalidBooleanSize", "AddressSizeMismatch", "StoreSizeMismatch", "InvalidRange",
     "UniqueSpaceOverflow", "UnknownRegister", "UnresolvedIdentifier",
     "UnresolvedSpace", "UnresolvedRangeParameter", "InternalNode", "Unsupported",
     "DuplicateLabel", "UnknownLabel", "InvalidDirectTarget"}

----------------------------------------------------------------------------
(* Operator classes.  Operators are named by their p-code opcodes; the     *)
(* comparisons `>` and `>=` are their mirror images with operands swapped. *)

Swapped == [IntGreater |-> "IntLess", IntGreaterEqual |-> "IntLessEqual",
            IntSGreater |-> "IntSLess", IntSGreaterEqual |-> "IntSLessEqual",
            FloatGreater |-> "FloatLess", FloatGreaterEqual |-> "FloatLessEqual"]

Comparison ==
    {"IntLess", "IntLessEqual", "IntSLess", "IntSLessEqual", "IntEqual",
     "IntNotEqual", "FloatLess", "FloatLessEqual", "FloatEqual", "FloatNotEqual"}
      \cup DOMAIN Swapped

\* Unary and binary operators, and the builtin functions.
UnaryOperators == {"BoolNegate", "IntNegate", "Int2Comp", "FloatNeg", "AddressOf"}

Logical == {"BoolXor", "BoolAnd", "BoolOr"}

\* Operators whose result is one byte, whatever their operands' width.
Boolean == Comparison \cup Logical

BinaryOperators ==
    Boolean \cup
    {"IntMult", "IntDiv", "IntSDiv", "IntRem", "IntSRem", "FloatDiv", "FloatMult",
     "IntAdd", "IntSub", "FloatAdd", "FloatSub", "IntLeft", "IntRight", "IntSRight",
     "IntXor", "IntOr", "IntAnd"}

CarryBuiltins   == {"IntCarry", "IntSCarry", "IntSBorrow"}
BooleanBuiltins == CarryBuiltins \cup {"FloatNan"}
\* Builtins that answer in their operand's width.
WidthPreservingBuiltins ==
    {"FloatAbs", "FloatSqrt", "FloatFloor", "FloatCeil", "FloatRound"}
Builtins ==
    BooleanBuiltins \cup WidthPreservingBuiltins \cup
    {"FloatInt2Float", "FloatFloat2Float", "FloatTrunc", "IntZext", "IntSext",
     "PopCount", "LzCount", "CpoolRef", "New"}
============================================================================
