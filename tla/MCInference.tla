---------------------------- MODULE MCInference ----------------------------
(***************************************************************************)
(* Bodies for width inference: three locals that get their widths from     *)
(* each other, from registers, from addresses, from conditions, from       *)
(* truncations and from two table operands, in every order.                *)
(***************************************************************************)
EXTENDS SymbolicInference, MCNodes

CONSTANTS exportT, exportV   \* the widths that tables t and v export

MCRegisters ==
    [b |-> Varnode("register", 0, 1), w |-> Varnode("register", 2, 2),
     q |-> Varnode("register", 4, 4)]
MCBitRanges == [flag |-> [storage |-> MCRegisters.w, start |-> 3, bits |-> 2]]
MCAddressSizes == [ram |-> 2, unique |-> 2, register |-> 1]
MCSpaceNumbers == [const |-> 0, ram |-> 1, unique |-> 2, register |-> 3]
MCTableOperands == [t |-> exportT, v |-> exportV]

LocalExpr(id) == IdentExpr(Named(id), None)
x == LocalExpr("x")
y == LocalExpr("y")
z == LocalExpr("z")
b == IdentExpr(Register("b"), None)
w == IdentExpr(Register("w"), None)
q == IdentExpr(Register("q"), None)
Operand(id) == IdentExpr(Table(id), None)
Three == SizedInt(3, None)
Add(e, f) == Binop("IntAdd", e, f)

Statements ==
    {Assignment(Named("x"), None, y), Assignment(Named("y"), None, Add(z, Three)),
     Assignment(Named("y"), None, x),
     Assignment(Named("z"), None, FunctionCall("IntZext", <<x>>)),
     Assignment(Named("z"), None, SubPieceMsb(y, 1)),
     Assignment(Named("z"), None, Unop("IntNegate", y)),
     Assignment(Named("x"), None, Sized(Binop("IntEqual", y, z), 2)),
     Assignment(Named("x"), 1, SubPieceLsb(LoadExpr("ram", None, y), 2)),
     Assignment(Register("w"), None, Binop("IntLeft", w, x)),
     Assignment(Register("q"), None, Add(z, q)),
     Assignment(Register("b"), None, Binop("IntLess", x, z)),
     Assignment(Register("b"), None, FunctionCall("IntCarry", <<Three, y, w>>)),
     Assignment(BitRange("flag"), None, z),
     Effect(PcodeOp(1, <<Add(x, y), Add(y, z)>>)),
     Effect(PcodeOp(1, <<Unop("BoolNegate", Add(x, w)), AddressOf(None, b)>>)),
     LoadAssignment(LoadExpr("default", 4, y), z),
     LoadAssignment(LoadExpr("deferred", None, z), y),
     RangeAssignment(RangeExpr(w, 4, 9), x),
     RangeAssignment(RangeExpr(w, 4, None), z),
     Assignment(Register("w"), None, RangeExpr(z, 0, 8)),
     ConditionalBranch(Binop("BoolAnd", y, Three), ToExpr(SizedInt(9, 2))),
     BranchIndirect(z), Return(AddressOf(2, x)), LabelStmt("here"),
     InternalStmt, Export(x), Effect(InternalExpr(<<Add(x, w), z>>)),
     Assignment(Named("x"), None, Operand("t")),
     Assignment(Table("v"), None, Add(y, Three)),
     Assignment(Named("z"), None, Binop("IntXor", Operand("v"), x)),
     Assignment(Named("y"), None, RangeExpr(Binop("IntEqual", z, Operand("t")), 0, 8)),
     Assignment(Named("x"), None, AddressOf(None, Operand("t"))),
     LoadAssignment(LoadExpr("ram", None, Operand("t")), Unop("IntNegate", y))}

Bodies(sts, n) == UNION {[1 .. k -> sts] : k \in 0 .. n}

MCPrograms == Bodies(Statements, 3)

\* One statement may hold a chain of locals longer than the passes reach: the
\* width of the last argument has to travel back through all of them.
ChainPrograms ==
    {<<Effect(PcodeOp(1, <<Add(x, y), Add(y, z), Add(z, w)>>))>>}

\* Locals sized only by what a name does not tell of a table's export.
TruncationPrograms ==
    {<<Assignment(Named("x"), None, SubPieceMsb(Operand("t"), 1))>>,
     <<Assignment(Named("x"), None, AddressOf(None, Operand("t")))>>}

MCStatement == Statements \cup UNION {Range(body) : body \in ChainPrograms \cup TruncationPrograms}

MCExpressions == ExpressionsOf(MCStatement)
MCDepth == Depths(MCExpressions)

\* What the statements may find, fed in any order and as often as they add to it.
RECURSIVE FedToEnd(_)
FedToEnd(knowns) ==
    LET more == {AfterStatement(known, st) : known \in knowns, st \in MCStatement}
    IN  IF more \subseteq knowns THEN knowns ELSE FedToEnd(knowns \cup more)

MCKnowns == FedToEnd({NoSizes})
============================================================================
