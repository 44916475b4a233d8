CONSTANTS
    None = None
    MaxWord = 65535
    ByteBits = 2
    WordBytes = 2
    Local = {"u", "v"}
    Registers <- MCRegisters
    BitRanges <- SemanticBitRanges
    AddressSizes <- MCAddressSizes
    SpaceNumbers <- MCSpaceNumbers
    DefaultSpace = "ram"
    UniqueSpace = "unique"
    OperandWidths = {}
    TableOperands <- MCTableOperands
    Depth <- SemanticDepth
    ExprSize <- MCExprSize
    ConstrainExpr <- MCConstrainExpr
    LocalsOf <- MCLocalsOf
    LowerExpr <- MCLowerExpr
    UseropsOf <- MCUseropsOf
    OpcodesOf <- MCOpcodesOf
    Label = {"here", "there"}
    Address = {9, 10}
    MaxStatements = 6
    Memories <- MCMemories
    Fuel = 150
    Programs <- SemanticPrograms
SPECIFICATION Spec
INVARIANT LoweringPreservesMeaning
\* A lowered instruction is done.
CHECK_DEADLOCK FALSE
