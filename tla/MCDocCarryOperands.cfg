CONSTANTS
    None = None
    MaxWord = 65535
    ByteBits = 8
    WordBytes = 2
    Local = {"u", "v"}
    Registers <- MCRegisters
    BitRanges <- MCBitRanges
    AddressSizes <- MCAddressSizes
    SpaceNumbers <- MCSpaceNumbers
    DefaultSpace = "ram"
    UniqueSpace = "unique"
    OperandWidths = {}
    TableOperands <- MCTableOperands
    Depth <- MCDepth
    ExprSize <- MCExprSize
    ConstrainExpr <- MCConstrainExpr
    LocalsOf <- MCLocalsOf
    LowerExpr <- MCLowerExpr
    UseropsOf <- MCUseropsOf
    OpcodesOf <- MCOpcodesOf
    Label = {"here", "there"}
    Address = {9, 10}
    MaxStatements = 3
    Programs <- CarryPrograms
SPECIFICATION Spec
INVARIANT CarryOperandsAgree
\* A lowered instruction is done.
CHECK_DEADLOCK FALSE
