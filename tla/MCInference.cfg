CONSTANTS
    None = None
    MaxWord = 65535
    ByteBits = 8
    WordBytes = 2
    Local = {"x", "y", "z"}
    Registers <- MCRegisters
    BitRanges <- MCBitRanges
    AddressSizes <- MCAddressSizes
    SpaceNumbers <- MCSpaceNumbers
    DefaultSpace = "ram"
    UniqueSpace = "unique"
    exportT = exportT
    exportV = exportV
    OperandWidths = {exportT, exportV}
    Exports = {"b", "q"}
    TableOperands <- MCTableOperands
    Depth <- MCDepth
    ExprSize <- MCExprSize
    ConstrainExpr <- MCConstrainExpr
    LocalsOf <- MCLocalsOf
    Statement <- MCStatement
    Fed <- AfterStatement
    LocalsIn <- StatementLocals
    Knowns <- MCKnowns
    Programs <- MCPrograms
SPECIFICATION Spec
INVARIANT TypeOK
INVARIANT PassesFindLocals
INVARIANT FixedPointWhenLocalsFit
INVARIANT OrderIrrelevantToCoverage
INVARIANT SymbolicAgrees
PROPERTY FirstUseWins
PROPERTY LoopIsPassSequence
\* `run` returns and is called no more.
CHECK_DEADLOCK FALSE
