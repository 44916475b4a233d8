------------------------------ MODULE MCLower ------------------------------
(***************************************************************************)
(* A small machine for the runs of LowerInstruction: words of two bytes,   *)
(* registers of one, two and four bytes (the last wider than a word, as an *)
(* XMM register is wider than a u64), two locals, and bodies built from    *)
(* small families of statements, one family per run.                       *)
(***************************************************************************)
EXTENDS LowerInstruction, MCNodes

\* What closes the recursion of lowering, as in MCNodes.
MCLowerExpr(em, e, requested) ==
    LET lowered == LowerExprByKind(em, e, requested) IN lowered

MCUseropsOf(e) == LET userops == UseropsOfByKind(e) IN userops

MCOpcodesOf(e) == LET opcodes == OpcodesOfByKind(e) IN opcodes

MCRegisters ==
    [b |-> Varnode("register", 0, 1), w |-> Varnode("register", 2, 2),
     q |-> Varnode("register", 4, 4)]
MCBitRanges ==
    [flag |-> [storage |-> MCRegisters.w, start |-> 3, bits |-> 2],
     high |-> [storage |-> MCRegisters.q, start |-> 16, bits |-> 16],
     skew |-> [storage |-> MCRegisters.q, start |-> 3, bits |-> 8]]
MCAddressSizes == [ram |-> 2, unique |-> 2, register |-> 1]
MCSpaceNumbers == [const |-> 0, ram |-> 1, unique |-> 2, register |-> 3]
MCTableOperands == [table |-> None]

Reg(id) == IdentExpr(Register(id), None)
Bits(id) == IdentExpr(BitRange(id), None)
b == Reg("b")
w == Reg("w")
q == Reg("q")
u == IdentExpr(Named("u"), None)
v == IdentExpr(Named("v"), None)
Five == SizedInt(5, None)
Five1 == SizedInt(5, 1)
Userop(args) == PcodeOp(1, args)
Address1 == ToExpr(SizedInt(9, 2))

\* Sequences of up to `n` statements.
Bodies(sts, n) == UNION {[1 .. k -> sts] : k \in 0 .. n}

----------------------------------------------------------------------------
\* Control flow: labels before, after and between branches, branches to a
\* label that is missing or defined twice, statements that emit nothing.
FlowStatements ==
    {LabelStmt("here"), LabelStmt("there"), Branch(ToLabel("here")),
     ConditionalBranch(b, ToLabel("there")), Branch(Address1), Call(Address1),
     Call(ToLabel("there")), Branch(ToNode), Branch(ToExpr(w)), InternalStmt, Export(w),
     Return(w), ConditionalBranch(w, ToExpr(SizedInt(10, None))),
     Assignment(Register("w"), None, w),
     Assignment(Register("w"), None, Binop("IntAdd", w, Five))}

FlowPrograms == Bodies(FlowStatements, 3)

\* Expressions over registers, locals and literals.
Atoms == {b, w, u, v, Five}

Values ==
    Atoms
      \cup {Binop(op, x, y) : op \in {"IntAdd", "IntSGreater", "BoolAnd"},
                              x \in {w, u}, y \in Atoms}
      \cup {Unop("IntNegate", x) : x \in {u, Five}}
      \cup {FunctionCall("IntZext", <<x>>) : x \in {b, u}}
      \cup {FunctionCall("IntCarry", <<x, y>>) : x \in {Five, u}, y \in {w, v}}
      \cup {Userop(<<x>>) : x \in {u, Binop("IntAdd", u, w)}}
      \cup {SubPieceMsb(w, 1), SubPieceLsb(u, 1), Unop("BoolNegate", v)}

WidthStatements ==
    {Assignment(lhs, None, rhs) :
        lhs \in {Named("u"), Named("v"), Register("w")}, rhs \in Values}
      \cup {Effect(Userop(<<x, Binop("IntAdd", u, v)>>)) : x \in {u, w}}
      \cup {ConditionalBranch(x, Address1) : x \in {u, Binop("IntEqual", v, Five)}}

WidthPrograms == Bodies(WidthStatements, 2)

----------------------------------------------------------------------------
\* Memory and bit ranges: user operations in pointers and values, ranges that
\* fill bytes and that do not, of storage that fits a word and that does not.
Read1 == Sized(PcodeOp(1, <<>>), 2)
Read2 == Sized(PcodeOp(2, <<u>>), 2)

Pointers == {w, u, b, Read1, Binop("IntAdd", w, Read2)}
Loads == {LoadExpr(space, bytes, ptr) :
            space \in {"default", "ram", "const", "deferred"},
            bytes \in {None, 2, 4}, ptr \in Pointers}
Ranges == {<<3, 4>>, <<12, 8>>, <<8, 8>>, <<16, 16>>, <<0, 0>>, <<0, None>>}
RangeExprs ==
    {RangeExpr(e, r[1], r[2]) : r \in Ranges,
        e \in {w, q, u, Bits("flag"), Read1} \cup {load \in Loads : load.bytes # None}}
Written ==
    {b, w, Five, Read2, SubPieceMsb(w, 1), Binop("IntSGreater", Read1, Read2),
     Binop("IntSub", Read2, Sized(PcodeOp(3, <<Read1, Five1>>), 2))}

MemoryStatements ==
    {LoadAssignment(load, rhs) : load \in Loads, rhs \in Written}
      \cup {RangeAssignment(range, rhs) : range \in RangeExprs, rhs \in Written}
      \cup {Assignment(BitRange(id), None, rhs) :
              id \in {"flag", "high", "skew", "none"}, rhs \in Written}
      \cup {Assignment(Register("w"), None, e) : e \in RangeExprs \cup Loads \cup Written}
      \cup {Assignment(Register("b"), None, Bits(id)) : id \in {"flag", "skew", "none"}}
      \cup {BranchIndirect(ptr) : ptr \in Pointers}
      \cup {CallIndirect(load) : load \in Loads}
      \cup {Effect(e) : e \in Written \cup {PcodeOp(3, <<Read2, Read1>>), InternalExpr(<<u>>)}}

\* Values of every width where every width is wanted: narrow and wide operands
\* side by side, under unary operators, builtins and truncations.
Operands == {b, w, q, u, Five, Five1}
Converted ==
    Operands
      \cup {Unop(op, x) : op \in {"IntNegate", "BoolNegate", "AddressOf"}, x \in Operands}
      \cup {FunctionCall(f, <<x>>) : f \in {"IntZext", "FloatNan", "FloatAbs", "PopCount"},
                                     x \in Operands}
      \cup {SubPieceMsb(x, 1) : x \in Operands} \cup {SubPieceLsb(x, 1) : x \in Operands}
      \cup {LoadExpr("ram", None, u), RangeExpr(q, 3, 10), Read1, Bits("flag")}

ConversionStatements ==
    {Assignment(Register(id), None, e) : id \in {"b", "w", "q"}, e \in Converted}
      \cup {Assignment(Register(id), None, Binop(op, x, e)) :
               id \in {"b", "w", "q"}, op \in {"IntAdd", "IntLeft", "IntSGreater", "BoolOr"},
               x \in {b, w, Five}, e \in Converted}
      \cup {Assignment(Register("b"), None, FunctionCall("IntCarry", <<x, e>>)) :
               x \in Operands, e \in Converted}
      \cup {LoadAssignment(LoadExpr("ram", 4, u), e) : e \in Converted}
      \cup {Assignment(BitRange("flag"), None, e) : e \in Converted}

\* Each after a statement that gives `u` two bytes.
MemoryPrograms ==
    {<<Assignment(Named("u"), None, w), st>> :
        st \in MemoryStatements \cup ConversionStatements}

LowerPrograms == FlowPrograms \cup MemoryPrograms

\* A carry of an address, whose width is not that of what it is the address of.
CarryPrograms ==
    {<<Assignment(Register("b"), None, FunctionCall("IntCarry", <<w, AddressOf(None, w)>>))>>}

----------------------------------------------------------------------------
MCExpressions ==
    ExpressionsOf(FlowStatements \cup WidthStatements \cup MemoryStatements
                    \cup ConversionStatements
                    \cup UNION {Range(program) : program \in CarryPrograms})
MCDepth == Depths(MCExpressions)
============================================================================
