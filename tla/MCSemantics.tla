---------------------------- MODULE MCSemantics ----------------------------
(***************************************************************************)
(* Programs for PcodeSemantics, on the machine of MCLower with bytes of    *)
(* two bits: a word is four bits, so every bit range of a word is tried,   *)
(* and ram has sixteen bytes.                                              *)
(***************************************************************************)
EXTENDS MCLower, PcodeSemantics

SemanticBitRanges ==
    [mid |-> [storage |-> MCRegisters.w, start |-> 1, bits |-> 2],
     whole |-> [storage |-> MCRegisters.w, start |-> 0, bits |-> 4],
     lane |-> [storage |-> MCRegisters.q, start |-> 4, bits |-> 4],
     skew |-> [storage |-> MCRegisters.q, start |-> 3, bits |-> 3]]

\* Registers and ram filled with patterns of bytes.
Locations ==
    {<<"register", k>> : k \in {0} \cup 2 .. 7} \cup {<<"ram", k>> : k \in 0 .. 15}

MCMemories ==
    {[l \in Locations |-> 3], [l \in Locations |-> (l[2] + 1) % 4],
     [l \in Locations |-> (3 * l[2] + l[2] \div 4) % 4]}

----------------------------------------------------------------------------
Set(id, e) == Assignment(Register(id), None, e)
Let(id, e) == Assignment(Named(id), None, e)
Op(id, args, size) == Sized(PcodeOp(id, args), size)
If(condition, label) == ConditionalBranch(condition, ToLabel(label))

WordRanges == {r \in (0 .. 3) \X (1 .. 4) : r[1] + r[2] <= 4}
LaneRanges == {<<0, 2>>, <<2, 4>>, <<4, 2>>, <<4, 4>>}
Operations == {"IntAdd", "IntSub", "IntAnd", "IntXor", "IntLeft", "IntRight"}
Conditions ==
    {"IntLess", "IntSLessEqual", "IntGreater", "IntGreaterEqual", "IntSGreater",
     "IntSGreaterEqual", "IntNotEqual", "BoolAnd"}

Sources == {b, w, Five, u, Binop("IntSub", w, u), Op(2, <<u>>, 2)}
Places == {w, u, Binop("IntAdd", w, SizedInt(3, None)), Op(1, <<w>>, 2)}

RangeReads ==
    {Assignment(Register(IF r[2] <= 2 THEN "b" ELSE "w"), None, RangeExpr(e, r[1], r[2])) :
        r \in WordRanges, e \in {w, u, q, LoadExpr("ram", 4, w)}}
RangeWrites ==
    {RangeAssignment(RangeExpr(e, r[1], r[2]), rhs) :
        r \in WordRanges, rhs \in Sources,
        e \in {w, u, LoadExpr("ram", 2, w), LoadExpr("ram", 2, u)}}
LaneWrites ==
    {RangeAssignment(RangeExpr(e, r[1], r[2]), rhs) :
        r \in LaneRanges, rhs \in Sources,
        e \in {q, LoadExpr("ram", 4, w), LoadExpr("default", 4, u)}}
NamedRanges ==
    {Assignment(BitRange(id), None, rhs) : id \in DOMAIN SemanticBitRanges \ {"skew"}, rhs \in Sources}
      \cup {Set("b", Bits("mid")), Set("w", Bits("whole")), Set("w", Bits("skew"))}
Accesses ==
    {LoadAssignment(LoadExpr("ram", size, ptr), rhs) :
        size \in {None, 2}, ptr \in Places, rhs \in Sources \ {Five}}
      \cup {Set("w", LoadExpr("ram", size, ptr)) : size \in {None, 2}, ptr \in Places}
      \cup {Set("q", LoadExpr("ram", 4, ptr)) : ptr \in Places}
Computations ==
    {Set("w", Binop(op, x, y)) : op \in Operations, x \in {w, u, Five}, y \in {w, b, u, Five}}
      \cup {Set("b", Binop(op, x, y)) : op \in Conditions, x \in {w, u}, y \in {w, u, Five, b}}
      \cup {Set("w", e) : e \in {b, u, Unop("IntNegate", u), Unop("Int2Comp", w),
              Unop("IntNegate", Five), SubPieceMsb(q, 2), SubPieceLsb(q, 2),
              FunctionCall("IntZext", <<b>>), Op(2, <<w, b>>, 2), AddressOf(None, w),
              Binop("IntAdd", Op(1, <<u>>, 2), Op(2, <<w>>, 2))}}
      \cup {Set("b", e) : e \in {w, Unop("BoolNegate", w), SubPieceMsb(w, 1), SubPieceLsb(w, 1),
              FunctionCall("IntCarry", <<Five, w>>), FunctionCall("IntCarry", <<u, w>>)}}
      \cup {Set("q", FunctionCall("IntZext", <<w>>)), Set("q", w)}
      \cup {Effect(PcodeOp(3, <<Op(1, <<u>>, 2), Binop("IntAdd", w, Op(2, <<>>, 1)), q>>))}

\* A local holds a value of its own before the statement, and is read after it.
StraightPrograms ==
    {<<Let("u", Binop("IntXor", w, SizedInt(6, None))), st, Set("w", Binop("IntSub", w, u))>> :
        st \in RangeReads \cup RangeWrites \cup LaneWrites \cup NamedRanges \cup Accesses
                 \cup Computations}

\* Loops, branches forward and backward, around statements that emit one
\* operation, several or none, and ways out of the instruction.
Down == Set("w", Binop("IntSub", w, SizedInt(1, None)))
Bump == RangeAssignment(RangeExpr(q, 2, 2), SizedInt(3, None))
NotZero == Binop("IntNotEqual", w, SizedInt(0, None))

BranchPrograms ==
    {<<LabelStmt("here"), Set("w", w), Down, If(NotZero, "here"), st>> :
        st \in {Bump, Call(Address1), CallIndirect(w), Return(q), Branch(Address1)}}
      \cup {<<If(e, "there"), Bump, Branch(ToLabel("here")), LabelStmt("there"), st,
              LabelStmt("here")>> :
              e \in {b, Binop("IntSGreater", w, Five)},
              st \in {Down, Set("w", w), BranchIndirect(w), If(w, "here"),
                      ConditionalBranch(w, Address1)}}

SemanticPrograms == StraightPrograms \cup BranchPrograms

\* A shift count is a truncated value, narrower than what it shifts.
TruncationPrograms ==
    {<<Set("w", Binop("IntLeft", w, SubPieceLsb(q, 1)))>>}

SemanticExpressions ==
    ExpressionsOf(UNION {Range(program) : program \in SemanticPrograms \cup TruncationPrograms})
SemanticDepth == Depths(SemanticExpressions)
============================================================================
