--------------------------- MODULE PcodeSemantics ---------------------------
(***************************************************************************)
(* What the source of an instruction means, what its flat p-code does, and *)
(* that lowering keeps the first in the second.                            *)
(*                                                                         *)
(* A machine is a record:                                                  *)
(*   mem    location -> byte; a location is <<space, address>>             *)
(*   trace  the user operations and calls so far, with their operands      *)
(*   at     the operation, or the statement, that is next                  *)
(*   exit   empty, <<"end">> or <<"to", address>>: how control left         *)
(* Bytes have ByteBits bits, values are naturals and storage is            *)
(* little-endian, which the lanes of bit ranges assume.  A user operation, *)
(* which a specification declares and does not define, computes            *)
(* UseropResult.                                                           *)
(***************************************************************************)
EXTENDS LowerInstruction, Bitwise

CONSTANTS
    Memories,  \* the contents of registers and ram lowered code starts with
    Fuel       \* bound: operations, or statements, executed

----------------------------------------------------------------------------
(* Values and storage.                                                     *)

ValuesOf(bytes) == 2 ^ (bytes * ByteBits)

Truncated(value, bytes) == value % ValuesOf(bytes)

\* The bits `start` to `start` + `bits` of a value, and the value with others.
BitField(value, start, bits) == (value \div 2 ^ start) % 2 ^ bits

WithBitField(value, start, bits, new) ==
    value + 2 ^ start * (new % 2 ^ bits) - 2 ^ start * BitField(value, start, bits)

\* The bytes of a varnode, and of an access at a computed address, which
\* wraps around at the end of the space.
VarnodeBytes(v) == [i \in 1 .. v.size |-> <<v.space, v.offset + i - 1>>]

AccessBytes(space, address, size) ==
    [i \in 1 .. size |-> <<space, Truncated(address + i - 1, AddressSize(space))>>]

ByteAt(m, location) == IF location \in DOMAIN m.mem THEN m.mem[location] ELSE 0

ReadBytes(m, bytes) ==
    MapThenSumSet(LAMBDA i : ByteAt(m, bytes[i]) * ValuesOf(i - 1), DOMAIN bytes)

WriteBytes(m, bytes, value) ==
    LET new == [location \in Range(bytes) |->
                  LET i == CHOOSE i \in DOMAIN bytes : bytes[i] = location
                  IN  Truncated(value \div ValuesOf(i - 1), 1)]
    IN  [m EXCEPT !.mem = new @@ @]

Record(m, event) == [m EXCEPT !.trace = Append(@, event)]

Leave(m, how) == [m EXCEPT !.exit = how]

Goto(m, position) == [m EXCEPT !.at = position]

\* The answer of user operation `id`.
UseropResult(id, operands) ==
    FoldLeft(LAMBDA sum, operand : 3 * sum + operand, id, operands)

----------------------------------------------------------------------------
(* What each operator computes from values of `size` bytes (Ghidra's p-code *)
(* reference; BinaryOperator and UnaryOperator document the same).          *)

SignedValue(value, bytes) ==
    IF 2 * value < ValuesOf(bytes) THEN value ELSE value - ValuesOf(bytes)

Bit(truth) == IF truth THEN 1 ELSE 0

Compared(op, a, b, size) ==
    LET s == SignedValue(a, size)
        t == SignedValue(b, size)
    IN  Bit(CASE op = "IntEqual"         -> a = b
              [] op = "IntNotEqual"      -> a # b
              [] op = "IntLess"          -> a < b
              [] op = "IntLessEqual"     -> a <= b
              [] op = "IntSLess"         -> s < t
              [] op = "IntSLessEqual"    -> s <= t
              [] op = "IntGreater"       -> a > b
              [] op = "IntGreaterEqual"  -> a >= b
              [] op = "IntSGreater"      -> s > t
              [] op = "IntSGreaterEqual" -> s >= t
              [] op = "BoolAnd"          -> a # 0 /\ b # 0
              [] op = "BoolOr"           -> a # 0 \/ b # 0
              [] op = "BoolXor"          -> (a # 0) # (b # 0)
              [] op = "IntCarry"         -> a + b >= ValuesOf(size))

Combined(op, a, b, size) ==
    CASE op = "IntAdd"   -> a + b
      [] op = "IntSub"   -> a - b
      [] op = "IntAnd"   -> a & b
      [] op = "IntOr"    -> a | b
      [] op = "IntXor"   -> a ^^ b
      [] op = "IntLeft"  -> IF b < size * ByteBits THEN a * 2 ^ b ELSE 0
      [] op = "IntRight" -> IF b < size * ByteBits THEN a \div 2 ^ b ELSE 0
      [] op \in Boolean \cup {"IntCarry"} -> Compared(op, a, b, size)

UnaryValue(op, a) ==
    CASE op \in {"Copy", "IntZext"} -> a
      [] op = "IntNegate"  -> 0 - a - 1
      [] op = "Int2Comp"   -> 0 - a
      [] op = "BoolNegate" -> Bit(a = 0)

----------------------------------------------------------------------------
(* Flat p-code.                                                            *)

Operand(m, v) ==
    IF v.space = ConstSpace THEN Truncated(v.offset, v.size)
    ELSE ReadBytes(m, VarnodeBytes(v))

SpaceNamed(v) == CHOOSE space \in DOMAIN SpaceNumbers : SpaceNumbers[space] = v.offset

\* The value an operation gives its output.
Result(m, o) ==
    LET in == [n \in DOMAIN o.inputs |-> Operand(m, o.inputs[n])]
    IN  CASE o.opcode = "Load" ->
                ReadBytes(m, AccessBytes(SpaceNamed(o.inputs[1]), in[2], o.output.size))
          [] o.opcode = "CallOther" -> UseropResult(in[1], Tail(in))
          [] o.opcode = "SubPiece"  -> in[1] \div ValuesOf(in[2])
          [] OTHER -> IF Len(in) = 1 THEN UnaryValue(o.opcode, in[1])
                      ELSE Combined(o.opcode, in[1], in[2], o.inputs[1].size)

\* The machine after an operation that does not branch.
Performed(m, o) ==
    LET in == [n \in DOMAIN o.inputs |-> Operand(m, o.inputs[n])]
        m1 == CASE o.opcode = "CallOther" -> Record(m, <<"op", in>>)
                [] o.opcode = "Call"      -> Record(m, <<"call", o.inputs[1].offset>>)
                [] o.opcode = "CallInd"   -> Record(m, <<"call", in[1]>>)
                [] o.opcode = "Store"     ->
                      WriteBytes(m, AccessBytes(SpaceNamed(o.inputs[1]), in[2],
                                                o.inputs[3].size), in[3])
                [] OTHER -> m
    IN  IF o.output = None THEN m1
        ELSE WriteBytes(m1, VarnodeBytes(o.output), Result(m, o))

Taken(m, o) == o.opcode = "Branch" \/ Operand(m, o.inputs[2]) # 0

\* One operation, and the position after it.
Operate(m, o) ==
    CASE o.opcode \in {"Branch", "CBranch"} ->
            IF ~Taken(m, o) THEN Goto(m, m.at + 1)
            ELSE IF o.inputs[1].space = ConstSpace
            THEN Goto(m, m.at + Flat!FromWord(o.inputs[1].offset))
            ELSE Leave(m, <<"to", o.inputs[1].offset>>)
      [] o.opcode \in {"BranchInd", "Return"} -> Leave(m, <<"to", Operand(m, o.inputs[1])>>)
      [] OTHER -> Goto(Performed(m, o), m.at + 1)

RECURSIVE Execute(_, _, _)
Execute(ops, m, fuel) ==
    CASE m.exit # <<>> \/ fuel = 0 -> m
      [] m.exit = <<>> /\ fuel # 0 /\ m.at > Len(ops) -> Leave(m, <<"end">>)
      [] OTHER -> Execute(ops, Operate(m, ops[m.at]), fuel - 1)

----------------------------------------------------------------------------
(* The source.  Each local is a space of its own, named by it.             *)

SourceEnv == [sizes |-> sizes, operand |-> TableOperands]

SourceSize(e) == ExprSize(SourceEnv, e)

SourceStorage(ident) ==
    IF ident.form = "Register" THEN RegisterVarnode(ident.id)
    ELSE Varnode(ident.id, 0, sizes[ident.id])

KnownAmong(args) == FoldLeft(LAMBDA known, arg : OrElse(known, SourceSize(arg)), None, args)

\* What an evaluation `r`, of m: the machine after it and v: the value or the
\* values, is made into.
OnValue(r, Value(_)) == [r EXCEPT !.v = Value(r.v)]
ReadAt(r, space, size) == [r EXCEPT !.v = ReadBytes(r.m, AccessBytes(space, r.v, size))]
Operated(r, op, size) == [r EXCEPT !.v = Combined(op, r.v[1], r.v[2], size)]
Called(r, id) == [m |-> Record(r.m, <<"op", <<id>> \o r.v>>), v |-> UseropResult(id, r.v)]
Assigned(r, bytes) == WriteBytes(r.m, bytes, r.v)
WithBits(r, bytes, start, bits) ==
    WriteBytes(r.m, bytes, WithBitField(ReadBytes(r.m, bytes), start, bits, r.v))

RECURSIVE Eval(_, _, _)

\* Evaluates `args` in order, each where `n` bytes are wanted.
EvalEach(m, args, n) ==
    FoldLeft(LAMBDA so, arg :
               LET r == Eval(so.m, arg, n) IN [r EXCEPT !.v = Append(so.v, @)],
             [m |-> m, v |-> <<>>], args)

\* An expression whose consumer wants `n` bytes, before it is cut to them.
EvalAny(m, e, n) ==
    LET Pure(value) == [m |-> m, v |-> value]
        Eval1(part) == Eval(m, part, None)
    IN  CASE e.kind = "SizedInt" -> Pure(e.value)
          [] e.kind = "Ident" /\ e.ident.form = "BitRange" ->
                LET info == BitRangeInfo(e.ident.id)
                IN  Pure(BitField(Operand(m, info.storage), info.start, info.bits))
          [] e.kind = "Ident" /\ e.ident.form # "BitRange" ->
                Pure(Operand(m, SourceStorage(e.ident)))
          [] e.kind = "Load" ->
                IF LoadSpace(e) = ConstSpace THEN Eval1(e.ptr)
                ELSE ReadAt(Eval1(e.ptr), LoadSpace(e), OrElse(e.bytes, n))
          [] e.kind = "SubPieceMsb" -> OnValue(Eval1(e.src), LAMBDA v : v \div ValuesOf(e.count))
          [] e.kind = "SubPieceLsb" -> OnValue(Eval1(e.src), LAMBDA v : Truncated(v, e.count))
          [] e.kind = "Range" -> OnValue(Eval1(e.value), LAMBDA v : BitField(v, e.start, e.bits))
          [] e.kind = "PcodeOp" -> Called(EvalEach(m, e.args, None), e.id)
          [] e.kind = "FunctionCall" /\ e.builtin = "IntZext" -> Eval1(e.args[1])
          [] e.kind = "FunctionCall" /\ e.builtin \in CarryBuiltins ->
                LET size == KnownAmong(e.args)
                IN  Operated(EvalEach(m, e.args, size), e.builtin, size)
          [] e.kind = "Unop" /\ e.op = "AddressOf" -> Pure(StorageFromExprSize(e.e).offset)
          [] e.kind = "Unop" /\ e.op # "AddressOf" ->
                OnValue(Eval(m, e.e, IF e.op = "BoolNegate" THEN None ELSE n),
                     LAMBDA v : UnaryValue(e.op, v))
          [] e.kind = "Binop" ->
                LET size == OrElse(IF e.op \in Boolean THEN None ELSE n,
                                   KnownAmong(<<e.lhs, e.rhs>>))
                IN  Operated(EvalEach(m, <<e.lhs, e.rhs>>, size), e.op, size)

Cut(r, size) == OnValue(r, LAMBDA v : Truncated(v, size))

\* A value, in the width it is wanted in or else its own.
Eval(m, e, n) ==
    LET size == OrElse(n, SourceSize(e)) IN Cut(EvalAny(m, e, size), size)

\* The access at `r` of `size` bytes becomes the value of `e`.
StoredAt(r, space, size, e) ==
    Assigned(Eval(r.m, e, size), AccessBytes(space, r.v, size))

\* Where the bits of a range assignment are; its address has no user operation.
PlaceBytes(m, e) ==
    IF e.kind = "Ident" THEN VarnodeBytes(SourceStorage(e.ident))
    ELSE AccessBytes(LoadSpace(e), Eval(m, e.ptr, None).v, e.bytes)

\* The machine after a statement that does not branch.
Executed(m, st) ==
    CASE st.kind = "Assignment" /\ st.lhs.form = "BitRange" ->
            LET info == BitRangeInfo(st.lhs.id)
            IN  WithBits(Eval(m, st.rhs, DivCeilByte(info.bits)),
                         VarnodeBytes(info.storage), info.start, info.bits)
      [] st.kind = "Assignment" /\ st.lhs.form # "BitRange" ->
            LET storage == SourceStorage(st.lhs)
            IN  Assigned(Eval(m, st.rhs, storage.size), VarnodeBytes(storage))
      [] st.kind = "LoadAssignment" ->
            StoredAt(Eval(m, st.load.ptr, None), LoadSpace(st.load),
                     OrElse(st.load.bytes, SourceSize(st.rhs)), st.rhs)
      [] st.kind = "RangeAssignment" ->
            WithBits(Eval(m, st.rhs, DivCeilByte(st.range.bits)),
                     PlaceBytes(m, st.range.value), st.range.start, st.range.bits)
      [] st.kind = "Expression" -> Called(EvalEach(m, st.expr.args, None), st.expr.id).m
      [] st.kind = "Call" -> Record(m, <<"call", st.target.expr.value>>)
      [] st.kind = "CallIndirect" ->
            LET target == Eval(m, st.target, None)
            IN  Record(target.m, <<"call", target.v>>)
      [] st.kind = "Label" -> m

LabelPosition(name) == CHOOSE k \in DOMAIN statements : statements[k] = LabelStmt(name)

ToTarget(m, target) ==
    IF target.form = "Label" THEN Goto(m, LabelPosition(target.name))
    ELSE Leave(m, <<"to", target.expr.value>>)

\* One way or the other, by the value of the condition evaluated in `r`.
IfTaken(r, target) == IF r.v # 0 THEN ToTarget(r.m, target) ELSE Goto(r.m, r.m.at + 1)

\* One statement, and the position after it.
Follow(m, st) ==
    CASE st.kind = "Branch" -> ToTarget(m, st.target)
      [] st.kind = "ConditionalBranch" -> IfTaken(Eval(m, st.condition, None), st.target)
      [] st.kind \in {"BranchIndirect", "Return"} ->
            LET target == Eval(m, st.target, None)
            IN  Leave(target.m, <<"to", target.v>>)
      [] OTHER -> Goto(Executed(m, st), m.at + 1)

RECURSIVE Mean(_, _)
Mean(m, fuel) ==
    CASE m.exit # <<>> \/ fuel = 0 -> m
      [] m.exit = <<>> /\ fuel # 0 /\ m.at > Len(statements) -> Leave(m, <<"end">>)
      [] OTHER -> Mean(Follow(m, statements[m.at]), fuel - 1)

----------------------------------------------------------------------------
(* Properties.                                                             *)

StartOn(mem) == [mem |-> mem, trace |-> <<>>, at |-> 1, exit |-> <<>>]

\* What a program can tell: storage that has a name, the user operations and
\* calls it saw, and where control went.
Observed(m, mem) ==
    [mem |-> [location \in DOMAIN mem |-> m.mem[location]], trace |-> m.trace, exit |-> m.exit]

\* The source ran to an exit, and the flat p-code did what it did.
SameEffect(source, flat, mem) ==
    source.exit # <<>> /\ Observed(flat, mem) = Observed(source, mem)

\* The flat p-code of an instruction, branches resolved, does to registers and
\* memory what the source says, from whatever they hold: a bit-range write
\* changes its bits and no others, mirrored comparisons compare the right way
\* round, operands are read before they are overwritten, local branches land
\* on their labels, and user operations see the values the source gives them.
LoweringPreservesMeaning ==
    Lowered =>
       \A mem \in Memories :
          SameEffect(Mean(StartOn(mem), Fuel), Execute(collector.ops, StartOn(mem), Fuel), mem)

\* `ExpressionTy::SubPieceLsb`: "`x:n` - keep the low `n` bytes of `x`",
\* wherever the truncated value is used.
TruncationKeepsLowBytes == LoweringPreservesMeaning
============================================================================
