------------------------------ MODULE Emitter ------------------------------
(***************************************************************************)
(* The emission pass (instruction.rs, `Emitter`): lowers one statement at  *)
(* a time to the p-code operations and label events a sink receives.       *)
(*                                                                         *)
(* Each `lower_*` function is an operator from an emitter to [em, v].  An  *)
(* error keeps the events reported before it, as the code does.            *)
(***************************************************************************)
EXTENDS UniqueStorage, Sizing, FiniteSetsExt

CONSTANT LowerExpr(_, _, _)   \* LowerExprByKind

\* What the emission phase knows of widths: the plan's, then those of the
\* locals it has already placed.
EmitEnv(em) ==
    [sizes |-> [id \in Local |->
        OrElse(em.sizes[id],
               IF em.locals[id] = None THEN None ELSE em.locals[id].size)],
     operand |-> [t \in DOMAIN TableOperands |-> None]]

KnownSize(em, e) == ExprSize(EmitEnv(em), e)

RequestedSize(requested) == IF requested = None THEN None ELSE requested.size

\* The constant operand that names a space.
SpaceId(space) == Constant(SpaceNumbers[space], 4)

----------------------------------------------------------------------------
(* Checks.                                                                 *)

\* A bit range is 1 to WordBits bits that lie inside their storage.
RangeValid(storage, start, bits) ==
    bits \in 1 .. WordBits /\ start + bits <= storage.size * ByteBits

Mask(bits) == (2 ^ bits) - 1

\* Faulty: clears the low bits, wherever the range starts.
ClearMaskUnshifted(start, bits) == ((2 ^ WordBits) - 1) - Mask(bits)

\* `!(mask << start)`, in the word.
ClearMask(start, bits) ==
    ((2 ^ WordBits) - 1) - ((Mask(bits) * 2 ^ start) % (2 ^ WordBits))

\* Faulty: the width of the pointer is not checked.
PointerErrorUnsized(space, ptr) ==
    CASE AddressSize(space) = None -> "UnresolvedSpace"
      [] AddressSize(space) = 0    -> "ZeroSize"
      [] OTHER                     -> "ok"

PointerError(space, ptr) ==
    CASE AddressSize(space) = None     -> "UnresolvedSpace"
      [] AddressSize(space) = 0        -> "ZeroSize"
      [] AddressSize(space) # ptr.size -> "AddressSizeMismatch"
      [] OTHER                         -> "ok"

\* Fails with `error` unless it is "ok".
Check(em, error) == IF error = "ok" THEN Ok(em, None) ELSE Err(em, error)

\* The sub-varnode a byte-aligned range of wide storage names, or None.
AlignedLane(storage, start, bits) ==
    IF start % ByteBits # 0 \/ bits % ByteBits # 0 THEN None
    ELSE Varnode(storage.space, storage.offset + start \div ByteBits,
                 bits \div ByteBits)

----------------------------------------------------------------------------
(* Expressions.                                                            *)

\* Faulty: the operand is computed elsewhere than where its reader looks.
LowerExprBeside(em, e, size) ==
    IF e.kind = "SizedInt" THEN Ok(em, Constant(e.value, size))
    ELSE IF KnownSize(em, e) = size THEN LowerExpr(em, e, None)
    ELSE Then(AllocateUnique(em, size), LAMBDA em1, temp :
         Then(LowerExpr(em1, e, None), LAMBDA em2, v : Ok(em2, temp)))

\* Lowers an operand in a context that requires `size` bytes.
LowerExprWithSize(em, e, size) ==
    IF e.kind = "SizedInt" THEN Ok(em, Constant(e.value, size))
    ELSE Then(IF KnownSize(em, e) = size THEN Ok(em, None) ELSE AllocateUnique(em, size),
              LAMBDA em1, temp : LowerExpr(em1, e, temp))

\* The same, in a context that may require no width.
LowerOperand(em, e, size) ==
    IF size = None THEN LowerExpr(em, e, None) ELSE LowerExprWithSize(em, e, size)

\* Lowers an address in `space`, and checks its width.
LowerPointer(em, space, e) ==
    Then(LowerExpr(em, e, None), LAMBDA em1, ptr :
      Then(Check(em1, PointerError(space, ptr)), LAMBDA em2, unit : Ok(em2, ptr)))

\* Lowers one more operand, after those whose varnodes are `inputs`.
LowerNext(em, inputs, e, size) ==
    Then(LowerOperand(em, e, size), LAMBDA em1, v : Ok(em1, Append(inputs, v)))

\* Lowers `args` in order; `v` holds their varnodes.
LowerOperands(em, args, size) ==
    LET done[n \in 0 .. Len(args)] ==
          IF n = 0 THEN Ok(em, <<>>)
          ELSE Then(done[n - 1], LAMBDA em1, inputs : LowerNext(em1, inputs, args[n], size))
    IN  done[Len(args)]

LowerUseropInputs(em, e) ==
    Then(LowerOperands(em, e.args, None),
         LAMBDA em1, inputs : Ok(em1, <<Constant(e.id, 4)>> \o inputs))

LowerSizedInt(em, e, requested) ==
    LET size == OrElse(RequestedSize(requested), OrElse(e.literal, e.size))
    IN  IF size = None THEN Err(em, "UnknownSize")
        ELSE CopyIfRequested(em, Constant(e.value, size), requested)

ExtractRange(em, input, start, bits, requested) ==
    LET size == DivCeilByte(bits)
    IN  IF ~RangeValid(input, start, bits) THEN Err(em, "InvalidRange")
        ELSE IF requested # None /\ RequestedSize(requested) # size
        THEN Err(em, "CopySizeMismatch")
        ELSE Then(AllocateUnique(em, input.size), LAMBDA em1, shifted :
             Then(AllocateUnique(
                    Emit(em1, "IntRight", shifted,
                         <<input, Constant(start, input.size)>>), input.size),
               LAMBDA em2, masked :
             Then(Output(Emit(em2, "IntAnd", masked,
                              <<shifted, Constant(Mask(bits), input.size)>>),
                         requested, size),
               LAMBDA em3, output :
                 EmitTo(em3, "SubPiece", output, <<masked, Constant(0, 8)>>))))

LowerIdent(em, e, requested) ==
    IF e.ident.form = "BitRange"
    THEN LET info == BitRangeInfo(e.ident.id)
         IN  IF info = None THEN Err(em, "Unsupported")
             ELSE ExtractRange(em, info.storage, info.start, info.bits, requested)
    ELSE Then(StorageForIdent(em, e.ident, e.size),
              LAMBDA em1, input : CopyIfRequested(em1, input, requested))

\* The `size` bytes at `ptr`; a constant is its own content.
LoadFrom(em, space, ptr, size, requested) ==
    IF size = None THEN Err(em, "UnknownSize")
    ELSE IF space = ConstSpace
    THEN IF ptr.size # size THEN Err(em, "Unsupported")
         ELSE CopyIfRequested(em, ptr, requested)
    ELSE Then(Output(em, requested, size), LAMBDA em1, output :
           EmitTo(em1, "Load", output, <<SpaceId(space), ptr>>))

LowerLoad(em, e, requested) ==
    LET space == LoadSpace(e)
        size == OrElse(RequestedSize(requested), OrElse(e.bytes, e.size))
    IN  IF space = None THEN Err(em, "UnresolvedSpace")
        ELSE Then(IF space = ConstSpace THEN LowerExpr(em, e.ptr, None)
                                        ELSE LowerPointer(em, space, e.ptr),
                  LAMBDA em1, ptr : LoadFrom(em1, space, ptr, size, requested))

\* The bounds are checked after the output is allocated: the check's failure
\* leaves the emitter with the temporary taken.
LowerSubPieceMsb(em, e, requested) ==
    Then(LowerExpr(em, e.src, None), LAMBDA em1, input :
      LET rest == IF e.count > input.size THEN 0 ELSE input.size - e.count
          size == OrElse(RequestedSize(requested), OrElse(e.size, rest))
      IN  Then(Output(em1, requested, size), LAMBDA em2, output :
            IF e.count >= input.size \/ size > input.size - e.count
            THEN Err(em2, "InvalidRange")
            ELSE EmitTo(em2, "SubPiece", output, <<input, Constant(e.count, 8)>>)))

LowerSubPieceLsb(em, e, requested) ==
    Then(LowerExpr(em, e.src, None), LAMBDA em1, input :
      IF e.count \notin 1 .. input.size THEN Err(em1, "InvalidRange")
      ELSE Then(Output(em1, requested, e.count), LAMBDA em2, output :
             EmitTo(em2, "SubPiece", output, <<input, Constant(0, 8)>>)))

LowerRange(em, e, requested) ==
    Then(LowerExpr(em, e.value, None), LAMBDA em1, input :
      IF ~RangeKnown(e) THEN Err(em1, "UnresolvedRangeParameter")
      ELSE ExtractRange(em1, input, e.start, e.bits, requested))

\* The first width known among `args`.
FirstKnownSize(em, args) ==
    LET known == {n \in DOMAIN args : KnownSize(em, args[n]) # None}
    IN  IF known = {} THEN None ELSE KnownSize(em, args[Min(known)])

\* Faulty: the operands of a carry are each lowered at their own width.
LowerOwnArgs(em, e) ==
    IF e.builtin \in CarryBuiltins /\ FirstKnownSize(em, e.args) = None
    THEN Err(em, "UnknownSize")
    ELSE LowerOperands(em, e.args, None)

LowerBuiltinArgs(em, e) ==
    IF e.builtin \in CarryBuiltins /\ e.args # <<>>
    THEN LET width == FirstKnownSize(em, e.args)
         IN  IF width = None THEN Err(em, "UnknownSize")
             ELSE LowerOperands(em, e.args, width)
    ELSE LowerOperands(em, e.args, None)

LowerBuiltin(em, e, requested) ==
    LET own == CASE e.builtin \in BooleanBuiltins -> 1
                 [] e.builtin \in WidthPreservingBuiltins /\ e.args # <<>> ->
                       KnownSize(em, e.args[1])
                 [] OTHER -> None
        size == OrElse(RequestedSize(requested), OrElse(e.size, own))
    IN  IF size = None THEN Err(em, "UnknownSize")
        ELSE Then(Output(em, requested, size), LAMBDA em1, output :
             Then(LowerBuiltinArgs(em1, e), LAMBDA em2, inputs :
               EmitTo(em2, e.builtin, output, inputs)))

LowerPcodeOp(em, e, requested) ==
    LET size == OrElse(RequestedSize(requested), e.size)
    IN  IF size = None THEN Err(em, "UnknownSize")
        ELSE Then(Output(em, requested, size), LAMBDA em1, output :
             Then(LowerUseropInputs(em1, e), LAMBDA em2, inputs :
               EmitTo(em2, "CallOther", output, inputs)))

\* An address symbol is a literal, and is its own address; any other operand
\* must be storage, whose offset is the value.
LowerAddressOf(em, e, requested) ==
    IF e.e.kind = "SizedInt"
    THEN LET size == OrElse(e.width, OrElse(e.e.literal, e.e.size))
         IN  IF size = None THEN Err(em, "UnknownSize")
             ELSE CopyIfRequested(em, Constant(e.e.value, size), requested)
    ELSE IF e.e.kind # "Ident" THEN Err(em, "Unsupported")
    ELSE Then(StorageForIdent(em, e.e.ident, e.e.size), LAMBDA em1, storage :
           LET size == OrElse(e.width, AddressSize(storage.space))
           IN  IF size = None THEN Err(em1, "UnknownSize")
               ELSE CopyIfRequested(em1, Constant(storage.offset, size), requested))

LowerUnop(em, e, requested) ==
    LET own == IF e.op = "BoolNegate" THEN 1 ELSE KnownSize(em, e.e)
        size == OrElse(RequestedSize(requested), OrElse(e.size, own))
    IN  IF e.op = "AddressOf" THEN LowerAddressOf(em, e, requested)
        ELSE IF size = None THEN Err(em, "UnknownSize")
        ELSE Then(IF KnownSize(em, e.e) # None
                  THEN LowerExpr(em, e.e, None)
                  ELSE LowerExprWithSize(em, e.e, size), LAMBDA em1, input :
             Then(Output(em1, requested, size), LAMBDA em2, output :
               EmitTo(em2, e.op, output, <<input>>)))

\* The opcode, and whether the operands are exchanged for it.
BinaryOpcode(op) == IF op \in DOMAIN Swapped THEN Swapped[op] ELSE op

BinopError(op, output, inputs) ==
    CASE op \in Boolean /\ output.size # 1 -> "InvalidBooleanSize"
      [] inputs[1].size # inputs[2].size -> "InputSizeMismatch"
      [] op \notin Boolean /\ output.size # inputs[1].size -> "CopySizeMismatch"
      [] OTHER -> "ok"

EmitBinop(em, op, output, inputs) ==
    Then(Check(em, BinopError(op, output, inputs)), LAMBDA em1, unit :
      EmitTo(em1, BinaryOpcode(op), output, inputs))

LowerBinop(em, e, requested) ==
    LET stated == OrElse(RequestedSize(requested), e.size)
        inputSize == OrElse(IF e.op \in Boolean THEN None ELSE stated,
                            OrElse(KnownSize(em, e.lhs), KnownSize(em, e.rhs)))
        size == OrElse(stated, IF e.op \in Comparison THEN 1 ELSE inputSize)
    IN  Then(LowerOperand(em, e.lhs, inputSize), LAMBDA em1, lhs :
        Then(LowerOperand(em1, e.rhs, inputSize), LAMBDA em2, rhs :
          IF size = None THEN Err(em2, "UnknownSize")
          ELSE Then(Output(em2, requested, size), LAMBDA em3, output :
                 EmitBinop(em3, e.op, output, IF e.op \in DOMAIN Swapped
                                              THEN <<rhs, lhs>> ELSE <<lhs, rhs>>))))

LowerExprByKind(em, e, requested) ==
    CASE e.kind = "SizedInt"     -> LowerSizedInt(em, e, requested)
      [] e.kind = "Ident"        -> LowerIdent(em, e, requested)
      [] e.kind = "Load"         -> LowerLoad(em, e, requested)
      [] e.kind = "SubPieceMsb"  -> LowerSubPieceMsb(em, e, requested)
      [] e.kind = "SubPieceLsb"  -> LowerSubPieceLsb(em, e, requested)
      [] e.kind = "Range"        -> LowerRange(em, e, requested)
      [] e.kind = "FunctionCall" -> LowerBuiltin(em, e, requested)
      [] e.kind = "PcodeOp"      -> LowerPcodeOp(em, e, requested)
      [] e.kind = "Unop"         -> LowerUnop(em, e, requested)
      [] e.kind = "Binop"        -> LowerBinop(em, e, requested)
      [] e.kind = "Internal"     -> Err(em, "InternalNode")

----------------------------------------------------------------------------
(* Bit-range writes.                                                       *)

\* A lane of wide storage is written, or stored, on its own: the value must
\* fill it exactly.
LowerLaneValue(em, rhs, lane) ==
    Then(LowerExprWithSize(em, rhs, lane.size), LAMBDA em1, value :
      IF value.size # lane.size THEN Err(em1, "CopySizeMismatch")
                                ELSE Ok(em1, value))

Extend(em, value, size) ==
    IF value.size > size THEN Err(em, "InputSizeMismatch")
    ELSE IF value.size = size THEN Ok(em, value)
    ELSE Then(AllocateUnique(em, size), LAMBDA em1, temp :
           EmitTo(em1, "IntZext", temp, <<value>>))

\* A temporary of `size` bytes, computed by one operation.
Temp(em, opcode, left, right, size) ==
    Then(AllocateUnique(em, size), LAMBDA em1, temp :
      EmitTo(em1, opcode, temp, <<left, Constant(right, size)>>))

\* The value of `rhs`, extended, masked and shifted to where its bits go.
LowerRangeValue(em, rhs, start, bits, size) ==
    Then(Then(Then(LowerExprWithSize(em, rhs, DivCeilByte(bits)),
      LAMBDA em1, value : Extend(em1, value, size)),
      LAMBDA em1, value : Temp(em1, "IntAnd", value, Mask(bits), size)),
      LAMBDA em1, value : Temp(em1, "IntLeft", value, start, size))

\* Combines the range of `storage` with the value of `rhs`: computes the
\* value, clears the range, and ors the two into the output that Result(em)
\* provides.
CombineRange(em, storage, start, bits, rhs, Result(_)) ==
    Then(LowerRangeValue(em, rhs, start, bits, storage.size), LAMBDA em1, shifted :
    Then(Temp(em1, "IntAnd", storage, ClearMask(start, bits), storage.size),
      LAMBDA em2, kept :
    Then(Result(em2), LAMBDA em3, output :
      EmitTo(em3, "IntOr", output, <<kept, shifted>>))))

\* Faulty: clears the range in place before the value is computed.
InsertRangeInPlace(em, storage, start, bits, rhs) ==
    IF ~RangeValid(storage, start, bits) \/ storage.size > WordBytes
    THEN Err(em, "InvalidRange")
    ELSE CombineRange(
           Emit(em, "IntAnd", storage,
                <<storage, Constant(ClearMask(start, bits), storage.size)>>),
           storage, start, bits, rhs, LAMBDA em1 : Ok(em1, storage))

InsertRange(em, storage, start, bits, rhs) ==
    LET lane == AlignedLane(storage, start, bits)
    IN  IF ~RangeValid(storage, start, bits) THEN Err(em, "InvalidRange")
        ELSE IF storage.size <= WordBytes
        THEN CombineRange(em, storage, start, bits, rhs,
                          LAMBDA em1 : Ok(em1, storage))
        ELSE IF lane = None THEN Err(em, "InvalidRange")
        ELSE Then(LowerLaneValue(em, rhs, lane), LAMBDA em1, value :
               EmitTo(em1, "Copy", lane, <<value>>))

Moved(em, ptr, offset) ==
    IF offset = 0 THEN Ok(em, ptr) ELSE Temp(em, "IntAdd", ptr, offset, ptr.size)

\* Stores `value` at the load's pointer, moved up by `offset` bytes.  The
\* pointer expression is lowered again for it.
StoreBack(em, load, offset, value) ==
    LET space == LoadSpace(load)
    IN  IF space = ConstSpace THEN Err(em, "Unsupported")
        ELSE Then(Then(LowerPointer(em, space, load.ptr),
               LAMBDA em1, ptr : Moved(em1, ptr, offset)),
               LAMBDA em1, ptr :
                 Ok(Emit(em1, "Store", None, <<SpaceId(space), ptr, value>>), None))

\* The bits of `range` in `storage`, which was loaded, written and stored.
WriteBack(em, storage, range, rhs) ==
    LET lane == AlignedLane(storage, range.start, range.bits)
    IN  IF ~RangeValid(storage, range.start, range.bits) THEN Err(em, "InvalidRange")
        ELSE IF storage.size <= WordBytes
        THEN Then(CombineRange(em, storage, range.start, range.bits, rhs,
                    LAMBDA em1 : AllocateUnique(em1, storage.size)),
               LAMBDA em1, result : StoreBack(em1, range.value, 0, result))
        ELSE IF lane = None THEN Err(em, "InvalidRange")
        ELSE Then(LowerLaneValue(em, rhs, lane), LAMBDA em1, value :
               StoreBack(em1, range.value, range.start \div ByteBits, value))

\* A bit-range write to a memory operand: load, modify, store.
LowerLoadRangeAssignment(em, range, rhs) ==
    Then(LowerLoad(em, range.value, None), LAMBDA em1, storage :
      IF ~RangeKnown(range) THEN Err(em1, "UnresolvedRangeParameter")
      ELSE WriteBack(em1, storage, range, rhs))

LowerRangeAssignment(em, range, rhs) ==
    IF range.value.kind = "Load" THEN LowerLoadRangeAssignment(em, range, rhs)
    ELSE IF range.value.kind # "Ident" THEN Err(em, "Unsupported")
    ELSE Then(StorageForIdent(em, range.value.ident, range.value.size),
           LAMBDA em1, storage :
             IF ~RangeKnown(range) THEN Err(em1, "UnresolvedRangeParameter")
             ELSE InsertRange(em1, storage, range.start, range.bits, rhs))

----------------------------------------------------------------------------
(* Statements.                                                             *)

LowerAssignment(em, st) ==
    IF st.lhs.form = "BitRange"
    THEN LET info == BitRangeInfo(st.lhs.id)
         IN  IF info = None THEN Err(em, "Unsupported")
             ELSE InsertRange(em, info.storage, info.start, info.bits, st.rhs)
    ELSE Then(StorageForIdent(em, st.lhs, OrElse(st.size, KnownSize(em, st.rhs))),
              LAMBDA em1, output : LowerExpr(em1, st.rhs, output))

\* Faulty: the value is computed before the pointer.
LowerStoreValueFirst(em, st) ==
    LET space == LoadSpace(st.load)
    IN  IF space \in {None, ConstSpace} THEN Err(em, "UnresolvedSpace")
        ELSE Then(LowerExpr(em, st.rhs, None), LAMBDA em1, value :
             Then(LowerExpr(em1, st.load.ptr, None), LAMBDA em2, ptr :
               Ok(Emit(em2, "Store", None, <<SpaceId(space), ptr, value>>), None)))

\* A store of an explicit width takes a value of that width.
StoreSizeError(bytes, value) ==
    CASE bytes = None       -> "ok"
      [] bytes = 0          -> "ZeroSize"
      [] bytes # value.size -> "StoreSizeMismatch"
      [] OTHER              -> "ok"

LowerStoredValue(em, e, bytes) ==
    Then(LowerOperand(em, e, bytes), LAMBDA em1, value :
      Then(Check(em1, StoreSizeError(bytes, value)), LAMBDA em2, unit : Ok(em2, value)))

LowerStore(em, st) ==
    LET space == LoadSpace(st.load)
    IN  IF space = None THEN Err(em, "UnresolvedSpace")
        ELSE IF space = ConstSpace THEN Err(em, "Unsupported")
        ELSE Then(LowerPointer(em, space, st.load.ptr), LAMBDA em1, ptr :
             Then(LowerStoredValue(em1, st.rhs, st.load.bytes), LAMBDA em2, value :
               Ok(Emit(em2, "Store", None, <<SpaceId(space), ptr, value>>), None)))

LabelDefined(em, name) == name \in Range(em.labels)

\* A literal is an address in the default space; its width is its own, or
\* that of the space's addresses.
DirectTarget(em, e) ==
    LET size == OrElse(e.literal, OrElse(e.size, AddressSize(DefaultSpace)))
    IN  IF e.kind # "SizedInt" THEN Err(em, "InvalidDirectTarget")
        ELSE IF size = None THEN Err(em, "UnknownSize")
        ELSE IF size = 0 THEN Err(em, "ZeroSize")
        ELSE Ok(em, Varnode(DefaultSpace, e.value, size))

\* Faulty: a branch to a label nothing defines is let through.
LowerDirectFlowUnchecked(em, opcode, target, condition) ==
    CASE target.form = "Label" ->
            Ok(Report(em, [event |-> "branch", opcode |-> opcode,
                           label |-> target.name, condition |-> condition]), None)
      [] target.form = "Node" -> Err(em, "InternalNode")
      [] target.form = "Expr" ->
            Then(DirectTarget(em, target.expr), LAMBDA em1, address :
              EmitTo(em1, opcode, None, <<address>> \o condition))

\* `condition` holds the condition of a conditional branch, or is empty.
LowerDirectFlow(em, opcode, target, condition) ==
    CASE target.form = "Label" ->
            IF ~LabelDefined(em, target.name) THEN Err(em, "UnknownLabel")
            ELSE Ok(Report(em, [event |-> "branch", opcode |-> opcode,
                                label |-> target.name, condition |-> condition]),
                    None)
      [] target.form = "Node" -> Err(em, "InternalNode")
      [] target.form = "Expr" ->
            Then(DirectTarget(em, target.expr), LAMBDA em1, address :
              EmitTo(em1, opcode, None, <<address>> \o condition))

LowerConditionalBranch(em, st) ==
    Then(LowerExpr(em, st.condition, None), LAMBDA em1, condition :
      LowerDirectFlow(em1, "CBranch", st.target, <<condition>>))

LowerIndirectFlow(em, opcode, e) ==
    Then(LowerExpr(em, e, None), LAMBDA em1, target :
      EmitTo(em1, opcode, None, <<target>>))

LowerEffect(em, e) ==
    CASE e.kind = "PcodeOp" ->
            Then(LowerUseropInputs(em, e), LAMBDA em1, inputs :
              EmitTo(em1, "CallOther", None, inputs))
      [] e.kind = "Internal" -> Err(em, "InternalNode")
      [] OTHER               -> Err(em, "Unsupported")

\* Faulty: a label defined twice is let through.
LowerLabelAgain(em, name) ==
    IF ~LabelDefined(em, name) THEN Err(em, "UnknownLabel")
    ELSE Ok(Report(em, [event |-> "label", label |-> name]), None)

\* Faulty: a label is reported before it is known to be new.
LowerLabelFirst(em, name) ==
    IF ~LabelDefined(em, name) THEN Err(em, "UnknownLabel")
    ELSE LET em1 == Report(em, [event |-> "label", label |-> name])
         IN  IF name \in em.defined THEN Err(em1, "DuplicateLabel")
             ELSE Ok([em1 EXCEPT !.defined = @ \cup {name}], None)

LowerLabel(em, name) ==
    IF ~LabelDefined(em, name) THEN Err(em, "UnknownLabel")
    ELSE IF name \in em.defined THEN Err(em, "DuplicateLabel")
    ELSE Ok(Report([em EXCEPT !.defined = @ \cup {name}],
                   [event |-> "label", label |-> name]), None)

LowerStatement(em, st) ==
    CASE st.kind = "Assignment"        -> LowerAssignment(em, st)
      [] st.kind = "LoadAssignment"    -> LowerStore(em, st)
      [] st.kind = "RangeAssignment"   -> LowerRangeAssignment(em, st.range, st.rhs)
      [] st.kind = "Label"             -> LowerLabel(em, st.name)
      [] st.kind = "Branch"            -> LowerDirectFlow(em, "Branch", st.target, <<>>)
      [] st.kind = "ConditionalBranch" -> LowerConditionalBranch(em, st)
      [] st.kind = "BranchIndirect"    -> LowerIndirectFlow(em, "BranchInd", st.target)
      [] st.kind = "Call"              -> LowerDirectFlow(em, "Call", st.target, <<>>)
      [] st.kind = "CallIndirect"      -> LowerIndirectFlow(em, "CallInd", st.target)
      [] st.kind = "Return"            -> LowerIndirectFlow(em, "Return", st.target)
      [] st.kind = "Expression"        -> LowerEffect(em, st.expr)
      [] st.kind \in {"Internal", "Export"} -> Err(em, "InternalNode")

\* The emitter after one statement, its events those of that statement.
EmitStatement(em, st) == LowerStatement([em EXCEPT !.events = <<>>], st).em
============================================================================
