-------------------------- MODULE LowerInstruction --------------------------
(***************************************************************************)
(* Lowering one instruction from end to end (instruction.rs,               *)
(* `lower_instruction`, `collect_ops`): infer the widths of the locals,    *)
(* plan, emit every statement into the collector, and resolve its local    *)
(* branches.  The first error ends it, and what was emitted is dropped.    *)
(*                                                                         *)
(* The passes are the components' own: SizeInference, Planner, Emitter and *)
(* Collector, each fed the same statements in the same order.  Pipeline    *)
(* says what they promise each other, and has their common variables.      *)
(***************************************************************************)
EXTENDS Emitter, Pipeline, GrowingSpace, Constraints, SequencesExt

CONSTANTS
    UseropsOf(_),   \* UseropsOfByKind
    OpcodesOf(_)    \* OpcodesOfByKind

VARIABLES
    sizes, progressed, pos, pass, done        \* SizeInference

inferVars == <<statements, sizes, progressed, pos, pass, done>>
vars == <<inferVars, planVars, emitter, sinkVars>>

Infer == INSTANCE SizeInference
    WITH Fed <- AfterStatement, LocalsIn <- StatementLocals,
         Statement <- UNION {Range(program) : program \in Programs},
         Knowns <- [Local -> Nat \cup {None}]

\* An instruction is decoded: each table operand was replaced by its export.
ASSUME ConcreteAssumption == OperandWidths = {}

\* A missing varnode is none.
ASSUME HomeAssumption == None \notin Home

\* An instruction names finitely many locals.
ASSUME FiniteAssumption == IsFiniteSet(Local)

\* Instructions are statements a producer may feed.
ASSUME StatementsAssumption ==
    \A program \in Programs : \A k \in DOMAIN program : IsStatement(program[k])

\* A sink told of one event after the other.
DeliverAll(c, events) ==
    LET after[n \in 0 .. Len(events)] ==
          IF n = 0 THEN c ELSE Flat!Deliver(after[n - 1], events[n])
    IN  after[Len(events)]

----------------------------------------------------------------------------
Init ==
    /\ Infer!Init
    /\ PipeInit
    /\ emitter = NewEmitter(<<>>, [id \in Local |-> None])

InferStep == Infer!Next /\ UNCHANGED <<planVars, emitter, sinkVars>>

PlanStep == done /\ PlanOne /\ UNCHANGED <<inferVars, emitter>>

\* The plan is complete, and the emitter starts on it.
StartEmission ==
    /\ done
    /\ EndPlan
    /\ emitter' = NewEmitter(labels, sizes)
    /\ UNCHANGED inferVars

\* One statement, with everything it reports to the sink.
EmitStep ==
    /\ finished
    /\ outcome = "open"
    /\ emitted < Len(statements)
    /\ emitter' = EmitStatement(emitter, statements[emitted + 1])
    /\ emitted' = emitted + 1
    /\ collector' = DeliverAll(collector, emitter'.events)
    /\ stream' = stream \o emitter'.events
    /\ outcome' = IF Failed(emitter') THEN emitter'.err ELSE "open"
    /\ UNCHANGED <<inferVars, planVars>>

Resolve == ResolveBranches /\ UNCHANGED <<inferVars, emitter>>

Next == InferStep \/ PlanStep \/ StartEmission \/ EmitStep \/ Resolve

\* An EmitStep, seen by its counter: it can be taken whenever its guards hold.
Emission ==
    /\ finished
    /\ outcome = "open"
    /\ emitted < Len(statements)
    /\ emitted' = emitted + 1

\* Lowering is one synchronous call: whatever step it can take, it takes.
Fairness ==
    /\ WF_vars(InferStep \/ PlanStep \/ StartEmission \/ Resolve)
    /\ WF_emitted(Emission)

Spec == Init /\ [][Next]_vars /\ Fairness

----------------------------------------------------------------------------
(* Properties.                                                             *)

TypeOK ==
    /\ PipeTypeOK
    /\ done \in BOOLEAN
    /\ emitter.next \in 0 .. MaxWord
    /\ finished => emitter.sizes = sizes
    /\ emitter.defined \subseteq Range(emitter.labels)

\* The emitter's storage implements the growing space: every statement, also
\* one that fails half way, takes bytes from the pointer on, gives new locals
\* homes apart from each other among them, as wide as the plan says, moves no
\* other, and writes and reads nothing else of the unique space.
StorageGrows == SpaceSpec

\* A statement writes a register, a local or memory with its last operation
\* only, so its expressions read what the storage held before the statement.
StorageWrittenLast ==
    \A i, j \in DOMAIN emitter.events :
       /\ i < j
       /\ emitter.events[i].event = "op" /\ emitter.events[j].event = "op"
       => /\ emitter.events[i].opcode # "Store"
          /\ emitter.events[i].output # None => IsTemporary(emitter.events[i].output)

\* The user operation an event calls, if any, and those that several call.
CallOf(e) ==
    IF e.event = "op" /\ e.opcode = "CallOther" THEN <<e.inputs[1].offset>> ELSE <<>>

UseropsCalled(events) == FlattenSeq([n \in DOMAIN events |-> CallOf(events[n])])

\* The user operations a source expression calls, in evaluation order: the
\* arguments' from left to right, then its own.
UseropsOfByKind(e) ==
    FlattenSeq([n \in DOMAIN Subexpressions(e) |->
                  UseropsOf(Subexpressions(e)[n])])
      \o (IF e.kind = "PcodeOp" THEN <<e.id>> ELSE <<>>)

\* A bit-range write to memory evaluates its pointer for the load and again
\* for the store.
StatementUserops(st) ==
    CASE st.kind = "Assignment"        -> UseropsOf(st.rhs)
      [] st.kind = "LoadAssignment"    -> UseropsOf(st.load.ptr) \o UseropsOf(st.rhs)
      [] st.kind = "RangeAssignment"   ->
            LET ptr == UseropsOf(st.range.value)
            IN  ptr \o UseropsOf(st.rhs) \o ptr
      [] st.kind = "ConditionalBranch" -> UseropsOf(st.condition)
      [] st.kind \in {"BranchIndirect", "CallIndirect", "Return"} ->
            UseropsOf(st.target)
      [] st.kind = "Expression"        -> UseropsOf(st.expr)
      [] OTHER                         -> <<>>

\* The user operations of a lowered instruction, whose effects lowering knows
\* nothing of, are called in the order the source evaluates them, and as
\* often: none is dropped, repeated or moved across another.
UseropsInOrder ==
    Lowered =>
       UseropsCalled(stream) =
          FlattenSeq([k \in DOMAIN statements |-> StatementUserops(statements[k])])

SameWidths(inputs) ==
    \A m, n \in DOMAIN inputs : inputs[m].size = inputs[n].size

\* The opcodes whose operands have one width, and those whose result has it.
SameWidthOperands == {BinaryOpcode(op) : op \in BinaryOperators}

SameWidthResult ==
    {"Copy", "IntNegate", "Int2Comp", "FloatNeg"}
      \cup (BinaryOperators \ Boolean) \cup WidthPreservingBuiltins

OneByteResult == {BinaryOpcode(op) : op \in Boolean} \cup BooleanBuiltins \cup {"BoolNegate"}

\* Raw p-code's rules for the widths of an operation's operands,
OperandsFit(o) ==
    CASE o.opcode \in SameWidthOperands ->
            SameWidths(o.inputs)
      [] o.opcode \in {"Load", "Store"} ->
            \E space \in DOMAIN SpaceNumbers :
               /\ o.inputs[1] = SpaceId(space)
               /\ o.inputs[2].size = AddressSize(space)
      [] o.opcode = "SubPiece" -> o.inputs[2].offset < o.inputs[1].size
      [] OTHER -> TRUE

\* and of its result.  A SUBPIECE drops as many bytes as its second operand
\* says; a load, a user operation and a conversion of floats have results of
\* any width.
ResultFits(o) ==
    CASE o.opcode \in SameWidthResult ->
            \A n \in DOMAIN o.inputs : o.output.size = o.inputs[n].size
      [] o.opcode \in OneByteResult -> o.output.size = 1
      [] o.opcode \in {"IntZext", "IntSext"} ->
            \A n \in DOMAIN o.inputs : o.output.size > o.inputs[n].size
      [] o.opcode = "SubPiece" ->
            o.output.size + o.inputs[2].offset <= o.inputs[1].size
      [] OTHER -> TRUE

\* The opcodes of source operators whose results lowering gives the width that
\* their context asks for, without comparing it with the operand's.
ContextSized == UnaryOperators \cup Builtins \cup {"SubPiece"}

WellTyped(o) == OperandsFit(o) /\ (o.opcode \notin ContextSized => ResultFits(o))

\* Whatever an instruction is lowered to is raw p-code: no operation that only
\* analyses may add, no output without bytes, no operands of widths that do not
\* go together, and no result that does not go with them, but for the source
\* operators whose result takes any width.
OpsWellTyped ==
    \A k \in DOMAIN stream : stream[k].event = "op" =>
       /\ stream[k].opcode \in RawOpcodes
       /\ stream[k].output # None => stream[k].output.size > 0
       /\ WellTyped(stream[k])

\* Those of the opcodes that a source expression names itself: a unary
\* operator, a builtin function and `x:n`.
OpcodesOfByKind(e) ==
    (CASE e.kind = "Unop"         -> {e.op}
       [] e.kind = "FunctionCall" -> {e.builtin}
       [] e.kind = "SubPieceLsb"  -> {"SubPiece"}
       [] OTHER                   -> {})
      \cup UNION {OpcodesOf(Subexpressions(e)[n]) : n \in DOMAIN Subexpressions(e)}

StatementOpcodes(st) ==
    CASE st.kind = "Assignment"        -> OpcodesOf(st.rhs)
      [] st.kind = "LoadAssignment"    -> OpcodesOf(st.load) \cup OpcodesOf(st.rhs)
      [] st.kind = "RangeAssignment"   -> OpcodesOf(st.range) \cup OpcodesOf(st.rhs)
      [] st.kind = "ConditionalBranch" -> OpcodesOf(st.condition)
      [] st.kind \in {"BranchIndirect", "CallIndirect", "Return"} ->
            OpcodesOf(st.target)
      [] st.kind = "Expression"        -> OpcodesOf(st.expr)
      [] OTHER                         -> {}

\* What lowering inserts for widths to meet always fits, also in a statement
\* that fails half way: its extensions widen, and its truncations take no more
\* bytes than there are.  A result that does not fit is one the source asked
\* for, with an operator of that opcode in the same statement.
ConversionsFit ==
    \A n \in DOMAIN emitter.events :
       LET o == emitter.events[n]
       IN  o.event = "op" =>
              ResultFits(o) \/ o.opcode \in StatementOpcodes(statements[emitted])

\* The operands of a carry have one width, whichever of them brings it, in
\* every statement that takes no address (run doc_carry_operands has one that
\* does).
CarryOperandsFit ==
    \A n \in DOMAIN emitter.events :
       LET o == emitter.events[n]
       IN  /\ o.event = "op" /\ o.opcode \in CarryBuiltins
           /\ "AddressOf" \notin StatementOpcodes(statements[emitted])
           => SameWidths(o.inputs)

\* Whatever the expressions are, lowering implements the abstract passes: a
\* statement reports its computation and then at most its one label, branch
\* or call, also when it fails.
IsPipeline == PipeSpec

\* Lowering ends.
Terminates == <>(outcome # "open")

----------------------------------------------------------------------------
(* What the documentation says of the code, where the code disagrees.      *)

\* `is_terminal`: "whether `label` stands after this instruction's last
\* operation".
LabelAtEndIsTerminal ==
    Lowered =>
       \A id \in DOMAIN labels :
          collector.marks[labels[id]] = Len(collector.ops) => terminal[id]

\* `lower_builtin`: "Carry-family operands must all have the same width, so
\* derive it from any concrete operand before lowering".
CarryOperandsAgree ==
    \A k \in DOMAIN stream :
       stream[k].event = "op" /\ stream[k].opcode \in CarryBuiltins
       => SameWidths(stream[k].inputs)
============================================================================
