# Verification of the `pcode` crate

The crate represents SLEIGH semantics as statement and expression trees and
lowers the statements of one decoded instruction to raw p-code. This directory
holds TLA+ models of the lowering pipeline, the TLC configurations that check
them, and machine-checked proofs about the planner, the collector, width
inference, the unique space, the operand buffer and, for any statements and
expressions, the lowering that is made of them. Line numbers below are those of `src/instruction.rs` in the repository, unless a path is given.

The program is a single-threaded library: no threads, I/O, persistence or
messages. Everything that makes it hard is sequential: several passes read the
same statements and must agree, results of an early pass are relied on in a
later one, references go forward to what has not been seen, a bounded loop must
reach its fixed point, and every operation allocates from one storage.

## 1. Inventory

| Component | State | Operations | Correct when |
|---|---|---|---|
| Statement and expression nodes (`streaming.rs`, `statement.rs`, `expression*.rs`) | none: immutable trees, arena nodes, operator tables | construct, convert the owned tree to nodes, walk | a pass sees the shape the producer built |
| Width queries, trait `Sizing` (2239-2418) | none; reads what one phase knows of widths | `expr_size`, `storage_size`, `range_parameters`, `load_space` | both phases give an expression the same width once the locals are known |
| Width inference, `SizeInference` (2009-2237) | width per local, "progressed" | `statement`, `constrain_*`, `run`, `finish` | first use wins; ends; on a fixed point; order decides no coverage |
| Symbolic inference and `resolve_body_widths` (628-797) | as above, with widths that name a table's export | `resolve_body_widths`, `live_locals` | once decoded, the widths concrete inference finds |
| Planner (1913-1998) | labels, terminal flags, direct branches and calls | `statement`, `opaque_statement`, `finish` | the plan is exactly what emission will report |
| Emitter (906-1866) | next free unique offset, varnode per local, labels defined | `lower_*`, `allocate_unique`, `insert_range` and so on, one per statement and expression kind | storage is disjoint, operands are computed before they are read, effects keep their order, operations obey raw p-code's width rules |
| Collector (563-609) | operations, label marks, fixups | `op`, `label`, `branch_label`, `finish` | local branches land on their labels; failure exactly for a missing label |
| Entry points (799-896) | none | `infer_local_sizes`, `plan_instruction*`, `emit_instruction`, `lower_instruction*`, `collect_ops` | passes run in order, the first error ends lowering |
| Streaming producers and sinks (`streaming.rs`, 540-620) | the producer's and the sink's own | `PcodeSink`, node traits | a sink is told a consistent prefix |
| Local variable interner (`expression/ids.rs`) | name table | intern, resolve | dense ids, one per name |
| Operand buffer `Inputs` | inline array or spilled vector | push, as slice | a sequence of varnodes |
| Pretty printing, errors, spans, serialization, spaces, registers | none | formatting, derived code | text only |

**Interactions.** All are synchronous calls with one thread of control.
Inference, planning and emission are fed the same statements in the same order.
The widths inference finds and the labels planning declares make up the
`PcodePlan`. The emitter reads it, keeps its own view of the locals already
placed, and calls the sink for each operation, label and local branch. The
collector is the sink that makes flat p-code. The first error returns through
every layer with `?`; what the sink was told before it is discarded by
`lower_instruction` and kept by any other sink.

**What is hard.** `PROJECT.json` lists each hazard at its line. In short:
forward references (a branch collected before its label is known); a flag that
must describe the *end* of a sequence while the sequence grows; two passes that
must agree; passes bounded by a number that has nothing to do with what they
chase; the widths of locals in two phases, and before and after decoding; a
pointer that must not wrap; source order of effects under operand exchange and
temporaries; a statement that reads what it writes; masks and lanes at a word's
boundary; a statement that fails half way.

## 2. Modules

| Module | Models | State and actions |
|---|---|---|
| `Pcode` | varnodes, operations, the node kinds and operator classes the passes distinguish | none: constructors |
| `LoweringContext` | `PcodeLoweringContext`: registers, bit ranges, address sizes, the space table | none: constants |
| `Nodes` | what a node of each kind holds and how expressions nest (`ExprKind`, `StmtKind`, `TargetNode`) | none: assumptions on the constants |
| `Sizing` | trait `Sizing` | none: `ExprSizeByKind` and the other queries over an `env`, one phase's knowledge |
| `Constraints` | `SizeInference::constrain_*`, `live_locals`: what a statement tells about the widths of its locals | none: `AfterStatement` (the widths known after a statement), `StatementLocals` |
| `SizeInference` | `SizeInference::run`, with the rules as parameters: `Fed` is `AfterStatement` and `LocalsIn` is `StatementLocals` | `FeedStatement` feeds one statement, `NextPass` starts a pass, `Finish` returns |
| `PassSequence` | what the loop of `SizeInference::run` promises, whatever the statements are | `AddWidths`, `NextPass`, `Return`; `SizeInference` implements it (`LoopIsPassSequence`) |
| `SymbolicInference` | `resolve_body_widths`, `SymbolicWidth`, and what decoding puts in place of a table operand | the machine of `SizeInference`, with widths that are names |
| `Planner` | `Planner` and the `PcodePlan` | `Feed(statement)`, `Finish`; identifiers count from 1 instead of 0 |
| `UniqueStorage` | `allocate_unique`, `storage_for_ident`, `output`, `copy_if_requested` | operators on an emitter record |
| `Sink` | what a `PcodeSink` was told | the history `stream`; what an event writes and reads |
| `GrowingSpace` | what the emitter promises of the unique space: a pointer, homes of locals, temporaries, over `emitter` and `stream` | `Begin` takes the plan; `Grow`: a step takes any number of temporaries and homes and reports any number of events; `LowerInstruction` implements it (`StorageGrows`) |
| `Emitter` | every other `lower_*` function | `EmitStatement(em, st)`: one statement, with everything it reports |
| `OperandBuffer` | `Inputs` (1868-1911) | `Push`; `Deref` is what it reads as |
| `OperandList` | what `Inputs` promises: a list | `ListPush`; `OperandBuffer` implements it (`IsOperandList`) |
| `Collector` | `Collector`, `collect_ops`'s resolution | `Receive(event)`, `Finish` |
| `Pipeline` | what planning, emission and resolution promise each other, whatever the expressions lower to | `PlanOne`, `EndPlan`, `EmitOne` (a label, a direct branch or call, other operations, or a failure after some of them), `ResolveBranches`; `LowerInstruction` implements it (`IsPipeline`) |
| `LowerInstruction` | `lower_instruction` from end to end | `InferStep`, `PlanStep`, `StartEmission`, `EmitStep`, `Resolve` |
| `PcodeSemantics` | what flat p-code does and what the source means, for whole instructions | no actions: interpreters of `collector.ops` and of `statements` |
| `PlannerProofs`, `CollectorProofs`, `PipelineProofs`, `PassProofs`, `InferenceProofs`, `StorageProofs`, `OperandProofs`, `LoweringProofs` | theorems, section 5 | |
| `MCPlanner`, `MCInference`, `MCCollector`, `MCLower`, `MCSemantics` | instances for TLC | |
| `MCNodes` | the expressions of an instance, how deep each nests, and the constants that close the recursion | |

`LowerInstruction` composes the others. It extends `Pipeline` and `GrowingSpace`,
whose variables (`stream`, the collector, the planner's, `emitter`) and
properties are its own, instantiates `SizeInference` over its variables with the
rules of `Constraints`, and drives the emitter and the collector through their
operators. The planner's and the resolution's steps are `Pipeline`'s; an
`EmitStep`, which `Pipeline` and `GrowingSpace` each describe from one side, is
computed by `EmitStatement`.

How code becomes model:

- A Rust function `lower_x(&mut self, ...) -> Result<PcodeOperand>` is an operator
  from an emitter record to `[em, v]`. `Then` is the `?` operator: after an
  error nothing more happens, but what was reported stays reported.
- Six functions recur over an expression: `expr_size`, `lower_expr`,
  `constrain_expr`, `live_locals::walk_expr` and, for properties, the user
  operations an expression calls and the opcodes it names. Each is an operator
  constant (`ExprSize`, `LowerExpr`, `ConstrainExpr`, `LocalsOf`, `UseropsOf`,
  `OpcodesOf`), and its body a definition that calls the constants for the node's parts (`ExprSizeByKind`,
  `LowerExprByKind`, ...). The configurations close the recursion, with
  `LowerExpr <- MCLowerExpr` and so on, where `MCLowerExpr(em, e, requested)` is
  `LowerExprByKind(em, e, requested)`, and TLC then evaluates the recursive
  function. The proofs reason about the same definitions from the hypothesis
  that each constant is what its definition says (section 5). `Depth` gives how
  deep each expression nests, and so which expressions there are.
- A statement is one step: no other party runs between its operations, so a
  finer grain would add states and no behaviour. The order of the operations
  inside a statement is in `emitter.events`, and the properties look at it.
- `stream` in `Sink` and `Collector`, and `fed` in `Planner`, are
  history variables; no step of the code's models depends on `stream`, and `fed`
  is read only to know how much has been fed.
- Operators that behave alike in lowering are represented by one of them (for
  instance `FloatAdd` by `IntAdd`); shifts, comparisons and boolean operators,
  which the code distinguishes, are distinguished.
- The pipeline says which operations there are, with which varnodes and in which
  order. What they compute is in `PcodeSemantics` alone, which executes them on
  bytes in little-endian order. Its other half evaluates the source, a local
  being a variable of its own, with unbounded arithmetic cut to the width a value
  is wanted in; it knows nothing of temporaries, masks or lanes. The semantics
  of operators is Ghidra's p-code reference, not code of this repository, and
  is marked external in `PROJECT.json`; a user operation's answer is a function
  of its operands that tells their order.
- Numbers are scaled. The code's word has 8 bytes (`u64` literals, shifts and
  masks, up to 8-byte ranges), `WordBytes` is 2 in the runs; a register of 4
  bytes then stands for one wider than a word, as an XMM register is. `MaxWord`
  is the largest number of the unique space's pointer.

An operator whose comment begins with *Faulty* is a plausible mistake in the
definition after it. Nothing uses it: `PROJECT.json` pairs each property with a
faulty variant under which TLC finds that property violated, which shows that
the property is sensitive to the code.

## 3. What the runs check

Passing runs:

| Run | Checks | Bounds, and why they are enough |
|---|---|---|
| `plan` | terminal flags, labels and destinations are exact after every statement; identifiers never move | 2 labels, 2 addresses, every sequence of 4 statements: a label fed again after another label and after a non-label needs 4. Larger instances are covered by the proofs |
| `inference` | `FirstUseWins`, `PassesFindLocals`, `FixedPointWhenLocalsFit`, `OrderIrrelevantToCoverage`, `SymbolicAgrees`, `LoopIsPassSequence`, and `RulesAssumption` for the code's rules: `MCKnowns` is everything the statements can find, fed in any order and number | every body of up to 3 of 33 statements over 3 locals. With 3 statements a chain of 3 locals, in the worst order, needs a pass for each and one to see that nothing changed, which is the code's bound exactly. Two tables, each exporting a narrow or a wide register |
| `collect` | `MarksExact`, `FlatExact`, `FailsExactly` | every stream of up to 5 events over 2 labels: forward, backward and empty distances, a label at either end, two branches to one label, no label. The words have 5 bits, enough for a distance of -5. Larger instances are covered by the proofs |
| `lower` | the plan agrees with what emission reports; terminal labels are past the end; resolution cannot fail; label errors are exact; `IsPipeline`; order of user operations; storage is written last; raw p-code's opcodes and width rules (`OpsWellTyped`, `ConversionsFit`, `CarryOperandsFit`); lowering ends | every body of up to 3 of 15 control-flow statements, two labels, missing and doubled ones included; and every load, store, range read and write of the families in `MCLower`, and operands of every width in every context (`ConversionStatements`: unary operators, builtins, truncations and loads under assignments, comparisons, shifts, carries and stores that want one byte, two or four), after a statement that gives a local its width. Ranges fill bytes or not, cross them or not, fit a word or not, are empty, lie outside their storage, or have parameters of a macro left open |
| `lower_widths` | locals and temporaries never share bytes; a temporary is written once, before it is read; locals stay at the plan's width; `StorageGrows` | every pair of assignments over two locals, a register and literals. The unique space has 7 usable bytes, so that dozens of the bodies run out of it, at every allocation a statement makes |
| `semantics` | `LoweringPreservesMeaning` | 596 programs from three contents of registers and memory. Bytes have two bits and words two bytes, so that every bit range of a word is read and written, of registers, locals and memory, with lanes of wider storage, every arithmetic and comparison operator on operands of equal and unequal widths, loops, forward and backward branches and each way out. `Fuel` is above what any of them executes: `source.exit # <<>>` says so |
| `operands` | `IsOperandList` | an array of 3, up to 6 inputs of 3 values: empty, filling, exactly full, the push that spills and those after it |

Deadlock is switched off in all of them: a lowered instruction, a finished
planner, collector or inference is done.

**What the properties mean.**

- *Planner.* `TerminalExact`: a label is flagged exactly when some definition of
  it has nothing but labels after it. `LabelsExact`: each label fed has exactly
  one identifier. `TargetsExact`: the literal destinations, each once, branches
  apart from calls. `LabelIdsStable`: identifiers handed out stay valid.
- *Inference.* `FirstUseWins`: no later statement or pass changes a width.
  `PassesFindLocals`: each pass but the last found a local.
  `FixedPointWhenLocalsFit`: when the body has no more locals than statements,
  another pass would find nothing. `OrderIrrelevantToCoverage`: feeding the same
  statements backward sizes the same locals (not always to the same width).
  `SymbolicAgrees`: whatever the tables export, the widths found before decoding
  are those found after it. It leaves out the bodies that compute with a
  table's width (`ComputesWidths`), for which run `doc_unsized` shows that it
  fails. `LoopIsPassSequence`: the machine implements the abstract loop of
  `PassSequence`, about which `PassProofs` proves the bound on the passes.
  `IsFixedPoint` is stated statement by statement: every one of them, fed once
  more, finds nothing.
- *Collector.* `FlatExact` compares the flat operations with the events
  received, one by one: a resolved branch at index i plus its signed
  distance is its label's mark. `MarksExact` says what a mark is.
  `FailsExactly` when resolution fails.
- *Lowering.* `PlanMatchesEmission` compares the plan with the stream
  after a successful lowering. `TerminalIsPastEnd`, `ResolutionNeverFails`,
  `LocalsDisjoint`, `TemporariesDefined`, `LocalsStayPut`, `UseropsInOrder`,
  `StorageWrittenLast` and `OpsWellTyped` are stated in the module next to the
  behaviour they are about; all but the first two and `UseropsInOrder` are about statements that
  fail half way too. `LabelErrorsExact`: an instruction is refused for a label
  exactly when one is defined twice or one it goes to is not defined (an
  instruction that lowers has neither, wherever the definitions stand).
  `OpsWellTyped`: opcodes are raw, outputs have bytes, the operands of a binary
  operator have one width, a load's or store's pointer is as wide as its space's
  addresses, a truncation drops less than there is, and copies and binary
  operators have a result of their operands' width or of one byte. Of the
  results of unary operators, builtins and truncations it says nothing: the code gives those
  whatever width their context asks for, with the consequences that section 4
  lists. `ConversionsFit` bounds that: every result is checked, and one
  that does not fit has the opcode of an operator the source statement itself
  names, so no extension or truncation that *lowering* inserts ever fails to
  fit. `CarryOperandsFit`: the operands of a carry are equally wide, also when
  only the last of them brings a width; statements that take an address are
  left out, for the reason run `doc_carry_operands` shows. Both look at
  `emitter.events`, and so at statements that fail half way.
  `IsPipeline`: each statement reports the operations its expressions need and
  then at most its one label, branch or call, also when it fails. `StorageGrows`:
  each statement, failing or not, is a step of `GrowingSpace`: it takes bytes
  from the pointer on, moves no home, writes nothing of the unique space but
  locals and temporaries of its own, and reads there nothing but locals and what
  it has written before. `LocalsStayPut` compares homes with the emitter's widths,
  which `TypeOK` says are those inference found. `LoweringPreservesMeaning`: for every instruction that
  lowers, executing the flat p-code and evaluating the source leave the same
  registers and memory, call the same user operations and destinations with the
  same operands, and leave the instruction the same way.
- *Operand buffer.* `IsOperandList`: each push adds its input to what `deref`
  answers, and nothing else.

**Fairness.** Only `LowerInstruction` states any: weak fairness of its steps.
Lowering is one synchronous call, and the loops in it do take their next step;
nothing is assumed about *which* step. It is stated in two parts, which cost TLC
less than `WF_vars(Next)`: of every action but `EmitStep`, and of `Emission`,
which is `EmitStep` seen by its counter. `Emission` has exactly `EmitStep`'s
guards, and `emitted` grows in no other step, so the one is enabled, and taken,
when the other is. `Terminates` says that the call returns: inference stops
making passes, every statement is planned and emitted, and resolution ends.

## 4. Where code and documentation differ

Each is a run that TLC ends with a counterexample:

| Run | Documentation | Code |
|---|---|---|
| `doc_fixed_point` | "Infers the widths of `statements` to a fixed point" (2031) | the passes are bounded by the number of statements; one statement that chains three locals needs more |
| `doc_terminal` | a terminal label "stands after this instruction's last operation" (487) | a label followed only by `w = w`, which emits nothing, is not flagged |
| `doc_unsized` | locals reported as unsized "are unsizable by *any* decode" (697) | the width of `&t` is that of the addresses of `t`'s space, which is looked up for registers and bit ranges only (2200, 2332); for a table operand `t` there is none, so a local assigned `&t` is reported, and a decoding that puts a register in place of `t` sizes it. A truncation `t(1)` (2155) is reported in the same way |
| `doc_carry_operands` | "Carry-family operands must all have the same width" (1263) | `expr_size` answers the width of `x` for `&x` (2307), so `carry(w, &w)` takes two bytes and an address of one |
| `doc_truncation` | `x:n` means to "keep the low `n` bytes of `x`" (`expression.rs:70`) | its SUBPIECE gets the width of the context: as a shift count `q:1` becomes the low two bytes of `q` |

Noticed while modelling, in the models, without a run. The result of a unary
operator or builtin gets the width of its context (1241, 1320), where the
documentation gives it its operand's width or one byte (`expression/ops.rs:14-25`,
`expression/ids.rs:66-79`): for registers of two and four bytes `q = ~w` becomes
an `IntNegate` from two bytes to four, `q = !w` a `BoolNegate` with a result of
four, and `w = carry(b, b)` a flag of two. In the same way `zext`, said to "widen" but
also to take its width from the context (`expression/ids.rs:105`), narrows where
the context is narrower than its operand. A `call <label>` reaches
`branch_label` with opcode `Call` (1049), where line 557 says that the opcode "is
`Branch` or `CBranch`". The documentation of
`lower_instruction` (861-862) says that ranges wider than a word are rejected,
but writes to a range of a *register* wider than a word lower; the repository's
`README.md:22-23` is older than bit-range lowering; `expr_size` drops a width the
producer gave a most-significant truncation when the source's width is unknown, as the
arm's `?` leaves the whole function (2289); a bit-range write to memory lowers
its pointer twice, so a user operation in it is called twice (`UseropsInOrder`
states it as the code does it).

## 5. What is proved

TLAPS checks every proof, for all values of the constants that satisfy the
assumptions named here.

**The planner** (`PlannerProofs`), for any names, addresses and bound on the
statements, from `MaxStatementsAssumption` only: `PlannerTyped`,
`TerminalFlagsExact`, `OneIdentifierPerLabel`, `DirectTargetsExact` are
`Spec => []P` for the four invariants of run `plan`, and `IdentifiersStayValid`
is `Spec => LabelIdsStable`.

The inductive invariant is `Inv == TypeOK /\ LabelsExact /\ TargetsExact /\
TerminalExact`. None of the parts is inductive alone but the first. A step that
feeds a label takes the identifier of a known label, which is unique, and hits
the right flag, only when each name has one position (`LabelsExact`) and
`terminal` has the domain of `labels` (`TypeOK`). A step that feeds something
else clears every flag, which agrees with `TerminalExact` only because "nothing
but labels after it" is then false of every position fed before. The proof has
lemmas about what the model is built from: `Declared` (keeps positions,
adds exactly its argument, no duplicates), `LabelId`, `fed` extended by one
statement, and `Ends`, the run of labels at the end. Then `LabelStep` and
`OtherStep` show that feeding a label, and feeding anything else, preserve the
invariant; `NextInv` puts them together. `LabelIdsStable` is an action
property: `KeptStep` derives it from the invariant and one step.

**The collector** (`CollectorProofs`), for any labels and events the emitter may
report (`EventsAssumption`), and streams of any length that half a word can
measure (`MaxEventsAssumption`): the four invariants of run `collect`.
The invariants speak of the resolved operations; the inductive one,
`CollectorInv`, says what the collector *holds* while it is open (`Holds`: one
operation per operation received, at the position counted before it; a mark for
each label; a fixup for each branch), and that a closed collector is one that
held that, resolved. `DeliverHolds` has one lemma per kind of event and part.
`FlatExact` then needs that no two operations are counted alike
(`CountGrows`), so that a position has one fixup (`OneFixup`), and that a distance,
taken modulo the word, reads back as itself (`DistanceRoundTrip`), which is
where the bound on the stream is used.

**The pipeline** (`PipelineProofs`), for any instruction, of any length, names
and addresses, whatever operations its expressions lower to
(`ProgramsAssumption`: a program is a list of statements the planner can be fed;
`BoundAssumption`: the bound on the length is a number): `EmissionIsPlanned`,
`TerminalLabelsEnd`, `BranchesResolve` and `LabelsRefusedExactly` are
`PipeSpec => []P` for the invariants of run `lower` that relate two passes or a
pass and the source, and `PipelineTyped` is the type invariant.

The four properties speak of the end of lowering, or of its last step, so none
of them says what a step in the middle has to keep. The inductive invariant,
`PipeInv`, does:

- the planner's `Inv`, taken from `PlannerProofs` with the proof that its steps
  keep it: the plan is exact for what was *fed*;
- `FedInOrder`: what was fed is the instruction, statement by statement, and all
  of it before the first is emitted; without it nothing relates the plan to what
  emission goes through;
- `Holds`: marks lie within the operations, each label was marked by one event,
  so that a mark once set stays the label's;
- `BranchesPlanned`: a collected branch goes to a label of the plan, which is
  why resolution, which knows marks only, finds them all;
- `ReportedSoFar`: the collector's marks, the stream's addresses and the
  terminal runs are those of the first `emitted` statements. At the end these
  are all statements, and the plan and the stream agree because both are what
  the same statements say;
- what an error means, which is fixed in the step it arises in.

There is a lemma for each thing a statement can report (`Computed`, `LabelTaken`,
`FlowTaken`) and each kind of step (`PlanningKeeps`, `LabelEmitted`,
`PlainEmitted`, `FlowEmitted`, `StatementFails`, `ResolvingKeeps`); `OneMoreReported`
carries `ReportedSoFar` from n statements to n + 1 for all of them.

**The passes** (`PassProofs`), for any finite set of locals: `PassesAreBounded`
(each pass but the first is paid for by a local sized in the one before it),
`LimitSufficesForLocals` (a limit no smaller than the number of locals
never cuts inference short) and `FirstWidthIsFinal` are theorems of
`PassSequence`.

**The loop of inference** (`InferenceProofs`), for any statements, any finite set
of locals and any rules (`Fed`, `LocalsIn`) that only add widths of locals the
statement names (`RulesAssumption`, which is what `found` guarantees):
`InferenceTyped`, `PassesAreNotInVain`, `ReturnsFixedPoint` are
`Spec => []P` for the invariants `TypeOK`, `PassesFindLocals` and
`FixedPointWhenLocalsFit` of run `inference`, and `LoopImplementsPasses` is
`Spec => LoopIsPassSequence`, the refinement of `PassSequence`.

`PassesFindLocals` is not inductive: a pass that has found a local must have paid
for the *next* one too, in advance (`PassesPaid`, with `Credit`). The fixed point
needs `QuietSoFar`: while a pass has found nothing, every statement it has fed
is satisfied, by widths that have not changed since. Then either the loop
returns because a pass was quiet, and all statements are satisfied, or because
the limit was reached; with no more locals than statements, `PassesPaid` says
that the pass at the limit had no local left to find, so it was quiet as well
(`LastPassIsQuiet`). `FirstUseIsFinal`, `Spec => FirstUseWins`, is proved there
too but follows from the assumption on the rules almost directly: that the
*code's* rules satisfy that is `InferenceRulesHold`, below.

**The unique space** (`StorageProofs`), for any machine, any locals, any number
of statements and a space of any size: `StorageIsDisjoint`, `TemporariesAreDefined`
(`SpaceSpec => []P` for `LocalsDisjoint` and `TemporariesDefined` of run
`lower_widths`) and `HomesNeverMove` (`SpaceSpec => LocalsStayPut`, which `Grow`
states step by step). `GrowingSpace` says what one statement may do, failing or
not; the other two are about all statements together: a home given by one against
the temporaries of every other.

The inductive invariant `SpaceInv` says that homes are apart and below the
pointer (`HomesApart`) and as wide as planned (`HomesAsPlanned`), that every write
so far lies below the pointer, within one home or aside of all (`WritesInPlace`),
that what is written aside nothing else writes (`TemporariesApart`), and what was
read (`ReadsInPlace`). "Below the pointer"
is what carries it: a later statement's bytes are above, so a new home cannot
cover an old temporary, which would make it storage of a local after the fact.
`OldWrite` and `NewWrite` are the two halves of that. The properties count bytes,
the invariant compares bounds; `OverlapIsNotApart` and `PartOfPiece` translate.

`AllocationGrows`, `HomeGrows`, `OutputGrows` and `CopyTakesNothing` say of the
emitter's own operators that each, for any emitter before an error, grows the
space (`GrowsTo`) or takes nothing, and `GrowthComposes` that growing one after
the other is growing.

**The operand buffer** (`OperandProofs`), for any size of the array and any
inputs: `BufferTyped`, its inductive invariant, and `BufferIsAList`, the
refinement `Spec => IsOperandList`. `PushAppends` has a case each for the array,
the push that spills and the vector.

**Lowering an instruction** (`LoweringProofs`), for any instructions, statements
and expressions, however deep these nest, any registers, bit ranges and spaces
and any finite set of locals. What connects the abstract machines above with
the code's own functions is here: the rules of inference satisfy
`RulesAssumption` (`InferenceRulesHold`), and lowering implements the pipeline
(`LoweringIsPipeline`, `Spec => IsPipeline`) and the growing space
(`LoweringGrowsStorage`, `Spec => StorageGrows`). So what was proved of those
holds of lowering: `LoweringMatchesPlan`, `LoweringEndsTerminals`,
`LoweringResolves`, `LoweringRefusesExactly`, `LoweringKeepsLocalsApart`,
`LoweringDefinesTemporaries`, `LoweringMovesNoLocal` and
`LoweringInfersFixedPoint` follow in a line each. `OnlyRawOps`,
`StorageIsWrittenLast`, `LoweringCallsInOrder` and `LoweringTyped` are
`Spec => []P` for invariants of run `lower` that are about what the
expressions lower to. `OnlyRawOps` is `Spec => []OpsWellTyped` and claims what
section 3 says of that property, no more: of operands everything but those of
builtins and unary operators, of results those of copies and binary operators.

The argument goes up from expressions:

1. *Widths.* Of whatever form an expression is, `ExprSize` answers a width
   (`ExprSizeType`), and constraining it keeps each width found and adds
   only widths of locals in it (`StatementsOnlyAddWidths`).
2. *Expressions.* `Lowers(em, r, out)` is what lowering one promises, failing or
   not: storage grew from the pointer on (`Keeps`); each operation reported is
   raw, with the widths `WellTyped` asks for (`Fits`), reads only what may be read at that
   point, and writes a fresh temporary, except for the last, which may write
   the storage `out` the caller gave (`Computes`, `Scratch`); and the value, if
   there is one, may be read. `ExpressionsLower` says so of every expression, by
   induction on `Depth` (`ByDepth`); there is a lemma for each kind of node, and
   `ComputesThen` puts computations in sequence. The promise has to allow for
   `out` in the last operation only: weaker, and `op(w)` stored in a part of `w`
   could be half written when it is read; stronger, and `Assignment` could
   not let its value be computed in place.
3. *Statements.* `StatementLowers`: a statement computes, and then assigns,
   stores, branches, calls, defines its label or fails (`StatementDoes`).
4. *Steps.* `LowerStep`: under the invariant, an `EmitStep` is an `EmitOne` of the
   pipeline and a `Grow` of the space, and the other steps are the pipeline's or
   leave both alone.
5. *User operations.* `Calls(em, r, ids)` says that what lowering an expression
   reports calls the operations `ids`, in that order, unless it failed. By the
   induction of 2 it holds of every expression with the operations the source
   names (`ExpressionsCallInOrder`), with a lemma per kind of node again; of a
   statement it is `StatementCalls`. Nothing is promised of an expression that
   fails, whose first operands have been called and whose others have not:
   `UseropsInOrder` is about instructions that lower. Operand lists have any
   length, so their calls are a `FlattenSeq` of sequences; the proofs open its
   recursion once, to flatten list by list (`FlattenUnfolds`), and otherwise use
   that flattening `a \o b` joins what flattening `a` and `b` gives
   (`FlattenJoined`).

The inductive invariant `LowerInv` is that of the inference loop (`InferInv`, from
`InferenceProofs`), that of the pipeline (`PipeInv`, from `PipelineProofs`), the
two properties `OpsWellTyped` and `StorageWrittenLast`, and `EmitterInv`, which
ties the emitter to both: it is untouched until the plan is finished; then its
labels are the plan's and its widths inference's, its homes and pointer are
sound, and, while lowering is open, the labels it has seen defined are those the
collector has marked. Without the last a label's second definition, which only
the emitter notices, would not be the one the pipeline refuses. For user
operations `CallsInv` is added to it: as long as nothing failed, the stream calls
those of the statements emitted so far.

The theorems have one hypothesis, `Unfolding`: that each of the four constants
for a recursive function is, on every expression, what its definition says.
`LoweringCallsInOrder` has it of a fifth as well, the function that lists the user
operations of an expression (`UseropsRecur`). Neither
is about the code's behaviour: as a node's parts nest less deep than the
node (`ExpressionsAssumption`), there is exactly one function that satisfies each,
and an instance that closes the recursion, as `MCLower.cfg` does, makes them true
by definition. They are hypotheses and no `ASSUME` because TLC could not evaluate
`Unfolding` for every emitter. The assumptions on constants are all checked by the runs:

- `ExpressionsAssumption` and `StatementsAssumption`: nodes hold what their Rust
  types say, and an expression is a finite tree;
- `ContextAssumption`: registers and bit ranges lie outside the unique space and
  have bytes; spaces have numbers. The code asks as much of a producer when it
  takes the unique space for temporaries of its own;
- `ConcreteAssumption`: an instruction that is lowered has been decoded
  (`infer_local_sizes` computes with `usize` widths); `NoneAssumption`,
  `OperandsAssumption` and `HomeAssumption`: `None` is no width and no varnode;
- `FiniteAssumption`: the locals are finitely many;
- those of the planner, the pipeline and the storage named above.

**Model-checked only:**

- `OrderIrrelevantToCoverage` and `SymbolicAgrees`: they compare two runs of
  inference to the end, for which `Inferred` is a recursive function of the
  number of passes;
- `LoweringPreservesMeaning`: the interpreters of `PcodeSemantics` are recursive
  operators over expressions and over the execution;
- `ConversionsFit`: the extensions and truncations that lowering inserts have the
  opcodes of source operators whose results may have any width, and only the
  statement tells them apart; the induction over expressions keeps what is
  computed, not which node asked for it;
- `CarryOperandsFit`: it does not hold for every expression the assumptions
  allow, as a producer may state a width of a node that is not its storage's;
- termination (`Terminates`): liveness is outside the prover's reach;
- that the code's rules satisfy `FirstUseWins` for symbolic widths too
  (`InferenceRulesHold` is about concrete ones; `StatementsOnlyAddWidths` is
  about both).

## 6. What is not modelled

- Sinks other than the collector, and producers with nodes of their own: the
  code contains the traits, their implementations are elsewhere. What a sink is
  told is `em.events` and `stream`, which the properties of section 3 constrain
  for statements that fail half way as well.
- The interner (`expression/ids.rs`): a map from names to dense identifiers that
  producers use while they parse. No pass calls it; the models take
  identifiers as given.
- Operators that only other widths or float formats tell apart: multiplication,
  division, remainders, arithmetic shifts, float operations, `popcount` and
  `lzcount` lower like operators that are in the models, and `PcodeSemantics`
  does not interpret them. `IntSext` lowers like `IntZext`.
- Big-endian storage: the code's lanes and the interpreter are little-endian.
- Pretty printing, error texts, spans and serialization: formatting and derived
  code without state. Of errors, the kinds are kept (`LowerErrors`).

## 7. Plan

Done, in this order: planner, inference, storage and emission, collector, the
whole of lowering; then symbolic inference, the interpreter, the abstract loop
and the abstract space, the operand buffer; then the pipeline as an abstract
machine of its own, the rules of inference apart from its loop, what statements
read and write in the abstract space, and the proofs of section 5.

Then the recursion over expressions was opened, and `LoweringProofs` connects the
abstract machines with the functions of the code.

Last came the user operations, by the same induction over expressions, which
leaves to TLC the properties that section 5 lists as model-checked only. The
width rules of results were then split by who decides the width: lowering, which
is proved, or the source's context, which is checked and compared with the
documentation.

What could follow: a proof of `ConversionsFit`, by an induction that also names
the operators of the node (as `Calls` does the user operations), and sign extension, division and arithmetic shifts in
`PcodeSemantics`.

The runs stay few: where a new question fits an instance that is there, it
joins that run.
