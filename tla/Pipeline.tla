------------------------------ MODULE Pipeline ------------------------------
(***************************************************************************)
(* What the passes over one instruction promise each other (instruction.   *)
(* rs, `plan_instruction_with`, `emit_instruction`, `collect_ops`), without*)
(* the expressions and their widths.  Each statement is planned; then each *)
(* is emitted, and reports operations that compute something and at most   *)
(* one event of its own at the end; then the local branches are resolved.  *)
(* A statement that computes may fail at any point of it.                  *)
(***************************************************************************)
EXTENDS Sink

CONSTANTS
    Programs,       \* the instructions lowered: sequences of statements
    Label, Address, \* their label names and literal addresses
    MaxStatements   \* bound: statements of one instruction

ASSUME BoundAssumption == MaxStatements \in Nat

VARIABLES
    statements,     \* the instruction
    labels, terminal, directBranches, directCalls, finished, fed, \* Planner
    emitted,        \* how many statements were emitted
    collector,
    outcome         \* "open", "lowered" or an error

planVars == <<labels, terminal, directBranches, directCalls, finished, fed>>
sinkVars == <<emitted, collector, outcome, stream>>
pipeVars == <<statements, planVars, sinkVars>>

Plan == INSTANCE Planner
\* The collector is driven by its operators; its own machine stands alone.
Flat == INSTANCE Collector WITH Events <- {}, MaxEvents <- 0

----------------------------------------------------------------------------
\* What the planner reads of a statement: a literal target's address, the
\* form of any other target, a label's name.
PlannedTarget(target) ==
    IF target.form # "Expr" THEN target
    ELSE IF target.expr.kind = "SizedInt"
    THEN [form |-> "Literal", value |-> target.expr.value]
    ELSE [form |-> "Computed"]

PlannedStatement(st) ==
    CASE st.kind = "Label"          -> st
      [] st.kind \in Plan!FlowKind -> [kind |-> st.kind, target |-> PlannedTarget(st.target)]
      [] OTHER                      -> [kind |-> "Plain"]

\* Instructions are lists of statements the planner can be fed.
ASSUME ProgramsAssumption ==
    \A program \in Programs :
       /\ program \in Seq(Range(program))
       /\ \A k \in DOMAIN program : PlannedStatement(program[k]) \in Plan!Statement

PipeInit ==
    /\ statements \in Programs
    /\ Plan!Init
    /\ emitted = 0
    /\ collector = Flat!NewCollector
    /\ outcome = "open"
    /\ stream = <<>>

PlanOne ==
    /\ Len(fed) < Len(statements)
    /\ Plan!Feed(PlannedStatement(statements[Len(fed) + 1]))
    /\ UNCHANGED <<statements, sinkVars>>

EndPlan ==
    /\ Len(fed) = Len(statements)
    /\ Plan!Finish
    /\ UNCHANGED <<statements, sinkVars>>

----------------------------------------------------------------------------
(* Emission of one statement.                                              *)

\* The opcodes of direct flow, which only a flow statement's last event has.
DirectOpcode == [Branch |-> "Branch", ConditionalBranch |-> "CBranch", Call |-> "Call"]

\* Operations that compute: what expressions are lowered to.
Computing(events) ==
    /\ events \in Seq(Range(events))
    /\ \A n \in DOMAIN events :
          events[n].event = "op" /\ events[n].opcode \notin Range(DirectOpcode)

\* The collector after it received operations only.
WithOps(c, events) ==
    [c EXCEPT !.ops = @ \o [n \in DOMAIN events |->
                              Flat!Op(events[n].opcode, events[n].output, events[n].inputs)]]

\* What was reported in this step, but for the last `n` events.
New(n) == SubSeq(stream', Len(stream) + 1, Len(stream') - n)

ReportsOps ==
    /\ Computing(New(0))
    /\ stream' = stream \o New(0)
    /\ collector' = WithOps(collector, New(0))

ReportsLast(e) ==
    /\ Computing(New(1))
    /\ stream' = Append(stream \o New(1), e)
    /\ collector' = Flat!Deliver(WithOps(collector, New(1)), e)

\* A label that was planned is reported, once.
EmitLabel(name) ==
    /\ name \in Range(labels) \ DOMAIN collector.marks
    /\ stream' = Append(stream, Flat!LabelEvent(name))
    /\ collector' = Flat!Deliver(collector, Flat!LabelEvent(name))

\* A direct branch or call ends with a branch to a label of the plan, or with
\* the operation that goes to its address.
FlowEvent(st, e) ==
    /\ e.opcode = DirectOpcode[st.kind]
    /\ \/ /\ st.target.form = "Label" /\ st.target.name \in Range(labels)
          /\ e = Flat!BranchEvent(e.opcode, st.target.name, e.condition)
       \/ /\ st.target.form = "Literal" /\ e.inputs[1].offset = st.target.value
          /\ e = Flat!OpEvent(e.opcode, None, e.inputs)

EmitFlow(st) ==
    /\ Len(stream) < Len(stream')
    /\ FlowEvent(st, stream'[Len(stream')])
    /\ ReportsLast(stream'[Len(stream')])

\* A statement is emitted, and the next may be.
Emits(st) ==
    /\ \/ Plan!IsLabel(st) /\ EmitLabel(st.name)
       \/ st.kind \in Plan!FlowKind /\ EmitFlow(st)
       \/ st.kind \notin {"Label"} \cup Plan!FlowKind /\ ReportsOps
    /\ outcome' = "open"

LabelFails(name) ==
    /\ UNCHANGED <<collector, stream>>
    /\ \/ name \notin Range(labels) /\ outcome' = "UnknownLabel"
       \/ name \in Range(labels) \cap DOMAIN collector.marks /\ outcome' = "DuplicateLabel"

\* Does the statement branch to a name that the plan does not have?
Dangles(st) ==
    /\ st.kind \in Plan!FlowKind
    /\ st.target.form = "Label" /\ st.target.name \notin Range(labels)

\* A statement fails, after some of its operations.
Fails(st) ==
    \/ Plan!IsLabel(st) /\ LabelFails(st.name)
    \/ /\ ~Plan!IsLabel(st) /\ ReportsOps
       /\ outcome' \in LowerErrors \ {"DuplicateLabel"}
       /\ outcome' = "UnknownLabel" => Dangles(st)

EmitOne ==
    /\ finished
    /\ outcome = "open"
    /\ emitted < Len(statements)
    /\ Emits(fed[emitted + 1]) \/ Fails(fed[emitted + 1])
    /\ emitted' = emitted + 1
    /\ UNCHANGED <<statements, planVars>>

ResolveBranches ==
    /\ finished
    /\ outcome = "open"
    /\ emitted = Len(statements)
    /\ IF Flat!Resolvable(collector)
       THEN /\ collector' = [collector EXCEPT !.ops = Flat!Resolved(collector)]
            /\ outcome' = "lowered"
       ELSE outcome' = "UnknownLabel" /\ UNCHANGED collector
    /\ UNCHANGED <<statements, planVars, emitted, stream>>

PipeNext == PlanOne \/ EndPlan \/ EmitOne \/ ResolveBranches

PipeSpec == PipeInit /\ [][PipeNext]_pipeVars

----------------------------------------------------------------------------
(* Properties.                                                             *)

Lowered == outcome = "lowered"

\* The planner's variables have their types, and an error is one a statement
\* reported.
PipeTypeOK ==
    /\ Plan!TypeOK
    /\ emitted \in 0 .. Len(statements)
    /\ outcome \in {"open", "lowered"} \/ (outcome \in LowerErrors /\ emitted > 0)

DirectTargets(opcodes) ==
    {stream[k].inputs[1].offset : k \in {k \in DOMAIN stream :
        stream[k].event = "op" /\ stream[k].opcode \in opcodes}}

\* When an instruction lowers, the plan announced exactly the destinations
\* and labels that emission then reported, each label once.
PlanMatchesEmission ==
    Lowered =>
       /\ Range(directBranches) = DirectTargets({"Branch", "CBranch"})
       /\ Range(directCalls) = DirectTargets({"Call"})
       /\ Range(labels) = DOMAIN collector.marks
       /\ \A i, j \in DOMAIN stream :
             stream[i].event = "label" /\ stream[j] = stream[i] => i = j

\* A branch to a label the plan calls terminal goes just past the last
\* operation, and every local branch stays within the instruction.
TerminalIsPastEnd ==
    Lowered =>
       \A id \in DOMAIN labels :
          /\ collector.marks[labels[id]] \in 0 .. Len(collector.ops)
          /\ terminal[id] => collector.marks[labels[id]] = Len(collector.ops)

\* Emission checks every label, so resolving the collected branches cannot
\* fail.
ResolutionNeverFails ==
    finished /\ outcome = "open" /\ emitted = Len(statements)
       => Flat!Resolvable(collector)

\* Two statements define one label.
DefinedTwice ==
    \E i, j \in DOMAIN statements :
       i # j /\ statements[i].kind = "Label" /\ statements[j] = statements[i]

\* A statement goes to a label that none defines.
GoesNowhere ==
    \E k \in DOMAIN statements :
       /\ statements[k].kind \in Plan!FlowKind
       /\ statements[k].target.form = "Label"
       /\ \A j \in DOMAIN statements : statements[j] # LabelStmt(statements[k].target.name)

\* An instruction lowers only if each label it goes to is defined and none is
\* twice, wherever the definitions stand, and is refused for its labels only
\* if that is not so.
LabelErrorsExact ==
    /\ Lowered => ~DefinedTwice /\ ~GoesNowhere
    /\ outcome = "DuplicateLabel" => DefinedTwice
    /\ outcome = "UnknownLabel" => GoesNowhere
============================================================================
