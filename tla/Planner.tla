------------------------------ MODULE Planner ------------------------------
(***************************************************************************)
(* The planning pass (instruction.rs, `Planner` and the `PcodePlan` it     *)
(* fills).  A producer feeds the statements of one instruction in order;   *)
(* the pass records, before anything is emitted, the instruction-local     *)
(* labels, which of them end the instruction, and the addresses reached by *)
(* direct branches and calls.                                              *)
(*                                                                         *)
(* A label's identifier is its position in `labels`, counted from 1 here   *)
(* and from 0 in the code.  `fed` is a history variable: the statements    *)
(* fed so far, which the properties compare the plan with.                 *)
(***************************************************************************)
EXTENDS Naturals, Sequences, Functions

CONSTANTS
    Label,          \* the names instruction-local labels may have
    Address,        \* the values literal branch and call targets may have
    MaxStatements   \* bound: statements fed to one planner

ASSUME MaxStatementsAssumption == MaxStatements \in Nat

VARIABLES
    labels,         \* Seq of names, indexed by label identifier
    terminal,       \* per identifier: is it the instruction's fall-through?
    directBranches, \* Seq of addresses, in order of first use
    directCalls,
    finished,       \* has `finish` taken the plan away from the planner?
    fed             \* history

planVars == <<labels, terminal, directBranches, directCalls>>
vars == <<labels, terminal, directBranches, directCalls, finished, fed>>

----------------------------------------------------------------------------
(* The shapes of statements and targets, as far as planning reads them.    *)

\* A target is a local label, a name the producer never resolved, a literal
\* address, or an expression that is no literal.
Target ==
    [form : {"Label"}, name : Label]
      \cup [form : {"Literal"}, value : Address]
      \cup [form : {"Node", "Computed"}]

FlowKind == {"Branch", "ConditionalBranch", "Call"}

LabelStatement == [kind : {"Label"}, name : Label]
FlowStatement  == [kind : FlowKind, target : Target]
PlainStatement == [kind : {"Plain", "Opaque"}]

Statement == LabelStatement \cup FlowStatement \cup PlainStatement

IsLabel(statement) == statement.kind = "Label"

----------------------------------------------------------------------------
(* PcodePlan's operations.                                                 *)

\* The list with `x` declared: unchanged when it is there already.
Declared(list, x) == IF x \in Range(list) THEN list ELSE Append(list, x)

\* The identifier of a declared label: the first position that has its name.
LabelId(list, name) ==
    CHOOSE id \in DOMAIN list :
        list[id] = name /\ \A earlier \in 1 .. id - 1 : list[earlier] # name

\* A literal target's address, and nothing for a target planning cannot
\* resolve (emission reports that one).
DirectAddress(target) ==
    IF target.form = "Literal" THEN {target.value} ELSE {}

\* Faulty: lists an address as often as it is reached.
EveryTarget(list, target) ==
    IF DirectAddress(target) # {} THEN Append(list, target.value) ELSE list

DeclaredTarget(list, target) ==
    IF \E address \in DirectAddress(target) : address \notin Range(list)
    THEN Append(list, target.value)
    ELSE list

\* A statement that is no label happened: no label so far is terminal.
EndTerminalRun == terminal' = [id \in DOMAIN terminal |-> FALSE]

----------------------------------------------------------------------------
Init ==
    /\ labels = <<>>
    /\ terminal = <<>>
    /\ directBranches = <<>>
    /\ directCalls = <<>>
    /\ finished = FALSE
    /\ fed = <<>>

\* Faulty: a new label gets no flag of its own.
PlanLabelWithoutFlag(name) ==
    /\ labels' = Declared(labels, name)
    /\ terminal' = [id \in DOMAIN terminal |->
                      terminal[id] \/ id = LabelId(labels', name)]
    /\ UNCHANGED <<directBranches, directCalls>>

\* Faulty: a label fed again is declared again.
PlanLabelAgain(name) ==
    /\ labels' = Append(labels, name)
    /\ terminal' = Append(terminal, TRUE)
    /\ UNCHANGED <<directBranches, directCalls>>

\* Faulty: a new label takes the first identifier.
PlanLabelFirst(name) ==
    /\ labels' = IF name \in Range(labels) THEN labels ELSE <<name>> \o labels
    /\ terminal' = IF name \in Range(labels)
                   THEN [terminal EXCEPT ![LabelId(labels, name)] = TRUE]
                   ELSE <<TRUE>> \o terminal
    /\ UNCHANGED <<directBranches, directCalls>>

\* `<name>`: declared if new, and terminal until a non-label follows.
PlanLabel(name) ==
    /\ labels' = Declared(labels, name)
    /\ terminal' = [IF name \in Range(labels) THEN terminal
                                              ELSE Append(terminal, FALSE)
                    EXCEPT ![LabelId(labels', name)] = TRUE]
    /\ UNCHANGED <<directBranches, directCalls>>

\* `goto target` and `if condition goto target`.
PlanBranch(target) ==
    /\ directBranches' = DeclaredTarget(directBranches, target)
    /\ EndTerminalRun
    /\ UNCHANGED <<labels, directCalls>>

\* Faulty: a call does not end the run of labels.
PlanCallOnly(target) ==
    /\ directCalls' = DeclaredTarget(directCalls, target)
    /\ UNCHANGED <<labels, terminal, directBranches>>

\* `call target`.
PlanCall(target) ==
    /\ directCalls' = DeclaredTarget(directCalls, target)
    /\ EndTerminalRun
    /\ UNCHANGED <<labels, directBranches>>

\* Faulty: an assignment does not end the run of labels.
PlanNothing == UNCHANGED planVars

\* Every other statement, and one whose shape the planner cannot see.
PlanPlain ==
    /\ EndTerminalRun
    /\ UNCHANGED <<labels, directBranches, directCalls>>

\* Faulty: the target of a conditional branch is not planned.
PlanUnconditional(statement) ==
    \/ IsLabel(statement) /\ PlanLabel(statement.name)
    \/ statement.kind = "Branch" /\ PlanBranch(statement.target)
    \/ statement.kind = "Call" /\ PlanCall(statement.target)
    \/ statement.kind \notin {"Label", "Branch", "Call"} /\ PlanPlain

PlanStatement(statement) ==
    \/ IsLabel(statement) /\ PlanLabel(statement.name)
    \/ /\ statement.kind \in {"Branch", "ConditionalBranch"}
       /\ PlanBranch(statement.target)
    \/ statement.kind = "Call" /\ PlanCall(statement.target)
    \/ statement.kind \notin {"Label"} \cup FlowKind /\ PlanPlain

Feed(statement) ==
    /\ ~finished
    /\ Len(fed) < MaxStatements
    /\ PlanStatement(statement)
    /\ fed' = Append(fed, statement)
    /\ UNCHANGED finished

\* The plan is handed to the consumer; the planner takes no more statements.
Finish ==
    /\ ~finished
    /\ finished' = TRUE
    /\ UNCHANGED <<planVars, fed>>

Next == Finish \/ \E statement \in Statement : Feed(statement)

Spec == Init /\ [][Next]_vars

----------------------------------------------------------------------------
(* Properties.                                                             *)

\* Every variable has its type, and each label has exactly one flag.
TypeOK ==
    /\ labels \in Seq(Label)
    /\ terminal \in Seq(BOOLEAN)
    /\ Len(terminal) = Len(labels)
    /\ directBranches \in Seq(Address)
    /\ directCalls \in Seq(Address)
    /\ finished \in BOOLEAN
    /\ fed \in Seq(Statement)

\* Some definition of `name` in `history` has nothing but labels after it.
EndsInstruction(history, name) ==
    \E i \in DOMAIN history :
        /\ IsLabel(history[i]) /\ history[i].name = name
        /\ \A j \in i + 1 .. Len(history) : IsLabel(history[j])

\* `is_terminal` answers, after any number of statements, whether a
\* definition of the label has nothing but labels after it: the flag an
\* earlier label lost is never left standing, and a label fed again after
\* losing it regains it.
TerminalExact ==
    \A id \in DOMAIN labels : terminal[id] <=> EndsInstruction(fed, labels[id])

\* One identifier per name, however often the label is defined, and none for
\* a name that is only branched to.
LabelsExact ==
    /\ \A i, j \in DOMAIN labels : labels[i] = labels[j] => i = j
    /\ Range(labels) = {fed[i].name : i \in {k \in DOMAIN fed : IsLabel(fed[k])}}

\* The literal targets of the fed statements of the given kinds.
LiteralTargets(kinds) ==
    {fed[i].target.value : i \in {k \in DOMAIN fed :
        fed[k].kind \in kinds /\ fed[k].target.form = "Literal"}}

\* The plan lists exactly the literal destinations, each once, with branches
\* and calls kept apart: an address both branched to and called is in both.
TargetsExact ==
    /\ Range(directBranches) = LiteralTargets({"Branch", "ConditionalBranch"})
    /\ Range(directCalls) = LiteralTargets({"Call"})
    /\ \A list \in {directBranches, directCalls} :
          \A i, j \in DOMAIN list : list[i] = list[j] => i = j

\* What no step undoes: a label keeps its identifier, and one that is
\* terminal stops being so only because a non-label was fed.
LabelIdsKept ==
    /\ Len(labels) <= Len(labels')
    /\ \A id \in DOMAIN labels : labels'[id] = labels[id]
    /\ (\E id \in DOMAIN labels : terminal[id] /\ ~terminal'[id])
          => ~IsLabel(fed'[Len(fed')])

\* Identifiers are handed out in definition order and stay valid: no
\* statement renames, renumbers or forgets a label, and none but a non-label
\* takes the terminal flag away.
LabelIdsStable == [][LabelIdsKept]_vars
============================================================================
