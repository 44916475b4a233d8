----------------------------- MODULE Collector -----------------------------
(***************************************************************************)
(* The sink that builds flat p-code (instruction.rs, `Collector`).  It     *)
(* retains the operations it receives and, when the instruction is         *)
(* complete, replaces the target of each local branch by the distance to   *)
(* its label, a two's-complement constant.                                 *)
(*                                                                         *)
(* A collector is a record:                                                *)
(*   ops      the operations received; operation i of the code is ops[i+1] *)
(*   marks    label -> the number of operations before it, once marked     *)
(*   fixups   the local branches: [index, label], indices from 0           *)
(***************************************************************************)
EXTENDS Pcode, Integers, FiniteSets

CONSTANTS
    Label,      \* the labels of the instruction
    Events,     \* the events the emitter may report
    MaxEvents   \* bound: events of one instruction

ASSUME MaxWordAssumption == MaxWord \in Nat /\ MaxWord % 2 = 1
ASSUME MaxEventsAssumption == MaxEvents \in Nat /\ 2 * MaxEvents < MaxWord

VARIABLES
    collector,
    outcome,  \* "open", then "ok" or "UnknownLabel"
    stream    \* history: the events received

vars == <<collector, outcome, stream>>

\* `i64 as u64`, and the signed reading of such a word.
ToWord(n) == n % (MaxWord + 1)
FromWord(w) == IF 2 * w > MaxWord THEN w - MaxWord - 1 ELSE w

----------------------------------------------------------------------------
(* Events and operations.                                                  *)

OpEvent(opcode, output, inputs) ==
    [event |-> "op", opcode |-> opcode, output |-> output, inputs |-> inputs]
LabelEvent(label) == [event |-> "label", label |-> label]
\* `condition` has the one condition of a conditional branch, or is empty.
BranchEvent(opcode, label, condition) ==
    [event |-> "branch", opcode |-> opcode, label |-> label,
     condition |-> condition]

Op(opcode, output, inputs) ==
    [opcode |-> opcode, output |-> output, inputs |-> inputs]

\* What the emitter reports: its labels only, and at most one condition.
ASSUME EventsAssumption ==
    \A e \in Events :
       /\ e.event \in {"op", "label", "branch"}
       /\ e.event = "label"  => e.label \in Label /\ e = LabelEvent(e.label)
       /\ e.event = "branch" => /\ e.label \in Label
                                /\ \/ e.condition = <<>>
                                   \/ e.condition = <<e.condition[1]>>

----------------------------------------------------------------------------
NewCollector == [ops |-> <<>>, marks |-> [label \in {} |-> 0], fixups |-> <<>>]

OnOp(c, e) == [c EXCEPT !.ops = Append(@, Op(e.opcode, e.output, e.inputs))]

\* Faulty: local branches do not count as operations.
MarkPlainOps(c, e) ==
    [c EXCEPT !.marks = [label \in DOMAIN @ \cup {e.label} |->
                            IF label = e.label THEN Len(c.ops) - Len(c.fixups)
                                               ELSE @[label]]]

OnLabel(c, e) ==
    [c EXCEPT !.marks = [label \in DOMAIN @ \cup {e.label} |->
                            IF label = e.label THEN Len(c.ops) ELSE @[label]]]

\* Faulty: the index is taken after the operation is added.
FixNextOp(c, e) ==
    [c EXCEPT
       !.fixups = Append(@, [index |-> Len(c.ops) + 1, label |-> e.label]),
       !.ops = Append(@, Op(e.opcode, None, <<Constant(0, 8)>> \o e.condition))]

OnBranchLabel(c, e) ==
    [c EXCEPT
       !.fixups = Append(@, [index |-> Len(c.ops), label |-> e.label]),
       !.ops = Append(@, Op(e.opcode, None, <<Constant(0, 8)>> \o e.condition))]

Deliver(c, e) ==
    CASE e.event = "op"     -> OnOp(c, e)
      [] e.event = "label"  -> OnLabel(c, e)
      [] e.event = "branch" -> OnBranchLabel(c, e)

\* Faulty: a label must be marked before it is branched to.
ResolvableBackward(c) ==
    \A k \in DOMAIN c.fixups :
       /\ c.fixups[k].label \in DOMAIN c.marks
       /\ c.marks[c.fixups[k].label] <= c.fixups[k].index

\* Every local branch is to a label that was marked.
Resolvable(c) == \A k \in DOMAIN c.fixups : c.fixups[k].label \in DOMAIN c.marks

\* The label operation `i` (from 0) branches to, or none.
FixupLabels(c, i) ==
    {c.fixups[k].label : k \in {k \in DOMAIN c.fixups : c.fixups[k].index = i}}

\* Faulty: the distance is counted from the operation after the branch.
ResolvedFromNext(c) ==
    [n \in DOMAIN c.ops |->
       IF FixupLabels(c, n - 1) = {} THEN c.ops[n]
       ELSE LET label == CHOOSE label \in FixupLabels(c, n - 1) : TRUE
            IN  [c.ops[n] EXCEPT !.inputs =
                   [@ EXCEPT ![1] = Constant(ToWord(c.marks[label] - n), 8)]]]

\* The operations with every local branch resolved.
Resolved(c) ==
    [n \in DOMAIN c.ops |->
       IF FixupLabels(c, n - 1) = {} THEN c.ops[n]
       ELSE LET label == CHOOSE label \in FixupLabels(c, n - 1) : TRUE
            IN  [c.ops[n] EXCEPT !.inputs =
                   [@ EXCEPT ![1] = Constant(ToWord(c.marks[label] - (n - 1)), 8)]]]

----------------------------------------------------------------------------
Init ==
    /\ collector = NewCollector
    /\ outcome = "open"
    /\ stream = <<>>

\* The emitter rejects the second definition of a label before it reports it.
Receive(e) ==
    /\ outcome = "open"
    /\ Len(stream) < MaxEvents
    /\ e.event = "label" => e.label \notin DOMAIN collector.marks
    /\ collector' = Deliver(collector, e)
    /\ stream' = Append(stream, e)
    /\ UNCHANGED outcome

Finish ==
    /\ outcome = "open"
    /\ IF Resolvable(collector)
       THEN /\ outcome' = "ok"
            /\ collector' = [collector EXCEPT !.ops = Resolved(collector)]
       ELSE /\ outcome' = "UnknownLabel"
            /\ UNCHANGED collector
    /\ UNCHANGED stream

Next == Finish \/ \E e \in Events : Receive(e)

Spec == Init /\ [][Next]_vars

----------------------------------------------------------------------------
(* Properties.                                                             *)

IsOperation(e) == e.event \in {"op", "branch"}

\* How many of the events before position k are operations.
OperationsBefore(k) == Cardinality({i \in 1 .. k - 1 : IsOperation(stream[i])})

\* Operations have their shape, marks and fixups lie within the operations.
TypeOK ==
    /\ stream \in Seq(Events) /\ Len(stream) <= MaxEvents
    /\ outcome \in {"open", "ok", "UnknownLabel"}
    /\ DOMAIN collector.marks \subseteq Label
    /\ \A label \in DOMAIN collector.marks :
          collector.marks[label] \in 0 .. Len(collector.ops)
    /\ \A k \in DOMAIN collector.fixups :
          /\ collector.fixups[k].index \in 0 .. Len(collector.ops) - 1
          /\ collector.fixups[k].label \in Label

\* A label's mark is the number of operations received before it, so the
\* next operation received is the one it marks, whatever comes between.
MarksExact ==
    /\ DOMAIN collector.marks =
          {stream[k].label : k \in {k \in DOMAIN stream : stream[k].event = "label"}}
    /\ \A k \in DOMAIN stream : stream[k].event = "label" =>
          collector.marks[stream[k].label] = OperationsBefore(k)

\* What operation `o` must be, once resolved, for event `e` received as
\* operation `i`: a local branch adds up to its label's mark, and the rest
\* of it, like every other operation, is what was reported.
Resolves(o, e, i) ==
    IF e.event = "op" THEN o = Op(e.opcode, e.output, e.inputs)
    ELSE /\ o.opcode = e.opcode /\ o.output = None
         /\ Len(o.inputs) = 1 + Len(e.condition)
         /\ Tail(o.inputs) = e.condition
         /\ o.inputs[1].space = ConstSpace
         /\ i + FromWord(o.inputs[1].offset) = collector.marks[e.label]

\* The flat p-code has one operation per operation received, in order, and
\* each local branch, forward or backward, lands on the operation its label
\* marks, or just past the last one.
FlatExact ==
    outcome = "ok" =>
       /\ Len(collector.ops) = OperationsBefore(Len(stream) + 1)
       /\ \A k \in DOMAIN stream : IsOperation(stream[k]) =>
             LET i == OperationsBefore(k)
             IN  Resolves(collector.ops[i + 1], stream[k], i)

\* Resolution fails exactly when a branch names a label never marked; a label
\* marked after the branch counts.
FailsExactly ==
    outcome # "open" =>
      (outcome = "UnknownLabel" <=>
         \E k \in DOMAIN stream :
            /\ stream[k].event = "branch"
            /\ \A j \in DOMAIN stream : stream[j] # LabelEvent(stream[k].label))
============================================================================
