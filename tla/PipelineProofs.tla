--------------------------- MODULE PipelineProofs ---------------------------
(* What planning, emission and resolution promise each other, proved for   *)
(* every instruction of any length, of any names and addresses, and for    *)
(* whatever operations the expressions are lowered to.  Emission goes over *)
(* the statements the planner was fed, so after `emitted` of them the      *)
(* collector has the labels those define and the stream the addresses they *)
(* go to: ReportedSoFar.  With the planner's own invariant, which says the *)
(* same of the plan and all the statements, plan and emission agree at the *)
(* end; and a label after which the planner saw only labels is marked with *)
(* the last operation count, which no label raises.                        *)
EXTENDS Pipeline, TLAPS

\* The planner's invariant and the proof that its steps keep it.
PlanProofs == INSTANCE PlannerProofs

\* A sequence of whatever its members are.
IsList(s) == s \in Seq(Range(s))

\* The planner is fed the statements in order, and all of them before any is
\* emitted.
FedInOrder ==
    /\ statements \in Programs
    /\ Len(fed) <= Len(statements)
    /\ \A k \in DOMAIN fed : fed[k] = PlannedStatement(statements[k])
    /\ IF finished THEN Len(fed) = Len(statements)
                   ELSE /\ emitted = 0 /\ outcome = "open"
                        /\ collector = Flat!NewCollector /\ stream = <<>>
    /\ emitted \in 0 .. Len(statements)
    /\ outcome \in {"open", "lowered"} \cup LowerErrors
    /\ outcome \in LowerErrors => emitted > 0

\* Collector `c` after stream `s`: the marks lie within the operations, and
\* each label was marked by one event.
Holds(c, s) ==
    /\ IsList(s) /\ IsList(c.ops) /\ IsList(c.fixups)
    /\ DOMAIN c = {"ops", "marks", "fixups"}
    /\ \A label \in DOMAIN c.marks : c.marks[label] \in 0 .. Len(c.ops)
    /\ \A k \in DOMAIN s : s[k].event = "label" => s[k].label \in DOMAIN c.marks
    /\ \A i, j \in DOMAIN s : s[i].event = "label" /\ s[j] = s[i] => i = j

\* Every local branch collected goes to a label of the plan.
BranchesPlanned(c) == \A k \in DOMAIN c.fixups : c.fixups[k].label \in Range(labels)

\* The addresses that the operations of stream `s` with some opcodes go to.
DirectIn(s, opcodes) ==
    {s[k].inputs[1].offset : k \in {k \in DOMAIN s :
        s[k].event = "op" /\ s[k].opcode \in opcodes}}

\* The names the first `n` statements define, and the addresses that those of
\* some kinds go to.
DefinedBy(n) == {fed[k].name : k \in {k \in 1 .. n : Plan!IsLabel(fed[k])}}
TargetsBy(n, kinds) ==
    {fed[k].target.value : k \in {k \in 1 .. n :
        fed[k].kind \in kinds /\ fed[k].target.form = "Literal"}}

\* The address that statement `st` goes to, if it is of one of some kinds.
Going(st, kinds) ==
    IF st.kind \in kinds /\ st.target.form = "Literal" THEN {st.target.value} ELSE {}

\* Only labels from statement `k` up to statement `n`.
LabelsFrom(k, n) == \A j \in k .. n : Plan!IsLabel(fed[j])

\* Collector `c` and stream `s` have what the first `n` statements are.
Reported(c, s, n) ==
    /\ DOMAIN c.marks = DefinedBy(n)
    /\ \A i, j \in 1 .. n : Plan!IsLabel(fed[i]) /\ fed[j] = fed[i] => i = j
    /\ \A k \in 1 .. n : ~Dangles(fed[k])
    /\ DirectIn(s, {"Branch", "CBranch"}) = TargetsBy(n, {"Branch", "ConditionalBranch"})
    /\ DirectIn(s, {"Call"}) = TargetsBy(n, {"Call"})
    /\ \A k \in 1 .. n : LabelsFrom(k, n) => c.marks[fed[k].name] = Len(c.ops)

ReportedSoFar == Reported(collector, stream, emitted)

\* The inductive invariant: the planner's own, what emission did with the
\* statements it has passed, and what an error says of the instruction.
PipeInv ==
    /\ PlanProofs!Inv
    /\ FedInOrder
    /\ Holds(collector, stream) /\ BranchesPlanned(collector)
    /\ Lowered => emitted = Len(statements)
    /\ outcome \in {"open", "lowered"} => ReportedSoFar
    /\ outcome = "DuplicateLabel" => DefinedTwice
    /\ outcome = "UnknownLabel" => GoesNowhere

(* A sequence is a list of what it has in it.                              *)
LEMMA ListOf ==
    ASSUME NEW S, NEW s \in Seq(S)
    PROVE  IsList(s)
<1>1. s = [k \in 1 .. Len(s) |-> s[k]] /\ Len(s) \in Nat
  OBVIOUS
<1>2. \A k \in 1 .. Len(s) : s[k] \in Range(s)
  BY <1>1 DEF Range
<1> DEFINE R == Range(s)
<1> HIDE DEF R
<1>3. s \in Seq(R)
  BY <1>1, <1>2 DEF R
<1> QED
  BY <1>3 DEF IsList, R

(* Two lists one after the other: `emit_instruction` adds the operations   *)
(* of a statement after those it has reported.                             *)
LEMMA ConcatLemma ==
    ASSUME NEW s, NEW t, IsList(s), IsList(t)
    PROVE  /\ IsList(s \o t)
           /\ Len(s) \in Nat /\ Len(t) \in Nat
           /\ Len(s \o t) = Len(s) + Len(t)
           /\ DOMAIN (s \o t) = 1 .. Len(s) + Len(t)
           /\ \A k \in 1 .. Len(s) : (s \o t)[k] = s[k]
           /\ \A k \in 1 .. Len(t) : (s \o t)[Len(s) + k] = t[k]
<1> DEFINE S == Range(s) \cup Range(t)
<1>1. s \in Seq(S) /\ t \in Seq(S)
  BY DEF IsList
<1> HIDE DEF S
<1>2. /\ s \o t \in Seq(S)
      /\ Len(s) \in Nat /\ Len(t) \in Nat
      /\ Len(s \o t) = Len(s) + Len(t)
      /\ DOMAIN (s \o t) = 1 .. Len(s) + Len(t)
      /\ \A k \in 1 .. Len(s) : (s \o t)[k] = s[k]
      /\ \A k \in 1 .. Len(t) : (s \o t)[Len(s) + k] = t[k]
  BY <1>1
<1>3. IsList(s \o t)
  BY <1>2, ListOf
<1> QED
  BY <1>2, <1>3

(* A list with one more.                                                   *)
LEMMA ListAppended ==
    ASSUME NEW s, NEW e, IsList(s)
    PROVE  /\ IsList(Append(s, e))
           /\ Len(s) \in Nat
           /\ Len(Append(s, e)) = Len(s) + 1
           /\ DOMAIN Append(s, e) = 1 .. Len(s) + 1
           /\ \A k \in 1 .. Len(s) : Append(s, e)[k] = s[k]
           /\ Append(s, e)[Len(s) + 1] = e
<1> DEFINE S == Range(s) \cup {e}
<1>1. s \in Seq(S) /\ e \in S
  BY DEF IsList
<1> HIDE DEF S
<1>2. /\ Append(s, e) \in Seq(S)
      /\ Len(s) \in Nat
      /\ Len(Append(s, e)) = Len(s) + 1
      /\ DOMAIN Append(s, e) = 1 .. Len(s) + 1
      /\ \A k \in 1 .. Len(s) : Append(s, e)[k] = s[k]
      /\ Append(s, e)[Len(s) + 1] = e
  BY <1>1
<1>3. IsList(Append(s, e))
  BY <1>2, ListOf
<1> QED
  BY <1>2, <1>3

(* The planner that is stepped here is the planner that was proved about.  *)
LEMMA SamePlanner ==
    /\ Plan!Init <=> PlanProofs!Init
    /\ \A st : Plan!Feed(st) <=> PlanProofs!Feed(st)
    /\ Plan!Finish <=> PlanProofs!Finish
    /\ Plan!Statement = PlanProofs!Statement
    /\ \A st : Plan!IsLabel(st) <=> PlanProofs!IsLabel(st)
    /\ Plan!FlowKind = PlanProofs!FlowKind
<1>1. Plan!Init <=> PlanProofs!Init
  BY DEF Plan!Init, PlanProofs!Init
<1>3. \A st : Plan!IsLabel(st) <=> PlanProofs!IsLabel(st)
  BY DEF Plan!IsLabel, PlanProofs!IsLabel
<1>4. Plan!FlowKind = PlanProofs!FlowKind
  BY DEF Plan!FlowKind, PlanProofs!FlowKind
<1>5. Plan!Statement = PlanProofs!Statement
  BY DEF Plan!Statement, Plan!LabelStatement, Plan!FlowStatement, Plan!PlainStatement,
         Plan!FlowKind, Plan!Target,
         PlanProofs!Statement, PlanProofs!LabelStatement, PlanProofs!FlowStatement,
         PlanProofs!PlainStatement, PlanProofs!FlowKind, PlanProofs!Target
<1>6. Plan!Finish <=> PlanProofs!Finish
  BY DEF Plan!Finish, PlanProofs!Finish, Plan!planVars, PlanProofs!planVars
<1>7. ASSUME NEW st PROVE Plan!Feed(st) <=> PlanProofs!Feed(st)
  BY DEF Plan!Feed, Plan!PlanStatement, Plan!IsLabel, Plan!PlanLabel, Plan!Declared,
         Plan!LabelId, Plan!PlanBranch, Plan!PlanCall, Plan!PlanPlain,
         Plan!EndTerminalRun, Plan!FlowKind, Plan!DeclaredTarget, Plan!DirectAddress,
         Plan!Range,
         PlanProofs!Feed, PlanProofs!PlanStatement, PlanProofs!IsLabel,
         PlanProofs!PlanLabel, PlanProofs!Declared, PlanProofs!LabelId,
         PlanProofs!PlanBranch, PlanProofs!PlanCall, PlanProofs!PlanPlain,
         PlanProofs!EndTerminalRun, PlanProofs!FlowKind, PlanProofs!DeclaredTarget,
         PlanProofs!DirectAddress, PlanProofs!Range
<1> QED
  BY <1>1, <1>3, <1>4, <1>5, <1>6, <1>7

(* Its steps keep its invariant, and emission does not touch the plan.     *)
LEMMA PlanKept ==
    ASSUME PlanProofs!Inv,
           \/ \E st \in Plan!Statement : Plan!Feed(st)
           \/ Plan!Finish
           \/ UNCHANGED planVars
    PROVE  PlanProofs!Inv'
<1>1. PlanProofs!Next \/ UNCHANGED PlanProofs!vars
  <2>1. (\E st \in Plan!Statement : Plan!Feed(st)) => PlanProofs!Next
    BY SamePlanner DEF PlanProofs!Next
  <2>2. Plan!Finish => PlanProofs!Next
    BY SamePlanner DEF PlanProofs!Next
  <2>3. UNCHANGED planVars => UNCHANGED PlanProofs!vars
    BY DEF PlanProofs!vars, planVars
  <2> QED
    BY <2>1, <2>2, <2>3
<1>2. PlanProofs!Inv /\ [PlanProofs!Next]_PlanProofs!vars => PlanProofs!Inv'
  BY PlanProofs!NextInv, BoundAssumption
<1> QED
  BY <1>1, <1>2

(* The opcodes of direct flow (`Emitter::statement`).                      *)
LEMMA DirectOpcodes ==
    /\ DOMAIN DirectOpcode = Plan!FlowKind
    /\ DirectOpcode["Branch"] = "Branch" /\ DirectOpcode["ConditionalBranch"] = "CBranch"
    /\ DirectOpcode["Call"] = "Call"
    /\ Range(DirectOpcode) = {"Branch", "CBranch", "Call"}
<1>1. /\ DOMAIN DirectOpcode = Plan!FlowKind
      /\ DirectOpcode["Branch"] = "Branch" /\ DirectOpcode["ConditionalBranch"] = "CBranch"
      /\ DirectOpcode["Call"] = "Call"
  BY DEF DirectOpcode, Plan!FlowKind
<1> QED
  BY <1>1 DEF Range, Plan!FlowKind

(* Operations that compute add to the flat p-code, mark no label, collect  *)
(* no local branch and go to no address (`Collector::op`).                 *)
LEMMA Computed ==
    ASSUME NEW c, NEW s, Holds(c, s), NEW computed, Computing(computed)
    PROVE  LET d == WithOps(c, computed)
               t == s \o computed
           IN  /\ Holds(d, t)
               /\ d.marks = c.marks /\ d.fixups = c.fixups
               /\ Len(c.ops) \in Nat /\ Len(d.ops) \in Nat /\ Len(c.ops) <= Len(d.ops)
               /\ \A opcodes \in SUBSET Range(DirectOpcode) :
                     DirectIn(t, opcodes) = DirectIn(s, opcodes)
<1> DEFINE d == WithOps(c, computed)
           t == s \o computed
           more == [n \in DOMAIN computed |->
                      Flat!Op(computed[n].opcode, computed[n].output, computed[n].inputs)]
<1>1. IsList(computed) /\ \A n \in DOMAIN computed :
         computed[n].event = "op" /\ computed[n].opcode \notin Range(DirectOpcode)
  BY DEF Computing, IsList
<1>2. IsList(more)
  <2>1. DOMAIN computed = 1 .. Len(computed) /\ Len(computed) \in Nat
    BY <1>1 DEF IsList
  <2>2. more = [n \in 1 .. Len(computed) |-> more[n]]
    BY <2>1
  <2> HIDE DEF more
  <2>3. more \in Seq({more[n] : n \in 1 .. Len(computed)})
    BY <2>1, <2>2
  <2> QED
    BY <2>3, ListOf
<1>3. /\ IsList(t) /\ Len(s) \in Nat /\ Len(computed) \in Nat
      /\ DOMAIN s = 1 .. Len(s) /\ DOMAIN computed = 1 .. Len(computed)
      /\ DOMAIN t = 1 .. Len(s) + Len(computed)
      /\ \A k \in 1 .. Len(s) : t[k] = s[k]
      /\ \A k \in 1 .. Len(computed) : t[Len(s) + k] = computed[k]
  <2>1. IsList(s)
    BY DEF Holds
  <2>2. DOMAIN s = 1 .. Len(s) /\ DOMAIN computed = 1 .. Len(computed)
    BY <1>1, <2>1 DEF IsList
  <2> QED
    BY <1>1, <2>1, <2>2, ConcatLemma
<1>4. /\ IsList(c.ops \o more) /\ Len(c.ops) \in Nat /\ Len(c.ops \o more) \in Nat
      /\ Len(c.ops) <= Len(c.ops \o more)
  <2>1. IsList(c.ops)
    BY DEF Holds
  <2> HIDE DEF more
  <2>2. /\ IsList(c.ops \o more) /\ Len(c.ops) \in Nat /\ Len(more) \in Nat
        /\ Len(c.ops \o more) = Len(c.ops) + Len(more)
    BY <1>2, <2>1, ConcatLemma
  <2> QED
    BY <2>2
<1>5. /\ d.ops = c.ops \o more /\ d.marks = c.marks /\ d.fixups = c.fixups
      /\ DOMAIN d = {"ops", "marks", "fixups"}
  <2>1. DOMAIN c = {"ops", "marks", "fixups"}
    BY DEF Holds
  <2>2. d = [c EXCEPT !.ops = c.ops \o more]
    BY DEF WithOps
  <2> HIDE DEF d, more
  <2> QED
    BY <2>1, <2>2
<1>6. ASSUME NEW k \in DOMAIN t, k \notin DOMAIN s
      PROVE  t[k].event = "op" /\ t[k].opcode \notin Range(DirectOpcode)
  <2>1. PICK n \in 1 .. Len(computed) : k = Len(s) + n
    <3>1. k - Len(s) \in 1 .. Len(computed) /\ k = Len(s) + (k - Len(s))
      BY <1>3, <1>6
    <3> QED
      BY <3>1
  <2> QED
    BY <1>1, <1>3, <2>1
<1>7. \A k \in DOMAIN s : k \in DOMAIN t /\ t[k] = s[k]
  BY <1>3
<1> HIDE DEF d, t, more
<1>8. Holds(d, t)
  <2>1. IsList(t) /\ IsList(d.ops) /\ IsList(d.fixups) /\ DOMAIN d = {"ops", "marks", "fixups"}
    BY <1>3, <1>4, <1>5 DEF Holds
  <2>2. ASSUME NEW label \in DOMAIN d.marks
        PROVE  d.marks[label] \in 0 .. Len(d.ops)
    <3>1. c.marks[label] \in 0 .. Len(c.ops)
      BY <1>5, <2>2 DEF Holds
    <3> QED
      BY <1>4, <1>5, <3>1
  <2>3. \A k \in DOMAIN t : t[k].event = "label" => k \in DOMAIN s /\ t[k] = s[k]
    BY <1>6, <1>7
  <2>4. \A k \in DOMAIN t : t[k].event = "label" => t[k].label \in DOMAIN d.marks
    BY <1>5, <2>3 DEF Holds
  <2>5. ASSUME NEW i \in DOMAIN t, NEW j \in DOMAIN t, t[i].event = "label", t[j] = t[i]
        PROVE  i = j
    BY <2>3, <2>5 DEF Holds
  <2> QED
    BY <2>1, <2>2, <2>4, <2>5 DEF Holds
<1>9. ASSUME NEW opcodes \in SUBSET Range(DirectOpcode)
      PROVE  DirectIn(t, opcodes) = DirectIn(s, opcodes)
  BY <1>6, <1>7 DEF DirectIn
<1> QED
  BY <1>4, <1>5, <1>8, <1>9 DEF d, t

(* A label new to the collector is marked with the number of operations so *)
(* far, and nothing else changes (`Collector::label`).                     *)
LEMMA LabelTaken ==
    ASSUME NEW c, NEW s, Holds(c, s), NEW name, name \notin DOMAIN c.marks
    PROVE  LET e == Flat!LabelEvent(name)
               d == Flat!Deliver(c, e)
               t == Append(s, e)
           IN  /\ Holds(d, t)
               /\ DOMAIN d.marks = DOMAIN c.marks \cup {name}
               /\ d.marks[name] = Len(c.ops)
               /\ \A label \in DOMAIN c.marks : d.marks[label] = c.marks[label]
               /\ d.ops = c.ops /\ d.fixups = c.fixups
               /\ \A opcodes : DirectIn(t, opcodes) = DirectIn(s, opcodes)
<1> DEFINE e == Flat!LabelEvent(name)
           d == Flat!Deliver(c, e)
           t == Append(s, e)
           marks == [label \in DOMAIN c.marks \cup {name} |->
                        IF label = name THEN Len(c.ops) ELSE c.marks[label]]
<1>1. e.event = "label" /\ e.label = name
  BY DEF Flat!LabelEvent
<1>2. /\ d.ops = c.ops /\ d.fixups = c.fixups /\ d.marks = marks
      /\ DOMAIN d = {"ops", "marks", "fixups"}
  <2>1. DOMAIN c = {"ops", "marks", "fixups"}
    BY DEF Holds
  <2>2. d = Flat!OnLabel(c, e)
    BY <1>1 DEF Flat!Deliver
  <2>3. d = [c EXCEPT !.marks = marks]
    BY <1>1, <2>2 DEF Flat!OnLabel
  <2> HIDE DEF d, marks
  <2> QED
    BY <2>1, <2>3
<1>3. /\ DOMAIN marks = DOMAIN c.marks \cup {name}
      /\ marks[name] = Len(c.ops)
      /\ \A label \in DOMAIN c.marks : marks[label] = c.marks[label]
  OBVIOUS
<1> HIDE DEF marks, d, e
<1>4. /\ IsList(t) /\ DOMAIN s = 1 .. Len(s) /\ Len(s) \in Nat
      /\ DOMAIN t = DOMAIN s \cup {Len(s) + 1} /\ Len(s) + 1 \notin DOMAIN s
      /\ t[Len(s) + 1] = e
      /\ \A k \in DOMAIN s : t[k] = s[k]
  <2>1. IsList(s)
    BY DEF Holds
  <2>2. DOMAIN s = 1 .. Len(s)
    BY <2>1 DEF IsList
  <2>3. /\ IsList(t) /\ Len(s) \in Nat /\ DOMAIN t = 1 .. Len(s) + 1
        /\ t[Len(s) + 1] = e /\ \A k \in 1 .. Len(s) : t[k] = s[k]
    BY <2>1, ListAppended
  <2> HIDE DEF t
  <2> QED
    BY <2>2, <2>3
<1> HIDE DEF t
<1>5. Holds(d, t)
  <2>1. /\ IsList(d.ops) /\ IsList(d.fixups)
        /\ Len(c.ops) \in Nat
    BY <1>2 DEF Holds, IsList
  <2>2. \A label \in DOMAIN d.marks : d.marks[label] \in 0 .. Len(d.ops)
    BY <1>2, <1>3, <2>1 DEF Holds
  <2>3. \A k \in DOMAIN t : t[k].event = "label" => t[k].label \in DOMAIN d.marks
    BY <1>1, <1>2, <1>3, <1>4 DEF Holds
  <2>4. ASSUME NEW i \in DOMAIN t, NEW j \in DOMAIN t, t[i].event = "label", t[j] = t[i]
        PROVE  i = j
    <3>1. CASE i \in DOMAIN s /\ j \in DOMAIN s
      BY <1>4, <2>4, <3>1 DEF Holds
    <3>2. \A k \in DOMAIN s : t[k] # e
      <4> SUFFICES ASSUME NEW k \in DOMAIN s, t[k] = e PROVE FALSE
        OBVIOUS
      <4>1. s[k].event = "label" /\ s[k].label = name
        BY <1>1, <1>4
      <4> QED
        BY <4>1 DEF Holds
    <3> QED
      BY <1>4, <2>4, <3>1, <3>2
  <2> QED
    BY <1>2, <1>4, <2>1, <2>2, <2>3, <2>4 DEF Holds
<1>6. ASSUME NEW opcodes PROVE DirectIn(t, opcodes) = DirectIn(s, opcodes)
  BY <1>1, <1>4 DEF DirectIn
<1> QED
  BY <1>2, <1>3, <1>5, <1>6 DEF d, t, e

(* An operation or a branch to a label adds one operation; the operation   *)
(* goes to its address, the branch to its label (`Collector::op`,          *)
(* `branch_label`).                                                        *)
LEMMA FlowTaken ==
    ASSUME NEW c, NEW s, Holds(c, s), NEW e, e.event \in {"op", "branch"}
    PROVE  LET d == Flat!Deliver(c, e)
               t == Append(s, e)
           IN  /\ Holds(d, t)
               /\ d.marks = c.marks
               /\ Len(c.ops) \in Nat /\ Len(d.ops) = Len(c.ops) + 1
               /\ \A k \in DOMAIN d.fixups :
                     \/ k \in DOMAIN c.fixups /\ d.fixups[k] = c.fixups[k]
                     \/ e.event = "branch" /\ d.fixups[k].label = e.label
               /\ \A opcodes : DirectIn(t, opcodes) = DirectIn(s, opcodes) \cup
                     (IF e.event = "op" /\ e.opcode \in opcodes
                      THEN {e.inputs[1].offset} ELSE {})
<1> DEFINE d == Flat!Deliver(c, e)
           t == Append(s, e)
<1>1. /\ IsList(s) /\ IsList(c.ops) /\ IsList(c.fixups)
      /\ DOMAIN c = {"ops", "marks", "fixups"}
      /\ DOMAIN c.fixups = 1 .. Len(c.fixups) /\ DOMAIN s = 1 .. Len(s)
  BY DEF Holds, IsList
<1>2. PICK o : /\ d.ops = Append(c.ops, o) /\ d.marks = c.marks
               /\ DOMAIN d = {"ops", "marks", "fixups"}
               /\ \/ d.fixups = c.fixups
                  \/ /\ e.event = "branch"
                     /\ \E i : d.fixups = Append(c.fixups, [index |-> i, label |-> e.label])
  <2>1. CASE e.event = "op"
    <3>1. d = Flat!OnOp(c, e)
      BY <2>1 DEF Flat!Deliver
    <3> DEFINE o == Flat!Op(e.opcode, e.output, e.inputs)
    <3>2. d = [c EXCEPT !.ops = Append(c.ops, o)]
      BY <3>1 DEF Flat!OnOp
    <3> HIDE DEF d, o
    <3> QED
      BY <1>1, <3>2
  <2>2. CASE e.event = "branch"
    <3>1. d = Flat!OnBranchLabel(c, e)
      BY <2>2 DEF Flat!Deliver
    <3> DEFINE o == Flat!Op(e.opcode, None, <<Flat!Constant(0, 8)>> \o e.condition)
               f == Append(c.fixups, [index |-> Len(c.ops), label |-> e.label])
    <3>2. d = [c EXCEPT !.fixups = f, !.ops = Append(c.ops, o)]
      BY <3>1 DEF Flat!OnBranchLabel
    <3> DEFINE g == [index |-> Len(c.ops), label |-> e.label]
    <3>3. f = Append(c.fixups, g)
      OBVIOUS
    <3>4. \E i : f = Append(c.fixups, [index |-> i, label |-> e.label])
      BY <3>3
    <3> HIDE DEF d, o, f, g
    <3>5. /\ d.ops = Append(c.ops, o) /\ d.marks = c.marks /\ d.fixups = f
          /\ DOMAIN d = {"ops", "marks", "fixups"}
      BY <1>1, <3>2
    <3> QED
      BY <2>2, <3>4, <3>5
  <2> QED
    BY <2>1, <2>2
<1>3. \A k \in DOMAIN d.fixups :
         \/ k \in DOMAIN c.fixups /\ d.fixups[k] = c.fixups[k]
         \/ e.event = "branch" /\ d.fixups[k].label = e.label
  <2>1. CASE d.fixups = c.fixups
    BY <2>1
  <2>2. CASE /\ e.event = "branch"
             /\ \E i : d.fixups = Append(c.fixups, [index |-> i, label |-> e.label])
    <3>1. PICK i : d.fixups = Append(c.fixups, [index |-> i, label |-> e.label])
      BY <2>2
    <3> DEFINE f == [index |-> i, label |-> e.label]
    <3>2. f.label = e.label
      OBVIOUS
    <3> HIDE DEF f, d
    <3>3. /\ DOMAIN d.fixups = 1 .. Len(c.fixups) + 1 /\ Len(c.fixups) \in Nat
          /\ \A k \in 1 .. Len(c.fixups) : d.fixups[k] = c.fixups[k]
          /\ d.fixups[Len(c.fixups) + 1] = f
      BY <1>1, <3>1, ListAppended DEF f
    <3> QED
      BY <1>1, <2>2, <3>2, <3>3
  <2> QED
    BY <1>2, <2>1, <2>2
<1>4. IsList(d.fixups)
  <2>1. CASE d.fixups = c.fixups
    BY <1>1, <2>1
  <2>2. CASE \E f : d.fixups = Append(c.fixups, f)
    <3>1. PICK f : d.fixups = Append(c.fixups, f)
      BY <2>2
    <3> QED
      BY <1>1, <3>1, ListAppended
  <2> QED
    BY <1>2, <2>1, <2>2
<1> HIDE DEF d
<1>5. /\ IsList(d.ops) /\ Len(c.ops) \in Nat /\ Len(d.ops) = Len(c.ops) + 1
  BY <1>1, <1>2, ListAppended
<1>6. /\ IsList(t) /\ Len(s) \in Nat
      /\ DOMAIN t = DOMAIN s \cup {Len(s) + 1} /\ Len(s) + 1 \notin DOMAIN s
      /\ t[Len(s) + 1] = e
      /\ \A k \in DOMAIN s : t[k] = s[k]
  <2>3. /\ IsList(t) /\ Len(s) \in Nat /\ DOMAIN t = 1 .. Len(s) + 1
        /\ t[Len(s) + 1] = e /\ \A k \in 1 .. Len(s) : t[k] = s[k]
    BY <1>1, ListAppended
  <2> HIDE DEF t
  <2> QED
    BY <1>1, <2>3
<1> HIDE DEF t
<1>7. Holds(d, t)
  <2>1. \A label \in DOMAIN d.marks : d.marks[label] \in 0 .. Len(d.ops)
    BY <1>2, <1>5 DEF Holds
  <2>2. \A k \in DOMAIN t : t[k].event = "label" => k \in DOMAIN s /\ t[k] = s[k]
    BY <1>6
  <2>3. \A k \in DOMAIN t : t[k].event = "label" => t[k].label \in DOMAIN d.marks
    BY <1>2, <2>2 DEF Holds
  <2>4. ASSUME NEW i \in DOMAIN t, NEW j \in DOMAIN t, t[i].event = "label", t[j] = t[i]
        PROVE  i = j
    BY <2>2, <2>4 DEF Holds
  <2> QED
    BY <1>2, <1>4, <1>5, <1>6, <2>1, <2>3, <2>4 DEF Holds
<1>8. ASSUME NEW opcodes
      PROVE  DirectIn(t, opcodes) = DirectIn(s, opcodes) \cup
                (IF e.event = "op" /\ e.opcode \in opcodes
                 THEN {e.inputs[1].offset} ELSE {})
  BY <1>6 DEF DirectIn
<1> QED
  BY <1>2, <1>3, <1>5, <1>7, <1>8 DEF d, t

----------------------------------------------------------------------------
(* What planning knows.                                                    *)

(* A statement is a label or flow, never both, and a label is its name.    *)
LEMMA StatementKinds ==
    ASSUME NEW st \in Plan!Statement
    PROVE  /\ Plan!IsLabel(st) => /\ st.name \in Label /\ st = LabelStmt(st.name)
                                  /\ st.kind \notin Plan!FlowKind
           /\ st.kind \in Plan!FlowKind => ~Plan!IsLabel(st)
BY DEF Plan!Statement, Plan!LabelStatement, Plan!FlowStatement, Plan!PlainStatement,
       Plan!FlowKind, Plan!IsLabel, LabelStmt

(* The planner is fed labels as they are,                                  *)
LEMMA PlannedLabel ==
    ASSUME NEW st
    PROVE  /\ Plan!IsLabel(PlannedStatement(st)) <=> st.kind = "Label"
           /\ st.kind = "Label" => PlannedStatement(st) = st
BY DEF PlannedStatement, Plan!IsLabel, Plan!FlowKind

(* a branch or call to a label as one,                                     *)
LEMMA PlannedFlow ==
    ASSUME NEW st
    PROVE  LET planned == PlannedStatement(st)
           IN  (planned.kind \in Plan!FlowKind /\ planned.target.form = "Label")
                 <=> (st.kind \in Plan!FlowKind /\ st.target.form = "Label")
BY DEF PlannedStatement, PlannedTarget, Plan!FlowKind

(* and with its name.                                                      *)
LEMMA PlannedTargetKept ==
    ASSUME NEW st, st.kind \in Plan!FlowKind, st.target.form = "Label"
    PROVE  PlannedStatement(st).target = st.target
BY DEF PlannedStatement, PlannedTarget, Plan!FlowKind

(* When planning has finished, every statement was planned, and the plan's *)
(* labels are those that some statement defines.                           *)
LEMMA PlanComplete ==
    ASSUME PipeInv, finished
    PROVE  /\ Len(fed) = Len(statements) /\ Len(fed) \in Nat
           /\ DOMAIN fed = 1 .. Len(fed) /\ DOMAIN statements = 1 .. Len(fed)
           /\ \A k \in 1 .. Len(fed) :
                 fed[k] \in Plan!Statement /\ fed[k] = PlannedStatement(statements[k])
           /\ Range(labels) = DefinedBy(Len(fed))
<1>1. /\ fed \in Seq(Plan!Statement)
      /\ Range(labels) = {fed[i].name : i \in {k \in DOMAIN fed : Plan!IsLabel(fed[k])}}
  <2>1. /\ fed \in Seq(PlanProofs!Statement)
        /\ PlanProofs!Range(labels) =
              {fed[i].name : i \in {k \in DOMAIN fed : PlanProofs!IsLabel(fed[k])}}
    BY DEF PipeInv, PlanProofs!Inv, PlanProofs!TypeOK, PlanProofs!LabelsExact
  <2>2. PlanProofs!Range(labels) = Range(labels)
    BY DEF PlanProofs!Range, Range
  <2> QED
    BY <2>1, <2>2, SamePlanner
<1>2. statements \in Seq(Range(statements))
  BY ProgramsAssumption DEF PipeInv, FedInOrder
<1>3. Len(fed) = Len(statements) /\ \A k \in DOMAIN fed : fed[k] = PlannedStatement(statements[k])
  BY DEF PipeInv, FedInOrder
<1>4. /\ DOMAIN fed = 1 .. Len(fed) /\ Len(fed) \in Nat
      /\ \A k \in 1 .. Len(fed) : fed[k] \in Plan!Statement
      /\ DOMAIN statements = 1 .. Len(statements)
  BY <1>1, <1>2
<1> QED
  BY <1>1, <1>3, <1>4 DEF DefinedBy

(* What one more statement defines and goes to.                            *)
LEMMA OneMoreStatement ==
    ASSUME NEW n \in Nat
    PROVE  /\ DefinedBy(n + 1) = DefinedBy(n) \cup
                 (IF Plan!IsLabel(fed[n + 1]) THEN {fed[n + 1].name} ELSE {})
           /\ \A kinds : TargetsBy(n + 1, kinds) = TargetsBy(n, kinds) \cup
                 Going(fed[n + 1], kinds)
<1>1. 1 .. n + 1 = (1 .. n) \cup {n + 1}
  OBVIOUS
<1> QED
  BY <1>1 DEF DefinedBy, TargetsBy, Going

(* A statement goes to a name the plan does not have exactly if no         *)
(* statement of the instruction defines it.                                *)
LEMMA DanglesGoesNowhere ==
    ASSUME PipeInv, finished, NEW k \in 1 .. Len(fed)
    PROVE  Dangles(fed[k]) <=>
              /\ statements[k].kind \in Plan!FlowKind
              /\ statements[k].target.form = "Label"
              /\ \A j \in DOMAIN statements :
                    statements[j] # LabelStmt(statements[k].target.name)
<1>1. /\ DOMAIN statements = 1 .. Len(fed) /\ Range(labels) = DefinedBy(Len(fed))
      /\ \A j \in 1 .. Len(fed) :
            fed[j] \in Plan!Statement /\ fed[j] = PlannedStatement(statements[j])
  BY PlanComplete
<1> DEFINE st == statements[k]
           flows == st.kind \in Plan!FlowKind /\ st.target.form = "Label"
<1>2. /\ (fed[k].kind \in Plan!FlowKind /\ fed[k].target.form = "Label") <=> flows
      /\ flows => fed[k].target = st.target
  BY <1>1, PlannedFlow, PlannedTargetKept
<1>3. ASSUME NEW name
      PROVE  name \in Range(labels) <=> \E j \in DOMAIN statements : statements[j] = LabelStmt(name)
  <2>1. ASSUME NEW j \in DOMAIN statements, statements[j] = LabelStmt(name)
        PROVE  name \in DefinedBy(Len(fed))
    <3>1. statements[j].kind = "Label" /\ statements[j].name = name
      BY <2>1 DEF LabelStmt
    <3>2. Plan!IsLabel(fed[j]) /\ fed[j].name = name
      BY <1>1, <3>1, PlannedLabel
    <3> QED
      BY <1>1, <3>2 DEF DefinedBy
  <2>2. ASSUME name \in DefinedBy(Len(fed))
        PROVE  \E j \in DOMAIN statements : statements[j] = LabelStmt(name)
    <3>1. PICK j \in 1 .. Len(fed) : Plan!IsLabel(fed[j]) /\ fed[j].name = name
      BY <2>2 DEF DefinedBy
    <3>2. fed[j] = LabelStmt(name) /\ statements[j] = fed[j]
      BY <1>1, <3>1, StatementKinds, PlannedLabel
    <3> QED
      BY <1>1, <3>2
  <2> QED
    BY <1>1, <2>1, <2>2
<1> QED
  BY <1>2, <1>3 DEF Dangles

(* Two planned labels are one exactly if the statements are.               *)
LEMMA DefinedAgain ==
    ASSUME PipeInv, finished, NEW i \in 1 .. Len(fed), NEW j \in 1 .. Len(fed)
    PROVE  (Plan!IsLabel(fed[i]) /\ fed[j] = fed[i])
              <=> (statements[i].kind = "Label" /\ statements[j] = statements[i])
<1>1. \A k \in 1 .. Len(fed) : fed[k] = PlannedStatement(statements[k])
  BY PlanComplete
<1>2. /\ Plan!IsLabel(fed[i]) <=> statements[i].kind = "Label"
      /\ Plan!IsLabel(fed[j]) <=> statements[j].kind = "Label"
      /\ statements[i].kind = "Label" => fed[i] = statements[i]
      /\ statements[j].kind = "Label" => fed[j] = statements[j]
  BY <1>1, PlannedLabel
<1> QED
  BY <1>2 DEF Plan!IsLabel

----------------------------------------------------------------------------
(* What the invariant says at the end.                                     *)

(* When everything was emitted, what was planned was reported, no label is *)
(* defined twice or missing, and every local branch resolves.              *)
LEMMA AllReported ==
    ASSUME PipeInv, finished, emitted = Len(statements), outcome \in {"open", "lowered"}
    PROVE  /\ Range(labels) = DOMAIN collector.marks
           /\ ~DefinedTwice /\ ~GoesNowhere
           /\ Flat!Resolvable(collector)
<1>1. /\ emitted = Len(fed) /\ Range(labels) = DefinedBy(Len(fed)) /\ ReportedSoFar
      /\ DOMAIN statements = 1 .. Len(fed)
  BY PlanComplete DEF PipeInv
<1>2. Range(labels) = DOMAIN collector.marks
  BY <1>1 DEF ReportedSoFar, Reported
<1>3. ~DefinedTwice
  <2> SUFFICES ASSUME NEW i \in 1 .. Len(fed), NEW j \in 1 .. Len(fed), i # j,
                      statements[i].kind = "Label", statements[j] = statements[i]
               PROVE  FALSE
    BY <1>1 DEF DefinedTwice
  <2>1. Plan!IsLabel(fed[i]) /\ fed[j] = fed[i]
    BY DefinedAgain
  <2> QED
    BY <1>1, <2>1 DEF ReportedSoFar, Reported
<1>4. ~GoesNowhere
  <2> SUFFICES ASSUME NEW k \in 1 .. Len(fed),
                      statements[k].kind \in Plan!FlowKind,
                      statements[k].target.form = "Label",
                      \A j \in DOMAIN statements :
                         statements[j] # LabelStmt(statements[k].target.name)
               PROVE  FALSE
    BY <1>1 DEF GoesNowhere
  <2>1. Dangles(fed[k])
    BY DanglesGoesNowhere
  <2> QED
    BY <1>1, <2>1 DEF ReportedSoFar, Reported
<1>5. Flat!Resolvable(collector)
  BY <1>2 DEF PipeInv, BranchesPlanned, Flat!Resolvable
<1> QED
  BY <1>2, <1>3, <1>4, <1>5

(* The plan is what was emitted.                                           *)
LEMMA InvMeansMatch == PipeInv => PlanMatchesEmission
<1> SUFFICES ASSUME PipeInv, Lowered PROVE PlanMatchesEmission
  BY DEF PlanMatchesEmission
<1>1. finished /\ emitted = Len(statements) /\ outcome = "lowered"
  BY DEF PipeInv, FedInOrder, Lowered
<1>2. /\ Range(labels) = DOMAIN collector.marks
      /\ Len(fed) = Len(statements) /\ DOMAIN fed = 1 .. Len(fed)
  BY <1>1, AllReported, PlanComplete
<1>3. /\ DirectIn(stream, {"Branch", "CBranch"}) =
            TargetsBy(Len(fed), {"Branch", "ConditionalBranch"})
      /\ DirectIn(stream, {"Call"}) = TargetsBy(Len(fed), {"Call"})
  BY <1>1, <1>2 DEF PipeInv, ReportedSoFar, Reported
<1>4. /\ Range(directBranches) = TargetsBy(Len(fed), {"Branch", "ConditionalBranch"})
      /\ Range(directCalls) = TargetsBy(Len(fed), {"Call"})
  BY <1>2 DEF PipeInv, PlanProofs!Inv, PlanProofs!TargetsExact, PlanProofs!LiteralTargets,
              PlanProofs!Range, Range, TargetsBy
<1>5. \A opcodes : DirectTargets(opcodes) = DirectIn(stream, opcodes)
  BY DEF DirectTargets, DirectIn
<1> QED
  BY <1>2, <1>3, <1>4, <1>5 DEF PipeInv, Holds, PlanMatchesEmission

(* A terminal label is just past the last operation.                       *)
LEMMA InvMeansPastEnd == PipeInv => TerminalIsPastEnd
<1> SUFFICES ASSUME PipeInv, Lowered, NEW id \in DOMAIN labels
             PROVE  /\ collector.marks[labels[id]] \in 0 .. Len(collector.ops)
                    /\ terminal[id] => collector.marks[labels[id]] = Len(collector.ops)
  BY DEF TerminalIsPastEnd
<1>1. finished /\ emitted = Len(statements) /\ outcome = "lowered"
  BY DEF PipeInv, FedInOrder, Lowered
<1>2. labels[id] \in DOMAIN collector.marks
  BY <1>1, AllReported DEF Range
<1>3. collector.marks[labels[id]] \in 0 .. Len(collector.ops)
  BY <1>2 DEF PipeInv, Holds
<1>4. ASSUME terminal[id]
      PROVE  collector.marks[labels[id]] = Len(collector.ops)
  <2>1. PlanProofs!EndsInstruction(fed, labels[id])
    BY <1>4 DEF PipeInv, PlanProofs!Inv, PlanProofs!TerminalExact
  <2>2. DOMAIN fed = 1 .. Len(fed) /\ Len(fed) = Len(statements) /\ Len(fed) \in Nat
    BY <1>1, PlanComplete
  <2>3. PICK i \in 1 .. Len(fed) :
           /\ Plan!IsLabel(fed[i]) /\ fed[i].name = labels[id]
           /\ \A j \in i + 1 .. Len(fed) : Plan!IsLabel(fed[j])
    BY <2>1, <2>2 DEF PlanProofs!EndsInstruction, PlanProofs!IsLabel, Plan!IsLabel
  <2>4. LabelsFrom(i, emitted)
    BY <1>1, <2>2, <2>3 DEF LabelsFrom, Plan!IsLabel
  <2> QED
    BY <1>1, <2>2, <2>3, <2>4 DEF PipeInv, ReportedSoFar, Reported
<1> QED
  BY <1>3, <1>4

(* Resolution does not fail.                                               *)
LEMMA InvMeansResolves == PipeInv => ResolutionNeverFails
BY AllReported DEF ResolutionNeverFails

(* Label errors are exact.                                                 *)
LEMMA InvMeansLabelErrors == PipeInv => LabelErrorsExact
<1> SUFFICES ASSUME PipeInv PROVE LabelErrorsExact
  OBVIOUS
<1>1. Lowered => finished /\ emitted = Len(statements) /\ outcome = "lowered"
  BY DEF PipeInv, FedInOrder, Lowered
<1> QED
  BY <1>1, AllReported DEF PipeInv, LabelErrorsExact

----------------------------------------------------------------------------
(* Each step keeps the invariant.                                          *)

\* Before the first statement is emitted the sink has nothing.
NothingYet == emitted = 0 /\ collector = Flat!NewCollector /\ stream = <<>>

(* That is all there is to say of an empty sink.                           *)
LEMMA NothingHolds ==
    NothingYet => Holds(collector, stream) /\ BranchesPlanned(collector) /\ ReportedSoFar
<1> SUFFICES ASSUME NothingYet
             PROVE  Holds(collector, stream) /\ BranchesPlanned(collector) /\ ReportedSoFar
  OBVIOUS
<1>1. /\ stream = <<>> /\ collector.ops = <<>> /\ collector.fixups = <<>> /\ emitted = 0
      /\ collector.marks = [label \in {} |-> 0]
      /\ DOMAIN collector = {"ops", "marks", "fixups"}
  BY DEF NothingYet, Flat!NewCollector
<1>2. IsList(<<>>) /\ DOMAIN <<>> = {} /\ 1 .. 0 = {}
  BY DEF IsList
<1>3. Holds(collector, stream) /\ BranchesPlanned(collector)
  BY <1>1, <1>2 DEF Holds, BranchesPlanned
<1>4. ReportedSoFar
  BY <1>1, <1>2 DEF ReportedSoFar, Reported, DefinedBy, TargetsBy, DirectIn
<1> QED
  BY <1>3, <1>4

(* The invariant holds before anything is planned.                         *)
LEMMA PipeInitially == PipeInit => PipeInv
<1> SUFFICES ASSUME PipeInit PROVE PipeInv
  OBVIOUS
<1>1. PlanProofs!Inv
  BY SamePlanner, PlanProofs!InitInv, BoundAssumption DEF PipeInit
<1>2. /\ fed = <<>> /\ finished = FALSE /\ stream = <<>> /\ emitted = 0 /\ outcome = "open"
      /\ statements \in Programs /\ collector = Flat!NewCollector
  BY DEF PipeInit, Plan!Init
<1>3. statements \in Seq(Range(statements)) /\ Len(statements) \in Nat
  BY <1>2, ProgramsAssumption
<1>4. FedInOrder
  BY <1>2, <1>3 DEF FedInOrder, LowerErrors
<1>5. NothingYet
  BY <1>2 DEF NothingYet
<1> QED
  BY <1>1, <1>2, <1>4, <1>5, NothingHolds DEF PipeInv, Lowered

(* Planning keeps it (`plan_instruction_with`).                            *)
LEMMA PlanningKeeps == PipeInv /\ (PlanOne \/ EndPlan) => PipeInv'
<1> SUFFICES ASSUME PipeInv, PlanOne \/ EndPlan PROVE PipeInv'
  OBVIOUS
<1>1. /\ ~finished /\ UNCHANGED <<statements, sinkVars>>
      /\ \/ /\ Len(fed) < Len(statements) /\ finished' = finished
            /\ Plan!Feed(PlannedStatement(statements[Len(fed) + 1]))
         \/ Len(fed) = Len(statements) /\ fed' = fed /\ finished' = TRUE /\ Plan!Finish
  BY DEF PlanOne, EndPlan, Plan!Feed, Plan!Finish
<1>2. /\ emitted = 0 /\ outcome = "open" /\ NothingYet
      /\ UNCHANGED <<statements, emitted, outcome, collector, stream>>
  BY <1>1 DEF PipeInv, FedInOrder, sinkVars, NothingYet
<1>3. /\ statements \in Seq(Range(statements))
      /\ \A k \in DOMAIN statements : PlannedStatement(statements[k]) \in Plan!Statement
      /\ fed \in Seq(PlanProofs!Statement)
  BY ProgramsAssumption DEF PipeInv, FedInOrder, PlanProofs!Inv, PlanProofs!TypeOK
<1>4. PlanProofs!Inv'
  <2>1. CASE Plan!Finish
    BY <2>1, PlanKept DEF PipeInv
  <2>2. CASE /\ Len(fed) < Len(statements)
             /\ Plan!Feed(PlannedStatement(statements[Len(fed) + 1]))
    <3>1. Len(fed) + 1 \in DOMAIN statements
      BY <1>3, <2>2
    <3> QED
      BY <1>3, <2>2, <3>1, PlanKept DEF PipeInv
  <2> QED
    BY <1>1, <2>1, <2>2
<1>5. FedInOrder'
  <2>1. /\ Len(fed') <= Len(statements)
        /\ \A k \in DOMAIN fed' : fed'[k] = PlannedStatement(statements[k])
        /\ finished' => Len(fed') = Len(statements)
    <3>1. CASE fed' = fed /\ Len(fed) = Len(statements)
      BY <3>1 DEF PipeInv, FedInOrder
    <3>2. CASE /\ Len(fed) < Len(statements) /\ finished' = finished
               /\ Plan!Feed(PlannedStatement(statements[Len(fed) + 1]))
      <4>1. fed' = Append(fed, PlannedStatement(statements[Len(fed) + 1]))
        BY <3>2 DEF Plan!Feed
      <4>2. /\ Len(fed) \in Nat /\ Len(fed') = Len(fed) + 1 /\ DOMAIN fed = 1 .. Len(fed)
            /\ DOMAIN fed' = 1 .. Len(fed) + 1
            /\ \A k \in 1 .. Len(fed) : fed'[k] = fed[k]
            /\ fed'[Len(fed) + 1] = PlannedStatement(statements[Len(fed) + 1])
        BY <1>3, <4>1, ListOf, ListAppended
      <4>3. \A k \in 1 .. Len(fed) : fed[k] = PlannedStatement(statements[k])
        BY <4>2 DEF PipeInv, FedInOrder
      <4>4. Len(statements) \in Nat
        BY <1>3
      <4> QED
        BY <1>1, <3>2, <4>2, <4>3, <4>4
    <3> QED
      BY <1>1, <3>1, <3>2
  <2>2. statements \in Programs /\ Len(statements) \in Nat
    BY <1>3 DEF PipeInv, FedInOrder
  <2> QED
    BY <1>2, <2>1, <2>2 DEF FedInOrder, LowerErrors, NothingYet
<1>6. NothingYet'
  BY <1>2 DEF NothingYet
<1>7. (Holds(collector, stream) /\ BranchesPlanned(collector) /\ ReportedSoFar)'
  BY <1>6, NothingHolds, PTL
<1> QED
  BY <1>2, <1>4, <1>5, <1>7 DEF PipeInv, Lowered

(* The statement emitted next; emitting it changes neither the plan nor    *)
(* the instruction, only what was reported.                                *)
LEMMA EmitFrame ==
    ASSUME PipeInv, EmitOne
    PROVE  /\ finished /\ finished' /\ ReportedSoFar /\ outcome = "open"
           /\ emitted' = emitted + 1 /\ emitted \in Nat
           /\ emitted + 1 \in 1 .. Len(fed) /\ fed[emitted + 1] \in Plan!Statement
           /\ labels' = labels /\ fed' = fed /\ statements' = statements
           /\ PlanProofs!Inv'
           /\ outcome' \in {"open"} \cup LowerErrors => FedInOrder'
<1>1. /\ finished /\ outcome = "open" /\ emitted < Len(statements) /\ emitted' = emitted + 1
      /\ UNCHANGED <<statements, planVars>>
  BY DEF EmitOne
<1>2. /\ labels' = labels /\ fed' = fed /\ statements' = statements /\ finished' = finished
      /\ UNCHANGED planVars
  BY <1>1 DEF planVars
<1>3. /\ Len(fed) = Len(statements) /\ Len(fed) \in Nat /\ DOMAIN fed = 1 .. Len(fed)
      /\ \A k \in 1 .. Len(fed) : fed[k] \in Plan!Statement
  BY <1>1, PlanComplete
<1>4. emitted \in Nat /\ ReportedSoFar
  <2>1. emitted \in 0 .. Len(statements) /\ ReportedSoFar
    BY <1>1 DEF PipeInv, FedInOrder
  <2> QED
    BY <1>3, <2>1
<1>5. emitted + 1 \in 1 .. Len(fed)
  BY <1>1, <1>3, <1>4
<1>6. PlanProofs!Inv'
  BY <1>2, PlanKept DEF PipeInv
<1>7. ASSUME outcome' \in {"open"} \cup LowerErrors PROVE FedInOrder'
  <2>1. /\ statements \in Programs
        /\ \A k \in DOMAIN fed : fed[k] = PlannedStatement(statements[k])
    BY DEF PipeInv, FedInOrder
  <2>2. emitted + 1 \in 0 .. Len(statements) /\ emitted + 1 > 0
    BY <1>3, <1>4, <1>5
  <2> QED
    BY <1>1, <1>2, <1>3, <1>7, <2>1, <2>2 DEF FedInOrder
<1> QED
  BY <1>1, <1>2, <1>3, <1>4, <1>5, <1>6, <1>7

(* If one more statement is emitted, reporting what it is and no more,     *)
(* everything reported is what the statements up to it are.                *)
LEMMA OneMoreReported ==
    ASSUME NEW n \in Nat, NEW c, NEW s, Reported(c, s, n),
           NEW d, NEW t, NEW st, st = fed[n + 1], ~Dangles(st),
           IF Plan!IsLabel(st)
           THEN /\ st.name \notin DOMAIN c.marks
                /\ DOMAIN d.marks = DOMAIN c.marks \cup {st.name}
                /\ \A label \in DOMAIN c.marks : d.marks[label] = c.marks[label]
                /\ d.marks[st.name] = Len(c.ops)
                /\ Len(d.ops) = Len(c.ops)
           ELSE DOMAIN d.marks = DOMAIN c.marks,
           DirectIn(t, {"Branch", "CBranch"}) =
              DirectIn(s, {"Branch", "CBranch"}) \cup Going(st, {"Branch", "ConditionalBranch"}),
           DirectIn(t, {"Call"}) = DirectIn(s, {"Call"}) \cup Going(st, {"Call"})
    PROVE  Reported(d, t, n + 1)
<1>1. \A k \in 1 .. n + 1 : k \in 1 .. n \/ k = n + 1
  OBVIOUS
<1>2. /\ DefinedBy(n + 1) = DefinedBy(n) \cup (IF Plan!IsLabel(st) THEN {st.name} ELSE {})
      /\ \A kinds : TargetsBy(n + 1, kinds) = TargetsBy(n, kinds) \cup Going(st, kinds)
  BY OneMoreStatement
<1>3. \A k \in 1 .. n : Plan!IsLabel(fed[k]) => fed[k].name \in DOMAIN c.marks
  BY DEF Reported, DefinedBy
<1>4. DOMAIN d.marks = DefinedBy(n + 1)
  BY <1>2 DEF Reported
<1>5. ASSUME NEW i \in 1 .. n + 1, NEW j \in 1 .. n + 1, Plan!IsLabel(fed[i]), fed[j] = fed[i]
      PROVE  i = j
  <2>1. Plan!IsLabel(fed[j]) /\ fed[j].name = fed[i].name
    BY <1>5
  <2>2. CASE i \in 1 .. n /\ j \in 1 .. n
    BY <1>5, <2>2 DEF Reported
  <2> QED
    BY <1>1, <1>3, <1>5, <2>1, <2>2
<1>6. \A k \in 1 .. n + 1 : ~Dangles(fed[k])
  BY <1>1 DEF Reported
<1>7. ASSUME NEW k \in 1 .. n + 1, LabelsFrom(k, n + 1)
      PROVE  d.marks[fed[k].name] = Len(d.ops)
  <2>1. Plan!IsLabel(st)
    BY <1>7 DEF LabelsFrom
  <2>2. CASE k = n + 1
    BY <2>1, <2>2
  <2>3. CASE k \in 1 .. n
    <3>1. LabelsFrom(k, n) /\ Plan!IsLabel(fed[k])
      BY <1>7, <2>3 DEF LabelsFrom
    <3>2. c.marks[fed[k].name] = Len(c.ops)
      BY <2>3, <3>1 DEF Reported
    <3> QED
      BY <1>3, <2>1, <2>3, <3>1, <3>2
  <2> QED
    BY <1>1, <2>2, <2>3
<1>8. /\ DirectIn(t, {"Branch", "CBranch"}) = TargetsBy(n + 1, {"Branch", "ConditionalBranch"})
      /\ DirectIn(t, {"Call"}) = TargetsBy(n + 1, {"Call"})
  BY <1>2 DEF Reported
<1> QED
  BY <1>4, <1>5, <1>6, <1>7, <1>8 DEF Reported

(* After a step that leaves the plan alone,                                *)
LEMMA ReportedThere ==
    ASSUME UNCHANGED <<labels, fed>>, Reported(collector', stream', emitted')
    PROVE  ReportedSoFar'
BY DEF ReportedSoFar, Reported, DefinedBy, TargetsBy, Dangles, LabelsFrom

(* and so after a statement is emitted.                                    *)
LEMMA ReportedNext ==
    ASSUME PipeInv, EmitOne, Reported(collector', stream', emitted + 1)
    PROVE  ReportedSoFar'
<1>1. emitted' = emitted + 1 /\ labels' = labels /\ fed' = fed
  BY EmitFrame
<1>2. Reported(collector', stream', emitted')
  BY <1>1
<1> QED
  BY <1>1, <1>2, ReportedThere

(* A label is emitted (`Emitter::lower_statement`).                        *)
LEMMA LabelEmitted ==
    ASSUME PipeInv, EmitOne, NEW st, st = fed[emitted + 1],
           Plan!IsLabel(st), EmitLabel(st.name)
    PROVE  Holds(collector, stream)' /\ BranchesPlanned(collector)' /\ ReportedSoFar'
<1>1. /\ Reported(collector, stream, emitted) /\ emitted \in Nat
      /\ labels' = labels /\ st \in Plan!Statement
  BY EmitFrame DEF ReportedSoFar
<1>2. /\ st.name \notin DOMAIN collector.marks
      /\ stream' = Append(stream, Flat!LabelEvent(st.name))
      /\ collector' = Flat!Deliver(collector, Flat!LabelEvent(st.name))
  BY DEF EmitLabel
<1>3. /\ Holds(collector', stream')
      /\ DOMAIN collector'.marks = DOMAIN collector.marks \cup {st.name}
      /\ collector'.marks[st.name] = Len(collector.ops)
      /\ \A label \in DOMAIN collector.marks :
            collector'.marks[label] = collector.marks[label]
      /\ collector'.ops = collector.ops /\ collector'.fixups = collector.fixups
      /\ \A opcodes : DirectIn(stream', opcodes) = DirectIn(stream, opcodes)
  BY <1>2, LabelTaken DEF PipeInv
<1>4. BranchesPlanned(collector)'
  BY <1>1, <1>3 DEF PipeInv, BranchesPlanned
<1>5. ~Dangles(st) /\ \A kinds \in SUBSET Plan!FlowKind : Going(st, kinds) = {}
  BY <1>1, StatementKinds DEF Dangles, Going
<1>6. Going(st, {"Branch", "ConditionalBranch"}) = {} /\ Going(st, {"Call"}) = {}
  BY <1>5 DEF Plan!FlowKind
<1>7. /\ DirectIn(stream', {"Branch", "CBranch"}) =
            DirectIn(stream, {"Branch", "CBranch"}) \cup Going(st, {"Branch", "ConditionalBranch"})
      /\ DirectIn(stream', {"Call"}) = DirectIn(stream, {"Call"}) \cup Going(st, {"Call"})
      /\ Len(collector'.ops) = Len(collector.ops)
  BY <1>3, <1>6
<1>8. IF Plan!IsLabel(st)
      THEN /\ st.name \notin DOMAIN collector.marks
           /\ DOMAIN collector'.marks = DOMAIN collector.marks \cup {st.name}
           /\ \A label \in DOMAIN collector.marks :
                 collector'.marks[label] = collector.marks[label]
           /\ collector'.marks[st.name] = Len(collector.ops)
           /\ Len(collector'.ops) = Len(collector.ops)
      ELSE DOMAIN collector'.marks = DOMAIN collector.marks
  BY <1>2, <1>3
<1>9. Reported(collector', stream', emitted + 1)
  BY <1>1, <1>5, <1>7, <1>8, OneMoreReported
<1> QED
  BY <1>3, <1>4, <1>9, ReportedNext DEF Holds

(* A statement that only computes is emitted.                              *)
LEMMA PlainEmitted ==
    ASSUME PipeInv, EmitOne, NEW st, st = fed[emitted + 1],
           st.kind \notin {"Label"} \cup Plan!FlowKind, ReportsOps
    PROVE  Holds(collector, stream)' /\ BranchesPlanned(collector)' /\ ReportedSoFar'
<1>1. /\ Reported(collector, stream, emitted) /\ emitted \in Nat /\ labels' = labels
  BY EmitFrame DEF ReportedSoFar
<1>2. /\ Computing(New(0)) /\ stream' = stream \o New(0)
      /\ collector' = WithOps(collector, New(0))
  BY DEF ReportsOps
<1>3. /\ Holds(collector', stream')
      /\ collector'.marks = collector.marks /\ collector'.fixups = collector.fixups
      /\ \A opcodes \in SUBSET Range(DirectOpcode) :
            DirectIn(stream', opcodes) = DirectIn(stream, opcodes)
  BY <1>2, Computed DEF PipeInv
<1>4. BranchesPlanned(collector)'
  BY <1>1, <1>3 DEF PipeInv, BranchesPlanned
<1>5. /\ ~Dangles(st) /\ ~Plan!IsLabel(st)
      /\ Going(st, {"Branch", "ConditionalBranch"}) = {} /\ Going(st, {"Call"}) = {}
  BY DEF Dangles, Going, Plan!FlowKind, Plan!IsLabel
<1>6. /\ {"Branch", "CBranch"} \in SUBSET Range(DirectOpcode)
      /\ {"Call"} \in SUBSET Range(DirectOpcode)
  BY DirectOpcodes
<1>7. Reported(collector', stream', emitted + 1)
  BY <1>1, <1>3, <1>5, <1>6, OneMoreReported
<1> QED
  BY <1>3, <1>4, <1>7, ReportedNext DEF Holds

(* A direct branch or call is emitted (`Emitter::lower_direct_flow`).      *)
LEMMA FlowEmitted ==
    ASSUME PipeInv, EmitOne, NEW st, st = fed[emitted + 1],
           st.kind \in Plan!FlowKind, EmitFlow(st)
    PROVE  Holds(collector, stream)' /\ BranchesPlanned(collector)' /\ ReportedSoFar'
<1> DEFINE e == stream'[Len(stream')]
           c == WithOps(collector, New(1))
           s == stream \o New(1)
           lands == {"Branch", "ConditionalBranch"}
<1>1. /\ Reported(collector, stream, emitted) /\ emitted \in Nat /\ labels' = labels
      /\ st \in Plan!Statement /\ ~Plan!IsLabel(st)
  BY EmitFrame, StatementKinds DEF ReportedSoFar
<1>2. /\ FlowEvent(st, e) /\ Computing(New(1))
      /\ stream' = Append(s, e) /\ collector' = Flat!Deliver(c, e)
  BY DEF EmitFlow, ReportsLast
<1>3. /\ Holds(c, s) /\ c.marks = collector.marks /\ c.fixups = collector.fixups
      /\ \A opcodes \in SUBSET Range(DirectOpcode) :
            DirectIn(s, opcodes) = DirectIn(stream, opcodes)
  BY <1>2, Computed DEF PipeInv
<1>4. /\ e.opcode = DirectOpcode[st.kind]
      /\ \/ /\ st.target.form = "Label" /\ st.target.name \in Range(labels)
            /\ e.event = "branch" /\ e.label = st.target.name
         \/ /\ st.target.form = "Literal" /\ e.event = "op"
            /\ e.inputs[1].offset = st.target.value
  BY <1>2 DEF FlowEvent, Flat!BranchEvent, Flat!OpEvent
<1> HIDE DEF e, c, s
<1>4a. e.event \in {"op", "branch"}
  BY <1>4
<1>5. /\ Holds(collector', stream')
      /\ collector'.marks = c.marks
      /\ \A k \in DOMAIN collector'.fixups :
            \/ k \in DOMAIN c.fixups /\ collector'.fixups[k] = c.fixups[k]
            \/ e.event = "branch" /\ collector'.fixups[k].label = e.label
      /\ \A opcodes : DirectIn(stream', opcodes) = DirectIn(s, opcodes) \cup
            (IF e.event = "op" /\ e.opcode \in opcodes THEN {e.inputs[1].offset} ELSE {})
  BY <1>2, <1>3, <1>4a, FlowTaken
<1>6. BranchesPlanned(collector')
  <2> SUFFICES ASSUME NEW k \in DOMAIN collector'.fixups
               PROVE  collector'.fixups[k].label \in Range(labels)
    BY DEF BranchesPlanned
  <2>1. CASE k \in DOMAIN c.fixups /\ collector'.fixups[k] = c.fixups[k]
    BY <1>3, <2>1 DEF PipeInv, BranchesPlanned
  <2>2. CASE e.event = "branch" /\ collector'.fixups[k].label = e.label
    BY <1>4, <2>2
  <2> QED
    BY <1>5, <2>1, <2>2
<1>7. ~Dangles(st)
  BY <1>4 DEF Dangles
<1>8. /\ st.kind \in lands <=> e.opcode \in {"Branch", "CBranch"}
      /\ st.kind \in {"Call"} <=> e.opcode \in {"Call"}
  BY <1>4, DirectOpcodes DEF Plan!FlowKind
<1>9. /\ Going(st, lands) =
            (IF e.event = "op" /\ e.opcode \in {"Branch", "CBranch"}
             THEN {e.inputs[1].offset} ELSE {})
      /\ Going(st, {"Call"}) =
            (IF e.event = "op" /\ e.opcode \in {"Call"} THEN {e.inputs[1].offset} ELSE {})
  BY <1>4, <1>8 DEF Going
<1>10. /\ {"Branch", "CBranch"} \in SUBSET Range(DirectOpcode)
       /\ {"Call"} \in SUBSET Range(DirectOpcode)
  BY DirectOpcodes
<1>11. /\ DirectIn(stream', {"Branch", "CBranch"}) =
             DirectIn(stream, {"Branch", "CBranch"}) \cup Going(st, lands)
       /\ DirectIn(stream', {"Call"}) = DirectIn(stream, {"Call"}) \cup Going(st, {"Call"})
  BY <1>3, <1>5, <1>9, <1>10
<1>12. DOMAIN collector'.marks = DOMAIN collector.marks
  BY <1>3, <1>5
<1>13. Reported(collector', stream', emitted + 1)
  BY <1>1, <1>7, <1>11, <1>12, OneMoreReported
<1>14. BranchesPlanned(collector)'
  BY <1>1, <1>6 DEF BranchesPlanned
<1> QED
  BY <1>5, <1>13, <1>14, ReportedNext DEF Holds

(* A statement fails, after some of its operations: a label as defined     *)
(* twice, or flow to a label as unknown, only if that is so.               *)
LEMMA StatementFails ==
    ASSUME PipeInv, EmitOne, NEW st, st = fed[emitted + 1], Fails(st)
    PROVE  /\ Holds(collector, stream)' /\ BranchesPlanned(collector)'
           /\ outcome' \in LowerErrors
           /\ outcome' = "DuplicateLabel" => DefinedTwice'
           /\ outcome' = "UnknownLabel" => GoesNowhere'
<1>1. /\ finished /\ Reported(collector, stream, emitted) /\ emitted \in Nat
      /\ labels' = labels /\ statements' = statements
      /\ st \in Plan!Statement /\ emitted + 1 \in 1 .. Len(fed)
  BY EmitFrame DEF ReportedSoFar
<1>2. /\ DOMAIN statements = 1 .. Len(fed) /\ Len(fed) \in Nat
      /\ Range(labels) = DefinedBy(Len(fed))
  BY <1>1, PlanComplete
<1>3. /\ Holds(collector', stream') /\ collector'.fixups = collector.fixups
  <2>1. CASE UNCHANGED <<collector, stream>>
    BY <2>1 DEF PipeInv
  <2>2. CASE ReportsOps
    BY <2>2, Computed DEF PipeInv, ReportsOps
  <2> QED
    BY <2>1, <2>2 DEF Fails, LabelFails
<1>4. BranchesPlanned(collector)'
  BY <1>1, <1>3 DEF PipeInv, BranchesPlanned
<1>5. outcome' \in LowerErrors
  BY DEF Fails, LabelFails, LowerErrors
<1>6. ASSUME outcome' = "DuplicateLabel"
      PROVE  DefinedTwice
  <2>1. Plan!IsLabel(st) /\ st.name \in DOMAIN collector.marks
    BY <1>6 DEF Fails, LabelFails
  <2>2. PICK i \in 1 .. emitted : Plan!IsLabel(fed[i]) /\ fed[i].name = st.name
    BY <1>1, <2>1 DEF Reported, DefinedBy
  <2>3. i \in 1 .. Len(fed) /\ i # emitted + 1
    BY <1>1, <1>2
  <2>4. fed[i] = st
    <3>1. fed[i] \in Plan!Statement
      BY <1>1, <2>3, PlanComplete
    <3> QED
      BY <1>1, <2>1, <2>2, <3>1, StatementKinds
  <2>5. statements[i].kind = "Label" /\ statements[emitted + 1] = statements[i]
    BY <1>1, <2>2, <2>3, <2>4, DefinedAgain
  <2> QED
    BY <1>1, <1>2, <2>3, <2>5 DEF DefinedTwice
<1>7. ASSUME outcome' = "UnknownLabel"
      PROVE  GoesNowhere
  <2>1. Plan!IsLabel(st) => st.name \in Range(labels)
    BY <1>1, <1>2 DEF DefinedBy
  <2>2. Dangles(st)
    BY <1>7, <2>1 DEF Fails, LabelFails
  <2> QED
    BY <1>1, <1>2, <2>2, DanglesGoesNowhere DEF GoesNowhere
<1>8. /\ DefinedTwice => DefinedTwice'
      /\ GoesNowhere => GoesNowhere'
  BY <1>1 DEF DefinedTwice, GoesNowhere
<1> QED
  BY <1>3, <1>4, <1>5, <1>6, <1>7, <1>8 DEF Holds

(* Emission keeps the invariant (`emit_instruction`).                      *)
LEMMA EmissionKeeps == PipeInv /\ EmitOne => PipeInv'
<1> SUFFICES ASSUME PipeInv, EmitOne PROVE PipeInv'
  OBVIOUS
<1> DEFINE st == fed[emitted + 1]
<1>1. /\ PlanProofs!Inv'
      /\ outcome' \in {"open"} \cup LowerErrors => FedInOrder'
      /\ Emits(st) \/ Fails(st)
  BY EmitFrame DEF EmitOne
<1>2. "open" \notin LowerErrors /\ "lowered" \notin LowerErrors
  BY DEF LowerErrors
<1> HIDE DEF st
<1>3. CASE Emits(st)
  <2>1. outcome' = "open"
    BY <1>3 DEF Emits
  <2>2. Holds(collector, stream)' /\ BranchesPlanned(collector)' /\ ReportedSoFar'
    BY <1>3, LabelEmitted, FlowEmitted, PlainEmitted DEF Emits, st
  <2> QED
    BY <1>1, <2>1, <2>2 DEF PipeInv, Lowered
<1>4. CASE Fails(st)
  <2>1. /\ Holds(collector, stream)' /\ BranchesPlanned(collector)'
        /\ outcome' \in LowerErrors
        /\ outcome' = "DuplicateLabel" => DefinedTwice'
        /\ outcome' = "UnknownLabel" => GoesNowhere'
    BY <1>4, StatementFails DEF st
  <2> QED
    BY <1>1, <1>2, <2>1 DEF PipeInv, Lowered
<1> QED
  BY <1>1, <1>3, <1>4

(* So does resolution, which only changes inputs (`Collector::finish`),    *)
LEMMA ResolvingKeeps == PipeInv /\ ResolveBranches => PipeInv'
<1> SUFFICES ASSUME PipeInv, ResolveBranches PROVE PipeInv'
  OBVIOUS
<1>1. /\ finished /\ outcome = "open" /\ emitted = Len(statements)
      /\ statements' = statements /\ emitted' = emitted /\ stream' = stream
      /\ UNCHANGED planVars
  BY DEF ResolveBranches
<1>2. labels' = labels /\ fed' = fed /\ finished' = finished
  BY <1>1 DEF planVars
<1>3. Flat!Resolvable(collector) /\ ReportedSoFar /\ Holds(collector, stream)
  BY <1>1, AllReported DEF PipeInv
<1>4. outcome' = "lowered" /\ collector' = [collector EXCEPT !.ops = Flat!Resolved(collector)]
  BY <1>3 DEF ResolveBranches
<1> DEFINE ops == Flat!Resolved(collector)
<1>5. IsList(ops) /\ Len(ops) = Len(collector.ops)
  <2>1. DOMAIN collector.ops = 1 .. Len(collector.ops) /\ Len(collector.ops) \in Nat
    BY <1>3 DEF Holds, IsList
  <2>2. ops = [n \in 1 .. Len(collector.ops) |-> ops[n]]
    BY <2>1 DEF Flat!Resolved
  <2> HIDE DEF ops
  <2>3. ops \in Seq({ops[n] : n \in 1 .. Len(collector.ops)}) /\ Len(ops) = Len(collector.ops)
    BY <2>1, <2>2
  <2> QED
    BY <2>3, ListOf
<1> HIDE DEF ops
<1>6. /\ collector'.ops = ops /\ collector'.marks = collector.marks
      /\ collector'.fixups = collector.fixups
      /\ DOMAIN collector' = {"ops", "marks", "fixups"}
  BY <1>3, <1>4 DEF Holds, ops
<1>7. Holds(collector', stream')
  BY <1>1, <1>3, <1>5, <1>6 DEF Holds
<1>8. BranchesPlanned(collector)'
  BY <1>2, <1>6 DEF PipeInv, BranchesPlanned
<1>9. ReportedSoFar'
  <2>1. Reported(collector', stream', emitted')
    BY <1>1, <1>3, <1>5, <1>6 DEF ReportedSoFar, Reported
  <2> QED
    BY <1>2, <2>1, ReportedThere
<1>10. PlanProofs!Inv'
  BY <1>1, PlanKept DEF PipeInv
<1>11. FedInOrder'
  BY <1>1, <1>2, <1>4 DEF PipeInv, FedInOrder, LowerErrors
<1>12. Holds(collector, stream)'
  BY <1>7 DEF Holds
<1> QED
  BY <1>1, <1>4, <1>8, <1>9, <1>10, <1>11, <1>12 DEF PipeInv, Lowered

(* and so does no step at all.                                             *)
LEMMA StutterKeeps == PipeInv /\ UNCHANGED pipeVars => PipeInv'
<1> SUFFICES ASSUME PipeInv, UNCHANGED pipeVars PROVE PipeInv'
  OBVIOUS
<1>1. /\ UNCHANGED planVars
      /\ UNCHANGED <<statements, emitted, collector, outcome, stream>>
  BY DEF pipeVars, sinkVars
<1>2. UNCHANGED <<labels, fed, finished>>
  BY <1>1 DEF planVars
<1>3. PlanProofs!Inv'
  BY <1>1, PlanKept DEF PipeInv
<1>4. FedInOrder'
  BY <1>1, <1>2 DEF PipeInv, FedInOrder
<1>5. Holds(collector, stream)' /\ BranchesPlanned(collector)'
  BY <1>1, <1>2 DEF PipeInv, Holds, BranchesPlanned
<1>6. ReportedSoFar => ReportedSoFar'
  <2>1. Reported(collector, stream, emitted) => Reported(collector', stream', emitted')
    BY <1>1
  <2> QED
    BY <1>2, <2>1, ReportedThere DEF ReportedSoFar
<1>7. (DefinedTwice => DefinedTwice') /\ (GoesNowhere => GoesNowhere')
  BY <1>1 DEF DefinedTwice, GoesNowhere
<1> QED
  BY <1>1, <1>3, <1>4, <1>5, <1>6, <1>7 DEF PipeInv, Lowered

(* Every step keeps the invariant.                                         *)
LEMMA PipeStep == PipeInv /\ [PipeNext]_pipeVars => PipeInv'
BY PlanningKeeps, EmissionKeeps, ResolvingKeeps, StutterKeeps DEF PipeNext

(* The invariant has the types in it.                                      *)
LEMMA InvMeansTyped == PipeInv => PipeTypeOK
<1> SUFFICES ASSUME PipeInv PROVE PipeTypeOK
  OBVIOUS
<1>1. Plan!TypeOK
  BY SamePlanner DEF PipeInv, PlanProofs!Inv, PlanProofs!TypeOK, Plan!TypeOK
<1> QED
  BY <1>1 DEF PipeInv, FedInOrder, PipeTypeOK

----------------------------------------------------------------------------
(* The invariant holds in every state of the pipeline                      *)
(* (`plan_instruction_with`, `emit_instruction`, `collect_ops`).           *)
THEOREM PipelineInvariant == PipeSpec => []PipeInv
BY PipeInitially, PipeStep, PTL DEF PipeSpec

(* The planner's variables keep their types, and an error comes only from  *)
(* a statement that was emitted (`lower_instruction`).                     *)
THEOREM PipelineTyped == PipeSpec => []PipeTypeOK
BY PipelineInvariant, InvMeansTyped, PTL

(* When an instruction lowers, the plan announced exactly the branch and   *)
(* call addresses and the labels that emission then reports, and each      *)
(* label is reported once (`plan_instruction_with`, `emit_instruction`).   *)
THEOREM EmissionIsPlanned == PipeSpec => []PlanMatchesEmission
BY PipelineInvariant, InvMeansMatch, PTL

(* A label that `is_terminal` is, in the flat p-code, just past the last   *)
(* operation, and every local branch lands within the instruction or just  *)
(* past it (`PcodePlan::is_terminal`, `Collector::finish`).                *)
THEOREM TerminalLabelsEnd == PipeSpec => []TerminalIsPastEnd
BY PipelineInvariant, InvMeansPastEnd, PTL

(* Resolving local branches never fails: emission has refused the          *)
(* instruction before (`collect_ops`, `Collector::finish`).                *)
THEOREM BranchesResolve == PipeSpec => []ResolutionNeverFails
BY PipelineInvariant, InvMeansResolves, PTL

(* An instruction is refused as having a label twice, or going to an       *)
(* unknown one, only if it does; and one that does never lowers, wherever  *)
(* in it the definitions stand (`Emitter::lower_statement`, `label_id`).   *)
THEOREM LabelsRefusedExactly == PipeSpec => []LabelErrorsExact
BY PipelineInvariant, InvMeansLabelErrors, PTL
============================================================================
