--------------------------- MODULE PlannerProofs ---------------------------
(* What Planner's runs check on a small instance, proved for every set of  *)
(* names and addresses and any number of statements.  The invariant is the *)
(* conjunction of the four that the runs check: TerminalExact needs        *)
(* LabelsExact (a name has one position, so setting its flag touches no    *)
(* other label) and both need the typing of the two parallel lists.        *)
EXTENDS Planner, TLAPS

(* Appending changes no earlier position.                                  *)
LEMMA AppendLemma ==
    ASSUME NEW S, NEW list \in Seq(S), NEW x \in S
    PROVE  /\ Append(list, x) \in Seq(S)
           /\ Len(Append(list, x)) = Len(list) + 1
           /\ \A i \in DOMAIN list : Append(list, x)[i] = list[i]
OBVIOUS

(* A name or address that is declared is in the list exactly once, and     *)
(* nothing already in the list moves (`declare_label`, `declare_direct_*`).*)
LEMMA DeclaredLemma ==
    ASSUME NEW S, NEW list \in Seq(S), NEW x \in S,
           \A i, j \in DOMAIN list : list[i] = list[j] => i = j
    PROVE  /\ Declared(list, x) \in Seq(S)
           /\ Range(Declared(list, x)) = Range(list) \cup {x}
           /\ \A i, j \in DOMAIN Declared(list, x) :
                 Declared(list, x)[i] = Declared(list, x)[j] => i = j
           /\ Len(list) <= Len(Declared(list, x))
           /\ \A i \in DOMAIN list : Declared(list, x)[i] = list[i]
           /\ Len(Declared(list, x)) =
                 IF x \in Range(list) THEN Len(list) ELSE Len(list) + 1
<1>1. CASE x \in Range(list)
  BY <1>1 DEF Declared, Range
<1>2. CASE x \notin Range(list)
  <2>1. Declared(list, x) = Append(list, x)
    BY <1>2 DEF Declared
  <2>2. DOMAIN Append(list, x) = 1 .. Len(list) + 1 /\ DOMAIN list = 1 .. Len(list)
    OBVIOUS
  <2>3. \A i \in DOMAIN list : list[i] # x
    BY <1>2 DEF Range
  <2>4. Range(Append(list, x)) = Range(list) \cup {x}
    <3>1. Append(list, x)[Len(list) + 1] = x
      OBVIOUS
    <3>2. \A i \in DOMAIN list : Append(list, x)[i] = list[i]
      OBVIOUS
    <3>3. QED
      BY <2>2, <3>1, <3>2 DEF Range
  <2>5. QED
    BY <1>2, <2>1, <2>2, <2>3, <2>4
<1>3. QED
  BY <1>1, <1>2

(* In a list without repetitions, `label_id` finds the one position of a   *)
(* declared name.                                                          *)
LEMMA LabelIdLemma ==
    ASSUME NEW list \in Seq(Label), NEW name \in Range(list),
           \A i, j \in DOMAIN list : list[i] = list[j] => i = j
    PROVE  /\ LabelId(list, name) \in DOMAIN list
           /\ list[LabelId(list, name)] = name
           /\ \A i \in DOMAIN list : list[i] = name => i = LabelId(list, name)
<1>1. PICK id \in DOMAIN list : list[id] = name
  BY DEF Range
<1>2. \A earlier \in 1 .. id - 1 : list[earlier] # name
  <2>1. DOMAIN list = 1 .. Len(list) /\ Len(list) \in Nat
    OBVIOUS
  <2>2. QED
    BY <1>1, <2>1
<1>3. QED
  BY <1>1, <1>2 DEF LabelId

----------------------------------------------------------------------------
(* A literal target is declared like any other name.                       *)
LEMMA DeclaredTargetLemma ==
    ASSUME NEW list \in Seq(Address), NEW target \in Target
    PROVE  DeclaredTarget(list, target) =
              IF target.form = "Literal" THEN Declared(list, target.value)
                                         ELSE list
BY DEF DeclaredTarget, DirectAddress, Declared, Target

Inv == TypeOK /\ LabelsExact /\ TargetsExact /\ TerminalExact

(* Feeding a statement extends the history by it.                          *)
LEMMA FedLemma ==
    ASSUME TypeOK, NEW statement \in Statement, fed' = Append(fed, statement)
    PROVE  /\ fed' \in Seq(Statement)
           /\ Len(fed') = Len(fed) + 1
           /\ DOMAIN fed' = 1 .. Len(fed) + 1
           /\ DOMAIN fed = 1 .. Len(fed)
           /\ fed'[Len(fed) + 1] = statement
           /\ \A i \in DOMAIN fed : fed'[i] = fed[i]
BY DEF TypeOK

(* After a label statement, a name ends the instruction if it is that      *)
(* label's or did so before; after any other statement none does.          *)
LEMMA EndsLemma ==
    ASSUME TypeOK, NEW statement \in Statement, fed' = Append(fed, statement),
           NEW name
    PROVE  EndsInstruction(fed', name) <=>
              /\ IsLabel(statement)
              /\ statement.name = name \/ EndsInstruction(fed, name)
<1>f. /\ Len(fed) \in Nat
      /\ Len(fed') = Len(fed) + 1
      /\ DOMAIN fed' = 1 .. Len(fed) + 1
      /\ DOMAIN fed = 1 .. Len(fed)
      /\ fed'[Len(fed) + 1] = statement
      /\ \A i \in DOMAIN fed : fed'[i] = fed[i]
  BY FedLemma DEF TypeOK
<1>1. ASSUME IsLabel(statement), statement.name = name
      PROVE  EndsInstruction(fed', name)
  BY <1>f, <1>1 DEF EndsInstruction, IsLabel
<1>2. ASSUME IsLabel(statement), EndsInstruction(fed, name)
      PROVE  EndsInstruction(fed', name)
  <2>1. PICK i \in DOMAIN fed :
           /\ IsLabel(fed[i]) /\ fed[i].name = name
           /\ \A j \in i + 1 .. Len(fed) : IsLabel(fed[j])
    BY <1>2 DEF EndsInstruction
  <2>2. \A j \in i + 1 .. Len(fed') : IsLabel(fed'[j])
    BY <1>f, <1>2, <2>1 DEF IsLabel
  <2>3. i \in DOMAIN fed' /\ IsLabel(fed'[i]) /\ fed'[i].name = name
    BY <1>f, <2>1 DEF IsLabel
  <2>4. QED
    BY <2>2, <2>3 DEF EndsInstruction, IsLabel
<1>3. ASSUME EndsInstruction(fed', name)
      PROVE  /\ IsLabel(statement)
             /\ statement.name = name \/ EndsInstruction(fed, name)
  <2>1. PICK i \in DOMAIN fed' :
           /\ IsLabel(fed'[i]) /\ fed'[i].name = name
           /\ \A j \in i + 1 .. Len(fed') : IsLabel(fed'[j])
    BY <1>3 DEF EndsInstruction, IsLabel
  <2>2. IsLabel(fed'[Len(fed) + 1])
    BY <1>f, <2>1
  <2>3. CASE i = Len(fed) + 1
    BY <1>f, <2>1, <2>2, <2>3
  <2>4. CASE i \in DOMAIN fed
    <3>1. \A j \in i + 1 .. Len(fed) : IsLabel(fed[j])
      BY <1>f, <2>1, <2>4 DEF IsLabel
    <3>2. IsLabel(fed[i]) /\ fed[i].name = name
      BY <1>f, <2>1, <2>4 DEF IsLabel
    <3>3. QED
      BY <1>f, <2>2, <2>4, <3>1, <3>2 DEF EndsInstruction, IsLabel
  <2>5. QED
    BY <1>f, <2>1, <2>3, <2>4
<1>4. QED
  BY <1>1, <1>2, <1>3

----------------------------------------------------------------------------
LEMMA InitInv == Init => Inv
<1> SUFFICES ASSUME Init PROVE Inv
  OBVIOUS
<1>1. /\ labels = <<>> /\ terminal = <<>> /\ directBranches = <<>>
      /\ directCalls = <<>> /\ finished = FALSE /\ fed = <<>>
  BY DEF Init
<1>2. \A f : f = <<>> => DOMAIN f = {}
  OBVIOUS
<1>3. TypeOK
  <2>1. \A S : <<>> \in Seq(S)
    OBVIOUS
  <2>2. QED
    BY <1>1, <2>1 DEF TypeOK
<1>4. LabelsExact
  BY <1>1, <1>2 DEF LabelsExact, Range
<1>5. TargetsExact
  BY <1>1, <1>2 DEF TargetsExact, LiteralTargets, Range
<1>6. TerminalExact
  BY <1>1, <1>2 DEF TerminalExact
<1>7. QED
  BY <1>3, <1>4, <1>5, <1>6 DEF Inv

(* The literal targets after one more statement.                           *)
LEMMA LiteralTargetsLemma ==
    ASSUME TypeOK, NEW statement \in Statement, fed' = Append(fed, statement),
           NEW kinds \in SUBSET FlowKind
    PROVE  LiteralTargets(kinds)' =
              LiteralTargets(kinds) \cup
                 (IF statement.kind \in kinds /\ statement.target.form = "Literal"
                  THEN {statement.target.value} ELSE {})
<1>f. /\ Len(fed) \in Nat
      /\ DOMAIN fed' = 1 .. Len(fed) + 1
      /\ DOMAIN fed = 1 .. Len(fed)
      /\ fed'[Len(fed) + 1] = statement
      /\ \A i \in DOMAIN fed : fed'[i] = fed[i]
  BY FedLemma DEF TypeOK
<1>1. DOMAIN fed' = DOMAIN fed \cup {Len(fed) + 1}
  BY <1>f
<1>2. QED
  BY <1>f, <1>1 DEF LiteralTargets

(* The defined names after one more statement.                             *)
LEMMA DefinedNamesLemma ==
    ASSUME TypeOK, NEW statement \in Statement, fed' = Append(fed, statement)
    PROVE  {fed'[i].name : i \in {k \in DOMAIN fed' : IsLabel(fed'[k])}} =
              {fed[i].name : i \in {k \in DOMAIN fed : IsLabel(fed[k])}}
                 \cup (IF IsLabel(statement) THEN {statement.name} ELSE {})
<1>f. /\ Len(fed) \in Nat
      /\ DOMAIN fed' = 1 .. Len(fed) + 1
      /\ DOMAIN fed = 1 .. Len(fed)
      /\ fed'[Len(fed) + 1] = statement
      /\ \A i \in DOMAIN fed : fed'[i] = fed[i]
  BY FedLemma DEF TypeOK
<1>1. DOMAIN fed' = DOMAIN fed \cup {Len(fed) + 1}
  BY <1>f
<1>2. QED
  BY <1>f, <1>1 DEF IsLabel

(* A label statement: declared once, its flag set, no other flag touched.  *)
LEMMA LabelStep ==
    ASSUME Inv, NEW statement \in Statement, Feed(statement), IsLabel(statement)
    PROVE  Inv'
<1> DEFINE name == statement.name
<1>1. /\ name \in Label
      /\ PlanLabel(name)
      /\ fed' = Append(fed, statement)
      /\ UNCHANGED <<directBranches, directCalls, finished>>
  BY DEF Feed, PlanStatement, IsLabel, FlowKind, Statement, LabelStatement,
         FlowStatement, PlainStatement, PlanLabel
<1>t. /\ TypeOK /\ LabelsExact /\ TargetsExact /\ TerminalExact
      /\ labels \in Seq(Label) /\ terminal \in Seq(BOOLEAN)
      /\ Len(terminal) = Len(labels)
  BY DEF Inv, TypeOK
<1>d. /\ labels' \in Seq(Label)
      /\ Range(labels') = Range(labels) \cup {name}
      /\ \A i, j \in DOMAIN labels' : labels'[i] = labels'[j] => i = j
      /\ \A i \in DOMAIN labels : labels'[i] = labels[i]
      /\ Len(labels') = IF name \in Range(labels) THEN Len(labels)
                                                  ELSE Len(labels) + 1
  <2>1. \A i, j \in DOMAIN labels : labels[i] = labels[j] => i = j
    BY <1>t DEF LabelsExact
  <2>2. labels' = Declared(labels, name)
    BY <1>1 DEF PlanLabel
  <2> DEFINE list == Declared(labels, name)
  <2> HIDE DEF name
  <2>3. /\ list \in Seq(Label)
        /\ Range(list) = Range(labels) \cup {name}
        /\ \A i, j \in DOMAIN list : list[i] = list[j] => i = j
        /\ \A i \in DOMAIN labels : list[i] = labels[i]
        /\ Len(list) = IF name \in Range(labels) THEN Len(labels)
                                                 ELSE Len(labels) + 1
    <3>1. labels \in Seq(Label) /\ name \in Label
      BY <1>1, <1>t
    <3>2. QED
      BY <2>1, <3>1, DeclaredLemma
  <2>4. labels' = list
    BY <2>2
  <2> HIDE DEF list
  <2>5. QED
    BY <2>3, <2>4
<1> DEFINE grown == IF name \in Range(labels) THEN terminal
                                              ELSE Append(terminal, FALSE)
           id == LabelId(labels', name)
<1>i. /\ id \in DOMAIN labels'
      /\ labels'[id] = name
      /\ \A i \in DOMAIN labels' : labels'[i] = name => i = id
  BY <1>d, LabelIdLemma
<1>g. /\ grown \in Seq(BOOLEAN)
      /\ Len(grown) = Len(labels')
      /\ \A i \in DOMAIN labels : grown[i] = terminal[i]
  <2> HIDE DEF name
  <2>1. DOMAIN labels = 1 .. Len(terminal) /\ DOMAIN terminal = 1 .. Len(terminal)
    BY <1>t
  <2>2. CASE name \in Range(labels)
    BY <1>t, <1>d, <2>1, <2>2
  <2>3. CASE name \notin Range(labels)
    <3>1. grown = Append(terminal, FALSE) /\ Len(labels') = Len(labels) + 1
      BY <1>d, <2>3
    <3>2. FALSE \in BOOLEAN /\ terminal \in Seq(BOOLEAN)
      BY <1>t
    <3>3. /\ Append(terminal, FALSE) \in Seq(BOOLEAN)
          /\ Len(Append(terminal, FALSE)) = Len(terminal) + 1
          /\ \A i \in DOMAIN terminal : Append(terminal, FALSE)[i] = terminal[i]
      BY <3>2, AppendLemma
    <3> HIDE DEF grown
    <3>4. QED
      BY <1>t, <2>1, <3>1, <3>3
  <2>4. QED
    BY <2>2, <2>3
<1>e. terminal' = [grown EXCEPT ![id] = TRUE]
  BY <1>1 DEF PlanLabel
<1>n. /\ terminal' \in Seq(BOOLEAN)
      /\ Len(terminal') = Len(labels')
      /\ terminal'[id] = TRUE
      /\ \A i \in DOMAIN labels' : i # id => terminal'[i] = grown[i]
  <2> HIDE DEF grown, id
  <2>1. QED
    BY <1>d, <1>i, <1>g, <1>e
<1>2. TypeOK'
  BY <1>1, <1>t, <1>d, <1>n, FedLemma DEF TypeOK
<1>3. LabelsExact'
  <2>1. Range(labels') = {fed'[i].name : i \in {k \in DOMAIN fed' : IsLabel(fed'[k])}}
    BY <1>1, <1>t, <1>d, DefinedNamesLemma DEF LabelsExact
  <2>2. QED
    BY <1>d, <2>1 DEF LabelsExact, IsLabel
<1>4. TargetsExact'
  <2>1. statement.kind \notin FlowKind
    BY DEF IsLabel, FlowKind
  <2>2. /\ LiteralTargets({"Branch", "ConditionalBranch"})' =
              LiteralTargets({"Branch", "ConditionalBranch"})
        /\ LiteralTargets({"Call"})' = LiteralTargets({"Call"})
    BY <1>1, <1>t, <2>1, LiteralTargetsLemma DEF FlowKind
  <2>3. QED
    BY <1>1, <1>t, <2>2 DEF TargetsExact
<1>5. TerminalExact'
  <2> SUFFICES ASSUME NEW i \in DOMAIN labels'
               PROVE  terminal'[i] <=> EndsInstruction(fed', labels'[i])
    BY DEF TerminalExact
  <2>1. EndsInstruction(fed', labels'[i]) <=>
            labels'[i] = name \/ EndsInstruction(fed, labels'[i])
    BY <1>1, <1>t, EndsLemma
  <2>2. CASE i = id
    BY <1>i, <1>n, <2>1, <2>2
  <2>3. CASE i # id
    <3>1. i \in DOMAIN labels
      <4>1. CASE name \in Range(labels)
        BY <1>t, <1>d, <4>1
      <4>2. CASE name \notin Range(labels)
        <5>1. DOMAIN labels' = DOMAIN labels \cup {Len(labels) + 1}
          BY <1>t, <1>d, <4>2
        <5>2. labels'[Len(labels) + 1] = name
          <6>1. labels' = Append(labels, name)
            BY <1>1, <4>2 DEF PlanLabel, Declared
          <6>2. QED
            BY <1>t, <6>1
        <5>3. QED
          BY <1>i, <2>3, <5>1, <5>2
      <4>3. QED
        BY <4>1, <4>2
    <3>2. terminal'[i] = terminal[i] /\ labels'[i] = labels[i] /\ labels'[i] # name
      BY <1>d, <1>i, <1>g, <1>n, <2>3, <3>1
    <3>3. terminal[i] <=> EndsInstruction(fed, labels[i])
      BY <1>t, <3>1 DEF TerminalExact
    <3>4. QED
      BY <2>1, <3>2, <3>3
  <2>4. QED
    BY <2>2, <2>3
<1>6. QED
  BY <1>2, <1>3, <1>4, <1>5 DEF Inv

(* Any other statement: every flag is cleared and no label is added.       *)
LEMMA OtherStep ==
    ASSUME Inv, NEW statement \in Statement, Feed(statement), ~IsLabel(statement)
    PROVE  Inv'
<1>t. TypeOK /\ LabelsExact /\ TargetsExact /\ TerminalExact
  BY DEF Inv
<1>1. /\ fed' = Append(fed, statement)
      /\ UNCHANGED <<labels, finished>>
      /\ EndTerminalRun
  BY DEF Feed, PlanStatement, PlanBranch, PlanCall, PlanPlain, IsLabel
<1>2. /\ terminal' \in Seq(BOOLEAN)
      /\ Len(terminal') = Len(labels)
      /\ \A id \in DOMAIN labels : terminal'[id] = FALSE
  <2>1. /\ terminal \in Seq(BOOLEAN) /\ labels \in Seq(Label)
        /\ Len(terminal) = Len(labels)
        /\ terminal' = [id \in 1 .. Len(terminal) |-> FALSE]
    BY <1>1, <1>t DEF EndTerminalRun, TypeOK
  <2>2. QED
    BY <2>1
<1>3. LabelsExact'
  BY <1>1, <1>t, DefinedNamesLemma DEF LabelsExact, IsLabel
<1>4. TerminalExact'
  <2> SUFFICES ASSUME NEW id \in DOMAIN labels'
               PROVE  terminal'[id] <=> EndsInstruction(fed', labels'[id])
    BY DEF TerminalExact
  <2>1. ~ EndsInstruction(fed', labels'[id])
    BY <1>1, <1>t, EndsLemma
  <2>2. QED
    BY <1>1, <1>2, <2>1
<1> DEFINE Unique(list) == \A i, j \in DOMAIN list : list[i] = list[j] => i = j
           branches == {"Branch", "ConditionalBranch"}
           calls == {"Call"}
<1>u. /\ directBranches \in Seq(Address) /\ Unique(directBranches)
      /\ directCalls \in Seq(Address) /\ Unique(directCalls)
      /\ Range(directBranches) = LiteralTargets(branches)
      /\ Range(directCalls) = LiteralTargets(calls)
  BY <1>t DEF TypeOK, TargetsExact
<1>5. /\ directBranches' \in Seq(Address) /\ Unique(directBranches')
      /\ directCalls' \in Seq(Address) /\ Unique(directCalls')
      /\ Range(directBranches') = LiteralTargets(branches)'
      /\ Range(directCalls') = LiteralTargets(calls)'
  <2>k. branches \in SUBSET FlowKind /\ calls \in SUBSET FlowKind
    BY DEF FlowKind
  <2>b. LiteralTargets(branches)' = LiteralTargets(branches) \cup
            (IF statement.kind \in branches /\ statement.target.form = "Literal"
             THEN {statement.target.value} ELSE {})
    BY <1>1, <1>t, <2>k, LiteralTargetsLemma
  <2>c. LiteralTargets(calls)' = LiteralTargets(calls) \cup
            (IF statement.kind \in calls /\ statement.target.form = "Literal"
             THEN {statement.target.value} ELSE {})
    BY <1>1, <1>t, <2>k, LiteralTargetsLemma
  <2>1. ASSUME NEW list \in Seq(Address), Unique(list), NEW target \in Target
        PROVE  /\ DeclaredTarget(list, target) \in Seq(Address)
               /\ Unique(DeclaredTarget(list, target))
               /\ Range(DeclaredTarget(list, target)) = Range(list) \cup
                     (IF target.form = "Literal" THEN {target.value} ELSE {})
    <3>1. CASE target.form = "Literal"
      <4>1. target.value \in Address
        BY <3>1 DEF Target
      <4>2. QED
        BY <2>1, <3>1, <4>1, DeclaredLemma, DeclaredTargetLemma
    <3>2. CASE target.form # "Literal"
      BY <2>1, <3>2, DeclaredTargetLemma
    <3>3. QED
      BY <3>1, <3>2
  <2>2. CASE statement.kind \in branches
    <3>1. /\ statement.target \in Target
          /\ directBranches' = DeclaredTarget(directBranches, statement.target)
          /\ directCalls' = directCalls
          /\ statement.kind \notin calls
      BY <2>2 DEF Feed, PlanStatement, PlanBranch, IsLabel, FlowKind, Statement,
                  LabelStatement, FlowStatement, PlainStatement
    <3>2. QED
      BY <1>u, <2>b, <2>c, <2>1, <2>2, <3>1
  <2>3. CASE statement.kind \in calls
    <3>1. /\ statement.target \in Target
          /\ directCalls' = DeclaredTarget(directCalls, statement.target)
          /\ directBranches' = directBranches
          /\ statement.kind \notin branches
      BY <2>3 DEF Feed, PlanStatement, PlanCall, IsLabel, FlowKind, Statement,
                  LabelStatement, FlowStatement, PlainStatement
    <3>2. QED
      BY <1>u, <2>b, <2>c, <2>1, <2>3, <3>1
  <2>4. CASE statement.kind \notin branches \cup calls
    <3>1. UNCHANGED <<directBranches, directCalls>>
      BY <2>4 DEF Feed, PlanStatement, PlanPlain, IsLabel, FlowKind
    <3>2. QED
      BY <1>u, <2>b, <2>c, <2>4, <3>1
  <2>5. QED
    BY <2>2, <2>3, <2>4
<1>6. TypeOK'
  BY <1>1, <1>2, <1>5, <1>t, FedLemma DEF TypeOK
<1>7. TargetsExact'
  BY <1>5 DEF TargetsExact
<1>8. QED
  BY <1>3, <1>4, <1>6, <1>7 DEF Inv

(* Finishing and stuttering change nothing the invariant reads.            *)
LEMMA StillStep ==
    ASSUME Inv, Finish \/ UNCHANGED vars
    PROVE  Inv'
<1>1. UNCHANGED <<planVars, fed>> /\ finished' \in BOOLEAN
  BY DEF Inv, TypeOK, Finish, vars, planVars
<1>2. QED
  BY <1>1 DEF Inv, TypeOK, LabelsExact, TargetsExact, TerminalExact,
              LiteralTargets, EndsInstruction, IsLabel, planVars

LEMMA NextInv == Inv /\ [Next]_vars => Inv'
BY LabelStep, OtherStep, StillStep DEF Next

(* The plan describes exactly the statements fed, for any names, addresses *)
(* and number of statements (`Planner::statement`, `declare_label`).       *)
THEOREM PlanExact == Spec => []Inv
BY InitInv, NextInv, PTL DEF Spec

(* Every variable keeps its type and each label has exactly one flag.      *)
THEOREM PlannerTyped == Spec => []TypeOK
<1>1. Inv => TypeOK
  BY DEF Inv
<1>2. QED
  BY <1>1, PlanExact, PTL

(* A flag is set exactly while a definition of its label has nothing but   *)
(* labels after it (`is_terminal`, `end_terminal_run`).                    *)
THEOREM TerminalFlagsExact == Spec => []TerminalExact
<1>1. Inv => TerminalExact
  BY DEF Inv
<1>2. QED
  BY <1>1, PlanExact, PTL

(* One identifier per defined name (`declare_label`, `label_id`).          *)
THEOREM OneIdentifierPerLabel == Spec => []LabelsExact
<1>1. Inv => LabelsExact
  BY DEF Inv
<1>2. QED
  BY <1>1, PlanExact, PTL

(* Each literal destination is listed once, branches apart from calls      *)
(* (`declare_direct_branch`, `declare_direct_call`, `direct_address`).     *)
THEOREM DirectTargetsExact == Spec => []TargetsExact
<1>1. Inv => TargetsExact
  BY DEF Inv
<1>2. QED
  BY <1>1, PlanExact, PTL

(* Feeding a label adds at most its name at the end of the list, and every *)
(* other step leaves the list alone.                                       *)
LEMMA LabelsGrow ==
    ASSUME Inv, Next
    PROVE  /\ Len(labels) <= Len(labels')
           /\ \A id \in DOMAIN labels : labels'[id] = labels[id]
<1>1. /\ labels \in Seq(Label)
      /\ \A i, j \in DOMAIN labels : labels[i] = labels[j] => i = j
  BY DEF Inv, TypeOK, LabelsExact
<1>2. CASE UNCHANGED labels
  BY <1>1, <1>2
<1>3. CASE \E name \in Label : labels' = Declared(labels, name)
  <2>1. PICK name \in Label : labels' = Declared(labels, name)
    BY <1>3
  <2>2. /\ Len(labels) <= Len(Declared(labels, name))
        /\ \A id \in DOMAIN labels : Declared(labels, name)[id] = labels[id]
    BY <1>1, DeclaredLemma
  <2>3. QED
    BY <2>1, <2>2
<1>4. UNCHANGED labels \/ \E name \in Label : labels' = Declared(labels, name)
  BY DEF Next, Finish, planVars, Feed, PlanStatement, PlanLabel, PlanBranch,
         PlanCall, PlanPlain, IsLabel, FlowKind, Statement, LabelStatement,
         FlowStatement, PlainStatement
<1>5. QED
  BY <1>2, <1>3, <1>4

(* A label loses its flag only to a statement that is no label: the flags  *)
(* before and after are what the two histories say (TerminalExact), and    *)
(* the histories differ by the statement fed.                              *)
LEMMA KeptStep == Inv /\ [Next]_vars => [LabelIdsKept]_vars
<1> SUFFICES ASSUME Inv, Next PROVE LabelIdsKept
  OBVIOUS
<1>1. Inv'
  BY NextInv
<1>2. /\ Len(labels) <= Len(labels')
      /\ \A id \in DOMAIN labels : labels'[id] = labels[id]
  BY LabelsGrow
<1>3. CASE Finish
  BY <1>2, <1>3 DEF Finish, planVars, LabelIdsKept
<1>4. ASSUME NEW statement \in Statement, Feed(statement), IsLabel(statement),
             NEW id \in DOMAIN labels, terminal[id]
      PROVE  terminal'[id]
  <2>1. EndsInstruction(fed, labels[id])
    BY <1>4 DEF Inv, TerminalExact
  <2>2. fed' = Append(fed, statement)
    BY <1>4 DEF Feed
  <2>3. EndsInstruction(fed', labels[id])
    <3> DEFINE name == labels[id]
    <3>1. EndsInstruction(fed, name) /\ TypeOK
      BY <2>1 DEF Inv
    <3> HIDE DEF name
    <3>2. EndsInstruction(fed', name)
      BY <1>4, <2>2, <3>1, EndsLemma
    <3>3. QED
      BY <3>2 DEF name
  <2>4. id \in DOMAIN labels'
    BY <1>1, <1>2, <1>4 DEF Inv, TypeOK
  <2>5. terminal'[id] <=> EndsInstruction(fed', labels'[id])
    BY <1>1, <2>4 DEF Inv, TerminalExact
  <2>6. labels'[id] = labels[id]
    BY <1>2
  <2>7. QED
    BY <2>3, <2>5, <2>6
<1>5. ASSUME NEW statement \in Statement, Feed(statement)
      PROVE  LabelIdsKept
  <2>1. fed'[Len(fed')] = statement
    BY <1>5, FedLemma DEF Inv, Feed
  <2>2. CASE IsLabel(statement)
    BY <1>2, <1>4, <1>5, <2>2 DEF LabelIdsKept
  <2>3. CASE ~IsLabel(statement)
    BY <1>2, <2>1, <2>3 DEF LabelIdsKept, IsLabel
  <2>4. QED
    BY <2>2, <2>3
<1>6. QED
  BY <1>3, <1>5 DEF Next

(* Identifiers stay valid while planning goes on, and only a non-label     *)
(* takes a terminal flag away (`declare_label`, `end_terminal_run`).       *)
THEOREM IdentifiersStayValid == Spec => LabelIdsStable
BY PlanExact, KeptStep, PTL DEF Spec, LabelIdsStable
============================================================================
