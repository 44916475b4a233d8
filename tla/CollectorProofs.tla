-------------------------- MODULE CollectorProofs --------------------------
(***************************************************************************)
(* The collector resolves every local branch to its label, for any labels, *)
(* any operations and streams of any length that a word can measure.       *)
(***************************************************************************)
EXTENDS Collector, FiniteSetTheorems, TLAPS

----------------------------------------------------------------------------
(* Counting the operations of a stream.                                    *)

OperationsIn(s, k) == {i \in 1 .. k - 1 : IsOperation(s[i])}
Count(s, k) == Cardinality(OperationsIn(s, k))

LEMMA CountType ==
  ASSUME NEW s, NEW k \in Nat \ {0}
  PROVE  /\ IsFiniteSet(OperationsIn(s, k))
         /\ Count(s, k) \in Nat
         /\ Count(s, k) <= k - 1
<1>1. IsFiniteSet(1 .. k - 1) /\ Cardinality(1 .. k - 1) = k - 1
  BY FS_Interval
<1>2. OperationsIn(s, k) \in SUBSET (1 .. k - 1)
  BY DEF OperationsIn
<1>3. IsFiniteSet(OperationsIn(s, k)) /\ Cardinality(OperationsIn(s, k)) <= k - 1
  BY <1>1, <1>2, FS_Subset
<1> QED
  BY <1>3, FS_CardinalityType DEF Count

LEMMA CountNone ==
  ASSUME NEW s
  PROVE  Count(s, 1) = 0
<1>1. OperationsIn(s, 1) = {}
  BY DEF OperationsIn
<1> QED
  BY <1>1, FS_EmptySet DEF Count

LEMMA CountNext ==
  ASSUME NEW s, NEW k \in Nat \ {0}
  PROVE  Count(s, k + 1) = Count(s, k) + (IF IsOperation(s[k]) THEN 1 ELSE 0)
<1>1. IsFiniteSet(OperationsIn(s, k)) /\ Count(s, k) \in Nat /\ k \notin OperationsIn(s, k)
  BY CountType DEF OperationsIn
<1>2. CASE IsOperation(s[k])
  <2>1. OperationsIn(s, k + 1) = OperationsIn(s, k) \cup {k}
    BY <1>2 DEF OperationsIn
  <2> QED
    BY <1>1, <1>2, <2>1, FS_AddElement DEF Count
<1>3. CASE ~IsOperation(s[k])
  <2>1. OperationsIn(s, k + 1) = OperationsIn(s, k)
    BY <1>3 DEF OperationsIn
  <2> QED
    BY <1>1, <1>3, <2>1 DEF Count
<1> QED
  BY <1>2, <1>3

\* An operation is counted before everything after it.
LEMMA CountGrows ==
  ASSUME NEW s, NEW k \in Nat \ {0}, NEW l \in Nat, k < l
  PROVE  /\ Count(s, k) <= Count(s, l)
         /\ IsOperation(s[k]) => Count(s, k) < Count(s, l)
<1>1. /\ IsFiniteSet(OperationsIn(s, l)) /\ OperationsIn(s, k) \in SUBSET OperationsIn(s, l)
      /\ Count(s, k) \in Nat /\ Count(s, l) \in Nat
  <2>1. l \in Nat \ {0}
    OBVIOUS
  <2>2. OperationsIn(s, k) \in SUBSET OperationsIn(s, l)
    BY DEF OperationsIn
  <2> QED
    BY <2>1, <2>2, CountType
<1>2. /\ Count(s, k) <= Count(s, l)
      /\ Count(s, k) = Count(s, l) => OperationsIn(s, k) = OperationsIn(s, l)
  BY <1>1, FS_Subset DEF Count
<1>3. ASSUME IsOperation(s[k]) PROVE OperationsIn(s, k) # OperationsIn(s, l)
  <2>1. k \in OperationsIn(s, l) /\ k \notin OperationsIn(s, k)
    BY <1>3 DEF OperationsIn
  <2> QED
    BY <2>1
<1> QED
  BY <1>1, <1>2, <1>3

\* What comes later does not change the count.
LEMMA CountAppend ==
  ASSUME NEW S, NEW s \in Seq(S), NEW e \in S, NEW k \in 1 .. Len(s) + 1
  PROVE  Count(Append(s, e), k) = Count(s, k)
<1>1. \A i \in 1 .. k - 1 : Append(s, e)[i] = s[i]
  OBVIOUS
<1>2. OperationsIn(Append(s, e), k) = OperationsIn(s, k)
  BY <1>1 DEF OperationsIn, IsOperation
<1> QED
  BY <1>2 DEF Count

LEMMA OperationsBeforeIsCount ==
  ASSUME NEW k
  PROVE  OperationsBefore(k) = Count(stream, k)
  BY DEF OperationsBefore, Count, OperationsIn

\* A distance, as a word, reads back as the distance.
LEMMA DistanceRoundTrip ==
  ASSUME NEW i \in 0 .. MaxEvents, NEW j \in 0 .. MaxEvents
  PROVE  i + FromWord(ToWord(j - i)) = j
<1> DEFINE d == j - i
<1>1. /\ MaxWord \in Nat /\ MaxEvents \in Nat /\ 2 * MaxEvents < MaxWord
      /\ d \in Int /\ d <= MaxEvents /\ 0 - MaxEvents <= d
  BY MaxWordAssumption, MaxEventsAssumption
<1>2. CASE d >= 0
  <2>1. d % (MaxWord + 1) = d
    BY <1>1, <1>2
  <2> QED
    BY <1>1, <1>2, <2>1 DEF FromWord, ToWord
<1>3. CASE d < 0
  <2>1. d % (MaxWord + 1) = d + (MaxWord + 1)
    BY <1>1, <1>3
  <2> QED
    BY <1>1, <1>3, <2>1 DEF FromWord, ToWord
<1> QED
  BY <1>1, <1>2, <1>3

----------------------------------------------------------------------------
(* What the collector holds while it is open.                              *)

\* The operation retained for an event.
Retained(e) ==
    IF e.event = "op" THEN Op(e.opcode, e.output, e.inputs)
    ELSE Op(e.opcode, None, <<Constant(0, 8)>> \o e.condition)

RetainedOps == {Retained(e) : e \in Events}

Fixup == [index : Nat, label : Label]

FixupOf(s, k) == [index |-> Count(s, k), label |-> s[k].label]

\* One operation for each operation received, where it was counted.
OpsHeld(ops, s) ==
    /\ ops \in Seq(RetainedOps)
    /\ Len(ops) = Count(s, Len(s) + 1)
    /\ \A k \in 1 .. Len(s) : IsOperation(s[k]) => ops[Count(s, k) + 1] = Retained(s[k])

\* The labels received, each with the count before it.
MarksHeld(marks, s) ==
    /\ \A k \in 1 .. Len(s) : s[k].event = "label" =>
          s[k].label \in DOMAIN marks /\ marks[s[k].label] = Count(s, k)
    /\ \A label \in DOMAIN marks :
          \E k \in 1 .. Len(s) : s[k].event = "label" /\ s[k].label = label

\* A fixup for each local branch received, and no other.
FixupsHeld(fixups, s) ==
    /\ fixups \in Seq(Fixup)
    /\ \A k \in 1 .. Len(s) : s[k].event = "branch" =>
          \E j \in 1 .. Len(fixups) : fixups[j] = FixupOf(s, k)
    /\ \A j \in 1 .. Len(fixups) :
          \E k \in 1 .. Len(s) : s[k].event = "branch" /\ fixups[j] = FixupOf(s, k)

\* Collector `c` holds what stream `s` reported.
Holds(c, s) ==
    /\ DOMAIN c = {"ops", "marks", "fixups"}
    /\ OpsHeld(c.ops, s)
    /\ MarksHeld(c.marks, s)
    /\ FixupsHeld(c.fixups, s)

\* What an event leaves alone of the counts, and what it adds.
LEMMA AfterEvent ==
  ASSUME NEW s \in Seq(Events), NEW e \in Events
  PROVE  LET after == Append(s, e)
         IN  /\ after \in Seq(Events) /\ Len(after) = Len(s) + 1
             /\ after[Len(s) + 1] = e
             /\ Count(after, Len(s) + 1) = Count(s, Len(s) + 1)
             /\ Count(after, Len(s) + 2) =
                   Count(s, Len(s) + 1) + (IF IsOperation(e) THEN 1 ELSE 0)
             /\ \A k \in 1 .. Len(s) :
                   /\ after[k] = s[k]
                   /\ Count(after, k) = Count(s, k)
                   /\ FixupOf(after, k) = FixupOf(s, k)
                   /\ Count(s, k) \in Nat
                   /\ Count(s, k) <= Count(s, Len(s) + 1)
                   /\ IsOperation(s[k]) => Count(s, k) < Count(s, Len(s) + 1)
<1> DEFINE after == Append(s, e)
<1>1. /\ after \in Seq(Events) /\ Len(after) = Len(s) + 1 /\ after[Len(s) + 1] = e
      /\ Len(s) \in Nat /\ \A k \in 1 .. Len(s) : after[k] = s[k]
  OBVIOUS
<1>2. \A k \in 1 .. Len(s) + 1 : Count(after, k) = Count(s, k)
  BY CountAppend
<1>3. Count(after, Len(s) + 1 + 1) =
         Count(after, Len(s) + 1) + (IF IsOperation(after[Len(s) + 1]) THEN 1 ELSE 0)
  <2>1. Len(s) + 1 \in Nat \ {0}
    OBVIOUS
  <2> QED
    BY <2>1, CountNext
<1>4. Count(after, Len(s) + 2) = Count(s, Len(s) + 1) + (IF IsOperation(e) THEN 1 ELSE 0)
  <2>1. Len(s) + 1 + 1 = Len(s) + 2 /\ Len(s) + 1 \in 1 .. Len(s) + 1
    OBVIOUS
  <2> QED
    BY <1>1, <1>2, <1>3, <2>1
<1>5. ASSUME NEW k \in 1 .. Len(s)
      PROVE  /\ Count(s, k) \in Nat
             /\ Count(s, k) <= Count(s, Len(s) + 1)
             /\ IsOperation(s[k]) => Count(s, k) < Count(s, Len(s) + 1)
  <2>1. k \in Nat \ {0} /\ Len(s) + 1 \in Nat /\ k < Len(s) + 1
    OBVIOUS
  <2> QED
    BY <2>1, CountType, CountGrows
<1>6. ASSUME NEW k \in 1 .. Len(s)
      PROVE  FixupOf(after, k) = FixupOf(s, k)
  BY <1>1, <1>2 DEF FixupOf
<1> QED
  BY <1>1, <1>2, <1>4, <1>5, <1>6

LEMMA EventTypes ==
  ASSUME NEW e \in Events
  PROVE  /\ e.event \in {"op", "label", "branch"}
         /\ e.event \in {"label", "branch"} => e.label \in Label
         /\ IsOperation(e) <=> e.event # "label"
         /\ Retained(e) \in RetainedOps
  BY EventsAssumption DEF IsOperation, RetainedOps

LEMMA NewHoldsNothing == Holds(NewCollector, <<>>)
<1>1. Count(<<>>, 1) = 0
  BY CountNone
<1> QED
  BY <1>1 DEF Holds, OpsHeld, MarksHeld, FixupsHeld, NewCollector

LEMMA OpsAppended ==
  ASSUME NEW ops, NEW s \in Seq(Events), NEW e \in Events, OpsHeld(ops, s), IsOperation(e)
  PROVE  OpsHeld(Append(ops, Retained(e)), Append(s, e))
<1> DEFINE after == Append(s, e)
           more == Append(ops, Retained(e))
<1>1. /\ ops \in Seq(RetainedOps) /\ Retained(e) \in RetainedOps
      /\ Len(ops) = Count(s, Len(s) + 1)
  BY EventTypes DEF OpsHeld
<1>2. /\ more \in Seq(RetainedOps) /\ Len(more) = Len(ops) + 1
      /\ more[Len(ops) + 1] = Retained(e)
      /\ \A n \in 1 .. Len(ops) : more[n] = ops[n]
  BY <1>1
<1>3. /\ Len(after) = Len(s) + 1 /\ after[Len(s) + 1] = e
      /\ Count(after, Len(s) + 1) = Count(s, Len(s) + 1)
      /\ Count(after, Len(s) + 2) = Count(s, Len(s) + 1) + 1
  BY AfterEvent
<1>4. Len(more) = Count(after, Len(after) + 1)
  <2>1. Len(after) + 1 = Len(s) + 2
    BY <1>3
  <2> QED
    BY <1>1, <1>2, <1>3, <2>1
<1>5. ASSUME NEW k \in 1 .. Len(after), IsOperation(after[k])
      PROVE  more[Count(after, k) + 1] = Retained(after[k])
  <2>1. CASE k \in 1 .. Len(s)
    <3>1. /\ after[k] = s[k] /\ Count(after, k) = Count(s, k)
          /\ Count(s, k) \in Nat /\ Count(s, k) < Count(s, Len(s) + 1)
      BY <1>5, <2>1, AfterEvent
    <3>2. Count(s, k) + 1 \in 1 .. Len(ops)
      BY <1>1, <3>1
    <3>3. ops[Count(s, k) + 1] = Retained(s[k])
      BY <1>5, <2>1, <3>1 DEF OpsHeld
    <3> QED
      BY <1>2, <3>1, <3>2, <3>3
  <2>2. CASE k = Len(s) + 1
    BY <1>1, <1>2, <1>3, <2>2
  <2>3. k \in 1 .. Len(s) \/ k = Len(s) + 1
    <3> HIDE DEF after
    <3>1. Len(s) \in Nat
      OBVIOUS
    <3> QED
      BY <1>3, <3>1
  <2> QED
    BY <2>1, <2>2, <2>3
<1> QED
  BY <1>2, <1>4, <1>5 DEF OpsHeld

LEMMA OpsKept ==
  ASSUME NEW ops, NEW s \in Seq(Events), NEW e \in Events, OpsHeld(ops, s), ~IsOperation(e)
  PROVE  OpsHeld(ops, Append(s, e))
<1> DEFINE after == Append(s, e)
<1>1. /\ Len(after) = Len(s) + 1 /\ after[Len(s) + 1] = e
      /\ Count(after, Len(s) + 2) = Count(s, Len(s) + 1) + 0
  BY AfterEvent
<1>2. Len(ops) = Count(after, Len(after) + 1)
  <2>1. Len(s) + 1 \in Nat \ {0} /\ Len(after) + 1 = Len(s) + 2
    BY <1>1
  <2>2. Count(s, Len(s) + 1) \in Nat
    BY <2>1, CountType
  <2> QED
    BY <1>1, <2>1, <2>2 DEF OpsHeld
<1>3. ASSUME NEW k \in 1 .. Len(after), IsOperation(after[k])
      PROVE  ops[Count(after, k) + 1] = Retained(after[k])
  <2>1. k \in 1 .. Len(s)
    BY <1>1, <1>3
  <2>2. after[k] = s[k] /\ Count(after, k) = Count(s, k)
    BY <2>1, AfterEvent
  <2> QED
    BY <1>3, <2>1, <2>2 DEF OpsHeld
<1> QED
  BY <1>2, <1>3 DEF OpsHeld

LEMMA MarksKept ==
  ASSUME NEW marks, NEW s \in Seq(Events), NEW e \in Events, MarksHeld(marks, s),
         e.event # "label"
  PROVE  MarksHeld(marks, Append(s, e))
<1> DEFINE after == Append(s, e)
<1>1. ASSUME NEW k \in 1 .. Len(after), after[k].event = "label"
      PROVE  after[k].label \in DOMAIN marks /\ marks[after[k].label] = Count(after, k)
  <2>1. k \in 1 .. Len(s)
    BY <1>1, AfterEvent
  <2>2. after[k] = s[k] /\ Count(after, k) = Count(s, k)
    BY <2>1, AfterEvent
  <2> QED
    BY <1>1, <2>1, <2>2 DEF MarksHeld
<1>2. ASSUME NEW label \in DOMAIN marks
      PROVE  \E k \in 1 .. Len(after) : after[k].event = "label" /\ after[k].label = label
  <2>1. PICK k \in 1 .. Len(s) : s[k].event = "label" /\ s[k].label = label
    BY DEF MarksHeld
  <2>2. k \in 1 .. Len(after) /\ after[k] = s[k]
    BY AfterEvent
  <2> QED
    BY <2>1, <2>2
<1> QED
  BY <1>1, <1>2 DEF MarksHeld

LEMMA MarkAdded ==
  ASSUME NEW marks, NEW s \in Seq(Events), NEW e \in Events, MarksHeld(marks, s),
         e.event = "label", e.label \notin DOMAIN marks
  PROVE  MarksHeld([label \in DOMAIN marks \cup {e.label} |->
                      IF label = e.label THEN Count(s, Len(s) + 1) ELSE marks[label]],
                   Append(s, e))
<1> DEFINE after == Append(s, e)
           more == [label \in DOMAIN marks \cup {e.label} |->
                      IF label = e.label THEN Count(s, Len(s) + 1) ELSE marks[label]]
<1>1. /\ Len(after) = Len(s) + 1 /\ after[Len(s) + 1] = e
      /\ Count(after, Len(s) + 1) = Count(s, Len(s) + 1)
  BY AfterEvent
<1>2. ASSUME NEW k \in 1 .. Len(after), after[k].event = "label"
      PROVE  after[k].label \in DOMAIN more /\ more[after[k].label] = Count(after, k)
  <2>1. CASE k \in 1 .. Len(s)
    <3>1. after[k] = s[k] /\ Count(after, k) = Count(s, k)
      BY <2>1, AfterEvent
    <3>2. s[k].label \in DOMAIN marks /\ marks[s[k].label] = Count(s, k)
      BY <1>2, <2>1, <3>1 DEF MarksHeld
    <3> QED
      BY <3>1, <3>2
  <2>2. CASE k = Len(s) + 1
    BY <1>1, <2>2
  <2> QED
    BY <1>1, <2>1, <2>2
<1>3. ASSUME NEW label \in DOMAIN more
      PROVE  \E k \in 1 .. Len(after) : after[k].event = "label" /\ after[k].label = label
  <2>1. CASE label \in DOMAIN marks
    <3>1. PICK k \in 1 .. Len(s) : s[k].event = "label" /\ s[k].label = label
      BY <2>1 DEF MarksHeld
    <3>2. k \in 1 .. Len(after) /\ after[k] = s[k]
      BY AfterEvent
    <3> QED
      BY <3>1, <3>2
  <2>2. CASE label = e.label
    <3>1. Len(s) + 1 \in 1 .. Len(after)
      BY <1>1
    <3> QED
      BY <1>1, <2>2, <3>1
  <2> QED
    BY <2>1, <2>2
<1> QED
  BY <1>2, <1>3 DEF MarksHeld

LEMMA FixupsKept ==
  ASSUME NEW fixups, NEW s \in Seq(Events), NEW e \in Events, FixupsHeld(fixups, s),
         e.event # "branch"
  PROVE  FixupsHeld(fixups, Append(s, e))
<1> DEFINE after == Append(s, e)
<1>1. ASSUME NEW k \in 1 .. Len(after), after[k].event = "branch"
      PROVE  \E j \in 1 .. Len(fixups) : fixups[j] = FixupOf(after, k)
  <2>1. k \in 1 .. Len(s)
    BY <1>1, AfterEvent
  <2>2. after[k] = s[k] /\ FixupOf(after, k) = FixupOf(s, k)
    BY <2>1, AfterEvent
  <2> QED
    BY <1>1, <2>1, <2>2 DEF FixupsHeld
<1>2. ASSUME NEW j \in 1 .. Len(fixups)
      PROVE  \E k \in 1 .. Len(after) :
                after[k].event = "branch" /\ fixups[j] = FixupOf(after, k)
  <2>1. PICK k \in 1 .. Len(s) : s[k].event = "branch" /\ fixups[j] = FixupOf(s, k)
    BY DEF FixupsHeld
  <2>2. k \in 1 .. Len(after) /\ after[k] = s[k] /\ FixupOf(after, k) = FixupOf(s, k)
    BY AfterEvent
  <2> QED
    BY <2>1, <2>2
<1> QED
  BY <1>1, <1>2 DEF FixupsHeld

LEMMA FixupAdded ==
  ASSUME NEW fixups, NEW s \in Seq(Events), NEW e \in Events, FixupsHeld(fixups, s),
         e.event = "branch"
  PROVE  FixupsHeld(Append(fixups, [index |-> Count(s, Len(s) + 1), label |-> e.label]),
                    Append(s, e))
<1> DEFINE after == Append(s, e)
           fixup == [index |-> Count(s, Len(s) + 1), label |-> e.label]
           more == Append(fixups, fixup)
<1>1. /\ Len(after) = Len(s) + 1 /\ after[Len(s) + 1] = e
      /\ FixupOf(after, Len(s) + 1) = fixup
  <2>1. /\ Len(after) = Len(s) + 1 /\ after[Len(s) + 1] = e
        /\ Count(after, Len(s) + 1) = Count(s, Len(s) + 1)
    BY AfterEvent
  <2> QED
    BY <2>1 DEF FixupOf
<1>2. fixup \in Fixup
  <2>1. Len(s) + 1 \in Nat \ {0}
    OBVIOUS
  <2>2. Count(s, Len(s) + 1) \in Nat
    BY <2>1, CountType
  <2> QED
    BY <2>2, EventTypes DEF Fixup
<1>3. /\ fixups \in Seq(Fixup)
      /\ more \in Seq(Fixup) /\ Len(more) = Len(fixups) + 1
      /\ more[Len(fixups) + 1] = fixup
      /\ \A j \in 1 .. Len(fixups) : more[j] = fixups[j]
  BY <1>2 DEF FixupsHeld
<1>4. ASSUME NEW k \in 1 .. Len(after), after[k].event = "branch"
      PROVE  \E j \in 1 .. Len(more) : more[j] = FixupOf(after, k)
  <2>1. CASE k \in 1 .. Len(s)
    <3>1. after[k] = s[k] /\ FixupOf(after, k) = FixupOf(s, k)
      BY <2>1, AfterEvent
    <3>2. PICK j \in 1 .. Len(fixups) : fixups[j] = FixupOf(s, k)
      BY <1>4, <2>1, <3>1 DEF FixupsHeld
    <3>3. j \in 1 .. Len(more) /\ more[j] = FixupOf(after, k)
      BY <1>3, <3>1, <3>2
    <3> QED
      BY <3>3
  <2>2. CASE k = Len(s) + 1
    <3>1. Len(fixups) + 1 \in 1 .. Len(more)
      BY <1>3
    <3>2. more[Len(fixups) + 1] = FixupOf(after, k)
      BY <1>1, <1>3, <2>2
    <3> QED
      BY <3>1, <3>2
  <2> QED
    BY <1>1, <2>1, <2>2
<1>5. ASSUME NEW j \in 1 .. Len(more)
      PROVE  \E k \in 1 .. Len(after) :
                after[k].event = "branch" /\ more[j] = FixupOf(after, k)
  <2>1. CASE j \in 1 .. Len(fixups)
    <3>1. PICK k \in 1 .. Len(s) : s[k].event = "branch" /\ fixups[j] = FixupOf(s, k)
      BY <2>1 DEF FixupsHeld
    <3>2. k \in 1 .. Len(after) /\ after[k] = s[k] /\ FixupOf(after, k) = FixupOf(s, k)
      BY AfterEvent
    <3>3. more[j] = fixups[j]
      BY <1>3, <2>1
    <3> QED
      BY <3>1, <3>2, <3>3
  <2>2. CASE j = Len(fixups) + 1
    <3>1. Len(s) + 1 \in 1 .. Len(after)
      BY <1>1
    <3>2. more[j] = FixupOf(after, Len(s) + 1)
      BY <1>1, <1>3, <2>2
    <3> QED
      BY <1>1, <3>1, <3>2
  <2> QED
    BY <1>3, <2>1, <2>2
<1> QED
  BY <1>3, <1>4, <1>5 DEF FixupsHeld

\* Whatever the collector is told, it holds.
LEMMA DeliverHolds ==
  ASSUME NEW c, NEW s \in Seq(Events), NEW e \in Events, Holds(c, s),
         e.event = "label" => e.label \notin DOMAIN c.marks
  PROVE  Holds(Deliver(c, e), Append(s, e))
<1>1. Len(c.ops) = Count(s, Len(s) + 1)
  BY DEF Holds, OpsHeld
<1>2. CASE e.event = "op"
  <2> DEFINE d == OnOp(c, e)
  <2>1. Deliver(c, e) = d
    BY <1>2 DEF Deliver
  <2>2. /\ DOMAIN d = {"ops", "marks", "fixups"}
        /\ d.ops = Append(c.ops, Retained(e)) /\ d.marks = c.marks /\ d.fixups = c.fixups
    BY <1>2 DEF OnOp, Holds, Retained
  <2>3. IsOperation(e)
    BY <1>2 DEF IsOperation
  <2>4. OpsHeld(d.ops, Append(s, e))
    BY <2>2, <2>3, OpsAppended DEF Holds
  <2>5. MarksHeld(d.marks, Append(s, e)) /\ FixupsHeld(d.fixups, Append(s, e))
    BY <1>2, <2>2, MarksKept, FixupsKept DEF Holds
  <2> QED
    BY <2>1, <2>2, <2>4, <2>5 DEF Holds
<1>3. CASE e.event = "label"
  <2> DEFINE d == OnLabel(c, e)
  <2>1. Deliver(c, e) = d
    BY <1>3 DEF Deliver
  <2>2. /\ DOMAIN d = {"ops", "marks", "fixups"}
        /\ d.ops = c.ops /\ d.fixups = c.fixups
        /\ d.marks = [label \in DOMAIN c.marks \cup {e.label} |->
                         IF label = e.label THEN Count(s, Len(s) + 1) ELSE c.marks[label]]
    BY <1>1 DEF OnLabel, Holds
  <2>3. ~IsOperation(e)
    BY <1>3 DEF IsOperation
  <2>4. OpsHeld(d.ops, Append(s, e)) /\ FixupsHeld(d.fixups, Append(s, e))
    BY <1>3, <2>2, <2>3, OpsKept, FixupsKept DEF Holds
  <2>5. MarksHeld(d.marks, Append(s, e))
    <3>1. MarksHeld(c.marks, s) /\ e.label \notin DOMAIN c.marks
      BY <1>3 DEF Holds
    <3>2. MarksHeld([label \in DOMAIN c.marks \cup {e.label} |->
                       IF label = e.label THEN Count(s, Len(s) + 1) ELSE c.marks[label]],
                    Append(s, e))
      BY <1>3, <3>1, MarkAdded
    <3> QED
      BY <2>2, <3>2
  <2> QED
    BY <2>1, <2>2, <2>4, <2>5 DEF Holds
<1>4. CASE e.event = "branch"
  <2> DEFINE d == OnBranchLabel(c, e)
  <2>1. Deliver(c, e) = d
    BY <1>4 DEF Deliver
  <2>2. /\ DOMAIN d = {"ops", "marks", "fixups"}
        /\ d.ops = Append(c.ops, Retained(e)) /\ d.marks = c.marks
        /\ d.fixups = Append(c.fixups, [index |-> Count(s, Len(s) + 1), label |-> e.label])
    BY <1>1, <1>4 DEF OnBranchLabel, Holds, Retained
  <2>3. IsOperation(e)
    BY <1>4 DEF IsOperation
  <2>4. OpsHeld(d.ops, Append(s, e))
    BY <2>2, <2>3, OpsAppended DEF Holds
  <2>5. MarksHeld(d.marks, Append(s, e)) /\ FixupsHeld(d.fixups, Append(s, e))
    BY <1>4, <2>2, MarksKept, FixupAdded DEF Holds
  <2> QED
    BY <2>1, <2>2, <2>4, <2>5 DEF Holds
<1> QED
  BY <1>2, <1>3, <1>4, EventTypes

----------------------------------------------------------------------------
(* What the collector has become is what it held, resolved.                *)

Closed(c) == [c EXCEPT !.ops = Resolved(c)]

CollectorInv ==
    /\ stream \in Seq(Events) /\ Len(stream) <= MaxEvents
    /\ outcome \in {"open", "ok", "UnknownLabel"}
    /\ outcome # "ok" => Holds(collector, stream)
    /\ outcome = "ok" =>
          \E c : Holds(c, stream) /\ Resolvable(c) /\ collector = Closed(c)
    /\ outcome = "UnknownLabel" => ~Resolvable(collector)

LEMMA InitHoldsInv == Init => CollectorInv
<1> SUFFICES ASSUME Init PROVE CollectorInv
  OBVIOUS
<1>1. Holds(collector, stream)
  BY NewHoldsNothing DEF Init
<1>2. stream \in Seq(Events) /\ Len(stream) <= MaxEvents
  BY MaxEventsAssumption DEF Init
<1> QED
  BY <1>1, <1>2 DEF Init, CollectorInv

LEMMA NextKeepsInv == CollectorInv /\ [Next]_vars => CollectorInv'
<1> SUFFICES ASSUME CollectorInv, [Next]_vars PROVE CollectorInv'
  OBVIOUS
<1>1. ASSUME NEW e \in Events, Receive(e) PROVE CollectorInv'
  <2>1. /\ stream \in Seq(Events) /\ Holds(collector, stream) /\ outcome = "open"
        /\ collector' = Deliver(collector, e) /\ stream' = Append(stream, e)
        /\ outcome' = outcome /\ Len(stream) < MaxEvents
        /\ e.event = "label" => e.label \notin DOMAIN collector.marks
    BY <1>1 DEF Receive, CollectorInv
  <2>2. Holds(collector', stream')
    BY <2>1, DeliverHolds
  <2>3. stream' \in Seq(Events) /\ Len(stream') = Len(stream) + 1
    BY <2>1
  <2>4. Len(stream') <= MaxEvents
    BY <2>1, <2>3, MaxEventsAssumption
  <2> QED
    BY <2>1, <2>2, <2>3, <2>4 DEF CollectorInv
<1>2. CASE Finish
  <2>1. /\ outcome = "open" /\ stream' = stream /\ Holds(collector, stream)
        /\ stream \in Seq(Events) /\ Len(stream) <= MaxEvents
    BY <1>2 DEF Finish, CollectorInv
  <2>2. CASE Resolvable(collector)
    <3>1. outcome' = "ok" /\ collector' = Closed(collector)
      BY <1>2, <2>2 DEF Finish, Closed
    <3> QED
      BY <2>1, <2>2, <3>1 DEF CollectorInv
  <2>3. CASE ~Resolvable(collector)
    <3>1. outcome' = "UnknownLabel" /\ collector' = collector
      BY <1>2, <2>3 DEF Finish
    <3> QED
      BY <2>1, <2>3, <3>1 DEF CollectorInv
  <2> QED
    BY <2>2, <2>3
<1>3. CASE UNCHANGED vars
  BY <1>3 DEF vars, CollectorInv
<1> QED
  BY <1>1, <1>2, <1>3 DEF Next

LEMMA CollectorInvariant == Spec => []CollectorInv
<1> QED
  BY InitHoldsInv, NextKeepsInv, PTL DEF Spec

\* Resolution replaces operations and keeps their number and everything else.
LEMMA CollectorHeld ==
  ASSUME CollectorInv
  PROVE  \E c : /\ Holds(c, stream)
                /\ collector.marks = c.marks /\ collector.fixups = c.fixups
                /\ collector.ops \in {c.ops, Resolved(c)}
                /\ Len(collector.ops) = Len(c.ops)
                /\ outcome = "ok" => Resolvable(c) /\ collector.ops = Resolved(c)
                /\ outcome = "UnknownLabel" => ~Resolvable(c)
<1>1. CASE outcome = "ok"
  <2>1. PICK c : Holds(c, stream) /\ Resolvable(c) /\ collector = Closed(c)
    BY <1>1 DEF CollectorInv
  <2>2. DOMAIN c = {"ops", "marks", "fixups"} /\ c.ops \in Seq(RetainedOps)
    BY <2>1 DEF Holds, OpsHeld
  <2>3. /\ collector.marks = c.marks /\ collector.fixups = c.fixups
        /\ collector.ops = Resolved(c)
    BY <2>1, <2>2 DEF Closed
  <2>4. Len(Resolved(c)) = Len(c.ops)
    <3>1. DOMAIN Resolved(c) = 1 .. Len(c.ops) /\ Len(c.ops) \in Nat
      BY <2>2 DEF Resolved
    <3> QED
      BY <3>1
  <2> QED
    BY <1>1, <2>1, <2>3, <2>4
<1>2. CASE outcome # "ok"
  <2>1. Holds(collector, stream)
    BY <1>2 DEF CollectorInv
  <2> QED
    BY <1>2, <2>1 DEF CollectorInv
<1> QED
  BY <1>1, <1>2

----------------------------------------------------------------------------
(* The theorems.                                                           *)

\* Marks and fixups lie within the operations, whatever was reported, and
\* still do once the branches are resolved.
THEOREM CollectorTyped == Spec => []TypeOK
<1>1. CollectorInv => TypeOK
  <2> SUFFICES ASSUME CollectorInv PROVE TypeOK
    OBVIOUS
  <2>1. PICK c : /\ Holds(c, stream)
                 /\ collector.marks = c.marks /\ collector.fixups = c.fixups
                 /\ Len(collector.ops) = Len(c.ops)
    BY CollectorHeld
  <2>2. stream \in Seq(Events) /\ Len(stream) \in Nat
    BY DEF CollectorInv
  <2>3. Len(c.ops) = Count(stream, Len(stream) + 1) /\ Len(c.ops) \in Nat
    BY <2>1 DEF Holds, OpsHeld
  <2>4. ASSUME NEW k \in 1 .. Len(stream)
        PROVE  /\ Count(stream, k) \in 0 .. Len(c.ops)
               /\ IsOperation(stream[k]) => Count(stream, k) \in 0 .. Len(c.ops) - 1
    <3>1. k \in Nat \ {0} /\ Len(stream) + 1 \in Nat /\ k < Len(stream) + 1
      BY <2>2
    <3>2. /\ Count(stream, k) \in Nat
          /\ Count(stream, k) <= Count(stream, Len(stream) + 1)
          /\ IsOperation(stream[k]) => Count(stream, k) < Count(stream, Len(stream) + 1)
      BY <3>1, CountType, CountGrows
    <3> QED
      BY <2>3, <3>2
  <2>5. ASSUME NEW label \in DOMAIN c.marks
        PROVE  label \in Label /\ c.marks[label] \in 0 .. Len(c.ops)
    <3>1. PICK k \in 1 .. Len(stream) : stream[k].event = "label" /\ stream[k].label = label
      BY <2>1 DEF Holds, MarksHeld
    <3>2. c.marks[label] = Count(stream, k)
      BY <2>1, <3>1 DEF Holds, MarksHeld
    <3>3. stream[k] \in Events
      BY <2>2, <3>1
    <3> QED
      BY <2>4, <3>1, <3>2, <3>3, EventTypes
  <2>6. ASSUME NEW j \in DOMAIN c.fixups
        PROVE  c.fixups[j].index \in 0 .. Len(c.ops) - 1 /\ c.fixups[j].label \in Label
    <3>1. j \in 1 .. Len(c.fixups) /\ c.fixups[j] \in Fixup
      BY <2>1 DEF Holds, FixupsHeld
    <3>2. PICK k \in 1 .. Len(stream) :
             stream[k].event = "branch" /\ c.fixups[j] = FixupOf(stream, k)
      BY <2>1, <3>1 DEF Holds, FixupsHeld
    <3>3. IsOperation(stream[k])
      BY <3>2 DEF IsOperation
    <3> QED
      BY <2>4, <3>1, <3>2, <3>3 DEF Fixup, FixupOf
  <2> QED
    BY <2>1, <2>5, <2>6 DEF TypeOK, CollectorInv
<1> QED
  BY <1>1, CollectorInvariant, PTL

\* A label marks the operation received after it, for any stream.
THEOREM LabelsMarkTheNextOperation == Spec => []MarksExact
<1>1. CollectorInv => MarksExact
  <2> SUFFICES ASSUME CollectorInv PROVE MarksExact
    OBVIOUS
  <2>1. PICK c : Holds(c, stream) /\ collector.marks = c.marks
    BY CollectorHeld
  <2>2. DOMAIN stream = 1 .. Len(stream)
    BY DEF CollectorInv
  <2>3. DOMAIN c.marks =
           {stream[k].label : k \in {k \in DOMAIN stream : stream[k].event = "label"}}
    BY <2>1, <2>2 DEF Holds, MarksHeld
  <2>4. ASSUME NEW k \in DOMAIN stream, stream[k].event = "label"
        PROVE  c.marks[stream[k].label] = OperationsBefore(k)
    BY <2>1, <2>2, <2>4, OperationsBeforeIsCount DEF Holds, MarksHeld
  <2> QED
    BY <2>1, <2>3, <2>4 DEF MarksExact
<1> QED
  BY <1>1, CollectorInvariant, PTL

\* Resolution fails exactly when some branch names a label never reported.
THEOREM OnlyUnknownLabelsFail == Spec => []FailsExactly
<1>1. CollectorInv => FailsExactly
  <2> SUFFICES ASSUME CollectorInv, outcome # "open"
               PROVE  outcome = "UnknownLabel" <=>
                        \E k \in DOMAIN stream :
                          /\ stream[k].event = "branch"
                          /\ \A j \in DOMAIN stream : stream[j] # LabelEvent(stream[k].label)
    BY DEF FailsExactly
  <2>1. PICK c : /\ Holds(c, stream)
                 /\ outcome = "ok" => Resolvable(c)
                 /\ outcome = "UnknownLabel" => ~Resolvable(c)
    BY CollectorHeld
  <2>2. DOMAIN stream = 1 .. Len(stream) /\ outcome \in {"ok", "UnknownLabel"}
        /\ \A k \in 1 .. Len(stream) : stream[k] \in Events
    BY DEF CollectorInv
  <2>3. ASSUME NEW label
        PROVE  label \in DOMAIN c.marks <=>
                  \E j \in DOMAIN stream : stream[j] = LabelEvent(label)
    <3>1. ASSUME label \in DOMAIN c.marks
          PROVE  \E j \in DOMAIN stream : stream[j] = LabelEvent(label)
      <4>1. PICK j \in 1 .. Len(stream) : stream[j].event = "label" /\ stream[j].label = label
        BY <2>1, <3>1 DEF Holds, MarksHeld
      <4>2. stream[j] = LabelEvent(label)
        BY <2>2, <4>1, EventsAssumption
      <4> QED
        BY <2>2, <4>2
    <3>2. ASSUME NEW j \in DOMAIN stream, stream[j] = LabelEvent(label)
          PROVE  label \in DOMAIN c.marks
      <4>1. stream[j].event = "label" /\ stream[j].label = label
        BY <3>2 DEF LabelEvent
      <4> QED
        BY <2>1, <2>2, <4>1 DEF Holds, MarksHeld
    <3> QED
      BY <3>1, <3>2
  <2>4. Resolvable(c) <=> \A k \in DOMAIN stream :
                             stream[k].event = "branch" => stream[k].label \in DOMAIN c.marks
    <3>1. DOMAIN c.fixups = 1 .. Len(c.fixups)
      BY <2>1 DEF Holds, FixupsHeld
    <3>2. ASSUME Resolvable(c), NEW k \in DOMAIN stream, stream[k].event = "branch"
          PROVE  stream[k].label \in DOMAIN c.marks
      <4>1. PICK j \in 1 .. Len(c.fixups) : c.fixups[j] = FixupOf(stream, k)
        BY <2>1, <2>2, <3>2 DEF Holds, FixupsHeld
      <4> QED
        BY <3>1, <3>2, <4>1 DEF Resolvable, FixupOf
    <3>3. ASSUME \A k \in DOMAIN stream :
                    stream[k].event = "branch" => stream[k].label \in DOMAIN c.marks,
                 NEW j \in DOMAIN c.fixups
          PROVE  c.fixups[j].label \in DOMAIN c.marks
      <4>1. PICK k \in 1 .. Len(stream) :
               stream[k].event = "branch" /\ c.fixups[j] = FixupOf(stream, k)
        BY <2>1, <3>1 DEF Holds, FixupsHeld
      <4> QED
        BY <2>2, <3>3, <4>1 DEF FixupOf
    <3> QED
      BY <3>2, <3>3 DEF Resolvable
  <2> QED
    BY <2>1, <2>2, <2>3, <2>4
<1> QED
  BY <1>1, CollectorInvariant, PTL

\* The one label a local branch is fixed to, and none for another operation.
LEMMA OneFixup ==
  ASSUME NEW c, NEW s \in Seq(Events), Holds(c, s),
         NEW k \in 1 .. Len(s), IsOperation(s[k])
  PROVE  FixupLabels(c, Count(s, k)) =
            IF s[k].event = "branch" THEN {s[k].label} ELSE {}
<1>1. ASSUME NEW l \in 1 .. Len(s), IsOperation(s[l]), Count(s, l) = Count(s, k)
      PROVE  l = k
  <2>1. /\ k \in Nat \ {0} /\ l \in Nat \ {0}
        /\ Count(s, k) \in Nat /\ Count(s, l) \in Nat
    BY CountType
  <2>2. ~(k < l) /\ ~(l < k)
    BY <1>1, <2>1, CountGrows
  <2> QED
    BY <2>1, <2>2
<1>2. DOMAIN c.fixups = 1 .. Len(c.fixups)
  BY DEF Holds, FixupsHeld
<1>3. ASSUME NEW j \in DOMAIN c.fixups, c.fixups[j].index = Count(s, k)
      PROVE  s[k].event = "branch" /\ c.fixups[j].label = s[k].label
  <2>1. PICK l \in 1 .. Len(s) : s[l].event = "branch" /\ c.fixups[j] = FixupOf(s, l)
    BY <1>2 DEF Holds, FixupsHeld
  <2>2. IsOperation(s[l]) /\ Count(s, l) = Count(s, k)
    BY <1>3, <2>1 DEF IsOperation, FixupOf
  <2>3. l = k
    BY <1>1, <2>2
  <2> QED
    BY <2>1, <2>3 DEF FixupOf
<1>4. ASSUME s[k].event = "branch"
      PROVE  \E j \in DOMAIN c.fixups :
                c.fixups[j].index = Count(s, k) /\ c.fixups[j].label = s[k].label
  <2>1. PICK j \in 1 .. Len(c.fixups) : c.fixups[j] = FixupOf(s, k)
    BY <1>4 DEF Holds, FixupsHeld
  <2> QED
    BY <1>2, <2>1 DEF FixupOf
<1>5. \A x : x \in FixupLabels(c, Count(s, k)) <=>
                \E j \in DOMAIN c.fixups :
                   c.fixups[j].index = Count(s, k) /\ x = c.fixups[j].label
  BY DEF FixupLabels
<1>6. \A x : x \in FixupLabels(c, Count(s, k)) <=> s[k].event = "branch" /\ x = s[k].label
  BY <1>3, <1>4, <1>5
<1> QED
  BY <1>6

LEMMA PairConcatenated ==
  ASSUME NEW a, NEW x
  PROVE  <<a>> \o <<x>> = <<a, x>>
<1> DEFINE S == {a, x}
<1>1. <<a>> \in Seq(S) /\ <<x>> \in Seq(S)
  OBVIOUS
<1>2. /\ <<a>> \o <<x>> \in Seq(S) /\ Len(<<a>> \o <<x>>) = 2
      /\ (<<a>> \o <<x>>)[1] = a /\ (<<a>> \o <<x>>)[2] = x
  BY <1>1
<1>3. ASSUME NEW t \in Seq(S), Len(t) = 2, t[1] = a, t[2] = x
      PROVE  t = <<a, x>>
  <2>1. t = [i \in 1 .. 2 |-> t[i]] /\ <<a, x>> = [i \in 1 .. 2 |-> <<a, x>>[i]]
    BY <1>3
  <2>2. \A i \in 1 .. 2 : t[i] = <<a, x>>[i]
    BY <1>3
  <2> QED
    BY <2>1, <2>2
<1> QED
  BY <1>2, <1>3

\* Resolution replaces the first input of an operation of one or two.
LEMMA FirstInputReplaced ==
  ASSUME NEW a, NEW b, NEW rest, rest \in {<<>>, <<rest[1]>>}
  PROVE  [<<a>> \o rest EXCEPT ![1] = b] = <<b>> \o rest
<1>1. CASE rest = <<>>
  BY <1>1
<1>2. CASE rest = <<rest[1]>>
  <2>1. PICK x : rest = <<x>>
    BY <1>2
  <2>2. <<a>> \o <<x>> = <<a, x>> /\ <<b>> \o <<x>> = <<b, x>>
    BY PairConcatenated
  <2>3. [<<a, x>> EXCEPT ![1] = b] = <<b, x>>
    OBVIOUS
  <2> QED
    BY <2>1, <2>2, <2>3
<1> QED
  BY <1>1, <1>2

Patched(o, first) == [o EXCEPT !.inputs = [@ EXCEPT ![1] = first]]

LEMMA InputsReplaced ==
  ASSUME NEW opcode, NEW output, NEW inputs, NEW first
  PROVE  Patched(Op(opcode, output, inputs), first) =
            Op(opcode, output, [inputs EXCEPT ![1] = first])
<1>1. ASSUME NEW o, o = Op(opcode, output, inputs)
      PROVE  Patched(o, first) = Op(opcode, output, [inputs EXCEPT ![1] = first])
  <2>1. o.inputs = inputs
    BY <1>1 DEF Op
  <2>2. ASSUME NEW replaced
        PROVE  [o EXCEPT !.inputs = replaced] = Op(opcode, output, replaced)
    BY <1>1 DEF Op
  <2> QED
    BY <2>1, <2>2 DEF Patched
<1> QED
  BY <1>1

\* Every local branch lands where its label stands, and every other operation
\* is the one reported, for any stream and any word that measures it.
THEOREM BranchesLandOnLabels == Spec => []FlatExact
<1>1. CollectorInv => FlatExact
  <2> SUFFICES ASSUME CollectorInv, outcome = "ok"
               PROVE  /\ Len(collector.ops) = OperationsBefore(Len(stream) + 1)
                      /\ \A k \in DOMAIN stream : IsOperation(stream[k]) =>
                            Resolves(collector.ops[OperationsBefore(k) + 1], stream[k],
                                     OperationsBefore(k))
    BY DEF FlatExact
  <2>1. PICK c : /\ Holds(c, stream) /\ Resolvable(c)
                 /\ collector.marks = c.marks
                 /\ collector.ops = Resolved(c) /\ Len(collector.ops) = Len(c.ops)
    BY CollectorHeld
  <2>2. /\ stream \in Seq(Events) /\ DOMAIN stream = 1 .. Len(stream)
        /\ Len(stream) \in Nat /\ Len(stream) <= MaxEvents
    BY DEF CollectorInv
  <2>3. /\ c.ops \in Seq(RetainedOps) /\ Len(c.ops) \in Nat
        /\ DOMAIN c.ops = 1 .. Len(c.ops)
        /\ Len(c.ops) = Count(stream, Len(stream) + 1)
    BY <2>1 DEF Holds, OpsHeld
  <2>4. ASSUME NEW k \in 1 .. Len(stream), IsOperation(stream[k])
        PROVE  Resolves(collector.ops[Count(stream, k) + 1], stream[k], Count(stream, k))
    <3> DEFINE i == Count(stream, k)
               e == stream[k]
    <3>1. /\ i \in 0 .. MaxEvents /\ i + 1 \in DOMAIN c.ops /\ (i + 1) - 1 = i
      <4>1. k \in Nat \ {0} /\ Len(stream) + 1 \in Nat /\ k < Len(stream) + 1
        BY <2>2
      <4>2. i \in Nat /\ i <= k - 1 /\ i < Count(stream, Len(stream) + 1)
        BY <2>4, <4>1, CountType, CountGrows
      <4> HIDE DEF i
      <4> QED
        BY <2>2, <2>3, <4>1, <4>2, MaxEventsAssumption
    <3>2. c.ops[i + 1] = Retained(e) /\ e \in Events
      BY <2>1, <2>2, <2>4 DEF Holds, OpsHeld
    <3>3. FixupLabels(c, i) = IF e.event = "branch" THEN {e.label} ELSE {}
      BY <2>1, <2>2, <2>4, OneFixup
    <3>4. CASE e.event = "op"
      <4>1. FixupLabels(c, (i + 1) - 1) = {}
        BY <3>1, <3>3, <3>4
      <4>2. Resolved(c)[i + 1] = c.ops[i + 1]
        BY <3>1, <4>1 DEF Resolved
      <4> QED
        BY <2>1, <3>2, <3>4, <4>2 DEF Resolves, Retained
    <3>5. CASE e.event = "branch"
      <4> DEFINE mark == c.marks[e.label]
                 distance == Constant(ToWord(mark - i), 8)
                 operation == Resolved(c)[i + 1]
      <4>1. FixupLabels(c, i) = {e.label} /\ FixupLabels(c, i) # {}
        BY <3>3, <3>5
      <4>2. (CHOOSE label \in FixupLabels(c, i) : TRUE) = e.label
        BY <4>1
      <4>3. operation = Patched(c.ops[i + 1], distance)
        BY <3>1, <4>1, <4>2 DEF Resolved, Patched
      <4>4. c.ops[i + 1] = Op(e.opcode, None, <<Constant(0, 8)>> \o e.condition)
        BY <3>2, <3>5 DEF Retained
      <4>5. operation = Op(e.opcode, None,
                           [<<Constant(0, 8)>> \o e.condition EXCEPT ![1] = distance])
        <5> HIDE DEF distance, operation, e
        <5> DEFINE inputs == <<Constant(0, 8)>> \o e.condition
        <5>1. operation = Patched(Op(e.opcode, None, inputs), distance)
          BY <4>3, <4>4
        <5> HIDE DEF inputs
        <5>2. operation = Op(e.opcode, None, [inputs EXCEPT ![1] = distance])
          BY <5>1, InputsReplaced
        <5> QED
          BY <5>2 DEF inputs
      <4>6. e.condition \in {<<>>, <<e.condition[1]>>}
        BY <3>2, <3>5, EventsAssumption
      <4>7. [<<Constant(0, 8)>> \o e.condition EXCEPT ![1] = distance] =
               <<distance>> \o e.condition
        BY <4>6, FirstInputReplaced
      <4>8. /\ Len(<<distance>> \o e.condition) = 1 + Len(e.condition)
            /\ Tail(<<distance>> \o e.condition) = e.condition
            /\ (<<distance>> \o e.condition)[1] = distance
        <5> HIDE DEF distance
        <5>1. CASE e.condition = <<>>
          BY <5>1
        <5>2. CASE e.condition = <<e.condition[1]>>
          BY <5>2
        <5> QED
          BY <4>6, <5>1, <5>2
      <4>9. mark \in 0 .. MaxEvents
        <5>1. e.label \in DOMAIN c.marks
          <6>1. PICK j \in 1 .. Len(c.fixups) : c.fixups[j] = FixupOf(stream, k)
            BY <2>1, <3>5 DEF Holds, FixupsHeld
          <6>2. j \in DOMAIN c.fixups
            BY <2>1, <6>1 DEF Holds, FixupsHeld
          <6> QED
            BY <2>1, <6>1, <6>2 DEF Resolvable, FixupOf
        <5>2. PICK l \in 1 .. Len(stream) :
                 stream[l].event = "label" /\ stream[l].label = e.label
          BY <2>1, <5>1 DEF Holds, MarksHeld
        <5>3. mark = Count(stream, l)
          BY <2>1, <5>2 DEF Holds, MarksHeld
        <5>4. Count(stream, l) \in Nat /\ Count(stream, l) <= l - 1
          <6>1. l \in Nat \ {0}
            BY <2>2
          <6> QED
            BY <6>1, CountType
        <5> HIDE DEF mark
        <5> QED
          BY <2>2, <5>3, <5>4, MaxEventsAssumption
      <4>10. i + FromWord(ToWord(mark - i)) = mark
        BY <3>1, <4>9, DistanceRoundTrip
      <4>11. distance.space = ConstSpace /\ distance.offset = ToWord(mark - i)
        BY DEF Constant, Varnode
      <4>12. /\ operation.opcode = e.opcode /\ operation.output = None
             /\ operation.inputs = <<distance>> \o e.condition
        BY <4>5, <4>7 DEF Op
      <4> HIDE DEF mark, distance, operation
      <4> QED
        BY <2>1, <3>5, <4>8, <4>10, <4>11, <4>12 DEF Resolves, operation, mark
    <3> QED
      BY <2>4, <3>2, <3>4, <3>5 DEF IsOperation
  <2> QED
    BY <2>1, <2>2, <2>3, <2>4, OperationsBeforeIsCount
<1> QED
  BY <1>1, CollectorInvariant, PTL
=============================================================================
