--------------------------- MODULE OperandProofs ---------------------------
(***************************************************************************)
(* The operand buffer is a list, whatever the size of its array and        *)
(* however many inputs an operation has.                                   *)
(***************************************************************************)
EXTENDS OperandBuffer, TLAPS

LEMMA InitTyped == Init => TypeOK
  BY InlineAssumption, ZeroAssumption DEF Init, TypeOK

LEMMA PushTyped ==
  ASSUME TypeOK, NEW input \in Operand, Push(input)
  PROVE  TypeOK'
<1>1. inline \in [1 .. INLINE -> Operand] /\ inline \in Seq(Operand) /\ Len(inline) = INLINE
  BY InlineAssumption DEF TypeOK
<1>2. CASE len < INLINE
  BY <1>2, InlineAssumption DEF TypeOK, Push
<1>3. CASE len >= INLINE
  <2>1. /\ inline' = inline /\ len' = len + 1
        /\ spilled' = Append(IF len = INLINE THEN spilled \o inline ELSE spilled, input)
    BY <1>3, InlineAssumption DEF TypeOK, Push, Spilled
  <2>2. CASE len = INLINE
    <3>1. spilled \o inline \in Seq(Operand) /\ Len(spilled \o inline) = INLINE
      BY <1>1, <2>2, InlineAssumption DEF TypeOK
    <3> QED
      BY <2>1, <2>2, <3>1, InlineAssumption DEF TypeOK
  <2>3. CASE len > INLINE
    BY <2>1, <2>3, InlineAssumption DEF TypeOK
  <2> QED
    BY <1>3, <2>2, <2>3, InlineAssumption DEF TypeOK
<1> QED
  BY <1>2, <1>3, InlineAssumption DEF TypeOK

\* The vector and the array stay consistent, for any size of the array.
THEOREM BufferTyped == Spec => []TypeOK
<1>1. TypeOK /\ [Next]_vars => TypeOK'
  <2> SUFFICES ASSUME TypeOK, [Next]_vars PROVE TypeOK'
    OBVIOUS
  <2>1. CASE Next
    BY <2>1, PushTyped DEF Next
  <2>2. CASE UNCHANGED vars
    BY <2>2 DEF vars, TypeOK
  <2> QED
    BY <2>1, <2>2
<1> QED
  BY InitTyped, <1>1, PTL DEF Spec

----------------------------------------------------------------------------
(* What the buffer reads as.                                               *)

LEMMA FirstOfSequence ==
  ASSUME NEW S, NEW s \in Seq(S), NEW n \in 0 .. Len(s)
  PROVE  /\ SubSeq(s, 1, n) \in Seq(S) /\ Len(SubSeq(s, 1, n)) = n
         /\ \A i \in 1 .. n : SubSeq(s, 1, n)[i] = s[i]
  OBVIOUS

LEMMA SameSequence ==
  ASSUME NEW S, NEW s \in Seq(S), NEW t \in Seq(S), Len(s) = Len(t),
         \A i \in 1 .. Len(s) : s[i] = t[i]
  PROVE  s = t
<1>1. s = [i \in 1 .. Len(s) |-> s[i]] /\ t = [i \in 1 .. Len(s) |-> t[i]]
  OBVIOUS
<1> QED
  BY <1>1

\* Each push adds its input to what the buffer reads as, and nothing else:
\* the three cases are the array, the push that fills the vector, the vector.
LEMMA PushAppends ==
  ASSUME TypeOK, NEW input \in Operand, Push(input)
  PROVE  /\ Len(Deref) = len
         /\ Deref' = Append(Deref, input)
<1>1. /\ inline \in Seq(Operand) /\ Len(inline) = INLINE /\ len \in Nat /\ INLINE \in Nat
      /\ spilled \in Seq(Operand) /\ len' = len + 1
  BY InlineAssumption DEF TypeOK, Push
<1>2. CASE len < INLINE
  <2>1. /\ inline' = [inline EXCEPT ![len + 1] = input]
        /\ inline' \in Seq(Operand) /\ Len(inline') = INLINE
    BY <1>1, <1>2 DEF Push
  <2>2. Deref = SubSeq(inline, 1, len) /\ Deref' = SubSeq(inline', 1, len + 1)
    BY <1>1, <1>2 DEF Deref
  <2>3. /\ Deref \in Seq(Operand) /\ Len(Deref) = len
        /\ \A i \in 1 .. len : Deref[i] = inline[i]
    BY <1>1, <1>2, <2>2, FirstOfSequence
  <2>4. /\ Deref' \in Seq(Operand) /\ Len(Deref') = len + 1
        /\ \A i \in 1 .. len + 1 : Deref'[i] = inline'[i]
    BY <1>1, <1>2, <2>1, <2>2, FirstOfSequence
  <2>5. /\ Append(Deref, input) \in Seq(Operand) /\ Len(Append(Deref, input)) = len + 1
        /\ \A i \in 1 .. len : Append(Deref, input)[i] = Deref[i]
        /\ Append(Deref, input)[len + 1] = input
    BY <2>3
  <2>6. ASSUME NEW i \in 1 .. len + 1
        PROVE  Deref'[i] = Append(Deref, input)[i]
    <3>1. CASE i \in 1 .. len
      <4>1. inline'[i] = inline[i]
        BY <1>1, <1>2, <2>1, <3>1
      <4>2. Deref'[i] = inline'[i] /\ Append(Deref, input)[i] = inline[i]
        BY <2>3, <2>4, <2>5, <3>1
      <4> QED
        BY <4>1, <4>2
    <3>2. CASE i = len + 1
      <4>1. inline'[i] = input
        BY <1>1, <1>2, <2>1, <3>2
      <4>2. Deref'[i] = inline'[i] /\ Append(Deref, input)[i] = input
        BY <2>4, <2>5, <3>2
      <4> QED
        BY <4>1, <4>2
    <3>3. i \in 1 .. len \/ i = len + 1
      <4>1. len \in Nat
        BY <1>1
      <4> QED
        BY <4>1
    <3> QED
      BY <3>1, <3>2, <3>3
  <2> QED
    BY <2>3, <2>4, <2>5, <2>6, SameSequence
<1>3. CASE len = INLINE
  <2>1. Deref = inline
    <3>1. Deref = SubSeq(inline, 1, len)
      BY <1>1, <1>3 DEF Deref
    <3>2. /\ Deref \in Seq(Operand) /\ Len(Deref) = Len(inline)
          /\ \A i \in 1 .. Len(Deref) : Deref[i] = inline[i]
      BY <1>1, <1>3, <3>1, FirstOfSequence
    <3> QED
      BY <1>1, <3>2, SameSequence
  <2>2. spilled' = Append(spilled \o inline, input) /\ spilled = <<>>
    BY <1>1, <1>3 DEF Push, Spilled, TypeOK
  <2>3. spilled \o inline = inline
    BY <1>1, <2>2
  <2>4. Deref' = spilled'
    BY <1>1, <1>3 DEF Deref
  <2> QED
    BY <1>1, <1>3, <2>1, <2>2, <2>3, <2>4
<1>4. CASE len > INLINE
  <2>1. spilled' = Append(spilled, input) /\ Len(spilled) = len
    BY <1>1, <1>4 DEF Push, Spilled, TypeOK
  <2>2. Deref = spilled /\ Deref' = spilled'
    BY <1>1, <1>4 DEF Deref
  <2> QED
    BY <2>1, <2>2
<1> QED
  BY <1>1, <1>2, <1>3, <1>4

\* Read through `deref`, the buffer implements a list, for any size of the
\* array and any number of inputs.
THEOREM BufferIsAList == Spec => IsOperandList
<1>1. Init => List!ListInit
  <2> SUFFICES ASSUME Init PROVE Deref = <<>>
    BY DEF List!ListInit
  <2>1. inline \in Seq(Operand) /\ len = 0 /\ len <= INLINE
    BY InlineAssumption, ZeroAssumption DEF Init
  <2> QED
    BY <2>1 DEF Deref
<1>2. TypeOK /\ [Next]_vars => [\E input \in Operand : List!ListPush(input)]_Deref
  <2> SUFFICES ASSUME TypeOK, [Next]_vars
               PROVE  [\E input \in Operand : List!ListPush(input)]_Deref
    OBVIOUS
  <2>1. ASSUME NEW input \in Operand, Push(input)
        PROVE  List!ListPush(input)
    <3>1. len < MaxOperands
      BY <2>1 DEF Push
    <3> QED
      BY <2>1, <3>1, PushAppends DEF List!ListPush
  <2>2. CASE UNCHANGED vars
    BY <2>2 DEF vars, Deref
  <2> QED
    BY <2>1, <2>2 DEF Next
<1> QED
  BY <1>1, <1>2, BufferTyped, PTL DEF Spec, IsOperandList, List!ListSpec
============================================================================
