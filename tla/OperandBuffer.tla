--------------------------- MODULE OperandBuffer ---------------------------
(***************************************************************************)
(* The inputs of an operation while they are lowered (instruction.rs,      *)
(* `Inputs`).  The first INLINE are kept in an array; the next one moves   *)
(* them all to a vector, which is then what the buffer reads as.           *)
(***************************************************************************)
EXTENDS Naturals, Sequences

CONSTANTS
    Operand,
    Zero,         \* what an unused place of the array holds
    INLINE,       \* 6 in the code
    MaxOperands   \* bound: inputs of one operation

ASSUME InlineAssumption == INLINE \in Nat /\ MaxOperands \in Nat
ASSUME ZeroAssumption == Zero \in Operand

VARIABLES
    inline,
    len,
    spilled

vars == <<inline, len, spilled>>

Init ==
    /\ inline = [place \in 1 .. INLINE |-> Zero]
    /\ len = 0
    /\ spilled = <<>>

\* Faulty: the array is left behind.
SpilledOnly(input) == Append(spilled, input)

\* The vector once `input` no longer fits the array.
Spilled(input) ==
    Append(IF len = INLINE THEN spilled \o inline ELSE spilled, input)

Push(input) ==
    /\ len < MaxOperands
    /\ \/ /\ len < INLINE
          /\ inline' = [inline EXCEPT ![len + 1] = input]
          /\ UNCHANGED spilled
       \/ /\ len >= INLINE
          /\ spilled' = Spilled(input)
          /\ UNCHANGED inline
    /\ len' = len + 1

Next == \E input \in Operand : Push(input)

Spec == Init /\ [][Next]_vars

\* Faulty: a full array is taken to have spilled.
DerefFull == IF len < INLINE THEN SubSeq(inline, 1, len) ELSE spilled

\* What the emitter reads, and hands to the sink.
Deref == IF len <= INLINE THEN SubSeq(inline, 1, len) ELSE spilled

----------------------------------------------------------------------------
(* Properties.                                                             *)

\* The vector is empty until the array overflows, and from then on holds
\* every input: it is never a part of them.
TypeOK ==
    /\ inline \in [1 .. INLINE -> Operand]
    /\ len \in Nat
    /\ spilled \in Seq(Operand)
    /\ Len(spilled) = IF len <= INLINE THEN 0 ELSE len

List == INSTANCE OperandList WITH operands <- Deref

\* Read through `deref`, the buffer is a list to which each push adds its
\* input, also across the push that moves the array to the vector.
IsOperandList == List!ListSpec
============================================================================
