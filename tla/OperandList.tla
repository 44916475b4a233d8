---------------------------- MODULE OperandList ----------------------------
(***************************************************************************)
(* What an operand buffer promises the functions that fill it: the inputs  *)
(* of an operation, in the order in which they were lowered.               *)
(***************************************************************************)
EXTENDS Naturals, Sequences

CONSTANTS
    Operand,
    MaxOperands   \* bound: inputs of one operation

VARIABLE operands

ListInit == operands = <<>>

ListPush(input) ==
    /\ Len(operands) < MaxOperands
    /\ operands' = Append(operands, input)

ListSpec == ListInit /\ [][\E input \in Operand : ListPush(input)]_operands
============================================================================
