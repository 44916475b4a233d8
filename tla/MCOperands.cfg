CONSTANTS
    Operand = {a, b, zero}
    Zero = zero
    INLINE = 3
    MaxOperands = 6
SPECIFICATION Spec
INVARIANT TypeOK
PROPERTY IsOperandList
\* The inputs of an operation come to an end.
CHECK_DEADLOCK FALSE
