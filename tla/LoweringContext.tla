-------------------------- MODULE LoweringContext --------------------------
(***************************************************************************)
(* What a producer tells the passes about its machine (instruction.rs,     *)
(* trait `PcodeLoweringContext`): where registers and named bit ranges     *)
(* live, how wide addresses are, and which spaces are the default and the  *)
(* unique one.                                                             *)
(*                                                                         *)
(* The code's byte is ByteBits = 8 bits and its literals and masks are     *)
(* words of WordBytes = 8 bytes.  An instance may shrink both.             *)
(***************************************************************************)
EXTENDS Pcode

CONSTANTS
    ByteBits,
    WordBytes,
    Local,        \* the identifiers of local variables
    Registers,    \* register id -> varnode, for the registers that exist
    BitRanges,    \* bit-range id -> [storage, start, bits]
    AddressSizes, \* space -> bytes of its addresses, where it has them
    SpaceNumbers, \* space -> the number its SpaceId holds
    DefaultSpace, \* the space of an access that names none
    UniqueSpace   \* the space of locals and temporaries

ASSUME WidthsAssumption == ByteBits \in Nat \ {0} /\ WordBytes \in Nat \ {0}
ASSUME SpaceAssumption == MaxWord \in Nat

WordBits == WordBytes * ByteBits

\* checked_sub: absent below zero or when the operand is absent.
CheckedSub(a, b) == IF a = None THEN None ELSE IF a < b THEN None ELSE a - b

\* The bytes that hold a number of bits, rounded up.
DivCeilByte(bits) ==
    IF bits = None THEN None ELSE (bits + ByteBits - 1) \div ByteBits

\* What the context answers; None where the code's Option is.
RegisterVarnode(id) == IF id \in DOMAIN Registers THEN Registers[id] ELSE None
BitRangeInfo(id) == IF id \in DOMAIN BitRanges THEN BitRanges[id] ELSE None
AddressSize(space) ==
    IF space \in DOMAIN AddressSizes THEN AddressSizes[space] ELSE None
============================================================================
