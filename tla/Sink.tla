-------------------------------- MODULE Sink --------------------------------
(***************************************************************************)
(* What a sink was told (instruction.rs, trait `PcodeSink`): one event for *)
(* each operation, label and local branch.  An operation has an output,    *)
(* None for one without, and inputs; a local branch has its condition or   *)
(* nothing for operands.                                                   *)
(***************************************************************************)
EXTENDS Pcode, Integers, Functions

VARIABLE stream     \* history: the events, in the order reported

\* What an event writes, or None, and what it reads.
WrittenBy(e) == IF e.event = "op" THEN e.output ELSE None

ReadBy(e) ==
    CASE e.event = "op"     -> Range(e.inputs)
      [] e.event = "branch" -> Range(e.condition)
      [] e.event = "label"  -> {}
============================================================================
