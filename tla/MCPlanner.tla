----------------------------- MODULE MCPlanner -----------------------------
(* A small instance of Planner: two label names, two literal addresses and *)
(* up to four statements, enough for a label to become terminal, lose the  *)
(* flag and be defined again, and for an address to be branched to and     *)
(* called.  Names and addresses are interchangeable.                       *)
EXTENDS Planner, TLC

Symmetry == Permutations(Label) \cup Permutations(Address)
============================================================================
