---------------------------- MODULE MCCollector ----------------------------
(* A small instance of Collector: one plain operation, two labels, every   *)
(* kind of local branch the emitter reports, and streams of up to five     *)
(* events, so that branches go forward, backward, to themselves and past   *)
(* the end, and labels share a position.                                   *)
EXTENDS Collector

r == Varnode("register", 0, 1)

MCEvents ==
    {OpEvent("Copy", r, <<Constant(1, 1)>>)}
      \cup {LabelEvent(label) : label \in Label}
      \cup {BranchEvent("Branch", label, <<>>) : label \in Label}
      \cup {BranchEvent("CBranch", label, <<r>>) : label \in Label}
============================================================================
