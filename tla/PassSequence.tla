---------------------------- MODULE PassSequence ----------------------------
(***************************************************************************)
(* What the loop of width inference promises (instruction.rs,              *)
(* `SizeInference::run`), whatever the statements are: passes that only    *)
(* add widths, a further pass exactly after one that added some, and a     *)
(* limit on the passes.                                                    *)
(***************************************************************************)
EXTENDS Naturals, FiniteSets

CONSTANT Local

VARIABLES
    widths,     \* local -> its width, for the locals that have one
    progressed, \* did this pass add a width?
    pass,       \* the pass being made, from 1
    limit,      \* the passes that may follow the first
    returned    \* has the loop ended?

passVars == <<widths, progressed, pass, limit, returned>>

PassInit ==
    /\ widths = <<>>
    /\ progressed = FALSE
    /\ pass = 1
    /\ limit \in Nat
    /\ returned = FALSE

\* What is known stays known, at the same width.
Extends(new, old) ==
    /\ DOMAIN old \subseteq DOMAIN new /\ DOMAIN new \subseteq Local
    /\ \A id \in DOMAIN old : new[id] = old[id]

\* A statement adds the width of one local or of several.
AddWidths ==
    /\ ~returned
    /\ Extends(widths', widths)
    /\ DOMAIN widths' # DOMAIN widths
    /\ progressed' = TRUE
    /\ UNCHANGED <<pass, limit, returned>>

NextPass ==
    /\ ~returned
    /\ progressed
    /\ pass <= limit
    /\ progressed' = FALSE
    /\ pass' = pass + 1
    /\ UNCHANGED <<widths, limit, returned>>

Return ==
    /\ ~returned
    /\ progressed => pass > limit
    /\ progressed' = FALSE
    /\ returned' = TRUE
    /\ UNCHANGED <<widths, pass, limit>>

PassNext == AddWidths \/ NextPass \/ Return

PassSpec == PassInit /\ [][PassNext]_passVars

----------------------------------------------------------------------------
(* Properties.                                                             *)

PassTypeOK ==
    /\ DOMAIN widths \subseteq Local
    /\ progressed \in BOOLEAN /\ returned \in BOOLEAN
    /\ pass \in 1 .. limit + 1 /\ limit \in Nat

\* Each pass before this one sized a local, and so did this one if it made
\* progress, so there are never more passes than locals and one.
PassesPaid == pass + (IF progressed THEN 1 ELSE 0) <= Cardinality(DOMAIN widths) + 1

\* When the limit is no smaller than the number of locals it never cuts
\* inference short: the last pass allowed finds nothing.
LastPassIsQuiet ==
    Cardinality(Local) <= limit => (pass > limit => ~progressed)

\* A width, once found, is final.
WidthsStay ==
    [][ \A id \in DOMAIN widths : id \in DOMAIN widths' /\ widths'[id] = widths[id] ]_passVars
============================================================================
