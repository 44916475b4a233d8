--------------------------- MODULE SizeInference ---------------------------
(***************************************************************************)
(* Width inference (instruction.rs, `SizeInference::run`): passes over the *)
(* statements constrain the locals by their uses until a pass finds no new *)
(* width, or one more pass than there are statements was made.             *)
(*                                                                         *)
(* What a statement tells about the widths of its locals is in             *)
(* Constraints, and a parameter here: the loop is correct whatever the     *)
(* rules are, as long as they only add widths (RulesAssumption).           *)
(***************************************************************************)
EXTENDS LoweringContext, FiniteSets

CONSTANTS
    Statement,      \* the statements there are
    Programs,       \* the bodies inferred: sequences of statements
    Knowns,         \* what may be known of the locals: a width or None for each
    Fed(_, _),      \* the widths known after a statement is fed
    LocalsIn(_)     \* the locals a statement names

VARIABLES
    statements, \* the body
    sizes,      \* local -> width, or None
    progressed, \* was a width found in this pass?
    pos,        \* the statement the pass feeds next
    pass,       \* the pass being made, from 1
    done        \* has `run` returned?

inferVars == <<sizes, progressed, pos, pass, done>>
vars == <<statements, inferVars>>

NoSizes == [id \in Local |-> None]

ASSUME LocalsAssumption == IsFiniteSet(Local)

ASSUME BodiesAssumption == \A body \in Programs : body \in Seq(Statement)

\* At first nothing is known.  A statement adds widths of locals it names, and
\* changes none: `found` records a width only for a local that has none.
ASSUME RulesAssumption ==
    /\ NoSizes \in Knowns
    /\ \A known \in Knowns : known = [id \in Local |-> known[id]]
    /\ {Fed(known, st) : known \in Knowns, st \in Statement} \subseteq Knowns
    /\ \A known \in Knowns, st \in Statement : \A id \in Local :
          Fed(known, st)[id] # known[id] => known[id] = None /\ id \in LocalsIn(st)
    /\ \A st \in Statement : LocalsIn(st) \subseteq Local

----------------------------------------------------------------------------
(* `run`: the loop over passes and statements.                             *)

Start(body) ==
    /\ statements = body
    /\ sizes = NoSizes
    /\ progressed = FALSE
    /\ pos = 1
    /\ pass = 1
    /\ done = FALSE

Init == \E body \in Programs : Start(body)

\* Faulty: each statement decides anew whether the pass progressed.
FeedForgetfully ==
    /\ ~done
    /\ pos <= Len(statements)
    /\ sizes' = Fed(sizes, statements[pos])
    /\ progressed' = (sizes' # sizes)
    /\ pos' = pos + 1
    /\ UNCHANGED <<statements, pass, done>>

\* Faulty: a width known before counts as progress.
FeedOptimistically ==
    /\ ~done
    /\ pos <= Len(statements)
    /\ sizes' = Fed(sizes, statements[pos])
    /\ progressed' = (progressed \/ sizes' # NoSizes)
    /\ pos' = pos + 1
    /\ UNCHANGED <<statements, pass, done>>

\* Faulty: a statement is fed until it sizes something.
FeedUntilSized ==
    /\ ~done
    /\ pos <= Len(statements)
    /\ sizes' = Fed(sizes, statements[pos])
    /\ progressed' = (progressed \/ sizes' # sizes)
    /\ pos' = IF sizes' # sizes THEN pos + 1 ELSE pos
    /\ UNCHANGED <<statements, pass, done>>

FeedStatement ==
    /\ ~done
    /\ pos <= Len(statements)
    /\ sizes' = Fed(sizes, statements[pos])
    /\ progressed' = (progressed \/ sizes' # sizes)
    /\ pos' = pos + 1
    /\ UNCHANGED <<statements, pass, done>>

\* Faulty: one extra pass, however many locals depend on each other.
SecondPass == ~progressed \/ pass > 1

\* Faulty: the limit counts one pass too many.
LastPassLate == ~progressed \/ pass > Len(statements) + 1

\* This pass found nothing new, or it was the last one allowed.
LastPass == ~progressed \/ pass > Len(statements)

\* Faulty: progress is not forgotten between passes.
NextPassUnreset ==
    /\ ~done
    /\ pos > Len(statements)
    /\ ~LastPass
    /\ pos' = 1
    /\ pass' = pass + 1
    /\ UNCHANGED <<statements, sizes, progressed, done>>

\* Faulty: each pass starts from nothing.
NextPassAfresh ==
    /\ ~done
    /\ pos > Len(statements)
    /\ ~LastPass
    /\ sizes' = NoSizes
    /\ progressed' = FALSE
    /\ pos' = 1
    /\ pass' = pass + 1
    /\ UNCHANGED <<statements, done>>

NextPass ==
    /\ ~done
    /\ pos > Len(statements)
    /\ ~LastPass
    /\ progressed' = FALSE
    /\ pos' = 1
    /\ pass' = pass + 1
    /\ UNCHANGED <<statements, sizes, done>>

Finish ==
    /\ ~done
    /\ pos > Len(statements)
    /\ LastPass
    /\ progressed' = FALSE
    /\ done' = TRUE
    /\ UNCHANGED <<statements, sizes, pos, pass>>

Next == FeedStatement \/ NextPass \/ Finish

Spec == Init /\ [][Next]_vars

----------------------------------------------------------------------------
\* The locals the body uses (`live_locals`), and those that have a width.
LiveLocals == UNION {LocalsIn(statements[k]) : k \in DOMAIN statements}

SizedLocals == {id \in Local : sizes[id] # None}

----------------------------------------------------------------------------
(* Properties.                                                             *)

TypeOK ==
    /\ SizedLocals \subseteq LiveLocals
    /\ progressed \in BOOLEAN /\ done \in BOOLEAN
    /\ pos \in 1 .. Len(statements) + 1
    /\ pass \in 1 .. Len(statements) + 1

\* The first use that sizes a local decides: no later statement, and no later
\* pass, widens, narrows or forgets a width.
FirstUseWins ==
    [][ \A id \in Local : sizes[id] # None => sizes'[id] = sizes[id] ]_vars

\* Each pass before the one being made found a local of its own, so there are
\* never more passes than locals and one.
PassesFindLocals == pass <= 1 + Cardinality(SizedLocals)

Loop == INSTANCE PassSequence
    WITH widths <- [id \in SizedLocals |-> sizes[id]],
         limit <- Len(statements), returned <- done

\* The loop over passes and statements implements the abstract one: statements
\* only add widths, a pass is made exactly after one that added some, and the
\* loop returns when a pass adds nothing or the limit is reached.
LoopIsPassSequence == Loop!PassSpec

IsFixedPoint == \A k \in DOMAIN statements : Fed(sizes, statements[k]) = sizes

LocalsFit == Cardinality(LiveLocals) <= Len(statements)

\* The widths found satisfy every statement: feeding the body again, from any
\* of them on, finds nothing.  This holds when the body has no more locals
\* than statements, which the bound on the passes is made for.
FixedPointWhenLocalsFit == done /\ LocalsFit => IsFixedPoint

\* "Infers the widths of `statements` to a fixed point", for every body.
InfersFixedPoint == done => IsFixedPoint
====
