--------------------------- MODULE InferenceProofs ---------------------------
(***************************************************************************)
(* The loop of width inference, for any statements, any finite set of      *)
(* locals and any rules that only add widths (RulesAssumption).            *)
(***************************************************************************)
EXTENDS SizeInference, FiniteSetTheorems, TLAPS

Credit == IF progressed THEN 1 ELSE 0

\* A pass that made progress has paid for the next one.
PassesPaid == pass + Credit <= 1 + Cardinality(SizedLocals)

\* A pass without progress so far has found every statement it fed satisfied.
QuietSoFar ==
    ~done /\ ~progressed =>
       \A k \in 1 .. pos - 1 : Fed(sizes, statements[k]) = sizes

InferInv ==
    /\ TypeOK
    /\ statements \in Programs /\ sizes \in Knowns
    /\ PassesPaid
    /\ QuietSoFar
    /\ FixedPointWhenLocalsFit

----------------------------------------------------------------------------
(* Bodies and their locals.                                                *)

LEMMA BodyShape ==
  ASSUME NEW body \in Programs
  PROVE  /\ Len(body) \in Nat /\ DOMAIN body = 1 .. Len(body)
         /\ \A k \in 1 .. Len(body) : body[k] \in Statement
<1>1. body \in Seq(Statement)
  BY BodiesAssumption
<1> QED
  BY <1>1

LEMMA FedAdds ==
  ASSUME NEW known \in Knowns, NEW st \in Statement
  PROVE  /\ Fed(known, st) \in Knowns
         /\ \A id \in Local :
               Fed(known, st)[id] # known[id] => known[id] = None /\ id \in LocalsIn(st)
<1>1. {Fed(k, s) : k \in Knowns, s \in Statement} \subseteq Knowns
  BY RulesAssumption
<1> QED
  BY <1>1, RulesAssumption

\* Widths that differ differ at a local.
LEMMA KnownsDiffer ==
  ASSUME NEW one \in Knowns, NEW other \in Knowns,
         \A id \in Local : one[id] = other[id]
  PROVE  one = other
<1>1. one = [id \in Local |-> one[id]] /\ other = [id \in Local |-> other[id]]
  BY RulesAssumption
<1> QED
  BY <1>1

LEMMA LiveIsFinite ==
  ASSUME InferInv
  PROVE  /\ IsFiniteSet(LiveLocals) /\ IsFiniteSet(SizedLocals)
         /\ Cardinality(LiveLocals) \in Nat /\ Cardinality(SizedLocals) \in Nat
         /\ Cardinality(SizedLocals) <= Cardinality(LiveLocals)
<1>1. LiveLocals \subseteq Local
  <2>1. \A k \in DOMAIN statements : statements[k] \in Statement
    BY BodyShape DEF InferInv
  <2> QED
    BY <2>1, RulesAssumption DEF LiveLocals
<1>2. SizedLocals \subseteq LiveLocals
  BY DEF InferInv, TypeOK
<1>3. IsFiniteSet(LiveLocals)
  BY <1>1, LocalsAssumption, FS_Subset
<1>4. IsFiniteSet(SizedLocals) /\ Cardinality(SizedLocals) <= Cardinality(LiveLocals)
  BY <1>2, <1>3, FS_Subset
<1> QED
  BY <1>3, <1>4, FS_CardinalityType

----------------------------------------------------------------------------
(* Feeding one statement.                                                  *)

\* A statement adds widths of locals of the body, or changes nothing.
LEMMA FeedAdds ==
  ASSUME InferInv, FeedStatement
  PROVE  /\ sizes' \in Knowns /\ statements' = statements /\ LiveLocals' = LiveLocals
         /\ SizedLocals \subseteq SizedLocals' /\ SizedLocals' \subseteq LiveLocals
         /\ \A id \in SizedLocals : sizes'[id] = sizes[id]
         /\ sizes' # sizes => SizedLocals' # SizedLocals
<1> DEFINE st == statements[pos]
<1>1. pos \in DOMAIN statements /\ st \in Statement
  BY BodyShape DEF InferInv, TypeOK, FeedStatement
<1>2. sizes \in Knowns /\ sizes' = Fed(sizes, st) /\ statements' = statements
  BY DEF InferInv, FeedStatement
<1>3. /\ sizes' \in Knowns
      /\ \A id \in Local : sizes'[id] # sizes[id] => sizes[id] = None /\ id \in LocalsIn(st)
  BY <1>1, <1>2, FedAdds
<1>4. LiveLocals' = LiveLocals
  BY <1>2 DEF LiveLocals
<1>5. LocalsIn(st) \subseteq LiveLocals
  BY <1>1 DEF LiveLocals
<1>6. \A id \in SizedLocals : sizes'[id] = sizes[id]
  BY <1>3 DEF SizedLocals
<1>7. SizedLocals \subseteq SizedLocals'
  BY <1>6 DEF SizedLocals
<1>8. SizedLocals' \subseteq LiveLocals
  <2> SUFFICES ASSUME NEW id \in Local, sizes'[id] # None
               PROVE  id \in LiveLocals
    BY DEF SizedLocals
  <2>1. CASE sizes'[id] = sizes[id]
    BY <2>1 DEF SizedLocals, InferInv, TypeOK
  <2>2. CASE sizes'[id] # sizes[id]
    BY <2>2, <1>3, <1>5
  <2> QED
    BY <2>1, <2>2
<1>9. ASSUME sizes' # sizes PROVE SizedLocals' # SizedLocals
  <2>1. PICK id \in Local : sizes'[id] # sizes[id]
    BY <1>2, <1>3, <1>9, KnownsDiffer
  <2>2. sizes[id] = None
    BY <1>3, <2>1
  <2> QED
    BY <2>1, <2>2 DEF SizedLocals
<1> QED
  BY <1>2, <1>3, <1>4, <1>6, <1>7, <1>8, <1>9

\* A statement that adds a width pays for the next pass.
LEMMA FeedPays ==
  ASSUME InferInv, FeedStatement
  PROVE  PassesPaid'
<1>1. IsFiniteSet(LiveLocals) /\ Cardinality(SizedLocals) \in Nat
  BY LiveIsFinite
<1>2. /\ SizedLocals \subseteq SizedLocals' /\ SizedLocals' \subseteq LiveLocals
      /\ sizes' # sizes => SizedLocals' # SizedLocals
  BY FeedAdds
<1>3. IsFiniteSet(SizedLocals') /\ Cardinality(SizedLocals') \in Nat
  BY <1>1, <1>2, FS_Subset, FS_CardinalityType
<1>4. /\ Cardinality(SizedLocals) <= Cardinality(SizedLocals')
      /\ SizedLocals' # SizedLocals => Cardinality(SizedLocals) # Cardinality(SizedLocals')
  BY <1>2, <1>3, FS_Subset
<1>5. /\ pass \in Nat /\ progressed \in BOOLEAN
      /\ pass + Credit <= 1 + Cardinality(SizedLocals)
  BY DEF InferInv, TypeOK, PassesPaid
<1>6. pass' = pass /\ progressed' = (progressed \/ sizes' # sizes)
  BY DEF FeedStatement
<1>7. CASE sizes' # sizes
  <2>1. Cardinality(SizedLocals) < Cardinality(SizedLocals')
    BY <1>1, <1>2, <1>3, <1>4, <1>7
  <2>2. pass <= 1 + Cardinality(SizedLocals)
    BY <1>1, <1>5 DEF Credit
  <2>3. Credit' = 1
    BY <1>6, <1>7 DEF Credit
  <2> QED
    BY <1>1, <1>3, <1>5, <1>6, <2>1, <2>2, <2>3 DEF PassesPaid
<1>8. CASE sizes' = sizes
  <2>1. Credit' = Credit
    BY <1>5, <1>6, <1>8 DEF Credit
  <2>2. SizedLocals' = SizedLocals
    BY <1>8 DEF SizedLocals
  <2> QED
    BY <1>5, <1>6, <2>1, <2>2 DEF PassesPaid
<1> QED
  BY <1>7, <1>8

LEMMA FeedKeepsInv ==
  ASSUME InferInv, FeedStatement
  PROVE  InferInv'
<1>1. /\ sizes' \in Knowns /\ statements' = statements /\ LiveLocals' = LiveLocals
      /\ SizedLocals' \subseteq LiveLocals
  BY FeedAdds
<1>2. Len(statements) \in Nat
  BY BodyShape DEF InferInv
<1>3. TypeOK'
  BY <1>1, <1>2 DEF InferInv, TypeOK, FeedStatement
<1>4. PassesPaid'
  BY FeedPays
<1>5. QuietSoFar'
  <2> SUFFICES ASSUME ~progressed', NEW k \in 1 .. pos' - 1
               PROVE  Fed(sizes', statements'[k]) = sizes'
    BY DEF QuietSoFar
  <2>1. /\ ~progressed /\ sizes' = sizes
        /\ pos' = pos + 1 /\ ~done /\ pos \in Nat
    <3>1. ~(progressed \/ sizes' # sizes)
      BY Zenon DEF FeedStatement
    <3>2. pos' = pos + 1 /\ ~done /\ pos \in Nat
      BY DEF FeedStatement, InferInv, TypeOK
    <3> QED
      BY <3>1, <3>2
  <2>2. CASE k = pos
    BY <1>1, <2>1, <2>2 DEF FeedStatement
  <2>3. CASE k # pos
    <3>1. k \in 1 .. pos - 1
      BY <2>1, <2>3
    <3> QED
      BY <1>1, <2>1, <3>1 DEF InferInv, QuietSoFar
  <2> QED
    BY <2>2, <2>3
<1>6. FixedPointWhenLocalsFit'
  BY DEF FeedStatement, FixedPointWhenLocalsFit
<1> QED
  BY <1>1, <1>3, <1>4, <1>5, <1>6 DEF InferInv

----------------------------------------------------------------------------
(* The ends of a pass.                                                     *)

LEMMA NextPassKeepsInv ==
  ASSUME InferInv, NextPass
  PROVE  InferInv'
<1>1. /\ sizes' = sizes /\ statements' = statements /\ done' = done /\ ~done
      /\ progressed /\ progressed' = FALSE /\ pos' = 1 /\ pass' = pass + 1
      /\ ~(pass > Len(statements))
  BY DEF NextPass, LastPass
<1>2. Len(statements) \in Nat
  BY BodyShape DEF InferInv
<1>3. TypeOK'
  <2>1. progressed' \in BOOLEAN /\ done' \in BOOLEAN
    BY <1>1, Zenon DEF InferInv, TypeOK
  <2>2. pos' \in 1 .. Len(statements') + 1 /\ pass' \in 1 .. Len(statements') + 1
    BY <1>1, <1>2 DEF InferInv, TypeOK
  <2>3. SizedLocals' = SizedLocals /\ LiveLocals' = LiveLocals
    BY <1>1 DEF SizedLocals, LiveLocals
  <2> QED
    BY <2>1, <2>2, <2>3 DEF InferInv, TypeOK
<1>4. PassesPaid'
  <2>1. Credit = 1 /\ Credit' = 0
    BY <1>1 DEF Credit
  <2>2. SizedLocals' = SizedLocals
    BY <1>1 DEF SizedLocals
  <2>3. pass \in Nat
    BY DEF InferInv, TypeOK
  <2> QED
    BY <1>1, <2>1, <2>2, <2>3, LiveIsFinite DEF InferInv, PassesPaid
<1>5. QuietSoFar'
  BY <1>1 DEF QuietSoFar
<1>6. FixedPointWhenLocalsFit'
  BY <1>1 DEF FixedPointWhenLocalsFit
<1> QED
  BY <1>1, <1>3, <1>4, <1>5, <1>6 DEF InferInv

\* The last pass the limit allows makes no progress when the locals fit: every
\* pass before it, and this one, would have sized a local of its own, one more
\* than there are.
LEMMA LastPassIsQuiet ==
  ASSUME InferInv, LocalsFit, pass > Len(statements)
  PROVE  ~progressed
<1> SUFFICES ASSUME progressed PROVE FALSE
  OBVIOUS
<1>1. pass + 1 <= 1 + Cardinality(SizedLocals)
  BY DEF InferInv, PassesPaid, Credit
<1>2. Len(statements) \in Nat /\ pass \in Nat
  BY BodyShape DEF InferInv, TypeOK
<1> QED
  BY <1>1, <1>2, LiveIsFinite DEF LocalsFit

LEMMA FinishKeepsInv ==
  ASSUME InferInv, Finish
  PROVE  InferInv'
<1>1. /\ sizes' = sizes /\ statements' = statements /\ pos' = pos /\ pass' = pass
      /\ progressed' = FALSE /\ done' = TRUE /\ ~done
      /\ pos > Len(statements) /\ LastPass
  BY DEF Finish
<1>2. Len(statements) \in Nat /\ DOMAIN statements = 1 .. Len(statements)
  BY BodyShape DEF InferInv
<1>3. TypeOK'
  BY <1>1 DEF InferInv, TypeOK, SizedLocals, LiveLocals
<1>4. PassesPaid'
  <2>1. Credit \in {0, 1} /\ Credit' = 0
    BY <1>1 DEF Credit
  <2>2. SizedLocals' = SizedLocals
    BY <1>1 DEF SizedLocals
  <2>3. pass \in Nat
    BY DEF InferInv, TypeOK
  <2> QED
    BY <1>1, <2>1, <2>2, <2>3, LiveIsFinite DEF InferInv, PassesPaid
<1>5. QuietSoFar'
  BY <1>1 DEF QuietSoFar
<1>6. FixedPointWhenLocalsFit'
  <2> SUFFICES ASSUME LocalsFit', NEW k \in DOMAIN statements
               PROVE  Fed(sizes, statements[k]) = sizes
    BY <1>1 DEF FixedPointWhenLocalsFit, IsFixedPoint
  <2>1. LocalsFit
    BY <1>1 DEF LocalsFit, LiveLocals
  <2>2. ~progressed
    BY <1>1, <2>1, LastPassIsQuiet DEF LastPass
  <2>3. k \in 1 .. pos - 1
    BY <1>1, <1>2 DEF InferInv, TypeOK
  <2> QED
    BY <1>1, <2>2, <2>3 DEF InferInv, QuietSoFar
<1> QED
  BY <1>1, <1>3, <1>4, <1>5, <1>6 DEF InferInv

----------------------------------------------------------------------------

LEMMA InitHasInv == Init => InferInv
<1> SUFFICES ASSUME NEW body \in Programs, Start(body) PROVE InferInv
  BY DEF Init
<1>1. /\ statements = body /\ sizes = NoSizes /\ progressed = FALSE
      /\ pos = 1 /\ pass = 1 /\ done = FALSE
  BY DEF Start
<1>2. Len(statements) \in Nat
  BY <1>1, BodyShape
<1>3. SizedLocals = {}
  BY <1>1 DEF SizedLocals, NoSizes
<1>4. TypeOK
  <2>1. progressed \in BOOLEAN /\ done \in BOOLEAN
    BY <1>1, Zenon
  <2>2. pos \in 1 .. Len(statements) + 1 /\ pass \in 1 .. Len(statements) + 1
    BY <1>1, <1>2
  <2> QED
    BY <1>3, <2>1, <2>2 DEF TypeOK
<1>5. PassesPaid
  BY <1>1, <1>3, FS_EmptySet DEF PassesPaid, Credit
<1>6. QuietSoFar
  BY <1>1 DEF QuietSoFar
<1>7. FixedPointWhenLocalsFit
  BY <1>1 DEF FixedPointWhenLocalsFit
<1> QED
  BY <1>1, <1>4, <1>5, <1>6, <1>7, RulesAssumption DEF InferInv

LEMMA NextKeepsInv ==
  ASSUME InferInv, [Next]_vars
  PROVE  InferInv'
<1>1. CASE FeedStatement
  BY <1>1, FeedKeepsInv
<1>2. CASE NextPass
  BY <1>2, NextPassKeepsInv
<1>3. CASE Finish
  BY <1>3, FinishKeepsInv
<1>4. CASE UNCHANGED vars
  BY <1>4 DEF vars, inferVars, InferInv, TypeOK, PassesPaid, Credit, QuietSoFar,
       FixedPointWhenLocalsFit, IsFixedPoint, LocalsFit, LiveLocals, SizedLocals
<1> QED
  BY <1>1, <1>2, <1>3, <1>4 DEF Next

\* The inductive invariant of inference.
THEOREM InferenceInvariant == Spec => []InferInv
<1>1. InferInv /\ [Next]_vars => InferInv'
  BY NextKeepsInv
<1> QED
  BY <1>1, InitHasInv, PTL DEF Spec

\* Only locals of the body get widths, and no more passes are made than the
\* limit allows (`SizeInference::run`).
THEOREM InferenceTyped == Spec => []TypeOK
<1>1. InferInv => TypeOK
  BY DEF InferInv
<1> QED
  BY <1>1, InferenceInvariant, PTL

\* Each pass but the one being made found a local, so inference makes at most
\* one pass more than there are locals, whatever the body.
THEOREM PassesAreNotInVain == Spec => []PassesFindLocals
<1>1. InferInv => PassesFindLocals
  <2> SUFFICES ASSUME InferInv PROVE PassesFindLocals
    OBVIOUS
  <2>1. Credit \in {0, 1} /\ pass \in Nat
    BY DEF InferInv, TypeOK, Credit
  <2> QED
    BY <2>1, LiveIsFinite DEF InferInv, PassesPaid, PassesFindLocals
<1> QED
  BY <1>1, InferenceInvariant, PTL

\* When a body has no more locals than statements, what inference returns
\* satisfies all of its statements: the bound on the passes never cuts it short.
THEOREM ReturnsFixedPoint == Spec => []FixedPointWhenLocalsFit
<1>1. InferInv => FixedPointWhenLocalsFit
  BY DEF InferInv
<1> QED
  BY <1>1, InferenceInvariant, PTL

\* A width is final from the first use that decides it, over statements and
\* passes.
THEOREM FirstUseIsFinal == Spec => FirstUseWins
<1>1. InferInv /\ [Next]_vars =>
        [\A id \in Local : sizes[id] # None => sizes'[id] = sizes[id]]_vars
  <2> SUFFICES ASSUME InferInv, Next
               PROVE  \A id \in Local : sizes[id] # None => sizes'[id] = sizes[id]
    OBVIOUS
  <2>1. CASE FeedStatement
    BY <2>1, FeedAdds DEF SizedLocals
  <2>2. CASE NextPass \/ Finish
    BY <2>2 DEF NextPass, Finish
  <2> QED
    BY <2>1, <2>2 DEF Next
<1> QED
  BY <1>1, InferenceInvariant, PTL DEF Spec, FirstUseWins

----------------------------------------------------------------------------
(* The loop implements the abstract one.                                   *)

LEMMA InitIsPassInit ==
  ASSUME Init
  PROVE  Loop!PassInit
<1>1. PICK body \in Programs : Start(body)
  BY DEF Init
<1>2. SizedLocals = {}
  BY <1>1 DEF SizedLocals, Start, NoSizes
<1>3. [id \in SizedLocals |-> sizes[id]] = <<>>
  BY <1>2
<1> QED
  BY <1>1, <1>3, BodyShape DEF Loop!PassInit, Start

LEMMA StepIsPassStep ==
  ASSUME InferInv, [Next]_vars
  PROVE  [Loop!PassNext]_(Loop!passVars)
<1>1. CASE FeedStatement /\ sizes' # sizes
  <2>1. /\ SizedLocals \subseteq SizedLocals' /\ SizedLocals' # SizedLocals
        /\ SizedLocals' \subseteq Local
        /\ \A id \in SizedLocals : sizes'[id] = sizes[id]
    BY <1>1, FeedAdds DEF SizedLocals
  <2>2. ~done /\ progressed' = TRUE
    BY <1>1 DEF FeedStatement
  <2>3. UNCHANGED <<pass, Len(statements), done>>
    BY <1>1 DEF FeedStatement
  <2>4. Loop!AddWidths
    BY <2>1, <2>2, <2>3 DEF Loop!AddWidths, Loop!Extends
  <2> QED
    BY <2>4 DEF Loop!PassNext
<1>2. CASE FeedStatement /\ sizes' = sizes
  <2>1. progressed' = progressed
    BY <1>2 DEF FeedStatement, InferInv, TypeOK
  <2>2. SizedLocals' = SizedLocals
    BY <1>2 DEF SizedLocals
  <2> QED
    BY <1>2, <2>1, <2>2 DEF FeedStatement, Loop!passVars
<1>3. CASE NextPass
  <2>1. Len(statements) \in Nat /\ pass \in Nat
    BY BodyShape DEF InferInv, TypeOK
  <2>2. SizedLocals' = SizedLocals
    BY <1>3 DEF NextPass, SizedLocals
  <2>3. Loop!NextPass
    BY <1>3, <2>1, <2>2 DEF NextPass, LastPass, Loop!NextPass
  <2> QED
    BY <2>3 DEF Loop!PassNext
<1>4. CASE Finish
  <2>1. SizedLocals' = SizedLocals
    BY <1>4 DEF Finish, SizedLocals
  <2>2. Loop!Return
    BY <1>4, <2>1 DEF Finish, LastPass, Loop!Return
  <2> QED
    BY <2>2 DEF Loop!PassNext
<1>5. CASE UNCHANGED vars
  <2>1. SizedLocals' = SizedLocals
    BY <1>5 DEF vars, inferVars, SizedLocals
  <2> QED
    BY <1>5, <2>1 DEF vars, inferVars, Loop!passVars
<1> QED
  BY <1>1, <1>2, <1>3, <1>4, <1>5 DEF Next

\* The loop over passes and statements implements PassSequence: what is proved
\* of passes that only add widths holds of it.
THEOREM LoopImplementsPasses == Spec => LoopIsPassSequence
<1>1. Init => Loop!PassInit
  BY InitIsPassInit
<1>2. InferInv /\ [Next]_vars => [Loop!PassNext]_(Loop!passVars)
  BY StepIsPassStep
<1> QED
  BY <1>1, <1>2, InferenceInvariant, PTL DEF Spec, LoopIsPassSequence, Loop!PassSpec
=============================================================================
