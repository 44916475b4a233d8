----------------------------- MODULE PassProofs -----------------------------
(***************************************************************************)
(* The loop of width inference, for any finite set of locals, any          *)
(* statements and any limit on the passes.                                 *)
(***************************************************************************)
EXTENDS PassSequence, FiniteSetTheorems, TLAPS

PassInv == PassTypeOK /\ PassesPaid

\* A step that sizes a local pays for the pass after it.
LEMMA AddWidthsKeepsInv ==
  ASSUME IsFiniteSet(Local), PassInv, AddWidths
  PROVE  PassInv'
<1>1. /\ DOMAIN widths' \subseteq Local /\ DOMAIN widths \subseteq DOMAIN widths'
      /\ DOMAIN widths' # DOMAIN widths
  BY DEF AddWidths, Extends
<1>2. IsFiniteSet(DOMAIN widths') /\ IsFiniteSet(DOMAIN widths)
  BY <1>1, FS_Subset
<1>3. /\ Cardinality(DOMAIN widths) < Cardinality(DOMAIN widths')
      /\ Cardinality(DOMAIN widths) \in Nat /\ Cardinality(DOMAIN widths') \in Nat
  <2>1. Cardinality(DOMAIN widths) <= Cardinality(DOMAIN widths')
    BY <1>1, <1>2, FS_Subset
  <2>2. Cardinality(DOMAIN widths) # Cardinality(DOMAIN widths')
    BY <1>1, <1>2, FS_Subset
  <2>3. Cardinality(DOMAIN widths) \in Nat /\ Cardinality(DOMAIN widths') \in Nat
    BY <1>2, FS_CardinalityType
  <2> QED
    BY <2>1, <2>2, <2>3
<1>4. PassTypeOK'
  BY <1>1 DEF PassInv, PassTypeOK, AddWidths
<1>5. PassesPaid'
  <2>1. pass <= Cardinality(DOMAIN widths) + 1 /\ pass \in Nat
    BY <1>3 DEF PassInv, PassTypeOK, PassesPaid
  <2>2. pass' = pass /\ progressed' = TRUE
    BY DEF AddWidths
  <2> QED
    BY <1>3, <2>1, <2>2 DEF PassesPaid
<1> QED
  BY <1>4, <1>5 DEF PassInv

LEMMA PassNextKeepsInv ==
  ASSUME IsFiniteSet(Local), PassInv, [PassNext]_passVars
  PROVE  PassInv'
<1>1. CASE AddWidths
  BY <1>1, AddWidthsKeepsInv
<1>2. CASE NextPass
  <2>1. IsFiniteSet(DOMAIN widths)
    BY FS_Subset DEF PassInv, PassTypeOK
  <2>2. Cardinality(DOMAIN widths) \in Nat
    BY <2>1, FS_CardinalityType
  <2>3. progressed /\ progressed' = FALSE /\ pass' = pass + 1 /\ widths' = widths
    BY <1>2 DEF NextPass
  <2>4. PassesPaid'
    BY <2>2, <2>3 DEF PassInv, PassTypeOK, PassesPaid
  <2>5. pass' \in 1 .. limit' + 1 /\ limit' \in Nat
    BY <1>2 DEF NextPass, PassInv, PassTypeOK
  <2>6. /\ DOMAIN widths' \subseteq Local
        /\ progressed' \in BOOLEAN /\ returned' \in BOOLEAN
    BY <1>2, Zenon DEF NextPass, PassInv, PassTypeOK
  <2> QED
    BY <2>4, <2>5, <2>6 DEF PassInv, PassTypeOK
<1>3. CASE Return
  <2>1. IsFiniteSet(DOMAIN widths)
    BY FS_Subset DEF PassInv, PassTypeOK
  <2>2. Cardinality(DOMAIN widths) \in Nat
    BY <2>1, FS_CardinalityType
  <2>3. progressed' = FALSE /\ pass' = pass /\ widths' = widths
    BY <1>3 DEF Return
  <2>4. PassesPaid'
    BY <2>2, <2>3 DEF PassInv, PassTypeOK, PassesPaid
  <2>5. PassTypeOK'
    BY <1>3 DEF Return, PassInv, PassTypeOK
  <2> QED
    BY <2>4, <2>5 DEF PassInv
<1>4. CASE UNCHANGED passVars
  BY <1>4 DEF PassInv, PassTypeOK, PassesPaid, passVars
<1> QED
  BY <1>1, <1>2, <1>3, <1>4 DEF PassNext

LEMMA InitHasInv == PassInit => PassInv
<1> SUFFICES ASSUME PassInit PROVE PassInv
  OBVIOUS
<1>1. DOMAIN widths = {}
  BY DEF PassInit
<1>2. Cardinality(DOMAIN widths) = 0
  BY <1>1, FS_EmptySet
<1>3. pass \in 1 .. limit + 1 /\ limit \in Nat
  BY DEF PassInit
<1>4. /\ DOMAIN widths \subseteq Local
      /\ progressed \in BOOLEAN /\ returned \in BOOLEAN
  BY <1>1, Zenon DEF PassInit
<1>5. PassesPaid
  BY <1>2 DEF PassInit, PassesPaid
<1> QED
  BY <1>3, <1>4, <1>5 DEF PassInv, PassTypeOK

\* If the last pass allowed made progress, every pass sized a local, which
\* makes more locals than there are.
LEMMA InvMakesLastPassQuiet ==
  ASSUME IsFiniteSet(Local), PassInv
  PROVE  LastPassIsQuiet
<1> SUFFICES ASSUME Cardinality(Local) <= limit, pass > limit, progressed
             PROVE  FALSE
  BY DEF LastPassIsQuiet
<1>1. /\ Cardinality(DOMAIN widths) <= Cardinality(Local)
      /\ Cardinality(DOMAIN widths) \in Nat /\ Cardinality(Local) \in Nat
  <2>1. IsFiniteSet(DOMAIN widths) /\ Cardinality(DOMAIN widths) <= Cardinality(Local)
    BY FS_Subset DEF PassInv, PassTypeOK
  <2> QED
    BY <2>1, FS_CardinalityType
<1>2. pass + 1 <= Cardinality(DOMAIN widths) + 1
  BY DEF PassInv, PassesPaid
<1> QED
  BY <1>1, <1>2 DEF PassInv, PassTypeOK

\* Inference of any body makes at most one pass more than it has locals, so
\* the loop over passes ends (`SizeInference::run`).
THEOREM PassesAreBounded ==
  ASSUME IsFiniteSet(Local)
  PROVE  PassSpec => [](PassTypeOK /\ PassesPaid)
<1>1. PassInit => PassInv
  BY InitHasInv
<1>2. PassInv /\ [PassNext]_passVars => PassInv'
  BY PassNextKeepsInv
<1> QED
  BY <1>1, <1>2, PTL DEF PassSpec, PassInv

\* The limit, the number of statements, never ends inference early when the
\* body has no more locals than statements: the last pass then found nothing,
\* and another one would find nothing either.
THEOREM LimitSufficesForLocals ==
  ASSUME IsFiniteSet(Local)
  PROVE  PassSpec => []LastPassIsQuiet
<1>1. PassInit => PassInv
  BY InitHasInv
<1>2. PassInv /\ [PassNext]_passVars => PassInv'
  BY PassNextKeepsInv
<1>3. PassInv => LastPassIsQuiet
  BY InvMakesLastPassQuiet
<1> QED
  BY <1>1, <1>2, <1>3, PTL DEF PassSpec

\* The first use that sizes a local decides its width for good.
THEOREM FirstWidthIsFinal == PassSpec => WidthsStay
<1>1. [PassNext]_passVars =>
        [\A id \in DOMAIN widths : id \in DOMAIN widths' /\ widths'[id] = widths[id]]_passVars
  BY DEF PassNext, AddWidths, Extends, NextPass, Return, passVars
<1> QED
  BY <1>1, PTL DEF PassSpec, WidthsStay
=============================================================================
