--------------------------- MODULE StorageProofs ---------------------------
(***************************************************************************)
(* The unique space, for any machine, any locals, any number of statements *)
(* and a space of any size: homes of locals and temporaries never overlap, *)
(* and a temporary is written once, before it is read (GrowingSpace).      *)
(* Each call that takes storage grows the space (UniqueStorage), and calls *)
(* compose, so a statement, which makes any number of them, grows it too.  *)
(***************************************************************************)
EXTENDS GrowingSpace, UniqueStorage, TLAPS

----------------------------------------------------------------------------
(* The inductive invariant.                                                *)

SpaceTypeOK ==
    /\ Pointer \in Nat
    /\ \A id \in DOMAIN Homes : Homes[id] \in Home
    /\ stream \in Seq(Range(stream))

\* No byte is two locals', and every local's bytes lie below the pointer.
HomesApart ==
    /\ \A id \in DOMAIN Homes : End(Homes[id]) <= Pointer
    /\ \A id, other \in DOMAIN Homes : id # other => Apart(Homes[id], Homes[other])

\* `v` shares no byte with any of `homes`.
Aside(v, homes) == \A id \in DOMAIN homes : Apart(v, homes[id])

\* What was written lies below the pointer, in a local or aside of all.
WritesInPlace ==
    \A k \in DOMAIN stream : InUnique(WrittenBy(stream[k])) =>
       /\ WrittenBy(stream[k]) \in Home /\ End(WrittenBy(stream[k])) <= Pointer
       /\ Housed(WrittenBy(stream[k]), Homes) \/ Aside(WrittenBy(stream[k]), Homes)

\* What is written aside of the locals, nothing else writes.
TemporariesApart ==
    \A i, j \in DOMAIN stream :
       /\ i # j
       /\ InUnique(WrittenBy(stream[i])) /\ InUnique(WrittenBy(stream[j]))
       /\ Aside(WrittenBy(stream[i]), Homes)
       => Apart(WrittenBy(stream[i]), WrittenBy(stream[j]))

\* What was read is a local or was written before.
ReadsInPlace ==
    \A j \in DOMAIN stream : \A v \in ReadBy(stream[j]) : InUnique(v) =>
       /\ v \in Home
       /\ Housed(v, Homes) \/ \E i \in 1 .. j - 1 : WrittenBy(stream[i]) = v

HomesAsPlanned ==
    \A id \in DOMAIN Homes : PlannedSizes[id] # None => Homes[id].size = PlannedSizes[id]

SpaceInv ==
    /\ SpaceTypeOK /\ HomesApart /\ HomesAsPlanned
    /\ WritesInPlace /\ TemporariesApart /\ ReadsInPlace

----------------------------------------------------------------------------
(* Pieces of the unique space.                                             *)

LEMMA PieceShape ==
  ASSUME NEW v \in Home
  PROVE  /\ v.offset \in Nat /\ v.size \in Nat \ {0} /\ v.space = UniqueSpace
         /\ End(v) \in Nat /\ v.offset < End(v)
  BY DEF Home, End

\* Pieces share a byte unless one ends before the other begins.
LEMMA OverlapIsNotApart ==
  ASSUME NEW v \in Home, NEW w \in Home
  PROVE  Overlap(v, w) <=> ~Apart(v, w)
<1>1. /\ v.offset \in Nat /\ v.size \in Nat \ {0} /\ v.space = UniqueSpace
      /\ w.offset \in Nat /\ w.size \in Nat \ {0} /\ w.space = UniqueSpace
  BY PieceShape
<1>2. ASSUME Overlap(v, w) PROVE ~Apart(v, w)
  <2>1. PICK byte : byte \in Bytes(v) /\ byte \in Bytes(w)
    BY <1>2 DEF Overlap
  <2>2. PICK b \in v.offset .. v.offset + v.size - 1 : byte = <<v.space, b>>
    BY <2>1 DEF Bytes
  <2>3. PICK c \in w.offset .. w.offset + w.size - 1 : byte = <<w.space, c>>
    BY <2>1 DEF Bytes
  <2>4. b = c
    BY <2>2, <2>3
  <2> QED
    BY <1>1, <2>4 DEF Apart, End
<1>3. ASSUME ~Apart(v, w) PROVE Overlap(v, w)
  <2> DEFINE b == IF v.offset <= w.offset THEN w.offset ELSE v.offset
  <2>1. b \in v.offset .. v.offset + v.size - 1 /\ b \in w.offset .. w.offset + w.size - 1
    BY <1>1, <1>3 DEF Apart, End
  <2>2. <<UniqueSpace, b>> \in Bytes(v) /\ <<UniqueSpace, b>> \in Bytes(w)
    BY <1>1, <2>1 DEF Bytes
  <2> QED
    BY <2>2 DEF Overlap
<1> QED
  BY <1>2, <1>3

\* A part of a piece has its bytes among the piece's, and is apart from what
\* the piece is apart from, but not from the piece.
LEMMA PartOfPiece ==
  ASSUME NEW v \in Home, NEW w \in Home, Within(v, w)
  PROVE  /\ Bytes(v) \subseteq Bytes(w) /\ ~Apart(v, w)
         /\ \A u \in Home : Apart(u, w) => Apart(u, v)
<1>1. /\ v.offset \in Nat /\ v.size \in Nat \ {0} /\ v.space = UniqueSpace
      /\ w.offset \in Nat /\ w.size \in Nat \ {0} /\ w.space = UniqueSpace
  BY PieceShape
<1>2. Bytes(v) \subseteq Bytes(w)
  <2> SUFFICES ASSUME NEW b \in v.offset .. v.offset + v.size - 1
               PROVE  b \in w.offset .. w.offset + w.size - 1
    BY <1>1 DEF Bytes
  <2> QED
    BY <1>1 DEF Within, End
<1>3. ~Apart(v, w)
  BY <1>1 DEF Within, Apart, End
<1>4. ASSUME NEW u \in Home, Apart(u, w) PROVE Apart(u, v)
  BY <1>1, <1>4, PieceShape DEF Within, Apart, End
<1> QED
  BY <1>2, <1>3, <1>4

LEMMA ApartSymmetric ==
  ASSUME NEW v, NEW w, Apart(v, w)
  PROVE  Apart(w, v)
  BY DEF Apart

----------------------------------------------------------------------------
(* A step of the space.                                                    *)

LEMMA StreamGrows ==
  ASSUME SpaceInv, Grow
  PROVE  /\ Len(stream) \in Nat /\ Len(stream') \in Nat
         /\ DOMAIN stream = 1 .. Len(stream) /\ DOMAIN stream' = 1 .. Len(stream')
         /\ DOMAIN stream' = DOMAIN stream \cup Fresh
         /\ \A k \in DOMAIN stream : stream'[k] = stream[k]
<1>1. stream \in Seq(Range(stream)) /\ stream' \in Seq(Range(stream'))
  BY DEF SpaceInv, SpaceTypeOK, Grow
<1>2. Len(stream) <= Len(stream') /\ \A k \in DOMAIN stream : stream'[k] = stream[k]
  BY DEF Grow
<1>3. /\ Len(stream) \in Nat /\ DOMAIN stream = 1 .. Len(stream)
      /\ Len(stream') \in Nat /\ DOMAIN stream' = 1 .. Len(stream')
  BY <1>1
<1>4. \A m, n \in Nat : m <= n => 1 .. n = (1 .. m) \cup (m + 1 .. n)
  OBVIOUS
<1>5. 1 .. Len(stream') = (1 .. Len(stream)) \cup Fresh
  BY <1>2, <1>3, <1>4 DEF Fresh
<1> QED
  BY <1>2, <1>3, <1>5

\* New homes lie above the pointer and old ones below it, so growing keeps all
\* of them apart.
LEMMA GrowKeepsHomesApart ==
  ASSUME SpaceInv, Grow
  PROVE  /\ SpaceTypeOK' /\ HomesApart' /\ HomesAsPlanned'
         /\ Pointer \in Nat /\ Pointer' \in Nat /\ Pointer <= Pointer'
<1>1. Pointer' \in Nat /\ Pointer <= Pointer' /\ Pointer \in Nat
  BY DEF Grow, GrowsTo, SpaceInv, SpaceTypeOK
<1>2. ASSUME NEW id \in DOMAIN Homes'
      PROVE  Homes'[id] \in Home /\ End(Homes'[id]) <= Pointer'
  <2>1. CASE id \in DOMAIN Homes
    <3>1. Homes'[id] = Homes[id] /\ Homes[id] \in Home /\ End(Homes[id]) <= Pointer
      BY <2>1 DEF Grow, GrowsTo, SpaceInv, SpaceTypeOK, HomesApart
    <3> QED
      BY <1>1, <3>1, PieceShape
  <2>2. CASE id \notin DOMAIN Homes
    BY <1>2, <2>2 DEF Grow, GrowsTo
  <2> QED
    BY <2>1, <2>2
<1>3. ASSUME NEW id \in DOMAIN Homes', NEW other \in DOMAIN Homes', id # other
      PROVE  Apart(Homes'[id], Homes'[other])
  <2>1. ASSUME NEW a \in DOMAIN Homes, NEW b \in DOMAIN Homes' \ DOMAIN Homes
        PROVE  End(Homes'[a]) <= Homes'[b].offset
    <3>1. Homes'[a] = Homes[a] /\ Homes[a] \in Home /\ End(Homes[a]) <= Pointer
      BY DEF Grow, GrowsTo, SpaceInv, SpaceTypeOK, HomesApart
    <3>2. Homes'[b] \in Home /\ Pointer <= Homes'[b].offset
      BY DEF Grow, GrowsTo
    <3> QED
      BY <1>1, <3>1, <3>2, PieceShape
  <2>2. CASE id \in DOMAIN Homes /\ other \in DOMAIN Homes
    BY <1>3, <2>2 DEF Grow, GrowsTo, SpaceInv, HomesApart
  <2>3. CASE id \in DOMAIN Homes /\ other \notin DOMAIN Homes
    BY <1>3, <2>1, <2>3 DEF Apart
  <2>4. CASE id \notin DOMAIN Homes /\ other \in DOMAIN Homes
    BY <1>3, <2>1, <2>4 DEF Apart
  <2>5. CASE id \notin DOMAIN Homes /\ other \notin DOMAIN Homes
    BY <1>3, <2>5 DEF Grow, GrowsTo
  <2> QED
    BY <2>2, <2>3, <2>4, <2>5
<1>4. stream' \in Seq(Range(stream'))
  BY DEF Grow
<1>5. HomesAsPlanned'
  BY DEF Grow, GrowsTo, PlacedAsPlanned, SpaceInv, HomesAsPlanned
<1> QED
  BY <1>1, <1>2, <1>3, <1>4, <1>5 DEF SpaceTypeOK, HomesApart

\* A local's part stays a local's part.
LEMMA StaysHoused ==
  ASSUME Grow, NEW v, Housed(v, Homes)
  PROVE  Housed(v, Homes')
  BY DEF Grow, GrowsTo, Housed

\* What was written before this step keeps its place: homes given in it are
\* above the pointer.
LEMMA OldWrite ==
  ASSUME SpaceInv, Grow, NEW k \in DOMAIN stream, NEW v,
         v = WrittenBy(stream'[k]), InUnique(v)
  PROVE  /\ v = WrittenBy(stream[k]) /\ v \in Home
         /\ End(v) <= Pointer
         /\ Housed(v, Homes') \/ Aside(v, Homes')
<1>1. v = WrittenBy(stream[k])
  BY StreamGrows
<1>2. /\ v \in Home /\ End(v) <= Pointer
      /\ Housed(v, Homes) \/ Aside(v, Homes)
  BY <1>1 DEF SpaceInv, WritesInPlace
<1>3. ASSUME Aside(v, Homes), NEW id \in DOMAIN Homes'
      PROVE  Apart(v, Homes'[id])
  <2>1. CASE id \in DOMAIN Homes
    BY <1>3, <2>1 DEF Grow, GrowsTo, Aside
  <2>2. CASE id \notin DOMAIN Homes
    <3>1. Homes'[id] \in Home /\ Pointer <= Homes'[id].offset
      BY <1>3, <2>2 DEF Grow, GrowsTo
    <3> QED
      BY <1>2, <3>1, PieceShape, GrowKeepsHomesApart DEF Apart
  <2> QED
    BY <2>1, <2>2
<1> QED
  BY <1>1, <1>2, <1>3, StaysHoused DEF Aside

\* A temporary of this step lies above the pointer, so above what was written
\* before and above the homes given before.
LEMMA NewWrite ==
  ASSUME SpaceInv, Grow, NEW k \in Fresh, NEW v,
         v = WrittenBy(stream'[k]), InUnique(v)
  PROVE  /\ v \in Home /\ End(v) <= Pointer'
         /\ Housed(v, Homes') \/ (WritesTemporary(k, v) /\ Aside(v, Homes'))
<1>1. v \in Home /\ (Housed(v, Homes') \/ WritesTemporary(k, v))
  BY DEF Grow, WritesSoundly
<1>2. CASE Housed(v, Homes')
  <2>1. PICK id \in DOMAIN Homes' : Within(v, Homes'[id])
    BY <1>2 DEF Housed
  <2>2. Homes'[id] \in Home /\ End(Homes'[id]) <= Pointer' /\ Pointer' \in Nat
    BY GrowKeepsHomesApart DEF SpaceTypeOK, HomesApart
  <2> QED
    BY <1>1, <1>2, <2>1, <2>2, PieceShape DEF Within
<1>3. CASE WritesTemporary(k, v)
  <2>1. /\ Pointer <= v.offset /\ End(v) <= Pointer'
        /\ \A id \in DOMAIN Homes' \ DOMAIN Homes : Apart(v, Homes'[id])
    BY <1>3 DEF WritesTemporary
  <2>2. ASSUME NEW id \in DOMAIN Homes PROVE Apart(v, Homes'[id])
    <3>1. Homes'[id] = Homes[id] /\ Homes[id] \in Home /\ End(Homes[id]) <= Pointer
      BY DEF Grow, GrowsTo, SpaceInv, SpaceTypeOK, HomesApart
    <3> QED
      BY <1>1, <2>1, <3>1, PieceShape, GrowKeepsHomesApart DEF Apart
  <2> QED
    BY <1>1, <1>3, <2>1, <2>2 DEF Aside
<1> QED
  BY <1>1, <1>2, <1>3

LEMMA GrowKeepsWrites ==
  ASSUME SpaceInv, Grow
  PROVE  WritesInPlace'
<1> SUFFICES ASSUME NEW k \in DOMAIN stream', NEW v,
                    v = WrittenBy(stream'[k]), InUnique(v)
             PROVE  /\ v \in Home /\ End(v) <= Pointer'
                    /\ Housed(v, Homes') \/ Aside(v, Homes')
  BY DEF WritesInPlace
<1>1. CASE k \in DOMAIN stream
  <2>1. /\ v \in Home /\ End(v) <= Pointer
        /\ Housed(v, Homes') \/ Aside(v, Homes')
    BY <1>1, OldWrite
  <2> QED
    BY <2>1, PieceShape, GrowKeepsHomesApart
<1>2. CASE k \in Fresh
  BY <1>2, NewWrite
<1> QED
  BY <1>1, <1>2, StreamGrows

\* Two events of which the first writes aside of all locals write apart: in a
\* local the second is apart from what is aside, and otherwise the later one
\* wrote above the pointer and the earlier one below it, or both are
\* temporaries of this step.
LEMMA GrowKeepsTemporaries ==
  ASSUME SpaceInv, Grow
  PROVE  TemporariesApart'
<1> SUFFICES ASSUME NEW i \in DOMAIN stream', NEW j \in DOMAIN stream', i # j,
                    NEW v, v = WrittenBy(stream'[i]), InUnique(v),
                    NEW w, w = WrittenBy(stream'[j]), InUnique(w),
                    Aside(v, Homes')
             PROVE  Apart(v, w)
  BY DEF TemporariesApart
<1>1. v \in Home /\ w \in Home
  BY OldWrite, NewWrite, StreamGrows
<1>2. \A id \in DOMAIN Homes' : Homes'[id] \in Home
  BY GrowKeepsHomesApart DEF SpaceTypeOK
<1>3. ~Housed(v, Homes')
  BY <1>1, <1>2, PartOfPiece DEF Housed, Aside
<1>4. CASE Housed(w, Homes')
  <2>1. PICK id \in DOMAIN Homes' : Within(w, Homes'[id])
    BY <1>4 DEF Housed
  <2>2. Apart(v, Homes'[id])
    BY <2>1 DEF Aside
  <2> QED
    BY <1>1, <1>2, <2>1, <2>2, PartOfPiece
<1>5. CASE ~Housed(w, Homes') /\ i \in DOMAIN stream /\ j \in DOMAIN stream
  <2>1. v = WrittenBy(stream[i]) /\ w = WrittenBy(stream[j])
    BY <1>5, OldWrite
  <2>2. Aside(v, Homes)
    BY DEF Aside, Grow, GrowsTo
  <2> QED
    BY <1>5, <2>1, <2>2 DEF SpaceInv, TemporariesApart
<1>6. CASE ~Housed(w, Homes') /\ i \in DOMAIN stream /\ j \in Fresh
  <2>1. End(v) <= Pointer
    BY <1>6, OldWrite
  <2>2. Pointer <= w.offset
    BY <1>6, NewWrite DEF WritesTemporary
  <2> QED
    BY <1>1, <2>1, <2>2, PieceShape, GrowKeepsHomesApart DEF Apart
<1>7. CASE i \in Fresh /\ j \in DOMAIN stream
  <2>1. End(w) <= Pointer
    BY <1>7, OldWrite
  <2>2. Pointer <= v.offset
    BY <1>3, <1>7, NewWrite DEF WritesTemporary
  <2> QED
    BY <1>1, <2>1, <2>2, PieceShape, GrowKeepsHomesApart DEF Apart
<1>8. CASE i \in Fresh /\ j \in Fresh
  <2>1. WritesTemporary(i, v)
    BY <1>3, <1>8, NewWrite
  <2> QED
    BY <1>8, <2>1 DEF WritesTemporary
<1> QED
  BY <1>4, <1>5, <1>6, <1>7, <1>8, StreamGrows

LEMMA GrowKeepsReads ==
  ASSUME SpaceInv, Grow
  PROVE  ReadsInPlace'
<1> SUFFICES ASSUME NEW k \in DOMAIN stream', NEW v \in ReadBy(stream'[k]), InUnique(v)
             PROVE  /\ v \in Home
                    /\ \/ Housed(v, Homes')
                       \/ \E i \in 1 .. k - 1 : WrittenBy(stream'[i]) = v
  BY DEF ReadsInPlace
<1>1. CASE k \in DOMAIN stream
  <2>1. v \in ReadBy(stream[k])
    BY <1>1, StreamGrows
  <2>2. /\ v \in Home
        /\ Housed(v, Homes) \/ \E i \in 1 .. k - 1 : WrittenBy(stream[i]) = v
    BY <1>1, <2>1 DEF SpaceInv, ReadsInPlace
  <2>3. \A i \in 1 .. k - 1 : stream'[i] = stream[i]
    BY <1>1, StreamGrows
  <2> QED
    BY <2>2, <2>3, StaysHoused
<1>2. CASE k \in Fresh
  <2>1. /\ v \in Home
        /\ \/ Housed(v, Homes')
           \/ \E j \in Fresh : j < k /\ WrittenBy(stream'[j]) = v
    BY <1>2 DEF Grow, ReadsSoundly
  <2>2. \A j \in Fresh : j < k => j \in 1 .. k - 1
    BY <1>2, StreamGrows DEF Fresh
  <2> QED
    BY <2>1, <2>2
<1> QED
  BY <1>1, <1>2, StreamGrows

LEMMA NothingHasInv == NothingTaken => SpaceInv
<1> SUFFICES ASSUME NothingTaken PROVE SpaceInv
  OBVIOUS
<1>1. DOMAIN stream = {} /\ stream \in Seq(Range(stream))
  BY DEF NothingTaken
<1> QED
  BY <1>1 DEF NothingTaken, SpaceInv, SpaceTypeOK, HomesApart, HomesAsPlanned, WritesInPlace,
     TemporariesApart, ReadsInPlace

LEMMA StepKeepsInv == SpaceInv /\ [Begin \/ Grow]_spaceVars => SpaceInv'
<1> SUFFICES ASSUME SpaceInv, [Begin \/ Grow]_spaceVars PROVE SpaceInv'
  OBVIOUS
<1>1. CASE UNCHANGED spaceVars
  <2>1. /\ Pointer' = Pointer /\ Homes' = Homes /\ stream' = stream
        /\ PlannedSizes' = PlannedSizes
    BY <1>1 DEF spaceVars, Pointer, Homes, PlannedSizes
  <2> QED
    BY <2>1 DEF SpaceInv, SpaceTypeOK, HomesApart, HomesAsPlanned, WritesInPlace,
         TemporariesApart, ReadsInPlace
<1>2. CASE Grow
  BY <1>2, GrowKeepsHomesApart, GrowKeepsWrites, GrowKeepsTemporaries, GrowKeepsReads
     DEF SpaceInv
<1>3. CASE Begin
  <2>1. NothingTaken'
    BY <1>3 DEF Begin, NothingTaken, Homes, Pointer
  <2> QED
    BY <2>1, NothingHasInv, PTL
<1> QED
  BY <1>1, <1>2, <1>3

LEMMA InitHasInv == SpaceInit => SpaceInv
<1> SUFFICES ASSUME SpaceInit PROVE SpaceInv
  OBVIOUS
<1>1. DOMAIN Homes = {} /\ Pointer = 0
  BY DEF SpaceInit, Homes, HomesOf, Pointer
<1> QED
  BY <1>1, NothingHasInv DEF SpaceInit, NothingTaken

THEOREM SpaceInvariant == SpaceSpec => []SpaceInv
  BY InitHasInv, StepKeepsInv, PTL DEF SpaceSpec

----------------------------------------------------------------------------
(* What follows.                                                           *)

\* However many statements take storage, and wherever they fail, no byte
\* belongs to two locals, and what an operation writes is a part of one local
\* or touches none (`allocate_unique`, `storage_for_ident`).
THEOREM StorageIsDisjoint == SpaceSpec => []LocalsDisjoint
<1>1. SpaceInv => LocalsDisjoint
  <2> SUFFICES ASSUME SpaceInv PROVE LocalsDisjoint
    OBVIOUS
  <2>1. ASSUME NEW id \in DOMAIN Homes, NEW other \in DOMAIN Homes, id # other
        PROVE  ~Overlap(Homes[id], Homes[other])
    BY <2>1, OverlapIsNotApart DEF SpaceInv, SpaceTypeOK, HomesApart
  <2>2. ASSUME NEW k \in DOMAIN stream, NEW v, v = WrittenBy(stream[k]), InUnique(v)
        PROVE  /\ End(v) <= Pointer
               /\ \A home \in LocalHomes :
                     Overlap(v, home) => Bytes(v) \subseteq Bytes(home)
    <3>1. /\ v \in Home /\ End(v) <= Pointer
          /\ Housed(v, Homes) \/ Aside(v, Homes)
      BY <2>2 DEF SpaceInv, WritesInPlace
    <3>2. \A id \in DOMAIN Homes : Homes[id] \in Home
      BY DEF SpaceInv, SpaceTypeOK
    <3>3. ASSUME NEW id \in DOMAIN Homes, Overlap(v, Homes[id])
          PROVE  Bytes(v) \subseteq Bytes(Homes[id])
      <4>1. ~Apart(v, Homes[id])
        BY <3>1, <3>2, <3>3, OverlapIsNotApart
      <4>2. PICK home \in DOMAIN Homes : Within(v, Homes[home])
        BY <3>1, <4>1 DEF Housed, Aside
      <4>3. home = id
        <5> SUFFICES ASSUME home # id PROVE FALSE
          OBVIOUS
        <5>1. Apart(Homes[id], Homes[home])
          BY DEF SpaceInv, HomesApart
        <5>2. Apart(Homes[id], v)
          BY <3>1, <3>2, <4>2, <5>1, PartOfPiece
        <5> QED
          BY <4>1, <5>2, ApartSymmetric
      <4> QED
        BY <3>1, <3>2, <4>2, <4>3, PartOfPiece
    <3> QED
      BY <3>1, <3>3 DEF LocalHomes
  <2> QED
    BY <2>1, <2>2 DEF LocalsDisjoint
<1> QED
  BY <1>1, SpaceInvariant, PTL

\* Over all statements of an instruction, a temporary has one writer and is
\* read only after it, also when a statement failed in between.
THEOREM TemporariesAreDefined == SpaceSpec => []TemporariesDefined
<1>1. SpaceInv => TemporariesDefined
  <2> SUFFICES ASSUME SpaceInv PROVE TemporariesDefined
    OBVIOUS
  <2>1. \A id \in DOMAIN Homes : Homes[id] \in Home /\ Homes[id] \in LocalHomes
    BY DEF SpaceInv, SpaceTypeOK, LocalHomes
  <2>2. ASSUME NEW v \in Home, IsTemporary(v)
        PROVE  ~Housed(v, Homes) /\ Aside(v, Homes)
    <3>1. Aside(v, Homes)
      BY <2>1, <2>2, OverlapIsNotApart DEF IsTemporary, Aside
    <3>2. ~Housed(v, Homes)
      BY <2>1, <3>1, PartOfPiece DEF Housed, Aside
    <3> QED
      BY <3>1, <3>2
  <2>3. ASSUME NEW i \in DOMAIN stream, NEW j \in DOMAIN stream, i # j,
               NEW v, v = WrittenBy(stream[i]), IsTemporary(v),
               NEW w, w = WrittenBy(stream[j]), w # None
        PROVE  ~Overlap(v, w)
    <3>1. v \in Home /\ InUnique(v)
      BY <2>3 DEF SpaceInv, WritesInPlace, IsTemporary
    <3>2. Aside(v, Homes)
      BY <2>2, <2>3, <3>1
    <3>3. CASE InUnique(w)
      <4>1. w \in Home
        BY <2>3, <3>3 DEF SpaceInv, WritesInPlace
      <4>2. Apart(v, w)
        BY <2>3, <3>1, <3>2, <3>3 DEF SpaceInv, TemporariesApart
      <4> QED
        BY <3>1, <4>1, <4>2, OverlapIsNotApart
    <3>4. CASE ~InUnique(w)
      <4>1. v.space # w.space
        BY <2>3, <3>1, <3>4 DEF InUnique
      <4> QED
        BY <4>1 DEF Overlap, Bytes
    <3> QED
      BY <3>3, <3>4
  <2>4. ASSUME NEW j \in DOMAIN stream, NEW v \in ReadBy(stream[j]), IsTemporary(v)
        PROVE  \E i \in 1 .. j - 1 : WrittenBy(stream[i]) = v
    <3>1. /\ v \in Home
          /\ Housed(v, Homes) \/ \E i \in 1 .. j - 1 : WrittenBy(stream[i]) = v
      BY <2>4 DEF SpaceInv, ReadsInPlace, IsTemporary
    <3> QED
      BY <2>2, <2>4, <3>1
  <2> QED
    BY <2>3, <2>4 DEF TemporariesDefined
<1> QED
  BY <1>1, SpaceInvariant, PTL

\* A local that has been placed is never moved, and is as wide as the plan says:
\* every statement of the instruction finds its value where an earlier one left
\* it (`storage_for_ident`).
THEOREM HomesNeverMove == SpaceSpec => LocalsStayPut
<1> DEFINE Stay ==
             /\ \A id \in DOMAIN Homes : id \in DOMAIN Homes' /\ Homes'[id] = Homes[id]
             /\ \A id \in DOMAIN Homes' :
                   PlannedSizes'[id] # None => Homes'[id].size = PlannedSizes'[id]
<1>1. SpaceInv /\ [Begin \/ Grow]_spaceVars => [Stay]_spaceVars
  <2>1. ASSUME Begin PROVE Stay
    BY <2>1 DEF Begin, NothingTaken, Homes
  <2>2. ASSUME SpaceInv, Grow PROVE Stay
    BY <2>2, GrowKeepsHomesApart DEF Grow, GrowsTo, HomesAsPlanned
  <2> HIDE DEF Stay
  <2> QED
    BY <2>1, <2>2
<1> QED
  BY <1>1, SpaceInvariant, PTL DEF SpaceSpec, LocalsStayPut

----------------------------------------------------------------------------
(* The emitter's calls.                                                    *)

\* The homes an emitter has given.
Placed(em) == HomesOf(em.locals)

\* From emitter `em` to `after`, storage grows.
StorageGrew(em, after) == GrowsTo(em.next, Placed(em), after.next, Placed(after))

\* An emitter as the code can have it, before an error.
SoundEmitter(em) ==
    /\ DOMAIN em = {"labels", "sizes", "locals", "defined", "next", "events", "err"}
    /\ em.next \in Nat /\ em.next <= MaxWord
    /\ DOMAIN em.locals = Local
    /\ em.err = "ok"

Option(S) == S \cup {None}

\* Growth composes: the calls a statement makes one after the other grow the
\* storage together, as each of them does.
LEMMA GrowthComposes ==
  ASSUME NEW low \in Nat, NEW mid, NEW high, NEW a, NEW b, NEW c,
         GrowsTo(low, a, mid, b), GrowsTo(mid, b, high, c)
  PROVE  GrowsTo(low, a, high, c)
<1>1. /\ mid \in Nat /\ high \in Nat
      /\ low <= mid /\ mid <= high /\ high <= MaxWord
  BY DEF GrowsTo
<1>2. /\ DOMAIN a \subseteq DOMAIN c /\ DOMAIN c \subseteq Local
      /\ \A id \in DOMAIN a : c[id] = a[id]
  BY DEF GrowsTo
<1>3. ASSUME NEW id \in DOMAIN b \ DOMAIN a
      PROVE  c[id] = b[id] /\ c[id] \in Home /\ low <= c[id].offset /\ End(c[id]) <= mid
  BY DEF GrowsTo
<1>4. ASSUME NEW id \in DOMAIN c \ DOMAIN b
      PROVE  c[id] \in Home /\ mid <= c[id].offset /\ End(c[id]) <= high
  BY DEF GrowsTo
<1>5. ASSUME NEW id \in DOMAIN c \ DOMAIN a
      PROVE  c[id] \in Home /\ low <= c[id].offset /\ End(c[id]) <= high
  <2>1. CASE id \in DOMAIN b
    BY <1>1, <1>3, <2>1 DEF Home, End
  <2>2. CASE id \notin DOMAIN b
    BY <1>1, <1>4, <2>2 DEF Home, End
  <2> QED
    BY <2>1, <2>2
<1>6. ASSUME NEW id \in DOMAIN c \ DOMAIN a, NEW other \in DOMAIN c \ DOMAIN a,
             id # other
      PROVE  Apart(c[id], c[other])
  <2>1. ASSUME NEW x \in DOMAIN b \ DOMAIN a, NEW y \in DOMAIN c \ DOMAIN b
        PROVE  End(c[x]) <= c[y].offset
    BY <1>1, <1>3, <1>4 DEF Home, End
  <2>2. CASE id \in DOMAIN b /\ other \in DOMAIN b
    BY <1>3, <1>6, <2>2 DEF GrowsTo
  <2>3. CASE id \in DOMAIN b /\ other \notin DOMAIN b
    BY <2>1, <2>3 DEF Apart
  <2>4. CASE id \notin DOMAIN b /\ other \in DOMAIN b
    BY <2>1, <2>4 DEF Apart
  <2>5. CASE id \notin DOMAIN b /\ other \notin DOMAIN b
    BY <1>6, <2>5 DEF GrowsTo
  <2> QED
    BY <2>2, <2>3, <2>4, <2>5
<1> QED
  BY <1>1, <1>2, <1>5, <1>6 DEF GrowsTo

\* An emitter that places nothing and moves its pointer up, or not.
LEMMA PointerGrows ==
  ASSUME NEW em, NEW after, em.next \in Nat, after.next \in Nat,
         em.next <= after.next, after.next <= MaxWord, after.locals = em.locals
  PROVE  StorageGrew(em, after)
  BY DEF StorageGrew, GrowsTo, Placed, HomesOf

\* What an allocation hands out lies between the pointer before and after it.
Carved(em, v, after) ==
    v \in Home /\ em.next <= v.offset /\ End(v) <= after.next

\* `allocate_unique`: a step of the growing space, that fails instead of
\* passing the end of the space or handing out no bytes; a failure takes
\* nothing.
THEOREM AllocationGrows ==
  ASSUME NEW em, SoundEmitter(em), NEW size \in Nat
  PROVE  LET r == AllocateUnique(em, size)
         IN  /\ StorageGrew(em, r.em)
             /\ r.em.locals = em.locals
             /\ Failed(r.em) => r.em.next = em.next
             /\ ~Failed(r.em) =>
                   SoundEmitter(r.em) /\ Carved(em, r.v, r.em) /\ r.v.size = size
<1> DEFINE r == AllocateUnique(em, size)
<1>1. CASE size = 0
  <2>1. r.em = [em EXCEPT !.err = "ZeroSize"]
    BY <1>1 DEF AllocateUnique, Err
  <2>2. /\ r.em.next = em.next /\ r.em.locals = em.locals
        /\ r.em.err = "ZeroSize"
    BY <2>1 DEF SoundEmitter
  <2>3. StorageGrew(em, r.em)
    BY <2>2, PointerGrows DEF SoundEmitter
  <2> QED
    BY <2>2, <2>3 DEF Failed
<1>2. CASE size # 0 /\ em.next + size > MaxWord
  <2>1. r.em = [em EXCEPT !.err = "UniqueSpaceOverflow"]
    BY <1>2 DEF AllocateUnique, Err
  <2>2. /\ r.em.next = em.next /\ r.em.locals = em.locals
        /\ r.em.err = "UniqueSpaceOverflow"
    BY <2>1 DEF SoundEmitter
  <2>3. StorageGrew(em, r.em)
    BY <2>2, PointerGrows DEF SoundEmitter
  <2> QED
    BY <2>2, <2>3 DEF Failed
<1>3. CASE size # 0 /\ ~ (em.next + size > MaxWord)
  <2>1. /\ r.em = [em EXCEPT !.next = em.next + size]
        /\ r.v = Varnode(UniqueSpace, em.next, size)
    BY <1>3 DEF AllocateUnique, Ok
  <2>2. /\ r.em.next = em.next + size /\ r.em.locals = em.locals
        /\ r.em.err = "ok" /\ DOMAIN r.em = DOMAIN em
    BY <2>1 DEF SoundEmitter
  <2>3. em.next + size <= MaxWord /\ em.next + size \in Nat /\ em.next <= em.next + size
    BY <1>3, SpaceAssumption DEF SoundEmitter
  <2>4. StorageGrew(em, r.em)
    BY <2>2, <2>3, PointerGrows DEF SoundEmitter
  <2>5. SoundEmitter(r.em)
    BY <2>2, <2>3 DEF SoundEmitter
  <2>6. Carved(em, r.v, r.em) /\ r.v.size = size
    BY <1>3, <2>1, <2>2, <2>3 DEF Carved, Home, End, Varnode, SoundEmitter
  <2> QED
    BY <2>2, <2>4, <2>5, <2>6 DEF Failed
<1> QED
  BY <1>1, <1>2, <1>3

\* `storage_for_ident`, for a local: a step of the growing space that gives at
\* most this local a home, the one it answers, as wide as the plan says.
THEOREM HomeGrows ==
  ASSUME None \notin Home, None \notin Nat,
         NEW em, SoundEmitter(em), NEW id \in Local,
         em.sizes[id] \in Option(Nat), em.locals[id] \in Option(Home),
         NEW size \in Option(Nat)
  PROVE  LET r == LocalStorage(em, id, size)
         IN  /\ StorageGrew(em, r.em)
             /\ Failed(r.em) => r.em.next = em.next /\ r.em.locals = em.locals
             /\ ~Failed(r.em) =>
                   /\ SoundEmitter(r.em) /\ r.em.locals[id] = r.v /\ r.v \in Home
                   /\ em.sizes[id] # None => r.v.size = em.sizes[id]
<1> DEFINE r == LocalStorage(em, id, size)
           width == LocalSize(em, id, size)
           fresh == AllocateUnique(em, width)
<1>1. width \in Option(Nat) /\ (em.sizes[id] # None => width = em.sizes[id])
  BY DEF LocalSize, OrElse, Option
<1>2. ASSUME NEW error, error # "ok", r.em = [em EXCEPT !.err = error]
      PROVE  /\ r.em.next = em.next /\ r.em.locals = em.locals
             /\ Failed(r.em) /\ StorageGrew(em, r.em)
  <2>1. r.em.next = em.next /\ r.em.locals = em.locals /\ r.em.err = error
    BY <1>2 DEF SoundEmitter
  <2> QED
    BY <1>2, <2>1, PointerGrows DEF SoundEmitter, Failed
<1>3. CASE em.locals[id] # None
  <2>1. CASE width # None /\ width # em.locals[id].size
    <3>1. r.em = [em EXCEPT !.err = "CopySizeMismatch"]
      BY <1>3, <2>1 DEF LocalStorage, Err
    <3> QED
      BY <1>2, <3>1
  <2>2. CASE ~ (width # None /\ width # em.locals[id].size)
    <3>1. r.em = em /\ r.v = em.locals[id]
      BY <1>3, <2>2 DEF LocalStorage, Ok
    <3>2. StorageGrew(em, r.em)
      BY <3>1, PointerGrows DEF SoundEmitter
    <3> QED
      BY <1>1, <1>3, <2>2, <3>1, <3>2 DEF SoundEmitter, Failed, Option
  <2> QED
    BY <2>1, <2>2
<1>4. CASE em.locals[id] = None /\ width = None
  <2>1. r.em = [em EXCEPT !.err = "UnknownSize"]
    BY <1>4 DEF LocalStorage, Err
  <2> QED
    BY <1>2, <2>1
<1>5. CASE em.locals[id] = None /\ width # None
  <2>1. width \in Nat
    BY <1>1, <1>5 DEF Option
  <2>2. /\ StorageGrew(em, fresh.em) /\ fresh.em.locals = em.locals
        /\ Failed(fresh.em) => fresh.em.next = em.next
        /\ ~Failed(fresh.em) =>
              SoundEmitter(fresh.em) /\ Carved(em, fresh.v, fresh.em) /\ fresh.v.size = width
    BY <2>1, AllocationGrows
  <2>3. CASE Failed(fresh.em)
    <3>1. r = fresh
      BY <1>5, <2>3 DEF LocalStorage
    <3> QED
      BY <2>2, <2>3, <3>1
  <2>4. CASE ~Failed(fresh.em)
    <3>1. /\ r.em = [fresh.em EXCEPT !.locals[id] = fresh.v]
          /\ r.v = fresh.v
      BY <1>5, <2>4 DEF LocalStorage, Ok
    <3>2. /\ r.em.next = fresh.em.next /\ r.em.err = fresh.em.err
          /\ DOMAIN r.em = DOMAIN fresh.em
          /\ r.em.locals = [fresh.em.locals EXCEPT ![id] = fresh.v]
      BY <2>2, <2>4, <3>1 DEF SoundEmitter
    <3>3. /\ DOMAIN r.em.locals = Local /\ r.em.locals[id] = fresh.v
          /\ \A other \in Local \ {id} : r.em.locals[other] = em.locals[other]
      BY <2>2, <3>2 DEF SoundEmitter
    <3>4. SoundEmitter(r.em) /\ ~Failed(r.em)
      BY <2>2, <2>4, <3>2, <3>3 DEF SoundEmitter, Failed
    <3>5. /\ DOMAIN Placed(r.em) = DOMAIN Placed(em) \cup {id}
          /\ id \notin DOMAIN Placed(em)
          /\ Placed(r.em)[id] = fresh.v
          /\ \A other \in DOMAIN Placed(em) : Placed(r.em)[other] = Placed(em)[other]
      BY <1>5, <2>2, <2>4, <3>3 DEF Placed, HomesOf, Carved
    <3>6. /\ r.em.next \in Nat /\ em.next <= r.em.next /\ r.em.next <= MaxWord
      BY <2>2, <3>2 DEF StorageGrew, GrowsTo
    <3>7. DOMAIN Placed(r.em) \subseteq Local
      BY DEF Placed, HomesOf
    <3>8. StorageGrew(em, r.em)
      BY <2>2, <2>4, <3>2, <3>5, <3>6, <3>7 DEF StorageGrew, GrowsTo, Carved
    <3> QED
      BY <1>1, <2>2, <2>4, <3>1, <3>3, <3>4, <3>8 DEF Carved
  <2> QED
    BY <2>3, <2>4
<1> QED
  BY <1>3, <1>4, <1>5

\* `output`: the varnode asked for, or one from an allocation.
THEOREM OutputGrows ==
  ASSUME NEW em, SoundEmitter(em), NEW size \in Nat, NEW requested,
         requested # None => requested.size \in Nat
  PROVE  StorageGrew(em, Output(em, requested, size).em)
<1> DEFINE r == Output(em, requested, size)
<1>1. CASE requested = None
  BY <1>1, AllocationGrows DEF Output
<1>2. CASE requested # None /\ requested.size = 0
  <2>1. r.em = [em EXCEPT !.err = "ZeroSize"]
    BY <1>2 DEF Output, Err
  <2>2. r.em.next = em.next /\ r.em.locals = em.locals
    BY <2>1 DEF SoundEmitter
  <2> QED
    BY <2>2, PointerGrows DEF SoundEmitter
<1>3. CASE requested # None /\ requested.size # 0
  <2>1. r.em = em
    BY <1>3 DEF Output, Ok
  <2> QED
    BY <2>1, PointerGrows DEF SoundEmitter
<1> QED
  BY <1>1, <1>2, <1>3

\* `copy_if_requested` reports at most one operation and takes no storage.
THEOREM CopyTakesNothing ==
  ASSUME NEW em, SoundEmitter(em), NEW input, NEW requested,
         input.size \in Nat, requested # None => requested.size \in Nat
  PROVE  LET r == CopyIfRequested(em, input, requested)
         IN  r.em.next = em.next /\ r.em.locals = em.locals
<1> DEFINE r == CopyIfRequested(em, input, requested)
<1>1. ASSUME NEW opcode, NEW inputs, r = EmitTo(em, opcode, requested, inputs)
      PROVE  r.em.next = em.next /\ r.em.locals = em.locals
  <2>1. r.em = [em EXCEPT !.events = Append(em.events,
                  [event |-> "op", opcode |-> opcode, output |-> requested,
                   inputs |-> inputs])]
    BY <1>1 DEF EmitTo, Emit, Report, Ok
  <2> QED
    BY <2>1 DEF SoundEmitter
<1>2. CASE requested = None \/ requested = input
  <2>1. r.em = em
    BY <1>2 DEF CopyIfRequested, Ok
  <2> QED
    BY <2>1
<1>3. CASE requested # None /\ requested # input
  <2>1. CASE input.size = requested.size
    <3>1. r = EmitTo(em, "Copy", requested, <<input>>)
      BY <1>3, <2>1 DEF CopyIfRequested
    <3> QED
      BY <1>1, <3>1
  <2>2. CASE input.size < requested.size
    <3>1. r = EmitTo(em, "IntZext", requested, <<input>>)
      BY <1>3, <2>2 DEF CopyIfRequested
    <3> QED
      BY <1>1, <3>1
  <2>3. CASE input.size > requested.size
    <3>1. r = EmitTo(em, "SubPiece", requested, <<input, Constant(0, 8)>>)
      BY <1>3, <2>3 DEF CopyIfRequested
    <3> QED
      BY <1>1, <3>1
  <2> QED
    BY <1>3, <2>1, <2>2, <2>3
<1> QED
  BY <1>2, <1>3
=============================================================================
