---------------------------- MODULE GrowingSpace ----------------------------
(***************************************************************************)
(* What the emitter promises of the unique space (instruction.rs, the      *)
(* fields `next_unique` and `locals` of `Emitter`): a pointer that only    *)
(* grows, for each local placed so far a home, and temporaries that one    *)
(* operation writes and only the same statement reads.  A step takes any   *)
(* number of temporaries and homes and reports any number of events, as a  *)
(* statement does that may fail at any point.                              *)
(***************************************************************************)
EXTENDS LoweringContext, Sink

VARIABLE emitter    \* a record, of which its `next`, `locals` and `sizes` matter here

\* The first byte not handed out.
Pointer == emitter.next

\* The varnodes of the locals that have one.
HomesOf(locals) == [id \in {id \in Local : locals[id] # None} |-> locals[id]]

Homes == HomesOf(emitter.locals)

\* The widths the plan has for locals, or None.
PlannedSizes == emitter.sizes

spaceVars == <<emitter.next, emitter.locals, emitter.sizes, stream>>

----------------------------------------------------------------------------
(* Pieces of the unique space.                                             *)

Home == [space : {UniqueSpace}, offset : Nat, size : Nat \ {0}]

InUnique(v) == v # None /\ v.space = UniqueSpace

\* The byte after a varnode's last.
End(v) == v.offset + v.size

Apart(v, w) == End(v) <= w.offset \/ End(w) <= v.offset

Within(v, w) == w.offset <= v.offset /\ End(v) <= End(w)

Housed(v, homes) == \E id \in DOMAIN homes : Within(v, homes[id])

----------------------------------------------------------------------------
SpaceInit ==
    /\ emitter.next = 0
    /\ emitter.locals = [id \in Local |-> None]
    /\ stream = <<>>

NothingTaken == Pointer = 0 /\ DOMAIN Homes = {} /\ stream = <<>>

\* An emitter starts on a plan, before any statement.
Begin ==
    /\ NothingTaken
    /\ emitter'.next = 0 /\ emitter'.locals = emitter.locals /\ stream' = <<>>

\* From pointer `low` and homes `old` to `high` and `new`: homes stay, and new
\* ones are apart from each other in the bytes between the pointers.
GrowsTo(low, old, high, new) ==
    /\ high \in Nat /\ low <= high /\ high <= MaxWord
    /\ DOMAIN old \subseteq DOMAIN new /\ DOMAIN new \subseteq Local
    /\ \A id \in DOMAIN old : new[id] = old[id]
    /\ \A id \in DOMAIN new \ DOMAIN old :
          new[id] \in Home /\ low <= new[id].offset /\ End(new[id]) <= high
    /\ \A id, other \in DOMAIN new \ DOMAIN old :
          id # other => Apart(new[id], new[other])

\* The events of this step.
Fresh == Len(stream) + 1 .. Len(stream')

\* The k-th event writes `v`, a temporary: bytes handed out in this step that
\* are no local's, and that no other event of it writes.
WritesTemporary(k, v) ==
    /\ Pointer <= v.offset /\ End(v) <= Pointer'
    /\ \A id \in DOMAIN Homes' \ DOMAIN Homes : Apart(v, Homes'[id])
    /\ \A j \in Fresh \ {k} :
          InUnique(WrittenBy(stream'[j])) => Apart(v, WrittenBy(stream'[j]))

\* In the unique space an event writes a local, in whole or in part, or a
\* temporary.
WritesSoundly(k) ==
    LET v == WrittenBy(stream'[k])
    IN  InUnique(v) => v \in Home /\ (Housed(v, Homes') \/ WritesTemporary(k, v))

\* And it reads a local or what an earlier event of the statement wrote.
ReadsSoundly(k) ==
    \A v \in ReadBy(stream'[k]) : InUnique(v) =>
       /\ v \in Home
       /\ \/ Housed(v, Homes')
          \/ \E j \in Fresh : j < k /\ WrittenBy(stream'[j]) = v

\* New homes are as wide as the plan says, if it does.
PlacedAsPlanned ==
    \A id \in DOMAIN Homes' \ DOMAIN Homes :
       PlannedSizes[id] # None => Homes'[id].size = PlannedSizes[id]

Grow ==
    /\ GrowsTo(Pointer, Homes, Pointer', Homes')
    /\ PlannedSizes' = PlannedSizes
    /\ PlacedAsPlanned
    /\ stream' \in Seq(Range(stream')) /\ Len(stream) <= Len(stream')
    /\ \A k \in DOMAIN stream : stream'[k] = stream[k]
    /\ \A k \in Fresh : WritesSoundly(k) /\ ReadsSoundly(k)

SpaceSpec == SpaceInit /\ [][Begin \/ Grow]_spaceVars

----------------------------------------------------------------------------
(* Properties.                                                             *)

Overlap(v, w) == Bytes(v) \cap Bytes(w) # {}

\* The locals' varnodes.
LocalHomes == {Homes[id] : id \in DOMAIN Homes}

IsTemporary(v) == InUnique(v) /\ \A home \in LocalHomes : ~Overlap(v, home)

\* Local variables and temporaries live in disjoint bytes, all of them handed
\* out already: no operation writes a local's storage in passing.
LocalsDisjoint ==
    /\ \A id, other \in DOMAIN Homes :
          id # other => ~Overlap(Homes[id], Homes[other])
    /\ \A k \in DOMAIN stream :
          LET v == WrittenBy(stream[k])
          IN  InUnique(v) =>
                 /\ End(v) <= Pointer
                 /\ \A home \in LocalHomes :
                       Overlap(v, home) => Bytes(v) \subseteq Bytes(home)

\* Each temporary is written by one operation, and read only after it: no
\* value is read from unique storage that nothing computed.
TemporariesDefined ==
    /\ \A i, j \in DOMAIN stream :
          i # j /\ IsTemporary(WrittenBy(stream[i])) /\ WrittenBy(stream[j]) # None
             => ~Overlap(WrittenBy(stream[i]), WrittenBy(stream[j]))
    /\ \A j \in DOMAIN stream : \A v \in ReadBy(stream[j]) :
          IsTemporary(v) => \E i \in 1 .. j - 1 : WrittenBy(stream[i]) = v

\* A local is given storage at the width the plan gave it, and keeps it.
LocalsStayPut ==
    [][ /\ \A id \in DOMAIN Homes : id \in DOMAIN Homes' /\ Homes'[id] = Homes[id]
        /\ \A id \in DOMAIN Homes' :
              PlannedSizes'[id] # None => Homes'[id].size = PlannedSizes'[id] ]_spaceVars
============================================================================
