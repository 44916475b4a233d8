--------------------------- MODULE UniqueStorage ---------------------------
(***************************************************************************)
(* The emitter's storage (instruction.rs, `Emitter::allocate_unique`,      *)
(* `storage_for_ident`, `output`, `copy_if_requested`): temporaries and    *)
(* locals are carved from the unique space by a pointer that only grows.   *)
(*                                                                         *)
(* An emitter is a record `em`:                                            *)
(*   labels   the plan's label names                                       *)
(*   sizes    the plan's local widths, None where it has none              *)
(*   locals   the varnode each local was given, or None                    *)
(*   defined  the labels already emitted                                   *)
(*   next     next_unique                                                  *)
(*   events   what the current statement reported to the sink              *)
(*   err      the error the statement returned, or "ok"                    *)
(* Lowering returns [em, v]: the emitter after it, and the varnode that    *)
(* holds the value.                                                        *)
(***************************************************************************)
EXTENDS LoweringContext

NewEmitter(labels, sizes) ==
    [labels |-> labels, sizes |-> sizes, locals |-> [id \in Local |-> None],
     defined |-> {}, next |-> 0, events |-> <<>>, err |-> "ok"]

Ok(em, v) == [em |-> em, v |-> v]

Err(em, error) == [em |-> [em EXCEPT !.err = error], v |-> None]

Failed(em) == em.err # "ok"

\* The `?` operator: continue with K unless the result is an error.
Then(result, K(_, _)) ==
    IF Failed(result.em) THEN result ELSE K(result.em, result.v)

Report(em, event) == [em EXCEPT !.events = Append(@, event)]

Emit(em, opcode, output, inputs) ==
    Report(em, [event |-> "op", opcode |-> opcode, output |-> output,
                inputs |-> inputs])

\* Emits an operation and returns its output.
EmitTo(em, opcode, output, inputs) == Ok(Emit(em, opcode, output, inputs), output)

----------------------------------------------------------------------------
\* Faulty: the pointer wraps around.
AllocateWrapping(em, size) ==
    IF size = 0 THEN Err(em, "ZeroSize")
    ELSE Ok([em EXCEPT !.next = (@ + size) % (MaxWord + 1)],
            Varnode(UniqueSpace, em.next, size))

\* Faulty: the varnode starts where the next one will.
AllocatePast(em, size) ==
    IF size = 0 THEN Err(em, "ZeroSize")
    ELSE IF em.next + size > MaxWord THEN Err(em, "UniqueSpaceOverflow")
    ELSE Ok([em EXCEPT !.next = @ + size], Varnode(UniqueSpace, em.next + size, size))

AllocateUnique(em, size) ==
    IF size = 0 THEN Err(em, "ZeroSize")
    ELSE IF em.next + size > MaxWord THEN Err(em, "UniqueSpaceOverflow")
    ELSE Ok([em EXCEPT !.next = @ + size], Varnode(UniqueSpace, em.next, size))

\* Faulty: the width at hand first.
LocalSizeAtHand(em, id, size) == OrElse(size, em.sizes[id])

\* The width a local is used at: the plan's first, then the one at hand.
LocalSize(em, id, size) == OrElse(em.sizes[id], size)

LocalStorage(em, id, size) ==
    LET width == LocalSize(em, id, size)
        home == em.locals[id]
    IN  IF home # None
        THEN IF width # None /\ width # home.size
             THEN Err(em, "CopySizeMismatch")
             ELSE Ok(em, home)
        ELSE IF width = None THEN Err(em, "UnknownSize")
        ELSE LET fresh == AllocateUnique(em, width)
             IN  IF Failed(fresh.em) THEN fresh
                 ELSE Ok([fresh.em EXCEPT !.locals[id] = fresh.v], fresh.v)

StorageForIdent(em, ident, size) ==
    CASE ident.form = "Register" ->
            IF RegisterVarnode(ident.id) = None THEN Err(em, "UnknownRegister")
            ELSE Ok(em, RegisterVarnode(ident.id))
      [] ident.form = "Named"    -> LocalStorage(em, ident.id, size)
      [] ident.form = "BitRange" -> Err(em, "Unsupported")
      [] OTHER                   -> Err(em, "UnresolvedIdentifier")

\* Where a result goes: the requested output, or a fresh temporary.
Output(em, requested, size) ==
    IF requested = None THEN AllocateUnique(em, size)
    ELSE IF requested.size = 0 THEN Err(em, "ZeroSize")
    ELSE Ok(em, requested)

\* Faulty: takes a value of another width for a narrower one.
CopyOrExtend(em, input, requested) ==
    CASE requested = None  -> Ok(em, input)
      [] requested = input -> Ok(em, requested)
      [] OTHER ->
            EmitTo(em, IF input.size = requested.size THEN "Copy" ELSE "IntZext",
                   requested, <<input>>)

\* Moves a value into the requested output, extending or truncating it.
CopyIfRequested(em, input, requested) ==
    CASE requested = None  -> Ok(em, input)
      [] requested = input -> Ok(em, requested)
      [] OTHER ->
            CASE input.size = requested.size ->
                    EmitTo(em, "Copy", requested, <<input>>)
              [] input.size < requested.size ->
                    EmitTo(em, "IntZext", requested, <<input>>)
              [] OTHER ->
                    EmitTo(em, "SubPiece", requested, <<input, Constant(0, 8)>>)
============================================================================
