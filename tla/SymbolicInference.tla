------------------------- MODULE SymbolicInference -------------------------
(***************************************************************************)
(* Width inference of a source body, before any instruction is decoded     *)
(* (instruction.rs, `SymbolicWidth`, `resolve_body_widths`).  The export   *)
(* of a table operand is not known then; its width is a name, a member of  *)
(* OperandWidths.  Decoding picks what each table exports, and puts it in  *)
(* the operand's place.                                                    *)
(*                                                                         *)
(* The machine is SizeInference's.  What this module adds is the answer    *)
(* the body's producer gets, and what the decoded bodies would infer.      *)
(***************************************************************************)
EXTENDS SizeInference, Constraints, SequencesExt

CONSTANTS Exports   \* the registers a table may export

----------------------------------------------------------------------------
(* `resolve_body_widths`.                                                  *)

\* `BodyWidths::unsized_locals`: the locals used that have no width.
UnsizedLocals == LiveLocals \ SizedLocals

----------------------------------------------------------------------------
(* Decoding, as the producers of instructions do it: a register in the     *)
(* place of each table operand.                                            *)

DecodedIdent(ident, export) ==
    IF ident.form = "Table" THEN Register(export[ident.id]) ELSE ident

RECURSIVE Decoded(_, _)
Decoded(e, export) ==
    CASE e.kind = "Ident" -> [e EXCEPT !.ident = DecodedIdent(@, export)]
      [] e.kind = "Load"  -> [e EXCEPT !.ptr = Decoded(@, export)]
      [] e.kind = "Range" -> [e EXCEPT !.value = Decoded(@, export)]
      [] e.kind \in {"SubPieceMsb", "SubPieceLsb"} ->
            [e EXCEPT !.src = Decoded(@, export)]
      [] e.kind \in {"FunctionCall", "PcodeOp", "Internal"} ->
            [e EXCEPT !.args = [n \in DOMAIN @ |-> Decoded(@[n], export)]]
      [] e.kind = "Unop"  -> [e EXCEPT !.e = Decoded(@, export)]
      [] e.kind = "Binop" -> [e EXCEPT !.lhs = Decoded(@, export),
                                       !.rhs = Decoded(@, export)]
      [] e.kind = "SizedInt" -> e

DecodedStatement(st, export) ==
    [field \in DOMAIN st |->
       CASE field = "lhs" -> DecodedIdent(st.lhs, export)
         [] field \in {"rhs", "load", "range", "condition", "expr"} ->
               Decoded(st[field], export)
         [] field = "target" /\ st.kind \in {"BranchIndirect", "CallIndirect", "Return"} ->
               Decoded(st.target, export)
         [] OTHER -> st[field]]

DecodedBody(export) ==
    [k \in DOMAIN statements |-> DecodedStatement(statements[k], export)]

\* The widths known after every statement of `body` is fed once.
AfterPass(known, body) == FoldLeft(AfterStatement, known, body)

\* The widths known after up to n passes: one that finds nothing is the last.
RECURSIVE AfterPasses(_, _, _)
AfterPasses(n, known, body) ==
    IF n = 0 \/ AfterPass(known, body) = known THEN known
    ELSE AfterPasses(n - 1, AfterPass(known, body), body)

\* What concrete inference answers for `body`.
Inferred(body) == AfterPasses(Len(body) + 1, NoSizes, body)

\* A width found before decoding, once the exports are known.
Resolved(width, export) ==
    IF width \notin OperandWidths THEN width
    ELSE LET t == CHOOSE t \in DOMAIN TableOperands : TableOperands[t] = width
         IN  RegisterVarnode(export[t]).size

Decodings == [DOMAIN TableOperands -> Exports]

----------------------------------------------------------------------------
(* Properties.                                                             *)

RECURSIVE NodesOf(_)
NodesOf(e) == {e} \cup UNION {NodesOf(part) : part \in Range(Subexpressions(e))}

StatementNodes(st) ==
    CASE st.kind \in {"Assignment", "LoadAssignment", "RangeAssignment"} ->
            NodesOf(st.rhs)
              \cup (IF st.kind = "LoadAssignment" THEN NodesOf(st.load) ELSE {})
      [] st.kind = "ConditionalBranch" -> NodesOf(st.condition)
      [] st.kind \in {"BranchIndirect", "CallIndirect", "Return"} -> NodesOf(st.target)
      [] st.kind = "Expression" -> NodesOf(st.expr)
      [] OTHER -> {}

MentionsTable ==
    \E k \in DOMAIN statements : statements[k] # DecodedStatement(statements[k],
        [t \in DOMAIN TableOperands |-> None])

\* A body asks more of a width than a name can tell: it drops low bytes, whose
\* number is subtracted from a width, or takes the address of an operand, which
\* is as wide as the addresses of a space not known yet.
ComputesWidths ==
    \E k \in DOMAIN statements : \E e \in StatementNodes(statements[k]) :
       \/ e.kind = "SubPieceMsb"
       \/ /\ e.kind = "Unop"
          /\ e.op = "AddressOf"
          /\ e.e.kind = "Ident"
          /\ e.e.ident.form = "Table"

\* The widths found once for the source body are, with the exports' widths
\* put in, those that inference finds for each decoded instruction: the
\* producer may infer once and lower every decoding with the answer.
SymbolicAgrees ==
    done /\ MentionsTable /\ ~ComputesWidths =>
       \A export \in Decodings :
          [id \in Local |-> Resolved(sizes[id], export)] = Inferred(DecodedBody(export))

\* The order of the statements does not decide which locals get a width, as
\* long as the passes suffice and no width is subtracted from that may be a
\* name (it does decide which width).
OrderIrrelevantToCoverage ==
    done /\ LocalsFit /\ ~ (MentionsTable /\ ComputesWidths) =>
       LET backward == AfterPasses(Cardinality(Local) + 1, NoSizes, Reverse(statements))
       IN  {id \in Local : backward[id] # None} = SizedLocals

\* `BodyWidths`: the locals reported as unsized "are unsizable by *any*
\* decode - nothing a producer substitutes can give them a width".
UnsizedByAnyDecode ==
    done =>
       \A id \in UnsizedLocals : \A export \in Decodings :
          Inferred(DecodedBody(export))[id] = None
============================================================================
