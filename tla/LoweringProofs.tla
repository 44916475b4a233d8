--------------------------- MODULE LoweringProofs ---------------------------
(***************************************************************************)
(* Lowering an instruction, for any statements and expressions, any        *)
(* registers and spaces and any number of locals (LowerInstruction).       *)
(*                                                                         *)
(* By induction on how deep an expression nests, lowering it computes into *)
(* temporaries, or the storage it was given, from what may be read         *)
(* (ExpressionsLower).  So each statement computes and then assigns,       *)
(* stores, branches, calls or fails (StatementLowers), which is a step of  *)
(* the abstract pipeline and of the growing space (LowerStep): lowering    *)
(* implements both, and what is proved of them holds of it.                *)
(*                                                                         *)
(* By the same induction, lowering an expression calls its user operations *)
(* in order (ExpressionsCallInOrder), and so does a statement              *)
(* (StatementCalls): no other event calls one.                             *)
(***************************************************************************)
EXTENDS LowerInstruction, StorageProofs, PipelineProofs, WellFoundedInduction,
        SequenceTheorems

----------------------------------------------------------------------------
(* Recursion.  Each hypothesis says of a constant that stands for a        *)
(* recursive function (Nodes) that it is what its definition says, for any *)
(* expression.  An instance that gives the constant that definition, as    *)
(* MCLower's does, makes it true.                                          *)

SizeRecurs == \A env : \A e \in Expressions : ExprSize(env, e) = ExprSizeByKind(env, e)

ConstrainRecurs ==
    \A env, expected : \A e \in Expressions :
       ConstrainExpr(env, e, expected) = ConstrainExprByKind(env, e, expected)

LocalsRecur == \A e \in Expressions : LocalsOf(e) = LocalsOfByKind(e)

UseropsRecur == \A e \in Expressions : UseropsOf(e) = UseropsOfByKind(e)

\* A set of numbers has a least one.
LEMMA LeastNumber ==
  ASSUME NEW T, T \subseteq Nat, T # {}
  PROVE  \E n \in T : \A m \in T : n <= m
<1>1. PICK n \in T : \A m \in T : ~ (<<m, n>> \in OpToRel(<, Nat))
  BY NatLessThanWellFounded, WFMin
<1>2. \A m \in T : ~ (m < n)
  BY <1>1 DEF OpToRel
<1>3. ASSUME NEW m \in T PROVE n <= m
  <2>1. m \in Nat /\ n \in Nat /\ ~ (m < n)
    BY <1>2
  <2> QED
    BY <2>1
<1> QED
  BY <1>3

\* What holds of an expression whenever it does of those that nest less holds
\* of all.
LEMMA ByDepth ==
  ASSUME NEW Good,
         \A e \in Expressions :
            (\A f \in Expressions : Depth[f] < Depth[e] => f \in Good) => e \in Good
  PROVE  Expressions \subseteq Good
<1> DEFINE Depths == {Depth[e] : e \in Expressions \ Good}
<1>1. CASE Depths = {}
  BY <1>1
<1>2. CASE Depths # {}
  <2>1. Depths \subseteq Nat
    BY ExpressionsAssumption
  <2> HIDE DEF Depths
  <2>2. PICK n \in Depths : \A m \in Depths : n <= m
    BY <1>2, <2>1, LeastNumber
  <2>3. PICK e \in Expressions \ Good : n = Depth[e]
    BY <2>2 DEF Depths
  <2>4. ASSUME NEW f \in Expressions, Depth[f] < Depth[e], f \notin Good PROVE FALSE
    <3>1. Depth[f] \in Depths /\ Depth[f] \in Nat /\ Depth[e] \in Nat
      BY <2>4, ExpressionsAssumption DEF Depths
    <3> QED
      BY <2>2, <2>3, <2>4, <3>1
  <2> QED
    BY <2>3, <2>4
<1> QED
  BY <1>1, <1>2

\* The same, of the numbers up to one.
LEMMA UpTo ==
  ASSUME NEW N \in Nat, NEW Good, 0 \in Good,
         \A n \in 1 .. N : n - 1 \in Good => n \in Good
  PROVE  0 .. N \subseteq Good
<1> DEFINE Bad == (0 .. N) \ Good
<1>1. CASE Bad # {}
  <2>1. PICK n \in Bad : \A m \in Bad : n <= m
    <3>1. Bad \subseteq Nat
      OBVIOUS
    <3> HIDE DEF Bad
    <3> QED
      BY <1>1, <3>1, LeastNumber
  <2>2. n \in 1 .. N /\ n - 1 \in 0 .. N /\ n - 1 \notin Bad
    BY <2>1
  <2> QED
    BY <2>1, <2>2
<1> QED
  BY <1>1

\* The parts of an expression, by its kind.
LEMMA PartsNestLess ==
  ASSUME NEW e \in Expressions
  PROVE  /\ e.kind = "Load" => e.ptr \in Expressions /\ Depth[e.ptr] < Depth[e]
         /\ e.kind = "Range" => e.value \in Expressions /\ Depth[e.value] < Depth[e]
         /\ e.kind \in {"SubPieceMsb", "SubPieceLsb"} =>
               e.src \in Expressions /\ Depth[e.src] < Depth[e]
         /\ e.kind = "Unop" => e.e \in Expressions /\ Depth[e.e] < Depth[e]
         /\ e.kind = "Binop" =>
               /\ e.lhs \in Expressions /\ Depth[e.lhs] < Depth[e]
               /\ e.rhs \in Expressions /\ Depth[e.rhs] < Depth[e]
         /\ e.kind \in {"FunctionCall", "PcodeOp", "Internal"} =>
               /\ e.args \in Seq(Expressions)
               /\ \A n \in DOMAIN e.args : Depth[e.args[n]] < Depth[e]
<1> DEFINE parts == Subexpressions(e)
<1>1. parts \in Seq(Expressions) /\ \A n \in DOMAIN parts : Depth[parts[n]] < Depth[e]
  BY ExpressionsAssumption
<1> HIDE DEF parts
<1>2. ASSUME NEW part, parts = <<part>>
      PROVE  part \in Expressions /\ Depth[part] < Depth[e]
  BY <1>1, <1>2
<1>3. ASSUME NEW one, NEW other, parts = <<one, other>>
      PROVE  /\ one \in Expressions /\ Depth[one] < Depth[e]
             /\ other \in Expressions /\ Depth[other] < Depth[e]
  BY <1>1, <1>3
<1>4. e.kind = "Load" => parts = <<e.ptr>>
  BY DEF parts, Subexpressions
<1>5. e.kind = "Range" => parts = <<e.value>>
  BY DEF parts, Subexpressions
<1>6. e.kind \in {"SubPieceMsb", "SubPieceLsb"} => parts = <<e.src>>
  BY DEF parts, Subexpressions
<1>7. e.kind = "Unop" => parts = <<e.e>>
  BY DEF parts, Subexpressions
<1>8. e.kind = "Binop" => parts = <<e.lhs, e.rhs>>
  BY DEF parts, Subexpressions
<1>9. e.kind \in {"FunctionCall", "PcodeOp", "Internal"} => parts = e.args
  BY DEF parts, Subexpressions
<1> QED
  BY <1>1, <1>2, <1>3, <1>4, <1>5, <1>6, <1>7, <1>8, <1>9

----------------------------------------------------------------------------
(* Widths.                                                                 *)

Width == Count \cup OperandWidths

IsEnv(env) ==
    /\ env = [sizes |-> env.sizes, operand |-> env.operand]
    /\ env.sizes \in [Local -> Width]
    /\ env.operand \in [DOMAIN TableOperands -> Width]

\* A width's bytes are a count.
LEMMA WidthTypes ==
  ASSUME NEW width \in Width
  PROVE  Concrete(width) \in Count
  BY NoneAssumption DEF Width, Concrete, Count

\* The bytes that hold a count of bits are a count.
LEMMA BytesType ==
  ASSUME NEW bits \in Count
  PROVE  DivCeilByte(bits) \in Count
<1>1. ASSUME bits \in Nat PROVE (bits + ByteBits - 1) \div ByteBits \in Nat
  BY <1>1, WidthsAssumption
<1> QED
  BY <1>1 DEF DivCeilByte, Count

\* A subtraction that may be absent is a count.
LEMMA SubType ==
  ASSUME NEW width \in Count, NEW count \in Nat
  PROVE  CheckedSub(width, count) \in Count
  BY DEF CheckedSub, Count

\* The width of a named storage is a width.
LEMMA StorageSizeType ==
  ASSUME NEW env, IsEnv(env), NEW ident, IsIdent(ident)
  PROVE  StorageSize(env, ident) \in Width
<1>1. ASSUME NEW id \in DOMAIN BitRanges PROVE DivCeilByte(BitRanges[id].bits) \in Count
  BY BytesType, ContextAssumption DEF Count
<1>2. \A id \in DOMAIN Registers : Registers[id].size \in Nat
  BY ContextAssumption
<1> QED
  BY <1>1, <1>2 DEF StorageSize, RegisterVarnode, BitRangeInfo, Width, Count, IsEnv, IsIdent

\* `expr_size` answers a width.
LEMMA ExprSizeType ==
  ASSUME SizeRecurs, NEW e \in Expressions, NEW env, IsEnv(env)
  PROVE  ExprSize(env, e) \in Width
<1> DEFINE Typed(f) == ExprSize(env, f) \in Width
           Good == {f \in Expressions : Typed(f)}
<1>1. ASSUME NEW f \in Expressions,
             \A part \in Expressions : Depth[part] < Depth[f] => Typed(part)
      PROVE  Typed(f)
  <2>1. ExprSize(env, f) = ExprSizeByKind(env, f)
    BY DEF SizeRecurs
  <2>2. IsExpression(f) /\ f.size \in Width
    BY ExpressionsAssumption DEF IsExpression, Width
  <2>3. {None, 1} \subseteq Width
    BY DEF Width, Count
  <2>4. \A a, b \in Width : OrElse(a, b) \in Width
    BY DEF OrElse
  <2>5. CASE f.kind = "SizedInt"
    BY <2>1, <2>2, <2>4, <2>5 DEF ExprSizeByKind, IsExpression, Width
  <2>6. CASE f.kind = "Ident"
    BY <2>1, <2>2, <2>4, <2>6, StorageSizeType DEF ExprSizeByKind, IsExpression
  <2>7. CASE f.kind = "Load"
    BY <2>1, <2>2, <2>4, <2>7 DEF ExprSizeByKind, IsExpression, Width
  <2>8. CASE f.kind = "SubPieceLsb"
    BY <2>1, <2>2, <2>4, <2>8 DEF ExprSizeByKind, IsExpression, Width, Count
  <2>9. CASE f.kind = "SubPieceMsb"
    <3>1. f.count \in Nat
      BY <2>2, <2>9 DEF IsExpression
    <3>2. Typed(f.src)
      BY <1>1, <2>9, PartsNestLess
    <3>3. CheckedSub(Concrete(ExprSize(env, f.src)), f.count) \in Width
      BY <3>1, <3>2, SubType, WidthTypes DEF Width
    <3> QED
      BY <2>1, <2>2, <2>3, <2>4, <2>9, <3>3 DEF ExprSizeByKind
  <2>10. CASE f.kind = "Range"
    <3>1. DivCeilByte(f.bits) \in Width
      BY <2>2, <2>10, BytesType DEF IsExpression, Width
    <3> QED
      BY <2>1, <2>2, <2>4, <2>10, <3>1 DEF ExprSizeByKind
  <2>11. CASE f.kind = "FunctionCall"
    BY <2>1, <2>2, <2>3, <2>4, <2>11 DEF ExprSizeByKind
  <2>12. CASE f.kind = "Unop"
    <3>1. Typed(f.e)
      BY <1>1, <2>12, PartsNestLess
    <3> QED
      BY <2>1, <2>2, <2>3, <2>4, <2>12, <3>1 DEF ExprSizeByKind
  <2>13. CASE f.kind = "Binop"
    <3>1. Typed(f.lhs) /\ Typed(f.rhs)
      BY <1>1, <2>13, PartsNestLess
    <3> QED
      BY <2>1, <2>2, <2>3, <2>4, <2>13, <3>1 DEF ExprSizeByKind
  <2>14. CASE f.kind \in {"PcodeOp", "Internal"}
    BY <2>1, <2>2, <2>3, <2>4, <2>14 DEF ExprSizeByKind
  <2> QED
    BY <2>2, <2>5, <2>6, <2>7, <2>8, <2>9, <2>10, <2>11, <2>12, <2>13, <2>14
       DEF IsExpression
<1>2. Expressions \subseteq Good
  <2>1. \A f \in Expressions :
           (\A part \in Expressions : Depth[part] < Depth[f] => part \in Good) => f \in Good
    BY <1>1
  <2> HIDE DEF Good
  <2> QED
    BY <2>1, ByDepth
<1> QED
  BY <1>2

----------------------------------------------------------------------------
(* Constraining an expression.                                             *)

\* Constraining a list, one by one.
LEMMA AllUnfolds ==
  ASSUME NEW env, NEW args, NEW expected, Len(args) \in Nat
  PROVE  \E g : /\ ConstrainAll(env, args, expected) = g[Len(args)]
               /\ \A n \in 0 .. Len(args) :
                     g[n] = IF n = 0 THEN env ELSE Constrain(g[n - 1], args[n], expected)
<1> DEFINE Runs(k) == \E g : g = [n \in 0 .. k |-> IF n = 0 THEN env ELSE Constrain(g[n - 1], args[n], expected)]
           Good == {k \in Nat : Runs(k)}
<1>1. Runs(0)
  <2> DEFINE g == [n \in 0 .. 0 |-> env]
  <2>1. g = [n \in 0 .. 0 |-> IF n = 0 THEN env ELSE Constrain(g[n - 1], args[n], expected)]
    OBVIOUS
  <2> QED
    BY <2>1
<1>2. ASSUME NEW k \in Nat, k # 0, Runs(k - 1) PROVE Runs(k)
  <2>1. PICK g : g = [n \in 0 .. k - 1 |-> IF n = 0 THEN env ELSE Constrain(g[n - 1], args[n], expected)]
    BY <1>2
  <2> DEFINE h == [n \in 0 .. k |-> IF n = k THEN Constrain(g[k - 1], args[k], expected) ELSE g[n]]
  <2>2. ASSUME NEW n \in 0 .. k
        PROVE  h[n] = IF n = 0 THEN env ELSE Constrain(h[n - 1], args[n], expected)
    <3>1. CASE n = k
      BY <1>2, <3>1
    <3>2. CASE n # k
      <4>1. n \in 0 .. k - 1 /\ (n # 0 => n - 1 \in 0 .. k - 1 /\ n - 1 # k)
        BY <1>2, <3>2
      <4>2. h[n] = g[n] /\ (n # 0 => h[n - 1] = g[n - 1])
        BY <1>2, <3>2, <4>1
      <4>3. g[n] = IF n = 0 THEN env ELSE Constrain(g[n - 1], args[n], expected)
        BY <2>1, <4>1
      <4> QED
        BY <4>2, <4>3
    <3> QED
      BY <3>1, <3>2
  <2>3. h = [n \in 0 .. k |-> h[n]]
    OBVIOUS
  <2> HIDE DEF h
  <2>4. h = [n \in 0 .. k |-> IF n = 0 THEN env ELSE Constrain(h[n - 1], args[n], expected)]
    BY <2>2, <2>3
  <2> QED
    BY <2>4
<1> HIDE DEF Runs
<1>3. 0 \in Good /\ \A k \in 1 .. Len(args) : k - 1 \in Good => k \in Good
  BY <1>1, <1>2
<1>4. Runs(Len(args))
  <2> HIDE DEF Good
  <2>1. 0 .. Len(args) \subseteq Good
    BY <1>3, UpTo
  <2> QED
    BY <2>1 DEF Good
<1> DEFINE g == CHOOSE g : g = [n \in 0 .. Len(args) |-> IF n = 0 THEN env ELSE Constrain(g[n - 1], args[n], expected)]
<1>5. g = [n \in 0 .. Len(args) |-> IF n = 0 THEN env ELSE Constrain(g[n - 1], args[n], expected)]
  BY <1>4 DEF Runs
<1>6. ConstrainAll(env, args, expected) = g[Len(args)]
  BY DEF ConstrainAll
<1> HIDE DEF g
<1>7. \A n \in 0 .. Len(args) : g[n] = IF n = 0 THEN env ELSE Constrain(g[n - 1], args[n], expected)
  BY <1>5
<1> QED
  BY <1>6, <1>7

\* And up to the first that has a width.
LEMMA UntilKnownUnfolds ==
  ASSUME NEW env, NEW args, Len(args) \in Nat
  PROVE  \E g : /\ ConstrainUntilKnown(env, args) = g[Len(args)]
               /\ \A n \in 0 .. Len(args) :
                     g[n] = IF n = 0 THEN Known(env, None) ELSE ConstrainUnlessKnown(g[n - 1], args[n])
<1> DEFINE Runs(k) == \E g : g = [n \in 0 .. k |-> IF n = 0 THEN Known(env, None) ELSE ConstrainUnlessKnown(g[n - 1], args[n])]
           Good == {k \in Nat : Runs(k)}
<1>1. Runs(0)
  <2> DEFINE g == [n \in 0 .. 0 |-> Known(env, None)]
  <2>1. g = [n \in 0 .. 0 |-> IF n = 0 THEN Known(env, None) ELSE ConstrainUnlessKnown(g[n - 1], args[n])]
    OBVIOUS
  <2> QED
    BY <2>1
<1>2. ASSUME NEW k \in Nat, k # 0, Runs(k - 1) PROVE Runs(k)
  <2>1. PICK g : g = [n \in 0 .. k - 1 |-> IF n = 0 THEN Known(env, None) ELSE ConstrainUnlessKnown(g[n - 1], args[n])]
    BY <1>2
  <2> DEFINE h == [n \in 0 .. k |-> IF n = k THEN ConstrainUnlessKnown(g[k - 1], args[k]) ELSE g[n]]
  <2>2. ASSUME NEW n \in 0 .. k
        PROVE  h[n] = IF n = 0 THEN Known(env, None) ELSE ConstrainUnlessKnown(h[n - 1], args[n])
    <3>1. CASE n = k
      BY <1>2, <3>1
    <3>2. CASE n # k
      <4>1. n \in 0 .. k - 1 /\ (n # 0 => n - 1 \in 0 .. k - 1 /\ n - 1 # k)
        BY <1>2, <3>2
      <4>2. h[n] = g[n] /\ (n # 0 => h[n - 1] = g[n - 1])
        BY <1>2, <3>2, <4>1
      <4>3. g[n] = IF n = 0 THEN Known(env, None) ELSE ConstrainUnlessKnown(g[n - 1], args[n])
        BY <2>1, <4>1
      <4> QED
        BY <4>2, <4>3
    <3> QED
      BY <3>1, <3>2
  <2>3. h = [n \in 0 .. k |-> h[n]]
    OBVIOUS
  <2> HIDE DEF h
  <2>4. h = [n \in 0 .. k |-> IF n = 0 THEN Known(env, None) ELSE ConstrainUnlessKnown(h[n - 1], args[n])]
    BY <2>2, <2>3
  <2> QED
    BY <2>4
<1> HIDE DEF Runs
<1>3. 0 \in Good /\ \A k \in 1 .. Len(args) : k - 1 \in Good => k \in Good
  BY <1>1, <1>2
<1>4. Runs(Len(args))
  <2> HIDE DEF Good
  <2>1. 0 .. Len(args) \subseteq Good
    BY <1>3, UpTo
  <2> QED
    BY <2>1 DEF Good
<1> DEFINE g == CHOOSE g : g = [n \in 0 .. Len(args) |-> IF n = 0 THEN Known(env, None) ELSE ConstrainUnlessKnown(g[n - 1], args[n])]
<1>5. g = [n \in 0 .. Len(args) |-> IF n = 0 THEN Known(env, None) ELSE ConstrainUnlessKnown(g[n - 1], args[n])]
  BY <1>4 DEF Runs
<1>6. ConstrainUntilKnown(env, args) = g[Len(args)]
  BY DEF ConstrainUntilKnown
<1> HIDE DEF g
<1>7. \A n \in 0 .. Len(args) : g[n] = IF n = 0 THEN Known(env, None) ELSE ConstrainUnlessKnown(g[n - 1], args[n])
  BY <1>5
<1> QED
  BY <1>6, <1>7

\* From `env` to `after`, some of `locals` that had no width got one, and
\* nothing else changed.
Adds(env, after, locals) ==
    /\ IsEnv(after)
    /\ after.operand = env.operand
    /\ \A id \in Local : after.sizes[id] # env.sizes[id] =>
          env.sizes[id] = None /\ id \in locals

Constrained(env, found, locals) == Adds(env, found.env, locals) /\ found.width \in Width

\* Knowing what was known adds nothing.
LEMMA AddsNothing ==
  ASSUME NEW env, IsEnv(env), NEW locals
  PROVE  Adds(env, env, locals)
  BY DEF Adds

\* Additions compose.
LEMMA AddsMore ==
  ASSUME NEW env, NEW mid, NEW after, NEW locals, NEW more, NEW all,
         Adds(env, mid, locals), Adds(mid, after, more),
         locals \subseteq all, more \subseteq all
  PROVE  Adds(env, after, all)
  BY DEF Adds

\* `found` adds at most its local's width.
LEMMA FoundAdds ==
  ASSUME NEW env, IsEnv(env), NEW id \in Local, NEW width \in Width
  PROVE  Adds(env, Found(env, id, width), {id})
<1>1. CASE env.sizes[id] # None
  BY <1>1, AddsNothing DEF Found
<1>2. CASE env.sizes[id] = None
  <2> DEFINE after == Found(env, id, width)
             sizes1 == [env.sizes EXCEPT ![id] = width]
  <2>1. env = [sizes |-> env.sizes, operand |-> env.operand] /\ env.sizes \in [Local -> Width]
    BY DEF IsEnv
  <2>2. after = [env EXCEPT !.sizes = sizes1]
    BY <1>2 DEF Found
  <2> HIDE DEF after, sizes1
  <2>3. after = [sizes |-> sizes1, operand |-> env.operand]
    BY <2>1, <2>2
  <2>4. /\ sizes1 \in [Local -> Width]
        /\ \A other \in Local : sizes1[other] # env.sizes[other] => other = id
    BY <2>1 DEF sizes1
  <2>5. after.sizes = sizes1 /\ after.operand = env.operand
    BY <2>3
  <2> QED
    BY <1>2, <2>3, <2>4, <2>5 DEF Adds, IsEnv, after
<1> QED
  BY <1>1, <1>2

\* What holds of the constrained expression, whatever is known and expected.
Conforms(e) ==
    \A env, expected : IsEnv(env) /\ expected \in Width =>
       Constrained(env, ConstrainExpr(env, e, expected), LocalsOf(e))

\* An expression that conforms does so among more locals, its width kept or
\* dropped.
LEMMA ConstrainAdds ==
  ASSUME NEW e, Conforms(e), NEW env, IsEnv(env), NEW expected \in Width, NEW locals,
         LocalsOf(e) \subseteq locals
  PROVE  /\ Constrained(env, ConstrainExpr(env, e, expected), locals)
         /\ Adds(env, Constrain(env, e, expected), locals)
  BY DEF Conforms, Constrained, Adds, Constrain

\* Constraining arguments to one width adds widths of their locals.
LEMMA AllAdds ==
  ASSUME NEW env, IsEnv(env), NEW args \in Seq(Expressions), NEW expected \in Width,
         NEW locals,
         \A n \in DOMAIN args : Conforms(args[n]) /\ LocalsOf(args[n]) \subseteq locals
  PROVE  Adds(env, ConstrainAll(env, args, expected), locals)
<1>1. Len(args) \in Nat /\ DOMAIN args = 1 .. Len(args)
  OBVIOUS
<1>2. PICK g : /\ ConstrainAll(env, args, expected) = g[Len(args)]
               /\ \A n \in 0 .. Len(args) :
                     g[n] = IF n = 0 THEN env ELSE Constrain(g[n - 1], args[n], expected)
  BY <1>1, AllUnfolds
<1> DEFINE Good == {n \in 0 .. Len(args) : Adds(env, g[n], locals)}
<1>3. 0 \in Good
  BY <1>1, <1>2, AddsNothing
<1>4. ASSUME NEW n \in 1 .. Len(args), n - 1 \in Good PROVE n \in Good
  <2>1. Adds(env, g[n - 1], locals) /\ IsEnv(g[n - 1])
    BY <1>4 DEF Adds
  <2>2. Conforms(args[n]) /\ LocalsOf(args[n]) \subseteq locals
    BY <1>1, <1>4
  <2>3. Adds(g[n - 1], Constrain(g[n - 1], args[n], expected), locals)
    BY <2>1, <2>2, ConstrainAdds
  <2>4. n \in 0 .. Len(args) /\ g[n] = Constrain(g[n - 1], args[n], expected)
    BY <1>1, <1>2, <1>4
  <2> QED
    BY <2>1, <2>3, <2>4, AddsMore
<1>5. 0 .. Len(args) \subseteq Good
  <2> HIDE DEF Good
  <2> QED
    BY <1>1, <1>3, <1>4, UpTo
<1> QED
  BY <1>1, <1>2, <1>5

\* So does looking for the first argument that has a width.
LEMMA UntilKnownAdds ==
  ASSUME NEW env, IsEnv(env), NEW args \in Seq(Expressions), NEW locals,
         \A n \in DOMAIN args : Conforms(args[n]) /\ LocalsOf(args[n]) \subseteq locals
  PROVE  Constrained(env, ConstrainUntilKnown(env, args), locals)
<1>1. Len(args) \in Nat /\ DOMAIN args = 1 .. Len(args) /\ None \in Width
  BY DEF Width, Count
<1>2. PICK g : /\ ConstrainUntilKnown(env, args) = g[Len(args)]
               /\ \A n \in 0 .. Len(args) :
                     g[n] = IF n = 0 THEN Known(env, None)
                            ELSE ConstrainUnlessKnown(g[n - 1], args[n])
  BY <1>1, UntilKnownUnfolds
<1> DEFINE Good == {n \in 0 .. Len(args) : Constrained(env, g[n], locals)}
<1>3. 0 \in Good
  BY <1>1, <1>2, AddsNothing DEF Constrained, Known
<1>4. ASSUME NEW n \in 1 .. Len(args), n - 1 \in Good PROVE n \in Good
  <2>1. Constrained(env, g[n - 1], locals) /\ IsEnv(g[n - 1].env)
    BY <1>4 DEF Constrained, Adds
  <2>2. n \in 0 .. Len(args) /\ g[n] = ConstrainUnlessKnown(g[n - 1], args[n])
    BY <1>1, <1>2, <1>4
  <2>3. CASE g[n - 1].width # None
    BY <2>1, <2>2, <2>3 DEF ConstrainUnlessKnown
  <2>4. CASE g[n - 1].width = None
    <3>1. g[n] = ConstrainExpr(g[n - 1].env, args[n], None)
      BY <2>2, <2>4 DEF ConstrainUnlessKnown
    <3>2. Conforms(args[n]) /\ LocalsOf(args[n]) \subseteq locals
      BY <1>1, <1>4
    <3>3. Constrained(g[n - 1].env, g[n], locals)
      BY <1>1, <2>1, <3>1, <3>2, ConstrainAdds
    <3> QED
      BY <2>1, <2>2, <3>3, AddsMore DEF Constrained
  <2> QED
    BY <2>3, <2>4
<1>5. 0 .. Len(args) \subseteq Good
  <2> HIDE DEF Good
  <2> QED
    BY <1>1, <1>3, <1>4, UpTo
<1> QED
  BY <1>1, <1>2, <1>5

\* What an expression names includes what its parts name.
LEMMA PartLocals ==
  ASSUME LocalsRecur, NEW e \in Expressions
  PROVE  /\ e.kind = "Load" => LocalsOf(e.ptr) \subseteq LocalsOf(e)
         /\ e.kind = "Range" => LocalsOf(e.value) \subseteq LocalsOf(e)
         /\ e.kind \in {"SubPieceMsb", "SubPieceLsb"} => LocalsOf(e.src) \subseteq LocalsOf(e)
         /\ e.kind = "Unop" => LocalsOf(e.e) \subseteq LocalsOf(e)
         /\ e.kind = "Binop" => LocalsOf(e.lhs) \subseteq LocalsOf(e)
                                /\ LocalsOf(e.rhs) \subseteq LocalsOf(e)
         /\ e.kind \in {"FunctionCall", "PcodeOp", "Internal"} =>
               \A n \in DOMAIN e.args : LocalsOf(e.args[n]) \subseteq LocalsOf(e)
         /\ e.kind = "Ident" => LocalsOf(e) = IdentLocals(e.ident)
<1> DEFINE parts == Subexpressions(e)
<1>1. e.kind # "Ident" => LocalsOf(e) = UNION {LocalsOf(part) : part \in Range(parts)}
  BY DEF LocalsRecur, LocalsOfByKind
<1>2. e.kind # "Ident" => \A n \in DOMAIN parts : LocalsOf(parts[n]) \subseteq LocalsOf(e)
  BY <1>1 DEF Range
<1> HIDE DEF parts
<1>3. ASSUME NEW part, parts = <<part>>, e.kind # "Ident" PROVE LocalsOf(part) \subseteq LocalsOf(e)
  BY <1>2, <1>3
<1>4. ASSUME NEW one, NEW other, parts = <<one, other>>, e.kind # "Ident"
      PROVE  LocalsOf(one) \subseteq LocalsOf(e) /\ LocalsOf(other) \subseteq LocalsOf(e)
  BY <1>2, <1>4
<1>5. e.kind = "Load" => LocalsOf(e.ptr) \subseteq LocalsOf(e)
  BY <1>3 DEF parts, Subexpressions
<1>6. e.kind = "Range" => LocalsOf(e.value) \subseteq LocalsOf(e)
  BY <1>3 DEF parts, Subexpressions
<1>7. e.kind \in {"SubPieceMsb", "SubPieceLsb"} => LocalsOf(e.src) \subseteq LocalsOf(e)
  BY <1>3 DEF parts, Subexpressions
<1>8. e.kind = "Unop" => LocalsOf(e.e) \subseteq LocalsOf(e)
  BY <1>3 DEF parts, Subexpressions
<1>9. e.kind = "Binop" => LocalsOf(e.lhs) \subseteq LocalsOf(e) /\ LocalsOf(e.rhs) \subseteq LocalsOf(e)
  BY <1>4 DEF parts, Subexpressions
<1>10. e.kind \in {"FunctionCall", "PcodeOp", "Internal"} =>
          \A n \in DOMAIN e.args : LocalsOf(e.args[n]) \subseteq LocalsOf(e)
  BY <1>2 DEF parts, Subexpressions
<1>11. e.kind = "Ident" => LocalsOf(e) = IdentLocals(e.ident)
  BY DEF LocalsRecur, LocalsOfByKind
<1> QED
  BY <1>5, <1>6, <1>7, <1>8, <1>9, <1>10, <1>11

\* An expression names locals.
LEMMA LocalsAreLocal ==
  ASSUME LocalsRecur, NEW e \in Expressions
  PROVE  LocalsOf(e) \subseteq Local
<1> DEFINE Good == {f \in Expressions : LocalsOf(f) \subseteq Local}
<1>1. ASSUME NEW f \in Expressions,
             \A part \in Expressions : Depth[part] < Depth[f] => LocalsOf(part) \subseteq Local
      PROVE  LocalsOf(f) \subseteq Local
  <2>1. CASE f.kind = "Ident"
    <3>1. IsIdent(f.ident)
      BY <2>1, ExpressionsAssumption DEF IsExpression
    <3> QED
      BY <2>1, <3>1, PartLocals DEF IdentLocals, IsIdent
  <2>2. CASE f.kind # "Ident"
    <3>1. LocalsOf(f) = UNION {LocalsOf(part) : part \in Range(Subexpressions(f))}
      BY <2>2 DEF LocalsRecur, LocalsOfByKind
    <3>2. \A part \in Range(Subexpressions(f)) : part \in Expressions /\ Depth[part] < Depth[f]
      BY ExpressionsAssumption DEF Range
    <3> QED
      BY <1>1, <3>1, <3>2
  <2> QED
    BY <2>1, <2>2
<1>2. Expressions \subseteq Good
  <2>1. \A f \in Expressions :
           (\A part \in Expressions : Depth[part] < Depth[f] => part \in Good) => f \in Good
    BY <1>1
  <2> HIDE DEF Good
  <2> QED
    BY <2>1, ByDepth
<1> QED
  BY <1>2

\* Whether an alternative is chosen or not, it is a width.
LEMMA EitherWidth ==
  ASSUME NEW a \in Width, NEW b \in Width
  PROVE  OrElse(a, b) \in Width
  BY DEF OrElse

\* `constrain_expr` finds widths, and only for the locals an expression names
\* that have none.
LEMMA ConstrainConforms ==
  ASSUME SizeRecurs, ConstrainRecurs, LocalsRecur, NEW e \in Expressions
  PROVE  Conforms(e)
<1> DEFINE Good == {f \in Expressions : Conforms(f)}
<1>1. ASSUME NEW f \in Expressions,
             \A part \in Expressions : Depth[part] < Depth[f] => Conforms(part)
      PROVE  Conforms(f)
  <2> SUFFICES ASSUME NEW env, IsEnv(env), NEW expected \in Width
               PROVE  Constrained(env, ConstrainExpr(env, f, expected), LocalsOf(f))
    BY DEF Conforms
  <2> DEFINE found == ConstrainExpr(env, f, expected)
             locals == LocalsOf(f)
  <2>1. found = ConstrainExprByKind(env, f, expected)
    BY DEF ConstrainRecurs
  <2>2. IsExpression(f)
    BY ExpressionsAssumption
  <2>3. None \in Width /\ 1 \in Width
    BY DEF Width, Count
  <2>4. ASSUME NEW width \in Width PROVE Constrained(env, Known(env, width), locals)
    BY <2>4, AddsNothing DEF Constrained, Known
  <2>5. ASSUME NEW after, Adds(env, after, locals), NEW width \in Width
        PROVE  Constrained(env, Known(after, width), locals)
    BY <2>5 DEF Constrained, Known
  <2>6. ASSUME NEW space PROVE AddressSize(space) \in Width
    BY ContextAssumption DEF AddressSize, Width, Count
  <2>7. Width \subseteq Count \cup OperandWidths /\ Count \subseteq Width
    BY DEF Width
  <2> HIDE DEF found, locals
  <2>8. CASE f.kind = "SizedInt"
    BY <2>1, <2>4, <2>8 DEF ConstrainExprByKind, found, locals
  <2>9. CASE f.kind = "Ident" /\ f.ident.form = "Named"
    <3>1. found = ConstrainLocal(env, f.ident.id, expected)
      BY <2>1, <2>9 DEF ConstrainExprByKind
    <3>2. f.ident.id \in Local /\ locals = {f.ident.id}
      BY <2>2, <2>9, PartLocals DEF IsExpression, IsIdent, IdentLocals, locals
    <3>3. env.sizes[f.ident.id] \in Width
      BY <3>2 DEF IsEnv
    <3>4. CASE env.sizes[f.ident.id] # None
      BY <2>4, <3>1, <3>3, <3>4 DEF ConstrainLocal, found, locals
    <3>5. CASE env.sizes[f.ident.id] = None /\ expected # None
      <4>1. found = Known(Found(env, f.ident.id, expected), expected)
        BY <3>1, <3>5 DEF ConstrainLocal
      <4> QED
        BY <2>5, <3>2, <4>1, FoundAdds DEF locals, found
    <3>6. CASE env.sizes[f.ident.id] = None /\ expected = None
      BY <2>3, <2>4, <3>1, <3>6 DEF ConstrainLocal, found, locals
    <3> QED
      BY <3>4, <3>5, <3>6 DEF found, locals
  <2>10. CASE f.kind = "Ident" /\ f.ident.form # "Named"
    <3>1. IsIdent(f.ident)
      BY <2>2, <2>10 DEF IsExpression
    <3> QED
      BY <2>1, <2>4, <2>10, <3>1, StorageSizeType DEF ConstrainExprByKind, found, locals
  <2>11. CASE f.kind = "Load"
    <3>1. found = Known(ConstrainPointer(env, f), OrElse(f.bytes, expected))
      BY <2>1, <2>11 DEF ConstrainExprByKind
    <3>2. Conforms(f.ptr) /\ LocalsOf(f.ptr) \subseteq locals
      BY <1>1, <2>11, PartsNestLess, PartLocals DEF locals
    <3>3. Adds(env, ConstrainPointer(env, f), locals)
      BY <2>6, <3>2, AddsNothing, ConstrainAdds DEF ConstrainPointer
    <3>4. OrElse(f.bytes, expected) \in Width
      BY <2>2, <2>7, <2>11, EitherWidth DEF IsExpression
    <3> QED
      BY <2>5, <3>1, <3>3, <3>4 DEF found, locals
  <2>12. CASE f.kind \in {"SubPieceLsb", "SubPieceMsb"}
    <3>1. Conforms(f.src) /\ LocalsOf(f.src) \subseteq locals /\ f.src \in Expressions
      BY <1>1, <2>12, PartsNestLess, PartLocals DEF locals
    <3>2. f.count \in Nat /\ f.count \in Width
      BY <2>2, <2>12 DEF IsExpression, Width, Count
    <3>3. CASE f.kind = "SubPieceLsb"
      <4>1. Adds(env, Constrain(env, f.src, None), locals)
        BY <2>3, <3>1, ConstrainAdds
      <4>2. found = Known(Constrain(env, f.src, None), f.count)
        BY <2>1, <3>3 DEF ConstrainExprByKind
      <4> QED
        BY <2>5, <3>2, <4>1, <4>2 DEF found, locals
    <3>4. CASE f.kind = "SubPieceMsb"
      <4> DEFINE own == CheckedSub(Concrete(ExprSize(env, f.src)), f.count)
                 size == OrElse(expected, own)
                 source == IF Concrete(size) = None THEN None ELSE Concrete(size) + f.count
      <4>1. ExprSize(env, f.src) \in Width
        BY <3>1, ExprSizeType
      <4>2. own \in Width
        BY <2>7, <3>2, <4>1, WidthTypes, SubType
      <4>3. size \in Width
        BY <4>2, EitherWidth
      <4>4. found = Known(Constrain(env, f.src, source), size)
        BY <2>1, <3>4 DEF ConstrainExprByKind, ConstrainSubPieceMsb
      <4> HIDE DEF own, size
      <4>5. Concrete(size) \in Count
        BY <4>3, WidthTypes
      <4>6. source \in Width
        BY <2>7, <3>2, <4>5 DEF Count
      <4> HIDE DEF source
      <4>7. Adds(env, Constrain(env, f.src, source), locals)
        BY <3>1, <4>6, ConstrainAdds
      <4> QED
        BY <2>5, <4>3, <4>4, <4>7 DEF found, locals
    <3> QED
      BY <2>12, <3>3, <3>4 DEF found, locals
  <2>13. CASE f.kind = "Range"
    <3> DEFINE size == IF f.bits = None THEN expected ELSE DivCeilByte(f.bits)
    <3>1. Conforms(f.value) /\ LocalsOf(f.value) \subseteq locals
      BY <1>1, <2>13, PartsNestLess, PartLocals DEF locals
    <3>2. size \in Width
      BY <2>2, <2>7, <2>13, BytesType DEF IsExpression
    <3>3. found = Known(Constrain(env, f.value, None), size)
      BY <2>1, <2>13 DEF ConstrainExprByKind, ConstrainRange
    <3> HIDE DEF size
    <3> QED
      BY <2>3, <2>5, <3>1, <3>2, <3>3, ConstrainAdds DEF found, locals
  <2>14. CASE f.kind \in {"FunctionCall", "PcodeOp"}
    <3>1. /\ f.args \in Seq(Expressions)
          /\ \A n \in DOMAIN f.args : Conforms(f.args[n]) /\ LocalsOf(f.args[n]) \subseteq locals
      <4>1. /\ f.args \in Seq(Expressions)
            /\ \A n \in DOMAIN f.args : Depth[f.args[n]] < Depth[f]
                                        /\ LocalsOf(f.args[n]) \subseteq locals
        BY <2>14, PartsNestLess, PartLocals DEF locals
      <4>2. \A n \in DOMAIN f.args : f.args[n] \in Expressions
        BY <4>1
      <4> QED
        BY <1>1, <4>1, <4>2
    <3>2. CASE f.kind = "PcodeOp"
      <4>1. found = Known(ConstrainAll(env, f.args, None), expected)
        BY <2>1, <3>2 DEF ConstrainExprByKind
      <4> QED
        BY <2>3, <2>5, <3>1, <4>1, AllAdds DEF found, locals
    <3>3. CASE f.kind = "FunctionCall"
      <4> DEFINE first == ConstrainUntilKnown(env, f.args)
                 size == IF f.builtin \in BooleanBuiltins THEN 1 ELSE expected
      <4>1. Constrained(env, first, locals)
        BY <3>1, UntilKnownAdds
      <4>2. size \in Width
        BY <2>3
      <4>3. found = IF first.width = None THEN Known(first.env, size)
                    ELSE Known(ConstrainAll(first.env, f.args, first.width), size)
        BY <2>1, <3>3 DEF ConstrainExprByKind, ConstrainBuiltin
      <4> HIDE DEF first, size
      <4>4. Adds(env, first.env, locals) /\ IsEnv(first.env) /\ first.width \in Width
        BY <4>1 DEF Constrained, Adds
      <4>5. Adds(env, ConstrainAll(first.env, f.args, first.width), locals)
        <5>1. Adds(first.env, ConstrainAll(first.env, f.args, first.width), locals)
          BY <3>1, <4>4, AllAdds
        <5> QED
          BY <4>4, <5>1, AddsMore
      <4> QED
        BY <2>5, <4>2, <4>3, <4>4, <4>5 DEF found, locals
    <3> QED
      BY <2>14, <3>2, <3>3 DEF found, locals
  <2>15. CASE f.kind = "Unop"
    <3>1. Conforms(f.e) /\ LocalsOf(f.e) \subseteq locals
      BY <1>1, <2>15, PartsNestLess, PartLocals DEF locals
    <3>2. found = ConstrainUnop(env, f, expected)
      BY <2>1, <2>15 DEF ConstrainExprByKind
    <3>3. ASSUME NEW operand, Constrained(env, operand, locals)
          PROVE  Adds(env, Constrain(operand.env, f.e, operand.width), locals)
      <4>1. Adds(env, operand.env, locals) /\ IsEnv(operand.env) /\ operand.width \in Width
        BY <3>3 DEF Constrained, Adds
      <4>2. Adds(operand.env, Constrain(operand.env, f.e, operand.width), locals)
        BY <3>1, <4>1, ConstrainAdds
      <4> QED
        BY <4>1, <4>2, AddsMore
    <3>4. Constrained(env, ConstrainExpr(env, f.e, None), locals)
      BY <2>3, <3>1, ConstrainAdds
    <3>5. CASE f.op = "BoolNegate"
      <4> DEFINE operand == ConstrainExpr(env, f.e, None)
      <4>1. found = Known(Constrain(operand.env, f.e, operand.width), 1)
        BY <3>2, <3>5 DEF ConstrainUnop
      <4> HIDE DEF operand
      <4> QED
        BY <2>3, <2>5, <3>3, <3>4, <4>1 DEF operand, found, locals
    <3>6. CASE f.op = "AddressOf"
      <4> DEFINE size == IF StorageFromExprSize(f.e) = None THEN None
                         ELSE AddressSize(StorageFromExprSize(f.e).space)
      <4>1. found = Known(env, OrElse(f.width, size))
        BY <3>2, <3>6 DEF ConstrainUnop
      <4>2. size \in Width /\ f.width \in Width
        BY <2>2, <2>3, <2>6, <2>7, <2>15 DEF IsExpression
      <4> QED
        BY <2>4, <4>1, <4>2, EitherWidth DEF found, locals
    <3>7. CASE f.op \notin {"BoolNegate", "AddressOf"}
      <4> DEFINE operand == IF expected # None THEN Known(env, expected)
                            ELSE ConstrainExpr(env, f.e, None)
      <4>1. found = Known(Constrain(operand.env, f.e, operand.width), operand.width)
        BY <3>2, <3>7 DEF ConstrainUnop
      <4>2. Constrained(env, operand, locals)
        BY <2>4, <3>4
      <4> HIDE DEF operand
      <4>3. operand.width \in Width
        BY <4>2 DEF Constrained
      <4> QED
        BY <2>5, <3>3, <4>1, <4>2, <4>3 DEF found, locals
    <3> QED
      BY <3>5, <3>6, <3>7 DEF found, locals
  <2>16. CASE f.kind = "Binop"
    <3> DEFINE args == <<f.lhs, f.rhs>>
               first == ConstrainUntilKnown(env, args)
               width == IF f.op \in Boolean THEN first.width ELSE OrElse(expected, first.width)
               both == ConstrainAll(first.env, args, width)
    <3>1. found = Known(both, IF f.op \in Boolean THEN 1 ELSE width)
      BY <2>1, <2>16 DEF ConstrainExprByKind, ConstrainBinop
    <3>2. /\ args \in Seq(Expressions)
          /\ \A n \in DOMAIN args : Conforms(args[n]) /\ LocalsOf(args[n]) \subseteq locals
      BY <1>1, <2>16, PartsNestLess, PartLocals DEF locals
    <3> HIDE DEF args
    <3>3. Constrained(env, first, locals)
      BY <3>2, UntilKnownAdds
    <3> HIDE DEF first
    <3>4. Adds(env, first.env, locals) /\ IsEnv(first.env) /\ first.width \in Width
      BY <3>3 DEF Constrained, Adds
    <3>5. width \in Width
      BY <3>4, EitherWidth
    <3> HIDE DEF width
    <3>6. Adds(first.env, both, locals)
      BY <3>2, <3>4, <3>5, AllAdds
    <3>7. Adds(env, both, locals)
      BY <3>4, <3>6, AddsMore
    <3> HIDE DEF both
    <3> QED
      BY <2>3, <2>5, <3>1, <3>5, <3>7 DEF found, locals
  <2>17. CASE f.kind = "Internal"
    BY <2>1, <2>4, <2>17 DEF ConstrainExprByKind, found, locals
  <2> QED
    BY <2>2, <2>8, <2>9, <2>10, <2>11, <2>12, <2>13, <2>14, <2>15, <2>16, <2>17
       DEF IsExpression, found, locals
<1>2. Expressions \subseteq Good
  <2>1. \A f \in Expressions :
           (\A part \in Expressions : Depth[part] < Depth[f] => part \in Good) => f \in Good
    BY <1>1
  <2> HIDE DEF Good
  <2> QED
    BY <2>1, ByDepth
<1> QED
  BY <1>2

\* So does constraining a pointer to the addresses of its space.
LEMMA PointerAdds ==
  ASSUME SizeRecurs, ConstrainRecurs, LocalsRecur, NEW e \in Expressions,
         e.kind = "Load", NEW env, IsEnv(env)
  PROVE  Adds(env, ConstrainPointer(env, e), LocalsOf(e.ptr))
<1>1. Conforms(e.ptr)
  BY PartsNestLess, ConstrainConforms
<1>2. \A space : AddressSize(space) \in Width
  BY ContextAssumption DEF AddressSize, Width, Count
<1> QED
  BY <1>1, <1>2, AddsNothing, ConstrainAdds DEF ConstrainPointer

\* A statement names locals.
LEMMA StatementLocalsAreLocal ==
  ASSUME LocalsRecur, NEW st, IsStatement(st)
  PROVE  StatementLocals(st) \subseteq Local
<1>1. \A e \in Expressions : LocalsOf(e) \subseteq Local
  BY LocalsAreLocal
<1>2. \A ident : IsIdent(ident) => IdentLocals(ident) \subseteq Local
  BY DEF IsIdent, IdentLocals
<1>3. \A target : IsTarget(target) => TargetLocals(target) \subseteq Local
  BY <1>1 DEF IsTarget, TargetLocals
<1>4. CASE st.kind = "Assignment"
  BY <1>1, <1>2, <1>4 DEF IsStatement, StatementLocals
<1>5. CASE st.kind = "LoadAssignment"
  BY <1>1, <1>5, PartsNestLess DEF IsStatement, StatementLocals
<1>6. CASE st.kind = "RangeAssignment"
  BY <1>1, <1>6, PartsNestLess DEF IsStatement, StatementLocals
<1>7. CASE st.kind \in {"Branch", "Call", "ConditionalBranch"}
  BY <1>1, <1>3, <1>7 DEF IsStatement, StatementLocals
<1>8. CASE st.kind \in {"BranchIndirect", "CallIndirect", "Return", "Expression", "Export"}
  BY <1>1, <1>8 DEF IsStatement, StatementLocals
<1>9. CASE st.kind \in {"Label", "Internal"}
  BY <1>9 DEF StatementLocals
<1> QED
  BY <1>4, <1>5, <1>6, <1>7, <1>8, <1>9 DEF IsStatement

\* `SizeInference::statement` finds widths only for the locals it names that
\* have none.
LEMMA StatementAdds ==
  ASSUME SizeRecurs, ConstrainRecurs, LocalsRecur, NEW st, IsStatement(st),
         NEW env, IsEnv(env)
  PROVE  Adds(env, ConstrainStatement(env, st), StatementLocals(st))
<1> DEFINE after == ConstrainStatement(env, st)
           locals == StatementLocals(st)
<1>1. ASSUME NEW e \in Expressions, LocalsOf(e) \subseteq locals, NEW width \in Width,
             NEW mid, Adds(env, mid, locals)
      PROVE  Constrained(env, ConstrainExpr(mid, e, width), locals)
  <2>1. IsEnv(mid) /\ Conforms(e)
    BY <1>1, ConstrainConforms DEF Adds
  <2> HIDE DEF locals
  <2>2. Constrained(mid, ConstrainExpr(mid, e, width), locals)
    BY <1>1, <2>1, ConstrainAdds
  <2> QED
    BY <1>1, <2>2, AddsMore DEF Constrained
<1>2. Adds(env, env, locals)
  BY AddsNothing
<1>3. ASSUME NEW e \in Expressions, LocalsOf(e) \subseteq locals, NEW width \in Width
      PROVE  Adds(env, Constrain(env, e, width), locals)
  BY <1>1, <1>2, <1>3 DEF Constrain, Constrained
<1>4. None \in Width /\ 1 \in Width /\ Count \subseteq Width
  BY DEF Width, Count
<1>5. \A space : AddressSize(space) \in Width
  BY ContextAssumption DEF AddressSize, Width, Count
<1>6. CASE st.kind = "Assignment"
  <2>1. /\ IsIdent(st.lhs) /\ st.size \in Width /\ st.rhs \in Expressions
        /\ locals = IdentLocals(st.lhs) \cup LocalsOf(st.rhs)
    BY <1>4, <1>6 DEF IsStatement, StatementLocals
  <2> DEFINE expected == OrElse(st.size, OrElse(StorageSize(env, st.lhs), ComparisonSize(st.rhs)))
             inferred == ConstrainExpr(env, st.rhs, expected)
             width == OrElse(expected, inferred.width)
  <2>2. ComparisonSize(st.rhs) \in Width
    BY <1>4, <2>1, ExpressionsAssumption DEF ComparisonSize, IsExpression
  <2>3. expected \in Width
    BY <2>1, <2>2, StorageSizeType, EitherWidth
  <2>4. after = IF st.lhs.form = "Named" /\ width # None
                THEN Found(inferred.env, st.lhs.id, width) ELSE inferred.env
    BY <1>6 DEF ConstrainStatement, ConstrainAssignment
  <2> HIDE DEF after, locals, expected
  <2>5. Constrained(env, inferred, locals)
    BY <1>1, <1>2, <2>1, <2>3 DEF locals
  <2> HIDE DEF inferred
  <2>6. Adds(env, inferred.env, locals) /\ IsEnv(inferred.env) /\ width \in Width
    BY <2>3, <2>5, EitherWidth DEF Constrained, Adds
  <2>7. CASE st.lhs.form = "Named" /\ width # None
    <3>1. st.lhs.id \in Local /\ {st.lhs.id} \subseteq locals
      BY <2>1, <2>7 DEF IsIdent, IdentLocals
    <3> HIDE DEF width
    <3>2. Adds(inferred.env, Found(inferred.env, st.lhs.id, width), {st.lhs.id})
      BY <2>6, <3>1, FoundAdds
    <3> QED
      BY <2>4, <2>6, <2>7, <3>1, <3>2, AddsMore DEF after, locals, width
  <2> QED
    BY <2>4, <2>6, <2>7 DEF after, locals
<1>7. CASE st.kind = "LoadAssignment"
  <2>1. /\ st.load \in Expressions /\ st.load.kind = "Load" /\ st.rhs \in Expressions
        /\ locals = LocalsOf(st.load.ptr) \cup LocalsOf(st.rhs)
    BY <1>7 DEF IsStatement, StatementLocals
  <2> DEFINE mid == ConstrainPointer(env, st.load)
  <2>2. after = Constrain(mid, st.rhs, st.load.bytes)
    BY <1>7 DEF ConstrainStatement
  <2>3. st.load.bytes \in Width
    BY <1>4, <2>1, ExpressionsAssumption DEF IsExpression
  <2> HIDE DEF after, locals
  <2>4. Adds(env, mid, locals)
    <3>1. Adds(env, mid, LocalsOf(st.load.ptr))
      BY <2>1, PointerAdds
    <3> QED
      BY <2>1, <3>1 DEF Adds
  <2> HIDE DEF mid
  <2> QED
    BY <1>1, <2>1, <2>2, <2>3, <2>4 DEF after, locals, Constrained, Constrain
<1>8. CASE st.kind = "RangeAssignment"
  <2>1. /\ st.range \in Expressions /\ st.range.kind = "Range" /\ st.rhs \in Expressions
        /\ LocalsOf(st.rhs) \subseteq locals
    BY <1>8 DEF IsStatement, StatementLocals
  <2>2. DivCeilByte(st.range.bits) \in Width
    BY <1>4, <2>1, ExpressionsAssumption, BytesType DEF IsExpression
  <2>3. after = IF RangeKnown(st.range)
                THEN Constrain(env, st.rhs, DivCeilByte(st.range.bits)) ELSE env
    BY <1>8 DEF ConstrainStatement
  <2> QED
    BY <1>2, <1>3, <2>1, <2>2, <2>3
<1>9. CASE st.kind = "ConditionalBranch"
  <2>1. st.condition \in Expressions /\ LocalsOf(st.condition) \subseteq locals
    BY <1>9 DEF IsStatement, StatementLocals
  <2> QED
    BY <1>3, <1>4, <1>9, <2>1 DEF ConstrainStatement
<1>10. CASE st.kind \in {"BranchIndirect", "CallIndirect", "Return"}
  <2>1. st.target \in Expressions /\ LocalsOf(st.target) \subseteq locals
    BY <1>10 DEF IsStatement, StatementLocals
  <2> QED
    BY <1>3, <1>5, <1>10, <2>1 DEF ConstrainStatement
<1>11. CASE st.kind = "Expression"
  <2>1. st.expr \in Expressions /\ LocalsOf(st.expr) \subseteq locals
    BY <1>11 DEF IsStatement, StatementLocals
  <2> QED
    BY <1>3, <1>4, <1>11, <2>1 DEF ConstrainStatement
<1>12. CASE st.kind \in {"Internal", "Export", "Label", "Branch", "Call"}
  BY <1>2, <1>12 DEF ConstrainStatement
<1> QED
  BY <1>6, <1>7, <1>8, <1>9, <1>10, <1>11, <1>12 DEF IsStatement

(* Whatever is known of the locals, symbolically or not, feeding a         *)
(* statement to width inference finds widths, only for locals it names     *)
(* that have none, and changes none (`SizeInference::statement`, `found`). *)
THEOREM StatementsOnlyAddWidths ==
  ASSUME SizeRecurs, ConstrainRecurs, LocalsRecur,
         NEW st, IsStatement(st), NEW known \in [Local -> Width]
  PROVE  /\ AfterStatement(known, st) \in [Local -> Width]
         /\ \A id \in Local : AfterStatement(known, st)[id] # known[id] =>
               known[id] = None /\ id \in StatementLocals(st)
         /\ StatementLocals(st) \subseteq Local
<1> DEFINE env == [sizes |-> known, operand |-> TableOperands]
<1>1. IsEnv(env)
  BY OperandsAssumption DEF IsEnv, Width, Count
<1>2. env.sizes = known /\ AfterStatement(known, st) = ConstrainStatement(env, st).sizes
  BY DEF AfterStatement
<1> HIDE DEF env
<1>3. Adds(env, ConstrainStatement(env, st), StatementLocals(st))
  BY <1>1, StatementAdds
<1> QED
  BY <1>2, <1>3, StatementLocalsAreLocal DEF Adds, IsEnv

(* So the rules of width inference are ones its loop is correct for.       *)
THEOREM InferenceRulesHold ==
  ASSUME SizeRecurs, ConstrainRecurs, LocalsRecur
  PROVE  Infer!RulesAssumption
<1> DEFINE Fed == UNION {Range(program) : program \in Programs}
           Knowns == [Local -> Nat \cup {None}]
<1>1. Width = Nat \cup {None}
  BY ConcreteAssumption DEF Width, Count
<1>2. \A st \in Fed : IsStatement(st)
  BY StatementsAssumption DEF Range
<1>3. ASSUME NEW known \in Knowns, NEW st \in Fed
      PROVE  /\ AfterStatement(known, st) \in Knowns
             /\ \A id \in Local : AfterStatement(known, st)[id] # known[id] =>
                   known[id] = None /\ id \in StatementLocals(st)
             /\ StatementLocals(st) \subseteq Local
  BY <1>1, <1>2, StatementsOnlyAddWidths
<1>4. Infer!NoSizes \in Knowns
  BY DEF Infer!NoSizes
<1>5. \A known \in Knowns : known = [id \in Local |-> known[id]]
  OBVIOUS
<1> QED
  BY <1>3, <1>4, <1>5 DEF Infer!RulesAssumption

----------------------------------------------------------------------------
(* What lowering an expression does to the emitter.                        *)

\* An emitter that placed locals below its pointer.
IsEmitter(em) ==
    /\ DOMAIN em = {"labels", "sizes", "locals", "defined", "next", "events", "err"}
    /\ em.next \in Nat /\ em.next <= MaxWord
    /\ em.sizes \in [Local -> Count]
    /\ em.locals \in [Local -> Home \cup {None}]
    /\ \A id \in Local : em.locals[id] # None => End(em.locals[id]) <= em.next
    /\ IsList(em.events)

\* Storage that may be written: registers, and pieces handed out before.
IsPlace(em, v) ==
    /\ v.size \in Nat \ {0}
    /\ InUnique(v) => v \in Home /\ End(v) <= em.next

\* The first `n` events have written exactly `v`.
Written(em, n, v) == \E m \in DOMAIN em.events : m <= n /\ WrittenBy(em.events[m]) = v

\* What may be read after `n` events: a local or what was written before.
Readable(em, n, v) ==
    InUnique(v) => v \in Home /\ (Housed(v, Placed(em)) \/ Written(em, n, v))

IsValue(em, v) == v.size \in Nat /\ Readable(em, Len(em.events), v)

\* The opcodes of operations that yield a value.
ValueOpcodes == RawOpcodes \ (Range(DirectOpcode) \cup {"Store"})

\* A raw operation that computes a value, of widths as WellTyped asks for.
Fits(o) ==
    /\ o.event = "op"
    /\ o.opcode \in ValueOpcodes
    /\ o.output # None
    /\ o.output.size \in Nat \ {0}
    /\ WellTyped(o)

NewEvents(em, after) == Len(em.events) + 1 .. Len(after.events)

NewHomes(em, after) == DOMAIN Placed(after) \ DOMAIN Placed(em)

\* The n-th event writes bytes handed out since `em`, to no local, and no
\* other event since `em` touches them.
Scratch(em, after, n) ==
    LET v == after.events[n].output
    IN  /\ v \in Home /\ em.next <= v.offset /\ End(v) <= after.next
        /\ \A id \in NewHomes(em, after) : Apart(v, Placed(after)[id])
        /\ \A m \in NewEvents(em, after) \ {n} :
              InUnique(after.events[m].output) => Apart(v, after.events[m].output)

\* Storage grows as planned, and nothing that is not an event's changes.
Keeps(em, after) ==
    /\ IsEmitter(after)
    /\ after.labels = em.labels /\ after.sizes = em.sizes /\ after.defined = em.defined
    /\ StorageGrew(em, after)
    /\ \A id \in NewHomes(em, after) :
          em.sizes[id] # None => Placed(after)[id].size = em.sizes[id]
    /\ Len(em.events) <= Len(after.events)
    /\ \A n \in DOMAIN em.events : after.events[n] = em.events[n]

\* From `em` to `after` operations compute into scratch bytes, from what may
\* be read; only the last may write `out`.
Computes(em, after, out) ==
    /\ Keeps(em, after)
    /\ \A n \in NewEvents(em, after) :
          /\ Fits(after.events[n])
          /\ \A v \in Range(after.events[n].inputs) : Readable(after, n - 1, v)
          /\ \/ Scratch(em, after, n)
             \/ out # None /\ n = Len(after.events) /\ after.events[n].output = out

\* Why lowering an expression fails.
ExprErrors == LowerErrors \ {"DuplicateLabel", "UnknownLabel"}

\* Lowering from `em` to `r` computes, with a value in `out` unless it fails.
Lowers(em, r, out) ==
    /\ Computes(em, r.em, out)
    /\ r.em.err \in {"ok"} \cup ExprErrors
    /\ ~Failed(r.em) => IsValue(r.em, r.v) /\ (out # None => r.v = out)

MayWrite(em, out) == out # None => IsPlace(em, out)

\* The emitter before an expression: it has not failed.
Ready(em) == IsEmitter(em) /\ em.err = "ok"

\* The opcodes that expressions are lowered to.
LEMMA ValueOpcodeNames ==
  /\ {"Copy", "Load", "CallOther", "IntZext", "SubPiece", "IntAdd", "IntAnd", "IntOr",
      "IntLeft", "IntRight"} \subseteq ValueOpcodes
  /\ UnaryOperators \ {"AddressOf"} \subseteq ValueOpcodes
  /\ \A op \in BinaryOperators : BinaryOpcode(op) \in ValueOpcodes
  /\ Builtins \subseteq ValueOpcodes
<1>1. Range(DirectOpcode) = {"Branch", "CBranch", "Call"}
  BY DEF DirectOpcode, Range
<1>2. /\ {"Copy", "Load", "CallOther", "IntZext", "SubPiece", "IntAdd", "IntAnd", "IntOr",
          "IntLeft", "IntRight"} \subseteq ValueOpcodes
      /\ UnaryOperators \ {"AddressOf"} \subseteq ValueOpcodes
  BY <1>1 DEF ValueOpcodes, RawOpcodes, Opcodes, PseudoOpcodes, UnaryOperators
<1>3. ASSUME NEW op \in BinaryOperators PROVE BinaryOpcode(op) \in ValueOpcodes
  BY <1>1 DEF ValueOpcodes, RawOpcodes, Opcodes, PseudoOpcodes, BinaryOpcode, Swapped,
              BinaryOperators, Boolean, Comparison, Logical
<1>4. Builtins \subseteq ValueOpcodes
  BY <1>1 DEF ValueOpcodes, RawOpcodes, Opcodes, PseudoOpcodes, Builtins,
              BooleanBuiltins, CarryBuiltins, WidthPreservingBuiltins
<1> QED
  BY <1>2, <1>3, <1>4

\* Why an expression may be refused, error by error.
LEMMA ErrorNames ==
  {"UnknownSize", "ZeroSize", "CopySizeMismatch", "InputSizeMismatch",
   "InvalidBooleanSize", "AddressSizeMismatch", "StoreSizeMismatch", "InvalidRange",
   "UniqueSpaceOverflow", "UnknownRegister", "UnresolvedIdentifier",
   "UnresolvedSpace", "UnresolvedRangeParameter", "InternalNode", "Unsupported",
   "InvalidDirectTarget"} = ExprErrors
  BY DEF ExprErrors, LowerErrors

\* The events of an emitter are a list.
LEMMA EventsList ==
  ASSUME NEW em, IsEmitter(em)
  PROVE  Len(em.events) \in Nat /\ DOMAIN em.events = 1 .. Len(em.events)
  BY DEF IsEmitter, IsList

\* Nothing was computed where nothing was done.
LEMMA NothingComputed ==
  ASSUME NEW em, IsEmitter(em), NEW out
  PROVE  Computes(em, em, out)
<1>1. Len(em.events) \in Nat /\ DOMAIN em.events = 1 .. Len(em.events)
  BY EventsList
<1>2. StorageGrew(em, em)
  BY PointerGrows DEF IsEmitter
<1>3. NewEvents(em, em) = {} /\ NewHomes(em, em) = {}
  BY <1>1 DEF NewEvents, NewHomes
<1> QED
  BY <1>1, <1>2, <1>3 DEF Computes, Keeps

\* What two calls keep, both together keep.
LEMMA KeepsThen ==
  ASSUME NEW a, NEW b, NEW c, IsEmitter(a), Keeps(a, b), Keeps(b, c)
  PROVE  /\ Keeps(a, c)
         /\ NewHomes(a, c) = NewHomes(a, b) \cup NewHomes(b, c)
         /\ \A id \in DOMAIN Placed(b) : id \in DOMAIN Placed(c) /\ Placed(c)[id] = Placed(b)[id]
         /\ NewEvents(a, c) = NewEvents(a, b) \cup NewEvents(b, c)
         /\ \A n \in NewEvents(a, b) : c.events[n] = b.events[n]
<1>1. /\ Len(a.events) \in Nat /\ DOMAIN a.events = 1 .. Len(a.events)
      /\ Len(b.events) \in Nat /\ DOMAIN b.events = 1 .. Len(b.events)
      /\ Len(c.events) \in Nat /\ DOMAIN c.events = 1 .. Len(c.events)
      /\ Len(a.events) <= Len(b.events) /\ Len(b.events) <= Len(c.events)
  BY EventsList DEF Keeps
<1>2. StorageGrew(a, c)
  BY GrowthComposes DEF StorageGrew, Keeps, IsEmitter
<1>3. /\ DOMAIN Placed(a) \subseteq DOMAIN Placed(b)
      /\ \A id \in DOMAIN Placed(b) : id \in DOMAIN Placed(c) /\ Placed(c)[id] = Placed(b)[id]
  BY DEF Keeps, StorageGrew, GrowsTo
<1>4. NewHomes(a, c) = NewHomes(a, b) \cup NewHomes(b, c)
  BY <1>3 DEF NewHomes
<1>5. NewEvents(a, c) = NewEvents(a, b) \cup NewEvents(b, c)
  BY <1>1 DEF NewEvents
<1>6. \A n \in DOMAIN b.events : c.events[n] = b.events[n]
  BY DEF Keeps
<1>7. \A n \in NewEvents(a, b) : c.events[n] = b.events[n]
  BY <1>1, <1>6 DEF NewEvents
<1>8. \A n \in DOMAIN a.events : c.events[n] = a.events[n]
  BY <1>1, <1>6 DEF Keeps
<1>9. \A id \in NewHomes(a, c) : a.sizes[id] # None => Placed(c)[id].size = a.sizes[id]
  BY <1>3, <1>4 DEF Keeps, NewHomes
<1>10. Keeps(a, c)
  BY <1>1, <1>2, <1>8, <1>9 DEF Keeps
<1> QED
  BY <1>3, <1>4, <1>5, <1>7, <1>10

\* What may be read stays readable,
LEMMA StillReadable ==
  ASSUME NEW a, NEW b, IsEmitter(a), Keeps(a, b), NEW n \in Nat, n <= Len(a.events),
         NEW v, Readable(a, n, v), NEW m \in Nat, n <= m
  PROVE  Readable(b, m, v)
<1> SUFFICES ASSUME InUnique(v)
             PROVE  v \in Home /\ (Housed(v, Placed(b)) \/ Written(b, m, v))
  BY DEF Readable
<1>1. v \in Home /\ (Housed(v, Placed(a)) \/ Written(a, n, v))
  BY DEF Readable
<1>2. Housed(v, Placed(a)) => Housed(v, Placed(b))
  BY DEF Housed, Keeps, StorageGrew, GrowsTo
<1>3. Written(a, n, v) => Written(b, m, v)
  <2> SUFFICES ASSUME NEW k \in DOMAIN a.events, k <= n, WrittenBy(a.events[k]) = v
               PROVE  Written(b, m, v)
    BY DEF Written
  <2>1. k \in DOMAIN b.events /\ k <= m /\ b.events[k] = a.events[k]
    BY EventsList DEF Keeps
  <2> QED
    BY <2>1 DEF Written
<1> QED
  BY <1>1, <1>2, <1>3

\* a value stays a value,
LEMMA StillAValue ==
  ASSUME NEW a, NEW b, IsEmitter(a), Keeps(a, b), NEW v, IsValue(a, v)
  PROVE  IsValue(b, v)
<1>1. Len(a.events) \in Nat /\ Len(b.events) \in Nat /\ Len(a.events) <= Len(b.events)
  BY EventsList DEF Keeps
<1> QED
  BY <1>1, StillReadable DEF IsValue

\* and storage that may be written stays so.
LEMMA StillAPlace ==
  ASSUME NEW a, NEW b, IsEmitter(a), Keeps(a, b), NEW out, MayWrite(a, out)
  PROVE  MayWrite(b, out)
<1>1. a.next \in Nat /\ b.next \in Nat /\ a.next <= b.next
  BY DEF Keeps, IsEmitter, StorageGrew, GrowsTo
<1> QED
  BY <1>1 DEF MayWrite, IsPlace, Home, End

\* Two computations, one after the other, of which only the second writes
\* `out`.
LEMMA ComputesThen ==
  ASSUME NEW a, NEW b, NEW c, NEW out, IsEmitter(a), MayWrite(a, out),
         Computes(a, b, None), Computes(b, c, out)
  PROVE  Computes(a, c, out)
<1>1. Keeps(a, b) /\ Keeps(b, c) /\ IsEmitter(b) /\ IsEmitter(c)
  BY DEF Computes, Keeps
<1>2. /\ Keeps(a, c)
      /\ NewHomes(a, c) = NewHomes(a, b) \cup NewHomes(b, c)
      /\ \A id \in DOMAIN Placed(b) : id \in DOMAIN Placed(c) /\ Placed(c)[id] = Placed(b)[id]
      /\ NewEvents(a, c) = NewEvents(a, b) \cup NewEvents(b, c)
      /\ \A n \in NewEvents(a, b) : c.events[n] = b.events[n]
  BY <1>1, KeepsThen
<1>3. /\ a.next \in Nat /\ b.next \in Nat /\ c.next \in Nat
      /\ a.next <= b.next /\ b.next <= c.next
  BY <1>1 DEF Keeps, IsEmitter, StorageGrew, GrowsTo
<1>4. /\ Len(a.events) \in Nat /\ Len(b.events) \in Nat /\ Len(c.events) \in Nat
      /\ Len(a.events) <= Len(b.events) /\ Len(b.events) <= Len(c.events)
  BY <1>1, EventsList DEF Keeps
\* What the second part writes or places, the first did not touch.
<1>5. ASSUME NEW m \in NewEvents(a, b)
      PROVE  /\ c.events[m].output \in Home
             /\ a.next <= c.events[m].output.offset /\ End(c.events[m].output) <= b.next
             /\ Scratch(a, b, m)
    BY <1>2 DEF Computes, Scratch
<1>6. ASSUME NEW m \in NewEvents(b, c), InUnique(c.events[m].output)
      PROVE  /\ c.events[m].output \in Home
             /\ \/ b.next <= c.events[m].output.offset
                \/ End(c.events[m].output) <= a.next
  BY <1>6 DEF Computes, Scratch, MayWrite, IsPlace
<1>7. \A id \in NewHomes(b, c) : Placed(c)[id] \in Home /\ b.next <= Placed(c)[id].offset
  BY <1>1 DEF Keeps, StorageGrew, GrowsTo, NewHomes
<1>8. \A id \in NewHomes(a, b) : Placed(c)[id] \in Home /\ End(Placed(c)[id]) <= b.next
  BY <1>1, <1>2 DEF Keeps, StorageGrew, GrowsTo, NewHomes
<1>9. ASSUME NEW n \in NewEvents(a, b)
      PROVE  /\ Fits(c.events[n])
             /\ \A v \in Range(c.events[n].inputs) : Readable(c, n - 1, v)
             /\ Scratch(a, c, n)
  <2> DEFINE v == c.events[n].output
  <2>1. Fits(c.events[n])
    BY <1>2 DEF Computes
  <2>2. ASSUME NEW u \in Range(c.events[n].inputs) PROVE Readable(c, n - 1, u)
    <3>1. Readable(b, n - 1, u)
      BY <1>2 DEF Computes
    <3>2. n - 1 \in Nat /\ n - 1 <= Len(b.events)
      BY <1>4 DEF NewEvents
    <3> QED
      BY <1>1, <3>1, <3>2, StillReadable
  <2>3. v \in Home /\ a.next <= v.offset /\ End(v) <= b.next /\ End(v) <= c.next
    BY <1>3, <1>5 DEF Home, End
  <2>4. ASSUME NEW id \in NewHomes(a, c) PROVE Apart(v, Placed(c)[id])
    <3>1. CASE id \in NewHomes(a, b)
      BY <1>2, <1>5, <3>1 DEF Scratch, NewHomes
    <3>2. CASE id \in NewHomes(b, c)
      BY <1>3, <1>7, <2>3, <3>2 DEF Apart, Home, End
    <3> QED
      BY <1>2, <3>1, <3>2
  <2>5. ASSUME NEW m \in NewEvents(a, c) \ {n}, InUnique(c.events[m].output)
        PROVE  Apart(v, c.events[m].output)
    <3>1. CASE m \in NewEvents(a, b)
      BY <1>2, <1>5, <2>5, <3>1 DEF Scratch
    <3>2. CASE m \in NewEvents(b, c)
      BY <1>3, <1>6, <2>3, <2>5, <3>2 DEF Apart, Home, End
    <3> QED
      BY <1>2, <2>5, <3>1, <3>2
  <2> QED
    BY <2>1, <2>2, <2>3, <2>4, <2>5 DEF Scratch
<1>10. ASSUME NEW n \in NewEvents(b, c), Scratch(b, c, n)
       PROVE  Scratch(a, c, n)
  <2> DEFINE v == c.events[n].output
  <2>1. v \in Home /\ b.next <= v.offset /\ a.next <= v.offset /\ End(v) <= c.next
    BY <1>3, <1>10 DEF Scratch, Home, End
  <2>2. ASSUME NEW id \in NewHomes(a, c) PROVE Apart(v, Placed(c)[id])
    <3>1. CASE id \in NewHomes(a, b)
      BY <1>3, <1>8, <2>1, <3>1 DEF Apart, Home, End
    <3>2. CASE id \in NewHomes(b, c)
      BY <1>10, <3>2 DEF Scratch
    <3> QED
      BY <1>2, <3>1, <3>2
  <2>3. ASSUME NEW m \in NewEvents(a, c) \ {n}, InUnique(c.events[m].output)
        PROVE  Apart(v, c.events[m].output)
    <3>1. CASE m \in NewEvents(a, b)
      BY <1>3, <1>5, <2>1, <3>1 DEF Apart, Home, End
    <3>2. CASE m \in NewEvents(b, c)
      BY <1>10, <2>3, <3>2 DEF Scratch
    <3> QED
      BY <1>2, <2>3, <3>1, <3>2
  <2> QED
    BY <2>1, <2>2, <2>3 DEF Scratch
<1> QED
  BY <1>2, <1>9, <1>10 DEF Computes

\* An emitter that computed without an error is ready for more.
LEMMA StillReady ==
  ASSUME NEW em, NEW after, Computes(em, after, None), after.err = "ok"
  PROVE  Ready(after)
  BY DEF Computes, Keeps, Ready

\* A part that fails, fails the whole.
LEMMA FailureLowers ==
  ASSUME NEW em, NEW r, NEW out, Lowers(em, r, None), Failed(r.em)
  PROVE  Lowers(em, r, out)
  BY DEF Lowers, Computes

\* A value at hand is a result.
LEMMA ValueLowers ==
  ASSUME NEW em, Ready(em), NEW v, IsValue(em, v)
  PROVE  Lowers(em, Ok(em, v), None)
  BY NothingComputed DEF Lowers, Ok, Ready

\* An error is a result, of any call.
LEMMA ErrLowers ==
  ASSUME NEW em, Ready(em), NEW error \in ExprErrors, NEW out
  PROVE  Lowers(em, Err(em, error), out) /\ Failed(Err(em, error).em)
<1> DEFINE after == [em EXCEPT !.err = error]
<1>1. /\ DOMAIN after = DOMAIN em /\ after.err = error
      /\ after.labels = em.labels /\ after.sizes = em.sizes /\ after.locals = em.locals
      /\ after.defined = em.defined /\ after.next = em.next /\ after.events = em.events
  BY DEF Ready, IsEmitter
<1>2. Err(em, error).em = after
  BY DEF Err
<1> HIDE DEF after
<1>3. error # "ok"
  BY DEF ExprErrors, LowerErrors
<1>4. Computes(em, after, out)
  <2>1. IsEmitter(after)
    BY <1>1 DEF Ready, IsEmitter
  <2>2. StorageGrew(em, after)
    BY <1>1, PointerGrows DEF Ready, IsEmitter
  <2>3. Len(em.events) \in Nat /\ NewEvents(em, after) = {} /\ NewHomes(em, after) = {}
    BY <1>1, EventsList DEF Ready, NewEvents, NewHomes, Placed
  <2> QED
    BY <1>1, <2>1, <2>2, <2>3 DEF Computes, Keeps
<1> QED
  BY <1>1, <1>2, <1>3, <1>4 DEF Lowers, Failed

\* First one value is lowered, then, if it does not fail, the rest.
LEMMA LowersThen ==
  ASSUME NEW em, Ready(em), NEW out, MayWrite(em, out), NEW one, NEW r,
         Lowers(em, one, None),
         IF Failed(one.em) THEN r = one ELSE Lowers(one.em, r, out)
  PROVE  Lowers(em, r, out)
<1>1. CASE Failed(one.em)
  BY <1>1, FailureLowers
<1>2. CASE ~Failed(one.em)
  BY <1>2, ComputesThen DEF Lowers, Ready
<1> QED
  BY <1>1, <1>2

\* What the rest of a lowering may build on.
LEMMA LoweredValue ==
  ASSUME NEW em, Ready(em), NEW one, Lowers(em, one, None), ~Failed(one.em)
  PROVE  /\ Ready(one.em) /\ IsValue(one.em, one.v)
         /\ \A out : MayWrite(em, out) => MayWrite(one.em, out)
         /\ \A v : IsValue(em, v) => IsValue(one.em, v)
<1>1. Ready(one.em) /\ Keeps(em, one.em)
  BY StillReady DEF Lowers, Computes, Failed
<1> QED
  BY <1>1, StillAPlace, StillAValue DEF Lowers, Ready

\* Emitting an operation.
LEMMA EmitLowers ==
  ASSUME NEW em, Ready(em), NEW opcode, NEW output, NEW inputs,
         IsPlace(em, output), output # None,
         opcode \in ValueOpcodes,
         WellTyped([event |-> "op", opcode |-> opcode, output |-> output,
                    inputs |-> inputs]),
         \A v \in Range(inputs) : IsValue(em, v)
  PROVE  /\ Computes(em, Emit(em, opcode, output, inputs), output)
         /\ Lowers(em, EmitTo(em, opcode, output, inputs), output)
         /\ ~Failed(Emit(em, opcode, output, inputs))
<1> DEFINE o == [event |-> "op", opcode |-> opcode, output |-> output, inputs |-> inputs]
           after == [em EXCEPT !.events = Append(em.events, o)]
<1>1. Emit(em, opcode, output, inputs) = after
  BY DEF Emit, Report
<1>2. /\ DOMAIN after = DOMAIN em /\ after.err = em.err
      /\ after.labels = em.labels /\ after.sizes = em.sizes /\ after.locals = em.locals
      /\ after.defined = em.defined /\ after.next = em.next
      /\ after.events = Append(em.events, o)
  BY DEF Ready, IsEmitter
<1> HIDE DEF after
<1>3. o.event = "op" /\ o.opcode = opcode /\ o.output = output /\ o.inputs = inputs
  OBVIOUS
<1>4. Fits(o)
  BY DEF Fits, IsPlace
<1> HIDE DEF o
<1>5. /\ Len(em.events) \in Nat /\ DOMAIN em.events = 1 .. Len(em.events)
      /\ IsList(after.events)
      /\ Len(after.events) = Len(em.events) + 1
      /\ DOMAIN after.events = 1 .. Len(em.events) + 1
      /\ \A n \in 1 .. Len(em.events) : after.events[n] = em.events[n]
      /\ after.events[Len(em.events) + 1] = o
  BY <1>2, EventsList, ListAppended DEF Ready, IsEmitter
<1>6. IsEmitter(after)
  BY <1>2, <1>5 DEF Ready, IsEmitter
<1>7. Keeps(em, after)
  <2>1. StorageGrew(em, after)
    BY <1>2, PointerGrows DEF Ready, IsEmitter
  <2>2. NewHomes(em, after) = {}
    BY <1>2 DEF NewHomes, Placed
  <2> QED
    BY <1>2, <1>5, <1>6, <2>1, <2>2 DEF Keeps
<1>8. NewEvents(em, after) = {Len(em.events) + 1}
  BY <1>5 DEF NewEvents
<1>9. \A v \in Range(inputs) : Readable(after, Len(em.events), v)
  <2> TAKE v \in Range(inputs)
  <2>1. Readable(em, Len(em.events), v)
    BY DEF IsValue
  <2> QED
    BY <1>5, <1>7, <2>1, StillReadable DEF Ready
<1>10. Computes(em, after, output)
  BY <1>3, <1>4, <1>5, <1>7, <1>8, <1>9 DEF Computes
<1>11. IsValue(after, output)
  <2>1. WrittenBy(after.events[Len(em.events) + 1]) = output
    BY <1>3, <1>5 DEF WrittenBy
  <2>2. Written(after, Len(after.events), output)
    BY <1>5, <2>1 DEF Written
  <2> QED
    BY <2>2 DEF IsValue, Readable, IsPlace
<1> QED
  BY <1>1, <1>2, <1>10, <1>11 DEF Lowers, EmitTo, Ok, Failed, Ready

\* `allocate_unique`.
LEMMA Allocates ==
  ASSUME NEW em, Ready(em), NEW size \in Nat, NEW r, r = AllocateUnique(em, size)
  PROVE  /\ Failed(r.em) => \A out : Lowers(em, r, out)
         /\ ~Failed(r.em) =>
               /\ Ready(r.em) /\ Computes(em, r.em, None)
               /\ r.v # None /\ r.v \in Home /\ r.v.size = size
               /\ em.next <= r.v.offset /\ End(r.v) <= r.em.next
               /\ r.em.events = em.events /\ r.em.locals = em.locals
               /\ IsPlace(r.em, r.v)
<1>1. CASE size = 0
  <2>1. r = Err(em, "ZeroSize")
    BY <1>1 DEF AllocateUnique
  <2>2. "ZeroSize" \in ExprErrors
    BY DEF ExprErrors, LowerErrors
  <2> QED
    BY <2>1, <2>2, ErrLowers
<1>2. CASE size # 0 /\ em.next + size > MaxWord
  <2>1. r = Err(em, "UniqueSpaceOverflow")
    BY <1>2 DEF AllocateUnique
  <2>2. "UniqueSpaceOverflow" \in ExprErrors
    BY DEF ExprErrors, LowerErrors
  <2> QED
    BY <2>1, <2>2, ErrLowers
<1>3. CASE size # 0 /\ ~ (em.next + size > MaxWord)
  <2> DEFINE after == [em EXCEPT !.next = em.next + size]
             v == Varnode(UniqueSpace, em.next, size)
  <2>1. r = Ok(after, v) /\ r.em = after /\ r.v = v
    BY <1>3 DEF AllocateUnique, Ok
  <2>2. /\ DOMAIN after = DOMAIN em /\ after.err = em.err
        /\ after.labels = em.labels /\ after.sizes = em.sizes /\ after.locals = em.locals
        /\ after.defined = em.defined /\ after.next = em.next + size
        /\ after.events = em.events
    BY DEF Ready, IsEmitter
  <2> HIDE DEF after
  <2>3. em.next \in Nat /\ em.next + size \in Nat /\ em.next <= em.next + size
        /\ em.next + size <= MaxWord /\ size \in Nat \ {0}
    BY <1>3, SpaceAssumption DEF Ready, IsEmitter
  <2>4. IsEmitter(after)
    BY <2>2, <2>3 DEF Ready, IsEmitter, Home, End
  <2>5. StorageGrew(em, after)
    BY <2>2, <2>3, PointerGrows
  <2>6. Len(em.events) \in Nat /\ NewEvents(em, after) = {} /\ NewHomes(em, after) = {}
    BY <2>2, EventsList DEF Ready, NewEvents, NewHomes, Placed
  <2>7. Computes(em, after, None)
    BY <2>2, <2>4, <2>5, <2>6 DEF Computes, Keeps
  <2>8. v \in Home /\ v.size = size /\ v.offset = em.next /\ End(v) = em.next + size
    BY <2>3 DEF Varnode, Home, End
  <2>9. v # None
    BY <2>8, HomeAssumption
  <2> HIDE DEF v
  <2> QED
    BY <2>1, <2>2, <2>3, <2>4, <2>7, <2>8, <2>9 DEF Ready, Failed, IsPlace
<1> QED
  BY <1>1, <1>2, <1>3

\* What is computed into bytes allocated for it is scratch.
LEMMA AllocatedThen ==
  ASSUME NEW em, Ready(em), NEW size \in Nat, NEW one, one = AllocateUnique(em, size),
         ~Failed(one.em), NEW after, Computes(one.em, after, one.v)
  PROVE  Computes(em, after, None)
<1>1. /\ Ready(one.em) /\ Computes(em, one.em, None)
      /\ one.v # None /\ one.v \in Home
      /\ em.next <= one.v.offset /\ End(one.v) <= one.em.next
      /\ one.em.events = em.events /\ one.em.locals = em.locals
  BY Allocates
<1>2. Keeps(em, after)
  BY <1>1, KeepsThen DEF Computes, Ready
<1>3. NewEvents(em, after) = NewEvents(one.em, after) /\ NewHomes(em, after) = NewHomes(one.em, after)
  BY <1>1 DEF NewEvents, NewHomes, Placed
<1>4. /\ em.next \in Nat /\ one.em.next \in Nat /\ after.next \in Nat
      /\ em.next <= one.em.next /\ one.em.next <= after.next
  BY <1>1 DEF Computes, Keeps, IsEmitter, Ready, StorageGrew, GrowsTo
<1>5. ASSUME NEW n \in NewEvents(em, after) PROVE Scratch(em, after, n)
  <2> DEFINE v == after.events[n].output
  <2>1. CASE Scratch(one.em, after, n)
    BY <1>3, <1>4, <2>1 DEF Scratch, Home
  <2>2. CASE n = Len(after.events) /\ v = one.v
    <3>1. v \in Home /\ em.next <= v.offset /\ End(v) <= one.em.next /\ End(v) <= after.next
      BY <1>1, <1>4, <2>2 DEF Home, End
    <3>2. ASSUME NEW id \in NewHomes(em, after) PROVE Apart(v, Placed(after)[id])
      <4>1. Placed(after)[id] \in Home /\ one.em.next <= Placed(after)[id].offset
        BY <1>3 DEF Computes, Keeps, StorageGrew, GrowsTo, NewHomes
      <4> QED
        BY <1>4, <3>1, <4>1 DEF Apart, Home, End
    <3>3. ASSUME NEW m \in NewEvents(em, after) \ {n}, InUnique(after.events[m].output)
          PROVE  Apart(v, after.events[m].output)
      <4>1. m # Len(after.events) /\ m \in NewEvents(one.em, after)
        BY <1>3, <2>2, <3>3
      <4>2. Scratch(one.em, after, m)
        BY <4>1 DEF Computes
      <4> QED
        BY <1>4, <3>1, <4>2 DEF Scratch, Apart, Home, End
    <3> QED
      BY <3>1, <3>2, <3>3 DEF Scratch
  <2> QED
    BY <1>3, <2>1, <2>2 DEF Computes
<1> QED
  BY <1>2, <1>3, <1>5 DEF Computes

\* Where `output` says, or in a temporary.
LEMMA Draws ==
  ASSUME NEW em, Ready(em), NEW size \in Nat, NEW requested, MayWrite(em, requested),
         NEW one, one = Output(em, requested, size)
  PROVE  /\ Failed(one.em) => \A out : Lowers(em, one, out)
         /\ ~Failed(one.em) =>
               /\ Ready(one.em) /\ Computes(em, one.em, None)
               /\ IsPlace(one.em, one.v) /\ one.v # None
               /\ one.v = requested \/ (requested = None /\ one.v.size = size)
               /\ \A v : IsValue(em, v) => IsValue(one.em, v)
               /\ one.em.events = em.events /\ one.em.locals = em.locals
<1>1. ASSUME NEW after, Computes(em, after, None)
      PROVE  \A v : IsValue(em, v) => IsValue(after, v)
  BY <1>1, StillAValue DEF Computes, Ready
<1>2. CASE requested = None
  <2>1. one = AllocateUnique(em, size)
    BY <1>2 DEF Output
  <2> QED
    BY <1>1, <1>2, <2>1, Allocates
<1>3. CASE requested # None /\ requested.size = 0
  BY <1>3 DEF MayWrite, IsPlace
<1>4. CASE requested # None /\ requested.size # 0
  <2>1. one = Ok(em, requested) /\ one.em = em /\ one.v = requested
    BY <1>4 DEF Output, Ok
  <2> QED
    BY <1>4, <2>1, NothingComputed DEF Ready, Failed, MayWrite
<1> QED
  BY <1>2, <1>3, <1>4

\* What the rest of a lowering computes into the output drawn for it.
LEMMA DrawsThen ==
  ASSUME NEW em, Ready(em), NEW size \in Nat, NEW requested, MayWrite(em, requested),
         NEW one, one = Output(em, requested, size), NEW r,
         IF Failed(one.em) THEN r = one ELSE Lowers(one.em, r, one.v)
  PROVE  Lowers(em, r, requested)
<1>1. CASE Failed(one.em)
  BY <1>1, Draws
<1>2. CASE ~Failed(one.em)
  <2>1. Lowers(one.em, r, one.v)
    BY <1>2
  <2>2. CASE requested = None
    <3>1. one = AllocateUnique(em, size)
      BY <2>2 DEF Output
    <3>2. Computes(em, r.em, None)
      BY <1>2, <2>1, <3>1, AllocatedThen DEF Lowers
    <3> QED
      BY <2>1, <2>2, <3>2 DEF Lowers
  <2>3. CASE requested # None
    <3>1. one.em = em /\ one.v = requested
      BY <1>2, <2>3 DEF Output, Ok, MayWrite, IsPlace
    <3> QED
      BY <2>1, <3>1
  <2> QED
    BY <2>2, <2>3
<1> QED
  BY <1>1, <1>2

\* And into bytes allocated for it.
LEMMA AllocatesThen ==
  ASSUME NEW em, Ready(em), NEW size \in Nat,
         NEW one, one = AllocateUnique(em, size), NEW r,
         IF Failed(one.em) THEN r = one ELSE Lowers(one.em, r, one.v)
  PROVE  Lowers(em, r, None)
<1>1. one = Output(em, None, size) /\ MayWrite(em, None)
  BY DEF Output, MayWrite
<1> QED
  BY <1>1, DrawsThen

\* One operation into a temporary.
LEMMA ScratchLowers ==
  ASSUME NEW em, Ready(em), NEW size \in Nat,
         NEW one, one = AllocateUnique(em, size), ~Failed(one.em),
         NEW opcode, NEW inputs,
         opcode \in ValueOpcodes,
         WellTyped([event |-> "op", opcode |-> opcode, output |-> one.v,
                    inputs |-> inputs]),
         \A v \in Range(inputs) : IsValue(em, v)
  PROVE  /\ Lowers(em, EmitTo(one.em, opcode, one.v, inputs), None)
         /\ Lowers(em, Ok(Emit(one.em, opcode, one.v, inputs), one.v), None)
         /\ ~Failed(Emit(one.em, opcode, one.v, inputs))
<1>1. /\ Ready(one.em) /\ Computes(em, one.em, None)
      /\ IsPlace(one.em, one.v) /\ one.v # None
  BY Allocates
<1>2. \A v \in Range(inputs) : IsValue(one.em, v)
  BY <1>1, StillAValue DEF Computes, Ready
<1>3. /\ Lowers(one.em, EmitTo(one.em, opcode, one.v, inputs), one.v)
      /\ ~Failed(Emit(one.em, opcode, one.v, inputs))
  BY <1>1, <1>2, EmitLowers
<1> QED
  BY <1>3, AllocatesThen DEF EmitTo

\* The opcodes of binary operators are not those of anything else.
LEMMA BinaryOpcodes ==
  /\ SameWidthOperands \subseteq BinaryOperators
  /\ BinaryOperators \cap (ContextSized \cup Range(DirectOpcode)) = {}
  /\ \A opcode \in {"Load", "Store", "Copy", "CallOther", "BranchInd", "CallInd", "Return"} :
        opcode \notin BinaryOperators \cup ContextSized \cup OneByteResult
<1>1. \A op \in BinaryOperators : BinaryOpcode(op) \in BinaryOperators
  BY DEF BinaryOpcode, BinaryOperators, Boolean, Comparison, Logical, Swapped
<1>2. SameWidthOperands \subseteq BinaryOperators
  BY <1>1 DEF SameWidthOperands
<1>3. BinaryOperators \cap (ContextSized \cup Range(DirectOpcode)) = {}
  BY DEF BinaryOperators, Boolean, Comparison, Logical, Swapped, ContextSized, UnaryOperators,
         Builtins, BooleanBuiltins, CarryBuiltins, WidthPreservingBuiltins, DirectOpcode, Range
<1>4. {BinaryOpcode(op) : op \in Boolean} \subseteq BinaryOperators
  BY <1>1 DEF BinaryOperators
<1>5. \A opcode \in {"Load", "Store", "Copy", "CallOther", "BranchInd", "CallInd", "Return"} :
         opcode \notin BinaryOperators \cup ContextSized \cup BooleanBuiltins \cup {"BoolNegate"}
  BY DEF BinaryOperators, Boolean, Comparison, Logical, Swapped, ContextSized, UnaryOperators,
         Builtins, BooleanBuiltins, CarryBuiltins, WidthPreservingBuiltins
<1> QED
  BY <1>2, <1>3, <1>4, <1>5 DEF OneByteResult

\* No opcode has two rules of widths.
LEMMA WidthClasses ==
  /\ SameWidthOperands \cap {"Load", "Store", "SubPiece"} = {}
  /\ SameWidthResult \cap OneByteResult = {}
  /\ (SameWidthResult \cup OneByteResult) \cap {"IntZext", "IntSext", "SubPiece"} = {}
<1>1. SameWidthOperands \cap {"Load", "Store", "SubPiece"} = {}
  BY BinaryOpcodes DEF ContextSized
<1>2. {BinaryOpcode(op) : op \in Boolean} \subseteq Boolean
  BY DEF BinaryOpcode, Boolean, Comparison, Logical, Swapped
<1>3. Boolean \cap (WidthPreservingBuiltins \cup {"Copy", "IntNegate", "Int2Comp", "FloatNeg"}) = {}
  BY DEF Boolean, Comparison, Logical, Swapped, WidthPreservingBuiltins
<1>4. (BooleanBuiltins \cup {"BoolNegate"})
        \cap (WidthPreservingBuiltins \cup {"Copy", "IntNegate", "Int2Comp", "FloatNeg"}) = {}
  BY DEF BooleanBuiltins, CarryBuiltins, WidthPreservingBuiltins
<1>5. (BooleanBuiltins \cup {"BoolNegate"}) \cap BinaryOperators = {}
  BY BinaryOpcodes DEF ContextSized, Builtins, UnaryOperators
<1>6. (BinaryOperators \cup BooleanBuiltins \cup WidthPreservingBuiltins
         \cup {"BoolNegate", "Copy", "IntNegate", "Int2Comp", "FloatNeg"})
        \cap {"IntZext", "IntSext", "SubPiece"} = {}
  BY DEF BinaryOperators, Boolean, Comparison, Logical, Swapped, BooleanBuiltins, CarryBuiltins,
         WidthPreservingBuiltins
<1>7. SameWidthResult \cap OneByteResult = {}
  BY <1>2, <1>3, <1>4, <1>5 DEF SameWidthResult, OneByteResult
<1>8. Boolean \subseteq BinaryOperators
  BY DEF BinaryOperators
<1>9. (SameWidthResult \cup OneByteResult) \cap {"IntZext", "IntSext", "SubPiece"} = {}
  BY <1>2, <1>6, <1>8 DEF SameWidthResult, OneByteResult
<1> QED
  BY <1>1, <1>7, <1>9

\* What may be asked of the widths of most operations: nothing.
LEMMA AnyWidths ==
  ASSUME NEW o,
         o.opcode \in (ContextSized \ {"SubPiece"}) \cup Range(DirectOpcode)
                        \cup {"CallOther", "BranchInd", "CallInd", "Return"}
  PROVE  WellTyped(o)
<1>1. o.opcode \notin SameWidthOperands /\ o.opcode \notin {"Load", "Store", "SubPiece"}
  <2>1. {"Load", "Store", "SubPiece"} \cap Range(DirectOpcode) = {}
    BY DEF DirectOpcode, Range
  <2> QED
    BY <2>1, BinaryOpcodes
<1>2. OperandsFit(o)
  BY <1>1 DEF OperandsFit
<1>3. CASE o.opcode \in ContextSized
  BY <1>2, <1>3 DEF WellTyped
<1>4. CASE o.opcode \notin ContextSized
  <2>1. o.opcode \notin SameWidthResult
    <3>1. Range(DirectOpcode) \cap {"Copy", "IntNegate", "Int2Comp", "FloatNeg"} = {}
      BY DEF DirectOpcode, Range
    <3>2. {"IntNegate", "Int2Comp", "FloatNeg"} \cup WidthPreservingBuiltins \subseteq ContextSized
      BY DEF ContextSized, UnaryOperators, Builtins
    <3> QED
      BY <1>4, <3>1, <3>2, BinaryOpcodes DEF SameWidthResult
  <2>2. o.opcode \notin OneByteResult
    <3>1. BooleanBuiltins \cup {"BoolNegate"} \subseteq ContextSized
      BY DEF ContextSized, UnaryOperators, Builtins
    <3>2. {BinaryOpcode(op) : op \in Boolean} \subseteq SameWidthOperands
      BY DEF SameWidthOperands, BinaryOperators
    <3> QED
      BY <1>1, <1>4, <3>1, <3>2 DEF OneByteResult
  <2>3. o.opcode \notin {"IntZext", "IntSext", "SubPiece"}
    BY <1>4 DEF ContextSized, Builtins
  <2> QED
    BY <1>2, <2>1, <2>2, <2>3 DEF WellTyped, ResultFits
<1> QED
  BY <1>3, <1>4

\* A copy of a value of the output's width.
LEMMA CopyFits ==
  ASSUME NEW output, NEW input, input.size = output.size
  PROVE  WellTyped([event |-> "op", opcode |-> "Copy", output |-> output, inputs |-> <<input>>])
<1> DEFINE inputs == <<input>>
           o == [event |-> "op", opcode |-> "Copy", output |-> output, inputs |-> inputs]
<1>1. \A n \in DOMAIN inputs : output.size = inputs[n].size
  OBVIOUS
<1>2. o.opcode = "Copy" /\ o.output = output /\ o.inputs = inputs
  OBVIOUS
<1> HIDE DEF o, inputs
<1>3. "Copy" \notin SameWidthOperands /\ "Copy" \in SameWidthResult
  BY BinaryOpcodes DEF SameWidthResult
<1>4. OperandsFit(o)
  BY <1>2, <1>3 DEF OperandsFit
<1>5. ResultFits(o)
  BY <1>1, <1>2, <1>3, WidthClasses DEF ResultFits
<1>6. WellTyped(o)
  BY <1>4, <1>5 DEF WellTyped
<1> QED
  BY <1>6 DEF o, inputs

\* An access of memory at a pointer of its space's width.
LEMMA AccessFits ==
  ASSUME NEW o, o.opcode \in {"Load", "Store"}, NEW space \in DOMAIN SpaceNumbers,
         o.inputs[1] = SpaceId(space), o.inputs[2].size = AddressSize(space)
  PROVE  WellTyped(o)
<1>1. o.opcode \notin SameWidthOperands \cup SameWidthResult \cup OneByteResult
  BY BinaryOpcodes DEF SameWidthResult, WidthPreservingBuiltins
<1> QED
  BY <1>1 DEF WellTyped, OperandsFit, ResultFits

\* Lists of operands.
LEMMA UnarySequence ==
  ASSUME NEW a
  PROVE  Range(<<a>>) = {a} /\ DOMAIN <<a>> = {1} /\ <<a>>[1] = a
  BY DEF Range

\* Two operands.
LEMMA BinarySequence ==
  ASSUME NEW a, NEW b
  PROVE  /\ Range(<<a, b>>) = {a, b} /\ DOMAIN <<a, b>> = {1, 2}
         /\ <<a, b>>[1] = a /\ <<a, b>>[2] = b
  BY DEF Range

\* Constants may always be read.
LEMMA ConstantsAreValues ==
  ASSUME NEW em, NEW value, NEW size \in Nat
  PROVE  IsValue(em, Constant(value, size)) /\ Constant(value, size).size = size
  BY ContextAssumption DEF IsValue, Readable, InUnique, Constant, Varnode

\* A truncation that drops some bytes, but not all, computes.
LEMMA SubPieceLowers ==
  ASSUME NEW em, Ready(em), NEW input, IsValue(em, input), NEW count \in Nat,
         count < input.size, NEW output, IsPlace(em, output), output # None
  PROVE  Lowers(em, EmitTo(em, "SubPiece", output, <<input, Constant(count, 8)>>), output)
<1>1. WellTyped([event |-> "op", opcode |-> "SubPiece", output |-> output,
                 inputs |-> <<input, Constant(count, 8)>>])
  <2> DEFINE inputs == <<input, Constant(count, 8)>>
             o == [event |-> "op", opcode |-> "SubPiece", output |-> output, inputs |-> inputs]
  <2>1. o.opcode = "SubPiece" /\ o.inputs = inputs
    OBVIOUS
  <2>2. inputs[2].offset < inputs[1].size
    BY DEF Constant, Varnode
  <2> HIDE DEF o, inputs
  <2>3. "SubPiece" \in ContextSized /\ "SubPiece" \notin SameWidthOperands
    BY BinaryOpcodes DEF ContextSized
  <2>4. WellTyped(o)
    BY <2>1, <2>2, <2>3 DEF WellTyped, OperandsFit
  <2> QED
    BY <2>4 DEF o, inputs
<1>2. "SubPiece" \in ValueOpcodes
  BY ValueOpcodeNames
<1>3. \A v \in Range(<<input, Constant(count, 8)>>) : IsValue(em, v)
  BY BinarySequence, ConstantsAreValues
<1> QED
  BY <1>1, <1>2, <1>3, EmitLowers

\* `copy_if_requested`.
LEMMA CopyLowers ==
  ASSUME NEW em, Ready(em), NEW input, IsValue(em, input), NEW out, MayWrite(em, out)
  PROVE  Lowers(em, CopyIfRequested(em, input, out), out)
<1> DEFINE r == CopyIfRequested(em, input, out)
<1>1. CASE out = None
  <2>1. r = Ok(em, input)
    BY <1>1 DEF CopyIfRequested
  <2> QED
    BY <1>1, <2>1, ValueLowers
<1>2. CASE out # None /\ out = input
  <2>1. r = Ok(em, out) /\ r.em = em /\ r.v = out
    BY <1>2 DEF CopyIfRequested, Ok
  <2> QED
    BY <1>2, <2>1, NothingComputed DEF Lowers, Ready
<1>3. CASE out # None /\ out # input
  <2>1. IsPlace(em, out) /\ out.size \in Nat /\ input.size \in Nat
    BY <1>3 DEF MayWrite, IsPlace, IsValue
  <2>2. \A v \in Range(<<input>>) : IsValue(em, v)
    BY UnarySequence
  <2>3. CASE input.size = out.size
    <3>1. r = EmitTo(em, "Copy", out, <<input>>)
      BY <1>3, <2>1, <2>3 DEF CopyIfRequested
    <3>2. WellTyped([event |-> "op", opcode |-> "Copy", output |-> out, inputs |-> <<input>>])
      BY <2>3, CopyFits
    <3>3. "Copy" \in ValueOpcodes
      BY ValueOpcodeNames
    <3> QED
      BY <1>3, <2>1, <2>2, <3>1, <3>2, <3>3, EmitLowers
  <2>4. CASE input.size < out.size
    <3>1. r = EmitTo(em, "IntZext", out, <<input>>)
      BY <1>3, <2>1, <2>4 DEF CopyIfRequested
    <3>2. WellTyped([event |-> "op", opcode |-> "IntZext", output |-> out, inputs |-> <<input>>])
      BY AnyWidths DEF ContextSized, Builtins
    <3>3. "IntZext" \in ValueOpcodes
      BY ValueOpcodeNames
    <3> QED
      BY <1>3, <2>1, <2>2, <3>1, <3>2, <3>3, EmitLowers
  <2>5. CASE input.size > out.size
    <3>1. r = EmitTo(em, "SubPiece", out, <<input, Constant(0, 8)>>)
      BY <1>3, <2>1, <2>5 DEF CopyIfRequested
    <3> QED
      BY <1>3, <2>1, <2>5, <3>1, SubPieceLowers
  <2> QED
    BY <2>1, <2>3, <2>4, <2>5
<1> QED
  BY <1>1, <1>2, <1>3

\* What emission knows of a width is a number of bytes or nothing.
LEMMA KnownSizeType ==
  ASSUME SizeRecurs, NEW em, IsEmitter(em), NEW e \in Expressions
  PROVE  KnownSize(em, e) \in Count
<1>1. Width = Count
  BY ConcreteAssumption DEF Width
<1>2. \A id \in Local : em.locals[id] # None => em.locals[id].size \in Nat
  BY DEF IsEmitter, Home
<1>3. IsEnv(EmitEnv(em))
  BY <1>1, <1>2 DEF IsEnv, EmitEnv, OrElse, IsEmitter, Count
<1> QED
  BY <1>1, <1>3, ExprSizeType DEF KnownSize

\* `storage_for_ident`.
LEMMA StorageLowers ==
  ASSUME NEW em, Ready(em), NEW ident, IsIdent(ident), NEW size \in Count,
         NEW r, r = StorageForIdent(em, ident, size)
  PROVE  /\ Lowers(em, r, None)
         /\ ~Failed(r.em) =>
               /\ IsPlace(r.em, r.v) /\ r.v # None
               /\ InUnique(r.v) => Housed(r.v, Placed(r.em))
               /\ r.em.events = em.events
<1>1. CASE ident.form = "Register"
  <2>1. CASE RegisterVarnode(ident.id) = None
    <3>1. r = Err(em, "UnknownRegister") /\ "UnknownRegister" \in ExprErrors
      BY <1>1, <2>1 DEF StorageForIdent, ExprErrors, LowerErrors
    <3> QED
      BY <3>1, ErrLowers
  <2>2. CASE RegisterVarnode(ident.id) # None
    <3> DEFINE v == RegisterVarnode(ident.id)
    <3>1. r = Ok(em, v) /\ r.em = em /\ r.v = v
      BY <1>1, <2>2 DEF StorageForIdent, Ok
    <3>2. v.size \in Nat \ {0} /\ ~InUnique(v)
      BY <2>2, ContextAssumption DEF RegisterVarnode, InUnique
    <3>3. IsValue(em, v) /\ IsPlace(em, v)
      BY <3>2 DEF IsValue, Readable, IsPlace
    <3> QED
      BY <2>2, <3>1, <3>2, <3>3, ValueLowers
  <2> QED
    BY <2>1, <2>2
<1>2. CASE ident.form = "Named"
  <2> DEFINE id == ident.id
  <2>1. id \in Local /\ r = LocalStorage(em, id, size)
    BY <1>2 DEF IsIdent, StorageForIdent
  <2>2. /\ None \notin Home /\ None \notin Nat
        /\ em.sizes[id] \in Option(Nat) /\ em.locals[id] \in Option(Home) /\ size \in Option(Nat)
    BY <2>1, HomeAssumption, NoneAssumption DEF Ready, IsEmitter, Option, Count
  <2>3. SoundEmitter(em)
    BY DEF Ready, IsEmitter, SoundEmitter
  <2>4. /\ StorageGrew(em, r.em)
        /\ Failed(r.em) => r.em.next = em.next /\ r.em.locals = em.locals
        /\ ~Failed(r.em) =>
              /\ SoundEmitter(r.em) /\ r.em.locals[id] = r.v /\ r.v \in Home
              /\ em.sizes[id] # None => r.v.size = em.sizes[id]
    BY <2>1, <2>2, <2>3, HomeGrows
  <2>5. \/ \E error \in ExprErrors : r = Err(em, error)
        \/ r = Ok(em, em.locals[id]) /\ em.locals[id] # None
        \/ \E width \in Nat :
              LET fresh == AllocateUnique(em, width)
              IN  ~Failed(fresh.em) /\ r = Ok([fresh.em EXCEPT !.locals[id] = fresh.v], fresh.v)
        \/ \E width \in Nat : r = AllocateUnique(em, width) /\ Failed(r.em)
    <3>1. LocalSize(em, id, size) \in Option(Nat)
      BY <2>2 DEF LocalSize, OrElse
    <3>2. {"CopySizeMismatch", "UnknownSize"} \subseteq ExprErrors
      BY DEF ExprErrors, LowerErrors
    <3> QED
      BY <2>1, <3>1, <3>2 DEF LocalStorage, Option
  <2>6. CASE \E error \in ExprErrors : r = Err(em, error)
    BY <2>6, ErrLowers
  <2>7. CASE \E width \in Nat : r = AllocateUnique(em, width) /\ Failed(r.em)
    BY <2>7, Allocates
  <2>8. ASSUME ~Failed(r.em), r.em.events = em.events, Computes(em, r.em, None)
        PROVE  /\ Lowers(em, r, None)
               /\ IsPlace(r.em, r.v) /\ r.v # None
               /\ Housed(r.v, Placed(r.em))
    <3>1. r.v \in Home /\ r.v = r.em.locals[id] /\ r.v # None
      BY <2>4, <2>8, HomeAssumption
    <3>2. End(r.v) <= r.em.next
      BY <2>1, <2>8, <3>1 DEF Computes, Keeps, IsEmitter
    <3>3. IsPlace(r.em, r.v)
      BY <3>1, <3>2 DEF IsPlace, Home
    <3>4. id \in DOMAIN Placed(r.em) /\ Placed(r.em)[id] = r.v
      BY <2>1, <3>1 DEF Placed, HomesOf
    <3>5. Within(r.v, r.v)
      BY <3>1 DEF Within, End, Home
    <3>6. Housed(r.v, Placed(r.em))
      BY <3>4, <3>5 DEF Housed
    <3>7. IsValue(r.em, r.v)
      BY <3>1, <3>6 DEF IsValue, Readable, Home
    <3> QED
      BY <2>8, <3>1, <3>3, <3>6, <3>7 DEF Lowers, Failed
  <2>9. CASE r = Ok(em, em.locals[id]) /\ em.locals[id] # None
    <3>1. r.em = em
      BY <2>9 DEF Ok
    <3> QED
      BY <2>8, <3>1, NothingComputed DEF Ready, Failed
  <2>10. CASE \E width \in Nat :
              LET fresh == AllocateUnique(em, width)
              IN  ~Failed(fresh.em) /\ r = Ok([fresh.em EXCEPT !.locals[id] = fresh.v], fresh.v)
    <3>1. PICK width \in Nat :
              LET fresh == AllocateUnique(em, width)
              IN  ~Failed(fresh.em) /\ r = Ok([fresh.em EXCEPT !.locals[id] = fresh.v], fresh.v)
      BY <2>10
    <3> DEFINE fresh == AllocateUnique(em, width)
               after == [fresh.em EXCEPT !.locals[id] = fresh.v]
    <3>2. ~Failed(fresh.em) /\ r.em = after
      BY <3>1 DEF Ok
    <3>3. /\ Ready(fresh.em) /\ Computes(em, fresh.em, None)
          /\ fresh.v \in Home /\ End(fresh.v) <= fresh.em.next
          /\ fresh.em.events = em.events /\ fresh.em.locals = em.locals
      BY <3>2, Allocates
    <3> HIDE DEF fresh
    <3>4. /\ DOMAIN after = DOMAIN em /\ after.err = "ok"
          /\ after.labels = em.labels /\ after.sizes = em.sizes /\ after.defined = em.defined
          /\ after.events = em.events /\ after.next = fresh.em.next
          /\ after.locals = [em.locals EXCEPT ![id] = fresh.v]
      BY <3>3 DEF Ready, IsEmitter, Computes, Keeps
    <3> HIDE DEF after
    <3>5. IsEmitter(after)
      <4>1. em.next <= fresh.em.next /\ em.next \in Nat /\ fresh.em.next \in Nat
            /\ fresh.em.next <= MaxWord
        BY <3>3 DEF Computes, Keeps, StorageGrew, GrowsTo, Ready, IsEmitter
      <4>2. after.locals \in [Local -> Home \cup {None}]
        BY <3>3, <3>4 DEF Ready, IsEmitter
      <4>3. ASSUME NEW other \in Local, after.locals[other] # None
            PROVE  End(after.locals[other]) <= after.next
        <5>1. CASE other = id
          BY <2>1, <3>3, <3>4, <5>1 DEF Ready, IsEmitter
        <5>2. CASE other # id
          <6>1. after.locals[other] = em.locals[other]
            BY <3>4, <5>2 DEF Ready, IsEmitter
          <6>2. em.locals[other] \in Home /\ End(em.locals[other]) <= em.next
            BY <4>3, <6>1 DEF Ready, IsEmitter
          <6> QED
            BY <3>4, <4>1, <6>1, <6>2 DEF Home, End
        <5> QED
          BY <5>1, <5>2
      <4> QED
        BY <3>4, <4>1, <4>2, <4>3 DEF Ready, IsEmitter
    <3>6. NewHomes(em, after) \subseteq {id} /\ (id \in NewHomes(em, after) => Placed(after)[id] = r.v)
      BY <2>1, <2>4, <3>2, <3>4 DEF NewHomes, Placed, HomesOf, Ready, IsEmitter, Failed
    <3>7. NewEvents(em, after) = {} /\ Len(em.events) \in Nat
      BY <3>4, EventsList DEF NewEvents, Ready
    <3>8. ~Failed(r.em)
      BY <3>2, <3>4 DEF Failed
    <3>9. Computes(em, after, None)
      BY <2>4, <3>2, <3>4, <3>5, <3>6, <3>7, <3>8 DEF Computes, Keeps
    <3> QED
      BY <2>8, <3>2, <3>4, <3>8, <3>9
  <2> QED
    BY <2>5, <2>6, <2>7, <2>9, <2>10 DEF Lowers
<1>3. CASE ident.form \notin {"Register", "Named"}
  <2>1. \E error \in {"Unsupported", "UnresolvedIdentifier"} : r = Err(em, error)
    BY <1>3 DEF StorageForIdent
  <2>2. {"Unsupported", "UnresolvedIdentifier"} \subseteq ExprErrors
    BY DEF ExprErrors, LowerErrors
  <2> QED
    BY <2>1, <2>2, ErrLowers
<1> QED
  BY <1>1, <1>2, <1>3

\* One more operand, if those before it did not fail.
OneMore(before, e, size) ==
    Then(before, LAMBDA em1, inputs : LowerNext(em1, inputs, e, size))

\* Lowering operands, one by one.
LEMMA OperandsUnfold ==
  ASSUME NEW em, NEW args, NEW size, Len(args) \in Nat
  PROVE  \E g : /\ LowerOperands(em, args, size) = g[Len(args)]
               /\ \A n \in 0 .. Len(args) :
                     g[n] = IF n = 0 THEN Ok(em, <<>>) ELSE OneMore(g[n - 1], args[n], size)
<1> DEFINE Runs(k) == \E g : g = [n \in 0 .. k |-> IF n = 0 THEN Ok(em, <<>>) ELSE OneMore(g[n - 1], args[n], size)]
           Good == {k \in Nat : Runs(k)}
<1>1. Runs(0)
  <2> DEFINE g == [n \in 0 .. 0 |-> Ok(em, <<>>)]
  <2>1. g = [n \in 0 .. 0 |-> IF n = 0 THEN Ok(em, <<>>) ELSE OneMore(g[n - 1], args[n], size)]
    OBVIOUS
  <2> QED
    BY <2>1
<1>2. ASSUME NEW k \in Nat, k # 0, Runs(k - 1) PROVE Runs(k)
  <2>1. PICK g : g = [n \in 0 .. k - 1 |-> IF n = 0 THEN Ok(em, <<>>) ELSE OneMore(g[n - 1], args[n], size)]
    BY <1>2
  <2> DEFINE h == [n \in 0 .. k |-> IF n = k THEN OneMore(g[k - 1], args[k], size) ELSE g[n]]
  <2>2. ASSUME NEW n \in 0 .. k
        PROVE  h[n] = IF n = 0 THEN Ok(em, <<>>) ELSE OneMore(h[n - 1], args[n], size)
    <3>1. CASE n = k
      BY <1>2, <3>1
    <3>2. CASE n # k
      <4>1. n \in 0 .. k - 1 /\ (n # 0 => n - 1 \in 0 .. k - 1 /\ n - 1 # k)
        BY <1>2, <3>2
      <4>2. h[n] = g[n] /\ (n # 0 => h[n - 1] = g[n - 1])
        BY <1>2, <3>2, <4>1
      <4>3. g[n] = IF n = 0 THEN Ok(em, <<>>) ELSE OneMore(g[n - 1], args[n], size)
        BY <2>1, <4>1
      <4> QED
        BY <4>2, <4>3
    <3> QED
      BY <3>1, <3>2
  <2>3. h = [n \in 0 .. k |-> h[n]]
    OBVIOUS
  <2> HIDE DEF h
  <2>4. h = [n \in 0 .. k |-> IF n = 0 THEN Ok(em, <<>>) ELSE OneMore(h[n - 1], args[n], size)]
    BY <2>2, <2>3
  <2> QED
    BY <2>4
<1> HIDE DEF Runs
<1>3. 0 \in Good /\ \A k \in 1 .. Len(args) : k - 1 \in Good => k \in Good
  BY <1>1, <1>2
<1>4. Runs(Len(args))
  <2> HIDE DEF Good
  <2>1. 0 .. Len(args) \subseteq Good
    BY <1>3, UpTo
  <2> QED
    BY <2>1 DEF Good
<1> DEFINE g == CHOOSE g : g = [n \in 0 .. Len(args) |-> IF n = 0 THEN Ok(em, <<>>) ELSE OneMore(g[n - 1], args[n], size)]
<1>5. g = [n \in 0 .. Len(args) |-> IF n = 0 THEN Ok(em, <<>>) ELSE OneMore(g[n - 1], args[n], size)]
  BY <1>4 DEF Runs
<1>6. LowerOperands(em, args, size) = g[Len(args)]
  BY DEF LowerOperands, OneMore
<1> HIDE DEF g
<1>7. \A n \in 0 .. Len(args) : g[n] = IF n = 0 THEN Ok(em, <<>>) ELSE OneMore(g[n - 1], args[n], size)
  BY <1>5
<1> QED
  BY <1>6, <1>7

----------------------------------------------------------------------------
(* Lowering an expression, by its kind.                                    *)

LowerRecurs ==
    \A em, requested : \A e \in Expressions :
       LowerExpr(em, e, requested) = LowerExprByKind(em, e, requested)

\* What holds of lowering `e`, wherever it is asked for.
Sound(e) ==
    \A em, out : Ready(em) /\ MayWrite(em, out) => Lowers(em, LowerExpr(em, e, out), out)

\* Two operands, and a result, of one width.
LEMMA OneWidth ==
  ASSUME NEW opcode \in BinaryOperators \ Boolean, NEW output, NEW a, NEW b,
         a.size = output.size, b.size = output.size
  PROVE  WellTyped([event |-> "op", opcode |-> opcode, output |-> output,
                    inputs |-> <<a, b>>])
<1> DEFINE inputs == <<a, b>>
           o == [event |-> "op", opcode |-> opcode, output |-> output, inputs |-> inputs]
<1>1. \A n \in DOMAIN inputs : inputs[n].size = output.size
  BY BinarySequence
<1>2. o.opcode = opcode /\ o.output = output /\ o.inputs = inputs
  OBVIOUS
<1> HIDE DEF o, inputs
<1>3. opcode \in SameWidthOperands /\ opcode \in SameWidthResult
  <2>1. BinaryOpcode(opcode) = opcode
    BY DEF BinaryOpcode, Boolean, Comparison
  <2> QED
    BY <2>1 DEF SameWidthOperands, SameWidthResult
<1>4. OperandsFit(o)
  BY <1>1, <1>2, <1>3, WidthClasses DEF OperandsFit, SameWidths
<1>5. ResultFits(o)
  BY <1>1, <1>2, <1>3, WidthClasses DEF ResultFits
<1>6. WellTyped(o)
  BY <1>4, <1>5 DEF WellTyped
<1> QED
  BY <1>6 DEF o, inputs

\* The operators that lowering composes bit ranges from.
LEMMA ShiftsAndMasks ==
  {"IntAdd", "IntAnd", "IntOr", "IntLeft", "IntRight"} \subseteq BinaryOperators \ Boolean
  BY DEF BinaryOperators, Boolean, Comparison, Logical, Swapped

\* Two operands of one width, and a result of one byte.
LEMMA OneByte ==
  ASSUME NEW op \in Boolean, NEW output, output.size = 1, NEW a, NEW b, a.size = b.size
  PROVE  WellTyped([event |-> "op", opcode |-> BinaryOpcode(op), output |-> output,
                    inputs |-> <<a, b>>])
<1> DEFINE inputs == <<a, b>>
           o == [event |-> "op", opcode |-> BinaryOpcode(op), output |-> output,
                 inputs |-> inputs]
<1>1. \A m, n \in DOMAIN inputs : inputs[m].size = inputs[n].size
  BY BinarySequence
<1>2. o.opcode = BinaryOpcode(op) /\ o.output = output /\ o.inputs = inputs
  OBVIOUS
<1> HIDE DEF o, inputs
<1>3. /\ BinaryOpcode(op) \in SameWidthOperands /\ BinaryOpcode(op) \in OneByteResult
      /\ BinaryOpcode(op) \notin SameWidthResult
  <2>1. op \in BinaryOperators
    BY DEF BinaryOperators
  <2>2. BinaryOpcode(op) \in Boolean
    BY DEF BinaryOpcode, Boolean, Comparison, Logical, Swapped
  <2>3. Boolean \cap ({"Copy", "IntNegate", "Int2Comp", "FloatNeg"} \cup WidthPreservingBuiltins) = {}
    BY DEF Boolean, Comparison, Logical, Swapped, WidthPreservingBuiltins
  <2> QED
    BY <2>1, <2>2, <2>3 DEF SameWidthOperands, OneByteResult, SameWidthResult
<1>4. OperandsFit(o)
  BY <1>1, <1>2, <1>3, WidthClasses DEF OperandsFit, SameWidths
<1>5. ResultFits(o)
  BY <1>2, <1>3, WidthClasses DEF ResultFits
<1>6. WellTyped(o)
  BY <1>4, <1>5 DEF WellTyped
<1> QED
  BY <1>6 DEF o, inputs

\* Lowering an expression without a place for it leaves a value.
LEMMA SoundValue ==
  ASSUME NEW e, Sound(e), NEW em, Ready(em)
  PROVE  Lowers(em, LowerExpr(em, e, None), None)
  BY DEF Sound, MayWrite

\* `lower_expr_with_size`: so does widening it.
LEMMA WithSizeLowers ==
  ASSUME NEW e, Sound(e), NEW em, Ready(em), NEW size \in Nat
  PROVE  Lowers(em, LowerExprWithSize(em, e, size), None)
<1> DEFINE r == LowerExprWithSize(em, e, size)
           one == AllocateUnique(em, size)
<1>1. CASE e.kind = "SizedInt"
  BY <1>1, ConstantsAreValues, ValueLowers DEF LowerExprWithSize
<1>2. CASE e.kind # "SizedInt" /\ KnownSize(em, e) = size
  <2>1. r = LowerExpr(em, e, None)
    BY <1>2 DEF LowerExprWithSize, Then, Ok, Failed, Ready
  <2> QED
    BY <2>1, SoundValue
<1>3. CASE e.kind # "SizedInt" /\ KnownSize(em, e) # size
  <2>1. r = IF Failed(one.em) THEN one ELSE LowerExpr(one.em, e, one.v)
    BY <1>3 DEF LowerExprWithSize, Then
  <2>2. ~Failed(one.em) => Lowers(one.em, LowerExpr(one.em, e, one.v), one.v)
    BY Allocates DEF Sound, MayWrite
  <2> HIDE DEF r, one
  <2> QED
    BY <2>1, <2>2, AllocatesThen DEF r, one
<1> QED
  BY <1>1, <1>2, <1>3

\* An operand of a width, or of its own.
LEMMA OperandLowers ==
  ASSUME NEW e, Sound(e), NEW em, Ready(em), NEW size \in Count
  PROVE  Lowers(em, LowerOperand(em, e, size), None)
  BY SoundValue, WithSizeLowers DEF LowerOperand, Count

\* `validate_pointer`: a pointer that is taken is as wide as its space's
\* addresses.
LEMMA PointerLowers ==
  ASSUME NEW e, Sound(e), NEW em, Ready(em), NEW space,
         NEW r, r = LowerPointer(em, space, e)
  PROVE  /\ Lowers(em, r, None)
         /\ ~Failed(r.em) => AddressSize(space) # None /\ r.v.size = AddressSize(space)
<1> DEFINE one == LowerExpr(em, e, None)
           error == PointerError(space, one.v)
<1>1. Lowers(em, one, None)
  BY SoundValue
<1>2. CASE Failed(one.em)
  BY <1>1, <1>2 DEF LowerPointer, Then
<1>3. CASE ~Failed(one.em)
  <2>1. Ready(one.em) /\ IsValue(one.em, one.v)
    BY <1>1, <1>3, LoweredValue
  <2>2. CASE error = "ok"
    <3>1. r = Ok(one.em, one.v)
      BY <1>3, <2>2 DEF LowerPointer, Then, Check, Ok
    <3>2. AddressSize(space) # None /\ one.v.size = AddressSize(space)
      BY <2>2 DEF PointerError
    <3>3. Lowers(one.em, r, None)
      BY <2>1, <3>1, ValueLowers
    <3> QED
      BY <1>1, <1>3, <3>1, <3>2, <3>3, LowersThen DEF Ok, MayWrite
  <2>3. CASE error # "ok"
    <3>1. error \in ExprErrors
      BY <2>3, ErrorNames DEF PointerError
    <3> HIDE DEF error
    <3>2. Failed(Err(one.em, error).em) /\ Lowers(one.em, Err(one.em, error), None)
      BY <2>1, <3>1, ErrLowers
    <3>3. r = Err(one.em, error)
      BY <1>3, <2>3, <3>2 DEF LowerPointer, Then, Check, error
    <3> QED
      BY <1>1, <1>3, <3>2, <3>3, LowersThen DEF MayWrite
  <2> QED
    BY <2>2, <2>3
<1> QED
  BY <1>2, <1>3

\* Lowering operands: their values are there, or it failed.
LowersAll(em, r) ==
    /\ Computes(em, r.em, None)
    /\ r.em.err \in {"ok"} \cup ExprErrors
    /\ ~Failed(r.em) => IsList(r.v) /\ \A n \in DOMAIN r.v : IsValue(r.em, r.v[n])

\* Operands are lowered one after the other.
LEMMA OperandsLower ==
  ASSUME NEW em, Ready(em), NEW args \in Seq(Expressions), NEW size \in Count,
         \A n \in DOMAIN args : Sound(args[n])
  PROVE  LowersAll(em, LowerOperands(em, args, size))
<1>1. Len(args) \in Nat /\ DOMAIN args = 1 .. Len(args)
  OBVIOUS
<1>2. PICK g : /\ LowerOperands(em, args, size) = g[Len(args)]
               /\ \A n \in 0 .. Len(args) :
                     g[n] = IF n = 0 THEN Ok(em, <<>>) ELSE OneMore(g[n - 1], args[n], size)
  BY <1>1, OperandsUnfold
<1> DEFINE Good == {n \in 0 .. Len(args) : LowersAll(em, g[n])}
<1>3. 0 \in Good
  <2>1. g[0].em = em /\ g[0].v = <<>>
    BY <1>1, <1>2 DEF Ok
  <2>2. IsList(<<>>) /\ DOMAIN <<>> = {}
    BY DEF IsList
  <2> QED
    BY <1>1, <2>1, <2>2, NothingComputed DEF LowersAll, Ready
<1>4. ASSUME NEW n \in 1 .. Len(args), n - 1 \in Good PROVE n \in Good
  <2> DEFINE one == g[n - 1]
             two == LowerOperand(one.em, args[n], size)
  <2>1. n \in 0 .. Len(args) /\ g[n] = OneMore(one, args[n], size) /\ LowersAll(em, one)
    BY <1>1, <1>2, <1>4
  <2> HIDE DEF one
  <2>2. CASE Failed(one.em)
    BY <2>1, <2>2 DEF OneMore, Then
  <2>3. CASE ~Failed(one.em)
    <3>1. Ready(one.em) /\ IsList(one.v) /\ \A k \in DOMAIN one.v : IsValue(one.em, one.v[k])
      BY <2>1, <2>3, StillReady DEF LowersAll, Failed
    <3>2. Lowers(one.em, two, None)
      BY <1>1, <1>4, <3>1, OperandLowers
    <3>3. Computes(em, two.em, None) /\ two.em.err \in {"ok"} \cup ExprErrors
      BY <2>1, <3>2, ComputesThen DEF LowersAll, Lowers, Ready, MayWrite
    <3> HIDE DEF two
    <3>4. CASE Failed(two.em)
      <4>1. g[n] = two
        BY <2>1, <2>3, <3>4 DEF OneMore, LowerNext, Then, two
      <4> QED
        BY <2>1, <3>3, <3>4, <4>1 DEF LowersAll
    <3>5. CASE ~Failed(two.em)
      <4>1. g[n] = Ok(two.em, Append(one.v, two.v))
        BY <2>1, <2>3, <3>5 DEF OneMore, LowerNext, Then, two
      <4>2. IsValue(two.em, two.v) /\ \A k \in DOMAIN one.v : IsValue(two.em, one.v[k])
        BY <3>1, <3>2, <3>5, LoweredValue
      <4>3. /\ IsList(Append(one.v, two.v))
            /\ Len(one.v) \in Nat /\ DOMAIN one.v = 1 .. Len(one.v)
            /\ DOMAIN Append(one.v, two.v) = 1 .. Len(one.v) + 1
            /\ \A k \in 1 .. Len(one.v) : Append(one.v, two.v)[k] = one.v[k]
            /\ Append(one.v, two.v)[Len(one.v) + 1] = two.v
        BY <3>1, ListAppended DEF IsList
      <4>4. \A k \in 1 .. Len(one.v) + 1 : k \in 1 .. Len(one.v) \/ k = Len(one.v) + 1
        BY <4>3
      <4>5. \A k \in DOMAIN Append(one.v, two.v) : IsValue(two.em, Append(one.v, two.v)[k])
        BY <4>2, <4>3, <4>4
      <4>6. g[n].em = two.em /\ g[n].v = Append(one.v, two.v)
        BY <4>1 DEF Ok
      <4> QED
        BY <2>1, <3>3, <4>3, <4>5, <4>6 DEF LowersAll
    <3> QED
      BY <3>4, <3>5
  <2> QED
    BY <2>2, <2>3
<1>5. 0 .. Len(args) \subseteq Good
  <2> HIDE DEF Good
  <2> QED
    BY <1>1, <1>3, <1>4, UpTo
<1> QED
  BY <1>1, <1>2, <1>5

\* An operation on the operands lowered before it.
LEMMA LowersAllThen ==
  ASSUME NEW em, Ready(em), NEW output, IsPlace(em, output), output # None,
         NEW one, LowersAll(em, one), NEW opcode \in ValueOpcodes,
         \A o : o.opcode = opcode => WellTyped(o),
         NEW r, r = IF Failed(one.em) THEN one ELSE EmitTo(one.em, opcode, output, one.v)
  PROVE  Lowers(em, r, output)
<1>1. CASE Failed(one.em)
  BY <1>1 DEF LowersAll, Lowers, Computes
<1>2. CASE ~Failed(one.em)
  <2>1. Ready(one.em) /\ Keeps(em, one.em)
    BY <1>2, StillReady DEF LowersAll, Failed, Computes
  <2>2. IsPlace(one.em, output)
    BY <2>1, StillAPlace DEF Ready, MayWrite
  <2>3. \A v \in Range(one.v) : IsValue(one.em, v)
    BY <1>2 DEF LowersAll, Range
  <2>4. WellTyped([event |-> "op", opcode |-> opcode, output |-> output, inputs |-> one.v])
    OBVIOUS
  <2>5. Lowers(one.em, r, output)
    BY <1>2, <2>1, <2>2, <2>3, <2>4, EmitLowers
  <2> QED
    BY <2>5, ComputesThen DEF LowersAll, Lowers, Ready, MayWrite
<1> QED
  BY <1>1, <1>2

\* `lower_expr` of a literal.
LEMMA SizedIntLowers ==
  ASSUME NEW e \in Expressions, e.kind = "SizedInt",
         NEW em, Ready(em), NEW out, MayWrite(em, out)
  PROVE  Lowers(em, LowerSizedInt(em, e, out), out)
<1> DEFINE size == OrElse(RequestedSize(out), OrElse(e.literal, e.size))
<1>1. size \in Count
  BY ExpressionsAssumption DEF IsExpression, OrElse, RequestedSize, MayWrite, IsPlace, Count
<1>2. LowerSizedInt(em, e, out) = IF size = None THEN Err(em, "UnknownSize")
                                  ELSE CopyIfRequested(em, Constant(e.value, size), out)
  BY DEF LowerSizedInt
<1> HIDE DEF size
<1>3. CASE size = None
  BY <1>2, <1>3, ErrorNames, ErrLowers
<1>4. CASE size # None
  BY <1>1, <1>2, <1>4, ConstantsAreValues, CopyLowers DEF Count
<1> QED
  BY <1>3, <1>4

\* `extract_range`.
LEMMA ExtractLowers ==
  ASSUME NEW em, Ready(em), NEW input, IsValue(em, input), NEW start \in Nat,
         NEW bits \in Nat, NEW out, MayWrite(em, out)
  PROVE  Lowers(em, ExtractRange(em, input, start, bits, out), out)
<1> DEFINE r == ExtractRange(em, input, start, bits, out)
           size == DivCeilByte(bits)
           one == AllocateUnique(em, input.size)
           shift == <<input, Constant(start, input.size)>>
           em1 == Emit(one.em, "IntRight", one.v, shift)
           two == AllocateUnique(em1, input.size)
           mask == <<one.v, Constant(Mask(bits), input.size)>>
           em2 == Emit(two.em, "IntAnd", two.v, mask)
           three == Output(em2, out, size)
           last == EmitTo(three.em, "SubPiece", three.v, <<two.v, Constant(0, 8)>>)
<1>1. CASE ~RangeValid(input, start, bits) \/ (out # None /\ RequestedSize(out) # size)
  <2>1. \E error \in {"InvalidRange", "CopySizeMismatch"} : r = Err(em, error)
    BY <1>1 DEF ExtractRange
  <2> QED
    BY <2>1, ErrorNames, ErrLowers
<1>2. CASE ~ (~RangeValid(input, start, bits) \/ (out # None /\ RequestedSize(out) # size))
  <2>1. r = IF Failed(one.em) THEN one
            ELSE IF Failed(two.em) THEN two
            ELSE IF Failed(three.em) THEN three ELSE last
    BY <1>2 DEF ExtractRange, Then
  <2>2. input.size \in Nat /\ size \in Nat
    <3>1. size \in Count
      BY BytesType DEF Count
    <3>2. size # None
      BY <3>1, WidthsAssumption, NoneAssumption DEF DivCeilByte, Count
    <3> QED
      BY <3>1, <3>2 DEF IsValue, Count
  <2> HIDE DEF r, size, one, em1, two, em2, three, last
  <2>3. CASE Failed(one.em)
    <3>1. r = one
      BY <2>1, <2>3
    <3> QED
      BY <2>2, <2>3, <3>1, Allocates DEF one, r
  <2>4. CASE ~Failed(one.em)
    <3>1. one.v.size = input.size
      BY <2>2, <2>4, Allocates DEF one
    <3>2. WellTyped([event |-> "op", opcode |-> "IntRight", output |-> one.v, inputs |-> shift])
      BY <2>2, <3>1, OneWidth, ConstantsAreValues, ShiftsAndMasks
    <3>3. \A v \in Range(shift) : IsValue(em, v)
      BY <2>2, BinarySequence, ConstantsAreValues
    <3> HIDE DEF shift
    <3>4. Lowers(em, Ok(em1, one.v), None) /\ ~Failed(em1)
      BY <2>2, <2>4, <3>2, <3>3, ScratchLowers, ValueOpcodeNames DEF em1, one
    <3>5. Ready(em1) /\ IsValue(em1, one.v) /\ MayWrite(em1, out)
      BY <3>4, LoweredValue DEF Ok
    <3>6. Lowers(em1, r, out) => Lowers(em, r, out)
      BY <3>4, LowersThen DEF Ok
    <3>7. CASE Failed(two.em)
      <4>1. r = two
        BY <2>1, <2>4, <3>7
      <4>2. Lowers(em1, two, out)
        BY <2>2, <3>5, <3>7, Allocates DEF two
      <4> QED
        BY <3>6, <4>1, <4>2 DEF r
    <3>8. CASE ~Failed(two.em)
      <4>1. two.v.size = input.size
        BY <2>2, <3>5, <3>8, Allocates DEF two
      <4>2. WellTyped([event |-> "op", opcode |-> "IntAnd", output |-> two.v, inputs |-> mask])
        BY <2>2, <3>1, <4>1, OneWidth, ConstantsAreValues, ShiftsAndMasks
      <4>3. \A v \in Range(mask) : IsValue(em1, v)
        BY <2>2, <3>5, BinarySequence, ConstantsAreValues
      <4> HIDE DEF mask
      <4>4. Lowers(em1, Ok(em2, two.v), None) /\ ~Failed(em2)
        BY <2>2, <3>5, <3>8, <4>2, <4>3, ScratchLowers, ValueOpcodeNames DEF em2, two
      <4>5. Ready(em2) /\ IsValue(em2, two.v) /\ MayWrite(em2, out)
        BY <3>5, <4>4, LoweredValue DEF Ok
      <4>6. Lowers(em1, r, out) \/ ~Lowers(em2, r, out)
        BY <3>5, <4>4, LowersThen DEF Ok
      <4>7. ~Failed(three.em) => Lowers(three.em, last, three.v)
        <5>1. ~Failed(three.em) => /\ Ready(three.em) /\ IsPlace(three.em, three.v)
                                   /\ three.v # None /\ IsValue(three.em, two.v)
          BY <2>2, <4>5, Draws DEF three
        <5>2. 0 < two.v.size
          <6>1. 1 <= input.size * ByteBits
            BY <1>2, <2>2, WidthsAssumption DEF RangeValid
          <6>2. 0 < input.size
            BY <2>2, <6>1, WidthsAssumption
          <6> QED
            BY <4>1, <6>2
        <5> QED
          BY <5>1, <5>2, SubPieceLowers DEF last
      <4>8. r = IF Failed(three.em) THEN three ELSE last
        BY <2>1, <2>4, <3>8
      <4>9. Lowers(em2, r, out)
        BY <2>2, <4>5, <4>7, <4>8, DrawsThen DEF three
      <4> QED
        BY <3>6, <4>6, <4>9 DEF r
    <3> QED
      BY <3>7, <3>8
  <2> QED
    BY <2>3, <2>4
<1> QED
  BY <1>1, <1>2

\* The width a result is asked for in.
LEMMA RequestedType ==
  ASSUME NEW em, NEW out, MayWrite(em, out)
  PROVE  RequestedSize(out) \in Count
  BY DEF RequestedSize, MayWrite, IsPlace, Count

\* The first count that is known.
LEMMA EitherCount ==
  ASSUME NEW a \in Count, NEW b \in Count
  PROVE  OrElse(a, b) \in Count /\ (b # None => OrElse(a, b) \in Nat)
  BY DEF OrElse, Count

\* What the context answers of a bit range is storage and numbers.
LEMMA BitRangeType ==
  ASSUME NEW em, NEW id, BitRangeInfo(id) # None
  PROVE  /\ IsValue(em, BitRangeInfo(id).storage) /\ IsPlace(em, BitRangeInfo(id).storage)
         /\ BitRangeInfo(id).start \in Nat /\ BitRangeInfo(id).bits \in Nat
         /\ BitRangeInfo(id).storage.offset \in Nat
         /\ ~InUnique(BitRangeInfo(id).storage)
  BY ContextAssumption DEF BitRangeInfo, IsValue, IsPlace, Readable, InUnique

\* `lower_expr` of a name: storage, or bits of it.
LEMMA IdentLowers ==
  ASSUME NEW e \in Expressions, e.kind = "Ident",
         NEW em, Ready(em), NEW out, MayWrite(em, out)
  PROVE  Lowers(em, LowerIdent(em, e, out), out)
<1>1. IsIdent(e.ident) /\ e.size \in Count
  BY ExpressionsAssumption DEF IsExpression
<1>2. CASE e.ident.form = "BitRange"
  <2> DEFINE info == BitRangeInfo(e.ident.id)
  <2>1. CASE info = None
    BY <1>2, <2>1, ErrorNames, ErrLowers DEF LowerIdent
  <2>2. CASE info # None
    <3>1. LowerIdent(em, e, out) = ExtractRange(em, info.storage, info.start, info.bits, out)
      BY <1>2, <2>2 DEF LowerIdent
    <3>2. IsValue(em, info.storage) /\ info.start \in Nat /\ info.bits \in Nat
      BY <2>2, BitRangeType
    <3> HIDE DEF info
    <3> QED
      BY <3>1, <3>2, ExtractLowers
  <2> QED
    BY <2>1, <2>2
<1>3. CASE e.ident.form # "BitRange"
  <2> DEFINE one == StorageForIdent(em, e.ident, e.size)
             r == LowerIdent(em, e, out)
  <2>1. r = IF Failed(one.em) THEN one ELSE CopyIfRequested(one.em, one.v, out)
    BY <1>3 DEF LowerIdent, Then
  <2>2. Lowers(em, one, None)
    BY <1>1, StorageLowers
  <2> HIDE DEF one, r
  <2>3. ~Failed(one.em) => Lowers(one.em, r, out)
    BY <2>1, <2>2, LoweredValue, CopyLowers
  <2> QED
    BY <2>1, <2>2, <2>3, LowersThen DEF r
<1> QED
  BY <1>2, <1>3

\* A load, from where its pointer was lowered for.
LEMMA LoadFromLowers ==
  ASSUME NEW em, Ready(em), NEW space, NEW ptr, IsValue(em, ptr), NEW size \in Count,
         space # ConstSpace => AddressSize(space) # None /\ ptr.size = AddressSize(space),
         NEW out, MayWrite(em, out)
  PROVE  Lowers(em, LoadFrom(em, space, ptr, size, out), out)
<1> DEFINE r == LoadFrom(em, space, ptr, size, out)
<1>1. CASE size = None
  BY <1>1, ErrorNames, ErrLowers DEF LoadFrom
<1>2. CASE size # None /\ space = ConstSpace
  <2>1. CASE ptr.size # size
    BY <1>2, <2>1, ErrorNames, ErrLowers DEF LoadFrom
  <2>2. CASE ptr.size = size
    <3>1. r = CopyIfRequested(em, ptr, out)
      BY <1>2, <2>2 DEF LoadFrom
    <3> HIDE DEF r
    <3> QED
      BY <3>1, CopyLowers DEF r
  <2> QED
    BY <2>1, <2>2
<1>3. CASE size # None /\ space # ConstSpace
  <2> DEFINE one == Output(em, out, size)
             inputs == <<SpaceId(space), ptr>>
             last == EmitTo(one.em, "Load", one.v, inputs)
  <2>1. r = IF Failed(one.em) THEN one ELSE last
    BY <1>3 DEF LoadFrom, Then
  <2>2. size \in Nat
    BY <1>3 DEF Count
  <2> HIDE DEF r, one
  <2>3. ASSUME ~Failed(one.em) PROVE Lowers(one.em, last, one.v)
    <3>1. /\ Ready(one.em) /\ IsPlace(one.em, one.v)
          /\ one.v # None /\ IsValue(one.em, ptr)
      BY <2>2, <2>3, Draws DEF one
    <3>2. \A v \in Range(inputs) : IsValue(one.em, v)
      BY <3>1, BinarySequence, ConstantsAreValues DEF SpaceId
    <3>3. space \in DOMAIN SpaceNumbers
      BY <1>3, ContextAssumption DEF AddressSize
    <3>4. inputs[1] = SpaceId(space) /\ inputs[2].size = AddressSize(space)
      BY <1>3
    <3> HIDE DEF inputs
    <3>5. WellTyped([event |-> "op", opcode |-> "Load", output |-> one.v, inputs |-> inputs])
      BY <3>3, <3>4, AccessFits
    <3> QED
      BY <3>1, <3>2, <3>5, EmitLowers, ValueOpcodeNames
  <2> HIDE DEF last
  <2> QED
    BY <2>1, <2>2, <2>3, DrawsThen DEF one, r
<1> QED
  BY <1>1, <1>2, <1>3

\* `lower_load`.
LEMMA LoadLowers ==
  ASSUME NEW e \in Expressions, e.kind = "Load", Sound(e.ptr),
         NEW em, Ready(em), NEW out, MayWrite(em, out)
  PROVE  Lowers(em, LowerLoad(em, e, out), out)
<1> DEFINE space == LoadSpace(e)
           size == OrElse(RequestedSize(out), OrElse(e.bytes, e.size))
           one == IF space = ConstSpace THEN LowerExpr(em, e.ptr, None)
                                        ELSE LowerPointer(em, space, e.ptr)
           r == LowerLoad(em, e, out)
<1>1. CASE space = None
  BY <1>1, ErrorNames, ErrLowers DEF LowerLoad
<1>2. CASE space # None
  <2>1. r = IF Failed(one.em) THEN one ELSE LoadFrom(one.em, space, one.v, size, out)
    BY <1>2 DEF LowerLoad, Then
  <2>2. size \in Count
    BY RequestedType, EitherCount, ExpressionsAssumption DEF IsExpression
  <2>3. /\ Lowers(em, one, None)
        /\ ~Failed(one.em) /\ space # ConstSpace =>
              AddressSize(space) # None /\ one.v.size = AddressSize(space)
    BY SoundValue, PointerLowers
  <2> HIDE DEF r, one, space, size
  <2>4. ~Failed(one.em) => Lowers(one.em, r, out)
    BY <2>1, <2>2, <2>3, LoweredValue, LoadFromLowers
  <2> QED
    BY <2>1, <2>3, <2>4, LowersThen DEF r
<1> QED
  BY <1>1, <1>2

\* `lower_expr` of a truncation that drops low bytes,
LEMMA SubPieceMsbLowers ==
  ASSUME NEW e \in Expressions, e.kind = "SubPieceMsb", Sound(e.src),
         NEW em, Ready(em), NEW out, MayWrite(em, out)
  PROVE  Lowers(em, LowerSubPieceMsb(em, e, out), out)
<1> DEFINE one == LowerExpr(em, e.src, None)
           rest == IF e.count > one.v.size THEN 0 ELSE one.v.size - e.count
           size == OrElse(RequestedSize(out), OrElse(e.size, rest))
           two == Output(one.em, out, size)
           last == IF e.count >= one.v.size \/ size > one.v.size - e.count
                   THEN Err(two.em, "InvalidRange")
                   ELSE EmitTo(two.em, "SubPiece", two.v, <<one.v, Constant(e.count, 8)>>)
           r == LowerSubPieceMsb(em, e, out)
<1>1. r = IF Failed(one.em) THEN one ELSE IF Failed(two.em) THEN two ELSE last
  BY DEF LowerSubPieceMsb, Then
<1>2. Lowers(em, one, None)
  BY SoundValue
<1>3. e.count \in Nat /\ e.size \in Count
  BY ExpressionsAssumption DEF IsExpression
<1> HIDE DEF r, one, two, last
<1>4. ASSUME ~Failed(one.em) PROVE Lowers(one.em, r, out)
  <2>1. Ready(one.em) /\ IsValue(one.em, one.v) /\ MayWrite(one.em, out)
    BY <1>2, <1>4, LoweredValue
  <2>2. rest \in Nat
    BY <1>3, <2>1 DEF IsValue
  <2> HIDE DEF rest
  <2>3. size \in Nat
    <3>1. rest # None /\ rest \in Count
      BY <2>2, NoneAssumption DEF Count
    <3>2. OrElse(e.size, rest) \in Nat
      BY <1>3, <3>1, EitherCount
    <3> QED
      BY <3>2, RequestedType, EitherCount, NoneAssumption DEF Count
  <2>4. ASSUME ~Failed(two.em) PROVE Lowers(two.em, last, two.v)
    <3>1. /\ Ready(two.em) /\ IsPlace(two.em, two.v)
          /\ two.v # None /\ IsValue(two.em, one.v)
      BY <2>1, <2>3, <2>4, Draws DEF two
    <3>2. one.v.size \in Nat
      BY <2>1 DEF IsValue
    <3> HIDE DEF size
    <3> QED
      BY <1>3, <3>1, <3>2, ErrorNames, ErrLowers, SubPieceLowers DEF last
  <2> QED
    BY <1>1, <1>4, <2>1, <2>3, <2>4, DrawsThen DEF two
<1> QED
  BY <1>1, <1>2, <1>4, LowersThen DEF r

\* and of one that keeps them.
LEMMA SubPieceLsbLowers ==
  ASSUME NEW e \in Expressions, e.kind = "SubPieceLsb", Sound(e.src),
         NEW em, Ready(em), NEW out, MayWrite(em, out)
  PROVE  Lowers(em, LowerSubPieceLsb(em, e, out), out)
<1> DEFINE one == LowerExpr(em, e.src, None)
           two == Output(one.em, out, e.count)
           last == EmitTo(two.em, "SubPiece", two.v, <<one.v, Constant(0, 8)>>)
           r == LowerSubPieceLsb(em, e, out)
<1>1. r = IF Failed(one.em) THEN one
          ELSE IF e.count \notin 1 .. one.v.size THEN Err(one.em, "InvalidRange")
          ELSE IF Failed(two.em) THEN two ELSE last
  BY DEF LowerSubPieceLsb, Then
<1>2. Lowers(em, one, None)
  BY SoundValue
<1>3. e.count \in Nat
  BY ExpressionsAssumption DEF IsExpression
<1> HIDE DEF r, one, two, last
<1>4. ASSUME ~Failed(one.em) PROVE Lowers(one.em, r, out)
  <2>1. Ready(one.em) /\ IsValue(one.em, one.v) /\ MayWrite(one.em, out)
    BY <1>2, <1>4, LoweredValue
  <2>2. CASE e.count \notin 1 .. one.v.size
    BY <1>1, <1>4, <2>1, <2>2, ErrorNames, ErrLowers
  <2>3. CASE e.count \in 1 .. one.v.size
    <3>1. ASSUME ~Failed(two.em) PROVE Lowers(two.em, last, two.v)
      <4>1. /\ Ready(two.em) /\ IsPlace(two.em, two.v)
            /\ two.v # None /\ IsValue(two.em, one.v)
        BY <1>3, <2>1, <3>1, Draws DEF two
      <4>2. 0 < one.v.size
        BY <2>1, <2>3 DEF IsValue
      <4> QED
        BY <4>1, <4>2, SubPieceLowers DEF last
    <3> QED
      BY <1>1, <1>3, <1>4, <2>1, <2>3, <3>1, DrawsThen DEF two
  <2> QED
    BY <2>2, <2>3
<1> QED
  BY <1>1, <1>2, <1>4, LowersThen DEF r

\* `lower_range`.
LEMMA RangeLowers ==
  ASSUME NEW e \in Expressions, e.kind = "Range", Sound(e.value),
         NEW em, Ready(em), NEW out, MayWrite(em, out)
  PROVE  Lowers(em, LowerRange(em, e, out), out)
<1> DEFINE one == LowerExpr(em, e.value, None)
           r == LowerRange(em, e, out)
<1>1. r = IF Failed(one.em) THEN one
          ELSE IF ~RangeKnown(e) THEN Err(one.em, "UnresolvedRangeParameter")
          ELSE ExtractRange(one.em, one.v, e.start, e.bits, out)
  BY DEF LowerRange, Then
<1>2. Lowers(em, one, None)
  BY SoundValue
<1>3. RangeKnown(e) => e.start \in Nat /\ e.bits \in Nat
  BY ExpressionsAssumption DEF IsExpression, RangeKnown, Count
<1> HIDE DEF r, one
<1>4. ASSUME ~Failed(one.em) PROVE Lowers(one.em, r, out)
  <2>1. Ready(one.em) /\ IsValue(one.em, one.v) /\ MayWrite(one.em, out)
    BY <1>2, <1>4, LoweredValue
  <2> QED
    BY <1>1, <1>3, <1>4, <2>1, ErrorNames, ErrLowers, ExtractLowers
<1> QED
  BY <1>1, <1>2, <1>4, LowersThen DEF r

\* `lower_builtin_args`: all in one width, or each in its own.
LEMMA FirstKnownType ==
  ASSUME SizeRecurs, NEW em, IsEmitter(em), NEW args \in Seq(Expressions)
  PROVE  FirstKnownSize(em, args) \in Count
<1> DEFINE known == {n \in DOMAIN args : KnownSize(em, args[n]) # None}
<1>1. CASE known = {}
  BY <1>1 DEF FirstKnownSize, Count
<1>2. CASE known # {}
  <2>1. known \subseteq Nat
    OBVIOUS
  <2>2. FirstKnownSize(em, args) = KnownSize(em, args[Min(known)])
    BY <1>2 DEF FirstKnownSize
  <2>3. known \subseteq DOMAIN args
    OBVIOUS
  <2> HIDE DEF known
  <2>4. \E n \in known : \A m \in known : n <= m
    BY <1>2, <2>1, LeastNumber
  <2>5. Min(known) \in known
    BY <2>4 DEF Min
  <2>6. args[Min(known)] \in Expressions
    BY <2>3, <2>5
  <2> QED
    BY <2>2, <2>6, KnownSizeType
<1> QED
  BY <1>1, <1>2

\* An error ends the operands too.
LEMMA ErrLowersAll ==
  ASSUME NEW em, Ready(em), NEW error \in ExprErrors
  PROVE  LowersAll(em, Err(em, error))
  BY ErrLowers DEF LowersAll, Lowers

\* The arguments of a builtin, at one width if it keeps the width,
LEMMA BuiltinArgsLower ==
  ASSUME SizeRecurs, NEW e \in Expressions, e.kind = "FunctionCall",
         \A n \in DOMAIN e.args : Sound(e.args[n]), NEW em, Ready(em)
  PROVE  LowersAll(em, LowerBuiltinArgs(em, e))
<1>1. e.args \in Seq(Expressions)
  BY PartsNestLess
<1>2. None \in Count
  BY DEF Count
<1>3. FirstKnownSize(em, e.args) \in Count
  BY <1>1, FirstKnownType DEF Ready
<1> QED
  BY <1>1, <1>2, <1>3, OperandsLower, ErrLowersAll, ErrorNames DEF LowerBuiltinArgs

\* and `lower_builtin`.
LEMMA BuiltinLowers ==
  ASSUME SizeRecurs, NEW e \in Expressions, e.kind = "FunctionCall",
         \A n \in DOMAIN e.args : Sound(e.args[n]),
         NEW em, Ready(em), NEW out, MayWrite(em, out)
  PROVE  Lowers(em, LowerBuiltin(em, e, out), out)
<1> DEFINE own == CASE e.builtin \in BooleanBuiltins -> 1
                    [] e.builtin \in WidthPreservingBuiltins /\ e.args # <<>> ->
                          KnownSize(em, e.args[1])
                    [] OTHER -> None
           size == OrElse(RequestedSize(out), OrElse(e.size, own))
           one == Output(em, out, size)
           two == LowerBuiltinArgs(one.em, e)
           last == IF Failed(two.em) THEN two ELSE EmitTo(two.em, e.builtin, one.v, two.v)
           r == LowerBuiltin(em, e, out)
<1>1. r = IF size = None THEN Err(em, "UnknownSize")
          ELSE IF Failed(one.em) THEN one ELSE last
  BY DEF LowerBuiltin, Then
<1>2. e.builtin \in Builtins /\ e.size \in Count
  BY ExpressionsAssumption DEF IsExpression
<1>3. own \in Count
  <2>1. e.args # <<>> => e.args[1] \in Expressions
    BY PartsNestLess
  <2>2. e.args # <<>> => KnownSize(em, e.args[1]) \in Count
    BY <2>1, KnownSizeType DEF Ready
  <2>3. e.builtin \in BooleanBuiltins => e.builtin \notin WidthPreservingBuiltins
    BY DEF BooleanBuiltins, CarryBuiltins, WidthPreservingBuiltins
  <2>4. {None, 1} \subseteq Count
    BY DEF Count
  <2> QED
    BY <2>2, <2>3, <2>4
<1> HIDE DEF own
<1>4. size \in Count
  BY <1>2, <1>3, RequestedType, EitherCount
<1> HIDE DEF size, one, r
<1>5. CASE size = None
  BY <1>1, <1>5, ErrorNames, ErrLowers DEF r
<1>6. CASE size # None
  <2>1. size \in Nat
    BY <1>4, <1>6 DEF Count
  <2>2. ASSUME ~Failed(one.em) PROVE Lowers(one.em, last, one.v)
    <3>1. Ready(one.em) /\ IsPlace(one.em, one.v) /\ one.v # None
      BY <2>1, <2>2, Draws DEF one
    <3>2. LowersAll(one.em, two)
      BY <3>1, BuiltinArgsLower
    <3>3. \A o : o.opcode = e.builtin => WellTyped(o)
      <4>1. e.builtin \in ContextSized \ {"SubPiece"}
        BY <1>2 DEF ContextSized, Builtins, BooleanBuiltins, CarryBuiltins,
                    WidthPreservingBuiltins
      <4> QED
        BY <4>1, AnyWidths
    <3> HIDE DEF two
    <3> QED
      BY <1>2, <3>1, <3>2, <3>3, LowersAllThen, ValueOpcodeNames
  <2> HIDE DEF last
  <2> QED
    BY <1>1, <1>6, <2>1, <2>2, DrawsThen DEF one, r
<1> QED
  BY <1>5, <1>6

\* A list after one more.
LEMMA ListPrepended ==
  ASSUME NEW a, NEW t, IsList(t)
  PROVE  /\ IsList(<<a>> \o t) /\ Len(t) \in Nat
         /\ DOMAIN (<<a>> \o t) = 1 .. 1 + Len(t)
         /\ (<<a>> \o t)[1] = a
         /\ \A k \in 1 .. Len(t) : (<<a>> \o t)[1 + k] = t[k]
<1> DEFINE s == <<a>>
<1>1. s \in Seq({a}) /\ Len(s) = 1 /\ s[1] = a
  OBVIOUS
<1> HIDE DEF s
<1>2. IsList(s)
  BY <1>1, ListOf
<1>3. /\ IsList(s \o t) /\ Len(t) \in Nat
      /\ DOMAIN (s \o t) = 1 .. Len(s) + Len(t)
      /\ \A k \in 1 .. Len(s) : (s \o t)[k] = s[k]
      /\ \A k \in 1 .. Len(t) : (s \o t)[Len(s) + k] = t[k]
  BY <1>2, ConcatLemma
<1> QED
  BY <1>1, <1>3 DEF s

\* `lower_userop_inputs`.
LEMMA UseropInputsLower ==
  ASSUME NEW e \in Expressions, e.kind = "PcodeOp",
         \A n \in DOMAIN e.args : Sound(e.args[n]), NEW em, Ready(em)
  PROVE  LowersAll(em, LowerUseropInputs(em, e))
<1> DEFINE one == LowerOperands(em, e.args, None)
           first == <<Constant(e.id, 4)>>
           r == LowerUseropInputs(em, e)
<1>1. LowersAll(em, one)
  <2>1. e.args \in Seq(Expressions) /\ None \in Count
    BY PartsNestLess DEF Count
  <2> QED
    BY <2>1, OperandsLower
<1>2. r = IF Failed(one.em) THEN one ELSE Ok(one.em, first \o one.v)
  BY DEF LowerUseropInputs, Then
<1>3. \A em1 : IsValue(em1, first[1])
  BY ConstantsAreValues
<1> HIDE DEF r, one, first
<1>4. CASE Failed(one.em)
  BY <1>1, <1>2, <1>4 DEF r
<1>5. CASE ~Failed(one.em)
  <2>1. r.em = one.em /\ r.v = first \o one.v
    BY <1>2, <1>5 DEF Ok
  <2>2. IsList(one.v) /\ \A n \in DOMAIN one.v : IsValue(one.em, one.v[n])
    BY <1>1, <1>5 DEF LowersAll
  <2>3. /\ IsList(first \o one.v) /\ Len(one.v) \in Nat
        /\ DOMAIN (first \o one.v) = 1 .. 1 + Len(one.v)
        /\ (first \o one.v)[1] = first[1]
        /\ \A k \in 1 .. Len(one.v) : (first \o one.v)[1 + k] = one.v[k]
    BY <1>3, <2>2, ListPrepended DEF first
  <2>4. DOMAIN one.v = 1 .. Len(one.v)
    BY <2>2 DEF IsList
  <2>5. ASSUME NEW n \in DOMAIN (first \o one.v)
        PROVE  IsValue(one.em, (first \o one.v)[n])
    <3>1. CASE n = 1
      BY <1>3, <2>3, <3>1
    <3>2. CASE n # 1
      <4>1. n - 1 \in 1 .. Len(one.v) /\ n = 1 + (n - 1)
        BY <2>3, <3>2
      <4>2. (first \o one.v)[n] = one.v[n - 1]
        BY <2>3, <4>1
      <4> QED
        BY <2>2, <2>4, <4>1, <4>2
    <3> QED
      BY <3>1, <3>2
  <2> QED
    BY <1>1, <1>5, <2>1, <2>3, <2>5 DEF LowersAll, r
<1> QED
  BY <1>4, <1>5

\* A user operation: its output is allocated before its arguments are lowered.
LEMMA PcodeOpLowers ==
  ASSUME NEW e \in Expressions, e.kind = "PcodeOp",
         \A n \in DOMAIN e.args : Sound(e.args[n]),
         NEW em, Ready(em), NEW out, MayWrite(em, out)
  PROVE  Lowers(em, LowerPcodeOp(em, e, out), out)
<1> DEFINE size == OrElse(RequestedSize(out), e.size)
           one == Output(em, out, size)
           two == LowerUseropInputs(one.em, e)
           last == IF Failed(two.em) THEN two ELSE EmitTo(two.em, "CallOther", one.v, two.v)
           r == LowerPcodeOp(em, e, out)
<1>1. r = IF size = None THEN Err(em, "UnknownSize")
          ELSE IF Failed(one.em) THEN one ELSE last
  BY DEF LowerPcodeOp, Then
<1>2. size \in Count
  BY RequestedType, EitherCount, ExpressionsAssumption DEF IsExpression
<1> HIDE DEF size, one, r
<1>3. CASE size = None
  BY <1>1, <1>3, ErrorNames, ErrLowers DEF r
<1>4. CASE size # None
  <2>1. size \in Nat
    BY <1>2, <1>4 DEF Count
  <2>2. ASSUME ~Failed(one.em) PROVE Lowers(one.em, last, one.v)
    <3>1. Ready(one.em) /\ IsPlace(one.em, one.v) /\ one.v # None
      BY <2>1, <2>2, Draws DEF one
    <3>2. LowersAll(one.em, two)
      BY <3>1, UseropInputsLower
    <3>3. \A o : o.opcode = "CallOther" => WellTyped(o)
      BY AnyWidths DEF ContextSized, Builtins
    <3> HIDE DEF two
    <3> QED
      BY <3>1, <3>2, <3>3, LowersAllThen, ValueOpcodeNames
  <2> HIDE DEF last
  <2> QED
    BY <1>1, <1>4, <2>1, <2>2, DrawsThen DEF one, r
<1> QED
  BY <1>3, <1>4

\* `lower_address_of`.
LEMMA AddressOfLowers ==
  ASSUME NEW e \in Expressions, e.kind = "Unop",
         NEW em, Ready(em), NEW out, MayWrite(em, out)
  PROVE  Lowers(em, LowerAddressOf(em, e, out), out)
<1>1. e.width \in Count /\ e.e \in Expressions
  BY PartsNestLess, ExpressionsAssumption DEF IsExpression
<1>2. CASE e.e.kind = "SizedInt"
  <2> DEFINE size == OrElse(e.width, OrElse(e.e.literal, e.e.size))
  <2>1. LowerAddressOf(em, e, out) = IF size = None THEN Err(em, "UnknownSize")
                                     ELSE CopyIfRequested(em, Constant(e.e.value, size), out)
    BY <1>2 DEF LowerAddressOf
  <2>2. size \in Count
    BY <1>1, <1>2, EitherCount, ExpressionsAssumption DEF IsExpression
  <2> HIDE DEF size
  <2>3. CASE size = None
    BY <2>1, <2>3, ErrorNames, ErrLowers
  <2>4. CASE size # None
    BY <2>1, <2>2, <2>4, ConstantsAreValues, CopyLowers DEF Count
  <2> QED
    BY <2>3, <2>4
<1>3. CASE e.e.kind \notin {"SizedInt", "Ident"}
  BY <1>3, ErrorNames, ErrLowers DEF LowerAddressOf
<1>4. CASE e.e.kind = "Ident"
  <2> DEFINE one == StorageForIdent(em, e.e.ident, e.e.size)
             size == OrElse(e.width, AddressSize(one.v.space))
             r == LowerAddressOf(em, e, out)
  <2>1. r = IF Failed(one.em) THEN one
            ELSE IF size = None THEN Err(one.em, "UnknownSize")
            ELSE CopyIfRequested(one.em, Constant(one.v.offset, size), out)
    BY <1>4 DEF LowerAddressOf, Then
  <2>2. IsIdent(e.e.ident) /\ e.e.size \in Count
    BY <1>1, <1>4, ExpressionsAssumption DEF IsExpression
  <2>3. Lowers(em, one, None)
    BY <2>2, StorageLowers
  <2>4. size \in Count
    <3>1. AddressSize(one.v.space) \in Count
      BY ContextAssumption DEF AddressSize, Count
    <3> QED
      BY <1>1, <3>1, EitherCount
  <2> HIDE DEF one, r, size
  <2>5. ASSUME ~Failed(one.em) PROVE Lowers(one.em, r, out)
    <3>1. Ready(one.em) /\ MayWrite(one.em, out)
      BY <2>3, <2>5, LoweredValue
    <3> QED
      BY <2>1, <2>4, <2>5, <3>1, ErrorNames, ErrLowers, ConstantsAreValues, CopyLowers DEF Count
  <2> QED
    BY <2>1, <2>3, <2>5, LowersThen DEF r
<1> QED
  BY <1>2, <1>3, <1>4

\* `lower_unop`.
LEMMA UnopLowers ==
  ASSUME SizeRecurs, NEW e \in Expressions, e.kind = "Unop", Sound(e.e),
         NEW em, Ready(em), NEW out, MayWrite(em, out)
  PROVE  Lowers(em, LowerUnop(em, e, out), out)
<1>1. CASE e.op = "AddressOf"
  BY <1>1, AddressOfLowers DEF LowerUnop
<1>2. CASE e.op # "AddressOf"
  <2> DEFINE own == IF e.op = "BoolNegate" THEN 1 ELSE KnownSize(em, e.e)
             size == OrElse(RequestedSize(out), OrElse(e.size, own))
             one == IF KnownSize(em, e.e) # None
                    THEN LowerExpr(em, e.e, None)
                    ELSE LowerExprWithSize(em, e.e, size)
             two == Output(one.em, out, size)
             last == EmitTo(two.em, e.op, two.v, <<one.v>>)
             r == LowerUnop(em, e, out)
  <2>1. r = IF size = None THEN Err(em, "UnknownSize")
            ELSE IF Failed(one.em) THEN one
            ELSE IF Failed(two.em) THEN two ELSE last
    BY <1>2 DEF LowerUnop, Then
  <2>2. e.op \in UnaryOperators \ {"AddressOf"} /\ e.size \in Count /\ e.e \in Expressions
    BY <1>2, PartsNestLess, ExpressionsAssumption DEF IsExpression
  <2>3. own \in Count
    BY <2>2, KnownSizeType DEF Ready, Count
  <2>4. size \in Count
    BY <2>2, <2>3, RequestedType, EitherCount
  <2>5. size # None => Lowers(em, one, None)
    BY <2>4, SoundValue, WithSizeLowers DEF Count
  <2> HIDE DEF own, size, one, two, last, r
  <2>6. CASE size = None
    BY <2>1, <2>6, ErrorNames, ErrLowers DEF r
  <2>7. CASE size # None
    <3>1. size \in Nat
      BY <2>4, <2>7 DEF Count
    <3>2. ASSUME ~Failed(one.em) PROVE Lowers(one.em, r, out)
      <4>1. Ready(one.em) /\ IsValue(one.em, one.v) /\ MayWrite(one.em, out)
        BY <2>5, <2>7, <3>2, LoweredValue
      <4>2. ASSUME ~Failed(two.em) PROVE Lowers(two.em, last, two.v)
        <5>1. /\ Ready(two.em) /\ IsPlace(two.em, two.v)
              /\ two.v # None /\ IsValue(two.em, one.v)
          BY <3>1, <4>1, <4>2, Draws DEF two
        <5>2. WellTyped([event |-> "op", opcode |-> e.op, output |-> two.v, inputs |-> <<one.v>>])
          BY <2>2, AnyWidths DEF ContextSized, UnaryOperators
        <5> QED
          BY <2>2, <5>1, <5>2, UnarySequence, ValueOpcodeNames, EmitLowers DEF last
      <4>3. r = IF Failed(two.em) THEN two ELSE last
        BY <2>1, <2>7, <3>2
      <4> QED
        BY <3>1, <4>1, <4>2, <4>3, DrawsThen DEF two
    <3> QED
      BY <2>1, <2>5, <2>7, <3>2, LowersThen DEF r
  <2> QED
    BY <2>6, <2>7
<1> QED
  BY <1>1, <1>2

\* `emit_binop`.
LEMMA EmitBinopLowers ==
  ASSUME NEW em, Ready(em), NEW op \in BinaryOperators, NEW output, IsPlace(em, output),
         output # None, NEW a, NEW b, IsValue(em, a), IsValue(em, b)
  PROVE  Lowers(em, EmitBinop(em, op, output, <<a, b>>), output)
<1> DEFINE inputs == <<a, b>>
           error == BinopError(op, output, inputs)
           r == EmitBinop(em, op, output, inputs)
<1>1. inputs[1] = a /\ inputs[2] = b /\ \A v \in Range(inputs) : IsValue(em, v)
  BY BinarySequence
<1>2. CASE error # "ok"
  <2>1. error \in ExprErrors
    BY <1>2, ErrorNames DEF BinopError
  <2> HIDE DEF error
  <2>2. Failed(Err(em, error).em) /\ Lowers(em, Err(em, error), output)
    BY <2>1, ErrLowers
  <2>3. r = Err(em, error)
    BY <1>2, <2>2 DEF EmitBinop, Then, Check, error
  <2> QED
    BY <2>2, <2>3
<1>3. CASE error = "ok"
  <2>1. r = EmitTo(em, BinaryOpcode(op), output, inputs)
    BY <1>3 DEF EmitBinop, Then, Check, Ok, Failed, Ready
  <2>2. /\ op \in Boolean => output.size = 1
        /\ a.size = b.size
        /\ op \notin Boolean => output.size = a.size
    BY <1>1, <1>3 DEF BinopError
  <2> HIDE DEF r, error
  <2>3. WellTyped([event |-> "op", opcode |-> BinaryOpcode(op), output |-> output,
                   inputs |-> inputs])
    <3>1. CASE op \in Boolean
      BY <2>2, <3>1, OneByte
    <3>2. CASE op \notin Boolean
      <4>1. BinaryOpcode(op) = op
        BY <3>2 DEF BinaryOpcode, Boolean, Comparison
      <4> QED
        BY <2>2, <3>2, <4>1, OneWidth
    <3> QED
      BY <3>1, <3>2
  <2> HIDE DEF inputs
  <2>4. Lowers(em, EmitTo(em, BinaryOpcode(op), output, inputs), output)
    BY <1>1, <2>3, EmitLowers, ValueOpcodeNames
  <2> QED
    BY <2>1, <2>4 DEF r, inputs
<1> QED
  BY <1>2, <1>3

\* `lower_binop`.
LEMMA BinopLowers ==
  ASSUME SizeRecurs, NEW e \in Expressions, e.kind = "Binop", Sound(e.lhs), Sound(e.rhs),
         NEW em, Ready(em), NEW out, MayWrite(em, out)
  PROVE  Lowers(em, LowerBinop(em, e, out), out)
<1> DEFINE stated == OrElse(RequestedSize(out), e.size)
           operands == OrElse(IF e.op \in Boolean THEN None ELSE stated,
                              OrElse(KnownSize(em, e.lhs), KnownSize(em, e.rhs)))
           size == OrElse(stated, IF e.op \in Comparison THEN 1 ELSE operands)
           one == LowerOperand(em, e.lhs, operands)
           two == LowerOperand(one.em, e.rhs, operands)
           three == Output(two.em, out, size)
           inputs == IF e.op \in DOMAIN Swapped THEN <<two.v, one.v>> ELSE <<one.v, two.v>>
           last == EmitBinop(three.em, e.op, three.v, inputs)
           r == LowerBinop(em, e, out)
<1>1. r = IF Failed(one.em) THEN one
          ELSE IF Failed(two.em) THEN two
          ELSE IF size = None THEN Err(two.em, "UnknownSize")
          ELSE IF Failed(three.em) THEN three ELSE last
  BY DEF LowerBinop, Then
<1>2. /\ e.op \in BinaryOperators /\ e.size \in Count
      /\ e.lhs \in Expressions /\ e.rhs \in Expressions
  BY PartsNestLess, ExpressionsAssumption DEF IsExpression
<1>3. operands \in Count /\ size \in Count
  <2>1. KnownSize(em, e.lhs) \in Count /\ KnownSize(em, e.rhs) \in Count
    BY <1>2, KnownSizeType DEF Ready
  <2>2. stated \in Count /\ {None, 1} \subseteq Count
    BY <1>2, RequestedType, EitherCount DEF Count
  <2> HIDE DEF stated
  <2>3. operands \in Count
    BY <2>1, <2>2, EitherCount
  <2> HIDE DEF operands
  <2> QED
    BY <2>2, <2>3, EitherCount
<1> HIDE DEF operands, size
<1>4. Lowers(em, one, None)
  BY <1>3, OperandLowers
<1> HIDE DEF one
<1>5. ~Failed(one.em) => Ready(one.em) /\ IsValue(one.em, one.v) /\ MayWrite(one.em, out)
  BY <1>4, LoweredValue
<1>6. ~Failed(one.em) => Lowers(one.em, two, None)
  BY <1>3, <1>5, OperandLowers
<1> HIDE DEF two, three, last, r
<1>7. ASSUME ~Failed(one.em), ~Failed(two.em) PROVE Lowers(two.em, r, out)
  <2>1. /\ Ready(two.em) /\ IsValue(two.em, two.v) /\ IsValue(two.em, one.v)
        /\ MayWrite(two.em, out)
    BY <1>5, <1>6, <1>7, LoweredValue
  <2>2. CASE size = None
    BY <1>1, <1>7, <2>1, <2>2, ErrorNames, ErrLowers
  <2>3. CASE size # None
    <3>1. size \in Nat
      BY <1>3, <2>3 DEF Count
    <3>2. ASSUME ~Failed(three.em) PROVE Lowers(three.em, last, three.v)
      <4>1. /\ Ready(three.em) /\ IsPlace(three.em, three.v) /\ three.v # None
            /\ IsValue(three.em, one.v) /\ IsValue(three.em, two.v)
        BY <2>1, <3>1, <3>2, Draws DEF three
      <4> QED
        BY <1>2, <4>1, EmitBinopLowers DEF last
    <3>3. r = IF Failed(three.em) THEN three ELSE last
      BY <1>1, <1>7, <2>3
    <3> HIDE DEF inputs
    <3> QED
      BY <2>1, <3>1, <3>2, <3>3, DrawsThen DEF three
  <2> QED
    BY <2>2, <2>3
<1>8. ASSUME ~Failed(one.em) PROVE Lowers(one.em, r, out)
  <2>1. IF Failed(two.em) THEN r = two ELSE Lowers(two.em, r, out)
    BY <1>1, <1>7, <1>8
  <2> QED
    BY <1>5, <1>6, <1>8, <2>1, LowersThen
<1>9. IF Failed(one.em) THEN r = one ELSE Lowers(one.em, r, out)
  BY <1>1, <1>8
<1> QED
  BY <1>4, <1>9, LowersThen DEF r

\* A node that no instruction has is refused.
LEMMA InternalLowers ==
  ASSUME NEW em, Ready(em), NEW out
  PROVE  Lowers(em, Err(em, "InternalNode"), out)
  BY ErrorNames, ErrLowers

\* An expression of any kind, if its parts are.
LEMMA KindLowers ==
  ASSUME SizeRecurs, NEW e \in Expressions,
         \A part \in Expressions : Depth[part] < Depth[e] => Sound(part),
         NEW em, Ready(em), NEW out, MayWrite(em, out)
  PROVE  Lowers(em, LowerExprByKind(em, e, out), out)
<1>1. CASE e.kind = "SizedInt"
  BY <1>1, SizedIntLowers DEF LowerExprByKind
<1>2. CASE e.kind = "Ident"
  BY <1>2, IdentLowers DEF LowerExprByKind
<1>3. CASE e.kind = "Load"
  BY <1>3, LoadLowers, PartsNestLess DEF LowerExprByKind
<1>4. CASE e.kind = "SubPieceMsb"
  BY <1>4, SubPieceMsbLowers, PartsNestLess DEF LowerExprByKind
<1>5. CASE e.kind = "SubPieceLsb"
  BY <1>5, SubPieceLsbLowers, PartsNestLess DEF LowerExprByKind
<1>6. CASE e.kind = "Range"
  BY <1>6, RangeLowers, PartsNestLess DEF LowerExprByKind
<1>7. e.kind \in {"FunctionCall", "PcodeOp"} => \A n \in DOMAIN e.args : Sound(e.args[n])
  BY PartsNestLess
<1>8. CASE e.kind = "FunctionCall"
  BY <1>7, <1>8, BuiltinLowers DEF LowerExprByKind
<1>9. CASE e.kind = "PcodeOp"
  BY <1>7, <1>9, PcodeOpLowers DEF LowerExprByKind
<1>10. CASE e.kind = "Unop"
  BY <1>10, UnopLowers, PartsNestLess DEF LowerExprByKind
<1>11. CASE e.kind = "Binop"
  BY <1>11, BinopLowers, PartsNestLess DEF LowerExprByKind
<1>12. CASE e.kind = "Internal"
  BY <1>12, InternalLowers DEF LowerExprByKind
<1>13. IsExpression(e)
  BY ExpressionsAssumption
<1> QED
  BY <1>1, <1>2, <1>3, <1>4, <1>5, <1>6, <1>8, <1>9, <1>10, <1>11, <1>12, <1>13 DEF IsExpression

(* Every expression, of any kind, nested as deep as it may be, is lowered  *)
(* soundly: an error leaves only operations and storage that are sound,    *)
(* success a value that may be read or the requested storage written last  *)
(* (`Emitter::lower_expr` and what it calls).                              *)
THEOREM ExpressionsLower ==
  ASSUME SizeRecurs, LowerRecurs
  PROVE  \A e \in Expressions : Sound(e)
<1> DEFINE Good == {e \in Expressions : Sound(e)}
<1>1. ASSUME NEW e \in Expressions,
             \A part \in Expressions : Depth[part] < Depth[e] => part \in Good
      PROVE  e \in Good
  BY <1>1, KindLowers DEF Sound, LowerRecurs
<1> HIDE DEF Good
<1>2. Expressions \subseteq Good
  BY <1>1, ByDepth
<1> QED
  BY <1>2 DEF Good

----------------------------------------------------------------------------
(* What lowering a statement does to the emitter.                          *)

\* What a local's storage is, in whole or in part, or storage elsewhere.
Settled(em, out) == InUnique(out) => out \in Home /\ Housed(out, Placed(em))

\* A statement that computes, in the end into storage that is settled.
Assigns(em, r) ==
    /\ \E out : Computes(em, r.em, out) /\ Settled(r.em, out)
    /\ r.em.err \in {"ok"} \cup ExprErrors

\* An event that ends a statement: it writes no varnode.
Ending(em, e) ==
    /\ e.event \in {"op", "branch"}
    /\ e.event = "op" => e.output = None /\ e.opcode \in RawOpcodes /\ WellTyped(e)
    /\ \A v \in ReadBy(e) : IsValue(em, v)

\* A statement that computes and then reports `e`.
Ends(em, r, e) ==
    \E before : /\ Ready(before) /\ Computes(em, before, None)
                /\ Ending(before, e)
                /\ r.em = Report(before, e)

\* A statement that computes, and then fails or reports an operation.
Performs(em, r) ==
    \/ Lowers(em, r, None)
    \/ \E e : /\ Ends(em, r, e)
              /\ e.event = "op" /\ e.opcode \notin Range(DirectOpcode)

\* What computes into temporaries only assigns nothing, soundly.
LEMMA LoweredAssigns ==
  ASSUME NEW em, NEW r, Lowers(em, r, None)
  PROVE  Assigns(em, r)
  BY DEF Lowers, Assigns, Settled, InUnique

\* Storage for a local may be taken first.
LEMMA PlacedThen ==
  ASSUME NEW a, NEW b, NEW c, NEW out, IsEmitter(a), Keeps(a, b), b.events = a.events,
         Computes(b, c, out)
  PROVE  Computes(a, c, out)
<1>1. Keeps(b, c) /\ IsEmitter(b) /\ IsEmitter(c)
  BY DEF Computes, Keeps
<1>2. /\ Keeps(a, c)
      /\ NewHomes(a, c) = NewHomes(a, b) \cup NewHomes(b, c)
      /\ \A id \in DOMAIN Placed(b) : id \in DOMAIN Placed(c) /\ Placed(c)[id] = Placed(b)[id]
  BY <1>1, KeepsThen
<1>3. /\ a.next \in Nat /\ b.next \in Nat /\ c.next \in Nat
      /\ a.next <= b.next /\ b.next <= c.next
  BY <1>1 DEF Keeps, IsEmitter, StorageGrew, GrowsTo
<1>4. NewEvents(a, c) = NewEvents(b, c)
  BY DEF NewEvents
<1>5. \A id \in NewHomes(a, b) : Placed(c)[id] \in Home /\ End(Placed(c)[id]) <= b.next
  BY <1>1, <1>2 DEF Keeps, StorageGrew, GrowsTo, NewHomes
<1>6. ASSUME NEW n \in NewEvents(b, c), Scratch(b, c, n)
      PROVE  Scratch(a, c, n)
  <2> DEFINE v == c.events[n].output
  <2>1. v \in Home /\ b.next <= v.offset /\ a.next <= v.offset /\ End(v) <= c.next
    BY <1>3, <1>6 DEF Scratch, Home, End
  <2>2. ASSUME NEW id \in NewHomes(a, c) PROVE Apart(v, Placed(c)[id])
    <3>1. CASE id \in NewHomes(a, b)
      BY <1>3, <1>5, <2>1, <3>1 DEF Apart, Home, End
    <3>2. CASE id \in NewHomes(b, c)
      BY <1>6, <3>2 DEF Scratch
    <3> QED
      BY <1>2, <3>1, <3>2
  <2> QED
    BY <1>4, <1>6, <2>1, <2>2 DEF Scratch
<1> QED
  BY <1>2, <1>4, <1>6 DEF Computes

\* Storage that is settled stays so.
LEMMA StillSettled ==
  ASSUME NEW a, NEW b, Keeps(a, b), NEW out, Settled(a, out)
  PROVE  Settled(b, out)
  BY DEF Settled, Housed, Keeps, StorageGrew, GrowsTo

\* Storage of an identifier, and a computation into it.
LEMMA AssignsThen ==
  ASSUME NEW em, Ready(em), NEW one, Lowers(em, one, None), NEW r,
         ~Failed(one.em) => /\ one.em.events = em.events
                            /\ \E out : Settled(one.em, out) /\ Lowers(one.em, r, out),
         Failed(one.em) => r = one
  PROVE  Assigns(em, r)
<1>1. CASE Failed(one.em)
  BY <1>1, LoweredAssigns
<1>2. CASE ~Failed(one.em)
  <2>1. PICK out : Settled(one.em, out) /\ Lowers(one.em, r, out)
    BY <1>2
  <2>2. Keeps(em, one.em) /\ Keeps(one.em, r.em)
    BY <2>1 DEF Lowers, Computes
  <2>3. Computes(em, r.em, out)
    BY <1>2, <2>1, <2>2, PlacedThen DEF Lowers, Ready
  <2>4. Settled(r.em, out)
    BY <2>1, <2>2, StillSettled
  <2> QED
    BY <2>1, <2>3, <2>4 DEF Assigns, Lowers
<1> QED
  BY <1>1, <1>2

\* After some computation, a statement still ends.
LEMMA EndsThen ==
  ASSUME NEW em, Ready(em), NEW one, Lowers(em, one, None), ~Failed(one.em),
         NEW r, NEW e, Ends(one.em, r, e)
  PROVE  Ends(em, r, e)
<1>1. PICK before : /\ Ready(before) /\ Computes(one.em, before, None)
                    /\ Ending(before, e) /\ r.em = Report(before, e)
  BY DEF Ends
<1>2. Computes(em, before, None)
  BY <1>1, ComputesThen DEF Lowers, Ready, MayWrite
<1> QED
  BY <1>1, <1>2 DEF Ends

\* The end, when nothing is left to compute.
LEMMA EndsNow ==
  ASSUME NEW em, Ready(em), NEW e, Ending(em, e), NEW r, r.em = Report(em, e)
  PROVE  Ends(em, r, e)
  BY NothingComputed DEF Ends, Ready

\* One value is lowered first.
LEMMA PerformsThen ==
  ASSUME NEW em, Ready(em), NEW one, Lowers(em, one, None), NEW r,
         IF Failed(one.em) THEN r = one ELSE Performs(one.em, r)
  PROVE  Performs(em, r)
<1>1. CASE Failed(one.em)
  BY <1>1 DEF Performs
<1>2. CASE ~Failed(one.em) /\ Lowers(one.em, r, None)
  BY <1>2, LowersThen DEF MayWrite, Performs
<1>3. CASE ~Failed(one.em) /\ ~Lowers(one.em, r, None)
  BY <1>3, EndsThen DEF Performs
<1> QED
  BY <1>1, <1>2, <1>3

\* An operation without output, that has no rule of widths.
LEMMA EffectEnds ==
  ASSUME NEW em, Ready(em), NEW opcode \in RawOpcodes,
         \A o : o.opcode = opcode => WellTyped(o),
         NEW inputs, \A v \in Range(inputs) : IsValue(em, v)
  PROVE  \E e : /\ Ends(em, EmitTo(em, opcode, None, inputs), e)
                /\ e = [event |-> "op", opcode |-> opcode, output |-> None, inputs |-> inputs]
<1> DEFINE e == [event |-> "op", opcode |-> opcode, output |-> None, inputs |-> inputs]
           r == EmitTo(em, opcode, None, inputs)
<1>1. r.em = Report(em, e)
  BY DEF EmitTo, Ok, Emit
<1>2. e.event = "op" /\ e.opcode = opcode /\ e.output = None /\ e.inputs = inputs
  OBVIOUS
<1> HIDE DEF e, r
<1>3. Ending(em, e)
  BY <1>2 DEF Ending, ReadBy
<1>4. Ends(em, r, e)
  BY <1>1, <1>3, EndsNow
<1> QED
  BY <1>4 DEF r, e

\* A shift, a mask or a sum with a constant, in one width.
LEMMA TempLowers ==
  ASSUME NEW em, Ready(em), NEW opcode \in {"IntAnd", "IntLeft", "IntAdd"},
         NEW left, IsValue(em, left), NEW right, NEW size, left.size = size,
         NEW r, r = Temp(em, opcode, left, right, size)
  PROVE  Lowers(em, r, None) /\ (~Failed(r.em) => r.v.size = size)
<1> DEFINE one == AllocateUnique(em, size)
           inputs == <<left, Constant(right, size)>>
           last == EmitTo(one.em, opcode, one.v, inputs)
<1>1. r = IF Failed(one.em) THEN one ELSE last
  BY DEF Temp, Then
<1>2. size \in Nat
  BY DEF IsValue
<1> HIDE DEF one
<1>3. CASE Failed(one.em)
  BY <1>1, <1>2, <1>3, Allocates DEF one
<1>4. CASE ~Failed(one.em)
  <2>1. one.v.size = size
    BY <1>2, <1>4, Allocates DEF one
  <2>2. opcode \in BinaryOperators \ Boolean /\ opcode \in ValueOpcodes
    BY ValueOpcodeNames, ShiftsAndMasks
  <2>3. WellTyped([event |-> "op", opcode |-> opcode, output |-> one.v, inputs |-> inputs])
    BY <1>2, <2>1, <2>2, OneWidth, ConstantsAreValues
  <2>4. \A v \in Range(inputs) : IsValue(em, v)
    BY <1>2, BinarySequence, ConstantsAreValues
  <2> HIDE DEF inputs
  <2>5. Lowers(em, last, None)
    BY <1>2, <1>4, <2>2, <2>3, <2>4, ScratchLowers DEF one
  <2>6. last.v = one.v
    BY DEF EmitTo, Ok
  <2> HIDE DEF last
  <2> QED
    BY <1>1, <1>4, <2>1, <2>5, <2>6
<1> QED
  BY <1>3, <1>4

\* A value is widened to the storage's width, or taken as it is.
LEMMA ExtendLowers ==
  ASSUME NEW em, Ready(em), NEW value, IsValue(em, value), NEW size \in Nat,
         NEW r, r = Extend(em, value, size)
  PROVE  Lowers(em, r, None) /\ (~Failed(r.em) => r.v.size = size)
<1>1. CASE value.size > size
  <2>1. r = Err(em, "InputSizeMismatch")
    BY <1>1 DEF Extend
  <2> QED
    BY <2>1, ErrorNames, ErrLowers
<1>2. CASE value.size = size
  <2>1. r = Ok(em, value)
    BY <1>2 DEF Extend
  <2> QED
    BY <1>2, <2>1, ValueLowers DEF Ok
<1>3. CASE value.size < size
  <2> DEFINE one == AllocateUnique(em, size)
             last == EmitTo(one.em, "IntZext", one.v, <<value>>)
  <2>1. r = IF Failed(one.em) THEN one ELSE last
    BY <1>3 DEF Extend, Then, IsValue
  <2> HIDE DEF one
  <2>2. CASE Failed(one.em)
    BY <2>1, <2>2, Allocates DEF one
  <2>3. CASE ~Failed(one.em)
    <3>1. one.v.size = size
      BY <2>3, Allocates DEF one
    <3>2. WellTyped([event |-> "op", opcode |-> "IntZext", output |-> one.v,
                     inputs |-> <<value>>])
      BY AnyWidths DEF ContextSized, Builtins
    <3>3. \A v \in Range(<<value>>) : IsValue(em, v)
      BY UnarySequence
    <3>4. Lowers(em, last, None)
      BY <2>3, <3>2, <3>3, ScratchLowers, ValueOpcodeNames DEF one
    <3>5. last.v = one.v
      BY DEF EmitTo, Ok
    <3> HIDE DEF last
    <3> QED
      BY <2>1, <2>3, <3>1, <3>4, <3>5
  <2> QED
    BY <2>2, <2>3
<1>4. value.size \in Nat
  BY DEF IsValue
<1> QED
  BY <1>1, <1>2, <1>3, <1>4

\* A number of bits takes a number of bytes.
LEMMA ByteCount ==
  ASSUME NEW bits \in Nat
  PROVE  DivCeilByte(bits) \in Nat
<1>1. DivCeilByte(bits) \in Count
  BY BytesType DEF Count
<1>2. DivCeilByte(bits) # None
  BY <1>1, WidthsAssumption, NoneAssumption DEF DivCeilByte, Count
<1> QED
  BY <1>1, <1>2 DEF Count

\* The bits written into a range, in place and of the storage's width.
LEMMA RangeValueLowers ==
  ASSUME NEW em, Ready(em), NEW rhs, Sound(rhs), NEW start, NEW bits \in Nat,
         NEW size \in Nat, NEW r, r = LowerRangeValue(em, rhs, start, bits, size)
  PROVE  Lowers(em, r, None) /\ (~Failed(r.em) => r.v.size = size)
<1> DEFINE one == LowerExprWithSize(em, rhs, DivCeilByte(bits))
           two == IF Failed(one.em) THEN one ELSE Extend(one.em, one.v, size)
           three == IF Failed(two.em) THEN two
                    ELSE Temp(two.em, "IntAnd", two.v, Mask(bits), size)
<1>1. r = IF Failed(three.em) THEN three ELSE Temp(three.em, "IntLeft", three.v, start, size)
  BY DEF LowerRangeValue, Then
<1>2. Lowers(em, one, None)
  BY ByteCount, WithSizeLowers
<1> HIDE DEF one
<1>3. Lowers(em, two, None) /\ (~Failed(two.em) => two.v.size = size)
  <2>1. ~Failed(one.em) =>
           Lowers(one.em, two, None) /\ (~Failed(two.em) => two.v.size = size)
    BY <1>2, LoweredValue, ExtendLowers
  <2>2. Failed(one.em) => two = one
    OBVIOUS
  <2> HIDE DEF two
  <2> QED
    BY <1>2, <2>1, <2>2, LowersThen DEF MayWrite
<1> HIDE DEF two
<1>4. Lowers(em, three, None) /\ (~Failed(three.em) => three.v.size = size)
  <2>1. ~Failed(two.em) =>
           Lowers(two.em, three, None) /\ (~Failed(three.em) => three.v.size = size)
    BY <1>3, LoweredValue, TempLowers
  <2>2. Failed(two.em) => three = two
    OBVIOUS
  <2> HIDE DEF three
  <2> QED
    BY <1>3, <2>1, <2>2, LowersThen DEF MayWrite
<1> HIDE DEF three
<1>5. ~Failed(three.em) => Lowers(three.em, r, None) /\ (~Failed(r.em) => r.v.size = size)
  BY <1>1, <1>4, LoweredValue, TempLowers
<1> QED
  BY <1>1, <1>4, <1>5, LowersThen DEF MayWrite

\* Two values of one width are combined.
LEMMA OrLowers ==
  ASSUME NEW em, Ready(em), NEW out, IsPlace(em, out), out # None,
         NEW a, IsValue(em, a), a.size = out.size,
         NEW b, IsValue(em, b), b.size = out.size
  PROVE  Lowers(em, EmitTo(em, "IntOr", out, <<a, b>>), out)
<1>1. WellTyped([event |-> "op", opcode |-> "IntOr", output |-> out, inputs |-> <<a, b>>])
  BY OneWidth, ShiftsAndMasks
<1>2. \A v \in Range(<<a, b>>) : IsValue(em, v)
  BY BinarySequence
<1> QED
  BY <1>1, <1>2, EmitLowers, ValueOpcodeNames

\* The value and what remains of the storage, in one width.
LEMMA PartsLower ==
  ASSUME NEW em, Ready(em), NEW storage, IsValue(em, storage), NEW start,
         NEW bits \in Nat, NEW rhs, Sound(rhs),
         NEW one, one = LowerRangeValue(em, rhs, start, bits, storage.size),
         NEW two, two = Temp(one.em, "IntAnd", storage, ClearMask(start, bits), storage.size)
  PROVE  /\ Lowers(em, one, None)
         /\ ~Failed(one.em) =>
               /\ Ready(one.em) /\ Lowers(one.em, two, None)
               /\ ~Failed(two.em) =>
                     /\ Ready(two.em)
                     /\ IsValue(two.em, one.v) /\ one.v.size = storage.size
                     /\ IsValue(two.em, two.v) /\ two.v.size = storage.size
<1>1. Lowers(em, one, None) /\ (~Failed(one.em) => one.v.size = storage.size)
  BY RangeValueLowers DEF IsValue
<1>2. ~Failed(one.em) => Ready(one.em) /\ IsValue(one.em, one.v) /\ IsValue(one.em, storage)
  BY <1>1, LoweredValue
<1>3. ~Failed(one.em) => Lowers(one.em, two, None) /\ (~Failed(two.em) => two.v.size = storage.size)
  BY <1>2, TempLowers
<1> QED
  BY <1>1, <1>2, <1>3, LoweredValue

\* A range combined into its storage.
LEMMA CombineInPlace ==
  ASSUME NEW em, Ready(em), NEW storage, IsValue(em, storage), IsPlace(em, storage),
         storage # None, NEW start, NEW bits \in Nat, NEW rhs, Sound(rhs),
         NEW r, r = CombineRange(em, storage, start, bits, rhs, LAMBDA em1 : Ok(em1, storage))
  PROVE  Lowers(em, r, storage)
<1> DEFINE one == LowerRangeValue(em, rhs, start, bits, storage.size)
           two == Temp(one.em, "IntAnd", storage, ClearMask(start, bits), storage.size)
           last == EmitTo(two.em, "IntOr", storage, <<two.v, one.v>>)
<1>1. r = IF Failed(one.em) THEN one
          ELSE IF Failed(two.em) THEN two
          ELSE IF Failed(two.em) THEN Ok(two.em, storage) ELSE last
  BY DEF CombineRange, Then, Ok
<1>2. /\ Lowers(em, one, None)
      /\ ~Failed(one.em) =>
            /\ Ready(one.em) /\ Lowers(one.em, two, None)
            /\ ~Failed(two.em) =>
                  /\ Ready(two.em)
                  /\ IsValue(two.em, one.v) /\ one.v.size = storage.size
                  /\ IsValue(two.em, two.v) /\ two.v.size = storage.size
  BY PartsLower
<1> HIDE DEF one, two, last
<1>3. ~Failed(one.em) => MayWrite(one.em, storage)
  BY <1>2, LoweredValue DEF MayWrite
<1>4. ASSUME ~Failed(one.em), ~Failed(two.em) PROVE Lowers(two.em, last, storage)
  <2>1. MayWrite(two.em, storage)
    BY <1>2, <1>3, <1>4, LoweredValue
  <2> QED
    BY <1>2, <1>4, <2>1, OrLowers DEF MayWrite, last
<1>5. ~Failed(one.em) => Lowers(one.em, r, storage)
  BY <1>1, <1>2, <1>3, <1>4, LowersThen
<1> QED
  BY <1>1, <1>2, <1>5, LowersThen DEF MayWrite

\* A range of what was loaded, combined afresh.
LEMMA CombineAfresh ==
  ASSUME NEW em, Ready(em), NEW storage, IsValue(em, storage), NEW start,
         NEW bits \in Nat, NEW rhs, Sound(rhs)
  PROVE  Lowers(em, CombineRange(em, storage, start, bits, rhs,
                                 LAMBDA em1 : AllocateUnique(em1, storage.size)), None)
<1> DEFINE r == CombineRange(em, storage, start, bits, rhs,
                             LAMBDA em1 : AllocateUnique(em1, storage.size))
           one == LowerRangeValue(em, rhs, start, bits, storage.size)
           two == Temp(one.em, "IntAnd", storage, ClearMask(start, bits), storage.size)
           three == AllocateUnique(two.em, storage.size)
           last == EmitTo(three.em, "IntOr", three.v, <<two.v, one.v>>)
<1>1. r = IF Failed(one.em) THEN one
          ELSE IF Failed(two.em) THEN two
          ELSE IF Failed(three.em) THEN three ELSE last
  BY DEF CombineRange, Then
<1> HIDE DEF one, two, three, last, r
<1>2. /\ Lowers(em, one, None)
      /\ ~Failed(one.em) =>
            /\ Ready(one.em) /\ Lowers(one.em, two, None)
            /\ ~Failed(two.em) =>
                  /\ Ready(two.em)
                  /\ IsValue(two.em, one.v) /\ one.v.size = storage.size
                  /\ IsValue(two.em, two.v) /\ two.v.size = storage.size
  BY PartsLower DEF one, two
<1>3. storage.size \in Nat
  BY DEF IsValue
<1>4. ASSUME ~Failed(one.em), ~Failed(two.em), ~Failed(three.em)
      PROVE  Lowers(three.em, last, three.v)
  <2>1. /\ Ready(three.em) /\ Computes(two.em, three.em, None)
        /\ three.v # None /\ three.v.size = storage.size /\ IsPlace(three.em, three.v)
    BY <1>2, <1>3, <1>4, Allocates DEF three
  <2>2. IsValue(three.em, one.v) /\ IsValue(three.em, two.v)
    BY <1>2, <1>4, <2>1, StillAValue DEF Computes, Ready
  <2> QED
    BY <1>2, <1>4, <2>1, <2>2, OrLowers DEF last
<1>5. ASSUME ~Failed(one.em), ~Failed(two.em) PROVE Lowers(two.em, r, None)
  <2>1. r = IF Failed(three.em) THEN three ELSE last
    BY <1>1, <1>5
  <2>2. IF Failed(three.em) THEN r = three ELSE Lowers(three.em, r, three.v)
    BY <1>4, <1>5, <2>1
  <2> QED
    BY <1>2, <1>3, <1>5, <2>2, AllocatesThen DEF three
<1>6. ~Failed(one.em) => Lowers(one.em, r, None)
  BY <1>1, <1>2, <1>5, LowersThen DEF MayWrite
<1>7. Lowers(em, r, None)
  BY <1>1, <1>2, <1>6, LowersThen DEF MayWrite
<1> QED
  BY <1>7 DEF r

\* Storage that a statement assigns to, whole or in part.
Cell(em, storage) ==
    storage # None /\ IsPlace(em, storage) /\ Settled(em, storage) /\ IsValue(em, storage)

\* What computes into settled storage assigns.
LEMMA SettledAssigns ==
  ASSUME NEW em, NEW r, NEW out, Lowers(em, r, out), Settled(em, out)
  PROVE  Assigns(em, r)
<1>1. Settled(r.em, out)
  BY StillSettled DEF Lowers, Computes
<1> QED
  BY <1>1 DEF Assigns, Lowers

\* The storage of a name, placed when it is a local's first use, may be read
\* and written.
LEMMA CellOfIdent ==
  ASSUME NEW em, Ready(em), NEW ident, IsIdent(ident), NEW size \in Count,
         NEW one, one = StorageForIdent(em, ident, size), ~Failed(one.em)
  PROVE  Ready(one.em) /\ Cell(one.em, one.v) /\ one.em.events = em.events
<1>1. /\ Lowers(em, one, None) /\ IsPlace(one.em, one.v) /\ one.v # None
      /\ InUnique(one.v) => Housed(one.v, Placed(one.em))
      /\ one.em.events = em.events
  BY StorageLowers
<1>2. Ready(one.em) /\ IsValue(one.em, one.v)
  BY <1>1, LoweredValue
<1> QED
  BY <1>1, <1>2 DEF Cell, Settled, IsPlace

\* A value is copied into storage of its width.
LEMMA CopyInto ==
  ASSUME NEW em, Ready(em), NEW out, IsPlace(em, out), out # None,
         NEW value, IsValue(em, value), value.size = out.size
  PROVE  Lowers(em, EmitTo(em, "Copy", out, <<value>>), out)
<1>1. WellTyped([event |-> "op", opcode |-> "Copy", output |-> out, inputs |-> <<value>>])
  BY CopyFits
<1>2. \A v \in Range(<<value>>) : IsValue(em, v)
  BY UnarySequence
<1> QED
  BY <1>1, <1>2, EmitLowers, ValueOpcodeNames

\* Multiples of a byte.
LEMMA WholeBytes ==
  ASSUME NEW bits \in Nat, bits % ByteBits = 0
  PROVE  bits \div ByteBits \in Nat /\ bits = ByteBits * (bits \div ByteBits)
  BY WidthsAssumption

\* Fewer bits are fewer bytes.
LEMMA FewerBytes ==
  ASSUME NEW m \in Nat, NEW n \in Nat, ByteBits * m <= ByteBits * n
  PROVE  m <= n
<1>1. ASSUME n < m PROVE FALSE
  <2>1. PICK k \in Nat \ {0} : m = n + k
    <3>1. m - n \in Nat \ {0} /\ m = n + (m - n)
      BY <1>1
    <3> QED
      BY <3>1
  <2>2. ByteBits * m = ByteBits * n + ByteBits * k
    BY <2>1, WidthsAssumption
  <2>3. ByteBits * k > 0
    BY <2>1, WidthsAssumption
  <2>4. ByteBits * m \in Nat /\ ByteBits * n \in Nat /\ ByteBits * k \in Nat
    BY <2>1, WidthsAssumption
  <2> QED
    BY <2>2, <2>3, <2>4
<1> QED
  BY <1>1

\* `aligned_subvarnode`: a part of the storage.
LEMMA LaneInside ==
  ASSUME NEW em, IsEmitter(em), NEW storage, IsPlace(em, storage), NEW start \in Nat,
         NEW bits \in Nat, RangeValid(storage, start, bits), NEW lane, lane = AlignedLane(storage, start, bits),
         lane # None
  PROVE  /\ lane.size \in Nat \ {0}
         /\ storage # None /\ Settled(em, storage) => IsPlace(em, lane) /\ Settled(em, lane)
<1> DEFINE p == start \div ByteBits
           q == bits \div ByteBits
<1>1. /\ start % ByteBits = 0 /\ bits % ByteBits = 0
      /\ lane = Varnode(storage.space, storage.offset + p, q)
  BY DEF AlignedLane
<1>2. /\ p \in Nat /\ start = ByteBits * p
      /\ q \in Nat /\ bits = ByteBits * q
  BY <1>1, WholeBytes
<1> HIDE DEF p, q
<1>3. storage.size \in Nat /\ bits >= 1 /\ start + bits <= storage.size * ByteBits
  BY DEF RangeValid, IsPlace
<1>4. q # 0
  BY <1>2, <1>3, WidthsAssumption
<1>5. p + q <= storage.size
  <2>1. ByteBits * (p + q) = start + bits /\ ByteBits * storage.size = storage.size * ByteBits
    BY <1>2, <1>3, WidthsAssumption
  <2>2. p + q \in Nat
    BY <1>2
  <2> QED
    BY <1>3, <2>1, <2>2, FewerBytes
<1>6. /\ lane.space = storage.space /\ lane.offset = storage.offset + p /\ lane.size = q
      /\ lane = [space |-> lane.space, offset |-> lane.offset, size |-> lane.size]
  BY <1>1 DEF Varnode
<1>7. ASSUME storage # None, Settled(em, storage)
      PROVE  IsPlace(em, lane) /\ Settled(em, lane)
  <2>1. CASE InUnique(lane)
    <3>1. InUnique(storage)
      BY <1>6, <1>7, <2>1 DEF InUnique
    <3>2. /\ storage \in Home /\ storage.offset \in Nat /\ End(storage) <= em.next
          /\ Housed(storage, Placed(em))
      BY <1>7, <3>1, PieceShape DEF IsPlace, Settled
    <3>3. lane \in Home
      BY <1>2, <1>4, <1>6, <2>1, <3>2 DEF Home, InUnique
    <3>4. Within(lane, storage)
      BY <1>2, <1>3, <1>5, <1>6, <3>2 DEF Within, End
    <3>5. storage.offset <= lane.offset /\ End(lane) <= End(storage)
      BY <3>4 DEF Within
    <3>6. Housed(lane, Placed(em))
      <4>1. PICK id \in DOMAIN Placed(em) : Within(storage, Placed(em)[id])
        BY <3>2 DEF Housed
      <4>2. Placed(em)[id] \in Home
        BY DEF IsEmitter, Placed, HomesOf
      <4>3. Within(lane, Placed(em)[id])
        BY <3>2, <3>3, <3>5, <4>1, <4>2, PieceShape DEF Within
      <4> QED
        BY <4>3 DEF Housed
    <3>7. End(lane) <= em.next
      BY <3>2, <3>3, <3>5, PieceShape DEF IsEmitter
    <3> QED
      BY <3>3, <3>6, <3>7, PieceShape DEF IsPlace, Settled
  <2>2. CASE ~InUnique(lane)
    BY <1>2, <1>4, <1>6, <2>2 DEF IsPlace, Settled
  <2> QED
    BY <2>1, <2>2
<1> QED
  BY <1>2, <1>4, <1>6, <1>7

\* The value written to a lane, as wide as the lane.
LEMMA LaneValueLowers ==
  ASSUME NEW em, Ready(em), NEW rhs, Sound(rhs), NEW lane, lane.size \in Nat,
         NEW r, r = LowerLaneValue(em, rhs, lane)
  PROVE  Lowers(em, r, None) /\ (~Failed(r.em) => r.v.size = lane.size)
<1> DEFINE one == LowerExprWithSize(em, rhs, lane.size)
<1>1. r = IF Failed(one.em) THEN one
          ELSE IF one.v.size # lane.size THEN Err(one.em, "CopySizeMismatch")
          ELSE Ok(one.em, one.v)
  BY DEF LowerLaneValue, Then
<1>2. Lowers(em, one, None)
  BY WithSizeLowers
<1> HIDE DEF one
<1>3. ASSUME ~Failed(one.em)
      PROVE  Lowers(one.em, r, None) /\ (~Failed(r.em) => r.v.size = lane.size)
  <2>1. Ready(one.em) /\ IsValue(one.em, one.v)
    BY <1>2, <1>3, LoweredValue
  <2>2. CASE one.v.size # lane.size
    BY <1>1, <1>3, <2>1, <2>2, ErrorNames, ErrLowers
  <2>3. CASE one.v.size = lane.size
    <3>1. r = Ok(one.em, one.v)
      BY <1>1, <1>3, <2>3
    <3> QED
      BY <2>1, <2>3, <3>1, ValueLowers DEF Ok
  <2> QED
    BY <2>2, <2>3
<1> QED
  BY <1>1, <1>2, <1>3, LowersThen DEF MayWrite

\* `insert_range`.
LEMMA InsertLowers ==
  ASSUME NEW em, Ready(em), NEW storage, Cell(em, storage), NEW start \in Nat,
         NEW bits \in Nat, NEW rhs, Sound(rhs),
         NEW r, r = InsertRange(em, storage, start, bits, rhs)
  PROVE  \E out : Settled(em, out) /\ Lowers(em, r, out)
<1> DEFINE lane == AlignedLane(storage, start, bits)
           one == LowerLaneValue(em, rhs, lane)
           last == EmitTo(one.em, "Copy", lane, <<one.v>>)
<1>1. ASSUME r = Err(em, "InvalidRange")
      PROVE  \E out : Settled(em, out) /\ Lowers(em, r, out)
  BY <1>1, ErrorNames, ErrLowers DEF Cell
<1>2. CASE RangeValid(storage, start, bits) /\ storage.size <= WordBytes
  <2>1. r = CombineRange(em, storage, start, bits, rhs, LAMBDA em1 : Ok(em1, storage))
    BY <1>2 DEF InsertRange
  <2>2. Lowers(em, r, storage)
    BY <2>1, CombineInPlace DEF Cell
  <2> QED
    BY <2>2 DEF Cell
<1>3. CASE /\ RangeValid(storage, start, bits) /\ ~(storage.size <= WordBytes)
           /\ lane # None
  <2>1. r = IF Failed(one.em) THEN one ELSE last
    BY <1>3 DEF InsertRange, Then
  <2>2. lane.size \in Nat /\ IsPlace(em, lane) /\ Settled(em, lane)
    BY <1>3, LaneInside DEF Cell, Ready
  <2> HIDE DEF lane
  <2>3. Lowers(em, one, None) /\ (~Failed(one.em) => one.v.size = lane.size)
    BY <2>2, LaneValueLowers
  <2> HIDE DEF one
  <2>4. MayWrite(em, lane)
    BY <2>2 DEF MayWrite
  <2>5. ASSUME ~Failed(one.em) PROVE Lowers(one.em, last, lane)
    <3>1. Ready(one.em) /\ IsValue(one.em, one.v) /\ MayWrite(one.em, lane)
      BY <2>3, <2>4, <2>5, LoweredValue
    <3> QED
      BY <1>3, <2>3, <2>5, <3>1, CopyInto DEF MayWrite
  <2> HIDE DEF last
  <2>6. Lowers(em, r, lane)
    BY <2>1, <2>3, <2>4, <2>5, LowersThen
  <2> QED
    BY <2>2, <2>6
<1>4. \/ r = Err(em, "InvalidRange")
      \/ RangeValid(storage, start, bits) /\ storage.size <= WordBytes
      \/ RangeValid(storage, start, bits) /\ ~(storage.size <= WordBytes) /\ lane # None
  BY DEF InsertRange
<1> QED
  BY <1>1, <1>2, <1>3, <1>4

\* An assignment to a register, a local or a named bit range.
LEMMA AssignmentComputes ==
  ASSUME SizeRecurs, NEW st, IsStatement(st), st.kind = "Assignment", Sound(st.rhs),
         NEW em, Ready(em)
  PROVE  Assigns(em, LowerAssignment(em, st))
<1>1. IsIdent(st.lhs) /\ st.size \in Count /\ st.rhs \in Expressions
  BY DEF IsStatement
<1> DEFINE r == LowerAssignment(em, st)
<1>2. CASE st.lhs.form = "BitRange"
  <2> DEFINE info == BitRangeInfo(st.lhs.id)
  <2>1. CASE info = None
    <3>1. r = Err(em, "Unsupported")
      BY <1>2, <2>1 DEF LowerAssignment
    <3> QED
      BY <3>1, ErrorNames, ErrLowers, LoweredAssigns
  <2>2. CASE info # None
    <3>1. r = InsertRange(em, info.storage, info.start, info.bits, st.rhs)
      BY <1>2, <2>2 DEF LowerAssignment
    <3>2. Cell(em, info.storage) /\ info.start \in Nat /\ info.bits \in Nat
      <4>1. info.storage # None
        BY <2>2, ContextAssumption DEF BitRangeInfo
      <4> QED
        BY <2>2, <4>1, BitRangeType DEF Cell, Settled
    <3> HIDE DEF info, r
    <3>3. \E out : Settled(em, out) /\ Lowers(em, r, out)
      BY <3>1, <3>2, InsertLowers
    <3> QED
      BY <3>3, SettledAssigns DEF r
  <2> QED
    BY <2>1, <2>2
<1>3. CASE st.lhs.form # "BitRange"
  <2> DEFINE size == OrElse(st.size, KnownSize(em, st.rhs))
             one == StorageForIdent(em, st.lhs, size)
  <2>1. r = IF Failed(one.em) THEN one ELSE LowerExpr(one.em, st.rhs, one.v)
    BY <1>3 DEF LowerAssignment, Then
  <2>2. size \in Count
    BY <1>1, KnownSizeType, EitherCount DEF Ready
  <2> HIDE DEF size, r
  <2>3. Lowers(em, one, None)
    BY <1>1, <2>2, StorageLowers
  <2>4. ~Failed(one.em) => Ready(one.em) /\ Cell(one.em, one.v) /\ one.em.events = em.events
    BY <1>1, <2>2, CellOfIdent
  <2> HIDE DEF one
  <2>5. ~Failed(one.em) => Lowers(one.em, r, one.v)
    BY <2>1, <2>4 DEF Sound, MayWrite, Cell
  <2>6. ~Failed(one.em) => Settled(one.em, one.v)
    BY <2>4 DEF Cell
  <2> QED
    BY <2>1, <2>3, <2>4, <2>5, <2>6, AssignsThen DEF r
<1> QED
  BY <1>2, <1>3

\* Three operands.
LEMMA TernarySequence ==
  ASSUME NEW a, NEW b, NEW c
  PROVE  Range(<<a, b, c>>) = {a, b, c} /\ <<a, b, c>>[1] = a /\ <<a, b, c>>[2] = b
  BY DEF Range

\* A store at a pointer of the space's width is a statement's last operation.
LEMMA StorePerforms ==
  ASSUME NEW em, Ready(em), NEW space, AddressSize(space) # None,
         NEW ptr, IsValue(em, ptr), ptr.size = AddressSize(space),
         NEW value, IsValue(em, value), NEW r,
         r = Ok(Emit(em, "Store", None, <<SpaceId(space), ptr, value>>), None)
  PROVE  Performs(em, r)
<1> DEFINE inputs == <<SpaceId(space), ptr, value>>
           e == [event |-> "op", opcode |-> "Store", output |-> None, inputs |-> inputs]
<1>1. r.em = Report(em, e)
  BY DEF Ok, Emit
<1>2. e.event = "op" /\ e.opcode = "Store" /\ e.output = None /\ e.inputs = inputs
  OBVIOUS
<1>3. /\ \A v \in Range(inputs) : IsValue(em, v)
      /\ inputs[1] = SpaceId(space) /\ inputs[2].size = AddressSize(space)
  BY TernarySequence, ConstantsAreValues DEF SpaceId
<1> HIDE DEF e, inputs
<1>4. space \in DOMAIN SpaceNumbers
  BY ContextAssumption DEF AddressSize
<1>5. "Store" \in RawOpcodes /\ "Store" \notin Range(DirectOpcode)
  BY DEF RawOpcodes, Opcodes, PseudoOpcodes, DirectOpcode, Range
<1>6. WellTyped(e)
  BY <1>2, <1>3, <1>4, AccessFits
<1>7. Ending(em, e)
  BY <1>2, <1>3, <1>5, <1>6 DEF Ending, ReadBy
<1>8. Ends(em, r, e)
  BY <1>1, <1>7, EndsNow
<1> QED
  BY <1>2, <1>5, <1>8 DEF Performs

\* A pointer moved by an offset keeps its width.
LEMMA MovedLowers ==
  ASSUME NEW em, Ready(em), NEW ptr, IsValue(em, ptr), NEW offset,
         NEW r, r = Moved(em, ptr, offset)
  PROVE  Lowers(em, r, None) /\ (~Failed(r.em) => r.v.size = ptr.size)
<1>1. CASE offset = 0
  <2>1. r = Ok(em, ptr)
    BY <1>1 DEF Moved
  <2> QED
    BY <2>1, ValueLowers DEF Ok
<1>2. CASE offset # 0
  BY <1>2, TempLowers DEF Moved
<1> QED
  BY <1>1, <1>2

\* `store_back`.
LEMMA StoreBackPerforms ==
  ASSUME NEW em, Ready(em), NEW load, Sound(load.ptr), NEW offset, NEW value,
         IsValue(em, value), NEW r, r = StoreBack(em, load, offset, value)
  PROVE  Performs(em, r)
<1> DEFINE space == LoadSpace(load)
           one == LowerPointer(em, space, load.ptr)
           two == IF Failed(one.em) THEN one ELSE Moved(one.em, one.v, offset)
           last == Ok(Emit(two.em, "Store", None, <<SpaceId(space), two.v, value>>), None)
<1>1. CASE space = ConstSpace
  <2>1. r = Err(em, "Unsupported")
    BY <1>1 DEF StoreBack
  <2> QED
    BY <2>1, ErrorNames, ErrLowers DEF Performs
<1>2. CASE space # ConstSpace
  <2>1. r = IF Failed(two.em) THEN two ELSE last
    BY <1>2 DEF StoreBack, Then
  <2> HIDE DEF space
  <2>2. /\ Lowers(em, one, None)
        /\ ~Failed(one.em) => AddressSize(space) # None /\ one.v.size = AddressSize(space)
    BY PointerLowers
  <2> HIDE DEF one
  <2>3. ~Failed(one.em) => /\ Lowers(one.em, two, None)
                           /\ ~Failed(two.em) => two.v.size = one.v.size
    BY <2>2, LoweredValue, MovedLowers
  <2>4. Failed(one.em) => two = one
    OBVIOUS
  <2> HIDE DEF two
  <2>5. Lowers(em, two, None)
    BY <2>2, <2>3, <2>4, LowersThen DEF MayWrite
  <2>6. ASSUME ~Failed(two.em) PROVE Performs(two.em, r)
    <3>1. ~Failed(one.em)
      BY <2>4, <2>6
    <3>2. Ready(two.em) /\ IsValue(two.em, two.v) /\ IsValue(two.em, value)
      BY <2>5, <2>6, LoweredValue
    <3> QED
      BY <2>1, <2>2, <2>3, <2>6, <3>1, <3>2, StorePerforms
  <2> HIDE DEF last
  <2> QED
    BY <2>1, <2>5, <2>6, PerformsThen
<1> QED
  BY <1>1, <1>2

\* A bit range of memory, loaded before.
LEMMA WriteBackPerforms ==
  ASSUME NEW em, Ready(em), NEW storage, IsValue(em, storage), NEW range,
         range.start \in Nat, range.bits \in Nat, Sound(range.value.ptr),
         NEW rhs, Sound(rhs), NEW r, r = WriteBack(em, storage, range, rhs)
  PROVE  Performs(em, r)
<1> DEFINE lane == AlignedLane(storage, range.start, range.bits)
           all == CombineRange(em, storage, range.start, range.bits, rhs,
                               LAMBDA em1 : AllocateUnique(em1, storage.size))
           one == LowerLaneValue(em, rhs, lane)
<1>1. CASE r = Err(em, "InvalidRange")
  BY <1>1, ErrorNames, ErrLowers DEF Performs
<1>2. CASE RangeValid(storage, range.start, range.bits) /\ storage.size <= WordBytes
  <2>1. r = IF Failed(all.em) THEN all ELSE StoreBack(all.em, range.value, 0, all.v)
    BY <1>2 DEF WriteBack, Then
  <2>2. Lowers(em, all, None)
    BY CombineAfresh DEF CombineRange, Then
  <2> HIDE DEF all
  <2>3. ~Failed(all.em) => Performs(all.em, r)
    BY <2>1, <2>2, LoweredValue, StoreBackPerforms
  <2> QED
    BY <2>1, <2>2, <2>3, PerformsThen
<1>3. CASE /\ RangeValid(storage, range.start, range.bits) /\ ~(storage.size <= WordBytes)
           /\ lane # None
  <2> DEFINE offset == range.start \div ByteBits
  <2>1. r = IF Failed(one.em) THEN one ELSE StoreBack(one.em, range.value, offset, one.v)
    BY <1>3 DEF WriteBack, Then
  <2>2. lane.size \in Nat
    <3>1. range.bits % ByteBits = 0 /\ lane.size = range.bits \div ByteBits
      BY <1>3 DEF AlignedLane, Varnode
    <3> QED
      BY <3>1, WholeBytes
  <2> HIDE DEF lane, offset
  <2>3. Lowers(em, one, None)
    BY <2>2, LaneValueLowers
  <2> HIDE DEF one
  <2>4. ~Failed(one.em) => Performs(one.em, r)
    BY <2>1, <2>3, LoweredValue, StoreBackPerforms
  <2> QED
    BY <2>1, <2>3, <2>4, PerformsThen
<1>4. \/ r = Err(em, "InvalidRange")
      \/ RangeValid(storage, range.start, range.bits) /\ storage.size <= WordBytes
      \/ /\ RangeValid(storage, range.start, range.bits) /\ ~(storage.size <= WordBytes)
         /\ lane # None
  BY DEF WriteBack
<1> QED
  BY <1>1, <1>2, <1>3, <1>4

\* A range that is known is two numbers.
LEMMA KnownRange ==
  ASSUME NEW range \in Expressions, range.kind = "Range", RangeKnown(range)
  PROVE  range.start \in Nat /\ range.bits \in Nat
  BY ExpressionsAssumption DEF IsExpression, RangeKnown, Count

\* `lower_load_range_assignment`.
LEMMA LoadRangePerforms ==
  ASSUME NEW range \in Expressions, range.kind = "Range", range.value.kind = "Load",
         \A e \in Expressions : Sound(e), NEW rhs \in Expressions,
         NEW em, Ready(em), NEW r, r = LowerLoadRangeAssignment(em, range, rhs)
  PROVE  Performs(em, r)
<1> DEFINE one == LowerLoad(em, range.value, None)
<1>1. r = IF Failed(one.em) THEN one
          ELSE IF ~RangeKnown(range) THEN Err(one.em, "UnresolvedRangeParameter")
          ELSE WriteBack(one.em, one.v, range, rhs)
  BY DEF LowerLoadRangeAssignment, Then
<1>2. range.value \in Expressions /\ range.value.ptr \in Expressions
  BY PartsNestLess
<1>3. Lowers(em, one, None)
  BY <1>2, LoadLowers DEF MayWrite
<1> HIDE DEF one
<1>4. ASSUME ~Failed(one.em) PROVE Performs(one.em, r)
  <2>1. Ready(one.em) /\ IsValue(one.em, one.v)
    BY <1>3, <1>4, LoweredValue
  <2>2. CASE ~RangeKnown(range)
    BY <1>1, <1>4, <2>1, <2>2, ErrorNames, ErrLowers DEF Performs
  <2>3. CASE RangeKnown(range)
    BY <1>1, <1>2, <1>4, <2>1, <2>3, KnownRange, WriteBackPerforms
  <2> QED
    BY <2>2, <2>3
<1> QED
  BY <1>1, <1>3, <1>4, PerformsThen

\* `lower_range_assignment`.
LEMMA RangeAssignmentComputes ==
  ASSUME NEW range \in Expressions, range.kind = "Range",
         \A e \in Expressions : Sound(e), NEW rhs \in Expressions,
         NEW em, Ready(em), NEW r, r = LowerRangeAssignment(em, range, rhs)
  PROVE  Assigns(em, r) \/ Performs(em, r)
<1>1. CASE range.value.kind = "Load"
  BY <1>1, LoadRangePerforms DEF LowerRangeAssignment
<1>2. CASE range.value.kind \notin {"Load", "Ident"}
  <2>1. r = Err(em, "Unsupported")
    BY <1>2 DEF LowerRangeAssignment
  <2> QED
    BY <2>1, ErrorNames, ErrLowers DEF Performs
<1>3. CASE range.value.kind = "Ident"
  <2> DEFINE one == StorageForIdent(em, range.value.ident, range.value.size)
  <2>1. r = IF Failed(one.em) THEN one
            ELSE IF ~RangeKnown(range) THEN Err(one.em, "UnresolvedRangeParameter")
            ELSE InsertRange(one.em, one.v, range.start, range.bits, rhs)
    BY <1>3 DEF LowerRangeAssignment, Then
  <2>2. IsIdent(range.value.ident) /\ range.value.size \in Count
    BY <1>3, PartsNestLess, ExpressionsAssumption DEF IsExpression
  <2>3. Lowers(em, one, None)
    BY <2>2, StorageLowers
  <2>4. ~Failed(one.em) => Ready(one.em) /\ Cell(one.em, one.v) /\ one.em.events = em.events
    BY <2>2, CellOfIdent
  <2> HIDE DEF one
  <2>5. ASSUME ~Failed(one.em)
        PROVE  \E out : Settled(one.em, out) /\ Lowers(one.em, r, out)
    <3>1. CASE ~RangeKnown(range)
      BY <2>1, <2>4, <2>5, <3>1, ErrorNames, ErrLowers DEF Cell
    <3>2. CASE RangeKnown(range)
      BY <2>1, <2>4, <2>5, <3>2, KnownRange, InsertLowers
    <3> QED
      BY <3>1, <3>2
  <2> QED
    BY <2>1, <2>3, <2>4, <2>5, AssignsThen
<1> QED
  BY <1>1, <1>2, <1>3

\* `lower_store`.
LEMMA StoredValueLowers ==
  ASSUME NEW e, Sound(e), NEW bytes \in Count, NEW em, Ready(em),
         NEW r, r = LowerStoredValue(em, e, bytes)
  PROVE  Lowers(em, r, None)
<1> DEFINE one == LowerOperand(em, e, bytes)
           error == StoreSizeError(bytes, one.v)
<1>1. r = IF Failed(one.em) THEN one
          ELSE IF Failed(Check(one.em, error).em) THEN Check(one.em, error)
          ELSE Ok(Check(one.em, error).em, one.v)
  BY DEF LowerStoredValue, Then
<1>2. Lowers(em, one, None)
  BY OperandLowers
<1>3. error # "ok" => error \in ExprErrors
  BY ErrorNames DEF StoreSizeError
<1> HIDE DEF one, error
<1>4. ASSUME ~Failed(one.em) PROVE Lowers(one.em, r, None)
  <2>1. Ready(one.em) /\ IsValue(one.em, one.v)
    BY <1>2, <1>4, LoweredValue
  <2>2. CASE error # "ok"
    <3>1. Check(one.em, error) = Err(one.em, error)
      BY <2>2 DEF Check
    <3> QED
      BY <1>1, <1>3, <1>4, <2>1, <2>2, <3>1, ErrLowers
  <2>3. CASE error = "ok"
    <3>1. Check(one.em, error).em = one.em
      BY <2>3 DEF Check, Ok
    <3> QED
      BY <1>1, <1>4, <2>1, <3>1, ValueLowers
  <2> QED
    BY <2>2, <2>3
<1> QED
  BY <1>1, <1>2, <1>4, LowersThen DEF MayWrite

\* `lower_store`.
LEMMA StorePerformed ==
  ASSUME NEW st, IsStatement(st), st.kind = "LoadAssignment",
         \A e \in Expressions : Sound(e), NEW em, Ready(em),
         NEW r, r = LowerStore(em, st)
  PROVE  Performs(em, r)
<1> DEFINE space == LoadSpace(st.load)
           one == LowerPointer(em, space, st.load.ptr)
           two == LowerStoredValue(one.em, st.rhs, st.load.bytes)
           last == Ok(Emit(two.em, "Store", None, <<SpaceId(space), one.v, two.v>>), None)
<1>1. CASE space = None \/ space = ConstSpace
  <2>1. \E error \in {"UnresolvedSpace", "Unsupported"} : r = Err(em, error)
    BY <1>1 DEF LowerStore
  <2> QED
    BY <2>1, ErrorNames, ErrLowers DEF Performs
<1>2. CASE ~(space = None \/ space = ConstSpace)
  <2>1. r = IF Failed(one.em) THEN one
            ELSE IF Failed(two.em) THEN two ELSE last
    BY <1>2 DEF LowerStore, Then
  <2>2. st.load \in Expressions /\ st.load.kind = "Load" /\ st.rhs \in Expressions
    BY DEF IsStatement
  <2>3. st.load.bytes \in Count /\ st.load.ptr \in Expressions
    BY <2>2, PartsNestLess, ExpressionsAssumption DEF IsExpression
  <2> HIDE DEF space
  <2>4. /\ Lowers(em, one, None)
        /\ ~Failed(one.em) => AddressSize(space) # None /\ one.v.size = AddressSize(space)
    BY <2>3, PointerLowers
  <2> HIDE DEF one
  <2>5. ~Failed(one.em) => Ready(one.em) /\ IsValue(one.em, one.v)
    BY <2>4, LoweredValue
  <2>6. ~Failed(one.em) => Lowers(one.em, two, None)
    BY <2>2, <2>3, <2>5, StoredValueLowers
  <2> HIDE DEF two
  <2>7. ASSUME ~Failed(one.em), ~Failed(two.em) PROVE Performs(two.em, last)
    <3>1. Ready(two.em) /\ IsValue(two.em, one.v) /\ IsValue(two.em, two.v)
      BY <2>5, <2>6, <2>7, LoweredValue
    <3> QED
      BY <2>4, <2>7, <3>1, StorePerforms
  <2> HIDE DEF last
  <2>8. ASSUME ~Failed(one.em) PROVE Performs(one.em, r)
    <3>1. IF Failed(two.em) THEN r = two ELSE Performs(two.em, r)
      BY <2>1, <2>7, <2>8
    <3> QED
      BY <2>5, <2>6, <2>8, <3>1, PerformsThen
  <2>9. IF Failed(one.em) THEN r = one ELSE Performs(one.em, r)
    BY <2>1, <2>8
  <2> QED
    BY <2>4, <2>9, PerformsThen
<1> QED
  BY <1>1, <1>2

\* `lower_indirect_flow`.
LEMMA IndirectPerforms ==
  ASSUME NEW em, Ready(em), NEW opcode \in {"BranchInd", "CallInd", "Return"},
         NEW e, Sound(e), NEW r, r = LowerIndirectFlow(em, opcode, e)
  PROVE  Performs(em, r)
<1> DEFINE one == LowerExpr(em, e, None)
           last == EmitTo(one.em, opcode, None, <<one.v>>)
<1>1. r = IF Failed(one.em) THEN one ELSE last
  BY DEF LowerIndirectFlow, Then
<1>2. Lowers(em, one, None)
  BY SoundValue
<1> HIDE DEF one
<1>3. opcode \in RawOpcodes /\ opcode \notin Range(DirectOpcode)
  BY DEF RawOpcodes, Opcodes, PseudoOpcodes, DirectOpcode, Range
<1>4. \A o : o.opcode = opcode => WellTyped(o)
  BY AnyWidths
<1>5. ASSUME ~Failed(one.em) PROVE Performs(one.em, last)
  <2>1. Ready(one.em) /\ \A v \in Range(<<one.v>>) : IsValue(one.em, v)
    BY <1>2, <1>5, LoweredValue, UnarySequence
  <2>2. \E o : /\ Ends(one.em, last, o)
               /\ o = [event |-> "op", opcode |-> opcode, output |-> None,
                       inputs |-> <<one.v>>]
    BY <1>3, <1>4, <2>1, EffectEnds
  <2> QED
    BY <1>3, <2>2 DEF Performs
<1> HIDE DEF last
<1> QED
  BY <1>1, <1>2, <1>5, PerformsThen

\* `lower_effect`.
LEMMA EffectPerforms ==
  ASSUME NEW em, Ready(em), NEW e \in Expressions, \A f \in Expressions : Sound(f),
         NEW r, r = LowerEffect(em, e)
  PROVE  Performs(em, r)
<1>1. CASE e.kind # "PcodeOp"
  <2>1. \E error \in {"InternalNode", "Unsupported"} : r = Err(em, error)
    BY <1>1 DEF LowerEffect
  <2> QED
    BY <2>1, ErrorNames, ErrLowers DEF Performs
<1>2. CASE e.kind = "PcodeOp"
  <2> DEFINE one == LowerUseropInputs(em, e)
             last == EmitTo(one.em, "CallOther", None, one.v)
  <2>1. r = IF Failed(one.em) THEN one ELSE last
    BY <1>2 DEF LowerEffect, Then
  <2>2. LowersAll(em, one)
    <3>1. \A n \in DOMAIN e.args : Sound(e.args[n])
      BY <1>2, PartsNestLess
    <3> QED
      BY <1>2, <3>1, UseropInputsLower
  <2> HIDE DEF one
  <2>3. CASE Failed(one.em)
    BY <2>1, <2>2, <2>3 DEF Performs, Lowers, LowersAll
  <2>4. CASE ~Failed(one.em)
    <3>1. Ready(one.em) /\ Computes(em, one.em, None)
      BY <2>2, <2>4, StillReady DEF LowersAll, Failed
    <3>2. \A v \in Range(one.v) : IsValue(one.em, v)
      BY <2>2, <2>4 DEF LowersAll, Range
    <3>3. "CallOther" \in RawOpcodes /\ "CallOther" \notin Range(DirectOpcode)
      BY DEF RawOpcodes, Opcodes, PseudoOpcodes, DirectOpcode, Range
    <3>4. \A o : o.opcode = "CallOther" => WellTyped(o)
      BY AnyWidths DEF ContextSized, Builtins
    <3>5. PICK o : /\ Ends(one.em, last, o)
                   /\ o = [event |-> "op", opcode |-> "CallOther", output |-> None,
                           inputs |-> one.v]
      BY <3>1, <3>2, <3>3, <3>4, EffectEnds
    <3>6. PICK before : /\ Ready(before) /\ Computes(one.em, before, None)
                        /\ Ending(before, o) /\ last.em = Report(before, o)
      BY <3>5 DEF Ends
    <3>7. Computes(em, before, None)
      BY <3>1, <3>6, ComputesThen DEF Ready, MayWrite
    <3> HIDE DEF last
    <3>8. Ends(em, last, o)
      BY <3>6, <3>7 DEF Ends
    <3>9. o.event = "op" /\ o.opcode = "CallOther"
      BY <3>5
    <3> QED
      BY <2>1, <2>4, <3>3, <3>8, <3>9 DEF Performs
  <2> QED
    BY <2>3, <2>4
<1> QED
  BY <1>1, <1>2

----------------------------------------------------------------------------
(* Direct flow.                                                            *)

\* A branch or call, as it was planned: it ends with its flow, or fails.
Flows(em, planned, r) ==
    \/ \E e : Ends(em, r, e) /\ FlowEvent(planned, e)
    \/ /\ Failed(r.em) /\ Computes(em, r.em, None)
       /\ r.em.err \in {"UnknownLabel"} \cup ExprErrors
       /\ r.em.err = "UnknownLabel" => Dangles(planned)

\* An error changes nothing else.
LEMMA ErrKeeps ==
  ASSUME NEW em, Ready(em), NEW error
  PROVE  Computes(em, [em EXCEPT !.err = error], None)
<1> DEFINE after == [em EXCEPT !.err = error]
<1>1. /\ DOMAIN after = DOMAIN em
      /\ after.labels = em.labels /\ after.sizes = em.sizes /\ after.locals = em.locals
      /\ after.defined = em.defined /\ after.next = em.next /\ after.events = em.events
  BY DEF Ready, IsEmitter
<1> HIDE DEF after
<1>2. IsEmitter(after)
  BY <1>1 DEF Ready, IsEmitter
<1>3. StorageGrew(em, after)
  BY <1>1, PointerGrows DEF Ready, IsEmitter
<1>4. Len(em.events) \in Nat /\ NewEvents(em, after) = {} /\ NewHomes(em, after) = {}
  BY <1>1, EventsList DEF Ready, NewEvents, NewHomes, Placed
<1>5. Computes(em, after, None)
  BY <1>1, <1>2, <1>3, <1>4 DEF Computes, Keeps
<1> QED
  BY <1>5 DEF after

\* A flow statement may fail at its operands,
LEMMA RefusedFlows ==
  ASSUME NEW em, NEW planned, NEW r, Lowers(em, r, None), Failed(r.em)
  PROVE  Flows(em, planned, r)
<1>1. "UnknownLabel" \notin ExprErrors
  BY DEF ExprErrors
<1> QED
  BY <1>1 DEF Flows, Lowers, Failed

\* or flow after them.
LEMMA FlowsThen ==
  ASSUME NEW em, Ready(em), NEW one, Lowers(em, one, None), NEW r, NEW planned,
         IF Failed(one.em) THEN r = one ELSE Flows(one.em, planned, r)
  PROVE  Flows(em, planned, r)
<1>1. CASE Failed(one.em)
  BY <1>1, RefusedFlows
<1>2. CASE ~Failed(one.em) /\ \E e : Ends(one.em, r, e) /\ FlowEvent(planned, e)
  BY <1>2, EndsThen DEF Flows
<1>3. CASE ~Failed(one.em) /\ ~ \E e : Ends(one.em, r, e) /\ FlowEvent(planned, e)
  <2>1. Computes(em, r.em, None)
    BY <1>3, ComputesThen DEF Flows, Lowers, Ready, MayWrite
  <2> QED
    BY <1>3, <2>1 DEF Flows
<1> QED
  BY <1>1, <1>2, <1>3

\* `lower_direct_flow`.
LEMMA DirectFlows ==
  ASSUME NEW em, Ready(em), em.labels = labels, NEW kind \in Plan!FlowKind,
         NEW target, IsTarget(target), NEW condition, IsList(condition),
         \A v \in Range(condition) : IsValue(em, v),
         NEW planned, planned = [kind |-> kind, target |-> PlannedTarget(target)],
         NEW r, r = LowerDirectFlow(em, DirectOpcode[kind], target, condition)
  PROVE  Flows(em, planned, r)
<1> DEFINE opcode == DirectOpcode[kind]
<1>1. opcode \in {"Branch", "CBranch", "Call"} /\ opcode \in RawOpcodes
  BY DirectOpcodes DEF Plan!FlowKind, RawOpcodes, Opcodes, PseudoOpcodes
<1> HIDE DEF opcode
<1>2. planned.kind = kind /\ planned.target = PlannedTarget(target)
  OBVIOUS
<1>3. CASE target.form = "Label"
  <2>1. planned.target = target
    BY <1>2, <1>3 DEF PlannedTarget
  <2>2. CASE target.name \in Range(labels)
    <3> DEFINE e == Flat!BranchEvent(opcode, target.name, condition)
    <3>1. r = Ok(Report(em, e), None)
      BY <1>3, <2>2 DEF LowerDirectFlow, LabelDefined, Flat!BranchEvent, opcode
    <3>2. e.event = "branch" /\ e.opcode = opcode /\ e.condition = condition
      BY DEF Flat!BranchEvent
    <3>3. FlowEvent(planned, e)
      BY <1>2, <1>3, <2>1, <2>2, <3>2 DEF FlowEvent, opcode
    <3> HIDE DEF e
    <3>4. Ending(em, e)
      BY <3>2 DEF Ending, ReadBy
    <3>5. r.em = Report(em, e)
      BY <3>1 DEF Ok
    <3> QED
      BY <3>3, <3>4, <3>5, EndsNow DEF Flows
  <2>3. CASE target.name \notin Range(labels)
    <3>1. r = Err(em, "UnknownLabel")
      BY <1>3, <2>3 DEF LowerDirectFlow, LabelDefined
    <3>2. Dangles(planned)
      BY <1>2, <1>3, <2>1, <2>3 DEF Dangles
    <3>3. Failed(r.em) /\ Computes(em, r.em, None) /\ r.em.err = "UnknownLabel"
      <4>1. DOMAIN r.em = DOMAIN em /\ r.em = [em EXCEPT !.err = "UnknownLabel"]
        BY <3>1 DEF Err
      <4>2. Computes(em, r.em, None)
        BY <4>1, ErrKeeps
      <4> QED
        BY <4>1, <4>2 DEF Failed, Ready, IsEmitter
    <3> QED
      BY <3>2, <3>3 DEF Flows
  <2> QED
    BY <2>2, <2>3
<1>4. CASE target.form = "Node"
  <2>1. r = Err(em, "InternalNode")
    BY <1>4 DEF LowerDirectFlow
  <2> QED
    BY <2>1, ErrorNames, ErrLowers, RefusedFlows
<1>5. CASE target.form = "Expr"
  <2> DEFINE one == DirectTarget(em, target.expr)
             inputs == <<one.v>> \o condition
             last == EmitTo(one.em, opcode, None, inputs)
  <2>1. r = IF Failed(one.em) THEN one ELSE last
    BY <1>5 DEF LowerDirectFlow, Then, opcode
  <2>2. target.expr \in Expressions
    BY <1>5 DEF IsTarget
  <2>3. CASE \E error \in {"InvalidDirectTarget", "UnknownSize", "ZeroSize"} : one = Err(em, error)
    <3>1. Lowers(em, one, None) /\ Failed(one.em)
      BY <2>3, ErrorNames, ErrLowers
    <3> HIDE DEF one
    <3> QED
      BY <2>1, <3>1, RefusedFlows
  <2> DEFINE size == OrElse(target.expr.literal,
                            OrElse(target.expr.size, AddressSize(DefaultSpace)))
  <2>4. CASE /\ target.expr.kind = "SizedInt" /\ size # None
             /\ one = Ok(em, Varnode(DefaultSpace, target.expr.value, size))
    <3>1. size \in Nat
      <4>1. AddressSize(DefaultSpace) \in Count
        BY ContextAssumption DEF AddressSize, Count
      <4>2. target.expr.literal \in Count /\ target.expr.size \in Count
        BY <2>2, <2>4, ExpressionsAssumption DEF IsExpression
      <4>3. size \in Count
        BY <4>1, <4>2, EitherCount
      <4> QED
        BY <2>4, <4>3 DEF Count
    <3> HIDE DEF size
    <3>2. /\ one.em = em /\ ~Failed(one.em)
          /\ one.v.offset = target.expr.value /\ IsValue(em, one.v)
      BY <2>4, <3>1, ContextAssumption
         DEF Ok, Failed, Ready, Varnode, IsValue, Readable, InUnique
    <3>3. /\ IsList(inputs) /\ DOMAIN inputs = 1 .. 1 + Len(condition)
          /\ Len(condition) \in Nat /\ inputs[1] = one.v
          /\ \A k \in 1 .. Len(condition) : inputs[1 + k] = condition[k]
      BY ListPrepended
    <3>4. DOMAIN condition = 1 .. Len(condition)
      BY DEF IsList
    <3> HIDE DEF one, inputs
    <3>5. ASSUME NEW k \in DOMAIN inputs PROVE IsValue(em, inputs[k])
      <4>1. CASE k = 1
        BY <3>2, <3>3, <4>1
      <4>2. CASE k # 1
        <5>1. k - 1 \in 1 .. Len(condition) /\ k = 1 + (k - 1)
          BY <3>3, <4>2
        <5>2. inputs[k] = condition[k - 1]
          BY <3>3, <5>1
        <5> QED
          BY <3>4, <5>1, <5>2 DEF Range
      <4> QED
        BY <4>1, <4>2
    <3>6. \A v \in Range(inputs) : IsValue(em, v)
      BY <3>5 DEF Range
    <3>7. \A o : o.opcode = opcode => WellTyped(o)
      <4>1. Range(DirectOpcode) = {"Branch", "CBranch", "Call"}
        BY DEF DirectOpcode, Range
      <4> QED
        BY <1>1, <4>1, AnyWidths
    <3>8. PICK e : /\ Ends(em, EmitTo(em, opcode, None, inputs), e)
                   /\ e = [event |-> "op", opcode |-> opcode, output |-> None,
                           inputs |-> inputs]
      BY <1>1, <3>6, <3>7, EffectEnds
    <3>9. e.opcode = opcode /\ e.inputs = inputs /\ e = Flat!OpEvent(opcode, None, inputs)
      BY <3>8 DEF Flat!OpEvent
    <3>10. planned.target = [form |-> "Literal", value |-> target.expr.value]
      BY <1>2, <1>5, <2>4 DEF PlannedTarget
    <3>11. FlowEvent(planned, e)
      BY <1>2, <3>2, <3>3, <3>9, <3>10 DEF FlowEvent, opcode
    <3>12. r = EmitTo(em, opcode, None, inputs)
      BY <2>1, <3>2
    <3> QED
      BY <3>8, <3>11, <3>12 DEF Flows
  <2>5. \/ \E error \in {"InvalidDirectTarget", "UnknownSize", "ZeroSize"} : one = Err(em, error)
        \/ /\ target.expr.kind = "SizedInt" /\ size # None
           /\ one = Ok(em, Varnode(DefaultSpace, target.expr.value, size))
    BY DEF DirectTarget
  <2> HIDE DEF one, size
  <2> QED
    BY <2>3, <2>4, <2>5
<1> QED
  BY <1>3, <1>4, <1>5 DEF IsTarget

\* A conditional branch evaluates its condition first.
LEMMA ConditionalFlows ==
  ASSUME NEW em, Ready(em), em.labels = labels, NEW st, IsStatement(st),
         st.kind = "ConditionalBranch", \A e \in Expressions : Sound(e),
         NEW r, r = LowerConditionalBranch(em, st)
  PROVE  Flows(em, PlannedStatement(st), r)
<1> DEFINE one == LowerExpr(em, st.condition, None)
<1>1. r = IF Failed(one.em) THEN one
          ELSE LowerDirectFlow(one.em, "CBranch", st.target, <<one.v>>)
  BY DEF LowerConditionalBranch, Then
<1>2. Lowers(em, one, None) /\ IsTarget(st.target)
  BY SoundValue DEF IsStatement
<1>3. PlannedStatement(st) = [kind |-> "ConditionalBranch", target |-> PlannedTarget(st.target)]
  BY DEF PlannedStatement, Plan!FlowKind
<1> HIDE DEF one
<1>4. ASSUME ~Failed(one.em) PROVE Flows(one.em, PlannedStatement(st), r)
  <2>1. Ready(one.em) /\ IsValue(one.em, one.v) /\ one.em.labels = labels
    BY <1>2, <1>4, LoweredValue DEF Lowers, Computes, Keeps
  <2>2. IsList(<<one.v>>) /\ \A v \in Range(<<one.v>>) : IsValue(one.em, v)
    <3> DEFINE only == <<one.v>>
    <3>1. only \in Seq({one.v})
      OBVIOUS
    <3>2. Range(only) = {one.v}
      BY UnarySequence
    <3> HIDE DEF only
    <3>3. IsList(only)
      BY <3>1, ListOf
    <3>4. IsList(only) /\ \A v \in Range(only) : IsValue(one.em, v)
      BY <2>1, <3>2, <3>3
    <3> QED
      BY <3>4 DEF only
  <2>3. "ConditionalBranch" \in Plan!FlowKind /\ DirectOpcode["ConditionalBranch"] = "CBranch"
    BY DirectOpcodes DEF Plan!FlowKind
  <2> QED
    BY <1>1, <1>2, <1>3, <1>4, <2>1, <2>2, <2>3, DirectFlows
<1> QED
  BY <1>1, <1>2, <1>4, FlowsThen

----------------------------------------------------------------------------
(* Any statement.                                                          *)

\* What lowering `st` does: a label's event, a computation and its flow, or a
\* computation that may write storage in the end.
StatementDoes(em, st, r) ==
    \/ st.kind = "Label" /\ r = LowerLabel(em, st.name)
    \/ st.kind \in Plan!FlowKind /\ Flows(em, PlannedStatement(st), r)
    \/ /\ st.kind \notin {"Label"} \cup Plan!FlowKind
       /\ Assigns(em, r) \/ Performs(em, r)

\* `lower_statement`.
LEMMA StatementLowers ==
  ASSUME SizeRecurs, \A e \in Expressions : Sound(e), NEW em, Ready(em),
         em.labels = labels, NEW st, IsStatement(st)
  PROVE  StatementDoes(em, st, LowerStatement(em, st))
<1> DEFINE r == LowerStatement(em, st)
<1>1. CASE st.kind = "Label"
  BY <1>1 DEF LowerStatement, StatementDoes
<1>2. CASE st.kind = "Assignment"
  <2>1. r = LowerAssignment(em, st)
    BY <1>2 DEF LowerStatement
  <2>2. Sound(st.rhs)
    BY <1>2 DEF IsStatement
  <2>3. Assigns(em, r)
    BY <1>2, <2>1, <2>2, AssignmentComputes
  <2> QED
    BY <1>2, <2>3 DEF StatementDoes, Plan!FlowKind
<1>3. CASE st.kind = "LoadAssignment"
  <2>1. r = LowerStore(em, st)
    BY <1>3 DEF LowerStatement
  <2>2. Performs(em, r)
    BY <1>3, <2>1, StorePerformed
  <2> QED
    BY <1>3, <2>2 DEF StatementDoes, Plan!FlowKind
<1>4. CASE st.kind = "RangeAssignment"
  <2>1. r = LowerRangeAssignment(em, st.range, st.rhs)
    BY <1>4 DEF LowerStatement
  <2>2. st.range \in Expressions /\ st.range.kind = "Range" /\ st.rhs \in Expressions
    BY <1>4 DEF IsStatement
  <2>3. Assigns(em, r) \/ Performs(em, r)
    BY <2>1, <2>2, RangeAssignmentComputes
  <2> QED
    BY <1>4, <2>3 DEF StatementDoes, Plan!FlowKind
<1>5. CASE st.kind \in {"Branch", "Call"}
  <2> DEFINE nothing == <<>>
  <2>1. r = LowerDirectFlow(em, DirectOpcode[st.kind], st.target, nothing)
    BY <1>5, DirectOpcodes DEF LowerStatement
  <2>2. IsTarget(st.target) /\ st.kind \in Plan!FlowKind
    BY <1>5 DEF IsStatement, Plan!FlowKind
  <2>3. PlannedStatement(st) = [kind |-> st.kind, target |-> PlannedTarget(st.target)]
    BY <1>5, <2>2 DEF PlannedStatement
  <2>4. IsList(nothing) /\ \A v \in Range(nothing) : IsValue(em, v)
    BY DEF IsList, Range
  <2> HIDE DEF nothing
  <2>5. Flows(em, PlannedStatement(st), r)
    BY <2>1, <2>2, <2>3, <2>4, DirectFlows
  <2> QED
    BY <2>2, <2>5 DEF StatementDoes
<1>6. CASE st.kind = "ConditionalBranch"
  <2>1. r = LowerConditionalBranch(em, st)
    BY <1>6 DEF LowerStatement
  <2>2. Flows(em, PlannedStatement(st), r)
    BY <1>6, <2>1, ConditionalFlows
  <2> QED
    BY <1>6, <2>2 DEF StatementDoes, Plan!FlowKind
<1>7. CASE st.kind \in {"BranchIndirect", "CallIndirect", "Return"}
  <2>1. \E opcode \in {"BranchInd", "CallInd", "Return"} :
           r = LowerIndirectFlow(em, opcode, st.target)
    BY <1>7 DEF LowerStatement
  <2>2. Sound(st.target)
    BY <1>7 DEF IsStatement
  <2>3. Performs(em, r)
    BY <2>1, <2>2, IndirectPerforms
  <2> QED
    BY <1>7, <2>3 DEF StatementDoes, Plan!FlowKind
<1>8. CASE st.kind = "Expression"
  <2>1. r = LowerEffect(em, st.expr)
    BY <1>8 DEF LowerStatement
  <2>2. st.expr \in Expressions
    BY <1>8 DEF IsStatement
  <2>3. Performs(em, r)
    BY <2>1, <2>2, EffectPerforms
  <2> QED
    BY <1>8, <2>3 DEF StatementDoes, Plan!FlowKind
<1>9. CASE st.kind \in {"Internal", "Export"}
  <2>1. r = Err(em, "InternalNode")
    BY <1>9 DEF LowerStatement
  <2>2. Performs(em, r)
    BY <2>1, ErrorNames, ErrLowers DEF Performs
  <2> QED
    BY <1>9, <2>2 DEF StatementDoes, Plan!FlowKind
<1> QED
  BY <1>1, <1>2, <1>3, <1>4, <1>5, <1>6, <1>7, <1>8, <1>9 DEF IsStatement

----------------------------------------------------------------------------
(* What a statement leaves behind, for an emitter without events.          *)

\* An event that lowering may report.
IsEvent(e) ==
    e.event = "op" =>
       /\ e.opcode \in RawOpcodes
       /\ WellTyped(e)
       /\ e.output # None => e.output.size > 0

\* The n-th event computes into bytes that nothing else has.
TakesBytes(em, after, n) ==
    LET e == after.events[n]
    IN  /\ e.event = "op" /\ e.opcode # "Store" /\ e.output # None
        /\ e.output \in Home /\ em.next <= e.output.offset /\ End(e.output) <= after.next
        /\ \A id \in NewHomes(em, after) : Apart(e.output, Placed(after)[id])
        /\ \A m \in DOMAIN after.events \ {n} :
              InUnique(WrittenBy(after.events[m])) =>
                 Apart(e.output, WrittenBy(after.events[m]))

\* Only the last event of a statement writes a register, a local or memory.
WellEmitted(em, after) ==
    /\ IsEmitter(after) /\ after.labels = em.labels /\ after.sizes = em.sizes
    /\ StorageGrew(em, after)
    /\ \A id \in NewHomes(em, after) :
          em.sizes[id] # None => Placed(after)[id].size = em.sizes[id]
    /\ \A n \in DOMAIN after.events :
          LET e == after.events[n]
          IN  /\ IsEvent(e)
              /\ \/ TakesBytes(em, after, n)
                 \/ n = Len(after.events) /\ Settled(after, WrittenBy(e))
              /\ \A v \in ReadBy(e) : Readable(after, n - 1, v)

\* A statement that computes into settled storage is well emitted,
LEMMA ComputedWell ==
  ASSUME NEW em, IsEmitter(em), Len(em.events) = 0,
         NEW after, NEW out, Computes(em, after, out), Settled(after, out)
  PROVE  WellEmitted(em, after)
<1>1. Keeps(em, after) /\ IsEmitter(after)
  BY DEF Computes, Keeps
<1>2. DOMAIN after.events = 1 .. Len(after.events) /\ Len(after.events) \in Nat
  BY <1>1, EventsList
<1>3. NewEvents(em, after) = DOMAIN after.events
  BY <1>2 DEF NewEvents
<1>4. ASSUME NEW n \in DOMAIN after.events
      PROVE  /\ after.events[n].event = "op" /\ after.events[n].opcode # "Store"
             /\ after.events[n].output # None
             /\ WrittenBy(after.events[n]) = after.events[n].output
             /\ ReadBy(after.events[n]) = Range(after.events[n].inputs)
             /\ IsEvent(after.events[n])
  <2>1. Fits(after.events[n])
    BY <1>3 DEF Computes
  <2> QED
    BY <2>1 DEF Fits, ValueOpcodes, IsEvent, WrittenBy, ReadBy
<1>5. ASSUME NEW n \in DOMAIN after.events
      PROVE  \/ TakesBytes(em, after, n)
             \/ n = Len(after.events) /\ Settled(after, WrittenBy(after.events[n]))
  <2>1. CASE Scratch(em, after, n)
    BY <1>3, <1>4, <2>1 DEF Scratch, TakesBytes
  <2>2. CASE n = Len(after.events) /\ after.events[n].output = out
    BY <1>4, <2>2
  <2> QED
    BY <1>3, <2>1, <2>2 DEF Computes
<1>6. \A n \in DOMAIN after.events :
         \A v \in ReadBy(after.events[n]) : Readable(after, n - 1, v)
  BY <1>3, <1>4 DEF Computes
<1> QED
  BY <1>1, <1>4, <1>5, <1>6 DEF WellEmitted, Keeps

\* and so is one that computes and ends with an event of its own,
LEMMA EndedWell ==
  ASSUME NEW em, IsEmitter(em), Len(em.events) = 0, NEW r, NEW e, Ends(em, r, e)
  PROVE  WellEmitted(em, r.em)
<1>1. PICK before : /\ Ready(before) /\ Computes(em, before, None)
                    /\ Ending(before, e) /\ r.em = Report(before, e)
  BY DEF Ends
<1> DEFINE after == r.em
           last == Len(before.events) + 1
<1>2. WellEmitted(em, before)
  BY <1>1, ComputedWell DEF Settled, InUnique
<1>3. /\ DOMAIN after = DOMAIN before /\ after.err = "ok"
      /\ after.labels = before.labels /\ after.sizes = before.sizes
      /\ after.locals = before.locals /\ after.defined = before.defined
      /\ after.next = before.next /\ after.events = Append(before.events, e)
  BY <1>1 DEF Report, Ready, IsEmitter
<1> HIDE DEF after
<1>4. /\ IsList(after.events) /\ Len(before.events) \in Nat
      /\ Len(after.events) = last /\ DOMAIN after.events = 1 .. last
      /\ \A n \in 1 .. Len(before.events) : after.events[n] = before.events[n]
      /\ after.events[last] = e
      /\ DOMAIN before.events = 1 .. Len(before.events)
  BY <1>1, <1>3, ListAppended, EventsList DEF Ready, IsEmitter
<1>5. IsEmitter(after)
  BY <1>1, <1>3, <1>4 DEF Ready, IsEmitter
<1>6. Placed(after) = Placed(before) /\ NewHomes(em, after) = NewHomes(em, before)
  BY <1>3 DEF Placed, NewHomes
<1>7. StorageGrew(em, after)
  BY <1>2, <1>3, <1>6 DEF WellEmitted, StorageGrew
<1>8. WrittenBy(e) = None /\ IsEvent(e)
  BY <1>1 DEF Ending, WrittenBy, IsEvent
<1>9. ASSUME NEW v, NEW n \in Nat, Readable(before, n, v) PROVE Readable(after, n, v)
  BY <1>4, <1>6, <1>9 DEF Readable, Written
<1>10. ASSUME NEW n \in 1 .. Len(before.events)
       PROVE  /\ IsEvent(after.events[n])
              /\ TakesBytes(em, after, n)
              /\ \A v \in ReadBy(after.events[n]) : Readable(after, n - 1, v)
  <2>1. after.events[n] = before.events[n] /\ n \in DOMAIN before.events /\ n - 1 \in Nat
    BY <1>4
  <2>2. TakesBytes(em, before, n)
    <3>1. NewEvents(em, before) = DOMAIN before.events
      BY <1>4 DEF NewEvents
    <3>2. Fits(before.events[n]) /\ Scratch(em, before, n)
      BY <1>1, <2>1, <3>1 DEF Computes
    <3>3. \A m \in DOMAIN before.events : WrittenBy(before.events[m]) = before.events[m].output
      BY <1>1, <3>1 DEF Computes, Fits, WrittenBy
    <3> QED
      BY <3>1, <3>2, <3>3 DEF TakesBytes, Scratch, Fits, ValueOpcodes
  <2>3. TakesBytes(em, after, n)
    <3>1. \A m \in DOMAIN after.events : InUnique(WrittenBy(after.events[m])) =>
             m \in DOMAIN before.events /\ after.events[m] = before.events[m]
      BY <1>4, <1>8 DEF InUnique
    <3> QED
      BY <1>3, <1>6, <2>1, <2>2, <3>1 DEF TakesBytes
  <2>4. IsEvent(after.events[n]) /\ \A v \in ReadBy(after.events[n]) : Readable(before, n - 1, v)
    BY <1>2, <2>1 DEF WellEmitted
  <2> QED
    BY <1>9, <2>1, <2>3, <2>4
<1>11. \A v \in ReadBy(e) : Readable(after, last - 1, v)
  BY <1>1, <1>4, <1>9 DEF Ending, IsValue
<1>12. Settled(after, WrittenBy(e))
  BY <1>8 DEF Settled, InUnique
<1>13. \A n \in DOMAIN after.events :
          /\ IsEvent(after.events[n])
          /\ \/ TakesBytes(em, after, n)
             \/ n = Len(after.events) /\ Settled(after, WrittenBy(after.events[n]))
          /\ \A v \in ReadBy(after.events[n]) : Readable(after, n - 1, v)
  <2> SUFFICES ASSUME NEW n \in DOMAIN after.events
               PROVE  /\ IsEvent(after.events[n])
                      /\ \/ TakesBytes(em, after, n)
                         \/ n = Len(after.events) /\ Settled(after, WrittenBy(after.events[n]))
                      /\ \A v \in ReadBy(after.events[n]) : Readable(after, n - 1, v)
    OBVIOUS
  <2>1. n \in 1 .. Len(before.events) \/ n = last
    BY <1>4
  <2>2. CASE n \in 1 .. Len(before.events)
    BY <1>10, <2>2
  <2>3. CASE n = last
    BY <1>4, <1>8, <1>11, <1>12, <2>3
  <2> QED
    BY <2>1, <2>2, <2>3
<1> QED
  BY <1>2, <1>3, <1>5, <1>6, <1>7, <1>13 DEF WellEmitted, after

\* `lower_statement`, for a label: the first of its name is reported.
LEMMA LabelReports ==
  ASSUME NEW em, Ready(em), em.events = <<>>, NEW name, NEW r, r = LowerLabel(em, name)
  PROVE  /\ DOMAIN r.em = DOMAIN em
         /\ r.em.labels = em.labels /\ r.em.sizes = em.sizes
         /\ r.em.locals = em.locals /\ r.em.next = em.next
         /\ \/ /\ name \in Range(em.labels) \ em.defined
               /\ r.em.events = Append(<<>>, Flat!LabelEvent(name))
               /\ r.em.defined = em.defined \cup {name} /\ r.em.err = "ok"
            \/ /\ r.em.events = <<>> /\ r.em.defined = em.defined
               /\ \/ name \notin Range(em.labels) /\ r.em.err = "UnknownLabel"
                  \/ /\ name \in Range(em.labels) \cap em.defined
                     /\ r.em.err = "DuplicateLabel"
<1>1. CASE ~LabelDefined(em, name)
  <2>1. r.em = [em EXCEPT !.err = "UnknownLabel"]
    BY <1>1 DEF LowerLabel, Err
  <2> QED
    BY <1>1, <2>1 DEF Ready, IsEmitter, LabelDefined
<1>2. CASE LabelDefined(em, name) /\ name \in em.defined
  <2>1. r.em = [em EXCEPT !.err = "DuplicateLabel"]
    BY <1>2 DEF LowerLabel, Err
  <2> QED
    BY <1>2, <2>1 DEF Ready, IsEmitter, LabelDefined
<1>3. CASE LabelDefined(em, name) /\ name \notin em.defined
  <2> DEFINE marked == [em EXCEPT !.defined = em.defined \cup {name}]
             e == [event |-> "label", label |-> name]
  <2>1. r.em = [marked EXCEPT !.events = Append(marked.events, e)]
    BY <1>3 DEF LowerLabel, Ok, Report
  <2>2. /\ DOMAIN marked = DOMAIN em /\ marked.labels = em.labels
        /\ marked.sizes = em.sizes /\ marked.locals = em.locals /\ marked.next = em.next
        /\ marked.events = <<>> /\ marked.defined = em.defined \cup {name}
        /\ marked.err = "ok"
    BY DEF Ready, IsEmitter
  <2>3. e = Flat!LabelEvent(name)
    BY DEF Flat!LabelEvent
  <2> HIDE DEF marked, e
  <2> QED
    BY <1>3, <2>1, <2>2, <2>3 DEF Ready, IsEmitter, LabelDefined
<1> QED
  BY <1>1, <1>2, <1>3

\* and one that defines a label.
LEMMA LabelWell ==
  ASSUME NEW em, Ready(em), em.events = <<>>, NEW name, NEW r, r = LowerLabel(em, name)
  PROVE  WellEmitted(em, r.em)
<1> DEFINE after == r.em
           e == Flat!LabelEvent(name)
           nothing == <<>>
<1> HIDE DEF e, nothing
<1>0. \/ after.events = <<>>
      \/ after.events = Append(<<>>, Flat!LabelEvent(name))
  BY LabelReports
<1>1. /\ DOMAIN after = DOMAIN em
      /\ after.labels = em.labels /\ after.sizes = em.sizes
      /\ after.locals = em.locals /\ after.next = em.next
      /\ after.events = nothing \/ after.events = Append(nothing, e)
  BY <1>0, LabelReports DEF nothing, e
<1>2. IsList(nothing) /\ Len(nothing) = 0 /\ DOMAIN nothing = {}
  BY DEF IsList, Range, nothing
<1>3. /\ WrittenBy(e) = None /\ ReadBy(e) = {} /\ IsEvent(e)
  BY DEF Flat!LabelEvent, WrittenBy, ReadBy, IsEvent, e
<1> HIDE DEF after
<1>4. /\ IsList(after.events) /\ Len(after.events) \in {0, 1}
      /\ \A n \in DOMAIN after.events : n = Len(after.events) /\ after.events[n] = e
  <2>1. CASE after.events = nothing
    BY <1>2, <2>1
  <2>2. CASE after.events = Append(nothing, e)
    <3> DEFINE one == Append(nothing, e)
    <3>0. /\ IsList(one) /\ Len(one) = Len(nothing) + 1
          /\ DOMAIN one = 1 .. Len(nothing) + 1
          /\ one[Len(nothing) + 1] = e
      BY <1>2, ListAppended
    <3> HIDE DEF one
    <3>1. /\ IsList(after.events) /\ Len(after.events) = Len(nothing) + 1
          /\ DOMAIN after.events = 1 .. Len(nothing) + 1
          /\ after.events[Len(nothing) + 1] = e
      BY <2>2, <3>0 DEF one
    <3>2. Len(nothing) + 1 = 1
      BY <1>2
    <3> QED
      BY <3>1, <3>2
  <2> QED
    BY <1>1, <2>1, <2>2
<1>5. IsEmitter(after)
  BY <1>1, <1>4 DEF Ready, IsEmitter
<1>6. NewHomes(em, after) = {} /\ StorageGrew(em, after)
  BY <1>1, PointerGrows DEF Ready, IsEmitter, NewHomes, Placed
<1>7. Settled(after, WrittenBy(e))
  BY <1>3 DEF Settled, InUnique
<1>8. WellEmitted(em, after)
  BY <1>1, <1>3, <1>4, <1>5, <1>6, <1>7 DEF WellEmitted
<1> QED
  BY <1>8 DEF after

\* Whatever the statement is.
LEMMA StatementWell ==
  ASSUME NEW em, Ready(em), em.events = <<>>, NEW st, NEW r, StatementDoes(em, st, r)
  PROVE  WellEmitted(em, r.em)
<1>1. IsEmitter(em) /\ Len(em.events) = 0
  BY DEF Ready
<1>2. CASE st.kind = "Label" /\ r = LowerLabel(em, st.name)
  BY <1>2, LabelWell
<1>3. CASE \E e : Ends(em, r, e)
  BY <1>1, <1>3, EndedWell
<1>4. CASE \E out : Computes(em, r.em, out) /\ Settled(r.em, out)
  BY <1>1, <1>4, ComputedWell
<1>5. Settled(r.em, None)
  BY DEF Settled, InUnique
<1> QED
  BY <1>2, <1>3, <1>4, <1>5 DEF StatementDoes, Flows, Assigns, Performs, Lowers

----------------------------------------------------------------------------
(* The emitter starts on a statement.                                      *)

Emptied(em) == [em EXCEPT !.events = <<>>]

\* Taking an emitter's events leaves the rest of it.
LEMMA EmptiedIsReady ==
  ASSUME NEW em, Ready(em)
  PROVE  LET e == Emptied(em)
         IN  /\ Ready(e) /\ e.events = <<>> /\ Placed(e) = Placed(em)
             /\ e.labels = em.labels /\ e.sizes = em.sizes /\ e.locals = em.locals
             /\ e.defined = em.defined /\ e.next = em.next
<1> DEFINE e == Emptied(em)
<1>1. /\ DOMAIN e = DOMAIN em /\ e.events = <<>>
      /\ e.labels = em.labels /\ e.sizes = em.sizes /\ e.locals = em.locals
      /\ e.defined = em.defined /\ e.next = em.next /\ e.err = em.err
  BY DEF Emptied, Ready, IsEmitter
<1> HIDE DEF e
<1>2. IsList(e.events)
  BY <1>1 DEF IsList, Range
<1>3. Ready(e)
  BY <1>1, <1>2 DEF Ready, IsEmitter
<1>4. Placed(e) = Placed(em)
  BY <1>1 DEF Placed
<1> QED
  BY <1>1, <1>3, <1>4 DEF e

----------------------------------------------------------------------------
(* The sink's view of a statement's events.                                *)

\* A function from 1 to a number is a list.
LEMMA ListFrom ==
  ASSUME NEW n \in Nat, NEW f, f = [m \in 1 .. n |-> f[m]]
  PROVE  IsList(f) /\ Len(f) = n
<1>1. f \in Seq({f[m] : m \in 1 .. n}) /\ Len(f) = n
  OBVIOUS
<1> QED
  BY <1>1, ListOf

\* Lists of the same members are the same.
LEMMA SameList ==
  ASSUME NEW s, NEW t, IsList(s), IsList(t), Len(s) = Len(t),
         \A k \in 1 .. Len(s) : s[k] = t[k]
  PROVE  s = t
<1>1. s = [k \in 1 .. Len(s) |-> s[k]] /\ t = [k \in 1 .. Len(t) |-> t[k]]
  BY DEF IsList
<1> QED
  BY <1>1

\* What was added to a list, but for its last `n`.
LEMMA AddedPart ==
  ASSUME NEW s, NEW t, IsList(s), IsList(t), NEW n \in 0 .. Len(t)
  PROVE  LET part == SubSeq(s \o t, Len(s) + 1, Len(s \o t) - n)
         IN  /\ IsList(part) /\ Len(part) = Len(t) - n
             /\ \A k \in 1 .. Len(t) - n : part[k] = t[k]
<1> DEFINE whole == s \o t
           part == SubSeq(whole, Len(s) + 1, Len(whole) - n)
<1>1. /\ IsList(whole) /\ Len(s) \in Nat /\ Len(t) \in Nat
      /\ Len(whole) = Len(s) + Len(t)
      /\ \A k \in 1 .. Len(t) : whole[Len(s) + k] = t[k]
  BY ConcatLemma
<1> HIDE DEF whole
<1>2. /\ part = [k \in 1 .. Len(t) - n |-> whole[Len(s) + k]]
      /\ Len(t) - n \in Nat
  <2>1. Len(whole) - n - (Len(s) + 1) + 1 = Len(t) - n /\ Len(t) - n \in Nat
    BY <1>1
  <2>2. part = [k \in 1 .. (Len(whole) - n) - (Len(s) + 1) + 1 |-> whole[(Len(s) + 1) + k - 1]]
    BY <1>1
  <2>3. \A k \in 1 .. Len(t) - n : (Len(s) + 1) + k - 1 = Len(s) + k
    BY <1>1
  <2> QED
    BY <2>1, <2>2, <2>3
<1> HIDE DEF part
<1>3. part = [k \in 1 .. Len(t) - n |-> part[k]]
  BY <1>2
<1>4. IsList(part) /\ Len(part) = Len(t) - n
  BY <1>2, <1>3, ListFrom
<1>5. \A k \in 1 .. Len(t) - n : part[k] = t[k]
  BY <1>1, <1>2
<1> QED
  BY <1>4, <1>5 DEF part, whole

\* Delivering events is delivering them one by one.
LEMMA DeliverUnfolds ==
  ASSUME NEW c, NEW events, Len(events) \in Nat
  PROVE  \E g : /\ DeliverAll(c, events) = g[Len(events)]
               /\ \A n \in 0 .. Len(events) :
                     g[n] = IF n = 0 THEN c ELSE Flat!Deliver(g[n - 1], events[n])
<1> DEFINE Runs(k) == \E g : g = [n \in 0 .. k |-> IF n = 0 THEN c ELSE Flat!Deliver(g[n - 1], events[n])]
           Good == {k \in Nat : Runs(k)}
<1>1. Runs(0)
  <2> DEFINE g == [n \in 0 .. 0 |-> c]
  <2>1. g = [n \in 0 .. 0 |-> IF n = 0 THEN c ELSE Flat!Deliver(g[n - 1], events[n])]
    OBVIOUS
  <2> QED
    BY <2>1
<1>2. ASSUME NEW k \in Nat, k # 0, Runs(k - 1) PROVE Runs(k)
  <2>1. PICK g : g = [n \in 0 .. k - 1 |-> IF n = 0 THEN c ELSE Flat!Deliver(g[n - 1], events[n])]
    BY <1>2
  <2> DEFINE h == [n \in 0 .. k |-> IF n = k THEN Flat!Deliver(g[k - 1], events[k]) ELSE g[n]]
  <2>2. ASSUME NEW n \in 0 .. k
        PROVE  h[n] = IF n = 0 THEN c ELSE Flat!Deliver(h[n - 1], events[n])
    <3>1. CASE n = k
      BY <1>2, <3>1
    <3>2. CASE n # k
      <4>1. n \in 0 .. k - 1 /\ (n # 0 => n - 1 \in 0 .. k - 1 /\ n - 1 # k)
        BY <1>2, <3>2
      <4>2. h[n] = g[n] /\ (n # 0 => h[n - 1] = g[n - 1])
        BY <1>2, <3>2, <4>1
      <4>3. g[n] = IF n = 0 THEN c ELSE Flat!Deliver(g[n - 1], events[n])
        BY <2>1, <4>1
      <4> QED
        BY <4>2, <4>3
    <3> QED
      BY <3>1, <3>2
  <2>3. h = [n \in 0 .. k |-> h[n]]
    OBVIOUS
  <2> HIDE DEF h
  <2>4. h = [n \in 0 .. k |-> IF n = 0 THEN c ELSE Flat!Deliver(h[n - 1], events[n])]
    BY <2>2, <2>3
  <2> QED
    BY <2>4
<1> HIDE DEF Runs
<1>3. 0 \in Good /\ \A k \in 1 .. Len(events) : k - 1 \in Good => k \in Good
  BY <1>1, <1>2
<1>4. Runs(Len(events))
  <2> HIDE DEF Good
  <2>1. 0 .. Len(events) \subseteq Good
    BY <1>3, UpTo
  <2> QED
    BY <2>1 DEF Good
<1> DEFINE g == CHOOSE g : g = [n \in 0 .. Len(events) |-> IF n = 0 THEN c ELSE Flat!Deliver(g[n - 1], events[n])]
<1>5. g = [n \in 0 .. Len(events) |-> IF n = 0 THEN c ELSE Flat!Deliver(g[n - 1], events[n])]
  BY <1>4 DEF Runs
<1>6. DeliverAll(c, events) = g[Len(events)]
  BY DEF DeliverAll
<1> HIDE DEF g
<1>7. \A n \in 0 .. Len(events) : g[n] = IF n = 0 THEN c ELSE Flat!Deliver(g[n - 1], events[n])
  BY <1>5
<1> QED
  BY <1>6, <1>7

\* The first `n` of `events`, and collector `c` that was told of them.
OpsUpTo(events, n) ==
    [m \in 1 .. n |-> Flat!Op(events[m].opcode, events[m].output, events[m].inputs)]

WithFirst(c, events, n) == [c EXCEPT !.ops = c.ops \o OpsUpTo(events, n)]

\* The collector's record.
HasShape(c) == c = [field \in {"ops", "marks", "fixups"} |-> c[field]]

IsCollector(c) == HasShape(c) /\ IsList(c.ops)

\* The first operations are a list.
LEMMA OpsList ==
  ASSUME NEW events, NEW n \in Nat
  PROVE  IsList(OpsUpTo(events, n)) /\ Len(OpsUpTo(events, n)) = n
  BY ListFrom DEF OpsUpTo

\* One operation more is appended.
LEMMA OneMoreOp ==
  ASSUME NEW c, IsCollector(c), NEW events, NEW n \in Nat, n # 0,
         events[n].event = "op"
  PROVE  Flat!Deliver(WithFirst(c, events, n - 1), events[n]) = WithFirst(c, events, n)
<1> DEFINE op == Flat!Op(events[n].opcode, events[n].output, events[n].inputs)
           before == OpsUpTo(events, n - 1)
           after == OpsUpTo(events, n)
           d == WithFirst(c, events, n - 1)
<1>1. n - 1 \in Nat
  OBVIOUS
<1>2. IsList(before) /\ Len(before) = n - 1 /\ \A k \in 1 .. n - 1 : before[k] = after[k]
  BY <1>1, ListFrom DEF OpsUpTo
<1>3. IsList(after) /\ Len(after) = n /\ after[n] = op
  BY ListFrom DEF OpsUpTo
<1>4. Flat!Deliver(d, events[n]) = [d EXCEPT !.ops = Append(d.ops, op)]
  BY DEF Flat!Deliver, Flat!OnOp
<1>5. /\ DOMAIN d = DOMAIN c /\ d.ops = c.ops \o before
      /\ d.marks = c.marks /\ d.fixups = c.fixups
  BY DEF IsCollector, HasShape, WithFirst
<1> HIDE DEF op, before, after, d
<1>6. Append(c.ops \o before, op) = c.ops \o after
  <2> DEFINE left == Append(c.ops \o before, op)
             right == c.ops \o after
             mid == c.ops \o before
  <2>1. /\ IsList(mid) /\ Len(c.ops) \in Nat /\ Len(mid) = Len(c.ops) + (n - 1)
        /\ \A k \in 1 .. Len(c.ops) : mid[k] = c.ops[k]
        /\ \A k \in 1 .. n - 1 : mid[Len(c.ops) + k] = before[k]
    BY <1>2, ConcatLemma DEF IsCollector
  <2>2. /\ IsList(right) /\ Len(right) = Len(c.ops) + n
        /\ \A k \in 1 .. Len(c.ops) : right[k] = c.ops[k]
        /\ \A k \in 1 .. n : right[Len(c.ops) + k] = after[k]
    BY <1>3, ConcatLemma DEF IsCollector
  <2> HIDE DEF mid, right
  <2>3. /\ IsList(Append(mid, op)) /\ Len(Append(mid, op)) = Len(mid) + 1
        /\ \A k \in 1 .. Len(mid) : Append(mid, op)[k] = mid[k]
        /\ Append(mid, op)[Len(mid) + 1] = op
    BY <2>1, ListAppended
  <2>4. left = Append(mid, op)
    BY DEF mid
  <2> HIDE DEF left
  <2>5. ASSUME NEW k \in 1 .. Len(c.ops) + n PROVE left[k] = right[k]
    <3>1. CASE k \in 1 .. Len(c.ops)
      BY <2>1, <2>2, <2>3, <2>4, <3>1
    <3>2. CASE k = Len(c.ops) + n
      BY <1>3, <2>1, <2>2, <2>3, <2>4, <3>2
    <3>3. CASE k > Len(c.ops) /\ k < Len(c.ops) + n
      <4>1. k - Len(c.ops) \in 1 .. n - 1 /\ k = Len(c.ops) + (k - Len(c.ops))
        BY <2>1, <3>3
      <4>2. PICK j \in 1 .. n - 1 : k = Len(c.ops) + j
        BY <4>1
      <4>3. mid[k] = before[j]
        BY <2>1, <4>2
      <4>4. j \in 1 .. n
        OBVIOUS
      <4>5. right[k] = after[j]
        BY <2>2, <4>2, <4>4
      <4>6. before[j] = after[j]
        BY <1>2
      <4>7. k \in 1 .. Len(mid)
        BY <2>1, <3>3
      <4>8. left[k] = mid[k]
        BY <2>3, <2>4, <4>7
      <4> QED
        BY <4>3, <4>5, <4>6, <4>8
    <3>4. \/ k \in 1 .. Len(c.ops) \/ k = Len(c.ops) + n
          \/ k > Len(c.ops) /\ k < Len(c.ops) + n
      <4>1. Len(c.ops) \in Nat
        BY <2>1
      <4> QED
        BY <4>1
    <3> QED
      BY <3>1, <3>2, <3>3, <3>4
  <2>6. IsList(left) /\ Len(left) = Len(c.ops) + n
    BY <2>1, <2>3, <2>4
  <2>7. left = right
    BY <2>2, <2>5, <2>6, SameList
  <2> QED
    BY <2>7 DEF left, right
<1>7. [d EXCEPT !.ops = Append(d.ops, op)] = [c EXCEPT !.ops = c.ops \o after]
  BY <1>5, <1>6 DEF IsCollector, HasShape, WithFirst, d, before
<1> QED
  BY <1>4, <1>7 DEF d, after, WithFirst

\* Delivering operations appends them, and an event after them finds them
\* there.
LEMMA DeliversOps ==
  ASSUME NEW c, IsCollector(c), NEW events, IsList(events), NEW N \in 0 .. Len(events),
         \A m \in 1 .. N : events[m].event = "op"
  PROVE  LET d == WithFirst(c, events, N)
         IN  /\ N = Len(events) => DeliverAll(c, events) = d
             /\ N + 1 = Len(events) =>
                   DeliverAll(c, events) = Flat!Deliver(d, events[N + 1])
<1>1. Len(events) \in Nat /\ N \in Nat
  BY DEF IsList
<1>2. PICK g : /\ DeliverAll(c, events) = g[Len(events)]
               /\ \A n \in 0 .. Len(events) :
                     g[n] = IF n = 0 THEN c ELSE Flat!Deliver(g[n - 1], events[n])
  BY <1>1, DeliverUnfolds
<1> DEFINE Good == {n \in 0 .. N : g[n] = WithFirst(c, events, n)}
<1>3. WithFirst(c, events, 0) = c
  <2> DEFINE none == OpsUpTo(events, 0)
  <2>1. IsList(none) /\ Len(none) = 0 /\ IsList(c.ops)
    BY OpsList DEF IsCollector
  <2>2. WithFirst(c, events, 0) = [c EXCEPT !.ops = c.ops \o none]
    BY DEF WithFirst
  <2> DEFINE both == c.ops \o none
  <2> HIDE DEF none
  <2>3. /\ IsList(both) /\ Len(both) = Len(c.ops)
        /\ \A k \in 1 .. Len(c.ops) : both[k] = c.ops[k]
    BY <2>1, ConcatLemma
  <2> HIDE DEF both
  <2>4. both = c.ops
    BY <2>1, <2>3, SameList
  <2> QED
    BY <2>2, <2>4 DEF both, IsCollector, HasShape
<1>4. 0 \in Good
  BY <1>1, <1>2, <1>3
<1>5. ASSUME NEW n \in 1 .. N, n - 1 \in Good PROVE n \in Good
  <2>1. n \in Nat /\ n # 0 /\ n \in 0 .. Len(events) /\ n \in 0 .. N
    BY <1>1
  <2>2. g[n] = Flat!Deliver(g[n - 1], events[n]) /\ g[n - 1] = WithFirst(c, events, n - 1)
    BY <1>2, <1>5, <2>1
  <2>3. Flat!Deliver(WithFirst(c, events, n - 1), events[n]) = WithFirst(c, events, n)
    <3>1. events[n].event = "op"
      OBVIOUS
    <3> QED
      BY <2>1, <3>1, OneMoreOp
  <2> QED
    BY <2>1, <2>2, <2>3
<1>6. N \in Good
  <2> HIDE DEF Good
  <2>1. 0 .. N \subseteq Good
    BY <1>1, <1>4, <1>5, UpTo
  <2> QED
    BY <1>1, <2>1
<1>7. g[N] = WithFirst(c, events, N)
  BY <1>6
<1>8. CASE N = Len(events)
  BY <1>1, <1>2, <1>7, <1>8
<1>9. CASE N + 1 = Len(events)
  <2>1. N + 1 \in 0 .. Len(events) /\ N + 1 # 0 /\ (N + 1) - 1 = N
    BY <1>1, <1>9
  <2>2. g[N + 1] = Flat!Deliver(g[N], events[N + 1])
    BY <1>2, <2>1
  <2> QED
    BY <1>1, <1>2, <1>7, <1>9, <2>2
<1> QED
  BY <1>1, <1>8, <1>9

\* So the pipeline's collector is the one that was told of them.
LEMMA WithOpsIs ==
  ASSUME NEW c, NEW events, IsList(events), NEW part, IsList(part),
         NEW N \in Nat, Len(part) = N, \A m \in 1 .. N : part[m] = events[m]
  PROVE  WithOps(c, part) = WithFirst(c, events, N)
<1>1. DOMAIN part = 1 .. N
  BY DEF IsList
<1>2. [n \in DOMAIN part |-> Flat!Op(part[n].opcode, part[n].output, part[n].inputs)]
         = OpsUpTo(events, N)
  BY <1>1 DEF OpsUpTo
<1> QED
  BY <1>2 DEF WithOps, WithFirst

----------------------------------------------------------------------------
(* The loop of width inference, with the rules of Constraints.             *)
Widths == INSTANCE InferenceProofs
    WITH Fed <- AfterStatement, LocalsIn <- StatementLocals,
         Statement <- UNION {Range(program) : program \in Programs},
         Knowns <- [Local -> Nat \cup {None}]

\* The loop that lowering runs is the one proved correct.
LEMMA SameLoop ==
  /\ Infer!Init <=> Widths!Init
  /\ Infer!Next <=> Widths!Next
  /\ UNCHANGED inferVars <=> UNCHANGED Widths!vars
  /\ Infer!FixedPointWhenLocalsFit <=> Widths!FixedPointWhenLocalsFit
<1>1. Infer!Init <=> Widths!Init
  BY DEF Infer!Init, Widths!Init, Infer!Start, Widths!Start, Infer!NoSizes, Widths!NoSizes
<1>2. Infer!Next <=> Widths!Next
  BY DEF Infer!Next, Widths!Next, Infer!FeedStatement, Widths!FeedStatement,
         Infer!NextPass, Widths!NextPass, Infer!Finish, Widths!Finish,
         Infer!LastPass, Widths!LastPass
<1>3. UNCHANGED inferVars <=> UNCHANGED Widths!vars
  BY DEF inferVars, Widths!vars, Widths!inferVars
<1>4. Infer!FixedPointWhenLocalsFit <=> Widths!FixedPointWhenLocalsFit
  BY DEF Infer!FixedPointWhenLocalsFit, Widths!FixedPointWhenLocalsFit,
         Infer!LocalsFit, Widths!LocalsFit, Infer!LiveLocals, Widths!LiveLocals,
         Infer!IsFixedPoint, Widths!IsFixedPoint, Infer!Cardinality, Widths!Cardinality
<1> QED
  BY <1>1, <1>2, <1>3, <1>4

\* Instructions are lists of the statements that are fed.
LEMMA InstructionsAreBodies == Widths!BodiesAssumption
<1> DEFINE Statements == UNION {Range(program) : program \in Programs}
<1>1. ASSUME NEW body \in Programs PROVE body \in Seq(Statements)
  <2>1. body \in Seq(Range(body)) /\ Range(body) \subseteq Statements
    BY ProgramsAssumption
  <2> HIDE DEF Statements
  <2> QED
    BY <2>1
<1> QED
  BY <1>1 DEF Widths!BodiesAssumption

\* Its assumptions hold of Constraints' rules,
LEMMA RulesOfLoop ==
  ASSUME SizeRecurs, ConstrainRecurs, LocalsRecur
  PROVE  Widths!RulesAssumption
<1>1. Infer!RulesAssumption
  BY InferenceRulesHold
<1> QED
  BY <1>1 DEF Infer!RulesAssumption, Widths!RulesAssumption, Infer!NoSizes, Widths!NoSizes

\* and of an instruction's locals.
LEMMA LocalsAreFinite == Widths!LocalsAssumption
  BY FiniteAssumption DEF Widths!LocalsAssumption, Widths!IsFiniteSet, IsFiniteSet

\* So its invariant holds at first,
LEMMA LoopStarts ==
  ASSUME SizeRecurs, ConstrainRecurs, LocalsRecur, Infer!Init
  PROVE  Widths!InferInv
<1>1. Widths!RulesAssumption
  BY RulesOfLoop
<1>2. Widths!Init => Widths!InferInv
  BY Widths!InitHasInv, WidthsAssumption, SpaceAssumption, LocalsAreFinite,
     InstructionsAreBodies, <1>1
<1> QED
  BY <1>2, SameLoop

\* and from then on.
LEMMA LoopKept ==
  ASSUME SizeRecurs, ConstrainRecurs, LocalsRecur, Widths!InferInv,
         Infer!Next \/ UNCHANGED inferVars
  PROVE  Widths!InferInv'
<1>1. Widths!RulesAssumption
  BY RulesOfLoop
<1>2. Widths!InferInv /\ [Widths!Next]_(Widths!vars) => Widths!InferInv'
  BY Widths!NextKeepsInv, WidthsAssumption, SpaceAssumption, LocalsAreFinite,
     InstructionsAreBodies, <1>1
<1> QED
  BY <1>2, SameLoop

----------------------------------------------------------------------------
(* Lowering an instruction.                                                *)

\* The inductive invariant: what the passes know of each other, and that the
\* emitter works on the plan and the widths it was given, and marks the labels
\* that the collector marks.
EmitterInv ==
    /\ sizes \in [Local -> Count] /\ done \in BOOLEAN
    /\ IsCollector(collector)
    /\ finished => done
    /\ ~finished => emitter = NewEmitter(<<>>, [id \in Local |-> None])
    /\ finished =>
          /\ IsEmitter(emitter)
          /\ emitter.labels = labels /\ emitter.sizes = sizes
          /\ emitter.defined \subseteq Range(labels)
          /\ outcome = "open" =>
                emitter.err = "ok" /\ emitter.defined = DOMAIN collector.marks

LowerInv ==
    /\ Widths!InferInv
    /\ PipeInv
    /\ EmitterInv
    /\ OpsWellTyped
    /\ StorageWrittenLast

\* Statement `st` is emitted, from `em` to `r`.
Emitting(st, em, r) ==
    /\ IsStatement(st) /\ fed[emitted + 1] = PlannedStatement(st)
    /\ Ready(em) /\ em.events = <<>>
    /\ em.labels = labels /\ em.sizes = sizes /\ em.defined = DOMAIN collector.marks
    /\ em.next = emitter.next /\ em.locals = emitter.locals /\ em.sizes = emitter.sizes
    /\ emitter' = r.em
    /\ StatementDoes(em, st, r) /\ WellEmitted(em, r.em)

\* A statement is emitted as what is known of lowering one has it.
LEMMA EmitSetting ==
  ASSUME SizeRecurs, LowerRecurs, PipeInv, EmitterInv, EmitStep
  PROVE  \E st, em, r : Emitting(st, em, r)
<1> DEFINE st == statements[emitted + 1]
           em == Emptied(emitter)
           r == LowerStatement(em, st)
<1>1. /\ finished /\ outcome = "open" /\ emitted < Len(statements)
      /\ emitter' = EmitStatement(emitter, st)
  BY DEF EmitStep
<1>2. Ready(emitter) /\ emitter.labels = labels /\ emitter.sizes = sizes
      /\ emitter.defined = DOMAIN collector.marks
  BY <1>1 DEF EmitterInv, Ready
<1>3. /\ statements \in Programs /\ Len(fed) = Len(statements)
      /\ \A k \in DOMAIN fed : fed[k] = PlannedStatement(statements[k])
      /\ emitted \in 0 .. Len(statements)
  BY <1>1 DEF PipeInv, FedInOrder
<1>4. Len(fed) \in Nat /\ DOMAIN fed = 1 .. Len(fed)
  BY <1>1, PlanComplete
<1>5. DOMAIN statements = 1 .. Len(statements)
  <2>1. statements \in Seq(Range(statements))
    BY <1>3, ProgramsAssumption
  <2> QED
    BY <2>1
<1>6. emitted + 1 \in DOMAIN fed /\ emitted + 1 \in DOMAIN statements
  BY <1>1, <1>3, <1>4, <1>5
<1>7. IsStatement(st) /\ fed[emitted + 1] = PlannedStatement(st)
  BY <1>3, <1>6, StatementsAssumption
<1>8. /\ Ready(em) /\ em.events = <<>>
      /\ em.labels = emitter.labels /\ em.sizes = emitter.sizes /\ em.locals = emitter.locals
      /\ em.defined = emitter.defined /\ em.next = emitter.next
  BY <1>2, EmptiedIsReady
<1>9. emitter' = r.em
  BY <1>1 DEF EmitStatement, Emptied
<1> HIDE DEF st, em
<1>10. \A e \in Expressions : Sound(e)
  BY ExpressionsLower
<1>11. StatementDoes(em, st, r)
  BY <1>2, <1>7, <1>8, <1>10, StatementLowers
<1> HIDE DEF r
<1>12. WellEmitted(em, r.em)
  BY <1>8, <1>11, StatementWell
<1>13. Emitting(st, em, r)
  BY <1>2, <1>7, <1>8, <1>9, <1>11, <1>12 DEF Emitting, st
<1> QED
  BY <1>13

\* The emitter's storage grows as GrowingSpace has it.
LEMMA EmissionGrows ==
  ASSUME IsList(stream), NEW st, NEW em, NEW r, Emitting(st, em, r),
         stream' = stream \o r.em.events
  PROVE  Grow
<1> DEFINE after == r.em
           events == after.events
<1>1. /\ Pointer = em.next /\ Homes = Placed(em) /\ PlannedSizes = em.sizes
      /\ Pointer' = after.next /\ Homes' = Placed(after) /\ PlannedSizes' = after.sizes
  BY DEF Emitting, Pointer, Homes, PlannedSizes, Placed
<1>2. WellEmitted(em, after)
  BY DEF Emitting
<1> HIDE DEF after
<1>3. IsList(events) /\ Len(events) \in Nat /\ DOMAIN events = 1 .. Len(events)
  BY <1>2, EventsList DEF WellEmitted, IsEmitter
<1>4. stream' = stream \o events
  BY DEF after
<1>5. /\ IsList(stream') /\ Len(stream) \in Nat /\ Len(stream') = Len(stream) + Len(events)
      /\ DOMAIN stream = 1 .. Len(stream)
      /\ \A k \in 1 .. Len(stream) : stream'[k] = stream[k]
      /\ \A n \in 1 .. Len(events) : stream'[Len(stream) + n] = events[n]
  <2>1. DOMAIN stream = 1 .. Len(stream)
    BY DEF IsList
  <2> HIDE DEF events
  <2> QED
    BY <1>3, <1>4, <2>1, ConcatLemma
<1>6. ASSUME NEW k \in Fresh
      PROVE  /\ k - Len(stream) \in DOMAIN events
             /\ stream'[k] = events[k - Len(stream)]
  <2>1. k - Len(stream) \in 1 .. Len(events) /\ k = Len(stream) + (k - Len(stream))
    BY <1>3, <1>5 DEF Fresh
  <2> QED
    BY <1>3, <1>5, <2>1
<1>7. \A m \in DOMAIN events : Len(stream) + m \in Fresh /\ stream'[Len(stream) + m] = events[m]
  BY <1>3, <1>5 DEF Fresh
<1>8. NewHomes(em, after) = DOMAIN Homes' \ DOMAIN Homes
  BY <1>1 DEF NewHomes
<1>9. ASSUME NEW k \in Fresh PROVE WritesSoundly(k)
  <2> DEFINE n == k - Len(stream)
             v == WrittenBy(stream'[k])
  <2>1. n \in DOMAIN events /\ stream'[k] = events[n]
    BY <1>6
  <2>2. CASE TakesBytes(em, after, n)
    <3>1. v = events[n].output /\ v \in Home
      BY <2>1, <2>2 DEF TakesBytes, WrittenBy
    <3>2. ASSUME NEW j \in Fresh \ {k}, InUnique(WrittenBy(stream'[j]))
          PROVE  Apart(v, WrittenBy(stream'[j]))
      <4>1. j - Len(stream) \in DOMAIN events /\ stream'[j] = events[j - Len(stream)]
        BY <1>6
      <4>2. j - Len(stream) # n
        BY <1>5 DEF Fresh
      <4> QED
        BY <2>2, <3>1, <3>2, <4>1, <4>2 DEF TakesBytes
    <3>3. \A id \in DOMAIN Homes' \ DOMAIN Homes : Apart(v, Homes'[id])
      BY <1>1, <1>8, <2>2, <3>1 DEF TakesBytes
    <3>4. Pointer <= v.offset /\ End(v) <= Pointer'
      BY <1>1, <2>2, <3>1 DEF TakesBytes
    <3> QED
      BY <3>1, <3>2, <3>3, <3>4 DEF WritesSoundly, WritesTemporary
  <2>3. CASE Settled(after, WrittenBy(events[n]))
    BY <1>1, <2>1, <2>3 DEF Settled, WritesSoundly
  <2> QED
    BY <1>2, <2>1, <2>2, <2>3 DEF WellEmitted
<1>10. ASSUME NEW k \in Fresh PROVE ReadsSoundly(k)
  <2> DEFINE n == k - Len(stream)
  <2>1. n \in DOMAIN events /\ stream'[k] = events[n]
    BY <1>6
  <2>2. \A v \in ReadBy(stream'[k]) : Readable(after, n - 1, v)
    BY <1>2, <2>1 DEF WellEmitted
  <2>3. ASSUME NEW v, Written(after, n - 1, v)
        PROVE  \E j \in Fresh : j < k /\ WrittenBy(stream'[j]) = v
    <3>1. PICK m \in DOMAIN events : m <= n - 1 /\ WrittenBy(events[m]) = v
      BY <2>3 DEF Written
    <3>2. Len(stream) + m < k
      BY <1>3, <1>5, <3>1 DEF Fresh
    <3> QED
      BY <1>7, <3>1, <3>2
  <2> QED
    BY <1>1, <2>2, <2>3 DEF ReadsSoundly, Readable
<1>11. GrowsTo(Pointer, Homes, Pointer', Homes')
  BY <1>1, <1>2 DEF WellEmitted, StorageGrew
<1>12. PlannedSizes' = PlannedSizes /\ PlacedAsPlanned
  BY <1>1, <1>2, <1>8 DEF WellEmitted, PlacedAsPlanned
<1>13. /\ stream' \in Seq(Range(stream')) /\ Len(stream) <= Len(stream')
       /\ \A k \in DOMAIN stream : stream'[k] = stream[k]
  BY <1>3, <1>5 DEF IsList
<1> QED
  BY <1>9, <1>10, <1>11, <1>12, <1>13 DEF Grow

\* Events 1 to `n` compute.
ComputesUpTo(events, n) ==
    \A m \in 1 .. n : events[m].event = "op" /\ events[m].opcode \notin Range(DirectOpcode)

\* Operations reported to the sink are reported as the pipeline has them,
LEMMA OpsReported ==
  ASSUME IsList(stream), IsCollector(collector), NEW events, IsList(events),
         ComputesUpTo(events, Len(events)),
         stream' = stream \o events, collector' = DeliverAll(collector, events)
  PROVE  ReportsOps
<1>1. Len(events) \in Nat /\ DOMAIN events = 1 .. Len(events) /\ 0 \in 0 .. Len(events)
  BY DEF IsList
<1> DEFINE part == SubSeq(stream \o events, Len(stream) + 1, Len(stream \o events) - 0)
<1>2. /\ IsList(part) /\ Len(part) = Len(events) - 0
      /\ \A k \in 1 .. Len(events) - 0 : part[k] = events[k]
  BY <1>1, AddedPart
<1>3. part = New(0)
  BY DEF New
<1> HIDE DEF part
<1>4. part = events
  BY <1>1, <1>2, SameList
<1>5. Computing(events)
  BY <1>1 DEF Computing, ComputesUpTo, IsList
<1>6. collector' = WithOps(collector, events)
  <2>1. Len(events) \in 0 .. Len(events) /\ \A m \in 1 .. Len(events) : events[m].event = "op"
    BY <1>1 DEF ComputesUpTo
  <2>2. DeliverAll(collector, events) = WithFirst(collector, events, Len(events))
    BY <2>1, DeliversOps
  <2>3. WithOps(collector, events) = WithFirst(collector, events, Len(events))
    BY <1>1, WithOpsIs
  <2> QED
    BY <2>2, <2>3
<1> QED
  BY <1>3, <1>4, <1>5, <1>6 DEF ReportsOps

\* The events added, but for the last, and the last.
LEMMA AddedLast ==
  ASSUME NEW s, NEW t, IsList(s), IsList(t), NEW n \in Nat, Len(t) = n + 1
  PROVE  LET part == SubSeq(s \o t, Len(s) + 1, Len(s \o t) - 1)
         IN  /\ IsList(part) /\ Len(part) = n /\ \A k \in 1 .. n : part[k] = t[k]
             /\ s \o t = Append(s \o part, t[n + 1])
             /\ Len(s) < Len(s \o t) /\ (s \o t)[Len(s \o t)] = t[n + 1]
<1> DEFINE whole == s \o t
           part == SubSeq(whole, Len(s) + 1, Len(whole) - 1)
           mid == s \o part
           right == Append(mid, t[n + 1])
<1>1. 1 \in 0 .. Len(t) /\ Len(t) - 1 = n
  OBVIOUS
<1>2. IsList(part) /\ Len(part) = Len(t) - 1 /\ \A k \in 1 .. Len(t) - 1 : part[k] = t[k]
  BY <1>1, AddedPart
<1>3. /\ IsList(whole) /\ Len(s) \in Nat /\ Len(whole) = Len(s) + Len(t)
      /\ \A k \in 1 .. Len(s) : whole[k] = s[k]
      /\ \A k \in 1 .. Len(t) : whole[Len(s) + k] = t[k]
  BY ConcatLemma
<1> HIDE DEF part
<1>4. /\ IsList(mid) /\ Len(mid) = Len(s) + Len(part)
      /\ \A k \in 1 .. Len(s) : mid[k] = s[k]
      /\ \A k \in 1 .. Len(part) : mid[Len(s) + k] = part[k]
  BY <1>2, ConcatLemma
<1> HIDE DEF mid
<1>5. /\ IsList(right) /\ Len(right) = Len(mid) + 1
      /\ \A k \in 1 .. Len(mid) : right[k] = mid[k]
      /\ right[Len(mid) + 1] = t[n + 1]
  BY <1>4, ListAppended
<1> HIDE DEF right, whole
<1>6. /\ Len(part) = n /\ Len(mid) = Len(s) + n /\ Len(whole) = Len(s) + (n + 1)
      /\ Len(right) = Len(whole) /\ Len(s) \in Nat
  BY <1>1, <1>2, <1>3, <1>4, <1>5
<1>7. ASSUME NEW k \in 1 .. Len(whole) PROVE whole[k] = right[k]
  <2>1. CASE k \in 1 .. Len(s)
    <3>1. k \in 1 .. Len(mid)
      BY <1>6, <2>1
    <3> QED
      BY <1>3, <1>4, <1>5, <2>1, <3>1
  <2>2. CASE k = Len(s) + (n + 1)
    <3>1. k = Len(mid) + 1 /\ n + 1 \in 1 .. Len(t)
      BY <1>6, <2>2
    <3> QED
      BY <1>3, <1>5, <2>2, <3>1
  <2>3. CASE k - Len(s) \in 1 .. n
    <3>1. /\ k = Len(s) + (k - Len(s)) /\ k \in 1 .. Len(mid)
          /\ k - Len(s) \in 1 .. Len(t) /\ k - Len(s) \in 1 .. Len(part)
          /\ k - Len(s) \in 1 .. Len(t) - 1
      BY <1>1, <1>6, <2>3
    <3>2. whole[k] = t[k - Len(s)] /\ mid[k] = part[k - Len(s)]
      BY <1>3, <1>4, <3>1
    <3> QED
      BY <1>2, <1>5, <3>1, <3>2
  <2>4. k \in 1 .. Len(s) \/ k = Len(s) + (n + 1) \/ k - Len(s) \in 1 .. n
    BY <1>6
  <2> QED
    BY <2>1, <2>2, <2>3, <2>4
<1>8. whole = right
  BY <1>3, <1>5, <1>6, <1>7, SameList
<1>9. whole[Len(whole)] = t[n + 1] /\ Len(s) < Len(whole)
  BY <1>3, <1>6
<1>10. IsList(part) /\ Len(part) = n /\ \A k \in 1 .. n : part[k] = t[k]
  BY <1>1, <1>2
<1> QED
  BY <1>8, <1>9, <1>10 DEF whole, part, mid, right

\* also when one more event follows them.
LEMMA LastReported ==
  ASSUME IsList(stream), IsCollector(collector), NEW events, IsList(events),
         NEW n \in Nat, Len(events) = n + 1, ComputesUpTo(events, n),
         stream' = stream \o events, collector' = DeliverAll(collector, events)
  PROVE  /\ Len(stream) < Len(stream')
         /\ stream'[Len(stream')] = events[n + 1]
         /\ ReportsLast(events[n + 1])
<1> DEFINE part == SubSeq(stream \o events, Len(stream) + 1, Len(stream \o events) - 1)
           e == events[n + 1]
<1>1. /\ IsList(part) /\ Len(part) = n /\ \A k \in 1 .. n : part[k] = events[k]
      /\ stream \o events = Append(stream \o part, e)
      /\ Len(stream) < Len(stream \o events)
      /\ (stream \o events)[Len(stream \o events)] = e
  BY AddedLast
<1>2. part = New(1)
  BY DEF New
<1> HIDE DEF part, e
<1>3. Computing(part)
  <2>1. DOMAIN part = 1 .. n
    BY <1>1 DEF IsList
  <2> QED
    BY <1>1, <2>1 DEF Computing, ComputesUpTo, IsList
<1>4. collector' = Flat!Deliver(WithOps(collector, part), e)
  <2>1. n \in 0 .. Len(events) /\ \A m \in 1 .. n : events[m].event = "op"
    BY DEF ComputesUpTo
  <2>2. DeliverAll(collector, events) = Flat!Deliver(WithFirst(collector, events, n), e)
    BY <2>1, DeliversOps DEF e
  <2>3. WithOps(collector, part) = WithFirst(collector, events, n)
    BY <1>1, WithOpsIs
  <2> QED
    BY <2>2, <2>3
<1>5. ReportsLast(e)
  BY <1>1, <1>2, <1>3, <1>4 DEF ReportsLast
<1> QED
  BY <1>1, <1>5 DEF e

\* The events of a computation compute,
LEMMA ComputedEvents ==
  ASSUME NEW em, IsEmitter(em), em.events = <<>>, NEW after, NEW out, Computes(em, after, out)
  PROVE  IsList(after.events) /\ ComputesUpTo(after.events, Len(after.events))
<1>1. Len(em.events) = 0
  OBVIOUS
<1>2. IsList(after.events) /\ NewEvents(em, after) = 1 .. Len(after.events)
  BY <1>1 DEF Computes, Keeps, IsEmitter, NewEvents
<1> QED
  BY <1>2 DEF Computes, Fits, ValueOpcodes, ComputesUpTo

\* as do all but the last where it is the statement's own.
LEMMA EndedEvents ==
  ASSUME NEW em, IsEmitter(em), em.events = <<>>, NEW r, NEW e, Ends(em, r, e)
  PROVE  /\ r.em.err = "ok" /\ r.em.defined = em.defined /\ IsList(r.em.events)
         /\ \E n \in Nat : /\ Len(r.em.events) = n + 1 /\ r.em.events[n + 1] = e
                           /\ ComputesUpTo(r.em.events, n)
<1>1. PICK before : /\ Ready(before) /\ Computes(em, before, None)
                    /\ Ending(before, e) /\ r.em = Report(before, e)
  BY DEF Ends
<1>2. IsList(before.events) /\ ComputesUpTo(before.events, Len(before.events))
  BY <1>1, ComputedEvents
<1>3. /\ r.em.err = "ok" /\ r.em.defined = em.defined
      /\ r.em.events = Append(before.events, e)
  BY <1>1 DEF Report, Ready, IsEmitter, Computes, Keeps
<1> DEFINE seq == before.events
           n == Len(seq)
<1> HIDE DEF seq
<1>4. /\ IsList(Append(seq, e)) /\ n \in Nat /\ Len(Append(seq, e)) = n + 1
      /\ \A k \in 1 .. n : Append(seq, e)[k] = seq[k]
      /\ Append(seq, e)[n + 1] = e
  BY <1>2, ListAppended DEF seq
<1>5. ComputesUpTo(Append(seq, e), n)
  BY <1>2, <1>4 DEF ComputesUpTo, seq
<1> QED
  BY <1>3, <1>4, <1>5 DEF seq

\* Joining nothing, or one member.
LEMMA JoinNothing ==
  ASSUME NEW s, NEW t, IsList(s), IsList(t), Len(t) = 0
  PROVE  s \o t = s
<1> DEFINE whole == s \o t
<1>1. /\ IsList(whole) /\ Len(whole) = Len(s) + Len(t) /\ Len(s) \in Nat
      /\ \A k \in 1 .. Len(s) : whole[k] = s[k]
  BY ConcatLemma
<1> HIDE DEF whole
<1>2. whole = s
  BY <1>1, SameList
<1> QED
  BY <1>2 DEF whole

\* A list of one is appended as its member.
LEMMA JoinOne ==
  ASSUME NEW s, NEW t, NEW e, IsList(s), IsList(t), Len(t) = 1, t[1] = e
  PROVE  s \o t = Append(s, e)
<1> DEFINE whole == s \o t
           more == Append(s, e)
<1>1. /\ IsList(whole) /\ Len(whole) = Len(s) + Len(t) /\ Len(s) \in Nat
      /\ \A k \in 1 .. Len(s) : whole[k] = s[k]
      /\ \A k \in 1 .. Len(t) : whole[Len(s) + k] = t[k]
  BY ConcatLemma
<1>2. /\ IsList(more) /\ Len(more) = Len(s) + 1
      /\ \A k \in 1 .. Len(s) : more[k] = s[k]
      /\ more[Len(s) + 1] = e
  BY ListAppended
<1> HIDE DEF whole, more
<1>3. Len(whole) = Len(more) /\ whole[Len(s) + 1] = e
  BY <1>1, <1>2
<1>4. \A k \in 1 .. Len(whole) : k \in 1 .. Len(s) \/ k = Len(s) + 1
  BY <1>1, <1>2, <1>3
<1>5. whole = more
  BY <1>1, <1>2, <1>3, <1>4, SameList
<1> QED
  BY <1>5 DEF whole, more

\* Nothing, or one event, delivered.
LEMMA DeliveredFew ==
  ASSUME NEW c, NEW events
  PROVE  /\ Len(events) = 0 => DeliverAll(c, events) = c
         /\ Len(events) = 1 => DeliverAll(c, events) = Flat!Deliver(c, events[1])
<1>1. CASE Len(events) = 0
  <2>1. PICK g : /\ DeliverAll(c, events) = g[Len(events)]
                 /\ \A n \in 0 .. Len(events) :
                       g[n] = IF n = 0 THEN c ELSE Flat!Deliver(g[n - 1], events[n])
    BY <1>1, DeliverUnfolds
  <2>2. 0 \in 0 .. Len(events)
    BY <1>1
  <2> QED
    BY <1>1, <2>1, <2>2
<1>2. CASE Len(events) = 1
  <2>1. PICK g : /\ DeliverAll(c, events) = g[Len(events)]
                 /\ \A n \in 0 .. Len(events) :
                       g[n] = IF n = 0 THEN c ELSE Flat!Deliver(g[n - 1], events[n])
    <3>1. Len(events) \in Nat
      BY <1>2
    <3> QED
      BY <3>1, DeliverUnfolds
  <2>2. 0 \in 0 .. Len(events) /\ 1 \in 0 .. Len(events) /\ 1 - 1 = 0 /\ 1 # 0
    BY <1>2
  <2>3. g[0] = c /\ g[1] = Flat!Deliver(g[1 - 1], events[1])
    BY <2>1, <2>2
  <2> QED
    BY <1>2, <2>1, <2>2, <2>3
<1> QED
  BY <1>1, <1>2

\* What the planner reads of a statement tells its kind.
LEMMA PlannedKinds ==
  ASSUME NEW st
  PROVE  /\ st.kind = "Label" => PlannedStatement(st) = st
         /\ st.kind \in Plan!FlowKind =>
               PlannedStatement(st).kind = st.kind /\ st.kind # "Label"
         /\ st.kind \notin {"Label"} \cup Plan!FlowKind =>
               PlannedStatement(st).kind = "Plain"
         /\ "Plain" \notin {"Label"} \cup Plan!FlowKind
  BY DEF PlannedStatement, Plan!FlowKind

\* A collector stays a collector, and only labels mark.
LEMMA ShapeKept ==
  ASSUME NEW c, HasShape(c)
  PROVE  /\ \A ops : HasShape([c EXCEPT !.ops = ops]) /\ [c EXCEPT !.ops = ops].marks = c.marks
         /\ \A events : /\ HasShape(WithOps(c, events))
                        /\ WithOps(c, events).marks = c.marks
         /\ \A e : e.event \in {"op", "label", "branch"} => HasShape(Flat!Deliver(c, e))
         /\ \A e : e.event \in {"op", "branch"} => Flat!Deliver(c, e).marks = c.marks
<1>1. \A ops : HasShape([c EXCEPT !.ops = ops]) /\ [c EXCEPT !.ops = ops].marks = c.marks
  BY DEF HasShape
<1>2. \A events : HasShape(WithOps(c, events)) /\ WithOps(c, events).marks = c.marks
  BY <1>1 DEF WithOps
<1>3. ASSUME NEW e, e.event = "op"
      PROVE  HasShape(Flat!Deliver(c, e)) /\ Flat!Deliver(c, e).marks = c.marks
  BY <1>1, <1>3 DEF Flat!Deliver, Flat!OnOp
<1>4. \A marks : HasShape([c EXCEPT !.marks = marks])
  BY DEF HasShape
<1>5. ASSUME NEW e, e.event = "label" PROVE HasShape(Flat!Deliver(c, e))
  BY <1>4, <1>5 DEF Flat!Deliver, Flat!OnLabel
<1>6. \A ops, fixups : LET d == [c EXCEPT !.fixups = fixups, !.ops = ops]
                       IN  HasShape(d) /\ d.marks = c.marks
  BY DEF HasShape
<1>7. ASSUME NEW e, e.event = "branch"
      PROVE  HasShape(Flat!Deliver(c, e)) /\ Flat!Deliver(c, e).marks = c.marks
  <2>1. Flat!Deliver(c, e) = Flat!OnBranchLabel(c, e)
    BY <1>7 DEF Flat!Deliver
  <2> DEFINE ops == Append(c.ops, Flat!Op(e.opcode, None, <<Flat!Constant(0, 8)>> \o e.condition))
             fixups == Append(c.fixups, [index |-> Len(c.ops), label |-> e.label])
  <2>2. Flat!OnBranchLabel(c, e) = [c EXCEPT !.fixups = fixups, !.ops = ops]
    BY DEF Flat!OnBranchLabel
  <2> HIDE DEF ops, fixups
  <2>3. /\ HasShape([c EXCEPT !.fixups = fixups, !.ops = ops])
        /\ [c EXCEPT !.fixups = fixups, !.ops = ops].marks = c.marks
    BY <1>6
  <2> DEFINE d == Flat!OnBranchLabel(c, e)
  <2> HIDE DEF d
  <2>4. HasShape(d) /\ d.marks = c.marks
    BY <2>2, <2>3 DEF d
  <2> QED
    BY <2>1, <2>4 DEF d
<1> QED
  BY <1>2, <1>3, <1>1, <1>5, <1>7

\* What the pipeline and the invariant need to know of a statement emitted.
Done(planned, after) ==
    /\ Emits(planned) \/ Fails(planned)
    /\ HasShape(collector')
    /\ after.defined \subseteq Range(labels)
    /\ outcome' = "open" => after.err = "ok" /\ after.defined = DOMAIN collector'.marks

\* A step that emits into `after`.
StepTo(em, after) ==
    /\ Ready(em) /\ em.events = <<>>
    /\ em.labels = labels /\ em.defined = DOMAIN collector.marks
    /\ em.defined \subseteq Range(labels)
    /\ IsList(stream) /\ IsCollector(collector)
    /\ stream' = stream \o after.events
    /\ collector' = DeliverAll(collector, after.events)
    /\ outcome' = IF Failed(after) THEN after.err ELSE "open"

\* A label is emitted, or refused, as the pipeline has it;
LEMMA LabelDone ==
  ASSUME NEW em, NEW st, st.kind = "Label", NEW r, r = LowerLabel(em, st.name),
         StepTo(em, r.em), Holds(collector, stream)
  PROVE  Done(st, r.em)
<1> DEFINE after == r.em
           name == st.name
           e == Flat!LabelEvent(name)
<1> HIDE DEF e
<1>1. \/ /\ name \in Range(labels) \ DOMAIN collector.marks
         /\ after.events = Append(<<>>, e)
         /\ after.defined = em.defined \cup {name} /\ after.err = "ok"
      \/ /\ after.events = <<>> /\ after.defined = em.defined
         /\ \/ name \notin Range(labels) /\ after.err = "UnknownLabel"
            \/ name \in Range(labels) \cap DOMAIN collector.marks /\ after.err = "DuplicateLabel"
  BY LabelReports DEF StepTo, e
<1>2. /\ stream' = stream \o after.events /\ collector' = DeliverAll(collector, after.events)
      /\ outcome' = IF after.err # "ok" THEN after.err ELSE "open"
      /\ em.defined = DOMAIN collector.marks /\ em.defined \subseteq Range(labels)
      /\ IsList(stream) /\ HasShape(collector)
  BY DEF StepTo, Failed, IsCollector, HasShape
<1>3. Plan!IsLabel(st)
  BY DEF Plan!IsLabel
<1> HIDE DEF after
<1>4. CASE after.events = <<>> /\ after.err \in {"UnknownLabel", "DuplicateLabel"}
  <2> DEFINE events == after.events
  <2>1. IsList(events) /\ Len(events) = 0
    BY <1>4 DEF IsList, Range
  <2>2. collector' = collector
    BY <1>2, <2>1, DeliveredFew
  <2>3. stream' = stream \o events
    BY <1>2
  <2> HIDE DEF events
  <2>4. stream' = stream
    BY <1>2, <2>1, <2>3, JoinNothing
  <2>6. Fails(st)
    BY <1>1, <1>2, <1>3, <1>4, <2>2, <2>4 DEF Fails, LabelFails
  <2> QED
    BY <1>1, <1>2, <1>4, <2>2, <2>6 DEF Done, after
<1>5. CASE after.err = "ok"
  <2> DEFINE events == after.events
             none == <<>>
  <2>1. IsList(none) /\ Len(none) = 0
    BY DEF IsList, Range
  <2>2. events = Append(none, e) /\ name \in Range(labels) \ DOMAIN collector.marks
    BY <1>1, <1>5
  <2> HIDE DEF none
  <2>3. /\ IsList(Append(none, e)) /\ Len(Append(none, e)) = Len(none) + 1
        /\ Append(none, e)[Len(none) + 1] = e
    BY <2>1, ListAppended
  <2>4. stream' = stream \o events
    BY <1>2
  <2>5. collector' = DeliverAll(collector, events)
    BY <1>2
  <2> HIDE DEF events
  <2>6. IsList(events) /\ Len(events) = 1 /\ events[1] = e
    BY <2>1, <2>2, <2>3
  <2>7. collector' = Flat!Deliver(collector, e)
    BY <2>5, <2>6, DeliveredFew
  <2>8. stream' = Append(stream, e)
    BY <1>2, <2>4, <2>6, JoinOne
  <2>9. EmitLabel(name)
    BY <2>2, <2>7, <2>8 DEF EmitLabel, e
  <2>10. Emits(st)
    BY <1>2, <1>3, <1>5, <2>9 DEF Emits
  <2>11. DOMAIN collector'.marks = DOMAIN collector.marks \cup {name}
    BY <2>2, <2>7, LabelTaken DEF e
  <2>12. HasShape(collector')
    <3>1. e.event = "label"
      BY DEF e, Flat!LabelEvent
    <3> QED
      BY <1>2, <2>7, <3>1, ShapeKept
  <2> QED
    BY <1>1, <1>2, <1>5, <2>2, <2>10, <2>11, <2>12 DEF Done, after
<1>6. Done(st, after)
  BY <1>1, <1>4, <1>5 DEF after
<1> QED
  BY <1>6 DEF after

\* so is a statement that computes, or fails on the way,
LEMMA ComputedDone ==
  ASSUME NEW em, NEW r, NEW out, Computes(em, r.em, out), StepTo(em, r.em),
         NEW planned, planned.kind # "Label",
         r.em.err \in {"ok", "UnknownLabel"} \cup ExprErrors,
         r.em.err = "UnknownLabel" => Dangles(planned),
         r.em.err = "ok" => planned.kind \notin Plan!FlowKind
  PROVE  Done(planned, r.em)
<1> DEFINE after == r.em
<1>1. IsList(after.events) /\ ComputesUpTo(after.events, Len(after.events))
  BY ComputedEvents DEF StepTo, Ready
<1>2. ReportsOps
  BY <1>1, OpsReported DEF StepTo
<1>3. after.defined = DOMAIN collector.marks /\ after.defined \subseteq Range(labels)
  BY DEF Computes, Keeps, StepTo
<1>4. HasShape(collector') /\ collector'.marks = collector.marks
  BY <1>2, ShapeKept DEF ReportsOps, StepTo, IsCollector
<1>5. outcome' = IF after.err # "ok" THEN after.err ELSE "open"
  BY DEF StepTo, Failed
<1>6. ~Plan!IsLabel(planned)
  BY DEF Plan!IsLabel
<1>7. ExprErrors \subseteq LowerErrors \ {"DuplicateLabel"} /\ "open" \notin LowerErrors
      /\ "UnknownLabel" \in LowerErrors
  BY DEF ExprErrors, LowerErrors
<1>8. CASE after.err = "ok"
  <2>1. Emits(planned)
    BY <1>2, <1>5, <1>8 DEF Emits
  <2> QED
    BY <1>3, <1>4, <1>8, <2>1 DEF Done
<1>9. CASE after.err # "ok"
  <2>1. outcome' \in LowerErrors \ {"DuplicateLabel"} /\ outcome' # "open"
    BY <1>5, <1>7, <1>9
  <2>2. Fails(planned)
    BY <1>2, <1>5, <1>6, <1>9, <2>1 DEF Fails
  <2> QED
    BY <1>3, <1>4, <2>1, <2>2 DEF Done
<1> QED
  BY <1>8, <1>9

\* and one that ends with its own event.
LEMMA EndedDone ==
  ASSUME NEW em, NEW r, NEW e, Ends(em, r, e), StepTo(em, r.em),
         NEW planned, planned.kind # "Label",
         IF planned.kind \in Plan!FlowKind THEN FlowEvent(planned, e)
         ELSE e.event = "op" /\ e.opcode \notin Range(DirectOpcode)
  PROVE  Done(planned, r.em)
<1> DEFINE after == r.em
<1>1. PICK n \in Nat : /\ Len(after.events) = n + 1 /\ after.events[n + 1] = e
                       /\ ComputesUpTo(after.events, n)
  BY EndedEvents DEF StepTo, Ready
<1>2. after.err = "ok" /\ after.defined = em.defined /\ IsList(after.events)
  BY EndedEvents DEF StepTo, Ready
<1>3. after.defined = DOMAIN collector.marks /\ after.defined \subseteq Range(labels)
  BY <1>2 DEF StepTo
<1>4. outcome' = "open"
  BY <1>2 DEF StepTo, Failed
<1>5. e.event \in {"op", "branch"}
  BY DEF Ends, Ending
<1>6. HasShape(collector)
  BY DEF StepTo, IsCollector
<1>7. CASE planned.kind \in Plan!FlowKind
  <2>1. /\ Len(stream) < Len(stream') /\ stream'[Len(stream')] = e
        /\ ReportsLast(e)
    BY <1>1, <1>2, LastReported DEF StepTo
  <2>2. Emits(planned)
    BY <1>4, <1>7, <2>1 DEF Emits, EmitFlow
  <2>3. HasShape(collector') /\ collector'.marks = collector.marks
    <3> DEFINE c == WithOps(collector, New(1))
    <3>1. HasShape(c) /\ c.marks = collector.marks
      BY <1>6, ShapeKept
    <3>2. collector' = Flat!Deliver(c, e)
      BY <2>1 DEF ReportsLast
    <3> HIDE DEF c
    <3> QED
      BY <1>5, <3>1, <3>2, ShapeKept
  <2> QED
    BY <1>2, <1>3, <2>2, <2>3 DEF Done
<1>8. CASE planned.kind \notin Plan!FlowKind
  <2>1. ComputesUpTo(after.events, Len(after.events))
    BY <1>1, <1>8 DEF ComputesUpTo
  <2>2. ReportsOps
    BY <1>2, <2>1, OpsReported DEF StepTo
  <2>3. HasShape(collector') /\ collector'.marks = collector.marks
    BY <1>6, <2>2, ShapeKept DEF ReportsOps
  <2>4. Emits(planned)
    BY <1>4, <1>8, <2>2 DEF Emits
  <2> QED
    BY <1>2, <1>3, <2>3, <2>4 DEF Done
<1> QED
  BY <1>7, <1>8

\* So is every statement.
LEMMA StatementDone ==
  ASSUME PipeInv, EmitterInv, EmitStep, NEW st, NEW em, NEW r, Emitting(st, em, r)
  PROVE  Done(fed[emitted + 1], r.em)
<1> DEFINE planned == fed[emitted + 1]
<1>1. planned = PlannedStatement(st) /\ StatementDoes(em, st, r)
  BY DEF Emitting
<1>2. StepTo(em, r.em) /\ Holds(collector, stream)
  BY DEF EmitStep, Emitting, EmitterInv, StepTo, PipeInv, Holds
<1>3. /\ "UnknownLabel" \notin ExprErrors /\ "Plain" \notin Plan!FlowKind
  BY DEF ExprErrors, Plan!FlowKind
<1> HIDE DEF planned
<1>4. CASE st.kind = "Label" /\ r = LowerLabel(em, st.name)
  <2>1. planned = st
    BY <1>1, <1>4, PlannedKinds
  <2> QED
    BY <1>2, <1>4, <2>1, LabelDone DEF planned
<1>5. CASE st.kind \in Plan!FlowKind /\ Flows(em, PlannedStatement(st), r)
  <2>1. planned.kind \in Plan!FlowKind /\ planned.kind # "Label"
    BY <1>1, <1>5, PlannedKinds
  <2>2. CASE \E e : Ends(em, r, e) /\ FlowEvent(planned, e)
    BY <1>2, <2>1, <2>2, EndedDone DEF planned
  <2>3. CASE /\ Failed(r.em) /\ Computes(em, r.em, None)
             /\ r.em.err \in {"UnknownLabel"} \cup ExprErrors
             /\ r.em.err = "UnknownLabel" => Dangles(planned)
    BY <1>2, <2>1, <2>3, ComputedDone DEF planned, Failed
  <2> QED
    BY <1>1, <1>5, <2>2, <2>3 DEF Flows
<1>6. CASE st.kind \notin {"Label"} \cup Plan!FlowKind /\ (Assigns(em, r) \/ Performs(em, r))
  <2>1. planned.kind = "Plain"
    BY <1>1, <1>6, PlannedKinds
  <2>2. CASE /\ \E out : Computes(em, r.em, out)
             /\ r.em.err \in {"ok"} \cup ExprErrors
    BY <1>2, <1>3, <2>1, <2>2, ComputedDone DEF planned
  <2>3. CASE \E e : Ends(em, r, e) /\ e.event = "op" /\ e.opcode \notin Range(DirectOpcode)
    BY <1>2, <1>3, <2>1, <2>3, EndedDone DEF planned
  <2> QED
    BY <1>6, <2>2, <2>3 DEF Assigns, Performs, Lowers
<1> QED
  BY <1>1, <1>4, <1>5, <1>6 DEF StatementDoes

\* A statement emitted is one that the pipeline may emit.
LEMMA EmissionIsOne ==
  ASSUME PipeInv, EmitterInv, EmitStep, NEW st, NEW em, NEW r, Emitting(st, em, r)
  PROVE  EmitOne
<1>1. Emits(fed[emitted + 1]) \/ Fails(fed[emitted + 1])
  BY StatementDone DEF Done
<1>2. /\ finished /\ outcome = "open" /\ emitted < Len(statements)
      /\ emitted' = emitted + 1 /\ UNCHANGED <<inferVars, planVars>>
  BY DEF EmitStep
<1> QED
  BY <1>1, <1>2 DEF EmitOne, inferVars

----------------------------------------------------------------------------
(* The invariant.                                                          *)

\* The emitter and the collector keep agreeing.
LEMMA EmissionKeepsEmitter ==
  ASSUME PipeInv, EmitterInv, EmitStep, NEW st, NEW em, NEW r, Emitting(st, em, r), PipeInv'
  PROVE  EmitterInv'
<1>1. Done(fed[emitted + 1], r.em)
  BY StatementDone
<1>2. /\ UNCHANGED <<sizes, done, finished, labels>> /\ finished
  BY DEF EmitStep, inferVars, planVars
<1>3. IsCollector(collector)'
  BY <1>1 DEF Done, PipeInv, Holds, IsCollector, HasShape
<1>4. /\ IsEmitter(emitter') /\ emitter'.labels = labels /\ emitter'.sizes = sizes
      /\ emitter'.defined \subseteq Range(labels)
      /\ outcome' = "open" =>
            emitter'.err = "ok" /\ emitter'.defined = DOMAIN collector'.marks
  BY <1>1 DEF Emitting, WellEmitted, Done
<1>5. IsEmitter(emitter)'
  BY <1>4 DEF IsEmitter, Home, End, IsList
<1> QED
  BY <1>2, <1>3, <1>4, <1>5 DEF EmitterInv

\* What a statement emits is raw p-code, with operands of widths that go
\* together.
LEMMA EmissionIsWellTyped ==
  ASSUME OpsWellTyped, IsList(stream), NEW st, NEW em, NEW r, Emitting(st, em, r),
         stream' = stream \o r.em.events
  PROVE  OpsWellTyped'
<1> DEFINE events == r.em.events
<1>1. WellEmitted(em, r.em)
  BY DEF Emitting
<1>2. IsList(events) /\ Len(events) \in Nat /\ DOMAIN events = 1 .. Len(events)
  BY <1>1, EventsList DEF WellEmitted, IsEmitter
<1>3. \A n \in DOMAIN events : IsEvent(events[n])
  BY <1>1 DEF WellEmitted
<1>4. stream' = stream \o events
  OBVIOUS
<1> HIDE DEF events
<1>5. /\ Len(stream) \in Nat /\ DOMAIN stream = 1 .. Len(stream)
      /\ DOMAIN stream' = 1 .. Len(stream) + Len(events)
      /\ \A k \in 1 .. Len(stream) : stream'[k] = stream[k]
      /\ \A n \in 1 .. Len(events) : stream'[Len(stream) + n] = events[n]
  <2>1. DOMAIN stream = 1 .. Len(stream)
    BY DEF IsList
  <2> QED
    BY <1>2, <1>4, <2>1, ConcatLemma
<1>6. ASSUME NEW k \in DOMAIN stream' PROVE IsEvent(stream'[k])
  <2>1. CASE k \in 1 .. Len(stream)
    BY <1>5, <2>1 DEF OpsWellTyped, IsEvent
  <2>2. CASE k \notin 1 .. Len(stream)
    <3>1. k - Len(stream) \in 1 .. Len(events) /\ k = Len(stream) + (k - Len(stream))
      BY <1>2, <1>5, <2>2
    <3>2. stream'[k] = events[k - Len(stream)]
      BY <1>5, <3>1
    <3> QED
      BY <1>2, <1>3, <3>1, <3>2
  <2> QED
    BY <2>1, <2>2
<1> QED
  BY <1>6 DEF OpsWellTyped, IsEvent

\* Nothing is written before a statement's last operation but temporaries.
LEMMA EmissionWritesLast ==
  ASSUME NEW st, NEW em, NEW r, Emitting(st, em, r)
  PROVE  StorageWrittenLast'
<1> DEFINE after == r.em
           events == after.events
<1>1. /\ emitter' = after /\ IsEmitter(em) /\ WellEmitted(em, after)
  BY DEF Emitting, Ready
<1>2. Homes' = Placed(after)
  BY <1>1 DEF Homes, Placed
<1>3. IsEmitter(after) /\ StorageGrew(em, after)
  BY <1>1 DEF WellEmitted
<1>4. DOMAIN events = 1 .. Len(events) /\ Len(events) \in Nat
  BY <1>3, EventsList
<1> HIDE DEF after
<1>5. ASSUME NEW n \in DOMAIN events, TakesBytes(em, after, n)
      PROVE  /\ events[n].opcode # "Store"
             /\ IsTemporary(events[n].output)'
  <2> DEFINE v == events[n].output
  <2>1. v \in Home /\ em.next <= v.offset /\ events[n].opcode # "Store"
        /\ \A id \in NewHomes(em, after) : Apart(v, Placed(after)[id])
    BY <1>5 DEF TakesBytes
  <2>2. ASSUME NEW id \in DOMAIN Placed(after)
        PROVE  ~Overlap(v, Placed(after)[id])
    <3>1. Placed(after)[id] \in Home
      BY <1>3 DEF Placed, HomesOf, IsEmitter
    <3>2. CASE id \in NewHomes(em, after)
      BY <2>1, <3>1, <3>2, OverlapIsNotApart
    <3>3. CASE id \notin NewHomes(em, after)
      <4>1. id \in DOMAIN Placed(em)
        BY <3>3 DEF NewHomes
      <4>2. Placed(after)[id] = Placed(em)[id]
        BY <1>3, <4>1 DEF StorageGrew, GrowsTo
      <4>3. End(Placed(em)[id]) <= em.next /\ em.next \in Nat
        BY <1>1, <4>1 DEF IsEmitter, Placed, HomesOf
      <4>4. Apart(Placed(after)[id], v)
        <5>1. End(Placed(after)[id]) \in Nat /\ v.offset \in Nat
          BY <2>1, <3>1, PieceShape
        <5> QED
          BY <2>1, <4>2, <4>3, <5>1 DEF Apart
      <4>5. Apart(v, Placed(after)[id])
        BY <4>4 DEF Apart
      <4> QED
        BY <2>1, <3>1, <4>5, OverlapIsNotApart
    <3> QED
      BY <3>2, <3>3
  <2>3. InUnique(v)
    BY <2>1, HomeAssumption DEF InUnique, Home
  <2> HIDE DEF v
  <2>4. IsTemporary(v)'
    BY <1>2, <2>2, <2>3 DEF IsTemporary, LocalHomes, Overlap, Bytes, InUnique
  <2> QED
    BY <2>1, <2>4 DEF v
<1>6. ASSUME NEW n \in DOMAIN events, n # Len(events) PROVE TakesBytes(em, after, n)
  BY <1>1, <1>6 DEF WellEmitted
<1>7. emitter'.events = events
  BY <1>1
<1>8. ASSUME NEW i \in DOMAIN events, NEW j \in DOMAIN events, i < j
      PROVE  /\ events[i].opcode # "Store"
             /\ IsTemporary(events[i].output)'
  BY <1>4, <1>5, <1>6, <1>8
<1> QED
  BY <1>7, <1>8 DEF StorageWrittenLast

\* The passes that are still under way when the sink was told nothing.
LEMMA BeforeEmission ==
  ASSUME PipeInv, EmitterInv, ~finished
  PROVE  /\ emitter = NewEmitter(<<>>, [id \in Local |-> None])
         /\ stream = <<>> /\ outcome = "open" /\ NothingTaken
         /\ DOMAIN collector.marks = {}
<1>1. /\ emitter = NewEmitter(<<>>, [id \in Local |-> None])
      /\ stream = <<>> /\ outcome = "open" /\ collector = Flat!NewCollector
  BY DEF PipeInv, FedInOrder, EmitterInv
<1>2. emitter.next = 0 /\ emitter.locals = [id \in Local |-> None]
  BY <1>1 DEF NewEmitter
<1>3. DOMAIN Homes = {} /\ Pointer = 0
  BY <1>2 DEF Homes, HomesOf, Pointer
<1> QED
  BY <1>1, <1>3 DEF NothingTaken, Flat!NewCollector

\* Each step keeps the invariant, and is a step or a stutter of the pipeline
\* and of the growing space: inference,
LEMMA InferenceKeeps ==
  ASSUME SizeRecurs, ConstrainRecurs, LocalsRecur, LowerInv, InferStep
  PROVE  LowerInv' /\ UNCHANGED pipeVars /\ UNCHANGED spaceVars
<1>1. /\ Infer!Next /\ ~done
      /\ UNCHANGED <<statements, planVars, emitter, sinkVars>>
  BY DEF InferStep, Infer!Next, Infer!FeedStatement, Infer!NextPass, Infer!Finish
<1>2. Widths!InferInv'
  BY <1>1, LoopKept DEF LowerInv
<1>3. UNCHANGED pipeVars
  BY <1>1 DEF pipeVars
<1>4. PipeInv'
  BY <1>3, StutterKeeps DEF LowerInv
<1>5. UNCHANGED <<finished, labels, emitter, collector, outcome, stream>>
  BY <1>1 DEF planVars, sinkVars
<1>6. UNCHANGED spaceVars
  BY <1>5 DEF spaceVars
<1>7. sizes' \in [Local -> Count] /\ done' \in BOOLEAN
  BY <1>2 DEF Widths!InferInv, Widths!TypeOK, Count
<1>8. ~finished
  BY <1>1 DEF LowerInv, EmitterInv
<1>9. EmitterInv'
  BY <1>5, <1>7, <1>8 DEF LowerInv, EmitterInv, IsCollector, HasShape, IsList
<1>10. OpsWellTyped'
  BY <1>5 DEF LowerInv, OpsWellTyped
<1>11. StorageWrittenLast'
  BY <1>5 DEF LowerInv, StorageWrittenLast, IsTemporary, LocalHomes, Homes
<1> QED
  BY <1>2, <1>3, <1>4, <1>6, <1>9, <1>10, <1>11 DEF LowerInv

\* planning a statement,
LEMMA PlanKeeps ==
  ASSUME SizeRecurs, ConstrainRecurs, LocalsRecur, LowerInv, PlanStep
  PROVE  LowerInv' /\ PipeNext /\ UNCHANGED spaceVars
<1>1. /\ done /\ PlanOne /\ UNCHANGED <<inferVars, emitter, sinkVars>>
  BY DEF PlanStep, PlanOne
<1>2. ~finished /\ finished' = finished
  BY <1>1 DEF PlanOne, Plan!Feed
<1>3. Widths!InferInv'
  BY <1>1, LoopKept DEF LowerInv
<1>4. PipeInv'
  BY <1>1, PlanningKeeps DEF LowerInv
<1>5. UNCHANGED <<sizes, done, emitter, collector, outcome, stream>>
  BY <1>1 DEF inferVars, sinkVars
<1>6. UNCHANGED spaceVars
  BY <1>5 DEF spaceVars
<1>7. EmitterInv'
  BY <1>2, <1>5 DEF LowerInv, EmitterInv, IsCollector, HasShape, IsList
<1>8. OpsWellTyped'
  BY <1>5 DEF LowerInv, OpsWellTyped
<1>9. StorageWrittenLast'
  BY <1>5 DEF LowerInv, StorageWrittenLast, IsTemporary, LocalHomes, Homes
<1> QED
  BY <1>1, <1>3, <1>4, <1>6, <1>7, <1>8, <1>9 DEF LowerInv, PipeNext

\* starting emission,
LEMMA StartKeeps ==
  ASSUME SizeRecurs, ConstrainRecurs, LocalsRecur, LowerInv, StartEmission
  PROVE  LowerInv' /\ PipeNext /\ Begin
<1>1. /\ done /\ EndPlan /\ emitter' = NewEmitter(labels, sizes)
      /\ UNCHANGED <<inferVars, sinkVars>>
  BY DEF StartEmission, EndPlan
<1>2. ~finished /\ finished' = TRUE /\ UNCHANGED <<labels, fed>>
  BY <1>1 DEF EndPlan, Plan!Finish, Plan!planVars
<1>3. Widths!InferInv'
  BY <1>1, LoopKept DEF LowerInv
<1>4. PipeInv'
  BY <1>1, PlanningKeeps DEF LowerInv
<1>5. UNCHANGED <<sizes, done, collector, outcome, stream>>
  BY <1>1 DEF inferVars, sinkVars
<1>6. /\ emitter = NewEmitter(<<>>, [id \in Local |-> None])
      /\ stream = <<>> /\ outcome = "open" /\ NothingTaken
      /\ DOMAIN collector.marks = {}
  BY <1>2, BeforeEmission DEF LowerInv
<1>7. Begin
  BY <1>1, <1>5, <1>6 DEF Begin, NewEmitter
<1>8. sizes \in [Local -> Count]
  BY DEF LowerInv, EmitterInv
<1>9. IsEmitter(NewEmitter(labels, sizes))
  <2>1. IsList(<<>>)
    BY DEF IsList
  <2> QED
    BY <1>8, <2>1, SpaceAssumption DEF IsEmitter, NewEmitter
<1>10. emitter'.labels = labels /\ emitter'.sizes = sizes /\ emitter'.defined = {}
       /\ emitter'.err = "ok" /\ emitter'.events = <<>>
  BY <1>1 DEF NewEmitter
<1>11. IsEmitter(emitter)'
  BY <1>1, <1>9 DEF IsEmitter, Home, End, IsList
<1>12. EmitterInv'
  BY <1>1, <1>2, <1>5, <1>6, <1>10, <1>11 DEF LowerInv, EmitterInv, IsCollector, HasShape, IsList
<1>13. OpsWellTyped'
  BY <1>5 DEF LowerInv, OpsWellTyped
<1>14. StorageWrittenLast'
  BY <1>10 DEF StorageWrittenLast
<1> QED
  BY <1>1, <1>3, <1>4, <1>7, <1>12, <1>13, <1>14 DEF LowerInv, PipeNext

\* emitting a statement,
LEMMA StepKeeps ==
  ASSUME SizeRecurs, ConstrainRecurs, LocalsRecur, LowerRecurs, LowerInv, EmitStep
  PROVE  LowerInv' /\ PipeNext /\ Grow
<1>1. PICK st, em, r : Emitting(st, em, r)
  BY EmitSetting DEF LowerInv
<1>2. IsList(stream)
  BY DEF LowerInv, PipeInv, Holds
<1>3. stream' = stream \o r.em.events /\ UNCHANGED inferVars
  BY <1>1 DEF EmitStep, Emitting
<1>4. Grow
  BY <1>1, <1>2, <1>3, EmissionGrows
<1>5. EmitOne
  BY <1>1, EmissionIsOne DEF LowerInv
<1>6. PipeInv'
  BY <1>5, EmissionKeeps DEF LowerInv
<1>7. EmitterInv'
  BY <1>1, <1>6, EmissionKeepsEmitter DEF LowerInv
<1>8. OpsWellTyped'
  BY <1>1, <1>2, <1>3, EmissionIsWellTyped DEF LowerInv
<1>9. StorageWrittenLast'
  BY <1>1, EmissionWritesLast
<1>10. Widths!InferInv'
  BY <1>3, LoopKept DEF LowerInv
<1> QED
  BY <1>4, <1>5, <1>6, <1>7, <1>8, <1>9, <1>10 DEF LowerInv, PipeNext

\* and resolving the branches.
LEMMA ResolutionKeeps ==
  ASSUME SizeRecurs, ConstrainRecurs, LocalsRecur, LowerInv, Resolve
  PROVE  LowerInv' /\ PipeNext /\ UNCHANGED spaceVars
<1>1. /\ ResolveBranches /\ UNCHANGED <<inferVars, emitter>>
  BY DEF Resolve
<1>2. /\ finished /\ outcome' # "open" /\ UNCHANGED <<statements, planVars, emitted, stream>>
      /\ \/ collector' = [collector EXCEPT !.ops = Flat!Resolved(collector)]
         \/ collector' = collector
  BY <1>1 DEF ResolveBranches
<1>3. Widths!InferInv'
  BY <1>1, LoopKept DEF LowerInv
<1>4. PipeInv'
  BY <1>1, ResolvingKeeps DEF LowerInv
<1>5. UNCHANGED <<sizes, done, emitter, stream, finished, labels>>
  BY <1>1, <1>2 DEF inferVars, planVars
<1>6. UNCHANGED spaceVars
  BY <1>5 DEF spaceVars
<1>7. HasShape(collector) /\ HasShape(collector)'
  BY <1>2 DEF LowerInv, EmitterInv, IsCollector, HasShape
<1>8. IsList(collector.ops)'
  BY <1>4 DEF PipeInv, Holds, IsList
<1>9. EmitterInv'
  BY <1>2, <1>5, <1>7, <1>8 DEF LowerInv, EmitterInv, IsCollector
<1>10. OpsWellTyped'
  BY <1>5 DEF LowerInv, OpsWellTyped
<1>11. StorageWrittenLast'
  BY <1>5 DEF LowerInv, StorageWrittenLast, IsTemporary, LocalHomes, Homes
<1> QED
  BY <1>1, <1>3, <1>4, <1>6, <1>9, <1>10, <1>11 DEF LowerInv, PipeNext

\* The hypotheses of what follows: the recursive functions are what their
\* definitions say of every expression.
Unfolding == SizeRecurs /\ ConstrainRecurs /\ LocalsRecur /\ LowerRecurs

\* It starts as they do,
LEMMA LowerInitially ==
  ASSUME Unfolding
  PROVE  Init => LowerInv /\ SpaceInit /\ PipeInit
<1> SUFFICES ASSUME Init PROVE LowerInv /\ SpaceInit /\ PipeInit
  OBVIOUS
<1>1. Infer!Init /\ PipeInit /\ emitter = NewEmitter(<<>>, [id \in Local |-> None])
  BY DEF Init
<1>2. Widths!InferInv
  BY <1>1, LoopStarts DEF Unfolding
<1>3. PipeInv
  BY <1>1, PipeInitially
<1>4. ~finished /\ stream = <<>> /\ collector = Flat!NewCollector
  BY <1>1 DEF PipeInit, Plan!Init
<1>5. sizes \in [Local -> Count] /\ done \in BOOLEAN
  BY <1>2 DEF Widths!InferInv, Widths!TypeOK, Count
<1>6. IsCollector(collector)
  BY <1>4 DEF IsCollector, HasShape, IsList, Flat!NewCollector
<1>7. EmitterInv
  BY <1>1, <1>4, <1>5, <1>6 DEF EmitterInv
<1>8. emitter.events = <<>> /\ emitter.next = 0 /\ emitter.locals = [id \in Local |-> None]
  BY <1>1 DEF NewEmitter
<1>9. OpsWellTyped /\ StorageWrittenLast
  BY <1>4, <1>8 DEF OpsWellTyped, StorageWrittenLast
<1> QED
  BY <1>1, <1>2, <1>3, <1>4, <1>7, <1>8, <1>9 DEF LowerInv, SpaceInit

\* and every step is a step or a stutter of theirs.
LEMMA LowerStep ==
  ASSUME Unfolding
  PROVE  LowerInv /\ [Next]_vars =>
            LowerInv' /\ [PipeNext]_pipeVars /\ [Begin \/ Grow]_spaceVars
<1> SUFFICES ASSUME LowerInv, [Next]_vars
             PROVE  LowerInv' /\ [PipeNext]_pipeVars /\ [Begin \/ Grow]_spaceVars
  OBVIOUS
<1> USE DEF Unfolding
<1>1. CASE InferStep
  BY <1>1, InferenceKeeps
<1>2. CASE PlanStep
  BY <1>2, PlanKeeps
<1>3. CASE StartEmission
  BY <1>3, StartKeeps
<1>4. CASE EmitStep
  BY <1>4, StepKeeps
<1>5. CASE Resolve
  BY <1>5, ResolutionKeeps
<1>6. CASE UNCHANGED vars
  <2>1. UNCHANGED <<inferVars, planVars, emitter, sinkVars>>
    BY <1>6 DEF vars
  <2>2. UNCHANGED pipeVars
    BY <2>1 DEF pipeVars, inferVars
  <2>3. UNCHANGED <<sizes, done, finished, labels, emitter, collector, outcome, stream>>
    BY <2>1 DEF inferVars, planVars, sinkVars
  <2>4. UNCHANGED spaceVars
    BY <2>3 DEF spaceVars
  <2>5. Widths!InferInv' /\ PipeInv'
    BY <2>1, <2>2, LoopKept, StutterKeeps DEF LowerInv
  <2>6. EmitterInv'
    BY <2>3 DEF LowerInv, EmitterInv, IsEmitter, Home, End, IsCollector, HasShape, IsList
  <2>7. OpsWellTyped' /\ StorageWrittenLast'
    BY <2>3 DEF LowerInv, OpsWellTyped, StorageWrittenLast, IsTemporary, LocalHomes, Homes
  <2> QED
    BY <2>2, <2>4, <2>5, <2>6, <2>7 DEF LowerInv
<1> QED
  BY <1>1, <1>2, <1>3, <1>4, <1>5, <1>6 DEF Next

\* The invariant has the types in it.
LEMMA LowerInvTyped == LowerInv => TypeOK
<1> SUFFICES ASSUME LowerInv PROVE TypeOK
  OBVIOUS
<1>1. PipeTypeOK /\ EmitterInv
  BY InvMeansTyped DEF LowerInv
<1>2. CASE finished
  BY <1>1, <1>2 DEF EmitterInv, IsEmitter, TypeOK
<1>3. CASE ~finished
  <2>1. emitter.next = 0 /\ emitter.defined = {}
    BY <1>1, <1>3 DEF EmitterInv, NewEmitter
  <2> QED
    BY <1>1, <1>3, <2>1, SpaceAssumption DEF EmitterInv, TypeOK
<1> QED
  BY <1>2, <1>3

(* Of any instruction, whatever its expressions: the invariant.            *)
THEOREM LoweringInvariant ==
  ASSUME Unfolding
  PROVE  Spec => []LowerInv
<1>1. Init => LowerInv
  BY LowerInitially
<1>2. LowerInv /\ [Next]_vars => LowerInv'
  BY LowerStep
<1> QED
  BY <1>1, <1>2, PTL DEF Spec

(* The passes' variables keep their types: the pointer stays within a word,*)
(* emission works with the widths that inference found, and defines only   *)
(* labels of the plan (`lower_instruction`).                               *)
THEOREM LoweringTyped ==
  ASSUME Unfolding
  PROVE  Spec => []TypeOK
BY LoweringInvariant, LowerInvTyped, PTL

(* Lowering implements the abstract pipeline, whatever the expressions: a  *)
(* statement reports its computation and then at most its one label, branch*)
(* or call, also when it fails (`emit_instruction`, `Emitter::statement`). *)
THEOREM LoweringIsPipeline ==
  ASSUME Unfolding
  PROVE  Spec => IsPipeline
<1>1. Init => PipeInit
  BY LowerInitially
<1>2. LowerInv /\ [Next]_vars => [PipeNext]_pipeVars
  BY LowerStep
<1> QED
  BY <1>1, <1>2, LoweringInvariant, PTL DEF Spec, IsPipeline, PipeSpec

(* The emitter's storage implements the growing space: every statement,    *)
(* also one that fails half way, takes bytes from the pointer on, moves no *)
(* home, and writes and reads nothing else of the unique space             *)
(* (`allocate_unique`, `storage_for_ident`).                               *)
THEOREM LoweringGrowsStorage ==
  ASSUME Unfolding
  PROVE  Spec => StorageGrows
<1>1. Init => SpaceInit
  BY LowerInitially
<1>2. LowerInv /\ [Next]_vars => [Begin \/ Grow]_spaceVars
  BY LowerStep
<1> QED
  BY <1>1, <1>2, LoweringInvariant, PTL DEF Spec, StorageGrows, SpaceSpec

(* Every operation emitted has a raw opcode, and an output with bytes if   *)
(* any.  The operands of a binary operator have one width; a load or store *)
(* names a space, at a pointer of its addresses' width; a truncation drops *)
(* less than there is.  The result has the operands' width, or one byte,   *)
(* as the opcode says - for copies and binary operators: of the result of  *)
(* a unary operator, a builtin function or a truncation nothing is said,   *)
(* as `lower_unop` and `lower_builtin` give it the width of its context    *)
(* (`Emitter::emit` and its callers).                                      *)
THEOREM OnlyRawOps ==
  ASSUME Unfolding
  PROVE  Spec => []OpsWellTyped
<1>1. LowerInv => OpsWellTyped
  BY DEF LowerInv
<1> QED
  BY <1>1, LoweringInvariant, PTL

(* A statement writes a register, a local or memory with its last operation*)
(* only (`Emitter::lower_statement`).                                      *)
THEOREM StorageIsWrittenLast ==
  ASSUME Unfolding
  PROVE  Spec => []StorageWrittenLast
<1>1. LowerInv => StorageWrittenLast
  BY DEF LowerInv
<1> QED
  BY <1>1, LoweringInvariant, PTL

(* When an instruction lowers, emission reported exactly the direct        *)
(* addresses and the labels that the plan has, each label once             *)
(* (`plan_instruction_with`, `emit_instruction`).                          *)
THEOREM LoweringMatchesPlan ==
  ASSUME Unfolding
  PROVE  Spec => []PlanMatchesEmission
BY LoweringIsPipeline, EmissionIsPlanned, PTL DEF IsPipeline

(* A terminal label is just past the last operation, and every label within*)
(* the instruction (`PcodePlan::is_terminal`, `Collector::finish`).        *)
THEOREM LoweringEndsTerminals ==
  ASSUME Unfolding
  PROVE  Spec => []TerminalIsPastEnd
BY LoweringIsPipeline, TerminalLabelsEnd, PTL DEF IsPipeline

(* Once every statement is emitted, resolving the branches cannot fail     *)
(* (`collect_ops`, `Collector::finish`).                                   *)
THEOREM LoweringResolves ==
  ASSUME Unfolding
  PROVE  Spec => []ResolutionNeverFails
BY LoweringIsPipeline, BranchesResolve, PTL DEF IsPipeline

(* An instruction that lowers defines no label twice and each one it goes  *)
(* to, and one that is refused for its labels does not                     *)
(* (`Emitter::lower_statement`, `direct_target`).                          *)
THEOREM LoweringRefusesExactly ==
  ASSUME Unfolding
  PROVE  Spec => []LabelErrorsExact
BY LoweringIsPipeline, LabelsRefusedExactly, PTL DEF IsPipeline

(* No byte is two locals', and no operation writes a local's in passing    *)
(* (`Emitter::allocate_unique`, `storage_for_ident`).                      *)
THEOREM LoweringKeepsLocalsApart ==
  ASSUME Unfolding
  PROVE  Spec => []LocalsDisjoint
BY LoweringGrowsStorage, StorageIsDisjoint, PTL DEF StorageGrows

(* A temporary is written by one operation and read only after it          *)
(* (`Emitter::output`).                                                    *)
THEOREM LoweringDefinesTemporaries ==
  ASSUME Unfolding
  PROVE  Spec => []TemporariesDefined
BY LoweringGrowsStorage, TemporariesAreDefined, PTL DEF StorageGrows

(* A local keeps its storage, at the width inference found                 *)
(* (`Emitter::storage_for_ident`).                                         *)
THEOREM LoweringMovesNoLocal ==
  ASSUME Unfolding
  PROVE  Spec => LocalsStayPut
BY LoweringGrowsStorage, HomesNeverMove, PTL DEF StorageGrows

(* Emission starts from widths that satisfy every statement, if the        *)
(* instruction has no more locals than statements (`infer_local_sizes`).   *)
THEOREM LoweringInfersFixedPoint ==
  ASSUME Unfolding
  PROVE  Spec => []Infer!FixedPointWhenLocalsFit
<1>1. LowerInv => Infer!FixedPointWhenLocalsFit
  BY SameLoop DEF LowerInv, Widths!InferInv
<1> QED
  BY <1>1, LoweringInvariant, PTL

----------------------------------------------------------------------------
(* Flattening.                                                             *)

\* One list after another, as an operator of its own.
Joined(a, b) == a \o b

\* Joining keeps the type,
LEMMA JoinedType ==
  ASSUME NEW S, NEW a \in Seq(S), NEW b \in Seq(S)
  PROVE  Joined(a, b) \in Seq(S)
  BY ConcatProperties DEF Joined

\* is associative,
LEMMA JoinedTwice ==
  ASSUME NEW S, NEW a \in Seq(S), NEW b \in Seq(S), NEW c \in Seq(S)
  PROVE  Joined(Joined(a, b), c) = Joined(a, Joined(b, c))
  BY ConcatAssociative DEF Joined

\* and does nothing with nothing.
LEMMA JoinedNothing ==
  ASSUME NEW S, NEW a \in Seq(S)
  PROVE  Joined(<<>>, a) = a /\ Joined(a, <<>>) = a
  BY ConcatEmptySeq DEF Joined

\* What joining two lists gives, member by member.
LEMMA JoinedIs ==
  ASSUME NEW S, NEW a \in Seq(S), NEW b \in Seq(S), NEW c \in Seq(S),
         Len(c) = Len(a) + Len(b),
         \A n \in 1 .. Len(a) : c[n] = a[n],
         \A n \in 1 .. Len(b) : c[Len(a) + n] = b[n]
  PROVE  c = Joined(a, b)
<1> DEFINE ab == a \o b
<1>1. /\ ab \in Seq(S) /\ Len(ab) = Len(a) + Len(b)
      /\ \A n \in 1 .. Len(a) + Len(b) : ab[n] = IF n <= Len(a) THEN a[n] ELSE b[n - Len(a)]
  BY ConcatProperties
<1>2. Len(a) \in Nat /\ Len(b) \in Nat
  OBVIOUS
<1> HIDE DEF ab
<1>3. ASSUME NEW n \in 1 .. Len(c) PROVE c[n] = ab[n]
  <2>1. CASE n <= Len(a)
    BY <1>1, <1>2, <2>1
  <2>2. CASE ~(n <= Len(a))
    <3>1. n - Len(a) \in 1 .. Len(b) /\ Len(a) + (n - Len(a)) = n
      BY <1>2, <2>2
    <3> QED
      BY <1>1, <1>2, <2>2, <3>1
  <2> QED
    BY <2>1, <2>2
<1>4. c = ab
  BY <1>1, <1>3, SeqEqual
<1> QED
  BY <1>4 DEF ab, Joined

\* `p` flattens more and more of a list of lists.
Flattens(p, seqs, S) ==
    /\ p[0] = <<>>
    /\ \A n \in 1 .. Len(seqs) : p[n] = Joined(p[n - 1], seqs[n])
    /\ \A n \in 0 .. Len(seqs) : p[n] \in Seq(S)

\* A list of lists is flattened one by one.
LEMMA FlattenUnfolds ==
  ASSUME NEW S, NEW seqs \in Seq(Seq(S))
  PROVE  \E p : Flattens(p, seqs, S) /\ FlattenSeq(seqs) = p[Len(seqs)]
<1> DEFINE Runs(k) == \E g : g = [n \in 1 .. k |-> IF n = 1 THEN seqs[n] ELSE g[n - 1] \o seqs[n]]
           Good == {k \in Nat : Runs(k)}
<1> HIDE DEF Runs, Good
<1>0. Len(seqs) \in Nat /\ \A n \in 1 .. Len(seqs) : seqs[n] \in Seq(S)
  OBVIOUS
<1> USE DEF Runs, Good
<1>1. Runs(0)
  <2> DEFINE g == [n \in 1 .. 0 |-> <<>>]
  <2>1. g = [n \in 1 .. 0 |-> IF n = 1 THEN seqs[n] ELSE g[n - 1] \o seqs[n]]
    OBVIOUS
  <2> QED
    BY <2>1
<1>2. ASSUME NEW k \in Nat, k # 0, Runs(k - 1) PROVE Runs(k)
  <2>1. PICK g : g = [n \in 1 .. k - 1 |-> IF n = 1 THEN seqs[n] ELSE g[n - 1] \o seqs[n]]
    BY <1>2
  <2> DEFINE new == IF k = 1 THEN seqs[k] ELSE g[k - 1] \o seqs[k]
             h == [n \in 1 .. k |-> IF n = k THEN new ELSE g[n]]
  <2>2. ASSUME NEW n \in 1 .. k
        PROVE  h[n] = IF n = 1 THEN seqs[n] ELSE h[n - 1] \o seqs[n]
    <3>1. CASE n = k
      <4>1. n # 1 => h[n - 1] = g[n - 1]
        BY <1>2, <3>1
      <4> QED
        BY <1>2, <3>1, <4>1
    <3>2. CASE n # k
      <4>1. n \in 1 .. k - 1 /\ (n # 1 => n - 1 \in 1 .. k - 1 /\ n - 1 # k)
        BY <1>2, <3>2
      <4>2. h[n] = g[n] /\ (n # 1 => h[n - 1] = g[n - 1])
        BY <1>2, <3>2, <4>1
      <4>3. g[n] = IF n = 1 THEN seqs[n] ELSE g[n - 1] \o seqs[n]
        BY <2>1, <4>1
      <4> QED
        BY <4>2, <4>3
    <3> QED
      BY <3>1, <3>2
  <2>3. h = [n \in 1 .. k |-> h[n]]
    OBVIOUS
  <2> HIDE DEF h
  <2>4. h = [n \in 1 .. k |-> IF n = 1 THEN seqs[n] ELSE h[n - 1] \o seqs[n]]
    BY <2>2, <2>3
  <2> QED
    BY <2>4
<1> HIDE DEF Runs
<1>3. 0 \in Good /\ \A k \in 1 .. Len(seqs) : k - 1 \in Good => k \in Good
  BY <1>1, <1>2
<1>4. Runs(Len(seqs))
  <2> HIDE DEF Good
  <2>1. 0 .. Len(seqs) \subseteq Good
    BY <1>0, <1>3, UpTo
  <2> QED
    BY <1>0, <2>1 DEF Good
<1> DEFINE g == CHOOSE g : g = [n \in 1 .. Len(seqs) |-> IF n = 1 THEN seqs[n] ELSE g[n - 1] \o seqs[n]]
<1>5. g = [n \in 1 .. Len(seqs) |-> IF n = 1 THEN seqs[n] ELSE g[n - 1] \o seqs[n]]
  BY <1>4 DEF Runs
<1>6. FlattenSeq(seqs) = IF Len(seqs) = 0 THEN seqs ELSE g[Len(seqs)]
  BY DEF FlattenSeq
<1> HIDE DEF g
<1>7. \A n \in 1 .. Len(seqs) : g[n] = IF n = 1 THEN seqs[n] ELSE g[n - 1] \o seqs[n]
  BY <1>5
<1> DEFINE p == [n \in 0 .. Len(seqs) |-> IF n = 0 THEN <<>> ELSE g[n]]
<1>8. p[0] = <<>> /\ \A n \in 1 .. Len(seqs) : p[n] = g[n]
  BY <1>0
<1>9. FlattenSeq(seqs) = p[Len(seqs)]
  <2>1. Len(seqs) = 0 => seqs = <<>>
    OBVIOUS
  <2> QED
    BY <1>0, <1>6, <1>8, <2>1
<1> HIDE DEF p
<1>10. ASSUME NEW n \in 1 .. Len(seqs) PROVE p[n] = Joined(p[n - 1], seqs[n])
  <2>1. CASE n = 1
    <3>1. p[n] = seqs[1] /\ p[n - 1] = <<>> /\ seqs[1] \in Seq(S)
      BY <1>0, <1>7, <1>8, <2>1
    <3> QED
      BY <2>1, <3>1, JoinedNothing
  <2>2. CASE n # 1
    <3>1. n - 1 \in 1 .. Len(seqs)
      BY <1>0, <2>2
    <3> QED
      BY <1>7, <1>8, <2>2, <3>1 DEF Joined
  <2> QED
    BY <2>1, <2>2
<1>11. \A n \in 0 .. Len(seqs) : p[n] \in Seq(S)
  <2> DEFINE Typed == {n \in Nat : p[n] \in Seq(S)}
  <2>1. 0 \in Typed
    BY <1>8, EmptySeq
  <2>2. ASSUME NEW n \in 1 .. Len(seqs), n - 1 \in Typed PROVE n \in Typed
    <3>1. p[n] \in Seq(S)
      BY <1>0, <1>10, <2>2, JoinedType
    <3> QED
      BY <1>0, <3>1
  <2> HIDE DEF Typed
  <2>3. 0 .. Len(seqs) \subseteq Typed
    BY <1>0, <2>1, <2>2, UpTo
  <2> QED
    BY <2>3 DEF Typed
<1>12. Flattens(p, seqs, S)
  BY <1>8, <1>10, <1>11 DEF Flattens
<1> QED
  BY <1>9, <1>12

\* Nothing flattens to nothing, and one list to itself.
LEMMA FlattenFew ==
  ASSUME NEW S, NEW s \in Seq(S)
  PROVE  FlattenSeq(<<>>) = <<>> /\ FlattenSeq(<<s>>) = s
<1>1. FlattenSeq(<<>>) = <<>>
  BY DEF FlattenSeq
<1>2. FlattenSeq(<<s>>) = s
  <2> DEFINE one == <<s>>
  <2>1. one \in Seq(Seq(S)) /\ Len(one) = 1 /\ one[1] = s
    OBVIOUS
  <2> HIDE DEF one
  <2>2. PICK p : Flattens(p, one, S) /\ FlattenSeq(one) = p[Len(one)]
    BY <2>1, FlattenUnfolds
  <2>3. p[0] = <<>> /\ p[1] = Joined(p[1 - 1], one[1])
    BY <2>1, <2>2 DEF Flattens
  <2>4. p[1] = s
    BY <2>1, <2>3, JoinedNothing
  <2> QED
    BY <2>1, <2>2, <2>4 DEF one
<1> QED
  BY <1>1, <1>2

\* Flattening keeps the type, and takes lists apart where one likes.
LEMMA FlattenJoined ==
  ASSUME NEW S, NEW s \in Seq(Seq(S)), NEW t \in Seq(Seq(S))
  PROVE  /\ FlattenSeq(s) \in Seq(S)
         /\ FlattenSeq(s \o t) = Joined(FlattenSeq(s), FlattenSeq(t))
<1> DEFINE all == s \o t
<1>1. /\ Len(s) \in Nat /\ Len(t) \in Nat
      /\ all \in Seq(Seq(S)) /\ Len(all) = Len(s) + Len(t)
      /\ \A n \in 1 .. Len(s) : all[n] = s[n]
      /\ \A n \in 1 .. Len(t) : all[Len(s) + n] = t[n] /\ t[n] \in Seq(S)
  BY ConcatProperties
<1> HIDE DEF all
<1>2. PICK p : Flattens(p, all, S) /\ FlattenSeq(all) = p[Len(all)]
  BY <1>1, FlattenUnfolds
<1>3. PICK q : Flattens(q, s, S) /\ FlattenSeq(s) = q[Len(s)]
  BY FlattenUnfolds
<1>4. PICK r : Flattens(r, t, S) /\ FlattenSeq(t) = r[Len(t)]
  BY FlattenUnfolds
<1>5. p[Len(s)] = q[Len(s)] /\ q[Len(s)] \in Seq(S)
  <2> DEFINE Same == {n \in Nat : p[n] = q[n]}
  <2>1. 0 \in Same
    BY <1>2, <1>3 DEF Flattens
  <2>2. ASSUME NEW n \in 1 .. Len(s), n - 1 \in Same PROVE n \in Same
    <3>1. n \in Nat /\ n \in 1 .. Len(all)
      BY <1>1
    <3>2. p[n] = Joined(p[n - 1], all[n]) /\ q[n] = Joined(q[n - 1], s[n])
      BY <1>2, <1>3, <3>1 DEF Flattens
    <3>3. p[n] = q[n]
      BY <1>1, <2>2, <3>2
    <3> QED
      BY <3>1, <3>3
  <2> HIDE DEF Same
  <2>3. 0 .. Len(s) \subseteq Same
    BY <1>1, <2>1, <2>2, UpTo
  <2>4. q[Len(s)] \in Seq(S)
    BY <1>1, <1>3 DEF Flattens
  <2> QED
    BY <1>1, <2>3, <2>4 DEF Same
<1> DEFINE first == q[Len(s)]
<1>6. \A n \in 0 .. Len(t) : p[Len(s) + n] = Joined(first, r[n])
  <2> DEFINE Same == {n \in Nat : p[Len(s) + n] = Joined(first, r[n])}
  <2>0. first \in Seq(S) /\ p[Len(s)] = first
    BY <1>5
  <2> HIDE DEF first
  <2>1. 0 \in Same
    <3>1. r[0] = <<>> /\ Len(s) + 0 = Len(s)
      BY <1>1, <1>4 DEF Flattens
    <3> QED
      BY <2>0, <3>1, JoinedNothing
  <2>2. ASSUME NEW n \in 1 .. Len(t), n - 1 \in Same PROVE n \in Same
    <3>1. n \in Nat /\ n - 1 \in 0 .. Len(t) /\ Len(s) + n \in 1 .. Len(all)
          /\ Len(s) + n - 1 = Len(s) + (n - 1)
      BY <1>1
    <3>2. p[Len(s) + n] = Joined(p[Len(s) + n - 1], all[Len(s) + n])
      BY <1>2, <3>1 DEF Flattens
    <3>3. p[Len(s) + n] = Joined(Joined(first, r[n - 1]), t[n])
      BY <1>1, <2>2, <3>1, <3>2
    <3>4. r[n] = Joined(r[n - 1], t[n]) /\ r[n - 1] \in Seq(S) /\ t[n] \in Seq(S)
      BY <1>1, <1>4, <3>1 DEF Flattens
    <3>5. p[Len(s) + n] = Joined(first, r[n])
      BY <2>0, <3>3, <3>4, JoinedTwice
    <3> QED
      BY <3>1, <3>5
  <2> HIDE DEF Same
  <2>3. 0 .. Len(t) \subseteq Same
    BY <1>1, <2>1, <2>2, UpTo
  <2> QED
    BY <2>3 DEF Same
<1>7. FlattenSeq(all) = Joined(first, r[Len(t)])
  <2> HIDE DEF first
  <2> QED
    BY <1>1, <1>2, <1>6
<1> QED
  BY <1>3, <1>4, <1>5, <1>7 DEF all
----------------------------------------------------------------------------
(* The user operations that events call.                                   *)

Userops == Seq({e.id : e \in {f \in Expressions : f.kind = "PcodeOp"}})

\* A list of events that call user operations of the expressions, or none.
CallsUserops(events) ==
    IsList(events) /\ \A n \in DOMAIN events : CallOf(events[n]) \in Userops

\* The user operations that a list of events calls are a list of them.
LEMMA CallsAreLists ==
  ASSUME NEW events, CallsUserops(events),
         NEW calls, calls = [n \in DOMAIN events |-> CallOf(events[n])]
  PROVE  /\ calls \in Seq(Userops) /\ Len(calls) = Len(events)
         /\ UseropsCalled(events) = FlattenSeq(calls) /\ UseropsCalled(events) \in Userops
<1>1. Len(events) \in Nat /\ DOMAIN events = 1 .. Len(events)
  BY DEF CallsUserops, IsList
<1>2. \A n \in 1 .. Len(events) : calls[n] \in Userops
  BY <1>1 DEF CallsUserops
<1>3. calls \in Seq(Userops) /\ Len(calls) = Len(events)
  <2>1. calls \in [1 .. Len(events) -> Userops]
    BY <1>1, <1>2
  <2> HIDE DEF Userops
  <2> QED
    BY <1>1, <2>1
<1>4. UseropsCalled(events) = FlattenSeq(calls)
  BY DEF UseropsCalled
<1>5. FlattenSeq(calls) \in Userops
  BY <1>3, FlattenJoined DEF Userops
<1> QED
  BY <1>3, <1>4, <1>5

\* One list of events after another calls what the one calls, then what the
\* other does.
LEMMA CallsOfBoth ==
  ASSUME NEW s, NEW t, CallsUserops(s), CallsUserops(t)
  PROVE  /\ CallsUserops(s \o t)
         /\ UseropsCalled(s \o t) = Joined(UseropsCalled(s), UseropsCalled(t))
<1> DEFINE all == s \o t
           first == [n \in DOMAIN s |-> CallOf(s[n])]
           second == [n \in DOMAIN t |-> CallOf(t[n])]
           both == [n \in DOMAIN all |-> CallOf(all[n])]
<1>1. IsList(s) /\ IsList(t) /\ DOMAIN s = 1 .. Len(s) /\ DOMAIN t = 1 .. Len(t)
  BY DEF CallsUserops, IsList
<1>2. /\ IsList(all) /\ Len(s) \in Nat /\ Len(t) \in Nat
      /\ Len(all) = Len(s) + Len(t) /\ DOMAIN all = 1 .. Len(s) + Len(t)
      /\ \A k \in 1 .. Len(s) : all[k] = s[k]
      /\ \A k \in 1 .. Len(t) : all[Len(s) + k] = t[k]
  BY <1>1, ConcatLemma
<1> HIDE DEF all
<1>3. ASSUME NEW n \in 1 .. Len(s) + Len(t), n \notin 1 .. Len(s)
      PROVE  n - Len(s) \in 1 .. Len(t) /\ Len(s) + (n - Len(s)) = n
  <2>1. Len(s) \in Nat /\ Len(t) \in Nat
    BY <1>2
  <2> QED
    BY <1>3, <2>1
<1>4. CallsUserops(all)
  <2>1. ASSUME NEW n \in DOMAIN all PROVE CallOf(all[n]) \in Userops
    <3>1. CASE n \in 1 .. Len(s)
      BY <1>1, <1>2, <3>1 DEF CallsUserops
    <3>2. CASE n \notin 1 .. Len(s)
      <4>1. n - Len(s) \in 1 .. Len(t) /\ Len(s) + (n - Len(s)) = n
        BY <1>2, <1>3, <3>2
      <4>2. all[n] = t[n - Len(s)]
        BY <1>2, <4>1
      <4> QED
        BY <1>1, <4>1, <4>2 DEF CallsUserops
    <3> QED
      BY <3>1, <3>2
  <2> QED
    BY <1>2, <2>1 DEF CallsUserops
<1>5. /\ first \in Seq(Userops) /\ Len(first) = Len(s) /\ UseropsCalled(s) = FlattenSeq(first)
      /\ second \in Seq(Userops) /\ Len(second) = Len(t) /\ UseropsCalled(t) = FlattenSeq(second)
      /\ both \in Seq(Userops) /\ Len(both) = Len(all) /\ UseropsCalled(all) = FlattenSeq(both)
  <2> HIDE DEF first, second, both
  <2>1. first \in Seq(Userops) /\ Len(first) = Len(s) /\ UseropsCalled(s) = FlattenSeq(first)
    BY CallsAreLists DEF first
  <2>2. second \in Seq(Userops) /\ Len(second) = Len(t) /\ UseropsCalled(t) = FlattenSeq(second)
    BY CallsAreLists DEF second
  <2>3. both \in Seq(Userops) /\ Len(both) = Len(all) /\ UseropsCalled(all) = FlattenSeq(both)
    BY <1>4, CallsAreLists DEF both
  <2> QED
    BY <2>1, <2>2, <2>3
<1>6. /\ \A n \in 1 .. Len(s) : both[n] = first[n]
      /\ \A n \in 1 .. Len(t) : both[Len(s) + n] = second[n]
  <2>1. ASSUME NEW n \in 1 .. Len(s) PROVE both[n] = first[n]
    <3>1. n \in DOMAIN all /\ n \in DOMAIN s /\ all[n] = s[n]
      BY <1>1, <1>2
    <3> QED
      BY <3>1
  <2>2. ASSUME NEW n \in 1 .. Len(t) PROVE both[Len(s) + n] = second[n]
    <3>1. Len(s) + n \in DOMAIN all /\ n \in DOMAIN t /\ all[Len(s) + n] = t[n]
      BY <1>1, <1>2
    <3> QED
      BY <3>1
  <2> QED
    BY <2>1, <2>2
<1> HIDE DEF first, second, both
<1>7. both = first \o second
  <2>1. Len(both) = Len(first) + Len(second)
    BY <1>2, <1>5
  <2>2. /\ \A n \in 1 .. Len(first) : both[n] = first[n]
        /\ \A n \in 1 .. Len(second) : both[Len(first) + n] = second[n]
    BY <1>5, <1>6
  <2>3. both = Joined(first, second)
    BY <1>5, <2>1, <2>2, JoinedIs
  <2> QED
    BY <2>3 DEF Joined
<1>8. FlattenSeq(both) = Joined(FlattenSeq(first), FlattenSeq(second))
  BY <1>5, <1>7, FlattenJoined DEF Userops
<1> QED
  BY <1>4, <1>5, <1>8 DEF all

\* One event more calls what it calls, last.
LEMMA CallsOneMore ==
  ASSUME NEW events, CallsUserops(events), NEW e, CallOf(e) \in Userops
  PROVE  /\ CallsUserops(Append(events, e))
         /\ UseropsCalled(Append(events, e)) = Joined(UseropsCalled(events), CallOf(e))
<1> DEFINE last == <<e>>
           calls == <<CallOf(e)>>
<1>1. IsList(last) /\ DOMAIN last = {1} /\ last[1] = e
  <2>1. Range(last) = {e} /\ DOMAIN last = {1} /\ last[1] = e
    BY UnarySequence
  <2>2. last \in Seq({e})
    OBVIOUS
  <2> QED
    BY <2>1, <2>2 DEF IsList
<1>2. Append(events, e) = events \o last
  <2>1. events \in Seq(Range(events) \cup {e})
    <3>1. events \in Seq(Range(events))
      BY DEF CallsUserops, IsList
    <3> QED
      BY <3>1
  <2> QED
    BY <2>1, AppendIsConcat
<1>3. [n \in DOMAIN last |-> CallOf(last[n])] = calls
  OBVIOUS
<1> HIDE DEF last, calls
<1>4. CallsUserops(last) /\ UseropsCalled(last) = FlattenSeq(calls)
  BY <1>1, <1>3 DEF CallsUserops, UseropsCalled
<1>5. FlattenSeq(calls) = CallOf(e)
  BY FlattenFew DEF calls, Userops
<1> QED
  BY <1>2, <1>4, <1>5, CallsOfBoth

----------------------------------------------------------------------------
(* The user operations that lowering calls.                                *)

\* An emitter whose events call user operations of the expressions, or none.
Recorded(em) == {"events", "err"} \subseteq DOMAIN em /\ CallsUserops(em.events)

\* Lowering from `em` to `r` calls just `ids`, unless it fails.
Calls(em, r, ids) ==
    /\ Recorded(r.em)
    /\ ~Failed(r.em) =>
          UseropsCalled(r.em.events) = Joined(UseropsCalled(em.events), ids)

\* Nothing is called without an event,
LEMMA NoEventsCallNothing ==
  ASSUME NEW em, Recorded(em), NEW r,
         DOMAIN r.em = DOMAIN em, r.em.events = em.events
  PROVE  Calls(em, r, <<>>)
<1>1. UseropsCalled(em.events) \in Userops
  BY CallsAreLists DEF Recorded
<1>2. Joined(UseropsCalled(em.events), <<>>) = UseropsCalled(em.events)
  BY <1>1, JoinedNothing DEF Userops
<1> QED
  BY <1>2 DEF Calls, Recorded

\* so not for a value at hand,
LEMMA OkCalls ==
  ASSUME NEW em, Recorded(em), NEW v
  PROVE  Calls(em, Ok(em, v), <<>>)
  BY NoEventsCallNothing DEF Ok

\* and not for an error, which ends every call.
LEMMA ErrCalls ==
  ASSUME NEW em, Recorded(em), NEW error
  PROVE  /\ Calls(em, Err(em, error), <<>>)
         /\ error # "ok" => \A ids : Calls(em, Err(em, error), ids)
<1> DEFINE r == Err(em, error)
<1>1. DOMAIN r.em = DOMAIN em /\ r.em.events = em.events /\ r.em.err = error
  BY DEF Err, Recorded
<1> HIDE DEF r
<1>2. Calls(em, r, <<>>)
  BY <1>1, NoEventsCallNothing
<1>3. error # "ok" => Failed(r.em)
  BY <1>1 DEF Failed
<1> QED
  BY <1>2, <1>3 DEF Calls, r

\* An event calls what it names.
LEMMA ReportCalls ==
  ASSUME NEW em, Recorded(em), NEW e, CallOf(e) \in Userops, NEW v
  PROVE  Calls(em, Ok(Report(em, e), v), CallOf(e))
<1> DEFINE after == Report(em, e)
<1>1. DOMAIN after = DOMAIN em /\ after.events = Append(em.events, e)
  BY DEF Report, Recorded
<1>2. Ok(after, v).em = after
  BY DEF Ok
<1> HIDE DEF after
<1>3. /\ CallsUserops(Append(em.events, e))
      /\ UseropsCalled(Append(em.events, e)) = Joined(UseropsCalled(em.events), CallOf(e))
  BY CallsOneMore DEF Recorded
<1> QED
  BY <1>1, <1>2, <1>3 DEF Calls, Recorded, after

\* No user operation is one.
LEMMA NoUserops == <<>> \in Userops
  BY EmptySeq DEF Userops

\* An operation that is no call of a user operation calls none.
LEMMA EmitCalls ==
  ASSUME NEW em, Recorded(em), NEW opcode, opcode # "CallOther",
         NEW output, NEW inputs, NEW v
  PROVE  /\ Calls(em, Ok(Emit(em, opcode, output, inputs), v), <<>>)
         /\ Calls(em, EmitTo(em, opcode, output, inputs), <<>>)
<1> DEFINE o == [event |-> "op", opcode |-> opcode, output |-> output, inputs |-> inputs]
<1>1. CallOf(o) = <<>>
  BY DEF CallOf
<1>2. Emit(em, opcode, output, inputs) = Report(em, o)
  BY DEF Emit
<1> HIDE DEF o
<1>3. \A w : Calls(em, Ok(Report(em, o), w), <<>>)
  BY <1>1, NoUserops, ReportCalls
<1> QED
  BY <1>2, <1>3 DEF EmitTo

\* One that is calls the one its first operand names.
LEMMA EmitUserop ==
  ASSUME NEW em, Recorded(em), NEW output, NEW inputs,
         <<inputs[1].offset>> \in Userops
  PROVE  Calls(em, EmitTo(em, "CallOther", output, inputs), <<inputs[1].offset>>)
<1> DEFINE o == [event |-> "op", opcode |-> "CallOther", output |-> output, inputs |-> inputs]
<1>1. CallOf(o) = <<inputs[1].offset>>
  BY DEF CallOf
<1>2. Emit(em, "CallOther", output, inputs) = Report(em, o)
  BY DEF Emit
<1> HIDE DEF o
<1>3. Calls(em, Ok(Report(em, o), output), <<inputs[1].offset>>)
  BY <1>1, ReportCalls
<1> QED
  BY <1>2, <1>3 DEF EmitTo

\* First one part is lowered, then, if it does not fail, the rest.
LEMMA CallsThen ==
  ASSUME NEW em, Recorded(em), NEW one, NEW r, NEW first \in Userops, NEW rest \in Userops,
         Calls(em, one, first),
         IF Failed(one.em) THEN r = one ELSE Calls(one.em, r, rest)
  PROVE  Calls(em, r, Joined(first, rest))
<1>1. CASE Failed(one.em)
  BY <1>1 DEF Calls
<1>2. CASE ~Failed(one.em)
  <2> DEFINE before == UseropsCalled(em.events)
  <2>1. before \in Userops
    BY CallsAreLists DEF Recorded
  <2> HIDE DEF before
  <2>2. Joined(Joined(before, first), rest) = Joined(before, Joined(first, rest))
    BY <2>1, JoinedTwice DEF Userops
  <2> QED
    BY <1>2, <2>2 DEF Calls, before
<1> QED
  BY <1>1, <1>2

\* A part that calls nothing may come before the rest,
LEMMA QuietThen ==
  ASSUME NEW em, Recorded(em), NEW one, NEW r, NEW rest \in Userops,
         Calls(em, one, <<>>),
         IF Failed(one.em) THEN r = one ELSE Calls(one.em, r, rest)
  PROVE  Calls(em, r, rest)
<1>1. Joined(<<>>, rest) = rest
  BY JoinedNothing DEF Userops
<1> QED
  BY <1>1, NoUserops, CallsThen

\* or after it.
LEMMA ThenQuiet ==
  ASSUME NEW em, Recorded(em), NEW one, NEW r, NEW first \in Userops,
         Calls(em, one, first),
         IF Failed(one.em) THEN r = one ELSE Calls(one.em, r, <<>>)
  PROVE  Calls(em, r, first)
<1>1. Joined(first, <<>>) = first
  BY JoinedNothing DEF Userops
<1> QED
  BY <1>1, NoUserops, CallsThen

\* Storage calls nothing: a temporary,
LEMMA AllocateCalls ==
  ASSUME NEW em, Recorded(em), NEW size
  PROVE  Calls(em, AllocateUnique(em, size), <<>>)
<1> DEFINE r == AllocateUnique(em, size)
<1>1. DOMAIN r.em = DOMAIN em /\ r.em.events = em.events
  BY DEF AllocateUnique, Ok, Err, Recorded
<1> HIDE DEF r
<1> QED
  BY <1>1, NoEventsCallNothing DEF r

\* an output,
LEMMA OutputCalls ==
  ASSUME NEW em, Recorded(em), NEW requested, NEW size
  PROVE  Calls(em, Output(em, requested, size), <<>>)
  BY AllocateCalls, ErrCalls, OkCalls DEF Output

\* a name's,
LEMMA StorageCalls ==
  ASSUME NEW em, Recorded(em), NEW ident, NEW size
  PROVE  Calls(em, StorageForIdent(em, ident, size), <<>>)
<1> DEFINE width == LocalSize(em, ident.id, size)
           fresh == AllocateUnique(em, width)
           r == LocalStorage(em, ident.id, size)
<1>1. Calls(em, r, <<>>)
  <2>1. DOMAIN fresh.em = DOMAIN em /\ fresh.em.events = em.events
    BY DEF AllocateUnique, Ok, Err, Recorded
  <2> HIDE DEF fresh
  <2>2. DOMAIN r.em = DOMAIN em /\ r.em.events = em.events
    BY <2>1 DEF LocalStorage, fresh, width, Ok, Err, Recorded
  <2> HIDE DEF r
  <2> QED
    BY <2>2, NoEventsCallNothing
<1> HIDE DEF r
<1> QED
  BY <1>1, ErrCalls, OkCalls DEF StorageForIdent, r

\* or a copy.
LEMMA CopyCalls ==
  ASSUME NEW em, Recorded(em), NEW input, NEW requested
  PROVE  Calls(em, CopyIfRequested(em, input, requested), <<>>)
  BY OkCalls, EmitCalls DEF CopyIfRequested

\* Nor does a check.
LEMMA CheckCalls ==
  ASSUME NEW em, Recorded(em), NEW error
  PROVE  Calls(em, Check(em, error), <<>>)
  BY ErrCalls, OkCalls DEF Check

----------------------------------------------------------------------------
(* The user operations of an expression, by its kind.                      *)

\* Those of a list of expressions.
UseropsOfAll(args) == FlattenSeq([n \in DOMAIN args |-> UseropsOf(args[n])])

\* The user operations of a list, one by one.
LEMMA UseropsOfEach ==
  ASSUME NEW args \in Seq(Expressions),
         \A n \in DOMAIN args : UseropsOf(args[n]) \in Userops,
         NEW each, each = [n \in DOMAIN args |-> UseropsOf(args[n])]
  PROVE  each \in Seq(Userops) /\ Len(each) = Len(args) /\ UseropsOfAll(args) \in Userops
<1>1. Len(args) \in Nat /\ DOMAIN args = 1 .. Len(args)
  OBVIOUS
<1>2. each \in Seq(Userops) /\ Len(each) = Len(args)
  <2>1. each \in [1 .. Len(args) -> Userops]
    BY <1>1
  <2> HIDE DEF Userops
  <2> QED
    BY <1>1, <2>1
<1>3. FlattenSeq(each) \in Userops
  BY <1>2, FlattenJoined DEF Userops
<1> QED
  BY <1>2, <1>3 DEF UseropsOfAll

\* An expression calls what its parts call, and maybe its own, last.
LEMMA UseropsOfParts ==
  ASSUME UseropsRecur, NEW e \in Expressions,
         \A n \in DOMAIN Subexpressions(e) : UseropsOf(Subexpressions(e)[n]) \in Userops
  PROVE  /\ e.kind = "PcodeOp" =>
               /\ UseropsOf(e) = Joined(UseropsOfAll(Subexpressions(e)), <<e.id>>)
               /\ <<e.id>> \in Userops
         /\ e.kind # "PcodeOp" => UseropsOf(e) = UseropsOfAll(Subexpressions(e))
         /\ UseropsOf(e) \in Userops
<1> DEFINE parts == Subexpressions(e)
           all == UseropsOfAll(parts)
<1>1. all \in Userops
  <2>1. parts \in Seq(Expressions)
    BY ExpressionsAssumption
  <2> HIDE DEF parts
  <2> QED
    BY <2>1, UseropsOfEach DEF parts
<1>2. UseropsOf(e) = Joined(all, IF e.kind = "PcodeOp" THEN <<e.id>> ELSE <<>>)
  BY DEF UseropsRecur, UseropsOfByKind, UseropsOfAll, Joined
<1> HIDE DEF all
<1>3. CASE e.kind = "PcodeOp"
  <2> DEFINE ids == {f.id : f \in {f \in Expressions : f.kind = "PcodeOp"}}
  <2>1. e.id \in ids
    BY <1>3
  <2> HIDE DEF ids
  <2>2. <<e.id>> \in Seq(ids)
    BY <2>1
  <2>3. <<e.id>> \in Userops
    BY <2>2 DEF ids, Userops
  <2>4. Joined(all, <<e.id>>) \in Userops
    BY <1>1, <2>3, JoinedType DEF Userops
  <2> QED
    BY <1>2, <1>3, <2>3, <2>4 DEF all
<1>4. CASE e.kind # "PcodeOp"
  <2>1. UseropsOf(e) = all
    BY <1>1, <1>2, <1>4, JoinedNothing DEF Userops
  <2> QED
    BY <1>1, <1>4, <2>1 DEF all
<1> QED
  BY <1>3, <1>4

\* They are user operations.
LEMMA UseropsType ==
  ASSUME UseropsRecur
  PROVE  \A e \in Expressions : UseropsOf(e) \in Userops
<1> DEFINE Good == {e \in Expressions : UseropsOf(e) \in Userops}
<1>1. ASSUME NEW e \in Expressions,
             \A f \in Expressions : Depth[f] < Depth[e] => f \in Good
      PROVE  e \in Good
  <2>1. \A n \in DOMAIN Subexpressions(e) : UseropsOf(Subexpressions(e)[n]) \in Userops
    <3>1. /\ Subexpressions(e) \in Seq(Expressions)
          /\ \A n \in DOMAIN Subexpressions(e) : Depth[Subexpressions(e)[n]] < Depth[e]
      BY ExpressionsAssumption
    <3> QED
      BY <1>1, <3>1
  <2> QED
    BY <2>1, UseropsOfParts
<1> HIDE DEF Good
<1>2. Expressions \subseteq Good
  BY <1>1, ByDepth
<1> QED
  BY <1>2 DEF Good

\* What a kind of expression calls.
LEMMA UseropsByKind ==
  ASSUME UseropsRecur, NEW e \in Expressions
  PROVE  /\ e.kind \in {"SizedInt", "Ident"} => UseropsOf(e) = <<>>
         /\ e.kind = "Load" => UseropsOf(e) = UseropsOf(e.ptr)
         /\ e.kind = "Range" => UseropsOf(e) = UseropsOf(e.value)
         /\ e.kind \in {"SubPieceMsb", "SubPieceLsb"} => UseropsOf(e) = UseropsOf(e.src)
         /\ e.kind = "Unop" => UseropsOf(e) = UseropsOf(e.e)
         /\ e.kind = "Binop" => UseropsOf(e) = Joined(UseropsOf(e.lhs), UseropsOf(e.rhs))
         /\ e.kind = "FunctionCall" => UseropsOf(e) = UseropsOfAll(e.args)
         /\ e.kind = "PcodeOp" =>
               /\ UseropsOf(e) = Joined(UseropsOfAll(e.args), <<e.id>>)
               /\ <<e.id>> \in Userops
<1> DEFINE parts == Subexpressions(e)
<1>1. parts \in Seq(Expressions) /\ \A n \in DOMAIN parts : parts[n] \in Expressions
  BY ExpressionsAssumption
<1>2. \A n \in DOMAIN parts : UseropsOf(parts[n]) \in Userops
  BY <1>1, UseropsType
<1>3. /\ e.kind = "PcodeOp" =>
            /\ UseropsOf(e) = Joined(UseropsOfAll(parts), <<e.id>>)
            /\ <<e.id>> \in Userops
      /\ e.kind # "PcodeOp" => UseropsOf(e) = UseropsOfAll(parts)
  BY <1>2, UseropsOfParts
<1> HIDE DEF parts
<1>4. parts = <<>> => UseropsOfAll(parts) = <<>>
  <2>1. UseropsOfAll(<<>>) = FlattenSeq(<<>>)
    BY DEF UseropsOfAll
  <2> QED
    BY <2>1, NoUserops, FlattenFew DEF Userops
<1>5. ASSUME NEW f, parts = <<f>> PROVE UseropsOfAll(parts) = UseropsOf(f)
  <2>1. UseropsOf(f) \in Userops
    BY <1>2, <1>5
  <2>2. UseropsOfAll(<<f>>) = FlattenSeq(<<UseropsOf(f)>>)
    BY DEF UseropsOfAll
  <2> QED
    BY <1>5, <2>1, <2>2, FlattenFew DEF Userops
<1>6. ASSUME NEW f, NEW g, parts = <<f, g>>
      PROVE  UseropsOfAll(parts) = Joined(UseropsOf(f), UseropsOf(g))
  <2>1. UseropsOf(f) \in Userops /\ UseropsOf(g) \in Userops
    BY <1>2, <1>6
  <2> DEFINE one == <<UseropsOf(f)>>
             other == <<UseropsOf(g)>>
  <2>2. UseropsOfAll(<<f, g>>) = FlattenSeq(<<UseropsOf(f), UseropsOf(g)>>)
    BY DEF UseropsOfAll
  <2>3. <<UseropsOf(f), UseropsOf(g)>> = one \o other
    OBVIOUS
  <2>4. one \in Seq(Userops) /\ other \in Seq(Userops)
    <3> HIDE DEF Userops
    <3> QED
      BY <2>1
  <2>5. FlattenSeq(one) = UseropsOf(f) /\ FlattenSeq(other) = UseropsOf(g)
    BY <2>1, FlattenFew DEF Userops
  <2> HIDE DEF one, other
  <2>6. FlattenSeq(one \o other) = Joined(FlattenSeq(one), FlattenSeq(other))
    BY <2>4, FlattenJoined DEF Userops
  <2> QED
    BY <1>6, <2>2, <2>3, <2>5, <2>6
<1>7. /\ e.kind \in {"SizedInt", "Ident"} => parts = <<>>
      /\ e.kind = "Load" => parts = <<e.ptr>>
      /\ e.kind = "Range" => parts = <<e.value>>
      /\ e.kind \in {"SubPieceMsb", "SubPieceLsb"} => parts = <<e.src>>
      /\ e.kind = "Unop" => parts = <<e.e>>
      /\ e.kind = "Binop" => parts = <<e.lhs, e.rhs>>
      /\ e.kind \in {"FunctionCall", "PcodeOp"} => parts = e.args
  BY DEF parts, Subexpressions
<1> QED
  BY <1>3, <1>4, <1>5, <1>6, <1>7

----------------------------------------------------------------------------
(* Lowering an expression calls its user operations.                       *)

\* Wherever `e` is lowered, its user operations are called, in order.
InOrder(e) ==
    /\ UseropsOf(e) \in Userops
    /\ e.kind = "SizedInt" => UseropsOf(e) = <<>>
    /\ \A em, out : Recorded(em) => Calls(em, LowerExpr(em, e, out), UseropsOf(e))

\* An operand of a width calls no other,
LEMMA WithSizeCalls ==
  ASSUME NEW e, InOrder(e), NEW em, Recorded(em), NEW size
  PROVE  Calls(em, LowerExprWithSize(em, e, size), UseropsOf(e))
<1> DEFINE r == LowerExprWithSize(em, e, size)
           one == IF KnownSize(em, e) = size THEN Ok(em, None) ELSE AllocateUnique(em, size)
<1>1. CASE e.kind = "SizedInt"
  <2>1. r = Ok(em, Constant(e.value, size))
    BY <1>1 DEF LowerExprWithSize
  <2> HIDE DEF r
  <2> QED
    BY <1>1, <2>1, OkCalls DEF InOrder, r
<1>2. CASE e.kind # "SizedInt"
  <2>1. r = IF Failed(one.em) THEN one ELSE LowerExpr(one.em, e, one.v)
    BY <1>2 DEF LowerExprWithSize, Then
  <2>2. Calls(em, one, <<>>)
    BY OkCalls, AllocateCalls
  <2> HIDE DEF r, one
  <2>3. Calls(one.em, LowerExpr(one.em, e, one.v), UseropsOf(e)) /\ UseropsOf(e) \in Userops
    BY <2>2 DEF InOrder, Calls
  <2> QED
    BY <2>1, <2>2, <2>3, QuietThen DEF r
<1> QED
  BY <1>1, <1>2

\* nor does one of its own width,
LEMMA OperandCalls ==
  ASSUME NEW e, InOrder(e), NEW em, Recorded(em), NEW size
  PROVE  Calls(em, LowerOperand(em, e, size), UseropsOf(e))
  BY WithSizeCalls DEF LowerOperand, InOrder

\* or a pointer.
LEMMA PointerCalls ==
  ASSUME NEW e, InOrder(e), NEW em, Recorded(em), NEW space
  PROVE  Calls(em, LowerPointer(em, space, e), UseropsOf(e))
<1> DEFINE one == LowerExpr(em, e, None)
           two == Check(one.em, PointerError(space, one.v))
           r == LowerPointer(em, space, e)
           rest == IF Failed(two.em) THEN two ELSE Ok(two.em, one.v)
<1>1. r = IF Failed(one.em) THEN one ELSE rest
  BY DEF LowerPointer, Then
<1>2. Calls(em, one, UseropsOf(e)) /\ UseropsOf(e) \in Userops
  BY DEF InOrder
<1> HIDE DEF one, r
<1>3. Recorded(one.em)
  BY <1>2 DEF Calls
<1>4. Calls(one.em, two, <<>>)
  BY <1>3, CheckCalls
<1> HIDE DEF two
<1>5. Calls(two.em, Ok(two.em, one.v), <<>>)
  BY <1>4, OkCalls DEF Calls
<1>6. Calls(one.em, rest, <<>>)
  BY <1>3, <1>4, <1>5, NoUserops, QuietThen
<1> HIDE DEF rest
<1> QED
  BY <1>1, <1>2, <1>6, ThenQuiet DEF r

\* A list of operands calls those of each, one by one.
LEMMA OperandsCall ==
  ASSUME NEW args \in Seq(Expressions), \A n \in DOMAIN args : InOrder(args[n]),
         NEW em, Recorded(em), NEW size, NEW r, r = LowerOperands(em, args, size)
  PROVE  /\ Calls(em, r, UseropsOfAll(args)) /\ UseropsOfAll(args) \in Userops
         /\ ~Failed(r.em) => IsList(r.v)
<1> DEFINE each == [n \in DOMAIN args |-> UseropsOf(args[n])]
<1>1. Len(args) \in Nat /\ DOMAIN args = 1 .. Len(args)
  OBVIOUS
<1>2. \A n \in DOMAIN args : UseropsOf(args[n]) \in Userops /\ each[n] = UseropsOf(args[n])
  BY DEF InOrder
<1>3. UseropsOfAll(args) = FlattenSeq(each)
  BY DEF UseropsOfAll
<1> HIDE DEF each
<1>4. each \in Seq(Userops) /\ Len(each) = Len(args) /\ UseropsOfAll(args) \in Userops
  BY <1>2, UseropsOfEach DEF each
<1>5. PICK p : Flattens(p, each, {e.id : e \in {f \in Expressions : f.kind = "PcodeOp"}})
               /\ FlattenSeq(each) = p[Len(each)]
  BY <1>4, FlattenUnfolds DEF Userops
<1>6. /\ p[0] = <<>>
      /\ \A n \in 1 .. Len(args) : p[n] = Joined(p[n - 1], each[n])
      /\ \A n \in 0 .. Len(args) : p[n] \in Userops
  BY <1>4, <1>5 DEF Flattens, Userops
<1>7. PICK g : /\ LowerOperands(em, args, size) = g[Len(args)]
               /\ \A n \in 0 .. Len(args) :
                     g[n] = IF n = 0 THEN Ok(em, <<>>) ELSE OneMore(g[n - 1], args[n], size)
  BY <1>1, OperandsUnfold
<1> DEFINE Good == {n \in Nat : Calls(em, g[n], p[n]) /\ (~Failed(g[n].em) => IsList(g[n].v))}
<1>8. 0 \in Good
  <2>1. g[0] = Ok(em, <<>>) /\ g[0].v = <<>>
    BY <1>1, <1>7 DEF Ok
  <2>2. IsList(<<>>)
    BY DEF IsList
  <2> QED
    BY <1>6, <2>1, <2>2, OkCalls
<1>9. ASSUME NEW n \in 1 .. Len(args), n - 1 \in Good PROVE n \in Good
  <2> DEFINE one == g[n - 1]
             two == LowerOperand(one.em, args[n], size)
             rest == IF Failed(two.em) THEN two ELSE Ok(two.em, Append(one.v, two.v))
  <2>1. n \in 0 .. Len(args) /\ n - 1 \in 0 .. Len(args) /\ n # 0 /\ n \in Nat
    BY <1>1
  <2>2. g[n] = OneMore(one, args[n], size)
    BY <1>7, <2>1
  <2>3. Calls(em, one, p[n - 1]) /\ (~Failed(one.em) => IsList(one.v))
    BY <1>9
  <2> HIDE DEF one
  <2>4. g[n] = IF Failed(one.em) THEN one ELSE rest
    BY <2>2 DEF OneMore, LowerNext, Then
  <2>5. Recorded(one.em)
    BY <2>3 DEF Calls
  <2>6. Calls(one.em, two, each[n]) /\ each[n] \in Userops
    BY <1>1, <1>2, <2>5, OperandCalls
  <2> HIDE DEF two
  <2>7. Calls(two.em, Ok(two.em, Append(one.v, two.v)), <<>>)
    BY <2>6, OkCalls DEF Calls
  <2>8. Calls(one.em, rest, each[n])
    BY <2>5, <2>6, <2>7, ThenQuiet
  <2>9. ~Failed(g[n].em) => IsList(g[n].v)
    <3> SUFFICES ASSUME ~Failed(g[n].em) PROVE IsList(g[n].v)
      OBVIOUS
    <3>1. ~Failed(one.em) /\ ~Failed(two.em)
      BY <2>4
    <3>2. g[n].v = Append(one.v, two.v)
      BY <2>4, <3>1 DEF Ok
    <3> QED
      BY <2>3, <3>1, <3>2, ListAppended
  <2> HIDE DEF rest
  <2>10. Calls(em, g[n], Joined(p[n - 1], each[n]))
    BY <1>6, <2>1, <2>3, <2>4, <2>6, <2>8, CallsThen
  <2> QED
    BY <1>6, <2>1, <2>9, <2>10
<1>10. Len(args) \in Good
  <2> HIDE DEF Good
  <2>1. 0 .. Len(args) \subseteq Good
    BY <1>1, <1>8, <1>9, UpTo
  <2> QED
    BY <1>1, <2>1
<1> QED
  BY <1>3, <1>4, <1>5, <1>7, <1>10

\* The arguments of a user operation come first, then its name is at hand.
LEMMA UseropInputsCall ==
  ASSUME NEW e \in Expressions, e.kind = "PcodeOp", \A n \in DOMAIN e.args : InOrder(e.args[n]),
         NEW em, Recorded(em), NEW r, r = LowerUseropInputs(em, e)
  PROVE  /\ Calls(em, r, UseropsOfAll(e.args)) /\ UseropsOfAll(e.args) \in Userops
         /\ ~Failed(r.em) => r.v[1].offset = e.id
<1> DEFINE one == LowerOperands(em, e.args, None)
           name == Constant(e.id, 4)
           rest == Ok(one.em, <<name>> \o one.v)
<1>1. e.args \in Seq(Expressions)
  BY PartsNestLess
<1>2. /\ Calls(em, one, UseropsOfAll(e.args)) /\ UseropsOfAll(e.args) \in Userops
      /\ ~Failed(one.em) => IsList(one.v)
  BY <1>1, OperandsCall
<1>3. r = IF Failed(one.em) THEN one ELSE rest
  BY DEF LowerUseropInputs, Then
<1>4. name.offset = e.id
  BY DEF Constant, Varnode
<1> HIDE DEF one, name
<1>5. Calls(one.em, rest, <<>>)
  BY <1>2, OkCalls DEF Calls
<1>6. ~Failed(r.em) => r.v[1] = name
  <2> SUFFICES ASSUME ~Failed(r.em) PROVE r.v[1] = name
    OBVIOUS
  <2>1. ~Failed(one.em)
    BY <1>3
  <2>2. r.v = <<name>> \o one.v
    BY <1>3, <2>1 DEF Ok
  <2> QED
    BY <1>2, <2>1, <2>2, ListPrepended
<1> HIDE DEF rest
<1> QED
  BY <1>2, <1>3, <1>4, <1>5, <1>6, ThenQuiet

\* What comes after an operation that calls nothing calls what it does.
LEMMA EmitThen ==
  ASSUME NEW em, Recorded(em), NEW opcode, opcode # "CallOther", NEW output, NEW inputs,
         NEW after, after = Emit(em, opcode, output, inputs)
  PROVE  Recorded(after) /\ \A r, ids : Calls(after, r, ids) => Calls(em, r, ids)
<1> DEFINE o == [event |-> "op", opcode |-> opcode, output |-> output, inputs |-> inputs]
<1>1. CallOf(o) = <<>>
  BY DEF CallOf
<1>2. DOMAIN after = DOMAIN em /\ after.events = Append(em.events, o)
  BY DEF Emit, Report, Recorded
<1> HIDE DEF o
<1>3. /\ CallsUserops(Append(em.events, o))
      /\ UseropsCalled(Append(em.events, o)) = Joined(UseropsCalled(em.events), <<>>)
  BY <1>1, NoUserops, CallsOneMore DEF Recorded
<1>4. Joined(UseropsCalled(em.events), <<>>) = UseropsCalled(em.events)
  <2>1. UseropsCalled(em.events) \in Userops
    BY CallsAreLists DEF Recorded
  <2> QED
    BY <2>1, JoinedNothing DEF Userops
<1> QED
  BY <1>2, <1>3, <1>4 DEF Calls, Recorded

\* A literal calls nothing,
LEMMA SizedIntCalls ==
  ASSUME NEW em, Recorded(em), NEW e, NEW out
  PROVE  Calls(em, LowerSizedInt(em, e, out), <<>>)
  BY ErrCalls, CopyCalls DEF LowerSizedInt

\* nor do the bits of storage,
LEMMA ExtractCalls ==
  ASSUME NEW em, Recorded(em), NEW input, NEW start, NEW bits, NEW out
  PROVE  Calls(em, ExtractRange(em, input, start, bits, out), <<>>)
<1> DEFINE size == DivCeilByte(bits)
           one == AllocateUnique(em, input.size)
           right == <<input, Constant(start, input.size)>>
           mid == Emit(one.em, "IntRight", one.v, right)
           two == AllocateUnique(mid, input.size)
           mask == <<one.v, Constant(Mask(bits), input.size)>>
           low == Emit(two.em, "IntAnd", two.v, mask)
           three == Output(low, out, size)
           last == EmitTo(three.em, "SubPiece", three.v, <<two.v, Constant(0, 8)>>)
           third == IF Failed(three.em) THEN three ELSE last
           second == IF Failed(two.em) THEN two ELSE third
           first == IF Failed(one.em) THEN one ELSE second
           r == ExtractRange(em, input, start, bits, out)
<1>1. \/ r = Err(em, "InvalidRange") \/ r = Err(em, "CopySizeMismatch") \/ r = first
  BY DEF ExtractRange, Then
<1>2. Calls(em, one, <<>>)
  BY AllocateCalls
<1> HIDE DEF one, r, right
<1>3. Recorded(one.em)
  BY <1>2 DEF Calls
<1>4. Recorded(mid) /\ \A q, ids : Calls(mid, q, ids) => Calls(one.em, q, ids)
  BY <1>3, EmitThen
<1> HIDE DEF mid, mask
<1>5. Calls(mid, two, <<>>)
  BY <1>4, AllocateCalls
<1> HIDE DEF two
<1>6. Recorded(two.em)
  BY <1>5 DEF Calls
<1>7. Recorded(low) /\ \A q, ids : Calls(low, q, ids) => Calls(two.em, q, ids)
  BY <1>6, EmitThen
<1> HIDE DEF low
<1>8. Calls(low, three, <<>>)
  BY <1>7, OutputCalls
<1> HIDE DEF three
<1>9. Calls(three.em, last, <<>>)
  <2> DEFINE inputs == <<two.v, Constant(0, 8)>>
  <2>1. Recorded(three.em)
    BY <1>8 DEF Calls
  <2> HIDE DEF inputs
  <2> QED
    BY <2>1, EmitCalls
<1> HIDE DEF last
<1>10. Calls(two.em, third, <<>>)
  BY <1>7, <1>8, <1>9, NoUserops, QuietThen
<1> HIDE DEF third
<1>11. Calls(one.em, second, <<>>)
  BY <1>4, <1>5, <1>10, NoUserops, QuietThen
<1> HIDE DEF second
<1>12. Calls(em, first, <<>>)
  BY <1>2, <1>11, NoUserops, QuietThen
<1> HIDE DEF first
<1> QED
  BY <1>1, <1>12, ErrCalls DEF r

\* a name,
LEMMA IdentCalls ==
  ASSUME NEW em, Recorded(em), NEW e, NEW out
  PROVE  Calls(em, LowerIdent(em, e, out), <<>>)
<1> DEFINE one == StorageForIdent(em, e.ident, e.size)
           two == CopyIfRequested(one.em, one.v, out)
           last == IF Failed(one.em) THEN one ELSE two
           info == BitRangeInfo(e.ident.id)
           bits == ExtractRange(em, info.storage, info.start, info.bits, out)
           r == LowerIdent(em, e, out)
<1>1. r = last \/ r = Err(em, "Unsupported") \/ r = bits
  BY DEF LowerIdent, Then
<1>2. Calls(em, bits, <<>>)
  BY ExtractCalls
<1>3. Calls(em, one, <<>>)
  BY StorageCalls
<1> HIDE DEF one, r, bits
<1>4. Calls(one.em, two, <<>>)
  BY <1>3, CopyCalls DEF Calls
<1> HIDE DEF two
<1>5. Calls(em, last, <<>>)
  BY <1>3, <1>4, NoUserops, QuietThen
<1> HIDE DEF last
<1> QED
  BY <1>1, <1>2, <1>5, ErrCalls DEF r

\* or what is loaded from a pointer at hand.
LEMMA LoadFromCalls ==
  ASSUME NEW em, Recorded(em), NEW space, NEW ptr, NEW size, NEW out
  PROVE  Calls(em, LoadFrom(em, space, ptr, size, out), <<>>)
<1> DEFINE one == Output(em, out, size)
           two == EmitTo(one.em, "Load", one.v, <<SpaceId(space), ptr>>)
           last == IF Failed(one.em) THEN one ELSE two
           r == LoadFrom(em, space, ptr, size, out)
<1>1. \/ r = Err(em, "UnknownSize") \/ r = Err(em, "Unsupported") \/ r = last
      \/ r = CopyIfRequested(em, ptr, out)
  BY DEF LoadFrom, Then
<1>2. Calls(em, one, <<>>)
  BY OutputCalls
<1> HIDE DEF one, r
<1>3. Calls(one.em, two, <<>>)
  <2> DEFINE inputs == <<SpaceId(space), ptr>>
  <2>1. Recorded(one.em)
    BY <1>2 DEF Calls
  <2> HIDE DEF inputs
  <2> QED
    BY <2>1, EmitCalls
<1> HIDE DEF two
<1>4. Calls(em, last, <<>>)
  BY <1>2, <1>3, NoUserops, QuietThen
<1> HIDE DEF last
<1> QED
  BY <1>1, <1>4, ErrCalls, CopyCalls DEF r

\* A load calls what its pointer does.
LEMMA LoadCalls ==
  ASSUME UseropsRecur, NEW e \in Expressions, e.kind = "Load", InOrder(e.ptr),
         NEW em, Recorded(em), NEW out
  PROVE  Calls(em, LowerLoad(em, e, out), UseropsOf(e))
<1> DEFINE space == LoadSpace(e)
           size == OrElse(RequestedSize(out), OrElse(e.bytes, e.size))
           one == IF space = ConstSpace THEN LowerExpr(em, e.ptr, None)
                                        ELSE LowerPointer(em, space, e.ptr)
           two == LoadFrom(one.em, space, one.v, size, out)
           last == IF Failed(one.em) THEN one ELSE two
           r == LowerLoad(em, e, out)
<1>1. r = last \/ r = Err(em, "UnresolvedSpace")
  BY DEF LowerLoad, Then
<1>2. UseropsOf(e) = UseropsOf(e.ptr) /\ UseropsOf(e.ptr) \in Userops
  BY UseropsByKind DEF InOrder
<1> HIDE DEF space, size
<1>3. Calls(em, one, UseropsOf(e.ptr))
  BY PointerCalls DEF InOrder
<1> HIDE DEF one, r
<1>4. Calls(one.em, two, <<>>)
  BY <1>3, LoadFromCalls DEF Calls
<1> HIDE DEF two
<1>5. Calls(em, last, UseropsOf(e.ptr))
  BY <1>2, <1>3, <1>4, ThenQuiet
<1> HIDE DEF last
<1> QED
  BY <1>1, <1>2, <1>5, ErrCalls DEF r

\* A piece, from either end, calls what its source does,
LEMMA SubPieceCalls ==
  ASSUME UseropsRecur, NEW e \in Expressions, e.kind \in {"SubPieceMsb", "SubPieceLsb"},
         InOrder(e.src), NEW em, Recorded(em), NEW out
  PROVE  /\ Calls(em, LowerSubPieceMsb(em, e, out), UseropsOf(e))
         /\ Calls(em, LowerSubPieceLsb(em, e, out), UseropsOf(e))
<1> DEFINE one == LowerExpr(em, e.src, None)
<1>1. UseropsOf(e) = UseropsOf(e.src) /\ UseropsOf(e.src) \in Userops
  BY UseropsByKind DEF InOrder
<1>2. Calls(em, one, UseropsOf(e.src))
  BY DEF InOrder
<1> HIDE DEF one
<1>3. Recorded(one.em)
  BY <1>2 DEF Calls
<1>4. ASSUME NEW size, NEW count, NEW two, two = Output(one.em, out, size), NEW q,
             q = IF Failed(two.em) THEN two
                 ELSE EmitTo(two.em, "SubPiece", two.v, <<one.v, Constant(count, 8)>>)
      PROVE  Calls(one.em, q, <<>>)
  <2> DEFINE inputs == <<one.v, Constant(count, 8)>>
  <2>1. Calls(one.em, two, <<>>)
    BY <1>3, <1>4, OutputCalls
  <2>2. Recorded(two.em)
    BY <2>1 DEF Calls
  <2> HIDE DEF inputs
  <2>3. Calls(two.em, EmitTo(two.em, "SubPiece", two.v, inputs), <<>>)
    BY <2>2, EmitCalls
  <2>4. IF Failed(two.em) THEN q = two ELSE Calls(two.em, q, <<>>)
    BY <1>4, <2>3 DEF inputs
  <2> QED
    BY <1>3, <2>1, <2>4, NoUserops, QuietThen
<1>5. Calls(em, LowerSubPieceMsb(em, e, out), UseropsOf(e))
  <2> DEFINE left == IF e.count > one.v.size THEN 0 ELSE one.v.size - e.count
             size == OrElse(RequestedSize(out), OrElse(e.size, left))
             two == Output(one.em, out, size)
             ends == e.count >= one.v.size \/ size > one.v.size - e.count
             last == EmitTo(two.em, "SubPiece", two.v, <<one.v, Constant(e.count, 8)>>)
             good == IF Failed(two.em) THEN two ELSE last
             bad == IF Failed(two.em) THEN two ELSE Err(two.em, "InvalidRange")
             rest == IF ends THEN bad ELSE good
             r == LowerSubPieceMsb(em, e, out)
  <2>1. r = IF Failed(one.em) THEN one ELSE rest
    BY DEF LowerSubPieceMsb, Then, one
  <2> HIDE DEF size, ends, r
  <2>2. Calls(one.em, good, <<>>)
    BY <1>4
  <2>3. Calls(one.em, two, <<>>)
    BY <1>3, OutputCalls
  <2> HIDE DEF two, good
  <2>4. Calls(two.em, Err(two.em, "InvalidRange"), <<>>)
    BY <2>3, ErrCalls DEF Calls
  <2>5. Calls(one.em, bad, <<>>)
    BY <1>3, <2>3, <2>4, NoUserops, QuietThen
  <2> HIDE DEF bad
  <2> QED
    BY <1>1, <1>2, <2>1, <2>2, <2>5, ThenQuiet DEF r
<1>6. Calls(em, LowerSubPieceLsb(em, e, out), UseropsOf(e))
  <2> DEFINE two == Output(one.em, out, e.count)
             last == EmitTo(two.em, "SubPiece", two.v, <<one.v, Constant(0, 8)>>)
             good == IF Failed(two.em) THEN two ELSE last
             rest == IF e.count \notin 1 .. one.v.size THEN Err(one.em, "InvalidRange") ELSE good
             r == LowerSubPieceLsb(em, e, out)
  <2>1. r = IF Failed(one.em) THEN one ELSE rest
    BY DEF LowerSubPieceLsb, Then, one
  <2> HIDE DEF r
  <2>2. Calls(one.em, good, <<>>)
    BY <1>4
  <2> HIDE DEF good
  <2>3. Calls(one.em, rest, <<>>)
    BY <1>3, <2>2, ErrCalls
  <2> HIDE DEF rest
  <2> QED
    BY <1>1, <1>2, <2>1, <2>3, ThenQuiet DEF r
<1> QED
  BY <1>5, <1>6

\* and so does a range of bits.
LEMMA RangeCalls ==
  ASSUME UseropsRecur, NEW e \in Expressions, e.kind = "Range", InOrder(e.value),
         NEW em, Recorded(em), NEW out
  PROVE  Calls(em, LowerRange(em, e, out), UseropsOf(e))
<1> DEFINE one == LowerExpr(em, e.value, None)
           two == ExtractRange(one.em, one.v, e.start, e.bits, out)
           rest == IF ~RangeKnown(e) THEN Err(one.em, "UnresolvedRangeParameter") ELSE two
           r == LowerRange(em, e, out)
<1>1. r = IF Failed(one.em) THEN one ELSE rest
  BY DEF LowerRange, Then
<1>2. UseropsOf(e) = UseropsOf(e.value) /\ UseropsOf(e.value) \in Userops
  BY UseropsByKind DEF InOrder
<1>3. Calls(em, one, UseropsOf(e.value))
  BY DEF InOrder
<1> HIDE DEF one, r
<1>4. Recorded(one.em)
  BY <1>3 DEF Calls
<1>5. Calls(one.em, two, <<>>)
  BY <1>4, ExtractCalls
<1> HIDE DEF two
<1>6. Calls(one.em, rest, <<>>)
  BY <1>4, <1>5, ErrCalls
<1> HIDE DEF rest
<1> QED
  BY <1>1, <1>2, <1>3, <1>6, ThenQuiet DEF r

\* A builtin calls what its arguments do, in order,
LEMMA BuiltinCalls ==
  ASSUME UseropsRecur, NEW e \in Expressions, e.kind = "FunctionCall",
         \A n \in DOMAIN e.args : InOrder(e.args[n]), NEW em, Recorded(em), NEW out
  PROVE  Calls(em, LowerBuiltin(em, e, out), UseropsOf(e))
<1> DEFINE own == CASE e.builtin \in BooleanBuiltins -> 1
                    [] e.builtin \in WidthPreservingBuiltins /\ e.args # <<>> ->
                          KnownSize(em, e.args[1])
                    [] OTHER -> None
           size == OrElse(RequestedSize(out), OrElse(e.size, own))
           one == Output(em, out, size)
           two == LowerBuiltinArgs(one.em, e)
           last == EmitTo(two.em, e.builtin, one.v, two.v)
           rest == IF Failed(two.em) THEN two ELSE last
           all == IF Failed(one.em) THEN one ELSE rest
           r == LowerBuiltin(em, e, out)
<1>1. r = Err(em, "UnknownSize") \/ r = all
  BY DEF LowerBuiltin, Then
<1> HIDE DEF own, size, r
<1>2. e.args \in Seq(Expressions) /\ UseropsOf(e) = UseropsOfAll(e.args)
  BY PartsNestLess, UseropsByKind
<1>3. e.builtin # "CallOther"
  BY ExpressionsAssumption DEF IsExpression, Builtins, BooleanBuiltins, CarryBuiltins,
     WidthPreservingBuiltins
<1>4. Calls(em, one, <<>>)
  BY OutputCalls
<1> HIDE DEF one
<1>5. Recorded(one.em)
  BY <1>4 DEF Calls
<1>6. UseropsOfAll(e.args) \in Userops
  BY <1>2, <1>5, OperandsCall
<1>7. Calls(one.em, two, UseropsOfAll(e.args))
  <2>1. \A width : Calls(one.em, LowerOperands(one.em, e.args, width), UseropsOfAll(e.args))
    BY <1>2, <1>5, OperandsCall
  <2> QED
    BY <1>5, <2>1, ErrCalls DEF LowerBuiltinArgs
<1> HIDE DEF two
<1>8. Calls(two.em, last, <<>>)
  <2>1. Recorded(two.em)
    BY <1>7 DEF Calls
  <2> QED
    BY <1>3, <2>1, EmitCalls
<1> HIDE DEF last
<1>9. Calls(one.em, rest, UseropsOfAll(e.args))
  BY <1>5, <1>6, <1>7, <1>8, ThenQuiet
<1> HIDE DEF rest
<1>10. Calls(em, all, UseropsOfAll(e.args))
  BY <1>4, <1>6, <1>9, QuietThen
<1> HIDE DEF all
<1> QED
  BY <1>1, <1>2, <1>10, ErrCalls DEF r

\* and a user operation the same, then itself.
LEMMA PcodeOpCalls ==
  ASSUME UseropsRecur, NEW e \in Expressions, e.kind = "PcodeOp",
         \A n \in DOMAIN e.args : InOrder(e.args[n]), NEW em, Recorded(em), NEW out
  PROVE  Calls(em, LowerPcodeOp(em, e, out), UseropsOf(e))
<1> DEFINE size == OrElse(RequestedSize(out), e.size)
           one == Output(em, out, size)
           two == LowerUseropInputs(one.em, e)
           last == EmitTo(two.em, "CallOther", one.v, two.v)
           rest == IF Failed(two.em) THEN two ELSE last
           all == IF Failed(one.em) THEN one ELSE rest
           r == LowerPcodeOp(em, e, out)
<1>1. r = Err(em, "UnknownSize") \/ r = all
  BY DEF LowerPcodeOp, Then
<1> HIDE DEF size, r
<1>2. UseropsOf(e) = Joined(UseropsOfAll(e.args), <<e.id>>) /\ <<e.id>> \in Userops
  BY UseropsByKind
<1>3. Calls(em, one, <<>>)
  BY OutputCalls
<1> HIDE DEF one
<1>4. Recorded(one.em)
  BY <1>3 DEF Calls
<1>5. /\ Calls(one.em, two, UseropsOfAll(e.args)) /\ UseropsOfAll(e.args) \in Userops
      /\ ~Failed(two.em) => two.v[1].offset = e.id
  BY <1>4, UseropInputsCall
<1> HIDE DEF two
<1>6. ~Failed(two.em) => Calls(two.em, last, <<e.id>>)
  BY <1>2, <1>5, EmitUserop DEF Calls
<1> HIDE DEF last
<1>7. Joined(UseropsOfAll(e.args), <<e.id>>) \in Userops
  BY <1>2, <1>5, JoinedType DEF Userops
<1>8. Calls(one.em, rest, UseropsOf(e))
  BY <1>2, <1>4, <1>5, <1>6, CallsThen
<1> HIDE DEF rest
<1>9. Calls(em, all, UseropsOf(e))
  BY <1>2, <1>3, <1>7, <1>8, QuietThen
<1> HIDE DEF all
<1> QED
  BY <1>1, <1>9, ErrCalls DEF r

\* An address is of storage or of a symbol, neither of which calls anything,
LEMMA AddressOfCalls ==
  ASSUME UseropsRecur, NEW e \in Expressions, e.kind = "Unop", NEW em, Recorded(em), NEW out
  PROVE  Calls(em, LowerAddressOf(em, e, out), UseropsOf(e))
<1> DEFINE symbol == CopyIfRequested(em, Constant(e.e.value, OrElse(e.width, OrElse(e.e.literal, e.e.size))), out)
           one == StorageForIdent(em, e.e.ident, e.e.size)
           size == OrElse(e.width, AddressSize(one.v.space))
           two == CopyIfRequested(one.em, Constant(one.v.offset, size), out)
           rest == IF size = None THEN Err(one.em, "UnknownSize") ELSE two
           all == IF Failed(one.em) THEN one ELSE rest
           r == LowerAddressOf(em, e, out)
<1>1. \/ r = Err(em, "UnknownSize") \/ r = Err(em, "Unsupported")
      \/ e.e.kind = "SizedInt" /\ r = symbol
      \/ e.e.kind = "Ident" /\ r = all
  BY DEF LowerAddressOf, Then
<1>2. e.e.kind \in {"SizedInt", "Ident"} => UseropsOf(e) = <<>>
  BY UseropsByKind, PartsNestLess
<1>3. Calls(em, symbol, <<>>)
  BY CopyCalls
<1>4. Calls(em, one, <<>>)
  BY StorageCalls
<1> HIDE DEF symbol, one, size, r
<1>5. Recorded(one.em)
  BY <1>4 DEF Calls
<1>6. Calls(one.em, rest, <<>>)
  BY <1>5, CopyCalls, ErrCalls
<1> HIDE DEF rest
<1>7. Calls(em, all, <<>>)
  BY <1>4, <1>6, NoUserops, QuietThen
<1> HIDE DEF all
<1> QED
  BY <1>1, <1>2, <1>3, <1>7, ErrCalls DEF r

\* and another unary operation calls what its operand does,
LEMMA UnopCalls ==
  ASSUME UseropsRecur, NEW e \in Expressions, e.kind = "Unop", InOrder(e.e),
         NEW em, Recorded(em), NEW out
  PROVE  Calls(em, LowerUnop(em, e, out), UseropsOf(e))
<1> DEFINE own == IF e.op = "BoolNegate" THEN 1 ELSE KnownSize(em, e.e)
           size == OrElse(RequestedSize(out), OrElse(e.size, own))
           one == IF KnownSize(em, e.e) # None THEN LowerExpr(em, e.e, None)
                                               ELSE LowerExprWithSize(em, e.e, size)
           two == Output(one.em, out, size)
           last == EmitTo(two.em, e.op, two.v, <<one.v>>)
           rest == IF Failed(two.em) THEN two ELSE last
           all == IF Failed(one.em) THEN one ELSE rest
           r == LowerUnop(em, e, out)
<1>1. r = LowerAddressOf(em, e, out) \/ r = Err(em, "UnknownSize") \/ r = all
  BY DEF LowerUnop, Then
<1> HIDE DEF own, size
<1>2. UseropsOf(e) = UseropsOf(e.e) /\ UseropsOf(e.e) \in Userops
  BY UseropsByKind DEF InOrder
<1>3. e.op # "CallOther"
  BY ExpressionsAssumption DEF IsExpression, UnaryOperators
<1>4. Calls(em, one, UseropsOf(e.e))
  BY WithSizeCalls DEF InOrder
<1> HIDE DEF one, r
<1>5. Recorded(one.em)
  BY <1>4 DEF Calls
<1>6. Calls(one.em, two, <<>>)
  BY <1>5, OutputCalls
<1> HIDE DEF two
<1>7. Calls(two.em, last, <<>>)
  <2> DEFINE inputs == <<one.v>>
  <2>1. Recorded(two.em)
    BY <1>6 DEF Calls
  <2> HIDE DEF inputs
  <2> QED
    BY <1>3, <2>1, EmitCalls
<1> HIDE DEF last
<1>8. Calls(one.em, rest, <<>>)
  BY <1>5, <1>6, <1>7, NoUserops, QuietThen
<1> HIDE DEF rest
<1>9. Calls(em, all, UseropsOf(e))
  BY <1>2, <1>4, <1>8, ThenQuiet
<1> HIDE DEF all
<1> QED
  BY <1>1, <1>9, ErrCalls, AddressOfCalls DEF r

\* a binary one what its left operand does, then its right.
LEMMA BinopCalls ==
  ASSUME UseropsRecur, NEW e \in Expressions, e.kind = "Binop",
         InOrder(e.lhs), InOrder(e.rhs), NEW em, Recorded(em), NEW out
  PROVE  Calls(em, LowerBinop(em, e, out), UseropsOf(e))
<1> DEFINE stated == OrElse(RequestedSize(out), e.size)
           width == OrElse(IF e.op \in Boolean THEN None ELSE stated,
                           OrElse(KnownSize(em, e.lhs), KnownSize(em, e.rhs)))
           size == OrElse(stated, IF e.op \in Comparison THEN 1 ELSE width)
           one == LowerOperand(em, e.lhs, width)
           two == LowerOperand(one.em, e.rhs, width)
           three == Output(two.em, out, size)
           inputs == IF e.op \in DOMAIN Swapped THEN <<two.v, one.v>> ELSE <<one.v, two.v>>
           last == EmitBinop(three.em, e.op, three.v, inputs)
           third == IF Failed(three.em) THEN three ELSE last
           second == IF size = None THEN Err(two.em, "UnknownSize") ELSE third
           first == IF Failed(two.em) THEN two ELSE second
           r == LowerBinop(em, e, out)
<1>1. r = IF Failed(one.em) THEN one ELSE first
  BY DEF LowerBinop, Then
<1> HIDE DEF stated, width, size, inputs, r
<1>2. /\ UseropsOf(e) = Joined(UseropsOf(e.lhs), UseropsOf(e.rhs))
      /\ UseropsOf(e.lhs) \in Userops /\ UseropsOf(e.rhs) \in Userops
  BY UseropsByKind DEF InOrder
<1>3. Calls(em, one, UseropsOf(e.lhs))
  BY OperandCalls
<1> HIDE DEF one
<1>4. Recorded(one.em)
  BY <1>3 DEF Calls
<1>5. Calls(one.em, two, UseropsOf(e.rhs))
  BY <1>4, OperandCalls
<1> HIDE DEF two
<1>6. Recorded(two.em)
  BY <1>5 DEF Calls
<1>7. Calls(two.em, three, <<>>)
  BY <1>6, OutputCalls
<1> HIDE DEF three
<1>8. Recorded(three.em)
  BY <1>7 DEF Calls
<1>9. Calls(three.em, last, <<>>)
  <2> DEFINE check == Check(three.em, BinopError(e.op, three.v, inputs))
             then == EmitTo(check.em, BinaryOpcode(e.op), three.v, inputs)
  <2>1. last = IF Failed(check.em) THEN check ELSE then
    BY DEF EmitBinop, Then
  <2>2. Calls(three.em, check, <<>>)
    BY <1>8, CheckCalls
  <2> HIDE DEF check, last
  <2>3. BinaryOpcode(e.op) # "CallOther"
    BY ExpressionsAssumption DEF IsExpression, BinaryOperators, BinaryOpcode, Boolean,
       Comparison, Logical, Swapped
  <2>4. Recorded(check.em)
    BY <2>2 DEF Calls
  <2>5. Calls(check.em, then, <<>>)
    BY <2>3, <2>4, EmitCalls
  <2> HIDE DEF then
  <2> QED
    BY <1>8, <2>1, <2>2, <2>5, NoUserops, QuietThen
<1> HIDE DEF last
<1>10. Calls(two.em, third, <<>>)
  BY <1>6, <1>7, <1>9, NoUserops, QuietThen
<1> HIDE DEF third
<1>11. Calls(two.em, second, <<>>)
  BY <1>6, <1>10, ErrCalls
<1> HIDE DEF second
<1>12. Calls(one.em, first, UseropsOf(e.rhs))
  BY <1>2, <1>4, <1>5, <1>11, ThenQuiet
<1> HIDE DEF first
<1> QED
  BY <1>1, <1>2, <1>3, <1>12, CallsThen DEF r

\* So for any kind,
LEMMA KindCalls ==
  ASSUME UseropsRecur, NEW e \in Expressions,
         \A part \in Expressions : Depth[part] < Depth[e] => InOrder(part),
         NEW em, Recorded(em), NEW out
  PROVE  Calls(em, LowerExprByKind(em, e, out), UseropsOf(e))
<1>1. CASE e.kind = "SizedInt"
  BY <1>1, SizedIntCalls, UseropsByKind DEF LowerExprByKind
<1>2. CASE e.kind = "Ident"
  BY <1>2, IdentCalls, UseropsByKind DEF LowerExprByKind
<1>3. CASE e.kind = "Load"
  BY <1>3, LoadCalls, PartsNestLess DEF LowerExprByKind
<1>4. CASE e.kind \in {"SubPieceMsb", "SubPieceLsb"}
  BY <1>4, SubPieceCalls, PartsNestLess DEF LowerExprByKind
<1>5. CASE e.kind = "Range"
  BY <1>5, RangeCalls, PartsNestLess DEF LowerExprByKind
<1>6. e.kind \in {"FunctionCall", "PcodeOp"} => \A n \in DOMAIN e.args : InOrder(e.args[n])
  BY PartsNestLess
<1>7. CASE e.kind = "FunctionCall"
  BY <1>6, <1>7, BuiltinCalls DEF LowerExprByKind
<1>8. CASE e.kind = "PcodeOp"
  BY <1>6, <1>8, PcodeOpCalls DEF LowerExprByKind
<1>9. CASE e.kind = "Unop"
  BY <1>9, UnopCalls, PartsNestLess DEF LowerExprByKind
<1>10. CASE e.kind = "Binop"
  BY <1>10, BinopCalls, PartsNestLess DEF LowerExprByKind
<1>11. CASE e.kind = "Internal"
  BY <1>11, ErrCalls DEF LowerExprByKind
<1>12. IsExpression(e)
  BY ExpressionsAssumption
<1> QED
  BY <1>1, <1>2, <1>3, <1>4, <1>5, <1>7, <1>8, <1>9, <1>10, <1>11, <1>12 DEF IsExpression

\* however deep it nests.
LEMMA ExpressionsCallInOrder ==
  ASSUME UseropsRecur, LowerRecurs
  PROVE  \A e \in Expressions : InOrder(e)
<1> DEFINE Good == {e \in Expressions : InOrder(e)}
<1>1. ASSUME NEW e \in Expressions,
             \A part \in Expressions : Depth[part] < Depth[e] => part \in Good
      PROVE  e \in Good
  <2>1. \A em, out : Recorded(em) => Calls(em, LowerExpr(em, e, out), UseropsOf(e))
    BY <1>1, KindCalls DEF LowerRecurs
  <2>2. UseropsOf(e) \in Userops /\ (e.kind = "SizedInt" => UseropsOf(e) = <<>>)
    BY UseropsType, UseropsByKind
  <2> QED
    BY <2>1, <2>2 DEF InOrder
<1> HIDE DEF Good
<1>2. Expressions \subseteq Good
  BY <1>1, ByDepth
<1> QED
  BY <1>2 DEF Good

----------------------------------------------------------------------------
(* Lowering a statement calls its user operations.                         *)

\* The value of a lane calls what its expression does,
LEMMA LaneValueCalls ==
  ASSUME NEW em, Recorded(em), NEW rhs, InOrder(rhs), NEW lane
  PROVE  Calls(em, LowerLaneValue(em, rhs, lane), UseropsOf(rhs))
<1> DEFINE one == LowerExprWithSize(em, rhs, lane.size)
           rest == IF one.v.size # lane.size THEN Err(one.em, "CopySizeMismatch")
                                             ELSE Ok(one.em, one.v)
           r == LowerLaneValue(em, rhs, lane)
<1>1. r = IF Failed(one.em) THEN one ELSE rest
  BY DEF LowerLaneValue, Then
<1>2. Calls(em, one, UseropsOf(rhs)) /\ UseropsOf(rhs) \in Userops
  BY WithSizeCalls DEF InOrder
<1> HIDE DEF one, r
<1>3. Calls(one.em, rest, <<>>)
  BY <1>2, ErrCalls, OkCalls DEF Calls
<1> HIDE DEF rest
<1> QED
  BY <1>1, <1>2, <1>3, ThenQuiet DEF r

\* extending a value, or an operation on one, nothing,
LEMMA TempCalls ==
  ASSUME NEW em, Recorded(em), NEW value, NEW number, NEW size
  PROVE  /\ Calls(em, Extend(em, value, size), <<>>)
         /\ \A opcode : opcode # "CallOther" => Calls(em, Temp(em, opcode, value, number, size), <<>>)
<1> DEFINE one == AllocateUnique(em, size)
<1>1. Calls(em, one, <<>>)
  BY AllocateCalls
<1> HIDE DEF one
<1>2. Recorded(one.em)
  BY <1>1 DEF Calls
<1>3. ASSUME NEW opcode, opcode # "CallOther", NEW inputs, NEW r,
             r = IF Failed(one.em) THEN one ELSE EmitTo(one.em, opcode, one.v, inputs)
      PROVE  Calls(em, r, <<>>)
  <2>1. Calls(one.em, EmitTo(one.em, opcode, one.v, inputs), <<>>)
    BY <1>2, <1>3, EmitCalls
  <2>2. IF Failed(one.em) THEN r = one ELSE Calls(one.em, r, <<>>)
    BY <1>3, <2>1
  <2> QED
    BY <1>1, <2>2, NoUserops, QuietThen
<1>4. Calls(em, Extend(em, value, size), <<>>)
  <2> DEFINE last == EmitTo(one.em, "IntZext", one.v, <<value>>)
             all == IF Failed(one.em) THEN one ELSE last
             r == Extend(em, value, size)
  <2>1. r = Err(em, "InputSizeMismatch") \/ r = Ok(em, value) \/ r = all
    BY DEF Extend, Then, one
  <2>2. Calls(em, all, <<>>)
    BY <1>3
  <2> HIDE DEF all, r
  <2> QED
    BY <2>1, <2>2, ErrCalls, OkCalls DEF r
<1>5. ASSUME NEW opcode, opcode # "CallOther"
      PROVE  Calls(em, Temp(em, opcode, value, number, size), <<>>)
  <2> DEFINE last == EmitTo(one.em, opcode, one.v, <<value, Constant(number, size)>>)
             r == Temp(em, opcode, value, number, size)
  <2>1. r = IF Failed(one.em) THEN one ELSE last
    BY DEF Temp, Then, one
  <2> HIDE DEF r
  <2> QED
    BY <1>3, <1>5, <2>1 DEF r
<1> QED
  BY <1>4, <1>5

\* and the value of a range what its expression does.
LEMMA RangeValueCalls ==
  ASSUME NEW em, Recorded(em), NEW rhs, InOrder(rhs), NEW start, NEW bits, NEW size
  PROVE  Calls(em, LowerRangeValue(em, rhs, start, bits, size), UseropsOf(rhs))
<1> DEFINE one == LowerExprWithSize(em, rhs, DivCeilByte(bits))
           two == IF Failed(one.em) THEN one ELSE Extend(one.em, one.v, size)
           three == IF Failed(two.em) THEN two
                    ELSE Temp(two.em, "IntAnd", two.v, Mask(bits), size)
           four == IF Failed(three.em) THEN three
                   ELSE Temp(three.em, "IntLeft", three.v, start, size)
           r == LowerRangeValue(em, rhs, start, bits, size)
<1>1. r = four
  BY DEF LowerRangeValue, Then
<1>2. Calls(em, one, UseropsOf(rhs)) /\ UseropsOf(rhs) \in Userops
  BY WithSizeCalls DEF InOrder
<1> HIDE DEF one, r
<1>3. Calls(em, two, UseropsOf(rhs))
  <2>1. Calls(one.em, Extend(one.em, one.v, size), <<>>)
    BY <1>2, TempCalls DEF Calls
  <2> QED
    BY <1>2, <2>1, ThenQuiet
<1> HIDE DEF two
<1>4. Calls(em, three, UseropsOf(rhs))
  <2>1. Calls(two.em, Temp(two.em, "IntAnd", two.v, Mask(bits), size), <<>>)
    BY <1>3, TempCalls DEF Calls
  <2> QED
    BY <1>2, <1>3, <2>1, ThenQuiet
<1> HIDE DEF three
<1>5. Calls(em, four, UseropsOf(rhs))
  <2>1. Calls(three.em, Temp(three.em, "IntLeft", three.v, start, size), <<>>)
    BY <1>4, TempCalls DEF Calls
  <2> QED
    BY <1>2, <1>4, <2>1, ThenQuiet
<1> QED
  BY <1>1, <1>5 DEF r

\* A range combined into its storage, or afresh, calls nothing else.
LEMMA CombineCalls ==
  ASSUME NEW em, Recorded(em), NEW storage, NEW start, NEW bits, NEW rhs, InOrder(rhs)
  PROVE  /\ Calls(em, CombineRange(em, storage, start, bits, rhs,
                                   LAMBDA em1 : Ok(em1, storage)), UseropsOf(rhs))
         /\ Calls(em, CombineRange(em, storage, start, bits, rhs,
                                   LAMBDA em1 : AllocateUnique(em1, storage.size)), UseropsOf(rhs))
<1> DEFINE one == LowerRangeValue(em, rhs, start, bits, storage.size)
           two == Temp(one.em, "IntAnd", storage, ClearMask(start, bits), storage.size)
           placed == Ok(two.em, storage)
           fresh == AllocateUnique(two.em, storage.size)
           Ored(three) == EmitTo(three.em, "IntOr", three.v, <<two.v, one.v>>)
           Third(three) == IF Failed(three.em) THEN three ELSE Ored(three)
           Second(three) == IF Failed(two.em) THEN two ELSE Third(three)
           in == CombineRange(em, storage, start, bits, rhs, LAMBDA em1 : Ok(em1, storage))
           new == CombineRange(em, storage, start, bits, rhs,
                               LAMBDA em1 : AllocateUnique(em1, storage.size))
<1>1. /\ in = IF Failed(one.em) THEN one ELSE Second(placed)
      /\ new = IF Failed(one.em) THEN one ELSE Second(fresh)
  BY DEF CombineRange, Then
<1>2. Calls(em, one, UseropsOf(rhs)) /\ UseropsOf(rhs) \in Userops
  BY RangeValueCalls DEF InOrder
<1> HIDE DEF one, in, new
<1>3. Recorded(one.em)
  BY <1>2 DEF Calls
<1>4. Calls(one.em, two, <<>>)
  BY <1>3, TempCalls
<1> HIDE DEF two
<1>5. Recorded(two.em)
  BY <1>4 DEF Calls
<1>6. Calls(two.em, placed, <<>>) /\ Calls(two.em, fresh, <<>>)
  BY <1>5, OkCalls, AllocateCalls
<1> HIDE DEF placed, fresh, Second
<1>7. ASSUME NEW three, Calls(two.em, three, <<>>)
      PROVE  Calls(one.em, Second(three), <<>>)
  <2> DEFINE inputs == <<two.v, one.v>>
  <2>1. Recorded(three.em)
    BY <1>7 DEF Calls
  <2> HIDE DEF inputs
  <2>2. Calls(three.em, EmitTo(three.em, "IntOr", three.v, inputs), <<>>)
    BY <2>1, EmitCalls
  <2>3. Calls(two.em, Third(three), <<>>)
    BY <1>5, <1>7, <2>2, NoUserops, QuietThen DEF inputs
  <2> HIDE DEF Third
  <2> QED
    BY <1>3, <1>4, <2>3, NoUserops, QuietThen DEF Second
<1>8. Calls(one.em, Second(placed), <<>>) /\ Calls(one.em, Second(fresh), <<>>)
  BY <1>6, <1>7
<1>9. Calls(em, in, UseropsOf(rhs))
  BY <1>1, <1>2, <1>8, ThenQuiet
<1>10. Calls(em, new, UseropsOf(rhs))
  BY <1>1, <1>2, <1>8, ThenQuiet
<1> QED
  BY <1>9, <1>10 DEF in, new

\* A write to a range calls what its value does,
LEMMA InsertCalls ==
  ASSUME NEW em, Recorded(em), NEW storage, NEW start, NEW bits, NEW rhs, InOrder(rhs)
  PROVE  Calls(em, InsertRange(em, storage, start, bits, rhs), UseropsOf(rhs))
<1> DEFINE lane == AlignedLane(storage, start, bits)
           in == CombineRange(em, storage, start, bits, rhs, LAMBDA em1 : Ok(em1, storage))
           one == LowerLaneValue(em, rhs, lane)
           two == EmitTo(one.em, "Copy", lane, <<one.v>>)
           wide == IF Failed(one.em) THEN one ELSE two
           r == InsertRange(em, storage, start, bits, rhs)
<1>1. r = Err(em, "InvalidRange") \/ r = in \/ r = wide
  BY DEF InsertRange, Then
<1>2. Calls(em, in, UseropsOf(rhs))
  BY CombineCalls DEF CombineRange, Then
<1> HIDE DEF in, lane, r
<1>3. Calls(em, one, UseropsOf(rhs)) /\ UseropsOf(rhs) \in Userops
  BY LaneValueCalls DEF InOrder
<1> HIDE DEF one
<1>4. Calls(one.em, two, <<>>)
  <2> DEFINE inputs == <<one.v>>
  <2>1. Recorded(one.em)
    BY <1>3 DEF Calls
  <2> HIDE DEF inputs
  <2> QED
    BY <2>1, EmitCalls
<1> HIDE DEF two
<1>5. Calls(em, wide, UseropsOf(rhs))
  BY <1>3, <1>4, ThenQuiet
<1> HIDE DEF wide
<1> QED
  BY <1>1, <1>2, <1>5, ErrCalls DEF r

\* and an assignment too.
LEMMA AssignmentCalls ==
  ASSUME NEW em, Recorded(em), NEW st, InOrder(st.rhs)
  PROVE  Calls(em, LowerAssignment(em, st), UseropsOf(st.rhs))
<1> DEFINE one == StorageForIdent(em, st.lhs, OrElse(st.size, KnownSize(em, st.rhs)))
           two == LowerExpr(one.em, st.rhs, one.v)
           whole == IF Failed(one.em) THEN one ELSE two
           info == BitRangeInfo(st.lhs.id)
           part == InsertRange(em, info.storage, info.start, info.bits, st.rhs)
           r == LowerAssignment(em, st)
<1>1. r = Err(em, "Unsupported") \/ r = part \/ r = whole
  BY DEF LowerAssignment, Then
<1>2. Calls(em, part, UseropsOf(st.rhs))
  BY InsertCalls
<1>3. Calls(em, one, <<>>)
  BY StorageCalls
<1> HIDE DEF part, one, r
<1>4. Calls(one.em, two, UseropsOf(st.rhs)) /\ UseropsOf(st.rhs) \in Userops
  BY <1>3 DEF InOrder, Calls
<1> HIDE DEF two
<1>5. Calls(em, whole, UseropsOf(st.rhs))
  BY <1>3, <1>4, QuietThen
<1> HIDE DEF whole
<1> QED
  BY <1>1, <1>2, <1>5, ErrCalls DEF r

\* A store back calls its pointer's again,
LEMMA StoreBackCalls ==
  ASSUME NEW em, Recorded(em), NEW load, InOrder(load.ptr), NEW offset, NEW value
  PROVE  Calls(em, StoreBack(em, load, offset, value), UseropsOf(load.ptr))
<1> DEFINE space == LoadSpace(load)
           ids == UseropsOf(load.ptr)
           one == LowerPointer(em, space, load.ptr)
           two == IF Failed(one.em) THEN one ELSE Moved(one.em, one.v, offset)
           last == Ok(Emit(two.em, "Store", None, <<SpaceId(space), two.v, value>>), None)
           all == IF Failed(two.em) THEN two ELSE last
           r == StoreBack(em, load, offset, value)
<1>1. r = Err(em, "Unsupported") \/ r = all
  BY DEF StoreBack, Then
<1>2. Calls(em, one, ids) /\ ids \in Userops
  BY PointerCalls DEF InOrder
<1> HIDE DEF one, ids, r
<1>3. Recorded(one.em)
  BY <1>2 DEF Calls
<1>4. Calls(one.em, Moved(one.em, one.v, offset), <<>>)
  BY <1>3, OkCalls, TempCalls DEF Moved
<1>5. Calls(em, two, ids)
  BY <1>2, <1>4, ThenQuiet
<1> HIDE DEF two
<1>6. Calls(two.em, last, <<>>)
  <2> DEFINE inputs == <<SpaceId(space), two.v, value>>
  <2>1. Recorded(two.em)
    BY <1>5 DEF Calls
  <2> HIDE DEF inputs
  <2> QED
    BY <2>1, EmitCalls
<1> HIDE DEF last
<1>7. Calls(em, all, ids)
  BY <1>2, <1>5, <1>6, ThenQuiet
<1> HIDE DEF all
<1> QED
  BY <1>1, <1>7, ErrCalls DEF r, ids

\* after the value's,
LEMMA WriteBackCalls ==
  ASSUME NEW em, Recorded(em), NEW storage, NEW range, InOrder(range.value.ptr),
         NEW rhs, InOrder(rhs)
  PROVE  Calls(em, WriteBack(em, storage, range, rhs),
               Joined(UseropsOf(rhs), UseropsOf(range.value.ptr)))
<1> DEFINE ids == UseropsOf(rhs)
           again == UseropsOf(range.value.ptr)
           lane == AlignedLane(storage, range.start, range.bits)
           one == CombineRange(em, storage, range.start, range.bits, rhs,
                               LAMBDA em1 : AllocateUnique(em1, storage.size))
           two == StoreBack(one.em, range.value, 0, one.v)
           word == IF Failed(one.em) THEN one ELSE two
           value == LowerLaneValue(em, rhs, lane)
           three == StoreBack(value.em, range.value, range.start \div ByteBits, value.v)
           wide == IF Failed(value.em) THEN value ELSE three
           r == WriteBack(em, storage, range, rhs)
<1>1. r = Err(em, "InvalidRange") \/ r = word \/ r = wide
  BY DEF WriteBack, Then
<1>2. ids \in Userops /\ again \in Userops
  BY DEF InOrder
<1>3. Calls(em, one, ids) /\ Calls(em, value, ids)
  <2>1. Calls(em, one, ids)
    BY CombineCalls DEF CombineRange, Then
  <2>2. Calls(em, value, ids)
    BY LaneValueCalls
  <2> QED
    BY <2>1, <2>2
<1> HIDE DEF one, value, lane, r
<1>4. Recorded(one.em) /\ Recorded(value.em)
  BY <1>3 DEF Calls
<1>5. Calls(one.em, two, again) /\ Calls(value.em, three, again)
  BY <1>4, StoreBackCalls
<1> HIDE DEF two, three, ids, again
<1>6. Calls(em, word, Joined(ids, again))
  BY <1>2, <1>3, <1>5, CallsThen
<1>7. Calls(em, wide, Joined(ids, again))
  BY <1>2, <1>3, <1>5, CallsThen
<1> HIDE DEF word, wide
<1> QED
  BY <1>1, <1>6, <1>7, ErrCalls DEF r, ids, again

\* which come after the load's.
LEMMA LoadRangeCalls ==
  ASSUME UseropsRecur, NEW em, Recorded(em), NEW range, range.value \in Expressions,
         range.value.kind = "Load", InOrder(range.value.ptr), NEW rhs, InOrder(rhs)
  PROVE  Calls(em, LowerLoadRangeAssignment(em, range, rhs),
               Joined(Joined(UseropsOf(range.value), UseropsOf(rhs)), UseropsOf(range.value)))
<1> DEFINE ptr == UseropsOf(range.value)
           ids == UseropsOf(rhs)
           one == LowerLoad(em, range.value, None)
           two == WriteBack(one.em, one.v, range, rhs)
           rest == IF ~RangeKnown(range) THEN Err(one.em, "UnresolvedRangeParameter") ELSE two
           r == LowerLoadRangeAssignment(em, range, rhs)
<1>1. r = IF Failed(one.em) THEN one ELSE rest
  BY DEF LowerLoadRangeAssignment, Then
<1>2. /\ ptr = UseropsOf(range.value.ptr)
      /\ UseropsOf(range.value.ptr) \in Userops /\ ids \in Userops
  BY UseropsByKind DEF InOrder
<1>3. Calls(em, one, ptr)
  BY LoadCalls
<1> HIDE DEF one, r
<1>4. Recorded(one.em)
  BY <1>3 DEF Calls
<1>5. Calls(one.em, two, Joined(ids, ptr))
  BY <1>2, <1>4, WriteBackCalls
<1> HIDE DEF two, ids, ptr
<1>6. Calls(one.em, rest, Joined(ids, ptr))
  BY <1>4, <1>5, ErrCalls
<1> HIDE DEF rest
<1>7. Joined(ids, ptr) \in Userops /\ Joined(ptr, Joined(ids, ptr)) = Joined(Joined(ptr, ids), ptr)
  BY <1>2, JoinedType, JoinedTwice DEF Userops
<1>8. Calls(em, r, Joined(ptr, Joined(ids, ptr)))
  BY <1>1, <1>2, <1>3, <1>6, <1>7, CallsThen
<1> QED
  BY <1>7, <1>8 DEF r, ids, ptr

\* A name's range has no pointer.
LEMMA RangeAssignmentCalls ==
  ASSUME UseropsRecur, \A e \in Expressions : InOrder(e), NEW em, Recorded(em),
         NEW range \in Expressions, range.kind = "Range", NEW rhs \in Expressions
  PROVE  Calls(em, LowerRangeAssignment(em, range, rhs),
               Joined(Joined(UseropsOf(range.value), UseropsOf(rhs)), UseropsOf(range.value)))
<1> DEFINE ptr == UseropsOf(range.value)
           ids == UseropsOf(rhs)
           ident == range.value.ident
           one == StorageForIdent(em, ident, range.value.size)
           two == InsertRange(one.em, one.v, range.start, range.bits, rhs)
           rest == IF ~RangeKnown(range) THEN Err(one.em, "UnresolvedRangeParameter") ELSE two
           named == IF Failed(one.em) THEN one ELSE rest
           r == LowerRangeAssignment(em, range, rhs)
<1>1. \/ r = Err(em, "Unsupported")
      \/ range.value.kind = "Load" /\ r = LowerLoadRangeAssignment(em, range, rhs)
      \/ range.value.kind = "Ident" /\ r = named
  BY DEF LowerRangeAssignment, Then
<1>2. range.value \in Expressions
  BY PartsNestLess
<1>3. ASSUME range.value.kind = "Load"
      PROVE  Calls(em, LowerLoadRangeAssignment(em, range, rhs), Joined(Joined(ptr, ids), ptr))
  <2>1. range.value.ptr \in Expressions
    BY <1>2, <1>3, PartsNestLess
  <2> QED
    BY <1>2, <1>3, <2>1, LoadRangeCalls
<1>4. Calls(em, one, <<>>)
  BY StorageCalls
<1> HIDE DEF one, r
<1>5. Recorded(one.em)
  BY <1>4 DEF Calls
<1>6. Calls(one.em, two, ids) /\ ids \in Userops
  BY <1>5, InsertCalls DEF InOrder
<1> HIDE DEF two
<1>7. Calls(one.em, rest, ids)
  BY <1>5, <1>6, ErrCalls
<1> HIDE DEF rest
<1>8. Calls(em, named, ids)
  BY <1>4, <1>6, <1>7, QuietThen
<1> HIDE DEF named
<1>9. ASSUME range.value.kind = "Ident" PROVE Joined(Joined(ptr, ids), ptr) = ids
  <2>1. ptr = <<>>
    BY <1>2, <1>9, UseropsByKind
  <2> QED
    BY <1>6, <2>1, JoinedNothing DEF Userops
<1> QED
  BY <1>1, <1>3, <1>8, <1>9, ErrCalls DEF r

\* A stored value calls what its expression does,
LEMMA StoredValueCalls ==
  ASSUME NEW em, Recorded(em), NEW e, InOrder(e), NEW bytes
  PROVE  Calls(em, LowerStoredValue(em, e, bytes), UseropsOf(e))
<1> DEFINE one == LowerOperand(em, e, bytes)
           two == Check(one.em, StoreSizeError(bytes, one.v))
           rest == IF Failed(two.em) THEN two ELSE Ok(two.em, one.v)
           r == LowerStoredValue(em, e, bytes)
<1>1. r = IF Failed(one.em) THEN one ELSE rest
  BY DEF LowerStoredValue, Then
<1>2. Calls(em, one, UseropsOf(e)) /\ UseropsOf(e) \in Userops
  BY OperandCalls DEF InOrder
<1> HIDE DEF one, r
<1>3. Recorded(one.em)
  BY <1>2 DEF Calls
<1>4. Calls(one.em, two, <<>>)
  BY <1>3, CheckCalls
<1> HIDE DEF two
<1>5. Calls(two.em, Ok(two.em, one.v), <<>>)
  BY <1>4, OkCalls DEF Calls
<1>6. Calls(one.em, rest, <<>>)
  BY <1>3, <1>4, <1>5, NoUserops, QuietThen
<1> HIDE DEF rest
<1> QED
  BY <1>1, <1>2, <1>6, ThenQuiet DEF r

\* after its pointer's.
LEMMA StoreCalls ==
  ASSUME NEW em, Recorded(em), NEW st, InOrder(st.load.ptr), InOrder(st.rhs)
  PROVE  Calls(em, LowerStore(em, st), Joined(UseropsOf(st.load.ptr), UseropsOf(st.rhs)))
<1> DEFINE space == LoadSpace(st.load)
           ptr == UseropsOf(st.load.ptr)
           ids == UseropsOf(st.rhs)
           one == LowerPointer(em, space, st.load.ptr)
           two == LowerStoredValue(one.em, st.rhs, st.load.bytes)
           last == Ok(Emit(two.em, "Store", None, <<SpaceId(space), one.v, two.v>>), None)
           rest == IF Failed(two.em) THEN two ELSE last
           all == IF Failed(one.em) THEN one ELSE rest
           r == LowerStore(em, st)
<1>1. r = Err(em, "UnresolvedSpace") \/ r = Err(em, "Unsupported") \/ r = all
  BY DEF LowerStore, Then
<1>2. Calls(em, one, ptr) /\ ptr \in Userops /\ ids \in Userops
  BY PointerCalls DEF InOrder
<1> HIDE DEF one, r
<1>3. Recorded(one.em)
  BY <1>2 DEF Calls
<1>4. Calls(one.em, two, ids)
  BY <1>3, StoredValueCalls
<1> HIDE DEF two
<1>5. Calls(two.em, last, <<>>)
  <2> DEFINE inputs == <<SpaceId(space), one.v, two.v>>
  <2>1. Recorded(two.em)
    BY <1>4 DEF Calls
  <2> HIDE DEF inputs
  <2> QED
    BY <2>1, EmitCalls
<1> HIDE DEF last, ptr, ids
<1>6. Calls(one.em, rest, ids)
  BY <1>2, <1>3, <1>4, <1>5, ThenQuiet
<1> HIDE DEF rest
<1>7. Calls(em, all, Joined(ptr, ids))
  BY <1>2, <1>3, <1>6, CallsThen
<1> HIDE DEF all
<1> QED
  BY <1>1, <1>7, ErrCalls DEF r, ptr, ids

\* A label or a branch to one is no operation,
LEMMA LabelCalls ==
  ASSUME NEW em, Recorded(em), NEW name
  PROVE  Calls(em, LowerLabel(em, name), <<>>)
<1> DEFINE here == [em EXCEPT !.defined = @ \cup {name}]
           event == [event |-> "label", label |-> name]
           last == Ok(Report(here, event), None)
           r == LowerLabel(em, name)
<1>1. r = Err(em, "UnknownLabel") \/ r = Err(em, "DuplicateLabel") \/ r = last
  BY DEF LowerLabel
<1>2. Recorded(here) /\ here.events = em.events
  BY DEF Recorded
<1>3. CallOf(event) = <<>>
  BY DEF CallOf
<1> HIDE DEF here, event, r
<1>4. Calls(here, last, <<>>)
  BY <1>2, <1>3, NoUserops, ReportCalls
<1>5. Calls(em, last, <<>>)
  BY <1>2, <1>4 DEF Calls
<1> HIDE DEF last
<1> QED
  BY <1>1, <1>5, ErrCalls DEF r

\* and control that flows on directly calls nothing,
LEMMA DirectCalls ==
  ASSUME NEW em, Recorded(em), NEW opcode, opcode # "CallOther",
         NEW target, target.form \in {"Label", "Expr", "Node"}, NEW condition
  PROVE  Calls(em, LowerDirectFlow(em, opcode, target, condition), <<>>)
<1> DEFINE event == [event |-> "branch", opcode |-> opcode,
                     label |-> target.name, condition |-> condition]
           branch == Ok(Report(em, event), None)
           one == DirectTarget(em, target.expr)
           two == EmitTo(one.em, opcode, None, <<one.v>> \o condition)
           address == IF Failed(one.em) THEN one ELSE two
           r == LowerDirectFlow(em, opcode, target, condition)
<1>1. \/ r = Err(em, "UnknownLabel") \/ r = Err(em, "InternalNode")
      \/ r = branch \/ r = address
  BY DEF LowerDirectFlow, Then
<1>2. CallOf(event) = <<>>
  BY DEF CallOf
<1>3. Calls(em, one, <<>>)
  BY ErrCalls, OkCalls DEF DirectTarget
<1> HIDE DEF event, one, r
<1>4. Calls(em, branch, <<>>)
  BY <1>2, NoUserops, ReportCalls
<1>5. Calls(one.em, two, <<>>)
  <2> DEFINE inputs == <<one.v>> \o condition
  <2>1. Recorded(one.em)
    BY <1>3 DEF Calls
  <2> HIDE DEF inputs
  <2> QED
    BY <2>1, EmitCalls
<1> HIDE DEF branch, two
<1>6. Calls(em, address, <<>>)
  BY <1>3, <1>5, NoUserops, QuietThen
<1> HIDE DEF address
<1> QED
  BY <1>1, <1>4, <1>6, ErrCalls DEF r

\* but under a condition what that does,
LEMMA ConditionalCalls ==
  ASSUME NEW em, Recorded(em), NEW st, InOrder(st.condition), IsTarget(st.target)
  PROVE  Calls(em, LowerConditionalBranch(em, st), UseropsOf(st.condition))
<1> DEFINE one == LowerExpr(em, st.condition, None)
           two == LowerDirectFlow(one.em, "CBranch", st.target, <<one.v>>)
           r == LowerConditionalBranch(em, st)
<1>1. r = IF Failed(one.em) THEN one ELSE two
  BY DEF LowerConditionalBranch, Then
<1>2. Calls(em, one, UseropsOf(st.condition)) /\ UseropsOf(st.condition) \in Userops
  BY DEF InOrder
<1> HIDE DEF one, r
<1>3. Calls(one.em, two, <<>>)
  <2> DEFINE condition == <<one.v>>
  <2>1. Recorded(one.em)
    BY <1>2 DEF Calls
  <2> HIDE DEF condition
  <2> QED
    BY <2>1, DirectCalls DEF IsTarget
<1> HIDE DEF two
<1> QED
  BY <1>1, <1>2, <1>3, ThenQuiet DEF r

\* and indirectly what the target does.
LEMMA IndirectCalls ==
  ASSUME NEW em, Recorded(em), NEW opcode, opcode # "CallOther", NEW e, InOrder(e)
  PROVE  Calls(em, LowerIndirectFlow(em, opcode, e), UseropsOf(e))
<1> DEFINE one == LowerExpr(em, e, None)
           two == EmitTo(one.em, opcode, None, <<one.v>>)
           r == LowerIndirectFlow(em, opcode, e)
<1>1. r = IF Failed(one.em) THEN one ELSE two
  BY DEF LowerIndirectFlow, Then
<1>2. Calls(em, one, UseropsOf(e)) /\ UseropsOf(e) \in Userops
  BY DEF InOrder
<1> HIDE DEF one, r
<1>3. Calls(one.em, two, <<>>)
  <2> DEFINE inputs == <<one.v>>
  <2>1. Recorded(one.em)
    BY <1>2 DEF Calls
  <2> HIDE DEF inputs
  <2> QED
    BY <2>1, EmitCalls
<1> HIDE DEF two
<1> QED
  BY <1>1, <1>2, <1>3, ThenQuiet DEF r

\* A user operation that is a statement is called after its arguments'.
LEMMA EffectCalls ==
  ASSUME UseropsRecur, \A e \in Expressions : InOrder(e), NEW e \in Expressions,
         NEW em, Recorded(em)
  PROVE  Calls(em, LowerEffect(em, e), UseropsOf(e))
<1> DEFINE r == LowerEffect(em, e)
<1>1. CASE e.kind = "PcodeOp"
  <2> DEFINE one == LowerUseropInputs(em, e)
             two == EmitTo(one.em, "CallOther", None, one.v)
  <2>1. r = IF Failed(one.em) THEN one ELSE two
    BY <1>1 DEF LowerEffect, Then
  <2>2. UseropsOf(e) = Joined(UseropsOfAll(e.args), <<e.id>>) /\ <<e.id>> \in Userops
    BY <1>1, UseropsByKind
  <2>3. \A n \in DOMAIN e.args : InOrder(e.args[n])
    BY <1>1, PartsNestLess
  <2>4. /\ Calls(em, one, UseropsOfAll(e.args)) /\ UseropsOfAll(e.args) \in Userops
        /\ ~Failed(one.em) => one.v[1].offset = e.id
    BY <1>1, <2>3, UseropInputsCall
  <2> HIDE DEF one, r
  <2>5. ~Failed(one.em) => Calls(one.em, two, <<e.id>>)
    BY <2>2, <2>4, EmitUserop DEF Calls
  <2> HIDE DEF two
  <2>6. Calls(em, r, Joined(UseropsOfAll(e.args), <<e.id>>))
    BY <2>1, <2>2, <2>4, <2>5, CallsThen
  <2> QED
    BY <2>2, <2>6 DEF r
<1>2. CASE e.kind # "PcodeOp"
  <2>1. r = Err(em, "InternalNode") \/ r = Err(em, "Unsupported")
    BY <1>2 DEF LowerEffect
  <2> HIDE DEF r
  <2> QED
    BY <2>1, ErrCalls DEF r
<1> QED
  BY <1>1, <1>2

\* `lower_statement`.
LEMMA StatementCalls ==
  ASSUME UseropsRecur, \A e \in Expressions : InOrder(e), NEW st, IsStatement(st),
         NEW em, Recorded(em)
  PROVE  Calls(em, LowerStatement(em, st), StatementUserops(st))
<1> DEFINE r == LowerStatement(em, st)
           ids == StatementUserops(st)
<1>1. CASE st.kind = "Assignment"
  <2>1. r = LowerAssignment(em, st) /\ ids = UseropsOf(st.rhs) /\ st.rhs \in Expressions
    BY <1>1 DEF LowerStatement, StatementUserops, IsStatement
  <2> HIDE DEF r, ids
  <2> QED
    BY <2>1, AssignmentCalls DEF r, ids
<1>2. CASE st.kind = "LoadAssignment"
  <2>1. /\ r = LowerStore(em, st) /\ ids = Joined(UseropsOf(st.load.ptr), UseropsOf(st.rhs))
        /\ st.rhs \in Expressions /\ st.load.ptr \in Expressions
    BY <1>2, PartsNestLess DEF LowerStatement, StatementUserops, IsStatement, Joined
  <2> HIDE DEF r, ids
  <2> QED
    BY <2>1, StoreCalls DEF r, ids
<1>3. CASE st.kind = "RangeAssignment"
  <2> DEFINE ptr == UseropsOf(st.range.value)
  <2>1. /\ r = LowerRangeAssignment(em, st.range, st.rhs)
        /\ ids = Joined(Joined(ptr, UseropsOf(st.rhs)), ptr)
        /\ st.range \in Expressions /\ st.range.kind = "Range" /\ st.rhs \in Expressions
    BY <1>3 DEF LowerStatement, StatementUserops, IsStatement, Joined
  <2> HIDE DEF r, ids
  <2> QED
    BY <2>1, RangeAssignmentCalls DEF r, ids
<1>4. CASE st.kind = "Label"
  <2>1. r = LowerLabel(em, st.name) /\ ids = <<>>
    BY <1>4 DEF LowerStatement, StatementUserops
  <2> HIDE DEF r, ids
  <2> QED
    BY <2>1, LabelCalls DEF r, ids
<1>5. CASE st.kind \in {"Branch", "Call"}
  <2> DEFINE nothing == <<>>
  <2>1. /\ ids = nothing /\ IsTarget(st.target)
        /\ \E opcode \in {"Branch", "Call"} : r = LowerDirectFlow(em, opcode, st.target, nothing)
    BY <1>5 DEF LowerStatement, StatementUserops, IsStatement
  <2> HIDE DEF r, ids
  <2> QED
    BY <2>1, DirectCalls DEF r, ids, IsTarget
<1>6. CASE st.kind = "ConditionalBranch"
  <2>1. /\ r = LowerConditionalBranch(em, st) /\ ids = UseropsOf(st.condition)
        /\ IsTarget(st.target) /\ st.condition \in Expressions
    BY <1>6 DEF LowerStatement, StatementUserops, IsStatement
  <2> HIDE DEF r, ids
  <2> QED
    BY <2>1, ConditionalCalls DEF r, ids
<1>7. CASE st.kind \in {"BranchIndirect", "CallIndirect", "Return"}
  <2>1. /\ ids = UseropsOf(st.target) /\ st.target \in Expressions
        /\ \E opcode \in {"BranchInd", "CallInd", "Return"} :
              r = LowerIndirectFlow(em, opcode, st.target)
    BY <1>7 DEF LowerStatement, StatementUserops, IsStatement
  <2> HIDE DEF r, ids
  <2> QED
    BY <2>1, IndirectCalls DEF r, ids
<1>8. CASE st.kind = "Expression"
  <2>1. r = LowerEffect(em, st.expr) /\ ids = UseropsOf(st.expr) /\ st.expr \in Expressions
    BY <1>8 DEF LowerStatement, StatementUserops, IsStatement
  <2> HIDE DEF r, ids
  <2> QED
    BY <2>1, EffectCalls DEF r, ids
<1>9. CASE st.kind \in {"Internal", "Export"}
  <2>1. r = Err(em, "InternalNode")
    BY <1>9 DEF LowerStatement
  <2> HIDE DEF r, ids
  <2> QED
    BY <2>1, ErrCalls DEF r, ids
<1> QED
  BY <1>1, <1>2, <1>3, <1>4, <1>5, <1>6, <1>7, <1>8, <1>9 DEF IsStatement

\* What a statement calls is user operations.
LEMMA StatementUseropsType ==
  ASSUME \A e \in Expressions : InOrder(e), NEW st, IsStatement(st)
  PROVE  StatementUserops(st) \in Userops
<1>1. \A e \in Expressions : UseropsOf(e) \in Userops
  BY DEF InOrder
<1>2. \A a, b \in Userops : Joined(a, b) \in Userops
  BY JoinedType DEF Userops
<1>3. CASE st.kind = "LoadAssignment"
  <2>1. /\ StatementUserops(st) = Joined(UseropsOf(st.load.ptr), UseropsOf(st.rhs))
        /\ st.load.ptr \in Expressions /\ st.rhs \in Expressions
    BY <1>3, PartsNestLess DEF StatementUserops, IsStatement, Joined
  <2> QED
    BY <1>1, <1>2, <2>1
<1>4. CASE st.kind = "RangeAssignment"
  <2>1. /\ StatementUserops(st) =
              Joined(Joined(UseropsOf(st.range.value), UseropsOf(st.rhs)), UseropsOf(st.range.value))
        /\ st.range.value \in Expressions /\ st.rhs \in Expressions
    BY <1>4, PartsNestLess DEF StatementUserops, IsStatement, Joined
  <2> QED
    BY <1>1, <1>2, <2>1
<1>5. CASE st.kind \notin {"LoadAssignment", "RangeAssignment"}
  BY <1>1, <1>5, NoUserops DEF StatementUserops, IsStatement
<1> QED
  BY <1>3, <1>4, <1>5

----------------------------------------------------------------------------
(* The user operations of an instruction.                                  *)

\* Those of the first `n` statements of `program`.
UseropsUpTo(program, n) == FlattenSeq([k \in 1 .. n |-> StatementUserops(program[k])])

\* The inductive invariant: as long as nothing failed, the stream calls the
\* user operations of the statements emitted.
CallsInv ==
    /\ CallsUserops(stream)
    /\ ~Failed(emitter) => UseropsCalled(stream) = UseropsUpTo(statements, emitted)
    /\ Lowered => ~Failed(emitter)

\* Those of none,
LEMMA UseropsOfNone == \A program : UseropsUpTo(program, 0) = <<>>
<1> SUFFICES ASSUME NEW program PROVE UseropsUpTo(program, 0) = <<>>
  OBVIOUS
<1>1. [k \in 1 .. 0 |-> StatementUserops(program[k])] = <<>>
  OBVIOUS
<1> QED
  BY <1>1, NoUserops, FlattenFew DEF UseropsUpTo, Userops

\* and of one statement more.
LEMMA UseropsOneMore ==
  ASSUME NEW program, NEW n \in Nat \ {0},
         \A k \in 1 .. n : StatementUserops(program[k]) \in Userops
  PROVE  UseropsUpTo(program, n) =
            Joined(UseropsUpTo(program, n - 1), StatementUserops(program[n]))
<1> DEFINE ids(k) == StatementUserops(program[k])
           all == [k \in 1 .. n |-> ids(k)]
           before == [k \in 1 .. n - 1 |-> ids(k)]
           one == <<ids(n)>>
<1>1. n \in Nat /\ n - 1 \in Nat /\ n = n - 1 + 1 /\ \A k \in 1 .. n : ids(k) \in Userops
  OBVIOUS
<1> HIDE DEF ids
<1>2. /\ all \in Seq(Userops) /\ Len(all) = n
      /\ before \in Seq(Userops) /\ Len(before) = n - 1
      /\ one \in Seq(Userops) /\ Len(one) = 1
  <2>1. all \in [1 .. n -> Userops] /\ before \in [1 .. n - 1 -> Userops]
    BY <1>1
  <2> HIDE DEF Userops
  <2> QED
    BY <1>1, <2>1
<1>3. \A k \in 1 .. n - 1 : all[k] = before[k]
  BY <1>1
<1>4. \A k \in 1 .. 1 : all[n - 1 + k] = one[k]
  BY <1>1
<1> HIDE DEF all, before, one
<1>5. all = before \o one
  <2>1. Len(all) = Len(before) + Len(one)
    BY <1>1, <1>2
  <2>2. /\ \A k \in 1 .. Len(before) : all[k] = before[k]
        /\ \A k \in 1 .. Len(one) : all[Len(before) + k] = one[k]
    BY <1>2, <1>3, <1>4
  <2>3. all = Joined(before, one)
    BY <1>2, <2>1, <2>2, JoinedIs
  <2> QED
    BY <2>3 DEF Joined
<1>6. FlattenSeq(all) = Joined(FlattenSeq(before), FlattenSeq(one))
  BY <1>2, <1>5, FlattenJoined DEF Userops
<1>7. FlattenSeq(one) = ids(n)
  <2>1. ids(n) \in Userops
    BY <1>1
  <2> QED
    BY <2>1, FlattenFew DEF one, Userops
<1> QED
  BY <1>6, <1>7 DEF UseropsUpTo, all, before, ids

\* No events call nothing.
LEMMA NothingCalled == CallsUserops(<<>>) /\ UseropsCalled(<<>>) = <<>>
<1>1. [n \in DOMAIN <<>> |-> CallOf(<<>>[n])] = <<>>
  OBVIOUS
<1>2. IsList(<<>>)
  BY DEF IsList
<1>3. FlattenSeq(<<>>) = <<>>
  BY NoUserops, FlattenFew DEF Userops
<1> QED
  BY <1>1, <1>2, <1>3 DEF CallsUserops, UseropsCalled

\* It starts with none,
LEMMA CallsInitially ==
  ASSUME Init
  PROVE  CallsInv
<1>1. /\ statements \in Programs /\ emitted = 0 /\ outcome = "open" /\ stream = <<>>
      /\ emitter.err = "ok"
  BY DEF Init, PipeInit, NewEmitter
<1> QED
  BY <1>1, NothingCalled, UseropsOfNone DEF CallsInv, Lowered

\* a statement adds its own,
LEMMA EmissionCalls ==
  ASSUME SizeRecurs, LowerRecurs, UseropsRecur, LowerInv, CallsInv, EmitStep
  PROVE  CallsInv'
<1> DEFINE st == statements[emitted + 1]
           em == Emptied(emitter)
           r == LowerStatement(em, st)
           ids == StatementUserops(st)
<1>1. /\ finished /\ outcome = "open" /\ emitted < Len(statements)
      /\ emitter' = EmitStatement(emitter, st)
      /\ emitted' = emitted + 1 /\ statements' = statements
      /\ stream' = stream \o emitter'.events
      /\ outcome' = IF Failed(emitter') THEN emitter'.err ELSE "open"
  BY DEF EmitStep, inferVars
<1>2. Ready(emitter) /\ statements \in Programs /\ emitted \in 0 .. Len(statements)
  BY <1>1 DEF LowerInv, EmitterInv, Ready, PipeInv, FedInOrder
<1>3. DOMAIN statements = 1 .. Len(statements) /\ Len(statements) \in Nat
  <2>1. statements \in Seq(Range(statements))
    BY <1>2, ProgramsAssumption
  <2> QED
    BY <2>1
<1>4. emitted + 1 \in 1 .. Len(statements)
  BY <1>1, <1>2, <1>3
<1>5. IsStatement(st)
  BY <1>2, <1>3, <1>4, StatementsAssumption
<1>6. \A e \in Expressions : InOrder(e)
  BY ExpressionsCallInOrder
<1>7. emitter' = r.em
  BY <1>1 DEF EmitStatement, Emptied
<1>8. em.events = <<>> /\ {"events", "err"} \subseteq DOMAIN em
  BY <1>2, EmptiedIsReady DEF Ready, IsEmitter
<1>9. UseropsUpTo(statements, emitted + 1) = Joined(UseropsUpTo(statements, emitted), ids)
  <2> DEFINE n == emitted + 1
  <2>1. \A k \in 1 .. Len(statements) : StatementUserops(statements[k]) \in Userops
    BY <1>2, <1>3, <1>6, StatementsAssumption, StatementUseropsType
  <2>2. n \in Nat \ {0} /\ n - 1 = emitted /\ 1 .. n \subseteq 1 .. Len(statements)
    BY <1>1, <1>2, <1>3
  <2> HIDE DEF n
  <2>3. UseropsUpTo(statements, n) =
           Joined(UseropsUpTo(statements, n - 1), StatementUserops(statements[n]))
    BY <2>1, <2>2, UseropsOneMore
  <2> QED
    BY <2>2, <2>3 DEF n
<1> HIDE DEF em, st
<1>10. Recorded(em) /\ UseropsCalled(em.events) = <<>>
  BY <1>8, NothingCalled DEF Recorded
<1>11. Calls(em, r, ids) /\ ids \in Userops
  BY <1>5, <1>6, <1>10, StatementCalls, StatementUseropsType
<1> HIDE DEF r, ids
<1>12. CallsUserops(emitter'.events) /\ (~Failed(emitter') => UseropsCalled(emitter'.events) = ids)
  <2>1. Joined(<<>>, ids) = ids
    BY <1>11, JoinedNothing DEF Userops
  <2> QED
    BY <1>7, <1>10, <1>11, <2>1 DEF Calls, Recorded
<1>13. /\ CallsUserops(stream')
       /\ UseropsCalled(stream') = Joined(UseropsCalled(stream), UseropsCalled(emitter'.events))
  BY <1>1, <1>12, CallsOfBoth DEF CallsInv
<1>14. ~Failed(emitter)
  BY <1>2 DEF Ready, Failed
<1>15. outcome' # "lowered"
  <2>1. PICK one, before, after : Emitting(one, before, after)
    BY EmitSetting DEF LowerInv
  <2>2. EmitOne
    BY <2>1, EmissionIsOne DEF LowerInv
  <2> QED
    BY <2>2 DEF EmitOne, Emits, Fails, LabelFails, LowerErrors
<1>16. UseropsUpTo(statements, emitted)' = UseropsUpTo(statements, emitted + 1)
  BY <1>1 DEF UseropsUpTo
<1>17. CallsUserops(stream)' /\ UseropsCalled(stream)' = UseropsCalled(stream')
  BY <1>13 DEF CallsUserops, UseropsCalled, IsList
<1> QED
  BY <1>9, <1>12, <1>13, <1>14, <1>15, <1>16, <1>17 DEF CallsInv, Lowered, Failed

\* and nothing else emits or fails.
LEMMA StepCalls ==
  ASSUME Unfolding, UseropsRecur, LowerInv, CallsInv, [Next]_vars
  PROVE  CallsInv'
<1>1. ASSUME UNCHANGED <<statements, emitter, emitted, outcome, stream>>
      PROVE  CallsInv'
  BY <1>1 DEF CallsInv, CallsUserops, UseropsCalled, UseropsUpTo, Lowered, Failed, IsList
<1>2. CASE InferStep
  BY <1>1, <1>2 DEF InferStep, Infer!Next, Infer!FeedStatement, Infer!NextPass, Infer!Finish,
     sinkVars
<1>3. CASE PlanStep
  BY <1>1, <1>3 DEF PlanStep, PlanOne, inferVars, sinkVars
<1>4. CASE StartEmission
  <2>1. ~finished /\ UNCHANGED <<statements, emitted, outcome, stream>>
        /\ emitter' = NewEmitter(labels, sizes)
    BY <1>4 DEF StartEmission, EndPlan, Plan!Finish, inferVars, sinkVars
  <2>2. ~Failed(emitter) /\ outcome = "open"
    BY <2>1, BeforeEmission DEF LowerInv, NewEmitter, Failed
  <2> QED
    BY <2>1, <2>2 DEF CallsInv, CallsUserops, UseropsCalled, UseropsUpTo, Lowered, IsList
<1>5. CASE EmitStep
  BY <1>5, EmissionCalls DEF Unfolding
<1>6. CASE Resolve
  <2>1. /\ finished /\ outcome = "open"
        /\ UNCHANGED <<statements, emitted, stream, emitter>>
    BY <1>6 DEF Resolve, ResolveBranches
  <2>2. ~Failed(emitter)
    BY <2>1 DEF LowerInv, EmitterInv, Failed
  <2> QED
    BY <2>1, <2>2 DEF CallsInv, CallsUserops, UseropsCalled, UseropsUpTo, Failed, IsList
<1>7. CASE UNCHANGED vars
  BY <1>1, <1>7 DEF vars, inferVars, sinkVars
<1> QED
  BY <1>2, <1>3, <1>4, <1>5, <1>6, <1>7 DEF Next

(* A lowered instruction calls the user operations of its expressions in   *)
(* the order the source evaluates them, and as often: lowering drops none, *)
(* repeats none and moves none across another, however deep they nest      *)
(* (`Emitter::lower_expr`, `lower_effect`, `lower_userop_inputs`).         *)
THEOREM LoweringCallsInOrder ==
  ASSUME Unfolding, UseropsRecur
  PROVE  Spec => []UseropsInOrder
<1>1. Init => CallsInv
  BY CallsInitially
<1>2. LowerInv /\ CallsInv /\ [Next]_vars => CallsInv'
  BY StepCalls
<1>3. LowerInv /\ CallsInv => UseropsInOrder
  <2> SUFFICES ASSUME LowerInv, CallsInv, Lowered
               PROVE  UseropsCalled(stream) =
                         FlattenSeq([k \in DOMAIN statements |-> StatementUserops(statements[k])])
    BY DEF UseropsInOrder
  <2>1. emitted = Len(statements) /\ statements \in Programs
    BY DEF LowerInv, PipeInv, FedInOrder
  <2>2. DOMAIN statements = 1 .. Len(statements)
    <3>1. statements \in Seq(Range(statements))
      BY <2>1, ProgramsAssumption
    <3> QED
      BY <3>1
  <2> QED
    BY <2>1, <2>2 DEF CallsInv, UseropsUpTo
<1> QED
  BY <1>1, <1>2, <1>3, LoweringInvariant, PTL DEF Spec
=============================================================================
