---------------------------- MODULE VectorCalls ----------------------------
(***************************************************************************)
(* A call on a vector of any of the types, run by the tables of            *)
(* VectorBackends: which header implements the type in which build, how a  *)
(* vector comes from memory into its registers and back, and what a call   *)
(* leaves in the variable and returns.                                     *)
(***************************************************************************)
EXTENDS VectorBackends

CONSTANT Width      \* the unsigned types have 2^Width values

Limit == 2 ^ Width
X86 == {"x86_sse2", "x86_fma"}
Neon == {"neon32", "neon64"}

-----------------------------------------------------------------------------
(* The implementation of each type: which header specialises it.           *)
Leaf(a, f) == [pair |-> FALSE, a |-> a, f |-> f, p |-> <<>>, both |-> <<>>]
Two(half, p, both) == [half EXCEPT !.pair = TRUE, !.p = p, !.both = both]

Float4Of(isa) ==
  CASE isa \in X86 -> Leaf(Float4X86(isa), Float4X86Functions(isa))
    [] isa \in Neon -> Leaf(Float4Neon(isa), Float4NeonFunctions(isa))
    [] OTHER -> Leaf(FloatScalar(4), FloatScalarFunctions(4))
Half4Of(isa) ==
  IF isa = "neon64" THEN Leaf(Half4Neon, Half4NeonFunctions)
                    ELSE Leaf(FloatScalar(4), FloatScalarFunctions(4))
Complex4Of(isa) ==
  CASE isa \in X86 -> Leaf(Complex4X86(isa), Complex4X86Functions(isa))
    [] isa \in Neon -> Leaf(Complex4Neon(isa), Complex4NeonFunctions(isa))
    [] OTHER -> Leaf(ComplexScalar(4), ComplexScalarFunctions(4))
HalfComplex4Of(isa) ==
  IF isa = "neon64" THEN Leaf(HalfComplex4Neon, HalfComplex4NeonFunctions)
                    ELSE Leaf(ComplexScalar(4), ComplexScalarFunctions(4))
UInt4Of(isa) ==
  CASE isa \in X86 -> Leaf(UInt4X86, UInt4X86)
    [] isa \in Neon -> Leaf(UInt4Neon(isa), UInt4Neon(isa))
    [] OTHER -> Leaf(IntScalar(4), IntScalar(4))
UShort4Of(isa) == IF isa \in Neon THEN Leaf(UShort4Neon(isa), UShort4Neon(isa))
                                  ELSE Leaf(IntScalar(4), IntScalar(4))

Implementation(t) ==
  CASE t.name = "Float4" -> Float4Of(t.isa)
    [] t.name = "Float8" -> Two(Float4Of(t.isa), Float8Float4x2, Float8Functions)
    [] t.name = "Half4" -> Half4Of(t.isa)
    [] t.name = "Half8" -> IF t.isa = "neon64" THEN Leaf(Half8Neon, Half8NeonFunctions)
                                               ELSE Two(Half4Of(t.isa), Half8Half4x2, Half8Functions)
    [] t.name = "Complex4" -> Complex4Of(t.isa)
    [] t.name = "Complex8" -> Two(Complex4Of(t.isa), Complex8Complex4x2, Complex8Functions)
    [] t.name = "HalfComplex4" -> HalfComplex4Of(t.isa)
    [] t.name = "HalfComplex8" ->
         IF t.isa = "neon64" THEN Leaf(HalfComplex8Neon, HalfComplex8NeonFunctions)
                             ELSE Two(HalfComplex4Of(t.isa), HalfComplex8HalfComplex4x2, HalfComplex8Functions)
    [] t.name = "UInt4" -> UInt4Of(t.isa)
    [] t.name = "UInt8" -> Two(UInt4Of(t.isa), UInt8UInt4x2, UInt8UInt4x2)
    [] t.name = "UShort4" -> UShort4Of(t.isa)
    [] t.name = "UShort8" -> IF t.isa \in Neon THEN Leaf(UShort8Neon(t.isa), UShort8Neon(t.isa))
                                               ELSE Two(UShort4Of(t.isa), UShort8UShort4x2, UShort8UShort4x2)

Kind(t) == CASE t.name \in {"Float4", "Float8", "Half4", "Half8"} -> "float"
             [] t.name \in {"Complex4", "Complex8", "HalfComplex4", "HalfComplex8"} -> "complex"
             [] OTHER -> "int"
Size(t) == IF t.name \in {"Float8", "Half8", "Complex8", "HalfComplex8", "UInt8", "UShort8"}
           THEN 8 ELSE 4

-----------------------------------------------------------------------------
(* Memory to register and back.                                            *)
Low(v) == SubSeq(v, 1, Len(v) \div 2)
High(v) == SubSeq(v, Len(v) \div 2 + 1, Len(v))
Flat(v) == [j \in 1..(2 * Len(v)) |-> IF j % 2 = 1 THEN v[(j + 1) \div 2].re ELSE v[j \div 2].im]

LoadLeaf(k, d, v) ==
  IF k = "complex" /\ d.a.planes
  THEN [re |-> Pick(Flat(v), d.a.load.re), im |-> Pick(Flat(v), d.a.load.im)]
  ELSE v
StoreLeaf(k, d, r) ==
  IF k = "complex" /\ d.a.planes
  THEN LET m == Pick(r.re \o r.im, d.a.store)
       IN [i \in 1..d.a.lanes |-> Complex(m[2 * i - 1], m[2 * i])]
  ELSE r
Load(k, d, v) ==
  IF d.pair THEN <<LoadLeaf(k, d, Low(v)), LoadLeaf(k, d, High(v))>> ELSE LoadLeaf(k, d, v)
StoreOf(k, d, r) ==
  IF d.pair THEN StoreLeaf(k, d, r[1]) \o StoreLeaf(k, d, r[2]) ELSE StoreLeaf(k, d, r)

-----------------------------------------------------------------------------
(* What a call leaves in the variable (reg) and what it returns (out).      *)
Set(r) == [reg |-> r, out |-> <<>>]
Give(r, o) == [reg |-> r, out |-> o]

Reduce(steps, v, Op(_, _)) ==
  LET after[k \in 0..Len(steps)] ==
        IF k = 0 THEN v
        ELSE LET u == after[k - 1]
             IN [i \in 1..Len(steps[k][1]) |-> Op(u[steps[k][1][i]], u[steps[k][2][i]])]
      across[k \in 1..Len(v)] == IF k = 1 THEN v[1] ELSE Op(across[k - 1], v[k])
  IN IF steps = Across THEN across[Len(v)] ELSE after[Len(steps)][1]

LeafFloat(d, c, r) ==
  LET Each(Op(_)) == [i \in 1..Len(r) |-> Op(i)] IN
  CASE c.op \in {"Negate", "Add", "Subtract", "Multiply", "Divide"} ->
         Set(Each(LAMBDA i : Instruction(d.a[c.op], r[i], c.x[i])))
    [] c.op \in {"Scale", "DivideBy"} ->
         Set(Each(LAMBDA i : Instruction(d.a[c.op], r[i], c.s)))
    [] c.op \in {"LessThan", "GreaterThan"} ->
         Give(r, Each(LAMBDA i : Instruction(d.a[c.op], r[i], c.x[i])))
    [] c.op \in {"Abs", "Min", "Max", "CopySign"} ->
         Set(Each(LAMBDA i : Instruction(d.f[c.op], r[i], c.x[i])))
    [] c.op = "MultiplyAdd" ->
         Set(Each(LAMBDA i : Fused(d.f.MultiplyAdd, r[i], c.x[i], c.w[i])))
    [] c.op = "SelectGreater" ->
         Set(Each(LAMBDA i : Choose(d.f.Select, Instruction(d.a.GreaterThan, r[i], c.x[i]),
                                    r[i], c.w[i])))
    [] c.op = "Reverse" -> Set(Pick(r, d.f.reverse))
    [] c.op = "HorizontalMax" -> Give(r, Reduce(d.f.hmax, r, Greater))
    [] c.op = "HorizontalSum" -> Give(r, Reduce(d.f.hsum, r, Plus))
    [] c.op = "Dot" ->
         Give(r, Reduce(d.f.hsum, Each(LAMBDA i : Instruction(d.a.Multiply, r[i], c.x[i])), Plus))
    [] c.op = "Norm" ->
         Give(r, SquareRoot(Reduce(d.f.hsum, Each(LAMBDA i : Instruction(d.a.Multiply, r[i], r[i])), Plus)))
    [] c.op = "Sin" -> Set(Each(LAMBDA i : Sine(r[i])))
    [] c.op = "Cos" -> Set(Each(LAMBDA i : Cosine(r[i])))
    [] c.op = "Exp" -> Set(Each(LAMBDA i : Exponential(r[i])))
    [] c.op = "Extract" -> Give(r, r[c.i])
    [] c.op = "SetLane" -> Set([r EXCEPT ![c.i] = c.s])
    [] c.op = "ExtractLow" -> Give(r, Low(r))
    [] c.op = "ExtractHigh" -> Give(r, High(r))

Products(signs, l, r, i) ==
  Complex(Plus(signs[1] * Times(l.re[i], r.re[i]), signs[2] * Times(l.im[i], r.im[i])),
          Plus(signs[3] * Times(l.re[i], r.im[i]), signs[4] * Times(l.im[i], r.re[i])))
Planes(n, Op(_)) == [re |-> [i \in 1..n |-> Op(i).re], im |-> [i \in 1..n |-> Op(i).im]]
SinCos(table, x) == LET sc == [sin |-> Sine(x), cos |-> Cosine(x)]
                    IN Complex(sc[table.re], sc[table.im])

LeafPlanes(d, c, r) ==
  LET n == d.a.lanes
      x == LoadLeaf("complex", d, c.x)
      By(name, y) == Planes(n, LAMBDA i : Complex(Instruction(d.a[name], r.re[i], y.re[i]),
                                                  Instruction(d.a[name], r.im[i], y.im[i])))
      NormOf(i) == Fused(d.f.MultiplyAdd, Times(r.re[i], r.re[i]), r.im[i], r.im[i])
      Over2(i) == CScale(Products(d.a.divide, r, x, i),
                         Reciprocal(d.a.inverse, Plus(Times(x.re[i], x.re[i]),
                                                      Times(x.im[i], x.im[i]))))
  IN
  CASE c.op \in {"Negate", "Add", "Subtract"} -> Set(By(c.op, x))
    [] c.op = "Scale" -> Set(By("Scale", [re |-> c.w, im |-> c.w]))
    [] c.op = "Multiply" -> Set(Planes(n, LAMBDA i : Products(d.a.multiply, r, x, i)))
    [] c.op = "Divide" -> Set(Planes(n, Over2))
    [] c.op = "Conj" -> Set([r EXCEPT !.im = [i \in 1..n |-> Instruction(d.f.conj, r.im[i], 0)]])
    [] c.op = "MultiplyAdd" ->
         Set(Planes(n, LAMBDA i : Complex(Fused(d.f.MultiplyAdd, r.re[i], x.re[i], c.w[i]),
                                          Fused(d.f.MultiplyAdd, r.im[i], x.im[i], c.w[i]))))
    [] c.op = "ComplexExp" -> Set(Planes(n, LAMBDA i : SinCos(d.f.exp, c.w[i])))
    [] c.op = "Exp" ->
         Set(Planes(n, LAMBDA i : CScale(SinCos(d.f.exp, r.im[i]), Exponential(r.re[i]))))
    [] c.op = "Reverse" ->
         Set([re |-> Pick(r.re, d.f.reverse), im |-> Pick(r.im, d.f.reverse)])
    [] c.op = "HorizontalSum" ->
         Give(r, Complex(Reduce(d.f.hsum, r.re, Plus), Reduce(d.f.hsum, r.im, Plus)))
    [] c.op = "Norm" -> Give(r, [i \in 1..n |-> NormOf(i)])
    [] c.op \in {"Abs", "FastAbs"} -> Give(r, [i \in 1..n |-> SquareRoot(NormOf(i))])
    [] c.op = "FastArg" -> Give(r, [i \in 1..n |-> ArcTangent2(r.im[i], r.re[i])])
    [] c.op = "ExtractReal" -> Give(r, r.re)
    [] c.op = "ExtractImag" -> Give(r, r.im)
    [] c.op = "Extract" -> Give(r, Complex(r.re[c.i], r.im[c.i]))
    [] c.op = "SetLane" -> Set([re |-> [r.re EXCEPT ![c.i] = c.x[1].re],
                                im |-> [r.im EXCEPT ![c.i] = c.x[1].im]])
    [] c.op = "ExtractLow" -> Give(r, [k \in 1..(n \div 2) |-> Complex(r.re[d.f.low[k]], r.im[d.f.low[k]])])
    [] c.op = "ExtractHigh" -> Give(r, [k \in 1..(n \div 2) |-> Complex(r.re[d.f.high[k]], r.im[d.f.high[k]])])

LeafArray(d, c, r) ==
  LET n == d.a.lanes
      Each(Op(_)) == [i \in 1..n |-> Op(i)]
      InverseOf(z) == Reciprocal(d.a.inverse, CNorm(z))
  IN
  CASE c.op = "Negate" -> Set(Each(LAMBDA i : CNegate(r[i])))
    [] c.op = "Add" -> Set(Each(LAMBDA i : CPlus(r[i], c.x[i])))
    [] c.op = "Subtract" -> Set(Each(LAMBDA i : CMinus(r[i], c.x[i])))
    [] c.op = "Multiply" -> Set(Each(LAMBDA i : CTimes(r[i], c.x[i])))
    [] c.op = "Scale" -> Set(Each(LAMBDA i : CScale(r[i], c.w[i])))
    [] c.op = "Divide" ->
         Set(Each(LAMBDA i : CScale(CTimes(r[i], CConj(c.x[i])), InverseOf(c.x[i]))))
    [] c.op = "Conj" -> Set(Each(LAMBDA i : CConj(r[i])))
    [] c.op = "MultiplyAdd" -> Set(Each(LAMBDA i : CPlus(r[i], CScale(c.x[i], c.w[i]))))
    [] c.op = "ComplexExp" -> Set(Each(LAMBDA i : CExpI(c.w[i])))
    [] c.op = "Exp" -> Set(Each(LAMBDA i : CExp(r[i])))
    [] c.op = "Reverse" -> Set(Pick(r, d.f.reverse))
    [] c.op = "HorizontalSum" -> Give(r, Reduce(d.f.hsum, r, CPlus))
    [] c.op = "Norm" -> Give(r, Each(LAMBDA i : CNorm(r[i])))
    [] c.op \in {"Abs", "FastAbs"} -> Give(r, Each(LAMBDA i : CAbs(r[i])))
    [] c.op = "FastArg" -> Give(r, Each(LAMBDA i : CArg(r[i])))
    [] c.op = "ExtractReal" -> Give(r, Each(LAMBDA i : r[i].re))
    [] c.op = "ExtractImag" -> Give(r, Each(LAMBDA i : r[i].im))
    [] c.op = "Extract" -> Give(r, r[c.i])
    [] c.op = "SetLane" -> Set([r EXCEPT ![c.i] = c.x[1]])
    [] c.op = "ExtractLow" -> Give(r, Pick(r, d.f.low))
    [] c.op = "ExtractHigh" -> Give(r, Pick(r, d.f.high))

LeafInt(d, c, r) ==
  CASE c.op \in {"Min", "Max"} ->
         Set([i \in 1..Len(r) |-> IntInstruction(d.a[c.op], r[i], c.x[i], Limit)])
    [] c.op = "HorizontalMax" ->
         Give(r, Reduce(d.f.hmax, r, LAMBDA a, b : IntInstruction(d.a.Max, a, b, Limit)))
    [] c.op = "Select" -> Set([i \in 1..Len(r) |-> Choose(d.f.Select, c.m[i], r[i], c.x[i])])
    [] c.op = "Reverse" -> Set(Pick(r, d.f.reverse))
    [] c.op = "Extract" -> Give(r, r[c.i])
    [] c.op = "SetLane" -> Set([r EXCEPT ![c.i] = c.s])
    [] c.op = "ExtractLow" -> Give(r, Low(r))
    [] c.op = "ExtractHigh" -> Give(r, High(r))

LeafCall(k, d, c, r) ==
  CASE k = "float" -> LeafFloat(d, c, r)
    [] k = "int" -> LeafInt(d, c, r)
    [] k = "complex" -> IF d.a.planes THEN LeafPlanes(d, c, r) ELSE LeafArray(d, c, r)

(* An unsigned lane given as a float keeps one bit less than its width here *)
(* (24 bits of 32 in the code) and is rounded to the nearest, ties to even. *)
ToFloat(a) == IF 2 * a < Limit \/ a % 2 = 0 THEN a ELSE 4 * ((a + 2) \div 4)
Lane(k, p, s) == IF k = "int" /\ p.setLane = "float" THEN ToFloat(s) ELSE s

PairCall(k, d, c, r) ==
  LET part(h) == [c EXCEPT !.x = IF h = 1 THEN Low(c.x) ELSE High(c.x),
                           !.w = IF h = 1 THEN Low(c.w) ELSE High(c.w),
                           !.m = IF h = 1 THEN Low(c.m) ELSE High(c.m)]
      done == [h \in 1..2 |-> LeafCall(k, d, part(h), r[h])]
      of == Half8Of(c.i)
      there == [c EXCEPT !.i = of[2], !.s = Lane(k, d.p, c.s)]
  IN
  CASE c.op = "Reverse" -> Set([h \in 1..2 |-> LeafCall(k, d, c, r[d.both.reverse[h]]).reg])
    [] c.op = "HorizontalMax" -> Give(r, Instruction(d.both.hmax, done[1].out, done[2].out))
    [] c.op \in {"HorizontalSum", "Dot"} ->
         LET plus(a, b) == Instruction(d.both.hsum, a, b)
             o == [h \in 1..2 |-> done[h].out]
         IN Give(r, IF k = "complex" THEN Complex(plus(o[1].re, o[2].re), plus(o[1].im, o[2].im))
                                     ELSE plus(o[1], o[2]))
    [] c.op = "Norm" /\ k = "float" ->
         LET dot(h) == LeafCall(k, d, [c EXCEPT !.op = "Dot", !.x = r[h]], r[h]).out
         IN Give(r, SquareRoot(Plus(dot(1), dot(2))))
    [] c.op = "Extract" -> Give(r, LeafCall(k, d, there, r[of[1]]).out)
    [] c.op = "SetLane" -> Set([r EXCEPT ![of[1]] = LeafCall(k, d, there, @).reg])
    [] c.op = "ExtractLow" -> Give(r, StoreLeaf(k, d, r[d.p.low]))
    [] c.op = "ExtractHigh" -> Give(r, StoreLeaf(k, d, r[d.p.high]))
    [] OTHER -> [reg |-> <<done[1].reg, done[2].reg>>, out |-> done[1].out \o done[2].out]

(* One call on the registers r of a vector that d implements.               *)
Run(k, d, c, r) == IF d.pair THEN PairCall(k, d, c, r) ELSE LeafCall(k, d, c, r)
=============================================================================
