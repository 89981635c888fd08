-------------------------- MODULE VectorBackends --------------------------
(***************************************************************************)
(* The implementations of the vectorised types, one table for each part of *)
(* each header of math/internal: the instruction every operation is, the   *)
(* order in which a shuffle picks the lanes, the steps of a horizontal     *)
(* reduction, the signs of the four products of a complex product.  What   *)
(* the instructions do is in the first section; VectorRegisters runs the   *)
(* tables.  Lanes are numbered from 1.                                     *)
(***************************************************************************)
EXTENDS LaneArithmetic

(* _MM_SHUFFLE(z, y, x, w): the lanes the result takes, the lowest first.   *)
Shuffle(z, y, x, w) == <<w + 1, x + 1, y + 1, z + 1>>
Lanes(n) == [i \in 1..n |-> i]
Pick(v, order) == [i \in 1..Len(order) |-> v[order[i]]]

(* vrev64 turns over each group of 64 bits, vext takes lanes from the n-th. *)
Rev64(n, group) == [i \in 1..n |-> ((i - 1) \div group) * group + group - ((i - 1) % group)]
Ext(n, from) == [i \in 1..n |-> ((i - 1 + from) % n) + 1]

(* A step of a reduction adds (or compares) the lanes of two selections.    *)
With(order, n) == <<Lanes(n), order>>
Pairwise(n) == <<[i \in 1..(n \div 2) |-> 2 * i - 1], [i \in 1..(n \div 2) |-> 2 * i]>>
HalfWithHalf(n) == <<[i \in 1..(n \div 2) |-> i], [i \in 1..(n \div 2) |-> i + n \div 2]>>

(* One instruction or a loop takes the sum or the maximum of all the lanes.  *)
Across == <<>>

(* One lane of an instruction.                                              *)
Instruction(name, a, b) ==
  CASE name \in {"xor_signbit", "vneg", "-"} -> -a
    [] name \in {"and_magnitude", "vabs", "abs"} -> Magnitude(a)
    [] name \in {"add", "vadd", "+"} -> Plus(a, b)
    [] name \in {"sub", "vsub", "--"} -> Minus(a, b)
    [] name \in {"mul", "vmul", "*"} -> Times(a, b)
    [] name \in {"div", "vdiv", "/"} -> Over(a, b)
    [] name = "mul_by_1/s" -> Times(a, Over(1, b))
    [] name \in {"cmplt", "vclt", "<"} -> a < b
    [] name \in {"cmpgt", "vcgt", ">"} -> a > b
    [] name \in {"min", "vmin", "std::min"} -> Lesser(a, b)
    [] name \in {"max", "vmax", "std::max"} -> Greater(a, b)
    [] name \in {"signbits", "vbsl_signbit", "copysign"} -> WithSign(a, b)

(* b + c * d: fmadd(c, d, b) and fma round once, mul and add twice.         *)
Fused(name, b, c, d) ==
  CASE name \in {"fmadd", "vmla", "vfma"} -> Residue(b + c * d)
    [] name \in {"mul_add", "+*"} -> Plus(b, Times(c, d))

(* mask ? a : b, bit by bit.                                                *)
Choose(name, mask, a, b) ==
  CASE name = "and_andnot_or" -> (IF mask THEN a ELSE 0) + (IF mask THEN 0 ELSE b)
    [] name \in {"vbsl", "select"} -> IF mask THEN a ELSE b

(* vinvert and vinvertq: an estimate of 1/v and two steps of Newton.        *)
RefinedInverse(v) ==
  LET step(r) == Times(Minus(2, Times(v, r)), r)
  IN step(step(Inverse7(v)))

Reciprocal(name, v) ==
  CASE name \in {"1/den", "T(1)/den"} -> Over(1, v)
    [] name = "vinvert" -> RefinedInverse(v)

(* vreveseq_f32 and its relatives: 64 bit targets turn over 64 bit groups   *)
(* and rotate by half of the register, the others swap the turned halves.   *)
VReverse(n, group, rotate) == Pick(Rev64(n, group), Ext(n, rotate))
VReverse32(n) == [i \in 1..n |-> (IF i <= n \div 2 THEN n \div 2 ELSE 0)
                                   + Rev64(n \div 2, n \div 2)[((i - 1) % (n \div 2)) + 1]]

-----------------------------------------------------------------------------
(* float, four lanes.  The first table holds a plausible mistake: the same  *)
(* shuffle in both steps of the sum.                                        *)
X86HorizontalSumOneShuffle(isa) ==
  <<With(Shuffle(1, 0, 3, 2), 4), With(Shuffle(1, 0, 3, 2), 4)>>
X86HorizontalSum(isa) ==
  IF isa = "x86_fma"
  THEN LET hadd == <<<<1, 3, 1, 3>>, <<2, 4, 2, 4>>>> IN <<hadd, hadd>>
  ELSE <<With(Shuffle(1, 0, 3, 2), 4), With(Shuffle(2, 3, 0, 1), 4)>>
Float4X86(isa) ==
  [lanes |-> 4,
   Negate |-> "xor_signbit", Scale |-> "mul", DivideBy |-> "div",
   Add |-> "add", Subtract |-> "sub", Multiply |-> "mul", Divide |-> "div",
   LessThan |-> "cmplt", GreaterThan |-> "cmpgt"]
Float4X86Functions(isa) ==
  [Abs |-> "and_magnitude", Min |-> "min", Max |-> "max", CopySign |-> "signbits",
   MultiplyAdd |-> IF isa = "x86_fma" THEN "fmadd" ELSE "mul_add",
   Select |-> "and_andnot_or",
   hmax |-> <<With(Shuffle(0, 0, 3, 2), 4), With(Shuffle(0, 0, 0, 1), 4)>>,
   hsum |-> X86HorizontalSum(isa), reverse |-> Shuffle(0, 1, 2, 3)]
NeonHorizontalSum(isa) == IF isa = "neon64" THEN Across ELSE <<HalfWithHalf(4), Pairwise(2)>>
Float4Neon(isa) ==
  [lanes |-> 4,
   Negate |-> "vneg", Scale |-> "vmul", DivideBy |-> "mul_by_1/s",
   Add |-> "vadd", Subtract |-> "vsub", Multiply |-> "vmul", Divide |-> "vdiv",
   LessThan |-> "vclt", GreaterThan |-> "vcgt"]
Float4NeonFunctions(isa) ==
  [Abs |-> "vabs", Min |-> "vmin", Max |-> "vmax", CopySign |-> "vbsl_signbit",
   MultiplyAdd |-> "vmla", Select |-> "vbsl",
   hmax |-> IF isa = "neon64" THEN Across ELSE <<HalfWithHalf(4), Pairwise(2)>>,
   hsum |-> NeonHorizontalSum(isa),
   reverse |-> IF isa = "neon64" THEN VReverse(4, 2, 2) ELSE VReverse32(4)]

(* Half, four and eight lanes.                                              *)
Half4Neon ==
  [lanes |-> 4,
   Negate |-> "vneg", Scale |-> "vmul", DivideBy |-> "mul_by_1/s",
   Add |-> "vadd", Subtract |-> "vsub", Multiply |-> "vmul", Divide |-> "vdiv",
   LessThan |-> "vclt", GreaterThan |-> "vcgt"]
Half4NeonFunctions ==
  [Abs |-> "vabs", Min |-> "vmin", Max |-> "vmax", CopySign |-> "vbsl_signbit",
   MultiplyAdd |-> "vfma", Select |-> "vbsl",
   hmax |-> Across, hsum |-> <<Pairwise(4), Pairwise(2)>>,
   reverse |-> Rev64(4, 4)]
Half8Neon ==
  [lanes |-> 8,
   Negate |-> "vneg", Scale |-> "vmul", DivideBy |-> "mul_by_1/s",
   Add |-> "vadd", Subtract |-> "vsub", Multiply |-> "vmul", Divide |-> "vdiv",
   LessThan |-> "vclt", GreaterThan |-> "vcgt"]
Half8NeonFunctions ==
  [Abs |-> "vabs", Min |-> "vmin", Max |-> "vmax", CopySign |-> "vbsl_signbit",
   MultiplyAdd |-> "vfma", Select |-> "vbsl",
   hmax |-> Across, hsum |-> <<Pairwise(8), Pairwise(4), Pairwise(2)>>,
   reverse |-> VReverse(8, 4, 4)]

(* Any type and length without an instruction set: loops over the lanes.    *)
FloatScalar(n) ==
  [lanes |-> n,
   Negate |-> "-", Scale |-> "*", DivideBy |-> "/",
   Add |-> "+", Subtract |-> "--", Multiply |-> "*", Divide |-> "/",
   LessThan |-> "<", GreaterThan |-> ">"]
FloatScalarFunctions(n) ==
  [Abs |-> "abs", Min |-> "std::min", Max |-> "std::max", CopySign |-> "copysign",
   MultiplyAdd |-> "+*", Select |-> "select", hmax |-> Across, hsum |-> Across,
   reverse |-> [i \in 1..n |-> n - i + 1]]

-----------------------------------------------------------------------------
(* Complex numbers: a plane of real and a plane of imaginary parts.  load   *)
(* is where each plane finds its lanes in memory, store where memory finds  *)
(* its numbers in the real plane followed by the imaginary one.  multiply   *)
(* and divide are the signs of ac, bd (real part) and ad, bc (imaginary).   *)
Shuffle2(z, y, x, w) == <<w + 1, x + 1, y + 5, z + 5>>
Deinterleave(n) == [re |-> [i \in 1..n |-> 2 * i - 1], im |-> [i \in 1..n |-> 2 * i]]
Interleave(n) == [j \in 1..(2 * n) |-> (j + 1) \div 2 + (IF j % 2 = 0 THEN n ELSE 0)]

Complex4X86(isa) ==
  [planes |-> TRUE, lanes |-> 4,
   load |-> [re |-> Shuffle2(2, 0, 2, 0), im |-> Shuffle2(3, 1, 3, 1)],
   store |-> <<1, 5, 2, 6>> \o <<3, 7, 4, 8>>,
   Negate |-> "xor_signbit", Add |-> "add", Subtract |-> "sub", Scale |-> "mul",
   multiply |-> <<1, -1, 1, 1>>, divide |-> <<1, 1, -1, 1>>, inverse |-> "1/den"]
Complex4X86Functions(isa) ==
  [low |-> <<1, 2>>, high |-> <<3, 4>>, hsum |-> X86HorizontalSum(isa),
   MultiplyAdd |-> Float4X86Functions(isa).MultiplyAdd, conj |-> "xor_signbit",
   exp |-> [re |-> "cos", im |-> "sin"], reverse |-> Shuffle(0, 1, 2, 3)]

Complex4Neon(isa) ==
  [planes |-> TRUE, lanes |-> 4,
   load |-> Deinterleave(4), store |-> Interleave(4),
   Negate |-> "vneg", Add |-> "vadd", Subtract |-> "vsub", Scale |-> "vmul",
   multiply |-> <<1, -1, 1, 1>>, divide |-> <<1, 1, -1, 1>>, inverse |-> "vinvert"]
Complex4NeonFunctions(isa) ==
  [low |-> <<1, 2>>, high |-> <<3, 4>>, hsum |-> NeonHorizontalSum(isa),
   MultiplyAdd |-> "vmla", conj |-> "vneg", exp |-> [re |-> "cos", im |-> "sin"],
   reverse |-> Float4NeonFunctions(isa).reverse]

HalfComplex4Neon ==
  [planes |-> TRUE, lanes |-> 4,
   load |-> Deinterleave(4), store |-> Interleave(4),
   Negate |-> "vneg", Add |-> "vadd", Subtract |-> "vsub", Scale |-> "vmul",
   multiply |-> <<1, -1, 1, 1>>, divide |-> <<1, 1, -1, 1>>, inverse |-> "vinvert"]
HalfComplex4NeonFunctions ==
  [low |-> <<1, 2>>, high |-> <<3, 4>>, hsum |-> <<Pairwise(4), Pairwise(2)>>,
   MultiplyAdd |-> "vfma", conj |-> "vneg", exp |-> [re |-> "cos", im |-> "sin"],
   reverse |-> Rev64(4, 4)]

HalfComplex8Neon ==
  [planes |-> TRUE, lanes |-> 8,
   load |-> Deinterleave(8), store |-> Interleave(8),
   Negate |-> "vneg", Add |-> "vadd", Subtract |-> "vsub", Scale |-> "vmul",
   multiply |-> <<1, -1, 1, 1>>, divide |-> <<1, 1, -1, 1>>, inverse |-> "vinvert"]
HalfComplex8NeonFunctions ==
  [low |-> <<1, 2, 3, 4>>, high |-> <<5, 6, 7, 8>>,
   hsum |-> <<Pairwise(8), Pairwise(4), Pairwise(2)>>,
   MultiplyAdd |-> "vfma", conj |-> "vneg", exp |-> [re |-> "cos", im |-> "sin"],
   reverse |-> VReverse(8, 4, 4)]

(* An array of BaseComplex: its own operators, lane after lane.             *)
ComplexScalar(n) == [lanes |-> n, planes |-> FALSE, inverse |-> "T(1)/den"]
ComplexScalarFunctions(n) ==
  [low |-> [i \in 1..(n \div 2) |-> i], high |-> [i \in 1..(n \div 2) |-> i + n \div 2],
   hsum |-> Across, reverse |-> [i \in 1..n |-> n - i + 1]]

-----------------------------------------------------------------------------
(* Unsigned integers.                                                       *)
Signed(a, limit) == IF 2 * a < limit THEN a ELSE a - limit
IntInstruction(name, a, b, limit) ==
  CASE name = "min_epi32" -> IF Signed(a, limit) < Signed(b, limit) THEN a ELSE b
    [] name = "max_epi32" -> IF Signed(a, limit) > Signed(b, limit) THEN a ELSE b
    [] name \in {"vmin_u", "std::min"} -> Lesser(a, b)
    [] name \in {"vmax_u", "std::max"} -> Greater(a, b)

UInt4X86 ==
  [lanes |-> 4, Min |-> "min_epi32", Max |-> "max_epi32", Select |-> "and_andnot_or",
   hmax |-> <<With(Shuffle(0, 0, 3, 2), 4), With(Shuffle(0, 0, 0, 1), 4)>>,
   reverse |-> Shuffle(0, 1, 2, 3)]
UInt4Neon(isa) ==
  [lanes |-> 4, Min |-> "vmin_u", Max |-> "vmax_u", Select |-> "vbsl",
   hmax |-> IF isa = "neon64" THEN Across ELSE <<HalfWithHalf(4), Pairwise(2)>>,
   reverse |-> IF isa = "neon64" THEN VReverse(4, 2, 2) ELSE VReverse32(4)]
UShort4Neon(isa) ==
  [lanes |-> 4, Min |-> "vmin_u", Max |-> "vmax_u", Select |-> "vbsl",
   hmax |-> IF isa = "neon64" THEN Across ELSE <<Pairwise(4), Pairwise(2)>>,
   reverse |-> Rev64(4, 4)]
UShort8Neon(isa) ==
  [lanes |-> 8, Min |-> "vmin_u", Max |-> "vmax_u", Select |-> "vbsl",
   hmax |-> IF isa = "neon64" THEN Across
            ELSE <<Pairwise(8), Pairwise(4), Pairwise(2)>>,
   reverse |-> VReverse(8, 4, 4)]
IntScalar(n) ==
  [lanes |-> n, Min |-> "std::min", Max |-> "std::max", Select |-> "select",
   hmax |-> Across, reverse |-> [i \in 1..n |-> n - i + 1]]

-----------------------------------------------------------------------------
(* Eight lanes as two vectors of four: the half and the lane in it, the     *)
(* type SetLane takes its argument as, the order of the halves of a         *)
(* reversed vector, and how two halves give one maximum and one sum.        *)
Half8Of(i) == IF i <= 4 THEN <<1, i>> ELSE <<2, i - 4>>

Float8Float4x2 == [low |-> 1, high |-> 2, setLane |-> "float"]
Float8Functions == [reverse |-> <<2, 1>>, hmax |-> "max", hsum |-> "+"]
Half8Half4x2 == [low |-> 1, high |-> 2, setLane |-> "Half"]
Half8Functions == [reverse |-> <<2, 1>>, hmax |-> "max", hsum |-> "+"]
Complex8Complex4x2 == [low |-> 1, high |-> 2, setLane |-> "Complex"]
Complex8Functions == [reverse |-> <<2, 1>>, hsum |-> "+"]
HalfComplex8HalfComplex4x2 == [low |-> 1, high |-> 2, setLane |-> "HalfComplex"]
HalfComplex8Functions == [reverse |-> <<2, 1>>, hsum |-> "+"]
UInt8UInt4x2 ==
  [low |-> 1, high |-> 2, setLane |-> "float", reverse |-> <<2, 1>>, hmax |-> "max"]
UShort8UShort4x2 ==
  [low |-> 1, high |-> 2, setLane |-> "none", reverse |-> <<2, 1>>, hmax |-> "max"]
=============================================================================
