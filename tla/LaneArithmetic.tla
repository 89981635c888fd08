------------------------- MODULE LaneArithmetic -------------------------
(***************************************************************************)
(* The numbers of a lane of the vectorised types.                          *)
(*                                                                         *)
(* The properties of the vector library are about which lane meets which   *)
(* lane and with which sign, never about rounding.  A real is therefore an *)
(* element of the field of seven elements, written -3..3: sums, products   *)
(* and quotients are exact, so two formulas that differ as polynomials     *)
(* differ on some lane, and two that differ only in the order of the       *)
(* additions agree.  Since 7 % 4 = 3, re^2 + im^2 is zero for no complex   *)
(* number but 0 and the complex numbers are a field too.  Numbers keep the *)
(* order and the signs of the integers, which is what the comparisons, the *)
(* minimum, the maximum and CopySign look at.                              *)
(***************************************************************************)
EXTENDS Integers, Sequences

Real == -3 .. 3
Residue(n) == ((n + 3) % 7) - 3

Plus(a, b) == Residue(a + b)
Minus(a, b) == Residue(a - b)
Times(a, b) == Residue(a * b)
Inverse7(b) == CHOOSE y \in Real : Times(b, y) = 1
Over(a, b) == Times(a, Inverse7(b))

Lesser(a, b) == IF b < a THEN b ELSE a
Greater(a, b) == IF a < b THEN b ELSE a
Magnitude(a) == IF a < 0 THEN -a ELSE a
WithSign(mag, sgn) == IF sgn < 0 THEN -Magnitude(mag) ELSE Magnitude(mag)

(* Functions of the C library and their vectorised polynomials: only that   *)
(* they are functions of one lane, and different ones, matters here.        *)
SquareRoot(a) == IF a = 0 THEN 0 ELSE Inverse7(a)
Sine(a) == Residue(a * a * a + 2 * a)
Cosine(a) == Residue(a * a + 1)
Exponential(a) == Residue(3 * a + 1)
LogarithmTwo(a) == Residue(2 * a * a + a + 1)
ArcTangent2(y, x) == Residue(3 * y + x + x * y)

-----------------------------------------------------------------------------
(* BaseComplex: the real operators lane by lane and the complex ones.       *)
Complex(re, im) == [re |-> re, im |-> im]
ComplexNumbers == [re : Real, im : Real]

CNegate(z) == Complex(-z.re, -z.im)
CPlus(a, b) == Complex(Plus(a.re, b.re), Plus(a.im, b.im))
CMinus(a, b) == Complex(Minus(a.re, b.re), Minus(a.im, b.im))
CScale(a, s) == Complex(Times(a.re, s), Times(a.im, s))
CTimes(l, r) ==
  LET ac == Times(l.re, r.re)  bd == Times(l.im, r.im)
      ad == Times(l.re, r.im)  bc == Times(l.im, r.re)
  IN Complex(Minus(ac, bd), Plus(ad, bc))
COver(l, r) ==
  LET ac == Times(l.re, r.re)  bd == Times(l.im, r.im)
      ad == Times(l.re, r.im)  bc == Times(l.im, r.re)
      den_inv == Inverse7(Plus(Times(r.re, r.re), Times(r.im, r.im)))
  IN Complex(Times(Plus(ac, bd), den_inv), Times(Minus(bc, ad), den_inv))

CNorm(z) == Plus(Times(z.im, z.im), Times(z.re, z.re))
CAbs(z) == SquareRoot(CNorm(z))
CArg(z) == ArcTangent2(z.im, z.re)
CConj(z) == Complex(z.re, -z.im)
CExpI(x) == Complex(Cosine(x), Sine(x))
CExp(z) == CScale(CExpI(z.im), Exponential(z.re))
=============================================================================
