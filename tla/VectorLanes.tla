--------------------------- MODULE VectorLanes ---------------------------
(***************************************************************************)
(* What the vectorised types promise: VectorizedFloatType,                 *)
(* VectorizedComplexType and VectorizedIntType are N numbers, and every    *)
(* operation is the scalar one applied to each of them ("RESULT[i] = ...   *)
(* for i = 0 to N" in the headers).                                        *)
(*                                                                         *)
(* lanes is the value of one vector variable of the program, answer what   *)
(* the last call gave that is not such a vector (a scalar, a half, a plane *)
(* of real numbers), and call the operation with its arguments: x another  *)
(* vector, w a vector of reals, s a scalar, i the index of a lane.         *)
(***************************************************************************)
EXTENDS LaneArithmetic

VARIABLES kind, lanes, answer, call

N == Len(lanes)
Each(Op(_)) == [i \in 1..N |-> Op(i)]
SumOf(f, Add(_, _), zero) ==
  LET sum[i \in 0..Len(f)] == IF i = 0 THEN zero ELSE Add(sum[i - 1], f[i])
  IN sum[Len(f)]
GreatestOf(f) == CHOOSE m \in {f[i] : i \in DOMAIN f} :
                    \A i \in DOMAIN f : f[i] <= m
Flipped(f) == [i \in 1..Len(f) |-> f[Len(f) - i + 1]]

Keep(result) == lanes' = lanes /\ answer' = result
Become(result) == lanes' = result /\ answer' = <<>>

-----------------------------------------------------------------------------
FloatArithmetic(c) ==
  \/ c.op = "Negate"      /\ Become(Each(LAMBDA i : -lanes[i]))
  \/ c.op = "Scale"       /\ Become(Each(LAMBDA i : Times(lanes[i], c.s)))
  \/ c.op = "DivideBy"    /\ Become(Each(LAMBDA i : Over(lanes[i], c.s)))
  \/ c.op = "Add"         /\ Become(Each(LAMBDA i : Plus(lanes[i], c.x[i])))
  \/ c.op = "Subtract"    /\ Become(Each(LAMBDA i : Minus(lanes[i], c.x[i])))
  \/ c.op = "Multiply"    /\ Become(Each(LAMBDA i : Times(lanes[i], c.x[i])))
  \/ c.op = "Divide"      /\ Become(Each(LAMBDA i : Over(lanes[i], c.x[i])))
  \/ c.op = "LessThan"    /\ Keep(Each(LAMBDA i : lanes[i] < c.x[i]))
  \/ c.op = "GreaterThan" /\ Keep(Each(LAMBDA i : lanes[i] > c.x[i]))

FloatAccess(c) ==
  \/ c.op = "Extract"     /\ Keep(lanes[c.i])
  \/ c.op = "ExtractLow"  /\ Keep(SubSeq(lanes, 1, N \div 2))
  \/ c.op = "ExtractHigh" /\ Keep(SubSeq(lanes, N \div 2 + 1, N))
  \/ c.op = "SetLane"     /\ Become([lanes EXCEPT ![c.i] = c.s])

FloatFunctions(c) ==
  \/ c.op = "Abs"  /\ Become(Each(LAMBDA i : Magnitude(lanes[i])))
  \/ c.op = "Min"  /\ Become(Each(LAMBDA i : Lesser(lanes[i], c.x[i])))
  \/ c.op = "Max"  /\ Become(Each(LAMBDA i : Greater(lanes[i], c.x[i])))
  \/ c.op = "HorizontalMax" /\ Keep(GreatestOf(lanes))
  \/ c.op = "HorizontalSum" /\ Keep(SumOf(lanes, Plus, 0))
  \/ /\ c.op = "MultiplyAdd"
     /\ Become(Each(LAMBDA i : Plus(lanes[i], Times(c.x[i], c.w[i]))))
  \/ /\ c.op = "SelectGreater"
     /\ Become(Each(LAMBDA i : IF lanes[i] > c.x[i] THEN lanes[i] ELSE c.w[i]))
  \/ c.op = "CopySign" /\ Become(Each(LAMBDA i : WithSign(lanes[i], c.x[i])))

FloatTail(c) ==
  \/ c.op = "Reverse" /\ Become(Flipped(lanes))
  \/ c.op = "Dot"     /\ Keep(SumOf(Each(LAMBDA i : Times(lanes[i], c.x[i])), Plus, 0))
  \/ c.op = "Sin"     /\ Become(Each(LAMBDA i : Sine(lanes[i])))
  \/ c.op = "Cos"     /\ Become(Each(LAMBDA i : Cosine(lanes[i])))
  \/ c.op = "Exp"     /\ Become(Each(LAMBDA i : Exponential(lanes[i])))
  \/ /\ c.op = "Norm"
     /\ Keep(SquareRoot(SumOf(Each(LAMBDA i : Times(lanes[i], lanes[i])), Plus, 0)))

-----------------------------------------------------------------------------
ComplexArithmetic(c) ==
  \/ c.op = "Negate"   /\ Become(Each(LAMBDA i : CNegate(lanes[i])))
  \/ c.op = "Add"      /\ Become(Each(LAMBDA i : CPlus(lanes[i], c.x[i])))
  \/ c.op = "Subtract" /\ Become(Each(LAMBDA i : CMinus(lanes[i], c.x[i])))
  \/ c.op = "Multiply" /\ Become(Each(LAMBDA i : CTimes(lanes[i], c.x[i])))
  \/ c.op = "Scale"    /\ Become(Each(LAMBDA i : CScale(lanes[i], c.w[i])))
  \/ c.op = "Divide"   /\ Become(Each(LAMBDA i : COver(lanes[i], c.x[i])))

ComplexAccess(c) ==
  \/ c.op = "Extract"     /\ Keep(lanes[c.i])
  \/ c.op = "ExtractLow"  /\ Keep(SubSeq(lanes, 1, N \div 2))
  \/ c.op = "ExtractHigh" /\ Keep(SubSeq(lanes, N \div 2 + 1, N))
  \/ c.op = "ExtractReal" /\ Keep(Each(LAMBDA i : lanes[i].re))
  \/ c.op = "ExtractImag" /\ Keep(Each(LAMBDA i : lanes[i].im))
  \/ c.op = "SetLane"     /\ Become([lanes EXCEPT ![c.i] = c.x[1]])

ComplexFunctions(c) ==
  \/ c.op = "Abs"     /\ Keep(Each(LAMBDA i : CAbs(lanes[i])))
  \/ c.op = "FastAbs" /\ Keep(Each(LAMBDA i : CAbs(lanes[i])))
  \/ c.op = "Norm"    /\ Keep(Each(LAMBDA i : CNorm(lanes[i])))
  \/ c.op = "FastArg" /\ Keep(Each(LAMBDA i : CArg(lanes[i])))
  \/ c.op = "HorizontalSum" /\ Keep(SumOf(lanes, CPlus, Complex(0, 0)))
  \/ /\ c.op = "MultiplyAdd"
     /\ Become(Each(LAMBDA i : CPlus(lanes[i], CScale(c.x[i], c.w[i]))))
  \/ c.op = "Conj"    /\ Become(Each(LAMBDA i : CConj(lanes[i])))
  \/ c.op = "ComplexExp" /\ Become(Each(LAMBDA i : CExpI(c.w[i])))
  \/ c.op = "Exp"     /\ Become(Each(LAMBDA i : CExp(lanes[i])))
  \/ c.op = "Reverse" /\ Become(Flipped(lanes))

-----------------------------------------------------------------------------
IntAccess(c) ==
  \/ c.op = "Extract"     /\ Keep(lanes[c.i])
  \/ c.op = "ExtractLow"  /\ Keep(SubSeq(lanes, 1, N \div 2))
  \/ c.op = "ExtractHigh" /\ Keep(SubSeq(lanes, N \div 2 + 1, N))
  \/ c.op = "SetLane"     /\ Become([lanes EXCEPT ![c.i] = c.s])

IntFunctions(c) ==
  \/ c.op = "Min" /\ Become(Each(LAMBDA i : Lesser(lanes[i], c.x[i])))
  \/ c.op = "Max" /\ Become(Each(LAMBDA i : Greater(lanes[i], c.x[i])))
  \/ c.op = "HorizontalMax" /\ Keep(GreatestOf(lanes))
  \/ c.op = "Select" /\ Become(Each(LAMBDA i : IF c.m[i] THEN lanes[i] ELSE c.x[i]))
  \/ c.op = "Reverse" /\ Become(Flipped(lanes))

-----------------------------------------------------------------------------
Init == answer = <<>> /\ call.op = "Load" /\ lanes = call.x

Perform ==
  LET c == call' IN
  \/ kind = "float"   /\ (FloatArithmetic(c) \/ FloatAccess(c) \/ FloatFunctions(c) \/ FloatTail(c))
  \/ kind = "complex" /\ (ComplexArithmetic(c) \/ ComplexAccess(c) \/ ComplexFunctions(c))
  \/ kind = "int"     /\ (IntAccess(c) \/ IntFunctions(c))

Next == kind' = kind /\ Perform

Spec == Init /\ [][Next]_<<call, kind, lanes, answer>>
=============================================================================
