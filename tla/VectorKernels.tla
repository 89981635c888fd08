--------------------------- MODULE VectorKernels ---------------------------
(***************************************************************************)
(* The kernels of math/kernel: loops over spans of samples that take as    *)
(* many samples at once as the vectors of the build have lanes, and the    *)
(* rest one by one.  A kernel is a table, one for each struct Kernel:      *)
(* its loops, how many registers each fills, and what is done to a block   *)
(* and to the registers at the end of a loop.  The actions run one         *)
(* iteration or end one loop.  A vector is the sequence of its lanes and   *)
(* an operation on it the scalar one on each lane, which VectorRegisters   *)
(* checks of every implementation.                                         *)
(*                                                                         *)
(* The samples f and g, the phases and the rates are numbers of            *)
(* LaneArithmetic.  The memory behind the spans holds other numbers, which *)
(* no result may depend on, and no store may change.                       *)
(***************************************************************************)
EXTENDS LaneArithmetic

LOCAL INSTANCE SequencesExt

CONSTANTS Programs,   \* the kernels that are called: [op, base, isa]
          Lengths,    \* numbers of samples in the spans
          Behind      \* bound: samples looked at behind the end of the output

VARIABLES
  program, kernel,      \* the kernel that runs, and its table
  n, at,                \* the number of samples, and which is the greatest
  loop, pos, acc,       \* the loop, the position and the registers
  phase, output         \* of the rotator; the result, or the span of results

chosen == <<program, kernel, n, at>>
kernelVars == <<program, kernel, n, at, loop, pos, acc, phase, output>>

-----------------------------------------------------------------------------
(* The tables.  A loop takes step samples as long as the position is below  *)
(* n rounded down to a multiple of align, in vectors of width lanes.        *)
Loop(step, align, width) == [step |-> step, align |-> align, width |-> width]
RestOne == Loop(1, 1, 1)

RealOf(base) == CASE base \in {"Float", "Complex"} -> "Float"
                  [] base \in {"Half", "HalfComplex"} -> "Half"
IsReal(base) == base = RealOf(base)

(* kIsVectorized of VectorizedBase<T>::VectorizedType<width> in a build: a   *)
(* vector of eight that is two of four counts as none.                      *)
IsVectorized(base, width, isa) ==
  IF RealOf(base) = "Half" THEN isa = "neon64" ELSE width = 4 /\ isa # "generic"

(* A plausible mistake: the mask of the loop of four in the loop of eight.   *)
BySizeOneMask(base, isa, align4) ==
  (IF IsVectorized(base, 8, isa) THEN <<Loop(8, align4, 8)>> ELSE <<>>)
    \o (IF IsVectorized(base, 4, isa) THEN <<Loop(4, align4, 4)>> ELSE <<>>)
    \o <<RestOne>>

(* Eight at a time, four at a time, the tail: each where the type has it.    *)
BySize(base, isa, align4) ==
  (IF IsVectorized(base, 8, isa) THEN <<Loop(8, 8, 8)>> ELSE <<>>)
    \o (IF IsVectorized(base, 4, isa) THEN <<Loop(4, align4, 4)>> ELSE <<>>)
    \o <<RestOne>>

Reduction(loops, body, fold) == [loops |-> loops, body |-> body, fold |-> fold]
Mapping(loops, body) == [loops |-> loops, body |-> body, fold |-> "nothing"]

DotVectorized(base, isa) == Reduction(BySize(base, isa, 8), "MultiplyAdd", "SumOfRegisters")
DotNeonFloat ==
  Reduction(<<Loop(16, 16, 4), Loop(4, 4, 4), RestOne>>, "MultiplyAdd", "SumOfRegisters")
DotNeonComplex ==
  Reduction(<<Loop(8, 16, 4), Loop(4, 4, 4), RestOne>>, "MultiplyAdd", "SumOfRegisters")
DotNeonHalf ==
  Reduction(<<Loop(32, 32, 8), Loop(8, 8, 8), RestOne>>, "MultiplyAdd", "SumOfRegisters")
DotNeonHalfComplex ==
  Reduction(<<Loop(16, 16, 8), RestOne>>, "MultiplyAdd", "SumOfRegisters")

DotFlipVectorized(base, isa) ==
  Reduction(BySize(base, isa, 8), "MultiplyAddReversed", "SumOfRegisters")
DotFlipNeonFloat ==
  Reduction(<<Loop(16, 16, 4), Loop(4, 4, 4), RestOne>>, "MultiplyAddReversed", "SumOfRegisters")
DotFlipNeonComplex ==
  Reduction(<<Loop(8, 8, 4), Loop(4, 4, 4), RestOne>>, "MultiplyAddReversed", "SumOfRegisters")
DotFlipNeonHalf ==
  Reduction(<<Loop(32, 32, 8), Loop(8, 8, 8), RestOne>>, "MultiplyAddReversed", "SumOfRegisters")
DotFlipNeonHalfComplex ==
  Reduction(<<Loop(16, 16, 8), RestOne>>, "MultiplyAddReversed", "SumOfRegisters")

HorizontalMaxVectorized(base, isa) == Reduction(BySize(base, isa, 4), "Max", "HorizontalMax")
HorizontalMaxNeonFloat ==
  Reduction(<<Loop(16, 16, 4), Loop(4, 8, 4), RestOne>>, "Max", "HorizontalMax")
HorizontalMaxNeonHalf ==
  Reduction(<<Loop(32, 32, 8), Loop(8, 8, 8), RestOne>>, "Max", "HorizontalMax")
HorizontalSumVectorized(base, isa) == Reduction(BySize(base, isa, 4), "Add", "HorizontalSum")
HorizontalSumNeonFloat ==
  Reduction(<<Loop(16, 16, 4), Loop(4, 8, 4), RestOne>>, "Add", "HorizontalSum")
HorizontalSumNeonHalf ==
  Reduction(<<Loop(32, 32, 8), Loop(8, 8, 8), RestOne>>, "Add", "HorizontalSum")

AbsVectorized(base, isa) == Mapping(BySize(base, isa, 4), "Abs")
AbsNeonFloat == Mapping(<<RestOne>>, "Abs")
AbsNeonHalf == Mapping(<<RestOne>>, "Abs")
FastAbsVectorized(base, isa) == Mapping(BySize(base, isa, 4), "FastAbs")
FastAbsNeonFloat == Mapping(<<Loop(4, 4, 4), RestOne>>, "FastAbs")
FastAbsNeonHalf == Mapping(<<Loop(8, 8, 8), RestOne>>, "FastAbs")
NormVectorized(base, isa) == Mapping(BySize(base, isa, 4), "Norm")
NormNeonFloat == Mapping(<<Loop(4, 4, 4), RestOne>>, "Norm")
NormNeonHalf == Mapping(<<Loop(8, 8, 8), RestOne>>, "Norm")
FastArgVectorized(base, isa) == Mapping(BySize(base, isa, 4), "FastArg")
FastArgNeonFloat == Mapping(<<RestOne>>, "FastArg")
FastArgNeonHalf == Mapping(<<Loop(8, 8, 8), RestOne>>, "FastArg")
FastIntPowVectorized(base, isa) == Mapping(BySize(base, isa, 4), "FastIntPow")
PowerSpectralDensityVectorized(base, isa) == Mapping(BySize(base, isa, 4), "PowerSpectralDensity")
PeakDetectorVectorized(base, isa) == Mapping(BySize(base, isa, 4), "PeakDetector")
RotatorVectorized(base, isa) == Mapping(BySize(base, isa, 4), "Rotator")

(* Which struct a call reaches.  The specialisations for Neon of DotFlipG   *)
(* and Norm are in namespaces in which the calls do not look for them: the  *)
(* operations named Unreached stand for a call that would.                  *)
OnNeon(p, float, half) == IF RealOf(p.base) = "Half" THEN half ELSE float
Specialised(p) ==
  p.isa \in IF RealOf(p.base) = "Half" THEN {"neon64"} ELSE {"neon32", "neon64"}

DotKernel(p) ==
  IF Specialised(p)
  THEN CASE p.base = "Float" -> DotNeonFloat [] p.base = "Complex" -> DotNeonComplex
         [] p.base = "Half" -> DotNeonHalf [] p.base = "HalfComplex" -> DotNeonHalfComplex
  ELSE DotVectorized(p.base, p.isa)
DotFlipGKernel(p) == DotFlipVectorized(p.base, p.isa)
DotFlipGUnreachedKernel(p) ==
  CASE p.base = "Float" -> DotFlipNeonFloat [] p.base = "Complex" -> DotFlipNeonComplex
    [] p.base = "Half" -> DotFlipNeonHalf [] p.base = "HalfComplex" -> DotFlipNeonHalfComplex
HorizontalMaxKernel(p) ==
  IF Specialised(p) THEN OnNeon(p, HorizontalMaxNeonFloat, HorizontalMaxNeonHalf)
                    ELSE HorizontalMaxVectorized(p.base, p.isa)
HorizontalSumKernel(p) ==
  IF Specialised(p) THEN OnNeon(p, HorizontalSumNeonFloat, HorizontalSumNeonHalf)
                    ELSE HorizontalSumVectorized(p.base, p.isa)
AbsKernel(p) == IF Specialised(p) THEN OnNeon(p, AbsNeonFloat, AbsNeonHalf)
                                  ELSE AbsVectorized(p.base, p.isa)
FastAbsKernel(p) == IF Specialised(p) THEN OnNeon(p, FastAbsNeonFloat, FastAbsNeonHalf)
                                      ELSE FastAbsVectorized(p.base, p.isa)
NormKernel(p) == NormVectorized(p.base, p.isa)
NormUnreachedKernel(p) == OnNeon(p, NormNeonFloat, NormNeonHalf)
FastArgKernel(p) == IF Specialised(p) THEN OnNeon(p, FastArgNeonFloat, FastArgNeonHalf)
                                      ELSE FastArgVectorized(p.base, p.isa)
FastIntPowKernel(p) == FastIntPowVectorized(p.base, p.isa)
PowerSpectralDensityKernel(p) == PowerSpectralDensityVectorized(p.base, p.isa)
PeakDetectorKernel(p) == PeakDetectorVectorized(p.base, p.isa)
RotatorKernel(p) == RotatorVectorized(p.base, p.isa)

KernelOf(p) ==
  CASE p.op = "Dot" -> DotKernel(p)
    [] p.op = "DotFlipG" -> DotFlipGKernel(p)
    [] p.op = "DotFlipGUnreached" -> DotFlipGUnreachedKernel(p)
    [] p.op = "HorizontalMax" -> HorizontalMaxKernel(p)
    [] p.op = "HorizontalSum" -> HorizontalSumKernel(p)
    [] p.op = "Abs" -> AbsKernel(p)
    [] p.op = "FastAbs" -> FastAbsKernel(p)
    [] p.op = "Norm" -> NormKernel(p)
    [] p.op = "NormUnreached" -> NormUnreachedKernel(p)
    [] p.op = "FastArg" -> FastArgKernel(p)
    [] p.op = "FastIntPow" -> FastIntPowKernel(p)
    [] p.op = "PowerSpectralDensity" -> PowerSpectralDensityKernel(p)
    [] p.op = "PeakDetector" -> PeakDetectorKernel(p)
    [] p.op = "Rotator" -> RotatorKernel(p)

-----------------------------------------------------------------------------
(* Samples in and behind the spans.  The maximum is the sample number at;   *)
(* the memory around the spans holds a larger number.                       *)
Number(i) == Residue(i * i + 3 * (i \div 7))
RealSample(i) ==
  CASE i \notin 1..n -> 3
    [] program.op = "HorizontalMax" -> IF i = at THEN 2 ELSE Lesser(Number(i), 1)
    [] OTHER -> Number(i)
F(i) == IF IsReal(program.base) THEN RealSample(i) ELSE Complex(RealSample(i), Number(i + 2))
G(i) == IF i \in 1..n THEN Number(2 * i + 1) ELSE 2
Peak0(i) == IF program.op \in {"FastIntPow", "Rotator"}
            THEN Complex(Number(3 * i + 1), 0) ELSE Number(3 * i + 1)
Charge == 2
Discharge == -1
Exponent == 5
Phase0 == Complex(1, 2)
PhaseIncrement == Complex(2, -1)

Zero == IF IsReal(program.base) THEN 0 ELSE Complex(0, 0)
Sum(a, b) == IF IsReal(program.base) THEN Plus(a, b) ELSE CPlus(a, b)
Scaled(a, s) == IF IsReal(program.base) THEN Times(a, s) ELSE CScale(a, s)

(* FastIntPow: square and multiply over the bits of the exponent.           *)
FastIntPow(z) ==
  LET square[k \in Nat] == IF k = 0 THEN z ELSE CTimes(square[k - 1], square[k - 1])
      result[k \in Nat] ==
        IF k = 0 THEN Complex(1, 0)
        ELSE IF (Exponent \div 2 ^ (k - 1)) % 2 = 1 THEN CTimes(result[k - 1], square[k - 1])
        ELSE result[k - 1]
      bits == CHOOSE k \in 0..Exponent : 2 ^ k > Exponent /\ \A j \in 0..(k - 1) : 2 ^ j <= Exponent
  IN result[bits]

FastLog10(a) == Times(LogarithmTwo(a), 2)
Lerp(v0, v1, t) == Plus(v0, Times(Minus(v1, v0), t))

(* One sample, as the kernels and the templates treat it.                   *)
OfSample(op, z) ==
  CASE op = "Abs" -> CAbs(z) [] op = "FastAbs" -> CAbs(z)
    [] op \in {"Norm", "NormUnreached"} -> CNorm(z) [] op = "FastArg" -> CArg(z)
    [] op = "FastIntPow" -> FastIntPow(z)
    [] op = "PowerSpectralDensity" -> Times(3, FastLog10(CNorm(z)))
PeakOf(sample, peak) ==
  IF sample > peak THEN Lerp(peak, sample, Charge) ELSE Lerp(peak, sample, Discharge)

-----------------------------------------------------------------------------
(* A block of samples in a vector.                                          *)
Current == kernel.loops[loop]
PerLane(l, At(_)) == [i \in 1..l.width |-> At(i)]

(* The block of g that meets the block of f behind p: the same one, or the  *)
(* one that ends as far from the end of g, reversed.                        *)
GBlock(l, p) ==
  IF kernel.body = "MultiplyAdd" THEN PerLane(l, LAMBDA i : G(p + i))
  ELSE LET loaded == PerLane(l, LAMBDA i : G(n - p - l.width + i))
       IN PerLane(l, LAMBDA i : loaded[l.width - i + 1])

(* What an iteration does to the register r with the block behind p.        *)
Accumulated(l, p, r) ==
  CASE kernel.body \in {"MultiplyAdd", "MultiplyAddReversed"} ->
         LET g == GBlock(l, p) IN PerLane(l, LAMBDA i : Sum(r[i], Scaled(F(p + i), g[i])))
    [] kernel.body = "Max" -> PerLane(l, LAMBDA i : Greater(r[i], F(p + i)))
    [] kernel.body = "Add" -> PerLane(l, LAMBDA i : Sum(r[i], F(p + i)))
AccumulatedOne(r) ==
  CASE kernel.body = "MultiplyAdd" -> Sum(r, Scaled(F(pos + 1), G(pos + 1)))
    [] kernel.body = "MultiplyAddReversed" -> Sum(r, Scaled(F(pos + 1), G(n - pos)))
    [] kernel.body = "Max" -> Greater(r, F(pos + 1))
    [] kernel.body = "Add" -> Sum(r, F(pos + 1))

(* What the registers give at the end of a loop.                            *)
HorizontalMax(r) == FoldLeft(Greater, r[1], r)
HorizontalSum(r) == FoldLeft(Sum, Zero, r)
Folded(l) ==
  LET added == FoldLeft(LAMBDA r, s : PerLane(l, LAMBDA i : Sum(r[i], s[i])), acc[1], Tail(acc))
  IN CASE kernel.fold = "HorizontalMax" ->
            FoldLeft(LAMBDA m, r : Greater(m, HorizontalMax(r)), output, acc)
       [] kernel.fold = "HorizontalSum" ->
            FoldLeft(LAMBDA m, r : Sum(m, HorizontalSum(r)), output, acc)
       [] kernel.fold = "SumOfRegisters" -> Sum(output, HorizontalSum(added))

(* The result of one sample, the k-th of the iteration: the rotator of a    *)
(* block has the phase of each lane in its register.                        *)
ResultOf(k) ==
  CASE kernel.body = "PeakDetector" -> PeakOf(F(pos + k), output[pos + k])
    [] kernel.body = "Rotator" ->
         CTimes(F(pos + k), IF Current = RestOne THEN phase ELSE acc[1][k])
    [] OTHER -> OfSample(kernel.body, F(pos + k))

(* The phases of a block of the rotator: each from the one before it, and   *)
(* the increment of a whole block.                                          *)
PowerOfIncrement[k \in Nat] ==
  IF k = 0 THEN Complex(1, 0) ELSE CTimes(PowerOfIncrement[k - 1], PhaseIncrement)
PhaseBlock(l, from) == PerLane(l, LAMBDA i : CTimes(from, PowerOfIncrement[i - 1]))

-----------------------------------------------------------------------------
Reduces == kernel.fold # "nothing"

(* The registers at the start of a loop.                                    *)
StartOf(l, value, from) ==
  CASE kernel.body = "Rotator" -> IF l = RestOne THEN <<>> ELSE <<PhaseBlock(l, from)>>
    [] ~Reduces -> <<>>
    [] Reduces /\ l = RestOne -> <<value>>
    [] Reduces /\ l # RestOne ->
         [k \in 1..(l.step \div l.width) |->
            PerLane(l, LAMBDA i : IF kernel.body = "Max" THEN value ELSE Zero)]

NoProgram == [op |-> "none", base |-> "Float", isa |-> "generic"]
KernelIdle == /\ program = NoProgram /\ kernel = Mapping(<<>>, "none")
              /\ n = 0 /\ at = 0 /\ loop = 0 /\ pos = 0
              /\ acc = <<>> /\ phase = Phase0 /\ output = <<>>

KernelInit ==
  /\ program \in Programs /\ n \in Lengths
  /\ kernel = KernelOf(program)
  /\ program.op \in {"HorizontalMax", "HorizontalSum"} => n > 0
  /\ at \in IF program.op = "HorizontalMax" THEN {1, (n + 1) \div 2, n - (n % 8), n} \cap (1..n) ELSE {0}
  /\ pos = 0 /\ phase = Phase0 /\ loop = 1
  /\ output = CASE program.op = "HorizontalMax" -> F(1)
                [] Reduces /\ program.op # "HorizontalMax" -> Zero
                [] ~Reduces -> [i \in 1..(n + Behind) |-> Peak0(i)]
  /\ acc = StartOf(kernel.loops[1], output, phase)

Bound == n - (n % Current.align)
Running == program # NoProgram /\ loop <= Len(kernel.loops)

(* The body of a loop.                                                      *)
ReduceBlock ==
  /\ Running /\ Reduces /\ pos < Bound
  /\ acc' = IF Current = RestOne THEN <<AccumulatedOne(acc[1])>>
            ELSE [k \in 1..Len(acc) |->
                    Accumulated(Current, pos + (k - 1) * Current.width, acc[k])]
  /\ pos' = pos + Current.step
  /\ UNCHANGED <<chosen, loop, phase, output>>

MapBlock ==
  /\ Running /\ ~Reduces /\ pos < Bound
  /\ output' = [i \in 1..Len(output) |->
                  IF i \in (pos + 1)..(pos + Current.step) THEN ResultOf(i - pos) ELSE output[i]]
  /\ pos' = pos + Current.step
  /\ IF kernel.body # "Rotator" THEN UNCHANGED <<acc, phase>>
     ELSE IF Current = RestOne
     THEN phase' = CTimes(phase, PhaseIncrement) /\ UNCHANGED acc
     ELSE acc' = <<PerLane(Current, LAMBDA i : CTimes(acc[1][i], PowerOfIncrement[Current.step]))>>
          /\ UNCHANGED phase
  /\ UNCHANGED <<chosen, loop>>

(* The end of a loop: the registers go into the output, and the rotator     *)
(* takes its phase from the vector of four, not from the one of eight.      *)
PhaseAfter(l) ==
  CASE l = RestOne -> CScale(phase, Over(1, CAbs(phase)))
    [] l.width = 4 -> acc[1][1]
    [] l.width = 8 -> phase
EndLoop ==
  /\ Running /\ pos >= Bound
  /\ output' = CASE Reduces /\ Current = RestOne -> acc[1]
                 [] Reduces /\ Current # RestOne -> Folded(Current)
                 [] ~Reduces -> output
  /\ phase' = IF kernel.body = "Rotator" THEN PhaseAfter(Current) ELSE phase
  /\ loop' = loop + 1
  /\ acc' = IF loop = Len(kernel.loops) THEN <<>>
            ELSE StartOf(kernel.loops[loop + 1], output', phase')
  /\ UNCHANGED <<chosen, pos>>

KernelNext == ReduceBlock \/ MapBlock \/ EndLoop

-----------------------------------------------------------------------------
(* The templates of math/kernel: one loop over the samples, for the types   *)
(* that have no kernel of their own.                                        *)
DotTemplate ==
  LET sum[i \in 0..n] == IF i = 0 THEN Zero ELSE Sum(sum[i - 1], Scaled(F(i), G(i)))
  IN sum[n]
DotFlipGTemplate ==
  LET sum[i \in 0..n] == IF i = 0 THEN Zero ELSE Sum(sum[i - 1], Scaled(F(i), G(n + 1 - i)))
  IN sum[n]
HorizontalMaxTemplate ==
  LET max[i \in 1..n] == IF i = 1 THEN F(1) ELSE Greater(max[i - 1], F(i)) IN max[n]
HorizontalSumTemplate ==
  LET sum[i \in 1..n] == IF i = 1 THEN F(1) ELSE Sum(sum[i - 1], F(i)) IN sum[n]
MapTemplate(At(_)) ==
  [i \in 1..(n + Behind) |-> IF i <= n THEN At(i) ELSE Peak0(i)]
PeakDetectorTemplate == MapTemplate(LAMBDA i : PeakOf(F(i), Peak0(i)))
RotatorTemplate == MapTemplate(LAMBDA i : CTimes(F(i), CTimes(Phase0, PowerOfIncrement[i - 1])))
RotatorPhase(samples) ==
  LET turned == CTimes(Phase0, PowerOfIncrement[samples]) IN CScale(turned, Over(1, CAbs(turned)))

Template ==
  CASE program.op = "Dot" -> DotTemplate
    [] program.op \in {"DotFlipG", "DotFlipGUnreached"} -> DotFlipGTemplate
    [] program.op = "HorizontalMax" -> HorizontalMaxTemplate
    [] program.op = "HorizontalSum" -> HorizontalSumTemplate
    [] program.op = "PeakDetector" -> PeakDetectorTemplate
    [] program.op = "Rotator" -> RotatorTemplate
    [] OTHER -> MapTemplate(LAMBDA i : OfSample(program.op, F(i)))

IsTemplate ==
  /\ output = Template
  /\ program.op = "Rotator" => phase = RotatorPhase(n)

(* A rotator with a loop of eight lanes, which is that of HalfComplex on    *)
(* 64-bit Neon, does not write back the phase of that loop: the samples     *)
(* behind it, and the caller, begin again with the phase of before.         *)
HasLoopOfEight == kernel.body = "Rotator" /\ \E k \in DOMAIN kernel.loops : kernel.loops[k].width = 8

BeginsAgain ==
  LET m == n - (n % 8) IN
  /\ \A i \in 1..Len(output) :
       output[i] = IF i \in (m + 1)..n
                   THEN CTimes(F(i), CTimes(Phase0, PowerOfIncrement[i - m - 1]))
                   ELSE Template[i]
  /\ phase = RotatorPhase(n % 8)

(* Whatever the vectors of the build and the number of samples, a kernel    *)
(* returns what the loop of its template does: each sample is taken once,   *)
(* with its own partner, the registers of every loop reach the result, and  *)
(* nothing is read or written behind the spans (dot.h:32 and the comments   *)
(* on the output buffers).  Of one kernel this is false: it does what       *)
(* BeginsAgain says, and its template for less than eight samples only.     *)
KernelsAreTheirTemplates ==
  (program # NoProgram /\ loop > Len(kernel.loops)) =>
     IF HasLoopOfEight THEN BeginsAgain ELSE IsTemplate
=============================================================================
