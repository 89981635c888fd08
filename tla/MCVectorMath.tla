--------------------------- MODULE MCVectorMath ---------------------------
(* Every type on every instruction set that has its own implementation of   *)
(* it, and as the loops every other build compiles; every kernel on those.  *)
EXTENDS VectorMath

Named(names, isas) == [name : names, isa : isas]
AllTypes ==
  Named({"Float4", "Float8", "Complex4", "Complex8"},
        {"x86_sse2", "x86_fma", "neon32", "neon64", "generic"})
    \cup Named({"Half4", "Half8", "HalfComplex4", "HalfComplex8"}, {"neon64", "generic"})
    \cup Named({"UInt4", "UInt8"}, {"x86_sse2", "neon32", "neon64", "generic"})
    \cup Named({"UShort4", "UShort8"}, {"neon32", "neon64", "generic"})

Called(ops, bases, isas) == [op : ops, base : bases, isa : isas]
OfComplex == {"Abs", "FastAbs", "Norm", "FastArg", "FastIntPow", "PowerSpectralDensity"}
OfReal == {"HorizontalMax", "HorizontalSum", "PeakDetector"}
AllPrograms ==
  Called({"Dot", "DotFlipG"}, {"Float", "Complex"}, {"x86_sse2", "neon64", "generic"})
    \cup Called({"Dot", "DotFlipG"}, {"Half", "HalfComplex"}, {"neon64", "generic"})
    \cup Called(OfComplex \cup {"Rotator"}, {"Complex"}, {"x86_sse2", "neon64", "generic"})
    \cup Called(OfComplex \cup {"Rotator"}, {"HalfComplex"}, {"neon64", "generic"})
    \cup Called(OfReal, {"Float"}, {"x86_sse2", "neon64", "generic"})
    \cup Called(OfReal, {"Half"}, {"neon64", "generic"})
    \cup Called({"DotFlipGUnreached"}, {"Float", "Complex", "Half", "HalfComplex"}, {"neon64"})
    \cup Called({"NormUnreached"}, {"Complex", "HalfComplex"}, {"neon64"})
=============================================================================
