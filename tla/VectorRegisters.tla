------------------------- MODULE VectorRegisters -------------------------
(***************************************************************************)
(* One variable of a vectorised type, as the implementations keep it: a    *)
(* register of four or eight lanes, a plane of real and one of imaginary   *)
(* parts, an array, or two vectors of four.  The tables of VectorBackends  *)
(* say how each implementation does each operation; this module loads the  *)
(* operands from memory, runs the table impl of the type and stores the    *)
(* result.  Next calls one operation with arguments of Vectors; the        *)
(* promise is the specification VectorLanes, which Stored implements.      *)
(***************************************************************************)
EXTENDS VectorCalls

CONSTANTS Types,      \* the types of this build: [name, isa]
          MaxInt,     \* bound: the largest lane of the unsigned vectors
          MaxCalls    \* bound: calls after the first load

VARIABLES type, impl, reg, out, call, calls

registerVars == <<type, impl, reg, out, call, calls>>

Stored == StoreOf(Kind(type), impl, reg)

-----------------------------------------------------------------------------
(* The arguments of the calls: vectors without a zero lane (their lanes are *)
(* divisors too), a constant one, scalars, every lane.                      *)
Numbers == <<<<1, -2, 3, -1, 2, -3, 1, 2>>, <<-3, 1, 2, 2, -1, 3, -2, -1>>>>
Unsigned == <<<<6, 1, 4, 7, 0, 3, 5, 2>>, <<2, 7, 3, 0, 5, 6, 1, 4>>>>
Real8(k, n) == SubSeq(Numbers[k], 1, n)
(* With lanes in the upper half of the range, or (high = 0) without.        *)
Int8(k, n, high) == [i \in 1..n |-> Unsigned[k][i] + (IF i % 2 = k % 2 THEN high ELSE 0)]
Vectors(t) ==
  LET n == Size(t) IN
  CASE Kind(t) = "float" -> {Real8(k, n) : k \in 1..2} \cup {[i \in 1..n |-> 2]}
    [] Kind(t) = "complex" ->
         {[i \in 1..n |-> Complex(Numbers[k][i], Numbers[3 - k][i] * (i % 3))] : k \in 1..2}
           \cup {[i \in 1..n |-> Complex(3, 0)]}
    [] Kind(t) = "int" -> {Int8(k, n, high) : k \in 1..2, high \in {0, MaxInt - 7}}
                            \cup {[i \in 1..n |-> MaxInt]}

(* The greatest unsigned ones are left out: as a float they are rounded to  *)
(* a number that is too large for a lane, which has no defined conversion.  *)
Scalars(t) == IF Kind(t) = "int" THEN {0, 6, MaxInt - 2} ELSE {2, -3}
First(t) == CHOOSE x \in Vectors(t) : TRUE

Call(t, op) ==
  [op |-> op, x |-> First(t), w |-> Real8(2, Size(t)), s |-> 1, i |-> 1,
   m |-> [i \in 1..Size(t) |-> i % 3 # 0]]
AlongVectors(t, ops) == {[Call(t, op) EXCEPT !.x = x] : op \in ops, x \in Vectors(t)}
AlongScalars(t, ops) == {[Call(t, op) EXCEPT !.s = s] : op \in ops, s \in Scalars(t)}
AtLanes(t, ops) == {[Call(t, op) EXCEPT !.i = i, !.s = s] :
                      op \in ops, i \in 1..Size(t), s \in Scalars(t)}

HasSetLane(t) == t.name \notin {"UShort4", "UShort8"} \/ t.isa \notin Neon
HasHalves(t) == Kind(t) # "int" \/ Size(t) = 8
Access(t) ==
  AtLanes(t, {"Extract"} \cup (IF HasSetLane(t) THEN {"SetLane"} ELSE {}))
    \cup {Call(t, op) : op \in IF HasHalves(t) THEN {"ExtractLow", "ExtractHigh"} ELSE {}}

FloatCalls(t) ==
  {Call(t, op) : op \in {"Negate", "Abs", "HorizontalMax", "HorizontalSum", "Reverse",
                         "Sin", "Cos", "Exp", "Norm"}}
    \cup AlongScalars(t, {"Scale", "DivideBy"})
    \cup AlongVectors(t, {"Add", "Subtract", "Multiply", "Divide", "LessThan", "GreaterThan",
                          "Min", "Max", "MultiplyAdd", "SelectGreater", "CopySign", "Dot"})
ComplexCalls(t) ==
  {Call(t, op) : op \in {"Negate", "Scale", "Abs", "FastAbs", "Norm", "FastArg", "Conj",
                         "HorizontalSum", "ComplexExp", "Exp", "Reverse",
                         "ExtractReal", "ExtractImag"}}
    \cup AlongVectors(t, {"Add", "Subtract", "Multiply", "Divide", "MultiplyAdd"})
IntCalls(t) ==
  {Call(t, op) : op \in {"HorizontalMax", "Reverse"}}
    \cup AlongVectors(t, {"Min", "Max", "Select"})

Calls(t) ==
  Access(t) \cup CASE Kind(t) = "float" -> FloatCalls(t)
                   [] Kind(t) = "complex" -> ComplexCalls(t)
                   [] Kind(t) = "int" -> IntCalls(t)

Perform(c) ==
  LET done == Run(Kind(type), impl, c, reg)
  IN /\ calls < MaxCalls
     /\ calls' = calls + 1
     /\ reg' = done.reg /\ out' = done.out /\ call' = c
     /\ UNCHANGED <<type, impl>>

RegisterInit ==
  /\ type \in Types
  /\ impl = Implementation(type)
  /\ \E x \in Vectors(type) : /\ call = [Call(type, "Load") EXCEPT !.x = x]
                              /\ reg = Load(Kind(type), impl, x)
  /\ out = <<>> /\ calls = 0

RegisterNext == \E c \in Calls(type) : Perform(c)

(* A program that has no vector of its own.                                 *)
RegisterIdle == /\ type = [name |-> "Float4", isa |-> "generic"] /\ calls = MaxCalls
                /\ impl = Leaf(FloatScalar(4), FloatScalarFunctions(4))
                /\ call = [Call(type, "Load") EXCEPT !.x = Real8(1, 4)]
                /\ reg = Real8(1, 4) /\ out = <<>>

-----------------------------------------------------------------------------
(* Every implementation of every type is its lanes: whatever the order in   *)
(* which a register keeps them, each operation gives what the scalar one    *)
(* gives on every lane (the RESULT[i] comments of the three headers).  Two  *)
(* operations on unsigned lanes in the upper half of their range do not,    *)
(* and are held to less.                                                    *)
Promise == INSTANCE VectorLanes WITH kind <- Kind(type), lanes <- Stored, answer <- out, call <- call

IsHigh(a) == 2 * a >= Limit

(* x86 compares them as signed integers: each lane that results is only one *)
(* of those compared (uint4_x86.h:30, :43).                                 *)
ComparesAsSigned ==
  LET c == call'
      lanes == DOMAIN Stored
  IN /\ Kind(type) = "int" /\ type.isa \in X86
     /\ \/ /\ c.op \in {"Min", "Max"}
           /\ \E i \in lanes : IsHigh(Stored[i]) \/ IsHigh(c.x[i])
           /\ \A i \in lanes : Stored'[i] \in {Stored[i], c.x[i]}
        \/ /\ c.op = "HorizontalMax"
           /\ \E i \in lanes : IsHigh(Stored[i])
           /\ Stored' = Stored /\ \E i \in lanes : out' = Stored[i]

(* A vector of two of four takes the lane to set as a float, and sets the   *)
(* nearest number that is one (uint8_uint4x2.h:109).                        *)
SetsThroughFloat ==
  LET c == call'
      set == Stored'[c.i]
  IN /\ type.name = "UInt8" /\ c.op = "SetLane" /\ IsHigh(c.s)
     /\ Stored' = [Stored EXCEPT ![c.i] = set]
     /\ set - c.s \in {-1, 0, 1}

ActsOnLanes ==
  /\ Promise!Init
  /\ [][Promise!Next \/ ComparesAsSigned \/ SetsThroughFloat]_<<call, type, Stored, out>>
=============================================================================
