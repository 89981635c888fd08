---------------------------- MODULE VectorMath ----------------------------
(***************************************************************************)
(* The vector library in one specification: a program works on one vector  *)
(* or calls one kernel.                                                    *)
(***************************************************************************)
EXTENDS VectorRegisters, VectorKernels

vars == <<registerVars, kernelVars>>

Init == \/ RegisterInit /\ KernelIdle
        \/ RegisterIdle /\ KernelInit
Next == \/ RegisterNext /\ UNCHANGED kernelVars
        \/ KernelNext /\ UNCHANGED registerVars
Spec == Init /\ [][Next]_vars
=============================================================================
