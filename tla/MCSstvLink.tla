------------------------------ MODULE MCSstvLink ------------------------------
(***************************************************************************)
(* A small instance of SstvLink.  A unit of time is a third of a millisecond and *)
(* a sample takes two; the durations are in the proportions of the code,   *)
(* scaled down.  The two modes differ in the size of their pixels, and the  *)
(* picture in the longer one is broken off: there is more time left in it  *)
(* than the next VIS takes.                                                *)
(***************************************************************************)
EXTENDS SstvLink, TLC

PD120 == 95
PD90 == 99

SmallModes ==
    PD120 :> [sync |-> 16, porch |-> 3, pixel |-> 3, width |-> 1, height |-> 24]
    @@ PD90 :> [sync |-> 16, porch |-> 3, pixel |-> 2, width |-> 2, height |-> 4]

(* One tone, a few bits of a code, two lines of a picture and more. *)
SomeBursts ==
    {[length |-> 1, frequency |-> f] : f \in {1100, 1200, 1900}}
    \union {[length |-> 4, frequency |-> 1100]}
    \union {[length |-> 13, frequency |-> f] : f \in {1200, 1900}}

ThreePictures ==
    <<[code |-> PD90, vox |-> TRUE, lines |-> 2],
      [code |-> PD120, vox |-> FALSE, lines |-> 1],
      [code |-> PD90, vox |-> FALSE, lines |-> 2]>>
===============================================================================
