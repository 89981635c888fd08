------------------------------- MODULE MCHdlcLink -------------------------------
(* Small instances of HdlcLink for TLC. The bytes put five and more ones at  *)
(* the begin, in the middle and at the end of a byte and across two bytes,   *)
(* and one of them is the pattern of the marker itself.                      *)
EXTENDS HdlcLink

Ones == <<1, 1, 1, 1, 1, 1, 1, 1>>
TrailingOnes == <<0, 1, 0, 0, 1, 1, 1, 1>>
LeadingOnes == <<1, 1, 1, 0, 0, 0, 1, 0>>

ManyBytes == {Ones, FrameMarker, TrailingOnes, LeadingOnes}

\* An AX.25 frame begins with a character of an address, shifted left by one.
AddressBytes == {b \in ManyBytes : b[1] = 0}
================================================================================
