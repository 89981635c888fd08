--------------------------------- MODULE Octets ---------------------------------
(* Bits and bytes of the data link layers. A byte is the sequence of its     *)
(* eight bits, least significant bit first, which is the order of the line.  *)
EXTENDS Integers, Sequences

Bit == {0, 1}
Byte == {b \in Seq(Bit) : Len(b) = 8}
================================================================================
