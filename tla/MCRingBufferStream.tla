--------------------------- MODULE MCRingBufferStream ---------------------------
(* Small instances of RingBufferStream for TLC. A payload longer than every  *)
(* capacity makes Write wait in the middle of a call, and different payloads *)
(* carry different elements, so that a reordered element shows.              *)
EXTENDS RingBufferStream, TLC

CONSTANTS w1, w2, r1, r2, c1

LongAndShort == {<<1, 2, 3, 4>>, <<5>>}
ShortOnes == {<<1, 2>>, <<3>>}
OnePair == {<<1, 2>>}

Crowd == Permutations({w1, w2}) \cup Permutations({r1, r2})
================================================================================
