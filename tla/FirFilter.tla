------------------------------- MODULE FirFilter -------------------------------
(***************************************************************************)
(* signal/fir_filter.h, with the storage of the kernel that                *)
(* simple_fir_filter.h adds: every output is the dot product of the kernel *)
(* and the latest samples, the newest one first.  It is represented by the *)
(* samples of that product.                                                *)
(***************************************************************************)
EXTENDS RingBuffer

LOCAL Overwritten_ == -1

NewFilter == [kernelSize |-> 0, stored |-> ReverseResize(1)]

(* SimpleFIRFilter::SetKernelSize: a filter that keeps its size keeps its  *)
(* samples, too.                                                           *)
SetKernelSize(f, size) ==
    IF f.kernelSize = size THEN f
    ELSE [kernelSize |-> size, stored |-> ReverseResize(size)]

(* operator() for one sample. *)
FilterSample(f, sample) ==
    LET stored == ReversePush(f.stored, sample)
    IN  [filter |-> [f EXCEPT !.stored = stored],
         output |-> ReverseNewElements(stored) \o ReverseOldElements(stored)]

-------------------------------------------------------------------------------
(* operator() for a batch in place. *)

(* The first samples, one by one. *)
Prefix(f, samples, count) ==
    LET Next(p, i) ==
            LET step == FilterSample(p.filter, samples[i])
            IN  [filter |-> step.filter, outputs |-> Append(p.outputs, step.output)]
    IN  FoldLeft(Next, [filter |-> f, outputs |-> <<>>], [i \in 1 .. count |-> i])

(* Mutant: the rest is filtered from its beginning. *)
MemoryFromBegin(f, samples, k) ==
    [i \in DOMAIN samples |->
        IF i \in f.kernelSize + 2 .. k - 1 THEN Overwritten_ ELSE samples[i]]

(* The memory when the output of sample k is computed: the outputs of the  *)
(* prefix are in a buffer of their own until the rest is done, and the     *)
(* rest is filtered from its end.                                          *)
MemoryAt(f, samples, k) ==
    [i \in DOMAIN samples |-> IF i > k THEN Overwritten_ ELSE samples[i]]

(* DotFlipG of the kernel and the samples up to k. *)
DotFlip(f, samples, k) ==
    Reverse(SubSeq(MemoryAt(f, samples, k), k - f.kernelSize + 1, k))

FilterBatch(f, samples) ==
    LET n == Len(samples)
        first == f.kernelSize + 1
        prefix == Prefix(f, samples, first)
        stored == ReversePushMultiple(prefix.filter.stored,
                                      SubSeq(samples, first + 1, n))
    IN  IF n < 4 * f.kernelSize THEN Prefix(f, samples, n)
        ELSE [filter |-> [prefix.filter EXCEPT !.stored = stored],
              outputs |-> prefix.outputs
                  \o [k \in 1 .. n - first |-> DotFlip(f, samples, k + first)]]
===============================================================================
