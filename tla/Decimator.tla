------------------------------- MODULE Decimator -------------------------------
(***************************************************************************)
(* signal/decimator.h: one output for every ratio-th sample, which is the  *)
(* dot product of the kernel and the latest samples.  The output is        *)
(* represented by the samples of that product, in the order of the kernel. *)
(* A batch is taken from memory that may be the same as that of the        *)
(* outputs: what was overwritten there is marked.                          *)
(***************************************************************************)
EXTENDS RingBuffer

CONSTANT TapsPerRatio  (* 20 in the code *)

ASSUME TapsAssumption == TapsPerRatio \in Nat \ {0}

KernelSize(ratio) == TapsPerRatio * ratio + 1

(* A place of the memory where an output was written. *)
Written == -1

NewDecimator == [ratio |-> 0, stored |-> EmptyBuffer, unprocessed |-> 0]

SetRatio(d, ratio) ==
    IF d.ratio = ratio THEN d
    ELSE [ratio |-> ratio, stored |-> Resize(d.stored, KernelSize(ratio)),
          unprocessed |-> 0]

(* DotProductSamplesAndKernel: the kernel is in the order of time, too. *)
StoredWindow(stored) ==
    GetContinuousOldElements(stored) \o GetContinuousNewElements(stored)

-------------------------------------------------------------------------------
(* operator() for one sample: the decimator, and the output if there is one. *)
DecimateSample(d, sample) ==
    IF d.ratio = 1 THEN [decimator |-> d, outputs |-> << <<sample>> >>]
    ELSE LET stored == PushBack(d.stored, sample)
             due == d.unprocessed + 1 = d.ratio
         IN  [decimator |->
                  [d EXCEPT !.stored = stored,
                            !.unprocessed = IF due THEN 0 ELSE @ + 1],
              outputs |-> IF due THEN <<StoredWindow(stored)>> ELSE <<>>]

-------------------------------------------------------------------------------
(* operator() for a batch. Its progress p: the decimator, the samples and  *)
(* the number of them that were read, and the outputs.                     *)
Remaining(p) == Len(p.samples) - p.read

(* The memory of the samples: in place the outputs are written there.      *)
Memory(p) ==
    [i \in DOMAIN p.samples |->
        IF p.inPlace /\ i <= Len(p.outputs) THEN Written ELSE p.samples[i]]

Store(p, samples) == [p EXCEPT !.decimator.stored = PushBackMultiple(@, samples)]

(* Mutant: the samples that waited are counted again. *)
CombinedOutputStillWaiting(p, i) ==
    LET needed == p.decimator.ratio - p.decimator.unprocessed
        stored == Store(p, SubSeq(Memory(p), p.read + 1, p.read + needed))
        window == StoredWindow(stored.decimator.stored)
    IN  IF Remaining(p) < needed THEN p
        ELSE [stored EXCEPT !.read = @ + needed, !.outputs = Append(@, window)]

(* One output of ProcessCombinedSamples. *)
CombinedOutput(p, i) ==
    LET needed == p.decimator.ratio - p.decimator.unprocessed
        stored == Store(p, SubSeq(Memory(p), p.read + 1, p.read + needed))
        window == StoredWindow(stored.decimator.stored)
    IN  IF Remaining(p) < needed THEN p
        ELSE [stored EXCEPT !.read = @ + needed, !.outputs = Append(@, window),
                            !.decimator.unprocessed = 0]

(* Mutant: no head room for the outputs that are written meanwhile. *)
CombinedWithoutHeadRoom(ratio) == KernelSize(ratio) \div ratio

(* So many that the windows of the rest lie behind the outputs. *)
MaxCombinedOutputs(ratio) == KernelSize(ratio) \div (ratio - 1) + 1

Times(n) == [i \in 1 .. n |-> i]

ProcessCombinedSamples(p) ==
    FoldLeft(CombinedOutput, p, Times(MaxCombinedOutputs(p.decimator.ratio)))

(* One output of ProcessContinuousSamples. *)
ContinuousOutput(p, i) ==
    LET read == p.read + p.decimator.ratio
        window == SubSeq(Memory(p), read - KernelSize(p.decimator.ratio) + 1, read)
    IN  [p EXCEPT !.read = read, !.outputs = Append(@, window)]

ProcessContinuousSamples(p) ==
    FoldLeft(ContinuousOutput, p, Times(Remaining(p) \div p.decimator.ratio))

(* Mutant: samples that are filtered where they are are not kept. *)
StoreRemaining(p) ==
    IF Remaining(p) >= p.decimator.ratio THEN p
    ELSE Store(p, LastOf(Memory(p), Remaining(p)))

(* The samples behind the outputs that are kept for the next call. *)
StoreLatest(p) ==
    Store(p, IF Remaining(p) >= p.decimator.ratio
             THEN LastOf(Memory(p), KernelSize(p.decimator.ratio))
             ELSE LastOf(Memory(p), Remaining(p)))

(* The number of samples that wait for more of them is what is left of     *)
(* this batch.                                                             *)
Decimate(d, samples, inPlace) ==
    IF d.ratio = 1
    THEN [decimator |-> d, outputs |-> [i \in DOMAIN samples |-> <<samples[i]>>]]
    ELSE LET begun == [decimator |-> d, samples |-> samples, read |-> 0,
                       outputs |-> <<>>, inPlace |-> inPlace]
             combined == ProcessCombinedSamples(begun)
             ended == ProcessContinuousSamples(StoreLatest(combined))
         IN  [decimator |-> [ended.decimator EXCEPT !.unprocessed = Remaining(ended)],
              outputs |-> ended.outputs]
===============================================================================
