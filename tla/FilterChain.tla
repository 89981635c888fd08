------------------------------ MODULE FilterChain ------------------------------
(***************************************************************************)
(* The sample rate conversions of the signal path: the ReceiveFilter of    *)
(* signal_path/internal/receive_filter.h, which decimates, filters and     *)
(* interpolates again, and the decimation of the demodulated samples to    *)
(* the audio rate, in place (base_signal_path.h), for batches of any size. *)
(*                                                                         *)
(* Every stage numbers the samples that it takes, beginning with 1, and an *)
(* output of it is the window of samples that it was computed from.        *)
(***************************************************************************)
EXTENDS Decimator, FirFilter

CONSTANTS
    Options,      (* what the path is configured with: see Configuration   *)
    BatchSizes,   (* the number of samples of a batch                      *)
    MaxSamples,   (* bound: samples that are pushed after a Configure      *)
    MaxConfigures (* bound: how often the path is configured               *)

Configuration == [ratio : Nat \ {0}, kernel : Nat \ {0}, audio : Nat \ {0}]

ASSUME OptionsAssumption == Options \subseteq Configuration /\ Options # {}
ASSUME BatchSizesAssumption == BatchSizes \subseteq Nat

VARIABLES
    ratio,      (* decimation_ratio_ of the ReceiveFilter                  *)
    decimator,  (* its decimator_                                          *)
    filter,     (* its filter_                                             *)
    phases,     (* polyphase_filters_ of its interpolator_                 *)
    af,         (* af_decimator_                                           *)
    taken,      (* how many samples each stage has taken ...               *)
    begin,      (* ... and how many of them before its size last changed   *)
    given,      (* how many outputs a decimator gave since then            *)
    outputs,    (* the outputs of each stage for the last batch            *)
    short,      (* history: the decimators that got a batch which was too  *)
                (* small for the group of samples that waited there        *)
    configures

vars == <<ratio, decimator, filter, phases, af, taken, begin, given, outputs,
          short, configures>>

Decimators == {"decimator", "af"}
Stages == Decimators \union {"filter", "interpolator"}

-------------------------------------------------------------------------------
(* signal/interpolator.h, with the components of polyphase_filter.h.       *)

(* PolyphaseDecompositionSize: the rest of the division is dropped. *)
ComponentSize(r) == KernelSize(r) \div r

(* SetRatio: the vector of the components keeps the first ones. *)
SetPhases(old, r) ==
    IF Len(old) = r THEN old
    ELSE [m \in 1 .. r |->
             SetKernelSize(IF m \in DOMAIN old THEN old[m] ELSE NewFilter,
                           ComponentSize(r))]

(* One sample is given to every component, each of which gives an output. *)
InterpolateSample(p, sample) ==
    LET steps == [m \in DOMAIN p.phases |-> FilterSample(p.phases[m], sample)]
    IN  [phases |-> [m \in DOMAIN steps |-> steps[m].filter],
         outputs |-> p.outputs \o [m \in DOMAIN steps |-> steps[m].output]]

Interpolate(ps, samples) ==
    IF Len(ps) = 1
    THEN [phases |-> ps, outputs |-> [i \in DOMAIN samples |-> <<samples[i]>>]]
    ELSE FoldLeft(InterpolateSample, [phases |-> ps, outputs |-> <<>>], samples)

-------------------------------------------------------------------------------
Zeroes == [s \in Stages |-> 0]

(* The path was configured once. *)
Init ==
    \E o \in Options :
        /\ ratio = o.ratio
        /\ decimator = SetRatio(NewDecimator, o.ratio)
        /\ phases = SetPhases(<<>>, o.ratio)
        /\ filter = SetKernelSize(NewFilter, o.kernel)
        /\ af = SetRatio(NewDecimator, o.audio)
        /\ taken = Zeroes
        /\ begin = Zeroes
        /\ given = [s \in Decimators |-> 0]
        /\ outputs = [s \in Stages |-> <<>>]
        /\ short = {}
        /\ configures = 0

(* ReceiveFilter::Configure, and the decimation ratio of the audio. *)
Configure(o) ==
    LET changed == (IF ratio # o.ratio THEN {"decimator", "interpolator"} ELSE {})
            \union (IF filter.kernelSize # o.kernel THEN {"filter"} ELSE {})
            \union (IF af.ratio # o.audio THEN {"af"} ELSE {})
    IN  /\ configures < MaxConfigures
        /\ configures' = configures + 1
        /\ ratio' = o.ratio
        /\ decimator' = SetRatio(decimator, o.ratio)
        /\ phases' = SetPhases(phases, o.ratio)
        /\ filter' = SetKernelSize(filter, o.kernel)
        /\ af' = SetRatio(af, o.audio)
        /\ begin' = [s \in Stages |-> IF s \in changed THEN taken[s] ELSE begin[s]]
        /\ given' = [s \in Decimators |-> IF s \in changed THEN 0 ELSE given[s]]
        /\ outputs' = [s \in Stages |-> <<>>]
        /\ short' = short \ changed
        /\ UNCHANGED taken

(* The next n samples of a stage. *)
Samples(stage, n) == [i \in 1 .. n |-> taken[stage] + i]

(* The batch leaves a group incomplete that has waited before. *)
IsShort(d, n) ==
    d.ratio # 1 /\ d.unprocessed > 0 /\ d.unprocessed + n < d.ratio

(* A batch through ReceiveFilter::operator() and af_decimator_.  Stages    *)
(* whose ratio is 1 give what they get, and are passed by in the code.     *)
PushSamples(n) ==
    LET decimated == Decimate(decimator, Samples("decimator", n), FALSE)
        filtering == Len(decimated.outputs)
        filtered == FilterBatch(filter, Samples("filter", filtering))
        interpolated == Interpolate(phases, Samples("interpolator", filtering))
        demodulated == Len(interpolated.outputs)
        audio == Decimate(af, Samples("af", demodulated), TRUE)
        inputs == [decimator |-> n, filter |-> filtering,
                   interpolator |-> filtering, af |-> demodulated]
    IN  /\ taken["decimator"] + n <= MaxSamples
        /\ decimator' = decimated.decimator
        /\ filter' = filtered.filter
        /\ phases' = interpolated.phases
        /\ af' = audio.decimator
        /\ outputs' = [decimator |-> decimated.outputs, filter |-> filtered.outputs,
                       interpolator |-> interpolated.outputs, af |-> audio.outputs]
        /\ taken' = [s \in Stages |-> taken[s] + inputs[s]]
        /\ given' = [s \in Decimators |-> given[s] + Len(outputs'[s])]
        /\ short' = short \union {s \in Decimators :
                        IsShort(IF s = "af" THEN af ELSE decimator, inputs[s])}
        /\ UNCHANGED <<ratio, begin, configures>>

Next ==
    \/ \E o \in Options : Configure(o)
    \/ \E n \in BatchSizes : PushSamples(n)

Spec == Init /\ [][Next]_vars

-------------------------------------------------------------------------------
(* What the chain promises.                                                *)

(* A window of a stage ends with its newest samples, in the order they     *)
(* came: as many as the kernel has, or as came since its size changed.     *)
LatestIn(window, newest, count) ==
    LET known == IF count < Len(window) THEN count ELSE Len(window)
    IN  \A i \in 0 .. known - 1 : window[Len(window) - i] = newest - i

DecimatedOf(d, s) ==
    \A k \in DOMAIN outputs[s] :
        LET newest == taken[s] - d.unprocessed - d.ratio * (Len(outputs[s]) - k)
        IN  LatestIn(outputs[s][k], newest, newest - begin[s])

(* Whatever the sizes of the batches, and wherever the storage and the     *)
(* memory of the batch are split: every output of a decimator, of the      *)
(* filter and of the interpolator is computed from the latest samples, in  *)
(* order, of which none was overwritten or left out.                       *)
OutputsOfLatestSamples ==
    /\ DecimatedOf(decimator, "decimator")
    /\ DecimatedOf(af, "af")
    /\ \A k \in DOMAIN outputs["filter"] :
           LET newest == taken["filter"] - Len(outputs["filter"]) + k
           IN  LatestIn(Reverse(outputs["filter"][k]), newest, newest - begin["filter"])
    /\ \A k \in DOMAIN outputs["interpolator"] :
           LET n == Len(outputs["interpolator"]) \div ratio
               newest == taken["interpolator"] - n + (k - 1) \div ratio + 1
           IN  LatestIn(Reverse(outputs["interpolator"][k]), newest,
                        newest - begin["interpolator"])

OnTime(d, s) == given[s] = (taken[s] - begin[s]) \div d.ratio

(* A decimator gives an output with every ratio-th sample, also when a     *)
(* group of samples is spread over two batches.                            *)
OutputsOnTime ==
    /\ "decimator" \notin short => OnTime(decimator, "decimator")
    /\ "af" \notin short => OnTime(af, "af")

(* What the comment on num_unprocessed_samples_ says, "The number of       *)
(* unprocessed in the stored_samples_": for batches of any size.  It does   *)
(* not hold: batches smaller than the ratio are forgotten (short).         *)
SamplesAreCounted ==
    OnTime(decimator, "decimator") /\ OnTime(af, "af")

(* The samples one by one. *)
OneByOne(d, samples) ==
    LET Step(p, sample) ==
            LET next == DecimateSample(p.decimator, sample)
            IN  [decimator |-> next.decimator, outputs |-> p.outputs \o next.outputs]
    IN  FoldLeft(Step, [decimator |-> d, outputs |-> <<>>], samples)

SameAsOneByOne(d, samples, after, given_) ==
    LET steps == OneByOne(d, samples)
    IN  /\ steps.outputs = given_
        /\ steps.decimator.unprocessed = after.unprocessed
        /\ d.ratio # 1 =>
               StoredWindow(steps.decimator.stored) = StoredWindow(after.stored)

(* A decimator that is given a batch, in place or not, gives what it gives *)
(* for the same samples one by one, and goes on from the same state; so    *)
(* also right after a change of the ratio, which leaves old samples.       *)
BatchesAsSamples ==
    [][\A s \in Decimators :
          (taken' # taken /\ s \notin short') =>
              LET d == IF s = "af" THEN af ELSE decimator
                  after == IF s = "af" THEN af' ELSE decimator'
              IN  SameAsOneByOne(d, Samples(s, taken'[s] - taken[s]), after,
                                 outputs'[s])]_vars
===============================================================================
