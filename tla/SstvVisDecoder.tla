---------------------------- MODULE SstvVisDecoder ----------------------------
(***************************************************************************)
(* The decoder of the VIS code, picture/sstv/vis_decoder.h: a machine that *)
(* is given the frequency of one sample after another and finds leader,    *)
(* break and leader tones, each long enough, then the edge of the start    *)
(* bit, and from there on samples one bit after another in its middle.     *)
(*                                                                         *)
(* The frequency is the settled one: the average over the last third of a  *)
(* bit is the frequency of the sample, and the two exponential averages of *)
(* the edge detector, which the code compares, have settled before a step, *)
(* so that their difference peaks at EdgeResponse percent of it.           *)
(***************************************************************************)
EXTENDS SstvEncoder, DigitalPLL

CONSTANTS
    SamplePeriod,           (* the time between two samples                *)
    TransitionDuration,     (* transition_in_milliseconds (4 ms)           *)
    VISDelay,               (* of the prefilter, in samples                *)
    UnitsPerMillisecond     (* units of time in a millisecond              *)

ASSUME DecoderAssumption ==
    /\ SamplePeriod \in Nat \ {0}
    /\ VISDelay \in Nat
    /\ UnitsPerMillisecond \in Nat \ {0}

FrequencyTolerance == 50
NearTo(center, frequency) ==
    frequency \in (center - FrequencyTolerance) .. (center + FrequencyTolerance)

(* edge_detector.h: the maximum of 0.975^n - 0.75^n is 0.72. *)
EdgeResponse == 72
Step(previous, frequency) == (EdgeResponse * (frequency - previous)) \div 100

(* MillisecondsToNumSamples rounds to the nearest number of samples. *)
NumSamples(duration) == (2 * duration + SamplePeriod) \div (2 * SamplePeriod)

NumExpectedLeaderToneSamples == NumSamples(LeaderDuration - TransitionDuration)
NumExpectedBreakToneSamples == NumSamples(BreakDuration - TransitionDuration)
NumTransitionSamples == NumSamples(2 * TransitionDuration)

VISEdgeThreshold == 180

(* GetDelayInMilliseconds is an int: the fraction of a millisecond is lost. *)
VISDelayDuration ==
    ((VISDelay * SamplePeriod) \div UnitsPerMillisecond) * UnitsPerMillisecond

NoCode == -1

VISInit ==
    [state |-> "WaitForLeaderToneAfterReset", samples |-> 0, leaders |-> 0,
     previous |-> 0, bits |-> 0, code |-> 0, ones |-> 0,
     skipNextBit |-> FALSE, pll |-> PLLReset]

VISReset(v) == [v EXCEPT !.state = "WaitForLeaderToneAfterReset", !.leaders = 0]

SwitchTo(v, state) == [v EXCEPT !.state = state, !.samples = 0]

SwitchToSampleCode(v) ==
    [SwitchTo(v, "SampleCode") EXCEPT !.skipNextBit = FALSE, !.bits = 0,
                                      !.code = 0, !.ones = 0,
                                      !.pll = PLLReset]

(* One more sample in a state that may last for a transition only. *)
WaitOneMoreSample(v) ==
    IF v.samples + 1 > NumTransitionSamples
    THEN [VISReset(v) EXCEPT !.samples = v.samples + 1]
    ELSE [v EXCEPT !.samples = @ + 1]

HandleWaitForLeaderToneAfterReset(v, frequency) ==
    IF NearTo(1900, frequency) THEN SwitchTo(v, "SampleLeaderTone")
                               ELSE VISReset(v)

HandleWaitForLeaderToneAfterBreak(v, frequency) ==
    IF NearTo(1900, frequency) THEN SwitchTo(v, "SampleLeaderTone")
                               ELSE WaitOneMoreSample(v)

HandleSampleLeaderTone(v, frequency) ==
    LET enough == v.samples + 1 >= NumExpectedLeaderToneSamples
        decoded == [v EXCEPT !.leaders = @ + 1]
    IN  IF ~NearTo(1900, frequency) THEN VISReset(v)
        ELSE IF ~enough THEN [v EXCEPT !.samples = @ + 1]
        ELSE IF decoded.leaders = 1 THEN SwitchTo(decoded, "WaitForBreakTone")
        ELSE SwitchTo(decoded, "WaitForLeaderToneEdge")

HandleWaitForBreakTone(v, frequency) ==
    IF NearTo(1200, frequency) THEN SwitchTo(v, "SampleBreakTone")
                               ELSE WaitOneMoreSample(v)

HandleSampleBreakTone(v, frequency) ==
    IF ~NearTo(1200, frequency) THEN VISReset(v)
    ELSE IF v.samples + 1 < NumExpectedBreakToneSamples
    THEN [v EXCEPT !.samples = @ + 1]
    ELSE SwitchTo(v, "WaitForLeaderToneAfterBreak")

HandleWaitForLeaderToneEdge(v, frequency) ==
    IF Step(v.previous, frequency) < -VISEdgeThreshold
    THEN SwitchToSampleCode(v)
    ELSE WaitOneMoreSample(v)

-------------------------------------------------------------------------------
(* The value of a bit, by the tone it is sampled in. *)
BitValue(frequency) ==
    CASE NearTo(1300, frequency) -> "zero"
      [] NearTo(1100, frequency) /\ ~NearTo(1300, frequency) -> "one"
      [] NearTo(1200, frequency) /\ ~NearTo(1300, frequency)
                                 /\ ~NearTo(1100, frequency) -> "startStop"
      [] OTHER -> "unknown"

StartBitSampled(v, value) == IF value = "startStop" THEN v ELSE VISReset(v)

(* Half a bit after the middle of the stop bit the decoding is done. *)
StopBitSampled(v, value) ==
    [IF value = "startStop" THEN v ELSE VISReset(v)
        EXCEPT !.skipNextBit = TRUE, !.pll = PLLReset]

(* Mutant: the parity is not compared. *)
ParityBitIgnored(v, value) == v

ParityBitSampled(v, value) ==
    IF v.ones % 2 = (IF value = "one" THEN 1 ELSE 0) THEN v ELSE VISReset(v)

CodeBitSampled(v, value) ==
    IF value = "one"
    THEN [v EXCEPT !.code = @ + 2 ^ (v.bits - 2), !.ones = @ + 1]
    ELSE v

BitSampled(v, value) ==
    LET counted == [v EXCEPT !.bits = @ + 1]
    IN  CASE counted.bits = 1 -> StartBitSampled(counted, value)
          [] counted.bits = 10 -> StopBitSampled(counted, value)
          [] counted.bits \in 2 .. 9 /\ value \notin {"zero", "one"} -> counted
          [] counted.bits = 9 /\ value \in {"zero", "one"} ->
                ParityBitSampled(counted, value)
          [] OTHER -> CodeBitSampled(counted, value)

(* The PLL sees no transitions here: it free-runs from the edge. *)
PLLAdvance == AdvancePerSample(SamplePeriod, BitDuration)
BitIsDue(v) == PLLSamples(v.pll, PLLAdvance)

HandleSampleCode(v, frequency) ==
    LET clocked == [v EXCEPT !.pll = PLLAfter(v.pll, PLLAdvance, 75, 0)]
    IN  IF ~BitIsDue(v) THEN clocked
        ELSE IF v.skipNextBit THEN VISReset(clocked)
        ELSE BitSampled(clocked, BitValue(frequency))

(* PushFrequencySampleToMachine: the decoder after a sample ... *)
VISAfter(v, frequency) ==
    LET after ==
          CASE v.state = "WaitForLeaderToneAfterReset" ->
                  HandleWaitForLeaderToneAfterReset(v, frequency)
            [] v.state = "WaitForLeaderToneAfterBreak" ->
                  HandleWaitForLeaderToneAfterBreak(v, frequency)
            [] v.state = "SampleLeaderTone" ->
                  HandleSampleLeaderTone(v, frequency)
            [] v.state = "WaitForBreakTone" ->
                  HandleWaitForBreakTone(v, frequency)
            [] v.state = "SampleBreakTone" ->
                  HandleSampleBreakTone(v, frequency)
            [] v.state = "WaitForLeaderToneEdge" ->
                  HandleWaitForLeaderToneEdge(v, frequency)
            [] v.state = "SampleCode" -> HandleSampleCode(v, frequency)
    IN  [after EXCEPT !.previous = frequency]

(* ... and the code that the sample completes, if it does. *)
VISResult(v) ==
    IF v.state = "SampleCode" /\ v.skipNextBit /\ BitIsDue(v)
    THEN v.code ELSE NoCode
===============================================================================
