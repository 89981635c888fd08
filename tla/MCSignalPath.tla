------------------------------ MODULE MCSignalPath -----------------------------
(* A small instance of SignalPath for TLC. The options differ in modulation, *)
(* in the ratio of every decimator, and in whether the AGC is enabled.       *)
EXTENDS SignalPath

CONSTANTS c1, c2, radio_thread, nobody

Narrow == [input_rate |-> 12, audio_rate |-> 4, bandwidth |-> 1,
           modulation |-> "NFM", agc |-> TRUE]
Wide == [input_rate |-> 24, audio_rate |-> 2, bandwidth |-> 9,
         modulation |-> "WFM", agc |-> FALSE]

TwoOptions == {Narrow, Wide}
================================================================================
