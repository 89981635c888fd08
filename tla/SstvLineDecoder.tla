--------------------------- MODULE SstvLineDecoder ----------------------------
(***************************************************************************)
(* The decoder of the picture: picture/sstv/line_sync.h, which looks for   *)
(* the pulse and the edge that begin a line, and line_decoder.h, which     *)
(* samples one pixel after another by the clock of the line.  The luma of  *)
(* a pixel is represented by the tone of the transmission that it was      *)
(* sampled in, and a pixel of a row by the three lumas it is made of.      *)
(***************************************************************************)
EXTENDS SstvVisDecoder

LineSyncRisingThreshold == 80
LineSyncFallingThreshold == 30

(* LineSync is configured for the mode given in the options and keeps it. *)
NumExpectedSyncSamples(mode) ==
    NumSamples(Modes[mode].sync - TransitionDuration)

SyncInit == [state |-> "WaitForTone", samples |-> 0, previous |-> 0]

SyncReset(s) == [s EXCEPT !.state = "WaitForTone"]

HandleWaitForTone(s, frequency) ==
    IF NearTo(LineSyncFrequency, frequency)
    THEN [s EXCEPT !.state = "SampleTone", !.samples = 0]
    ELSE s

HandleSyncSampleTone(s, mode, frequency) ==
    IF ~NearTo(LineSyncFrequency, frequency) THEN SyncReset(s)
    ELSE IF s.samples < NumExpectedSyncSamples(mode)
    THEN [s EXCEPT !.samples = @ + 1]
    ELSE [s EXCEPT !.state = "WaitForEdge"]

FallingEdge(s, frequency) ==
    Step(s.previous, frequency) < -LineSyncFallingThreshold
RisingEdge(s, frequency) ==
    Step(s.previous, frequency) > LineSyncRisingThreshold

HandleWaitForEdge(s, frequency) ==
    IF FallingEdge(s, frequency) \/ RisingEdge(s, frequency)
    THEN SyncReset(s)
    ELSE s

SyncAfter(s, mode, frequency) ==
    LET after ==
          CASE s.state = "WaitForTone" -> HandleWaitForTone(s, frequency)
            [] s.state = "SampleTone" ->
                  HandleSyncSampleTone(s, mode, frequency)
            [] s.state = "WaitForEdge" -> HandleWaitForEdge(s, frequency)
    IN  [after EXCEPT !.previous = frequency]

(* The callback is invoked for this sample. *)
SyncDetected(s, frequency) ==
    /\ s.state = "WaitForEdge"
    /\ RisingEdge(s, frequency)

-------------------------------------------------------------------------------
(* The entries of DecodedVariant. *)
DecodedVISCode(code) == [what |-> "vis", code |-> code]
LineSynchronization == [what |-> "sync"]
ImagePixelsBegin(mode) == [what |-> "begin", mode |-> mode]
ImagePixelsRow(pixels) == [what |-> "row", pixels |-> pixels]
ImagePixelsEnd == [what |-> "end"]

TotalSynchronizationTime(mode) == Modes[mode].sync + Modes[mode].porch
TotalLineTime(mode) ==
    TotalSynchronizationTime(mode) + PixelsPerLine(mode) * Modes[mode].pixel

(* A line goes on for at least a sample after its pulse: the time between  *)
(* two samples is that of a fraction of a pixel.                           *)
ASSUME LineAssumption ==
    \A mode \in DOMAIN Modes :
        Modes[mode].sync + SamplePeriod <= TotalLineTime(mode)

(* The time in the line at which the pixel after k of them is sampled. *)
PixelSampleTime(mode, k) ==
    TotalSynchronizationTime(mode) + (k + 1) * Modes[mode].pixel

NoTone == 0

LineInit(mode) ==
    [state |-> "WaitForSyncEvent", mode |-> mode, samples |-> 0, offset |-> 0,
     lines |-> 0, started |-> FALSE, pixels |-> 0,
     luma |-> [k \in 0 .. PixelsPerLine(mode) - 1 |-> NoTone]]

LineReset(l) == [l EXCEPT !.state = "WaitForSyncEvent"]

(* Mutant: the samples of the interrupted line stay counted. *)
SwitchWithoutReset(l, offset) ==
    [l EXCEPT !.state = "DecodeLine",
              !.lines = IF l.state = "WaitForSyncEvent" THEN 0 ELSE @,
              !.offset = offset]

(* A synchronisation in the middle of a picture restarts its line; one     *)
(* that finds no picture begins one.                                       *)
SwitchOrSyncToDecodeLine(l, offset) ==
    [l EXCEPT !.state = "DecodeLine",
              !.lines = IF l.state = "WaitForSyncEvent" THEN 0 ELSE @,
              !.offset = offset, !.samples = 0, !.started = FALSE]

(* SetMode: the storage of the pixels is that of the longest line of all   *)
(* modes, of which a mode uses its own.                                    *)
SetMode(l, mode) ==
    [l EXCEPT !.mode = mode,
              !.luma = [k \in 0 .. PixelsPerLine(mode) - 1 |->
                           IF k \in DOMAIN l.luma THEN l.luma[k] ELSE NoTone]]

(* Mutant: a picture that is being decoded goes on. *)
SwitchWithinPicture(l, mode, offset) ==
    SwitchOrSyncToDecodeLine(SetMode(l, mode), offset)

SwitchToPictureDecoding(l, mode, offset) ==
    SwitchOrSyncToDecodeLine(LineReset(SetMode(l, mode)), offset)

OnVerticalSync(l, code, offset) ==
    IF GetModeFromVISCode(code) = Unknown THEN l
    ELSE SwitchToPictureDecoding(l, GetModeFromVISCode(code), offset)

(* Mutant: a line is taken to begin at the end of its synchronisation. *)
OnLineSyncAtStart(l) == SwitchOrSyncToDecodeLine(l, 0)

OnLineSync(l) == SwitchOrSyncToDecodeLine(l, Modes[l.mode].sync)

(* The time since the beginning of the line, at the end of a sample. *)
LineTime(l) == l.offset + SamplePeriod * l.samples

(* A sample in the line: the end of the porch starts the pixels, and then  *)
(* every pixel is sampled at its trailing edge, one in a sample at most.   *)
PixelSampled(l, tone) ==
    IF l.started
    THEN IF /\ l.pixels < PixelsPerLine(l.mode)
            /\ LineTime(l) >= PixelSampleTime(l.mode, l.pixels)
         THEN [l EXCEPT !.luma[l.pixels] = tone, !.pixels = @ + 1]
         ELSE l
    ELSE IF LineTime(l) >= TotalSynchronizationTime(l.mode)
         THEN [l EXCEPT !.started = TRUE, !.pixels = 0]
         ELSE l

LineIsComplete(l) == LineTime(l) > TotalLineTime(l.mode)

(* Mutant: the line that was just decoded is not counted. *)
PictureWasComplete(l) == l.lines = NumLines(l.mode)

PictureIsComplete(l) == l.lines + 1 = NumLines(l.mode)

(* Mutant: what is left of the time of the line is dropped. *)
NextLineAfresh(l) ==
    [l EXCEPT !.lines = @ + 1, !.samples = 0, !.started = FALSE,
              !.offset = 0]

(* What is left of the time of this line belongs to the next one. *)
NextLine(l) ==
    [l EXCEPT !.lines = @ + 1, !.samples = 0, !.started = FALSE,
              !.offset = LineTime(l) - TotalLineTime(l.mode)]

(* DecodeYCbCrAverageCrRb: the two rows of a line share their colours. *)
Row(l, luminance) ==
    LET width == Modes[l.mode].width
    IN  [x \in 0 .. width - 1 |->
            [y  |-> l.luma[x + width * luminance],
             cb |-> l.luma[x + width * 2],
             cr |-> l.luma[x + width * 1]]]

DecodePixelLuma(l) ==
    <<ImagePixelsRow(Row(l, 0)), ImagePixelsRow(Row(l, 3))>>

(* The line decoder with this sample counted and looked at. *)
Sampled(l, tone) == PixelSampled([l EXCEPT !.samples = @ + 1], tone)

LineAfter(l, tone) ==
    IF l.state = "WaitForSyncEvent" THEN l
    ELSE LET sampled == Sampled(l, tone)
         IN  IF ~LineIsComplete(sampled) THEN sampled
             ELSE IF PictureIsComplete(sampled)
             THEN LineReset([sampled EXCEPT !.lines = @ + 1])
             ELSE NextLine(sampled)

LineResult(l, tone) ==
    LET sampled == Sampled(l, tone)
    IN  IF l.state = "WaitForSyncEvent" \/ ~LineIsComplete(sampled) THEN <<>>
        ELSE (IF l.lines = 0 THEN <<ImagePixelsBegin(l.mode)>> ELSE <<>>)
             \o DecodePixelLuma(sampled)
             \o (IF PictureIsComplete(sampled) THEN <<ImagePixelsEnd>>
                                               ELSE <<>>)
===============================================================================
