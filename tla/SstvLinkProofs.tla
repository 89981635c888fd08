----------------------------- MODULE SstvLinkProofs ----------------------------
(***************************************************************************)
(* Proofs about SstvLink, for any modes, transmission and fault: what the  *)
(* decoder returns for a sample fits its storage, and the rows that are    *)
(* copied into an image fit the image.  The inductive invariant is LinkInv. *)
(***************************************************************************)
EXTENDS SstvLink, FoldProofs, SequenceTheorems

--------------------------------------------------------------------------------
(* The line decoder.                                                        *)

LineTypes(l) ==
  l \in [state : {"WaitForSyncEvent", "DecodeLine"}, mode : DOMAIN Modes,
         samples : Nat, offset : Nat, lines : Nat, started : BOOLEAN, pixels : Nat,
         luma : [0 .. PixelsPerLine(l.mode) - 1 -> Nat]]

\* The line decoder l is where the image of the receiver r says.
Counted(l, r) ==
  l.state = "DecodeLine" =>
    /\ l.lines < NumLines(l.mode)
    /\ l.lines > 0 => r.mode = l.mode /\ Len(r.rows) = 2 * l.lines

\* The sizes of a mode.
LEMMA ModeSizes ==
  ASSUME NEW mode \in DOMAIN Modes
  PROVE  /\ Modes[mode].width \in Nat /\ Modes[mode].height \in Nat
         /\ Modes[mode].sync \in Nat /\ TotalLineTime(mode) \in Nat
         /\ PixelsPerLine(mode) \in Nat /\ PixelsPerLine(mode) = 4 * Modes[mode].width
         /\ NumLines(mode) \in Nat /\ NumLines(mode) >= 2
         /\ 2 * NumLines(mode) <= Modes[mode].height
  <1>1. /\ Modes[mode].width \in Nat /\ Modes[mode].height \in Nat
        /\ Modes[mode].sync \in Nat /\ Modes[mode].porch \in Nat /\ Modes[mode].pixel \in Nat
        /\ Modes[mode].height >= 4
    BY ModesAssumption DEF ModeSpec
  <1>2. PixelsPerLine(mode) \in Nat /\ PixelsPerLine(mode) = 4 * Modes[mode].width
    BY <1>1 DEF PixelsPerLine
  <1>3. NumLines(mode) \in Nat /\ NumLines(mode) >= 2 /\ 2 * NumLines(mode) <= Modes[mode].height
    BY <1>1 DEF NumLines
  <1>4. PixelsPerLine(mode) * Modes[mode].pixel \in Nat
    BY <1>1, <1>2
  <1>5. TotalLineTime(mode) \in Nat
    BY <1>1, <1>4 DEF TotalLineTime, TotalSynchronizationTime
  <1> QED
    BY <1>1, <1>2, <1>3, <1>5

\* A line makes rows of the width of its mode.
LEMMA RowTyped ==
  ASSUME NEW l, LineTypes(l)
  PROVE  Row(l, 0) \in RowsOf(l.mode) /\ Row(l, 3) \in RowsOf(l.mode)
  <1> DEFINE width == Modes[l.mode].width
  <1>1. /\ width \in Nat /\ PixelsPerLine(l.mode) = 4 * width
        /\ l.luma \in [0 .. PixelsPerLine(l.mode) - 1 -> Nat]
    BY ModeSizes DEF LineTypes
  <1>2. ASSUME NEW x \in 0 .. width - 1
        PROVE  /\ l.luma[x + width * 0] \in Nat /\ l.luma[x + width * 1] \in Nat
               /\ l.luma[x + width * 2] \in Nat /\ l.luma[x + width * 3] \in Nat
    <2>1. /\ x + width * 0 \in 0 .. 4 * width - 1 /\ x + width * 1 \in 0 .. 4 * width - 1
          /\ x + width * 2 \in 0 .. 4 * width - 1 /\ x + width * 3 \in 0 .. 4 * width - 1
      <3> HIDE DEF width
      <3>1. x \in Nat /\ x <= width - 1
        BY <1>1
      <3>2. width * 0 = 0 /\ width * 1 = width /\ width * 2 = 2 * width /\ width * 3 = 3 * width
        BY <1>1
      <3> QED
        BY <1>1, <3>1, <3>2
    <2> HIDE DEF width
    <2> QED
      BY <1>1, <2>1
  <1> QED
    BY <1>2 DEF Row, RowsOf, Pixel

\* A synchronisation restarts the line at the end of its pulse, and counts from
\* the first line when no picture is being decoded.
LEMMA LineSyncEffect ==
  ASSUME NEW l, LineTypes(l)
  PROVE  /\ LineTypes(OnLineSync(l))
         /\ OnLineSync(l).state = "DecodeLine" /\ OnLineSync(l).mode = l.mode
         /\ OnLineSync(l).samples = 0 /\ OnLineSync(l).offset = Modes[l.mode].sync
         /\ OnLineSync(l).lines = IF l.state = "WaitForSyncEvent" THEN 0 ELSE l.lines
  <1>1. l.mode \in DOMAIN Modes
    BY DEF LineTypes
  <1>2. Modes[l.mode].sync \in Nat
    BY <1>1, ModeSizes
  <1> QED
    BY <1>2 DEF LineTypes, OnLineSync, SwitchOrSyncToDecodeLine

\* A VIS code begins with the first line of its mode, when it has one.
LEMMA VerticalSyncEffect ==
  ASSUME NEW l, LineTypes(l), NEW code, NEW offset \in Nat
  PROVE  /\ LineTypes(OnVerticalSync(l, code, offset))
         /\ \/ OnVerticalSync(l, code, offset) = l
            \/ /\ OnVerticalSync(l, code, offset).state = "DecodeLine"
               /\ OnVerticalSync(l, code, offset).lines = 0
  <1>1. CASE GetModeFromVISCode(code) = Unknown
    BY <1>1 DEF OnVerticalSync
  <1>2. CASE GetModeFromVISCode(code) # Unknown
    <2> DEFINE m == SetMode(l, code)
               r == LineReset(m)
    <2>1. code \in DOMAIN Modes /\ GetModeFromVISCode(code) = code
      BY <1>2 DEF GetModeFromVISCode
    <2>2. OnVerticalSync(l, code, offset) = SwitchOrSyncToDecodeLine(r, offset)
      BY <1>2, <2>1 DEF OnVerticalSync, SwitchToPictureDecoding
    <2>3. LineTypes(m)
      <3>1. l.luma \in [0 .. PixelsPerLine(l.mode) - 1 -> Nat]
        BY DEF LineTypes
      <3>2. [k \in 0 .. PixelsPerLine(code) - 1 |->
               IF k \in DOMAIN l.luma THEN l.luma[k] ELSE NoTone]
              \in [0 .. PixelsPerLine(code) - 1 -> Nat]
        BY <3>1 DEF NoTone
      <3> QED
        BY <2>1, <3>2 DEF LineTypes, SetMode
    <2>4. LineTypes(r) /\ r.state = "WaitForSyncEvent"
      <3> HIDE DEF m
      <3> QED
        BY <2>3 DEF LineTypes, LineReset
    <2> HIDE DEF r
    <2>5. /\ LineTypes(SwitchOrSyncToDecodeLine(r, offset))
          /\ SwitchOrSyncToDecodeLine(r, offset).state = "DecodeLine"
          /\ SwitchOrSyncToDecodeLine(r, offset).lines = 0
      BY <2>4 DEF LineTypes, SwitchOrSyncToDecodeLine
    <2> QED
      BY <2>2, <2>5
  <1> QED
    BY <1>1, <1>2

\* A sample is counted, and may store a pixel.
LEMMA SampledEffect ==
  ASSUME NEW l, LineTypes(l), NEW t \in Nat
  PROVE  /\ LineTypes(Sampled(l, t))
         /\ Sampled(l, t).state = l.state /\ Sampled(l, t).mode = l.mode
         /\ Sampled(l, t).lines = l.lines /\ Sampled(l, t).offset = l.offset
         /\ Sampled(l, t).samples = l.samples + 1
  <1> DEFINE s == [l EXCEPT !.samples = @ + 1]
  <1>1. /\ LineTypes(s) /\ s.state = l.state /\ s.mode = l.mode /\ s.lines = l.lines
        /\ s.offset = l.offset /\ s.samples = l.samples + 1
    BY DEF LineTypes
  <1>2. Sampled(l, t) = PixelSampled(s, t)
    BY DEF Sampled
  <1> HIDE DEF s
  <1>3. \/ PixelSampled(s, t) = s
        \/ /\ PixelSampled(s, t) = [s EXCEPT !.luma[s.pixels] = t, !.pixels = @ + 1]
           /\ s.pixels < PixelsPerLine(s.mode)
        \/ PixelSampled(s, t) = [s EXCEPT !.started = TRUE, !.pixels = 0]
    BY DEF PixelSampled
  <1> DEFINE p == PixelSampled(s, t)
  <1>4. /\ LineTypes(p) /\ p.state = s.state /\ p.mode = s.mode /\ p.lines = s.lines
        /\ p.offset = s.offset /\ p.samples = s.samples
    <2> HIDE DEF p
    <2>1. CASE p = s
      BY <1>1, <2>1
    <2>2. CASE /\ p = [s EXCEPT !.luma[s.pixels] = t, !.pixels = @ + 1]
               /\ s.pixels < PixelsPerLine(s.mode)
      <3> DEFINE luma == [s.luma EXCEPT ![s.pixels] = t]
      <3>1. luma \in [0 .. PixelsPerLine(s.mode) - 1 -> Nat]
        BY <1>1 DEF LineTypes
      <3>2. p = [s EXCEPT !.luma = luma, !.pixels = s.pixels + 1]
        BY <1>1, <2>2 DEF LineTypes
      <3> HIDE DEF luma
      <3>3. /\ p.state = s.state /\ p.mode = s.mode /\ p.lines = s.lines
            /\ p.offset = s.offset /\ p.samples = s.samples /\ s.pixels \in Nat
        BY <1>1, <3>2 DEF LineTypes
      <3>4. /\ s.state \in {"WaitForSyncEvent", "DecodeLine"} /\ s.mode \in DOMAIN Modes
            /\ s.samples \in Nat /\ s.offset \in Nat /\ s.lines \in Nat
            /\ s.started \in BOOLEAN
        BY <1>1 DEF LineTypes
      <3>5. p = [state |-> s.state, mode |-> s.mode, samples |-> s.samples,
                 offset |-> s.offset, lines |-> s.lines, started |-> s.started,
                 pixels |-> s.pixels + 1, luma |-> luma]
        BY <1>1, <3>2 DEF LineTypes
      <3> QED
        BY <3>1, <3>3, <3>4, <3>5 DEF LineTypes
    <2>3. CASE p = [s EXCEPT !.started = TRUE, !.pixels = 0]
      BY <1>1, <2>3 DEF LineTypes
    <2> QED
      BY <1>3, <2>1, <2>2, <2>3 DEF p
  <1> QED
    BY <1>1, <1>2, <1>4

\* A line decoder that goes on elsewhere keeps the types.
LEMMA LineMoves ==
  ASSUME NEW l, LineTypes(l), NEW state \in {"WaitForSyncEvent", "DecodeLine"},
         NEW samples \in Nat, NEW offset \in Nat, NEW lines \in Nat, NEW started \in BOOLEAN,
         NEW p, p = [state |-> state, mode |-> l.mode, samples |-> samples,
                     offset |-> offset, lines |-> lines, started |-> started,
                     pixels |-> l.pixels, luma |-> l.luma]
  PROVE  LineTypes(p) /\ p.mode = l.mode /\ p.lines = lines /\ p.state = state
  <1>1. /\ l.mode \in DOMAIN Modes /\ l.pixels \in Nat
        /\ l.luma \in [0 .. PixelsPerLine(l.mode) - 1 -> Nat]
    BY DEF LineTypes
  <1>2. p.mode = l.mode /\ p.lines = lines /\ p.state = state
    OBVIOUS
  <1> QED
    BY <1>1, <1>2 DEF LineTypes

\* What a line that is complete is returned as.
LineEntries(l, r0, r1) ==
  (IF l.lines = 0 THEN <<ImagePixelsBegin(l.mode)>> ELSE <<>>)
  \o <<ImagePixelsRow(r0), ImagePixelsRow(r1)>>
  \o (IF l.lines + 1 = NumLines(l.mode) THEN <<ImagePixelsEnd>> ELSE <<>>)

\* A sample either completes the line, which makes two rows of it and goes on
\* to the next one, or it returns nothing.
LEMMA LineEffect ==
  ASSUME NEW l, LineTypes(l), NEW t \in Nat, l.state = "DecodeLine"
  PROVE  /\ LineTypes(LineAfter(l, t)) /\ LineAfter(l, t).mode = l.mode
         /\ \/ /\ LineResult(l, t) = <<>>
               /\ LineAfter(l, t).state = "DecodeLine" /\ LineAfter(l, t).lines = l.lines
            \/ /\ \E r0, r1 \in RowsOf(l.mode) : LineResult(l, t) = LineEntries(l, r0, r1)
               /\ LineAfter(l, t).lines = l.lines + 1
               /\ LineAfter(l, t).state = IF l.lines + 1 = NumLines(l.mode)
                                            THEN "WaitForSyncEvent" ELSE "DecodeLine"
  <1> DEFINE s == Sampled(l, t)
  <1>1. /\ LineTypes(s) /\ s.state = l.state /\ s.mode = l.mode /\ s.lines = l.lines
    BY SampledEffect
  <1>2. /\ LineAfter(l, t) = IF ~LineIsComplete(s) THEN s
                             ELSE IF PictureIsComplete(s)
                             THEN LineReset([s EXCEPT !.lines = @ + 1])
                             ELSE NextLine(s)
        /\ LineResult(l, t) = IF ~LineIsComplete(s) THEN <<>>
                              ELSE (IF l.lines = 0 THEN <<ImagePixelsBegin(l.mode)>> ELSE <<>>)
                                   \o DecodePixelLuma(s)
                                   \o (IF PictureIsComplete(s) THEN <<ImagePixelsEnd>> ELSE <<>>)
    BY DEF LineAfter, LineResult
  <1> HIDE DEF s
  <1>3. CASE ~LineIsComplete(s)
    BY <1>1, <1>2, <1>3
  <1>4. CASE LineIsComplete(s)
    <2>1. PictureIsComplete(s) <=> l.lines + 1 = NumLines(l.mode)
      BY <1>1 DEF PictureIsComplete
    <2>2. Row(s, 0) \in RowsOf(l.mode) /\ Row(s, 3) \in RowsOf(l.mode)
      BY <1>1, RowTyped
    <2>3. DecodePixelLuma(s) = <<ImagePixelsRow(Row(s, 0)), ImagePixelsRow(Row(s, 3))>>
      BY DEF DecodePixelLuma
    <2>4. LineResult(l, t) = LineEntries(l, Row(s, 0), Row(s, 3))
      BY <1>2, <1>4, <2>1, <2>3, Zenon DEF LineEntries
    <2>5. CASE PictureIsComplete(s)
      <3>1. LineAfter(l, t) = LineReset([s EXCEPT !.lines = @ + 1])
        BY <1>2, <1>4, <2>5
      <3>2. /\ LineTypes(LineAfter(l, t)) /\ LineAfter(l, t).mode = l.mode
            /\ LineAfter(l, t).lines = l.lines + 1
            /\ LineAfter(l, t).state = "WaitForSyncEvent"
        <4>1. LineAfter(l, t) =
                [state |-> "WaitForSyncEvent", mode |-> s.mode, samples |-> s.samples,
                 offset |-> s.offset, lines |-> s.lines + 1, started |-> s.started,
                 pixels |-> s.pixels, luma |-> s.luma]
          BY <1>1, <3>1 DEF LineTypes, LineReset
        <4>2. /\ s.samples \in Nat /\ s.offset \in Nat /\ s.lines + 1 \in Nat
              /\ s.started \in BOOLEAN
          BY <1>1 DEF LineTypes
        <4> QED
          BY <1>1, <4>1, <4>2, LineMoves
      <3> QED
        BY <2>1, <2>2, <2>4, <2>5, <3>2
    <2>6. CASE ~PictureIsComplete(s)
      <3> DEFINE rest == LineTime(s) - TotalLineTime(s.mode)
      <3>1. LineAfter(l, t) = NextLine(s)
        BY <1>2, <1>4, <2>6
      <3>2. rest \in Nat
        <4>1. SamplePeriod \in Nat /\ s.offset \in Nat /\ s.samples \in Nat /\ s.mode \in DOMAIN Modes
          BY <1>1, DecoderAssumption DEF LineTypes
        <4>2. SamplePeriod * s.samples \in Nat /\ TotalLineTime(s.mode) \in Nat
          BY <4>1, ModeSizes
        <4>3. LineTime(s) \in Nat /\ LineTime(s) > TotalLineTime(s.mode)
          BY <1>4, <4>1, <4>2 DEF LineTime, LineIsComplete
        <4> QED
          BY <4>2, <4>3
      <3>3. NextLine(s) = [s EXCEPT !.lines = @ + 1, !.samples = 0, !.started = FALSE,
                                    !.offset = rest]
        BY DEF NextLine
      <3> HIDE DEF rest
      <3>4. /\ LineTypes(LineAfter(l, t)) /\ LineAfter(l, t).mode = l.mode
            /\ LineAfter(l, t).lines = l.lines + 1
            /\ LineAfter(l, t).state = "DecodeLine"
        <4> DEFINE none == 0
                   off == FALSE
                   goesOn == "DecodeLine"
        <4>1. s.lines + 1 \in Nat /\ s.state = goesOn
          BY <1>1 DEF LineTypes
        <4>2. LineAfter(l, t) =
                [state |-> goesOn, mode |-> s.mode, samples |-> none,
                 offset |-> rest, lines |-> s.lines + 1, started |-> off,
                 pixels |-> s.pixels, luma |-> s.luma]
          BY <1>1, <3>1, <3>3, <4>1 DEF LineTypes
        <4>3. none \in Nat /\ off \in BOOLEAN /\ goesOn \in {"WaitForSyncEvent", "DecodeLine"}
          OBVIOUS
        <4> HIDE DEF none, off, goesOn
        <4>4. /\ LineTypes(LineAfter(l, t)) /\ LineAfter(l, t).mode = s.mode
              /\ LineAfter(l, t).lines = s.lines + 1
              /\ LineAfter(l, t).state = goesOn
          BY <1>1, <3>2, <4>1, <4>2, <4>3, LineMoves
        <4> QED
          BY <1>1, <4>4 DEF goesOn
      <3> QED
        BY <2>1, <2>2, <2>4, <2>6, <3>4
    <2> QED
      BY <2>5, <2>6
  <1> QED
    BY <1>3, <1>4

\* Without a picture nothing is decoded.
LEMMA WaitingLine ==
  ASSUME NEW l, l.state = "WaitForSyncEvent", NEW t
  PROVE  LineAfter(l, t) = l /\ LineResult(l, t) = <<>>
  BY DEF LineAfter, LineResult

\* The sample that restarts a line does not complete it.
LEMMA RestartedLine ==
  ASSUME NEW l, LineTypes(l), NEW t \in Nat, l.samples = 0, l.offset = Modes[l.mode].sync
  PROVE  LineResult(l, t) = <<>>
  <1> DEFINE s == Sampled(l, t)
  <1>1. s.mode = l.mode /\ s.samples = 1 /\ s.offset = Modes[l.mode].sync /\ l.mode \in DOMAIN Modes
    <2>1. s.mode = l.mode /\ s.offset = l.offset /\ s.samples = l.samples + 1
      BY SampledEffect
    <2> HIDE DEF s
    <2> QED
      BY <2>1 DEF LineTypes
  <1> HIDE DEF s
  <1>2. /\ Modes[l.mode].sync + SamplePeriod <= TotalLineTime(l.mode)
        /\ SamplePeriod \in Nat /\ Modes[l.mode].sync \in Nat /\ TotalLineTime(l.mode) \in Nat
    BY <1>1, LineAssumption, DecoderAssumption, ModeSizes
  <1>3. LineTime(s) = Modes[l.mode].sync + SamplePeriod
    BY <1>1, <1>2 DEF LineTime
  <1>4. ~LineIsComplete(s)
    BY <1>1, <1>2, <1>3 DEF LineIsComplete
  <1> QED
    BY <1>4 DEF LineResult, s
--------------------------------------------------------------------------------
(* The processor of the results.                                            *)

\* Its states, and what it is given, without a look at the widths of the rows.
AnyRow == UNION {RowsOf(mode) : mode \in DOMAIN Modes}
Receivers == [decoding : BOOLEAN, mode : DOMAIN Modes, rows : Seq(AnyRow)]
AnyImage == [number : Nat, mode : DOMAIN Modes, rows : Seq(AnyRow)]
Processors == [receiver : Receivers, files : Seq(AnyImage)]
Entry(e) ==
  \/ \E code : e = DecodedVISCode(code)
  \/ e = LineSynchronization
  \/ \E mode \in DOMAIN Modes : e = ImagePixelsBegin(mode)
  \/ \E pixels \in AnyRow : e = ImagePixelsRow(pixels)
  \/ e = ImagePixelsEnd

\* What it does for each kind of entry.
LEMMA ProcessKinds ==
  ASSUME NEW p
  PROVE  /\ \A code : Process(p, DecodedVISCode(code)) = p
         /\ Process(p, LineSynchronization) = p
         /\ \A mode : Process(p, ImagePixelsBegin(mode)) = BeginImage(EndImage(p), mode)
         /\ \A pixels : Process(p, ImagePixelsRow(pixels)) = AppendImageRow(p, pixels)
         /\ Process(p, ImagePixelsEnd) = EndImage(p)
  BY DEF Process, DecodedVISCode, LineSynchronization, ImagePixelsBegin, ImagePixelsRow,
         ImagePixelsEnd

LEMMA EndImageTyped ==
  ASSUME NEW p \in Processors
  PROVE  /\ EndImage(p) \in Processors
         /\ EndImage(p).receiver.mode = p.receiver.mode
         /\ EndImage(p).receiver.rows = p.receiver.rows
  <1> DEFINE image == [number |-> NumDecodedImages + 1, mode |-> p.receiver.mode,
                       rows |-> p.receiver.rows]
             ended == [p.receiver EXCEPT !.decoding = FALSE]
  <1>1. p.receiver \in Receivers /\ p.files \in Seq(AnyImage)
    BY DEF Processors
  <1>2. image \in AnyImage
    BY <1>1 DEF Receivers, AnyImage, NumDecodedImages
  <1>3. ended \in Receivers /\ ended.mode = p.receiver.mode /\ ended.rows = p.receiver.rows
    BY <1>1 DEF Receivers
  <1>4. EndImage(p) = IF ~p.receiver.decoding THEN p
                      ELSE [receiver |-> ended, files |-> Append(p.files, image)]
    BY DEF EndImage
  <1> HIDE DEF image, ended
  <1>5. Append(p.files, image) \in Seq(AnyImage)
    BY <1>1, <1>2
  <1> QED
    BY <1>3, <1>4, <1>5 DEF Processors

LEMMA BeginImageTyped ==
  ASSUME NEW p \in Processors, NEW mode \in DOMAIN Modes
  PROVE  /\ BeginImage(p, mode) \in Processors /\ BeginImage(p, mode).files = p.files
         /\ BeginImage(p, mode).receiver.mode = mode
         /\ BeginImage(p, mode).receiver.rows = <<>>
  <1> DEFINE empty == [decoding |-> TRUE, mode |-> mode, rows |-> <<>>]
  <1>1. p.files \in Seq(AnyImage)
    BY DEF Processors
  <1>2. empty \in Receivers /\ empty.mode = mode /\ empty.rows = <<>>
    BY DEF Receivers
  <1>3. BeginImage(p, mode) = [p EXCEPT !.receiver = empty]
    BY DEF BeginImage
  <1> HIDE DEF empty
  <1>4. BeginImage(p, mode) = [receiver |-> empty, files |-> p.files]
    BY <1>3 DEF Processors
  <1> QED
    BY <1>1, <1>2, <1>4 DEF Processors

LEMMA AppendRowTyped ==
  ASSUME NEW p \in Processors, NEW pixels \in AnyRow
  PROVE  /\ AppendImageRow(p, pixels) \in Processors
         /\ AppendImageRow(p, pixels).files = p.files
         /\ AppendImageRow(p, pixels).receiver.mode = p.receiver.mode
         /\ AppendImageRow(p, pixels).receiver.rows = Append(p.receiver.rows, pixels)
  <1> DEFINE rows == Append(p.receiver.rows, pixels)
             longer == [decoding |-> p.receiver.decoding, mode |-> p.receiver.mode,
                        rows |-> rows]
  <1>1. p.receiver \in Receivers /\ p.files \in Seq(AnyImage)
    BY DEF Processors
  <1>2. p.receiver.rows \in Seq(AnyRow)
    BY <1>1 DEF Receivers
  <1>3. rows \in Seq(AnyRow)
    BY <1>2
  <1>4. AppendImageRow(p, pixels) = [receiver |-> longer, files |-> p.files]
    <2>1. AppendImageRow(p, pixels) = [p EXCEPT !.receiver = [p.receiver EXCEPT !.rows = rows]]
      BY DEF AppendImageRow, Processors
    <2> HIDE DEF rows
    <2>2. [p.receiver EXCEPT !.rows = rows] = longer
      BY <1>1 DEF Receivers
    <2> HIDE DEF longer
    <2> QED
      BY <2>1, <2>2 DEF Processors
  <1> HIDE DEF rows
  <1>5. longer \in Receivers
    BY <1>1, <1>3 DEF Receivers
  <1> HIDE DEF longer
  <1>6. longer.mode = p.receiver.mode /\ longer.rows = rows
    BY DEF longer
  <1> QED
    BY <1>1, <1>4, <1>5, <1>6 DEF Processors, rows

LEMMA ProcessTyped ==
  ASSUME NEW p \in Processors, NEW e, Entry(e)
  PROVE  Process(p, e) \in Processors
  <1>1. ASSUME NEW code, e = DecodedVISCode(code) PROVE Process(p, e) \in Processors
    BY <1>1, ProcessKinds
  <1>2. CASE e = LineSynchronization
    BY <1>2, ProcessKinds
  <1>3. ASSUME NEW mode \in DOMAIN Modes, e = ImagePixelsBegin(mode)
        PROVE  Process(p, e) \in Processors
    <2>1. Process(p, e) = BeginImage(EndImage(p), mode)
      BY <1>3, ProcessKinds
    <2>2. EndImage(p) \in Processors
      BY EndImageTyped
    <2> QED
      BY <2>1, <2>2, BeginImageTyped
  <1>4. ASSUME NEW pixels \in AnyRow, e = ImagePixelsRow(pixels)
        PROVE  Process(p, e) \in Processors
    BY <1>4, ProcessKinds, AppendRowTyped
  <1>5. CASE e = ImagePixelsEnd
    BY <1>5, ProcessKinds, EndImageTyped
  <1> QED
    BY <1>1, <1>2, <1>3, <1>4, <1>5 DEF Entry

\* The result is processed one entry after the other.
Processed(p, seq) == FoldLeft(Process, p, seq)

LEMMA ProcessFold ==
  ASSUME NEW p \in Processors, NEW E, NEW seq \in Seq(E), \A e \in E : Entry(e)
  PROVE  \E h : /\ h[0] = p /\ h[Len(seq)] = Processed(p, seq)
                /\ \A k \in 1 .. Len(seq) : h[k] = Process(h[k - 1], seq[k])
  <1> DEFINE n == Len(seq)
             Solves(it) == it = [s \in SUBSET DOMAIN seq |->
                                  IF s = {} THEN p
                                  ELSE LET x == Max(s) IN Process(it[s \ {x}], seq[x])]
             f == [q \in Processors \X (1 .. n) |-> Process(q[1], seq[q[2]])]
             h(it) == [k \in 0 .. n |-> it[1 .. k]]
  <1>1. n \in Nat /\ DOMAIN seq = 1 .. n
    OBVIOUS
  <1>2. f \in [Processors \X (1 .. n) -> Processors]
    <2>1. ASSUME NEW q \in Processors \X (1 .. n) PROVE Process(q[1], seq[q[2]]) \in Processors
      <3>1. q[1] \in Processors /\ seq[q[2]] \in E
        BY <1>1
      <3> QED
        BY <3>1, ProcessTyped
    <2> QED
      BY <2>1
  <1>3. PICK g \in [SUBSET (1 .. n) -> Processors] : FoldOf(g, p, n, f)
    <2> HIDE DEF f, n
    <2> QED
      BY <1>1, <1>2, FoldExists
  <1>4. Solves(g)
    <2>1. ASSUME NEW s \in SUBSET (1 .. n), s # {}
          PROVE  Max(s) \in 1 .. n /\ g[s \ {Max(s)}] \in Processors
      <3>1. Max(s) \in s
        BY <1>1, <2>1, GreatestOfSome
      <3> QED
        BY <3>1
    <2> QED
      BY <1>1, <1>3, <2>1 DEF FoldOf
  <1> DEFINE i == CHOOSE it : Solves(it)
  <1>5. Solves(i)
    BY <1>4
  <1>6. Processed(p, seq) = i[DOMAIN seq]
    BY DEF Processed, FoldLeft, MapThenFoldSet
  <1> HIDE DEF i, f
  <1>7. i[1 .. 0] = p
    BY <1>1, <1>5, InitialIndices
  <1>8. \A k \in 1 .. n : i[1 .. k] = Process(i[1 .. (k - 1)], seq[k])
    <2> SUFFICES ASSUME NEW k \in 1 .. n
                 PROVE  i[1 .. k] = Process(i[1 .. (k - 1)], seq[k])
      OBVIOUS
    <2>1. /\ 1 .. k \in SUBSET DOMAIN seq /\ 1 .. k # {} /\ Max(1 .. k) = k
          /\ (1 .. k) \ {k} = 1 .. (k - 1)
      BY <1>1, InitialIndices
    <2> QED
      BY <1>5, <2>1
  <1>9. h(i)[0] = p /\ h(i)[n] = Processed(p, seq)
    BY <1>1, <1>6, <1>7
  <1>10. \A k \in 1 .. n : h(i)[k] = Process(h(i)[k - 1], seq[k])
    BY <1>1, <1>8, InitialIndices
  <1> QED
    BY <1>9, <1>10

\* A result that begins with the VIS code or the synchronisation, if any.
Signs(pre) ==
  \/ pre = <<>>
  \/ pre = <<LineSynchronization>>
  \/ \E code : pre = <<DecodedVISCode(code)>> \/ pre = <<DecodedVISCode(code), LineSynchronization>>
Code(pre) == pre = <<>> \/ \E code : pre = <<DecodedVISCode(code)>>

\* For results of a few entries.
LEMMA ProcessFew ==
  ASSUME NEW p \in Processors
  PROVE  /\ Processed(p, <<>>) = p
         /\ \A v : Entry(v) => Processed(p, <<v>>) = Process(p, v)
         /\ \A v, w : Entry(v) /\ Entry(w) => Processed(p, <<v, w>>) = Process(Process(p, v), w)
         /\ \A v, w, x : Entry(v) /\ Entry(w) /\ Entry(x) =>
              Processed(p, <<v, w, x>>) = Process(Process(Process(p, v), w), x)
         /\ \A v, w, x, y : Entry(v) /\ Entry(w) /\ Entry(x) /\ Entry(y) =>
              Processed(p, <<v, w, x, y>>) = Process(Process(Process(Process(p, v), w), x), y)
         /\ \A v, w, x, y, z : Entry(v) /\ Entry(w) /\ Entry(x) /\ Entry(y) /\ Entry(z) =>
              Processed(p, <<v, w, x, y, z>>) = Process(Process(Process(Process(Process(p, v), w), x), y), z)
  <1>1. ASSUME NEW E, NEW seq \in Seq(E), \A e \in E : Entry(e)
        PROVE  \E h : /\ h[0] = p /\ h[Len(seq)] = Processed(p, seq)
                      /\ \A k \in 1 .. Len(seq) : h[k] = Process(h[k - 1], seq[k])
    BY <1>1, ProcessFold
  <1>2. 1 - 1 = 0 /\ 2 - 1 = 1 /\ 3 - 1 = 2 /\ 4 - 1 = 3 /\ 5 - 1 = 4
    OBVIOUS
  <1>3. Processed(p, <<>>) = p
    <2> DEFINE E == {}
               seq == <<>>
    <2>1. seq \in Seq(E) /\ Len(seq) = 0 /\ \A e \in E : Entry(e)
      OBVIOUS
    <2> HIDE DEF E, seq
    <2>2. PICK h : h[0] = p /\ h[0] = Processed(p, seq)
      BY <1>1, <2>1
    <2> QED
      BY <2>2 DEF seq
  <1>4. ASSUME NEW v,
               Entry(v)
        PROVE  Processed(p, <<v>>) = Process(p, v)
    <2> DEFINE E == {v}
               seq == <<v>>
    <2>1. /\ seq \in Seq(E) /\ Len(seq) = 1 /\ \A e \in E : Entry(e)
          /\ seq[1] = v
      BY <1>4
    <2> HIDE DEF E, seq
    <2>2. PICK h : /\ h[0] = p /\ h[1] = Processed(p, seq)
                   /\ \A k \in 1 .. 1 : h[k] = Process(h[k - 1], seq[k])
      BY <1>1, <2>1
    <2>3. h[1] = Process(h[1 - 1], seq[1])
      BY <2>2
    <2> QED
      BY <1>2, <2>1, <2>2, <2>3 DEF seq
  <1>5. ASSUME NEW v, NEW w,
               Entry(v), Entry(w)
        PROVE  Processed(p, <<v, w>>) = Process(Process(p, v), w)
    <2> DEFINE E == {v, w}
               seq == <<v, w>>
    <2>1. /\ seq \in Seq(E) /\ Len(seq) = 2 /\ \A e \in E : Entry(e)
          /\ seq[1] = v /\ seq[2] = w
      BY <1>5
    <2> HIDE DEF E, seq
    <2>2. PICK h : /\ h[0] = p /\ h[2] = Processed(p, seq)
                   /\ \A k \in 1 .. 2 : h[k] = Process(h[k - 1], seq[k])
      BY <1>1, <2>1
    <2>3. /\ h[1] = Process(h[1 - 1], seq[1])
          /\ h[2] = Process(h[2 - 1], seq[2])
      BY <2>2
    <2> QED
      BY <1>2, <2>1, <2>2, <2>3 DEF seq
  <1>6. ASSUME NEW v, NEW w, NEW x,
               Entry(v), Entry(w), Entry(x)
        PROVE  Processed(p, <<v, w, x>>) = Process(Process(Process(p, v), w), x)
    <2> DEFINE E == {v, w, x}
               seq == <<v, w, x>>
    <2>1. /\ seq \in Seq(E) /\ Len(seq) = 3 /\ \A e \in E : Entry(e)
          /\ seq[1] = v /\ seq[2] = w /\ seq[3] = x
      BY <1>6
    <2> HIDE DEF E, seq
    <2>2. PICK h : /\ h[0] = p /\ h[3] = Processed(p, seq)
                   /\ \A k \in 1 .. 3 : h[k] = Process(h[k - 1], seq[k])
      BY <1>1, <2>1
    <2>3. /\ h[1] = Process(h[1 - 1], seq[1])
          /\ h[2] = Process(h[2 - 1], seq[2])
          /\ h[3] = Process(h[3 - 1], seq[3])
      BY <2>2
    <2> QED
      BY <1>2, <2>1, <2>2, <2>3 DEF seq
  <1>7. ASSUME NEW v, NEW w, NEW x, NEW y,
               Entry(v), Entry(w), Entry(x), Entry(y)
        PROVE  Processed(p, <<v, w, x, y>>) = Process(Process(Process(Process(p, v), w), x), y)
    <2> DEFINE E == {v, w, x, y}
               seq == <<v, w, x, y>>
    <2>1. /\ seq \in Seq(E) /\ Len(seq) = 4 /\ \A e \in E : Entry(e)
          /\ seq[1] = v /\ seq[2] = w /\ seq[3] = x /\ seq[4] = y
      BY <1>7
    <2> HIDE DEF E, seq
    <2>2. PICK h : /\ h[0] = p /\ h[4] = Processed(p, seq)
                   /\ \A k \in 1 .. 4 : h[k] = Process(h[k - 1], seq[k])
      BY <1>1, <2>1
    <2>3. /\ h[1] = Process(h[1 - 1], seq[1])
          /\ h[2] = Process(h[2 - 1], seq[2])
          /\ h[3] = Process(h[3 - 1], seq[3])
          /\ h[4] = Process(h[4 - 1], seq[4])
      BY <2>2
    <2> QED
      BY <1>2, <2>1, <2>2, <2>3 DEF seq
  <1>8. ASSUME NEW v, NEW w, NEW x, NEW y, NEW z,
               Entry(v), Entry(w), Entry(x), Entry(y), Entry(z)
        PROVE  Processed(p, <<v, w, x, y, z>>) = Process(Process(Process(Process(Process(p, v), w), x), y), z)
    <2> DEFINE E == {v, w, x, y, z}
               seq == <<v, w, x, y, z>>
    <2>1. /\ seq \in Seq(E) /\ Len(seq) = 5 /\ \A e \in E : Entry(e)
          /\ seq[1] = v /\ seq[2] = w /\ seq[3] = x /\ seq[4] = y /\ seq[5] = z
      BY <1>8
    <2> HIDE DEF E, seq
    <2>2. PICK h : /\ h[0] = p /\ h[5] = Processed(p, seq)
                   /\ \A k \in 1 .. 5 : h[k] = Process(h[k - 1], seq[k])
      BY <1>1, <2>1
    <2>3. /\ h[1] = Process(h[1 - 1], seq[1])
          /\ h[2] = Process(h[2 - 1], seq[2])
          /\ h[3] = Process(h[3 - 1], seq[3])
          /\ h[4] = Process(h[4 - 1], seq[4])
          /\ h[5] = Process(h[5 - 1], seq[5])
      BY <2>2
    <2> QED
      BY <1>2, <2>1, <2>2, <2>3 DEF seq
  <1> QED
    BY <1>3, <1>4, <1>5, <1>6, <1>7, <1>8

LEMMA SignsProcessed ==
  ASSUME NEW p \in Processors, NEW pre, Signs(pre)
  PROVE  Processed(p, pre) = p /\ Len(pre) <= 2
  <1> DEFINE y == LineSynchronization
  <1>0. Entry(y) /\ Process(p, y) = p
    BY ProcessKinds DEF Entry
  <1>1. ASSUME NEW code
        PROVE  /\ Processed(p, <<>>) = p /\ Processed(p, <<y>>) = p
               /\ Processed(p, <<DecodedVISCode(code)>>) = p
               /\ Processed(p, <<DecodedVISCode(code), y>>) = p
    <2> DEFINE e == DecodedVISCode(code)
    <2>1. Entry(e) /\ Process(p, e) = p
      BY ProcessKinds DEF Entry
    <2> HIDE DEF e, y
    <2>2. /\ Processed(p, <<>>) = p /\ Processed(p, <<y>>) = Process(p, y)
          /\ Processed(p, <<e>>) = Process(p, e)
          /\ Processed(p, <<e, y>>) = Process(Process(p, e), y)
      BY <1>0, <2>1, ProcessFew
    <2> QED
      BY <1>0, <2>1, <2>2 DEF e
  <1>2. Processed(p, <<>>) = p /\ Processed(p, <<y>>) = p
    BY <1>1
  <1>3. Processed(p, pre) = p
    BY <1>1, <1>2 DEF Signs
  <1>4. Len(pre) <= 2
    <2>1. CASE pre = <<>> \/ pre = <<y>>
      BY <2>1
    <2>2. ASSUME NEW code, pre = <<DecodedVISCode(code)>> \/ pre = <<DecodedVISCode(code), y>>
          PROVE  Len(pre) <= 2
      BY SMTT(30), <2>2
    <2> QED
      BY <2>1, <2>2 DEF Signs
  <1> QED
    BY <1>3, <1>4

\* One sequence after another.
LEMMA Concatenated ==
  ASSUME NEW S, NEW r \in Seq(S), NEW s \in Seq(S), NEW t \in Seq(S), Len(t) = Len(r) + Len(s),
         \A i \in 1 .. Len(r) : t[i] = r[i], \A i \in 1 .. Len(s) : t[Len(r) + i] = s[i]
  PROVE  r \o s = t
  <1> DEFINE c == r \o s
  <1>1. c \in Seq(S) /\ Len(c) = Len(r) + Len(s) /\ \A i \in 1 .. Len(r) : c[i] = r[i]
    OBVIOUS
  <1>2. \A i \in 1 .. Len(s) : c[Len(r) + i] = s[i]
    OBVIOUS
  <1>3. Len(r) \in Nat /\ Len(s) \in Nat
    OBVIOUS
  <1> HIDE DEF c
  <1>4. \A i \in 1 .. Len(r) + Len(s) :
          i \in 1 .. Len(r) \/ (i - Len(r) \in 1 .. Len(s) /\ Len(r) + (i - Len(r)) = i)
    BY <1>3
  <1>5. \A i \in 1 .. Len(r) + Len(s) : c[i] = t[i]
    BY <1>1, <1>2, <1>4
  <1> QED
    BY <1>1, <1>5, SeqEqual DEF c

\* The forms of a result.
LEMMA Results ==
  /\ \A w, x : <<w>> \o <<x>> = <<w, x>>
  /\ \A w, x, y : <<w>> \o <<x, y>> = <<w, x, y>>
  /\ \A v, w, x, y : <<w>> \o <<v, x, y>> = <<w, v, x, y>>
  /\ \A w, x, y, z : <<w>> \o <<x, y, z>> = <<w, x, y, z>>
  /\ \A v, w, x, y, z : <<w>> \o <<v, x, y, z>> = <<w, v, x, y, z>>
  /\ \A x, y, z : <<x, y>> \o <<z>> = <<x, y, z>>
  /\ \A v, x, y, z : <<v, x, y>> \o <<z>> = <<v, x, y, z>>
  <1>1. ASSUME NEW w, NEW x, NEW y PROVE <<w>> \o <<x, y>> = <<w, x, y>>
    <2> DEFINE S == {w, x, y}
               r == <<w>>
               s == <<x, y>>
               t == <<w, x, y>>
    <2>1. /\ r \in Seq(S) /\ s \in Seq(S) /\ t \in Seq(S)
          /\ Len(r) = 1 /\ Len(s) = 2 /\ Len(t) = 3
          /\ t[1] = r[1]
          /\ t[2] = s[1] /\ t[3] = s[2]
      OBVIOUS
    <2> HIDE DEF r, s, t, S
    <2>2. Len(t) = Len(r) + Len(s) /\ \A i \in 1 .. Len(r) : t[i] = r[i]
      BY <2>1
    <2>3. \A i \in 1 .. Len(s) : t[Len(r) + i] = s[i]
      BY <2>1
    <2>4. r \o s = t
      BY <2>1, <2>2, <2>3, Concatenated
    <2> QED
      BY <2>4 DEF r, s, t
  <1>2. ASSUME NEW v, NEW w, NEW x, NEW y PROVE <<w>> \o <<v, x, y>> = <<w, v, x, y>>
    <2> DEFINE S == {w, v, x, y}
               r == <<w>>
               s == <<v, x, y>>
               t == <<w, v, x, y>>
    <2>1. /\ r \in Seq(S) /\ s \in Seq(S) /\ t \in Seq(S)
          /\ Len(r) = 1 /\ Len(s) = 3 /\ Len(t) = 4
          /\ t[1] = r[1]
          /\ t[2] = s[1] /\ t[3] = s[2] /\ t[4] = s[3]
      OBVIOUS
    <2> HIDE DEF r, s, t, S
    <2>2. Len(t) = Len(r) + Len(s) /\ \A i \in 1 .. Len(r) : t[i] = r[i]
      BY <2>1
    <2>3. \A i \in 1 .. Len(s) : t[Len(r) + i] = s[i]
      BY <2>1
    <2>4. r \o s = t
      BY <2>1, <2>2, <2>3, Concatenated
    <2> QED
      BY <2>4 DEF r, s, t
  <1>3. ASSUME NEW w, NEW x, NEW y, NEW z PROVE <<w>> \o <<x, y, z>> = <<w, x, y, z>>
    <2> DEFINE S == {w, x, y, z}
               r == <<w>>
               s == <<x, y, z>>
               t == <<w, x, y, z>>
    <2>1. /\ r \in Seq(S) /\ s \in Seq(S) /\ t \in Seq(S)
          /\ Len(r) = 1 /\ Len(s) = 3 /\ Len(t) = 4
          /\ t[1] = r[1]
          /\ t[2] = s[1] /\ t[3] = s[2] /\ t[4] = s[3]
      OBVIOUS
    <2> HIDE DEF r, s, t, S
    <2>2. Len(t) = Len(r) + Len(s) /\ \A i \in 1 .. Len(r) : t[i] = r[i]
      BY <2>1
    <2>3. \A i \in 1 .. Len(s) : t[Len(r) + i] = s[i]
      BY <2>1
    <2>4. r \o s = t
      BY <2>1, <2>2, <2>3, Concatenated
    <2> QED
      BY <2>4 DEF r, s, t
  <1>4. ASSUME NEW v, NEW w, NEW x, NEW y, NEW z PROVE <<w>> \o <<v, x, y, z>> = <<w, v, x, y, z>>
    <2> DEFINE S == {w, v, x, y, z}
               r == <<w>>
               s == <<v, x, y, z>>
               t == <<w, v, x, y, z>>
    <2>1. /\ r \in Seq(S) /\ s \in Seq(S) /\ t \in Seq(S)
          /\ Len(r) = 1 /\ Len(s) = 4 /\ Len(t) = 5
          /\ t[1] = r[1]
          /\ t[2] = s[1] /\ t[3] = s[2] /\ t[4] = s[3] /\ t[5] = s[4]
      OBVIOUS
    <2> HIDE DEF r, s, t, S
    <2>2. Len(t) = Len(r) + Len(s) /\ \A i \in 1 .. Len(r) : t[i] = r[i]
      BY <2>1
    <2>3. \A i \in 1 .. Len(s) : t[Len(r) + i] = s[i]
      BY <2>1
    <2>4. r \o s = t
      BY <2>1, <2>2, <2>3, Concatenated
    <2> QED
      BY <2>4 DEF r, s, t
  <1>5. ASSUME NEW x, NEW y, NEW z PROVE <<x, y>> \o <<z>> = <<x, y, z>>
    <2> DEFINE S == {x, y, z}
               r == <<x, y>>
               s == <<z>>
               t == <<x, y, z>>
    <2>1. /\ r \in Seq(S) /\ s \in Seq(S) /\ t \in Seq(S)
          /\ Len(r) = 2 /\ Len(s) = 1 /\ Len(t) = 3
          /\ t[1] = r[1] /\ t[2] = r[2]
          /\ t[3] = s[1]
      OBVIOUS
    <2> HIDE DEF r, s, t, S
    <2>2. Len(t) = Len(r) + Len(s) /\ \A i \in 1 .. Len(r) : t[i] = r[i]
      BY <2>1
    <2>3. \A i \in 1 .. Len(s) : t[Len(r) + i] = s[i]
      BY <2>1
    <2>4. r \o s = t
      BY <2>1, <2>2, <2>3, Concatenated
    <2> QED
      BY <2>4 DEF r, s, t
  <1>6. ASSUME NEW v, NEW x, NEW y, NEW z PROVE <<v, x, y>> \o <<z>> = <<v, x, y, z>>
    <2> DEFINE S == {v, x, y, z}
               r == <<v, x, y>>
               s == <<z>>
               t == <<v, x, y, z>>
    <2>1. /\ r \in Seq(S) /\ s \in Seq(S) /\ t \in Seq(S)
          /\ Len(r) = 3 /\ Len(s) = 1 /\ Len(t) = 4
          /\ t[1] = r[1] /\ t[2] = r[2] /\ t[3] = r[3]
          /\ t[4] = s[1]
      OBVIOUS
    <2> HIDE DEF r, s, t, S
    <2>2. Len(t) = Len(r) + Len(s) /\ \A i \in 1 .. Len(r) : t[i] = r[i]
      BY <2>1
    <2>3. \A i \in 1 .. Len(s) : t[Len(r) + i] = s[i]
      BY <2>1
    <2>4. r \o s = t
      BY <2>1, <2>2, <2>3, Concatenated
    <2> QED
      BY <2>4 DEF r, s, t
  <1>7. ASSUME NEW w, NEW x PROVE <<w>> \o <<x>> = <<w, x>>
    <2> DEFINE S == {w, x}
               r == <<w>>
               s == <<x>>
               t == <<w, x>>
    <2>1. /\ r \in Seq(S) /\ s \in Seq(S) /\ t \in Seq(S)
          /\ Len(r) = 1 /\ Len(s) = 1 /\ Len(t) = 2
          /\ t[1] = r[1] /\ t[2] = s[1]
      OBVIOUS
    <2> HIDE DEF r, s, t, S
    <2>2. Len(t) = Len(r) + Len(s) /\ \A i \in 1 .. Len(r) : t[i] = r[i]
      BY <2>1
    <2>3. \A i \in 1 .. Len(s) : t[Len(r) + i] = s[i]
      BY <2>1
    <2>4. r \o s = t
      BY <2>1, <2>2, <2>3, Concatenated
    <2> QED
      BY <2>4 DEF r, s, t
  <1> QED
    BY <1>1, <1>2, <1>3, <1>4, <1>5, <1>6, <1>7

\* What the processor makes of a line.
Begun(p, l) == IF l.lines = 0 THEN BeginImage(EndImage(p), l.mode) ELSE p
Filled(p, l, r0, r1) == AppendImageRow(AppendImageRow(Begun(p, l), r0), r1)
Ended(p, l, r0, r1) ==
  IF l.lines + 1 = NumLines(l.mode) THEN EndImage(Filled(p, l, r0, r1)) ELSE Filled(p, l, r0, r1)

LEMMA LineProcessed ==
  ASSUME NEW p \in Processors, NEW pre, Code(pre), NEW l, LineTypes(l),
         NEW r0 \in RowsOf(l.mode), NEW r1 \in RowsOf(l.mode)
  PROVE  Processed(p, pre \o LineEntries(l, r0, r1)) = Ended(p, l, r0, r1)
  <1> DEFINE b == ImagePixelsBegin(l.mode)
             x == ImagePixelsRow(r0)
             y == ImagePixelsRow(r1)
             z == ImagePixelsEnd
             head == IF l.lines = 0 THEN <<b>> ELSE <<>>
             tail == IF l.lines + 1 = NumLines(l.mode) THEN <<z>> ELSE <<>>
             begun == Begun(p, l)
             filled == Filled(p, l, r0, r1)
             ended == Ended(p, l, r0, r1)
  <1>1. Entry(x) /\ Entry(y) /\ Entry(z) /\ Entry(b)
    <2>1. r0 \in AnyRow /\ r1 \in AnyRow /\ l.mode \in DOMAIN Modes
      BY DEF AnyRow, LineTypes
    <2> QED
      BY <2>1 DEF Entry
  <1>2. /\ begun = IF l.lines = 0 THEN Process(p, b) ELSE p
        /\ filled = Process(Process(begun, x), y)
        /\ ended = IF l.lines + 1 = NumLines(l.mode) THEN Process(filled, z) ELSE filled
    <2>1. Process(p, b) = BeginImage(EndImage(p), l.mode)
      BY ProcessKinds
    <2>2. \A q : /\ Process(q, x) = AppendImageRow(q, r0) /\ Process(q, y) = AppendImageRow(q, r1)
                 /\ Process(q, z) = EndImage(q)
      BY ProcessKinds
    <2> QED
      BY <2>1, <2>2, Zenon DEF Begun, Filled, Ended
  <1>3. pre \o LineEntries(l, r0, r1) = pre \o (head \o <<x, y>> \o tail)
    BY DEF LineEntries
  <1> HIDE DEF b, x, y, z, begun, filled, ended
  <1>6. /\ (<<>> \o <<x, y>>) \o <<>> = <<x, y>>
        /\ (<<b>> \o <<x, y>>) \o <<>> = <<b, x, y>>
        /\ (<<>> \o <<x, y>>) \o <<z>> = <<x, y, z>>
        /\ (<<b>> \o <<x, y>>) \o <<z>> = <<b, x, y, z>>
    <2>1. <<b>> \o <<x, y>> = <<b, x, y>>
      BY Results
    <2>2. /\ <<>> \o <<x, y>> = <<x, y>> /\ <<x, y>> \o <<>> = <<x, y>>
          /\ <<b, x, y>> \o <<>> = <<b, x, y>>
      OBVIOUS
    <2>3. <<x, y>> \o <<z>> = <<x, y, z>> /\ <<b, x, y>> \o <<z>> = <<b, x, y, z>>
      BY Results
    <2> QED
      BY <2>1, <2>2, <2>3, Zenon
  <1>4. CASE pre = <<>>
    <2>1. /\ Processed(p, <<x, y>>) = Process(Process(p, x), y)
          /\ Processed(p, <<b, x, y>>) = Process(Process(Process(p, b), x), y)
          /\ Processed(p, <<x, y, z>>) = Process(Process(Process(p, x), y), z)
          /\ Processed(p, <<b, x, y, z>>) = Process(Process(Process(Process(p, b), x), y), z)
      BY <1>1, ProcessFew
    <2>2. pre \o (head \o <<x, y>> \o tail) =
            IF l.lines = 0
            THEN IF l.lines + 1 = NumLines(l.mode) THEN <<b, x, y, z>> ELSE <<b, x, y>>
            ELSE IF l.lines + 1 = NumLines(l.mode) THEN <<x, y, z>> ELSE <<x, y>>
      <3>1. /\ <<>> \o <<x, y>> = <<x, y>> /\ <<>> \o <<b, x, y>> = <<b, x, y>>
            /\ <<>> \o <<x, y, z>> = <<x, y, z>> /\ <<>> \o <<b, x, y, z>> = <<b, x, y, z>>
        OBVIOUS
      <3> QED
        BY <1>4, <1>6, <3>1, Zenon
    <2> QED
      BY <1>2, <1>3, <2>1, <2>2 DEF ended
  <1>5. ASSUME NEW code, pre = <<DecodedVISCode(code)>>
        PROVE  Processed(p, pre \o LineEntries(l, r0, r1)) = Ended(p, l, r0, r1)
    <2> DEFINE e == DecodedVISCode(code)
    <2>1. Entry(e) /\ Process(p, e) = p
      BY ProcessKinds DEF Entry
    <2> HIDE DEF e
    <2>2. /\ Processed(p, <<e, x, y>>) = Process(Process(Process(p, e), x), y)
          /\ Processed(p, <<e, b, x, y>>) = Process(Process(Process(Process(p, e), b), x), y)
          /\ Processed(p, <<e, x, y, z>>) = Process(Process(Process(Process(p, e), x), y), z)
          /\ Processed(p, <<e, b, x, y, z>>) =
               Process(Process(Process(Process(Process(p, e), b), x), y), z)
      BY <1>1, <2>1, ProcessFew
    <2>3. pre \o (head \o <<x, y>> \o tail) =
            IF l.lines = 0
            THEN IF l.lines + 1 = NumLines(l.mode) THEN <<e, b, x, y, z>> ELSE <<e, b, x, y>>
            ELSE IF l.lines + 1 = NumLines(l.mode) THEN <<e, x, y, z>> ELSE <<e, x, y>>
      <3>1. /\ <<e>> \o <<x, y>> = <<e, x, y>> /\ <<e>> \o <<b, x, y>> = <<e, b, x, y>>
            /\ <<e>> \o <<x, y, z>> = <<e, x, y, z>>
            /\ <<e>> \o <<b, x, y, z>> = <<e, b, x, y, z>>
        BY Results
      <3> QED
        BY <1>5, <1>6, <3>1, Zenon DEF e
    <2> QED
      BY <1>2, <1>3, <2>1, <2>2, <2>3 DEF ended
  <1> QED
    BY <1>4, <1>5 DEF Code

\* All rows are of the width of their image.
Fits(p) ==
  /\ p \in Processors
  /\ p.receiver.rows \in Seq(RowsOf(p.receiver.mode))
  /\ \A i \in DOMAIN p.files : p.files[i].rows \in Seq(RowsOf(p.files[i].mode))

LEMMA EndFits == ASSUME NEW p, Fits(p) PROVE Fits(EndImage(p))
  <1> DEFINE image == [number |-> NumDecodedImages + 1, mode |-> p.receiver.mode,
                       rows |-> p.receiver.rows]
             ended == [p.receiver EXCEPT !.decoding = FALSE]
  <1>0. p \in Processors
    BY DEF Fits
  <1>1. /\ EndImage(p) \in Processors /\ EndImage(p).receiver.mode = p.receiver.mode
        /\ EndImage(p).receiver.rows = p.receiver.rows
    BY <1>0, EndImageTyped
  <1>2. EndImage(p) = IF ~p.receiver.decoding THEN p
                      ELSE [receiver |-> ended, files |-> Append(p.files, image)]
    BY DEF EndImage
  <1>3. image.rows = p.receiver.rows /\ image.mode = p.receiver.mode
    OBVIOUS
  <1> HIDE DEF image, ended
  <1>4. p.files \in Seq(AnyImage)
    BY <1>0 DEF Processors
  <1>5. EndImage(p).files = p.files \/ EndImage(p).files = Append(p.files, image)
    BY <1>2
  <1>6. \A i \in DOMAIN EndImage(p).files :
          \/ i \in DOMAIN p.files /\ EndImage(p).files[i] = p.files[i]
          \/ EndImage(p).files[i] = image
    BY <1>4, <1>5
  <1> QED
    BY <1>1, <1>3, <1>6 DEF Fits

LEMMA BeginFits ==
  ASSUME NEW p, Fits(p), NEW mode \in DOMAIN Modes
  PROVE  Fits(BeginImage(p, mode))
  <1>1. p \in Processors /\ <<>> \in Seq(RowsOf(mode))
    BY DEF Fits
  <1> QED
    BY <1>1, BeginImageTyped DEF Fits

LEMMA AppendFits ==
  ASSUME NEW p, Fits(p), NEW pixels \in RowsOf(p.receiver.mode)
  PROVE  /\ Fits(AppendImageRow(p, pixels))
         /\ AppendImageRow(p, pixels).receiver.mode = p.receiver.mode
         /\ Len(AppendImageRow(p, pixels).receiver.rows) = Len(p.receiver.rows) + 1
  <1> DEFINE rows == p.receiver.rows
             R == RowsOf(p.receiver.mode)
             q == AppendImageRow(p, pixels)
  <1>1. p \in Processors /\ rows \in Seq(R) /\ pixels \in R
    BY DEF Fits
  <1>2. pixels \in AnyRow
    <2>1. p.receiver.mode \in DOMAIN Modes
      BY <1>1 DEF Processors, Receivers
    <2> QED
      BY <1>1, <2>1 DEF AnyRow
  <1>3. /\ q \in Processors /\ q.files = p.files /\ q.receiver.mode = p.receiver.mode
        /\ q.receiver.rows = Append(rows, pixels)
    BY <1>1, <1>2, AppendRowTyped
  <1> HIDE DEF rows, R, q
  <1>4. Append(rows, pixels) \in Seq(R) /\ Len(Append(rows, pixels)) = Len(rows) + 1
    BY <1>1
  <1>5. q.receiver.rows \in Seq(R) /\ Len(q.receiver.rows) = Len(rows) + 1
    BY <1>3, <1>4
  <1>6. Fits(q)
    BY <1>3, <1>5 DEF Fits, R
  <1> QED
    BY <1>3, <1>5, <1>6 DEF q, rows

\* After a line the image has two more rows, which fit it.
LEMMA LineFits ==
  ASSUME NEW p, Fits(p), NEW l, LineTypes(l), Counted(l, p.receiver), l.state = "DecodeLine",
         NEW r0 \in RowsOf(l.mode), NEW r1 \in RowsOf(l.mode)
  PROVE  /\ Fits(Ended(p, l, r0, r1)) /\ Ended(p, l, r0, r1).receiver.mode = l.mode
         /\ Len(Ended(p, l, r0, r1).receiver.rows) = 2 * (l.lines + 1)
  <1> DEFINE b == Begun(p, l)
             a == AppendImageRow(b, r0)
             f == AppendImageRow(a, r1)
             e == Ended(p, l, r0, r1)
  <1>1. l.lines \in Nat /\ l.mode \in DOMAIN Modes
    BY DEF LineTypes
  <1>2. Fits(b) /\ b.receiver.mode = l.mode /\ Len(b.receiver.rows) = 2 * l.lines
    <2>1. CASE l.lines = 0
      <3>1. b = BeginImage(EndImage(p), l.mode)
        BY <2>1 DEF Begun
      <3>2. Fits(EndImage(p))
        BY EndFits
      <3>3. EndImage(p) \in Processors
        BY <3>2 DEF Fits
      <3>4. b.receiver.mode = l.mode /\ b.receiver.rows = <<>>
        BY <1>1, <3>1, <3>3, BeginImageTyped
      <3>5. Fits(b)
        BY <1>1, <3>1, <3>2, BeginFits
      <3>6. Len(b.receiver.rows) = 0
        BY <3>4
      <3> QED
        BY <2>1, <3>4, <3>5, <3>6
    <2>2. CASE l.lines # 0
      <3>1. b = p /\ l.lines > 0
        BY <1>1, <2>2 DEF Begun
      <3> QED
        BY <3>1 DEF Counted
    <2> QED
      BY <2>1, <2>2
  <1> HIDE DEF b
  <1>3. Fits(a) /\ a.receiver.mode = l.mode /\ Len(a.receiver.rows) = 2 * l.lines + 1
    <2>1. r0 \in RowsOf(b.receiver.mode)
      BY <1>2
    <2> QED
      BY <1>2, <2>1, AppendFits
  <1> HIDE DEF a
  <1>4. Fits(f) /\ f.receiver.mode = l.mode /\ Len(f.receiver.rows) = 2 * l.lines + 1 + 1
    <2>1. r1 \in RowsOf(a.receiver.mode)
      BY <1>3
    <2> QED
      BY <1>3, <2>1, AppendFits
  <1>5. f = Filled(p, l, r0, r1)
    BY DEF Filled, f, a, b
  <1> HIDE DEF f
  <1>6. e = IF l.lines + 1 = NumLines(l.mode) THEN EndImage(f) ELSE f
    BY <1>5 DEF Ended
  <1> HIDE DEF e
  <1>7. Fits(e) /\ e.receiver.mode = l.mode /\ Len(e.receiver.rows) = 2 * l.lines + 1 + 1
    <2>1. f \in Processors
      BY <1>4 DEF Fits
    <2>2. /\ Fits(EndImage(f)) /\ EndImage(f).receiver.mode = f.receiver.mode
          /\ EndImage(f).receiver.rows = f.receiver.rows
      BY <1>4, <2>1, EndFits, EndImageTyped
    <2> QED
      BY <1>4, <1>6, <2>2
  <1>8. 2 * l.lines + 1 + 1 = 2 * (l.lines + 1)
    BY <1>1
  <1> QED
    BY <1>7, <1>8 DEF e

--------------------------------------------------------------------------------
(* The steps of the link.                                                   *)

Now == [receiver |-> receiver, files |-> files]

LEMMA TypesOfLink ==
  LinkTypeOK <=> tone \in Nat /\ LineTypes(line) /\ Fits(Now)
  <1>1. ASSUME NEW mode \in DOMAIN Modes, NEW rows \in Seq(RowsOf(mode))
        PROVE  rows \in Seq(AnyRow)
    <2>1. RowsOf(mode) \subseteq AnyRow
      BY DEF AnyRow
    <2> HIDE DEF AnyRow
    <2> QED
      BY <1>1, <2>1
  <1>2. /\ Now.receiver = receiver /\ Now.files = files
        /\ Now \in Processors <=> receiver \in Receivers /\ files \in Seq(AnyImage)
    BY DEF Now, Processors
  <1>3. ASSUME LinkTypeOK PROVE tone \in Nat /\ LineTypes(line) /\ Fits(Now)
    <2>1. LineTypes(line) /\ tone \in Nat
      BY <1>3 DEF LinkTypeOK, LineTypes
    <2>2. /\ receiver.mode \in DOMAIN Modes /\ receiver.rows \in Seq(RowsOf(receiver.mode))
          /\ receiver \in [decoding : BOOLEAN, mode : DOMAIN Modes,
                           rows : Seq(RowsOf(receiver.mode))]
      BY <1>3 DEF LinkTypeOK
    <2>3. receiver.rows \in Seq(AnyRow)
      BY <1>1, <2>2
    <2>4. receiver \in Receivers
      BY <2>2, <2>3 DEF Receivers
    <2>5. \A i \in DOMAIN files :
            /\ files[i] \in AnyImage /\ files[i].rows \in Seq(RowsOf(files[i].mode))
      <3> SUFFICES ASSUME NEW i \in DOMAIN files
                   PROVE  /\ files[i] \in AnyImage
                          /\ files[i].rows \in Seq(RowsOf(files[i].mode))
        OBVIOUS
      <3> DEFINE x == files[i]
      <3>1. x \in [number : Nat, mode : DOMAIN Modes, rows : Seq(RowsOf(x.mode))]
        BY <1>3 DEF LinkTypeOK
      <3> HIDE DEF x
      <3>2. x.mode \in DOMAIN Modes /\ x.rows \in Seq(RowsOf(x.mode))
        BY <3>1
      <3>3. x.rows \in Seq(AnyRow)
        BY <1>1, <3>2
      <3>4. x \in AnyImage
        BY <3>1, <3>3 DEF AnyImage
      <3> QED
        BY <3>2, <3>4 DEF x
    <2>6. files \in Seq(AnyImage)
      <3>1. files \in Seq({files[i] : i \in DOMAIN files})
        BY <1>3 DEF LinkTypeOK
      <3> QED
        BY <2>5, <3>1
    <2> QED
      BY <1>2, <2>1, <2>2, <2>4, <2>5, <2>6 DEF Fits
  <1>4. ASSUME tone \in Nat, LineTypes(line), Fits(Now) PROVE LinkTypeOK
    <2>1. /\ receiver \in Receivers /\ files \in Seq(AnyImage)
          /\ receiver.rows \in Seq(RowsOf(receiver.mode))
          /\ \A i \in DOMAIN files : files[i].rows \in Seq(RowsOf(files[i].mode))
      BY <1>2, <1>4 DEF Fits
    <2>2. receiver \in [decoding : BOOLEAN, mode : DOMAIN Modes,
                        rows : Seq(RowsOf(receiver.mode))]
      BY <2>1 DEF Receivers
    <2>3. files \in Seq({files[i] : i \in DOMAIN files})
      BY <2>1
    <2>4. ASSUME NEW i \in DOMAIN files
          PROVE  files[i] \in [number : Nat, mode : DOMAIN Modes,
                               rows : Seq(RowsOf(files[i].mode))]
      <3> DEFINE x == files[i]
      <3>1. x \in AnyImage /\ x.rows \in Seq(RowsOf(x.mode))
        BY <2>1
      <3> HIDE DEF x
      <3>2. x \in [number : Nat, mode : DOMAIN Modes, rows : Seq(RowsOf(x.mode))]
        BY <3>1 DEF AnyImage
      <3> QED
        BY <3>2 DEF x
    <2> QED
      BY <1>4, <2>2, <2>3, <2>4 DEF LinkTypeOK, LineTypes
  <1> QED
    BY <1>3, <1>4

\* The VIS code and the pulse before the sample, and the line decoder after them.
LEMMA SampleEffect ==
  ASSUME LinkTypeOK, LinesAreCounted, Sample
  PROVE  \E L, pre :
           /\ LineTypes(L) /\ Counted(L, receiver) /\ Signs(pre)
           /\ line' = LineAfter(L, tone) /\ result' = pre \o LineResult(L, tone)
           /\ Code(pre) \/ LineResult(L, tone) = <<>>
           /\ receiver' = Processed(Now, result').receiver
           /\ files' = Processed(Now, result').files
           /\ tone' \in Nat
  <1> DEFINE frequency == Received(tone)
             code == VISResult(vis)
             vertical == IF code = NoCode THEN line ELSE OnVerticalSync(line, code, VISDelayDuration)
             synchronised == SyncDetected(sync, frequency)
             L == IF synchronised THEN OnLineSync(vertical) ELSE vertical
             signs == IF code = NoCode THEN <<>> ELSE <<DecodedVISCode(code)>>
             pulse == IF synchronised THEN <<LineSynchronization>> ELSE <<>>
  <1>1. tone \in Nat /\ LineTypes(line) /\ Counted(line, receiver)
    BY TypesOfLink DEF LinesAreCounted, Counted
  <1>2. /\ line' = LineAfter(L, tone)
        /\ result' = (signs \o pulse) \o LineResult(L, tone)
        /\ Advance
    BY DEF Sample
  <1>3. /\ receiver' = Processed(Now, result').receiver
        /\ files' = Processed(Now, result').files
    BY Zenon DEF Sample, Processed, Now
  <1>4. tone' \in Nat
    BY <1>1, <1>2 DEF Advance
  <1> HIDE DEF frequency, code, synchronised
  <1>5. LineTypes(vertical) /\ Counted(vertical, receiver)
    <2>1. VISDelayDuration \in Nat
      BY DecoderAssumption DEF VISDelayDuration
    <2>2. CASE code = NoCode
      BY <1>1, <2>2
    <2>3. CASE code # NoCode
      <3> DEFINE v == OnVerticalSync(line, code, VISDelayDuration)
      <3>1. LineTypes(v) /\ (v = line \/ (v.state = "DecodeLine" /\ v.lines = 0))
        BY <1>1, <2>1, VerticalSyncEffect
      <3> HIDE DEF v
      <3>2. Counted(v, receiver)
        <4>1. v.mode \in DOMAIN Modes
          BY <3>1 DEF LineTypes
        <4>2. NumLines(v.mode) \in Nat /\ NumLines(v.mode) >= 2
          BY <4>1, ModeSizes
        <4> QED
          BY <1>1, <3>1, <4>2 DEF Counted
      <3> QED
        BY <2>3, <3>1, <3>2 DEF v
    <2> QED
      BY <2>2, <2>3
  <1> HIDE DEF vertical
  <1>6. /\ LineTypes(L) /\ Counted(L, receiver)
        /\ synchronised => LineResult(L, tone) = <<>>
    <2>1. CASE ~synchronised
      BY <1>5, <2>1
    <2>2. CASE synchronised
      <3> DEFINE s == OnLineSync(vertical)
      <3>1. /\ LineTypes(s) /\ s.mode = vertical.mode /\ s.samples = 0
            /\ s.offset = Modes[s.mode].sync
            /\ s.lines = IF vertical.state = "WaitForSyncEvent" THEN 0 ELSE vertical.lines
        BY <1>5, LineSyncEffect
      <3> HIDE DEF s
      <3>2. Counted(s, receiver)
        <4>1. s.mode \in DOMAIN Modes
          BY <3>1 DEF LineTypes
        <4>2. NumLines(s.mode) \in Nat /\ NumLines(s.mode) >= 2
          BY <4>1, ModeSizes
        <4>3. vertical.state \in {"WaitForSyncEvent", "DecodeLine"}
          BY <1>5 DEF LineTypes
        <4> QED
          BY <1>5, <3>1, <4>2, <4>3 DEF Counted
      <3>3. LineResult(s, tone) = <<>>
        BY <1>1, <3>1, RestartedLine
      <3> QED
        BY <2>2, <3>1, <3>2, <3>3 DEF s
    <2> QED
      BY <2>1, <2>2
  <1> HIDE DEF L
  <1>7. Signs(signs \o pulse) /\ (~synchronised => Code(signs \o pulse))
    <2> DEFINE e == DecodedVISCode(code)
               y == LineSynchronization
    <2>1. /\ <<>> \o <<>> = <<>> /\ <<e>> \o <<>> = <<e>> /\ <<>> \o <<y>> = <<y>>
          /\ <<e>> \o <<y>> = <<e, y>>
      <3> HIDE DEF e, y
      <3>1. <<>> \o <<>> = <<>>
        OBVIOUS
      <3>2. <<e>> \o <<>> = <<e>>
        OBVIOUS
      <3>3. <<>> \o <<y>> = <<y>>
        OBVIOUS
      <3> QED
        BY <3>1, <3>2, <3>3, Results
    <2>2. CASE code = NoCode /\ ~synchronised
      BY <2>1, <2>2, Zenon DEF Signs, Code
    <2>3. CASE code # NoCode /\ ~synchronised
      BY <2>1, <2>3, Zenon DEF Signs, Code
    <2>4. CASE code = NoCode /\ synchronised
      BY <2>1, <2>4, Zenon DEF Signs, Code
    <2>5. CASE code # NoCode /\ synchronised
      BY <2>1, <2>5, Zenon DEF Signs, Code
    <2> QED
      BY <2>2, <2>3, <2>4, <2>5
  <1> HIDE DEF signs, pulse
  <1> QED
    BY <1>2, <1>3, <1>4, <1>6, <1>7, Zenon

\* A line that is complete returns four entries at most, with a code before them.
LEMMA LineEntriesFit ==
  ASSUME NEW l, LineTypes(l), NEW r0, NEW r1, NEW pre, Code(pre)
  PROVE  /\ Len(pre \o LineEntries(l, r0, r1)) <= 4
         /\ \A i \in DOMAIN (pre \o LineEntries(l, r0, r1)) :
              (pre \o LineEntries(l, r0, r1))[i].what # "sync"
         /\ LineEntries(l, r0, r1) # <<>>
  <1> DEFINE b == ImagePixelsBegin(l.mode)
             x == ImagePixelsRow(r0)
             y == ImagePixelsRow(r1)
             z == ImagePixelsEnd
             head == IF l.lines = 0 THEN <<b>> ELSE <<>>
             tail == IF l.lines + 1 = NumLines(l.mode) THEN <<z>> ELSE <<>>
             seq == pre \o LineEntries(l, r0, r1)
             Good(s) == Len(s) <= 4 /\ \A i \in DOMAIN s : s[i].what # "sync"
             good(e) == e.what # "sync"
  <1>1. good(b) /\ good(x) /\ good(y) /\ good(z) /\ \A c : good(DecodedVISCode(c))
    BY DEF ImagePixelsBegin, ImagePixelsRow, ImagePixelsEnd, DecodedVISCode
  <1>2. l.lines \in Nat /\ NumLines(l.mode) >= 2 /\ NumLines(l.mode) \in Nat
    BY ModeSizes DEF LineTypes
  <1>3. seq = pre \o ((head \o <<x, y>>) \o tail)
    BY DEF LineEntries
  <1> HIDE DEF b, x, y, z, seq
  <1>4. /\ (<<>> \o <<x, y>>) \o <<>> = <<x, y>>
        /\ (<<b>> \o <<x, y>>) \o <<>> = <<b, x, y>>
        /\ (<<>> \o <<x, y>>) \o <<z>> = <<x, y, z>>
    <2>1. <<b>> \o <<x, y>> = <<b, x, y>> /\ <<x, y>> \o <<z>> = <<x, y, z>>
      BY Results
    <2>2. /\ <<>> \o <<x, y>> = <<x, y>> /\ <<x, y>> \o <<>> = <<x, y>>
          /\ <<b, x, y>> \o <<>> = <<b, x, y>>
      OBVIOUS
    <2> QED
      BY <2>1, <2>2, Zenon
  <1>5. (head \o <<x, y>>) \o tail \in {<<x, y>>, <<b, x, y>>, <<x, y, z>>}
    <2>1. CASE l.lines = 0
      <3>1. l.lines + 1 # NumLines(l.mode)
        BY <1>2, <2>1
      <3> QED
        BY <1>4, <2>1, <3>1, Zenon
    <2>2. CASE l.lines # 0 /\ l.lines + 1 = NumLines(l.mode)
      BY <1>4, <2>2, Zenon
    <2>3. CASE l.lines # 0 /\ l.lines + 1 # NumLines(l.mode)
      BY <1>4, <2>3, Zenon
    <2> QED
      BY <2>1, <2>2, <2>3
  <1>8. LineEntries(l, r0, r1) # <<>>
    <2>1. LineEntries(l, r0, r1) = (head \o <<x, y>>) \o tail
      BY DEF LineEntries, b, x, y, z
    <2>2. <<x, y>> # <<>> /\ <<b, x, y>> # <<>> /\ <<x, y, z>> # <<>>
      OBVIOUS
    <2> HIDE DEF head, tail
    <2> QED
      BY <1>5, <2>1, <2>2
  <1> HIDE DEF head, tail
  <1>6. CASE pre = <<>>
    <2>1. Good(<<x, y>>) /\ Good(<<b, x, y>>) /\ Good(<<x, y, z>>)
      BY <1>1
    <2>2. /\ <<>> \o <<x, y>> = <<x, y>> /\ <<>> \o <<b, x, y>> = <<b, x, y>>
          /\ <<>> \o <<x, y, z>> = <<x, y, z>>
      OBVIOUS
    <2>3. seq \in {<<x, y>>, <<b, x, y>>, <<x, y, z>>}
      BY <1>3, <1>5, <1>6, <2>2
    <2> HIDE DEF Good
    <2>4. Good(seq)
      BY <2>1, <2>3
    <2> QED
      BY <1>8, <2>4 DEF Good, seq
  <1>7. ASSUME NEW c, pre = <<DecodedVISCode(c)>> PROVE Good(seq)
    <2> DEFINE e == DecodedVISCode(c)
    <2>1. good(e)
      BY <1>1
    <2> HIDE DEF e
    <2>2. Good(<<e, x, y>>) /\ Good(<<e, b, x, y>>) /\ Good(<<e, x, y, z>>)
      BY <1>1, <2>1
    <2>3. /\ <<e>> \o <<x, y>> = <<e, x, y>> /\ <<e>> \o <<b, x, y>> = <<e, b, x, y>>
          /\ <<e>> \o <<x, y, z>> = <<e, x, y, z>>
      BY Results
    <2>4. pre = <<e>>
      BY <1>7 DEF e
    <2>5. seq \in {<<e, x, y>>, <<e, b, x, y>>, <<e, x, y, z>>}
      BY <1>3, <1>5, <2>3, <2>4
    <2> HIDE DEF Good
    <2> QED
      BY <2>2, <2>5
  <1> QED
    BY <1>6, <1>7, <1>8 DEF Code, seq

\* The code and the pulse are no rows.
LEMMA SignsFit ==
  ASSUME NEW pre, Signs(pre)
  PROVE  \A i \in DOMAIN pre : pre[i].what # "row"
  <1>1. LineSynchronization.what # "row" /\ \A c : DecodedVISCode(c).what # "row"
    BY DEF LineSynchronization, DecodedVISCode
  <1> QED
    BY <1>1 DEF Signs

\* The rest of the invariant in terms of the processor.
Full(p) == Len(p.receiver.rows) <= Modes[p.receiver.mode].height

LEMMA RowsAreFull == Fits(Now) => (RowsFitTheImage <=> Full(Now))
  <1> SUFFICES ASSUME Fits(Now) PROVE RowsFitTheImage <=> Full(Now)
    OBVIOUS
  <1>1. Now.receiver = receiver
    BY DEF Now
  <1>2. receiver.rows \in Seq(RowsOf(receiver.mode))
    BY <1>1 DEF Fits
  <1>3. \A i \in DOMAIN receiver.rows : receiver.rows[i] \in RowsOf(receiver.mode)
    BY <1>2
  <1>4. \A row \in RowsOf(receiver.mode) : DOMAIN row = 0 .. Modes[receiver.mode].width - 1
    BY DEF RowsOf
  <1> QED
    BY <1>1, <1>3, <1>4 DEF RowsFitTheImage, Full

\* The line decoder and the processor, as the invariant relates them.
Related(l, p) == LineTypes(l) /\ Counted(l, p.receiver) /\ Fits(p) /\ Full(p)

LEMMA InvAsRelation ==
  LinkInv <=> tone \in Nat /\ Related(line, Now) /\ ResultFits
  <1>1. Now.receiver = receiver
    BY DEF Now
  <1>2. LinesAreCounted <=> Counted(line, Now.receiver)
    BY <1>1 DEF LinesAreCounted, Counted
  <1> QED
    BY <1>2, TypesOfLink, RowsAreFull DEF LinkInv, Related

\* A sample that completes no line leaves the image.
LEMMA PartOfLine ==
  ASSUME NEW L, NEW p, Related(L, p), NEW t \in Nat, LineResult(L, t) = <<>>
  PROVE  Related(LineAfter(L, t), p)
  <1> DEFINE m == LineAfter(L, t)
  <1>1. LineTypes(L) /\ Counted(L, p.receiver)
    BY DEF Related
  <1>2. CASE L.state = "WaitForSyncEvent"
    BY <1>2, WaitingLine
  <1>3. CASE L.state = "DecodeLine"
    <2>1. \A r0, r1 \in RowsOf(L.mode) : LineEntries(L, r0, r1) # <<>>
      BY <1>1, LineEntriesFit DEF Code
    <2>2. /\ LineTypes(m) /\ m.mode = L.mode /\ m.lines = L.lines /\ m.state = "DecodeLine"
      BY <1>1, <1>3, <2>1, LineEffect
    <2> HIDE DEF m
    <2>3. Counted(m, p.receiver)
      BY <1>1, <1>3, <2>2 DEF Counted
    <2> QED
      BY <2>2, <2>3 DEF Related, m
  <1> QED
    BY <1>1, <1>2, <1>3 DEF LineTypes

\* A sample that completes a line adds its rows to the image.
LEMMA EndOfLine ==
  ASSUME NEW L, NEW p, Related(L, p), NEW t \in Nat, LineResult(L, t) # <<>>,
         NEW pre, Code(pre)
  PROVE  /\ Related(LineAfter(L, t), Processed(p, pre \o LineResult(L, t)))
         /\ Len(pre \o LineResult(L, t)) <= 4
         /\ \A i \in DOMAIN (pre \o LineResult(L, t)) : (pre \o LineResult(L, t))[i].what # "sync"
  <1> DEFINE m == LineAfter(L, t)
  <1>1. LineTypes(L) /\ Counted(L, p.receiver) /\ Fits(p) /\ p \in Processors
    BY DEF Related, Fits
  <1>2. L.state = "DecodeLine"
    BY <1>1, WaitingLine DEF LineTypes
  <1>3. /\ LineTypes(m) /\ m.mode = L.mode /\ m.lines = L.lines + 1
        /\ m.state = IF L.lines + 1 = NumLines(L.mode) THEN "WaitForSyncEvent" ELSE "DecodeLine"
    BY <1>1, <1>2, LineEffect
  <1>4. PICK r0 \in RowsOf(L.mode), r1 \in RowsOf(L.mode) :
          LineResult(L, t) = LineEntries(L, r0, r1)
    BY <1>1, <1>2, LineEffect
  <1>5. /\ Len(pre \o LineResult(L, t)) <= 4
        /\ \A i \in DOMAIN (pre \o LineResult(L, t)) : (pre \o LineResult(L, t))[i].what # "sync"
    BY <1>1, <1>4, LineEntriesFit
  <1> DEFINE q == Processed(p, pre \o LineResult(L, t))
  <1>6. q = Ended(p, L, r0, r1)
    BY <1>1, <1>4, LineProcessed
  <1>7. Fits(q) /\ q.receiver.mode = L.mode /\ Len(q.receiver.rows) = 2 * (L.lines + 1)
    BY <1>1, <1>2, <1>6, LineFits
  <1> HIDE DEF m, q
  <1>8. /\ L.lines \in Nat /\ NumLines(L.mode) \in Nat /\ Modes[L.mode].height \in Nat
        /\ 2 * NumLines(L.mode) <= Modes[L.mode].height /\ L.lines < NumLines(L.mode)
    BY <1>1, <1>2, ModeSizes DEF LineTypes, Counted
  <1>9. Full(q)
    BY <1>7, <1>8 DEF Full
  <1>10. Counted(m, q.receiver)
    BY <1>3, <1>7, <1>8 DEF Counted
  <1> QED
    BY <1>3, <1>5, <1>7, <1>9, <1>10 DEF Related, m, q

LEMMA SampleKeepsInv == LinkInv /\ Sample => LinkInv'
  <1> SUFFICES ASSUME LinkInv, Sample PROVE LinkInv'
    OBVIOUS
  <1>0. /\ LinkTypeOK /\ LinesAreCounted /\ tone \in Nat /\ Fits(Now) /\ Full(Now)
        /\ Now \in Processors /\ Now.receiver = receiver
    BY InvAsRelation DEF LinkInv, Related, Fits, Now
  <1>1. PICK L, pre :
           /\ LineTypes(L) /\ Counted(L, receiver) /\ Signs(pre)
           /\ line' = LineAfter(L, tone) /\ result' = pre \o LineResult(L, tone)
           /\ Code(pre) \/ LineResult(L, tone) = <<>>
           /\ receiver' = Processed(Now, result').receiver
           /\ files' = Processed(Now, result').files
           /\ tone' \in Nat
    BY <1>0, SampleEffect
  <1> DEFINE p == Processed(Now, result')
  <1>2. Related(L, Now)
    BY <1>0, <1>1 DEF Related
  <1>3. Related(line', p) /\ ResultFits'
    <2>1. CASE LineResult(L, tone) = <<>>
      <3>1. result' = pre
        <4>1. pre \o <<>> = pre
          BY <1>1 DEF Signs
        <4> QED
          BY <1>1, <2>1, <4>1
      <3>2. p = Now /\ Len(result') <= 2
        BY <1>0, <1>1, <3>1, SignsProcessed
      <3> HIDE DEF p
      <3>3. ResultFits'
        <4>1. Len(result') <= 4 /\ ~\E i \in DOMAIN result' : result'[i].what = "row"
          <5>1. Len(result') <= 4
            BY <1>1, <3>1, <3>2 DEF Signs
          <5> QED
            BY <1>1, <3>1, <5>1, SignsFit
        <4> QED
          BY <4>1 DEF ResultFits
      <3>4. Related(line', Now)
        BY <1>0, <1>1, <1>2, <2>1, PartOfLine
      <3> QED
        BY <3>2, <3>3, <3>4
    <2>2. CASE LineResult(L, tone) # <<>>
      <3>1. /\ Related(line', p) /\ Len(result') <= 4
            /\ \A i \in DOMAIN result' : result'[i].what # "sync"
        BY <1>0, <1>1, <1>2, <2>2, EndOfLine
      <3> QED
        BY <3>1 DEF ResultFits
    <2> QED
      BY <2>1, <2>2
  <1> HIDE DEF p
  <1>4. Now' = p
    <2>1. p \in Processors
      BY <1>3 DEF Related, Fits
    <2>2. Now' = [receiver |-> p.receiver, files |-> p.files]
      BY <1>1 DEF Now, p
    <2> QED
      BY <2>1, <2>2 DEF Processors
  <1>5. Related(line, Now)'
    BY <1>3, <1>4 DEF Related, Counted, LineTypes
  <1>6. (LinkInv <=> tone \in Nat /\ Related(line, Now) /\ ResultFits)'
    BY InvAsRelation, PTL
  <1> QED
    BY <1>1, <1>3, <1>5, <1>6

\* The file ends: the image is stored as it is.
LEMMA FlushKeepsInv == LinkInv /\ Flush => LinkInv'
  <1> SUFFICES ASSUME LinkInv, Flush PROVE LinkInv'
    OBVIOUS
  <1> DEFINE p == EndImage(Now)
  <1>1. tone \in Nat /\ Related(line, Now) /\ ResultFits /\ Now \in Processors
    BY InvAsRelation DEF Related, Fits
  <1>2. /\ receiver' = p.receiver /\ files' = p.files
        /\ line' = line /\ result' = result /\ tone' = tone
    BY DEF Flush, Now
  <1>3. /\ p \in Processors /\ p.receiver.mode = Now.receiver.mode
        /\ p.receiver.rows = Now.receiver.rows /\ Fits(p)
    BY <1>1, EndImageTyped, EndFits DEF Related
  <1> HIDE DEF p
  <1>4. Related(line, p)
    BY <1>1, <1>3 DEF Related, Counted, Full
  <1>5. Now' = p
    <2>1. Now' = [receiver |-> p.receiver, files |-> p.files]
      BY <1>2 DEF Now
    <2> QED
      BY <1>3, <2>1 DEF Processors
  <1>6. Related(line, Now)'
    BY <1>2, <1>4, <1>5 DEF Related, Counted, LineTypes
  <1>7. ResultFits'
    BY <1>1, <1>2 DEF ResultFits
  <1>8. (LinkInv <=> tone \in Nat /\ Related(line, Now) /\ ResultFits)'
    BY InvAsRelation, PTL
  <1> QED
    BY <1>1, <1>2, <1>6, <1>7, <1>8

LEMMA InitInv == Init => LinkInv
  <1> SUFFICES ASSUME Init PROVE LinkInv
    OBVIOUS
  <1>1. /\ tone = 1 /\ line = LineInit(DefaultMode) /\ result = <<>> /\ files = <<>>
        /\ receiver = [decoding |-> FALSE, mode |-> DefaultMode, rows |-> <<>>]
    BY DEF Init
  <1>2. DefaultMode \in DOMAIN Modes
    BY LinkAssumption
  <1>3. LineTypes(line) /\ line.state # "DecodeLine"
    BY <1>1, <1>2 DEF LineInit, LineTypes, NoTone
  <1>4. Now \in Processors
    <2>1. receiver \in Receivers
      BY <1>1, <1>2 DEF Receivers
    <2> QED
      BY <1>1, <2>1 DEF Now, Processors
  <1>5. /\ Now.receiver.rows = <<>> /\ Now.files = <<>> /\ Now.receiver.mode = DefaultMode
    BY <1>1 DEF Now
  <1>6. Fits(Now)
    BY <1>4, <1>5 DEF Fits
  <1>7. Full(Now)
    <2>1. Len(Now.receiver.rows) = 0 /\ Modes[DefaultMode].height \in Nat
      BY <1>2, <1>5, ModeSizes
    <2> QED
      BY <1>5, <2>1 DEF Full
  <1>8. Counted(line, Now.receiver)
    BY <1>3 DEF Counted
  <1>9. ResultFits
    BY <1>1 DEF ResultFits
  <1> QED
    BY <1>1, <1>3, <1>6, <1>7, <1>8, <1>9, InvAsRelation DEF Related

--------------------------------------------------------------------------------
(* The theorems.                                                            *)

\* The line decoder counts the lines of the image that the processor fills, from
\* whatever the transmission and its faults make of the VIS codes and pulses.
THEOREM LinkInvariant == Spec => []LinkInv
  <1>1. LinkInv /\ UNCHANGED vars => LinkInv'
    <2> SUFFICES ASSUME LinkInv, UNCHANGED vars PROVE LinkInv'
      OBVIOUS
    <2>1. /\ tone' = tone /\ line' = line /\ result' = result /\ receiver' = receiver
          /\ files' = files
      BY DEF vars
    <2> QED
      BY <2>1 DEF LinkInv, LinkTypeOK, LinesAreCounted, RowsFitTheImage, ResultFits
  <1>2. LinkInv /\ [Next]_vars => LinkInv'
    BY <1>1, SampleKeepsInv, FlushKeepsInv DEF Next
  <1> QED
    BY <1>2, InitInv, PTL DEF Spec

\* The ResultProcessor copies no row beyond the height of the image, and none of
\* another width than the image's, although it checks neither.
THEOREM RowsAlwaysFit == Spec => []RowsFitTheImage
  BY LinkInvariant, PTL DEF LinkInv

\* The four entries that DecodedData has room for are enough for every sample,
\* and the sample of a pulse never completes a line too.
THEOREM ResultAlwaysFits == Spec => []ResultFits
  BY LinkInvariant, PTL DEF LinkInv
================================================================================
