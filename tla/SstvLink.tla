------------------------------- MODULE SstvLink -------------------------------
(***************************************************************************)
(* An SSTV transmission and its reception, sample by sample, up to the     *)
(* images that picture/sstv/tool/decoder.cc stores: the composition of     *)
(* the VIS decoder, the line synchronisation, the line decoder and the     *)
(* processor of their results (decoder.h, picture_decoder.h).              *)
(*                                                                         *)
(* The transmission is a fixed sequence of pictures, each of which may be  *)
(* broken off after some of its lines.  A fault replaces the frequency of  *)
(* some consecutive tones of it by another one.                            *)
(***************************************************************************)
EXTENDS SstvLineDecoder

CONSTANTS
    Transmission,       (* the pictures: a sequence of [code, vox, lines]  *)
    DefaultMode,        (* the mode to decode in when no VIS was received  *)
    SilenceDuration,    (* of the silence around the pictures              *)
    Bursts              (* the faults: each a number of tones that are hit *)
                        (* and the frequency that is received instead      *)

ASSUME LinkAssumption ==
    /\ Transmission \in Seq([code : DOMAIN Modes, vox : BOOLEAN, lines : Nat])
    /\ Transmission # <<>>
    /\ DefaultMode \in DOMAIN Modes
    /\ Bursts \subseteq [length : Nat \ {0}, frequency : Nat]

VARIABLES
    fault,      (* the tones that are hit and what is received instead     *)
    tone,       (* the tone that the next sample falls into ...            *)
    elapsed,    (* ... and the time since the beginning of that tone       *)
    delayed,    (* the samples in the prefilter of the VIS decoder         *)
    vis,        (* the VIS decoder                                         *)
    sync,       (* the line synchronisation                                *)
    line,       (* the line decoder                                        *)
    result,     (* what the decoder returned for the last sample           *)
    receiver,   (* the image that the ResultProcessor assembles            *)
    files       (* the images that it has stored, each with its number     *)

vars == <<fault, tone, elapsed, delayed, vis, sync, line, result, receiver,
          files>>

-------------------------------------------------------------------------------
(* The signal. *)

(* What is sent of a picture: all of it, or its first lines. *)
LineTones(code) == PixelsPerLine(code) + 2
Sent(picture) ==
    LET tones == Encoder(picture.code, picture.vox)
        missing == NumLines(picture.code) - picture.lines
    IN  SubSeq(tones, 1, Len(tones) - missing * LineTones(picture.code))

Silence == <<Tone(0, SilenceDuration)>>

Tones ==
    FoldLeft(LAMBDA sent, picture :
                 sent \o Silence \o Sent(picture),
             <<>>, Transmission)
    \o Silence

(* A sample is taken in every tone. *)
ASSUME TonesAssumption ==
    \A i \in DOMAIN Tones : Tones[i].duration >= SamplePeriod

(* The number of tones before each of the pictures, with their silence. *)
TonesBefore ==
    FoldLeft(LAMBDA before, picture :
                 Append(before, Last(before) + 1 + Len(Sent(picture))),
             <<1>>, Transmission)

VISBegin(p) ==
    TonesBefore[p] + (IF Transmission[p].vox THEN Len(VOXTones) ELSE 0)

(* The tone of pixel k (from 0) of line l (from 0) of picture p. *)
PixelTone(p, l, k) ==
    VISBegin(p) + NumVISTones
        + l * LineTones(Transmission[p].code) + 2 + k + 1

Received(i) ==
    IF i \in fault.tones THEN fault.frequency ELSE Tones[i].frequency

NoFault == [tones |-> {}, frequency |-> 0]
Faults ==
    {NoFault} \union
    {[tones |-> first .. first + burst.length - 1,
      frequency |-> burst.frequency] :
        first \in DOMAIN Tones, burst \in Bursts}

-------------------------------------------------------------------------------
(* The ResultProcessor of the tool. *)

(* Every image is given the number after those that were decoded, of which *)
(* the tool has a count: num_decoded_images_.  It never counts one.        *)
NumDecodedImages == 0

EndImage(processor) ==
    IF ~processor.receiver.decoding THEN processor
    ELSE [receiver |-> [processor.receiver EXCEPT !.decoding = FALSE],
          files    |-> Append(processor.files,
                              [number |-> NumDecodedImages + 1,
                               mode   |-> processor.receiver.mode,
                               rows   |-> processor.receiver.rows])]

BeginImage(processor, mode) ==
    [processor EXCEPT !.receiver =
        [decoding |-> TRUE, mode |-> mode, rows |-> <<>>]]

AppendImageRow(processor, pixels) ==
    [processor EXCEPT !.receiver.rows = Append(@, pixels)]

Process(processor, entry) ==
    CASE entry.what = "begin" -> BeginImage(EndImage(processor), entry.mode)
      [] entry.what = "row" -> AppendImageRow(processor, entry.pixels)
      [] entry.what = "end" -> EndImage(processor)
      [] OTHER -> processor

-------------------------------------------------------------------------------
Init ==
    /\ fault \in Faults
    /\ tone = 1
    /\ elapsed = 0
    /\ delayed = [i \in 1 .. VISDelay |-> 0]
    /\ vis = VISInit
    /\ sync = SyncInit
    /\ line = LineInit(DefaultMode)
    /\ result = <<>>
    /\ receiver = [decoding |-> FALSE, mode |-> DefaultMode, rows |-> <<>>]
    /\ files = <<>>

(* The next sample is one period later. *)
Advance ==
    LET later == elapsed + SamplePeriod
        over == later >= Tones[tone].duration
    IN  /\ tone' = IF over THEN tone + 1 ELSE tone
        /\ elapsed' = IF over THEN later - Tones[tone].duration ELSE later

(* Decoder::operator(): the VIS decoder, the line synchronisation and the  *)
(* line decoder are given the sample, in this order, and the result is     *)
(* handed to the ResultProcessor.                                          *)
Sample ==
    LET frequency == Received(tone)
        settled == Append(delayed, frequency)
        code == VISResult(vis)
        verticalSync ==
            IF code = NoCode THEN line
            ELSE OnVerticalSync(line, code, VISDelayDuration)
        synchronised == SyncDetected(sync, frequency)
        lineSync == IF synchronised THEN OnLineSync(verticalSync)
                                    ELSE verticalSync
        processed ==
            FoldLeft(Process, [receiver |-> receiver, files |-> files], result')
    IN  /\ tone <= Len(Tones)
        /\ vis' = VISAfter(vis, Head(settled))
        /\ delayed' = Tail(settled)
        /\ sync' = SyncAfter(sync, DefaultMode, frequency)
        /\ line' = LineAfter(lineSync, tone)
        /\ result' = (IF code = NoCode THEN <<>> ELSE <<DecodedVISCode(code)>>)
                     \o (IF synchronised THEN <<LineSynchronization>>
                                         ELSE <<>>)
                     \o LineResult(lineSync, tone)
        /\ receiver' = processed.receiver
        /\ files' = processed.files
        /\ Advance
        /\ UNCHANGED fault

(* The file has ended: what was received of the last image is stored. *)
Flush ==
    /\ tone > Len(Tones)
    /\ receiver.decoding
    /\ LET ended == EndImage([receiver |-> receiver, files |-> files])
       IN  /\ receiver' = ended.receiver
           /\ files' = ended.files
    /\ UNCHANGED <<fault, tone, elapsed, delayed, vis, sync, line, result>>

Next == Sample \/ Flush

Spec == Init /\ [][Next]_vars

FairSpec == Spec /\ WF_vars(Next)
-------------------------------------------------------------------------------
(* Properties. *)

(* DecodedData has room for four entries (result.h:84), and nothing checks *)
(* it: the sample that begins or continues a line never completes one too. *)
ResultFits ==
    /\ Len(result) <= 4
    /\ (\E i \in DOMAIN result : result[i].what = "sync") =>
           ~\E i \in DOMAIN result : result[i].what = "row"

(* The processor copies the rows to where the image says, without a check  *)
(* (decoder.cc:242-249): no picture has more rows than its mode, nor rows  *)
(* of the width of another one, however the synchronisations interrupt it. *)
RowsFitTheImage ==
    /\ Len(receiver.rows) <= Modes[receiver.mode].height
    /\ \A i \in DOMAIN receiver.rows :
           DOMAIN receiver.rows[i] = 0 .. Modes[receiver.mode].width - 1

(* The VIS code protects itself: when one tone of the transmission was     *)
(* received as another, the code that is reported is one that was sent.    *)
SingleErrorDetected ==
    Cardinality(fault.tones) <= 1 =>
        \A i \in DOMAIN result :
            result[i].what = "vis" =>
                \E p \in DOMAIN Transmission :
                    result[i].code = Transmission[p].code

-------------------------------------------------------------------------------
(* The inductive invariant of the first two. *)

Pixel == [y : Nat, cb : Nat, cr : Nat]
RowsOf(mode) == [0 .. Modes[mode].width - 1 -> Pixel]

(* The line decoder has its types, and images have rows of their own width. *)
LinkTypeOK ==
    /\ tone \in Nat
    /\ line \in [state : {"WaitForSyncEvent", "DecodeLine"},
                 mode : DOMAIN Modes, samples : Nat, offset : Nat,
                 lines : Nat, started : BOOLEAN, pixels : Nat,
                 luma : [0 .. PixelsPerLine(line.mode) - 1 -> Nat]]
    /\ receiver \in [decoding : BOOLEAN, mode : DOMAIN Modes,
                     rows : Seq(RowsOf(receiver.mode))]
    /\ files \in Seq({files[i] : i \in DOMAIN files})
    /\ \A i \in DOMAIN files :
           files[i] \in [number : Nat, mode : DOMAIN Modes,
                        rows : Seq(RowsOf(files[i].mode))]

(* The line decoder counts the lines of the image that the processor fills,  *)
(* once the first of them has begun it.                                      *)
LinesAreCounted ==
    line.state = "DecodeLine" =>
        /\ line.lines < NumLines(line.mode)
        /\ line.lines > 0 => /\ receiver.mode = line.mode
                             /\ Len(receiver.rows) = 2 * line.lines

LinkInv == LinkTypeOK /\ LinesAreCounted /\ RowsFitTheImage /\ ResultFits

-------------------------------------------------------------------------------
VISTones(p) == VISBegin(p) + 1 .. VISBegin(p) + NumVISTones
SyncTone(p, l) == PixelTone(p, l, 0) - 2
SentLines(p) == 0 .. Transmission[p].lines - 1
IsWhole(p) == Transmission[p].lines = NumLines(Transmission[p].code)

(* A fault hits the VIS of a picture, or the tone before it, only where    *)
(* the default mode is the right one, no picture is being decoded and the  *)
(* first line is left to start this one; more than one tone could make one *)
(* code out of another.                                                    *)
VISIsLeft(p) ==
    \/ fault.tones \intersect VISBegin(p) .. SyncTone(p, 0) - 1 = {}
    \/ /\ Transmission[p].code = DefaultMode
       /\ \A q \in 1 .. p - 1 : IsWhole(q)
       /\ Cardinality(fault.tones \intersect VISTones(p)) <= 1
       /\ SyncTone(p, 0) \notin fault.tones

(* The edge that ends a pulse is where it should be, if there is a pulse. *)
EdgesAreLeft(p) ==
    \A l \in SentLines(p) :
        SyncTone(p, l) + 1 \in fault.tones => SyncTone(p, l) \in fault.tones

(* A fault that the decoder can be expected to get over. *)
Harmless ==
    /\ ~NearTo(LineSyncFrequency, fault.frequency)
    /\ \A p \in DOMAIN Transmission : VISIsLeft(p) /\ EdgesAreLeft(p)

OnlyLinesAreHit ==
    \A t \in fault.tones :
        \E p \in DOMAIN Transmission :
            t \in SyncTone(p, 0) .. TonesBefore[p + 1] - 1

(* A row is made of the pixels of its place in the picture, or of a tone   *)
(* later (the clock of the line is at most a pixel late).                  *)
SampledIn(t, pixelTone) == t \in {pixelTone, pixelTone + 1}
RowOf(p, r, row) ==
    LET width == Modes[Transmission[p].code].width
        from(x, part) == PixelTone(p, r \div 2, x + width * part)
    IN  \A x \in 0 .. width - 1 :
            /\ SampledIn(row[x].y, from(x, 3 * (r % 2)))
            /\ SampledIn(row[x].cr, from(x, 1))
            /\ SampledIn(row[x].cb, from(x, 2))

(* The rows of the image are those of the picture being sent, in order,    *)
(* whichever line synchronisations were lost: the clock of the line keeps  *)
(* the fraction of a sample that a line ends early or late by.  (What the  *)
(* decoder makes of the lines that were never sent is not asked.)          *)
RowsKeepTheirLine ==
    Harmless /\ OnlyLinesAreHit =>
        \E p \in DOMAIN Transmission :
            \A i \in DOMAIN receiver.rows :
                (i - 1) \div 2 \in SentLines(p) =>
                    RowOf(p, i - 1, receiver.rows[i])

(* The image of picture p, complete. *)
ImageOf(p, image) ==
    /\ image.mode = Transmission[p].code
    /\ Len(image.rows) = Modes[image.mode].height
    /\ \A i \in DOMAIN image.rows : RowOf(p, i - 1, image.rows[i])

Stored(p) == \E i \in DOMAIN files : ImageOf(p, files[i])

(* Every picture that is sent in whole arrives, when no fault or a         *)
(* harmless one hits it, also after one that was broken off.               *)
PicturesArrive ==
    \A p \in DOMAIN Transmission :
        IsWhole(p) => (Harmless ~> Stored(p))

(* Whatever happened to the pictures before it, the last one arrives: its  *)
(* VIS brings the decoder back from wherever the fault has left it.        *)
NextPictureArrives ==
    LET last == Len(Transmission)
    IN  (\A t \in fault.tones : t < TonesBefore[last]) ~> Stored(last)
===============================================================================
