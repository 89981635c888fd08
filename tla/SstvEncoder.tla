----------------------------- MODULE SstvEncoder ------------------------------
(***************************************************************************)
(* The SSTV encoder: picture/sstv/encoder.h with its VOX, VIS and picture  *)
(* encoders.  A transmission is a sequence of tones, each a frequency in   *)
(* hertz for a duration in units of time.  The pixels of the picture are a *)
(* checkerboard of black and white.                                        *)
(***************************************************************************)
EXTENDS Integers, Sequences, FiniteSets, SequencesExt

CONSTANTS
    VoxDuration,      (* of one of the tones of VOXTones (100 ms)          *)
    LeaderDuration,   (* kLeaderTone (300 ms)                              *)
    BreakDuration,    (* kBreakTone (10 ms)                                *)
    BitDuration,      (* kBitDurationInMilliseconds (30 ms)                *)
    Modes             (* the specification of the mode of each VIS code:   *)
                      (* a function to records of ModeSpec                 *)

ModeSpec == [sync : Nat, porch : Nat, pixel : Nat, width : Nat, height : Nat]

ASSUME ModesAssumption ==
    /\ DOMAIN Modes \subseteq 0 .. 127
    /\ \A code \in DOMAIN Modes :
           Modes[code] \in ModeSpec /\ Modes[code].height >= 4

Unknown == -1

(* mode.h: the mode is the code itself, for the codes that have one. *)
GetModeFromVISCode(code) == IF code \in DOMAIN Modes THEN code ELSE Unknown

PixelsPerLine(mode) == 4 * Modes[mode].width
NumLines(mode) == Modes[mode].height \div 2

LineSyncFrequency == 1200
BlackFrequency == 1500
WhiteFrequency == 2300

Tone(frequency, duration) == [frequency |-> frequency, duration |-> duration]

VOXTones ==
    LET frequencies == <<1900, 1500, 1900, 1500, 2300, 1500, 2300, 1500>>
    IN  [i \in 1 .. 8 |-> Tone(frequencies[i], VoxDuration)]

LeaderSequence == <<Tone(1900, LeaderDuration), Tone(1200, BreakDuration),
                    Tone(1900, LeaderDuration)>>

StartBit == Tone(1200, BitDuration)
StopBit == Tone(1200, BitDuration)
BitTone(bit) == Tone(IF bit = 1 THEN 1100 ELSE 1300, BitDuration)

CodeBit(code, i) == (code \div 2 ^ i) % 2

(* Even parity over the 7 bits of the code. *)
ParityBit(code) == Cardinality({i \in 0 .. 6 : CodeBit(code, i) = 1}) % 2

(* The tones of VISEncoder: number ParityTone of them is the parity bit. *)
VISEncoder(code) ==
    LeaderSequence \o <<StartBit>>
    \o [i \in 1 .. 7 |-> BitTone(CodeBit(code, i - 1))]
    \o <<BitTone(ParityBit(code)), StopBit>>

NumVISTones == 13
ParityTone == 12

(* One line of PictureEncoder: two rows of pixels, as their luminances Y   *)
(* with the averages of their Cr and Cb in between.                        *)
LineEncoder(mode, line) ==
    LET spec == Modes[mode]
        luma(k) == IF (line + k) % 2 = 0 THEN BlackFrequency
                                         ELSE WhiteFrequency
    IN  <<Tone(LineSyncFrequency, spec.sync),
          Tone(BlackFrequency, spec.porch)>>
        \o [k \in 1 .. PixelsPerLine(mode) |-> Tone(luma(k), spec.pixel)]

PictureEncoder(mode) ==
    FlattenSeq([line \in 1 .. NumLines(mode) |-> LineEncoder(mode, line)])

(* Encoder::operator(): a message with no mode is not sent at all.  (The   *)
(* VIS of such a code is what the tool vis_generator sends.)               *)
Encoder(code, vox) ==
    (IF vox THEN VOXTones ELSE <<>>)
    \o VISEncoder(code)
    \o (IF GetModeFromVISCode(code) = Unknown THEN <<>>
        ELSE PictureEncoder(code))
===============================================================================
