-------------------------------- MODULE HdlcLink --------------------------------
(***************************************************************************)
(* protocol/datalink/hdlc and protocol/binary/nrzs: a bit-oriented link    *)
(* from the HDLC encoder through the NRZ(S) encoder, the line, and the     *)
(* NRZ(S) decoder to the HDLC decoder, chained as the APRS encoder and     *)
(* decoder chain them.                                                     *)
(*                                                                         *)
(* The chain is driven by callbacks, one per bit: each bit becomes a level *)
(* of the line before the next one is made, and nothing flows back.        *)
(* Between any two levels the receiver may see noise, and it may miss a    *)
(* level.                                                                  *)
(***************************************************************************)
EXTENDS Octets

CONSTANTS
  Bytes,          \* the bytes frames are made of
  FirstBytes,     \* those that a frame may begin with
  MaxFrameLength, \* bound: bytes in a frame
  MaxFrames,      \* bound: frames that are sent
  MaxNoise        \* bound: levels that are disturbed

ASSUME BytesAssumption == Bytes \subseteq Byte /\ FirstBytes \subseteq Bytes

\* Spec
FrameMarker == <<0, 1, 1, 1, 1, 1, 1, 0>>
MaxConsecutiveOnes == 5

VARIABLES
  \* The sender: hdlc::Encoder and nrzs::Encoder.
  num_sequential_ones,
  sent_level,             \* previous_encoded_bit_ of the NRZ(S) encoder
  byte_bits,              \* bits of the current byte still to be pushed
  out_bits,               \* encoded bits still to be passed to the NRZ(S) encoder
  \* The receiver: nrzs::Decoder and hdlc::Decoder.
  seen_level,             \* previous_encoded_bit_ of the NRZ(S) decoder
  raw_bit_buffer,         \* the last eight bits, oldest first
  need_open_frame,        \* need_open_frame_on_next_data_bit_
  is_inside_frame,
  num_raw_sequential_ones,
  data_bits,              \* data_bit_buffer_ and num_bits_in_data_buffer_
  \* Who calls the encoder, and who is handed the result of the decoder.
  caller,                 \* "idle", or where the caller is in a frame
  frame,                  \* the bytes of the frame the caller sends, or sent
  clean,                  \* whether nothing disturbed that frame so far
  consumer,               \* what the frame markers it was given add up to
  received,               \* the bytes since the last begin of a frame
  delivered,              \* the bytes of the last frame that was ended
  frames, noise           \* how much of the bounds is used up

encoder == <<num_sequential_ones, byte_bits>>
decoder == <<raw_bit_buffer, need_open_frame, is_inside_frame,
             num_raw_sequential_ones, data_bits>>
result == <<consumer, received, delivered>>
sending == <<caller, frame, frames>>

line == <<sent_level, seen_level>>

vars == <<encoder, out_bits, line, decoder, sending, clean, result, noise>>

--------------------------------------------------------------------------------
(* The NRZ(S) code: a 0 is a transition, a 1 is none.                       *)

\* Mutant: a 1 is the transition.
EncodeLevelMark(bit) == IF bit = 0 THEN sent_level ELSE 1 - sent_level

EncodeLevel(bit) == IF bit = 1 THEN sent_level ELSE 1 - sent_level

DecodeLevel(level) == IF level = seen_level THEN 1 ELSE 0

--------------------------------------------------------------------------------
Init ==
  /\ num_sequential_ones = 0
  /\ sent_level = 0
  /\ byte_bits = <<>>
  /\ out_bits = <<>>
  /\ seen_level = 0
  /\ raw_bit_buffer = <<1, 1, 1, 1, 1, 1, 1, 1>>
  /\ need_open_frame = FALSE
  /\ is_inside_frame = FALSE
  /\ num_raw_sequential_ones = 0
  /\ data_bits = <<>>
  /\ caller = "idle"
  /\ frame = <<>>
  /\ clean = FALSE
  /\ consumer = "outside"
  /\ received = <<>>
  /\ delivered = <<>>
  /\ frames = 0
  /\ noise = 0

--------------------------------------------------------------------------------
(* The encoder. WriteMarker leaves the count of ones alone.                 *)

Ready == out_bits = <<>> /\ byte_bits = <<>>

WriteMarker == out_bits' = FrameMarker /\ UNCHANGED encoder

\* The caller marks the begin of a frame. What the receiver saw last is what
\* was sent last, unless the line was disturbed.
BeginFrame ==
  /\ Ready
  /\ caller = "idle"
  /\ frames < MaxFrames
  /\ WriteMarker
  /\ caller' = "begun"
  /\ frame' = <<>>
  /\ frames' = frames + 1
  /\ clean' = (seen_level = sent_level)
  /\ UNCHANGED <<line, decoder, result, noise>>

\* The caller passes a byte: its bits are pushed one after the other.
EncodeByte(byte) ==
  /\ Ready
  /\ \/ caller = "begun" /\ byte \in FirstBytes
     \/ caller = "data" /\ Len(frame) < MaxFrameLength
  /\ byte_bits' = byte
  /\ caller' = "data"
  /\ frame' = Append(frame, byte)
  /\ UNCHANGED <<num_sequential_ones, out_bits, line, decoder, frames,
                 clean, result, noise>>

\* One bit, and the 0 that is stuffed after five ones.
PushDataBit ==
  LET bit == Head(byte_bits)
      ones == IF bit = 1 THEN num_sequential_ones + 1 ELSE 0
      stuff == ones = MaxConsecutiveOnes
  IN /\ out_bits = <<>>
     /\ byte_bits # <<>>
     /\ out_bits' = IF stuff THEN <<bit, 0>> ELSE <<bit>>
     /\ num_sequential_ones' = IF stuff THEN 0 ELSE ones
     /\ byte_bits' = Tail(byte_bits)
     /\ UNCHANGED <<line, decoder, sending, clean, result, noise>>

\* The caller marks the end of the frame, which may be empty.
EndFrame ==
  /\ Ready
  /\ caller \in {"begun", "data"}
  /\ WriteMarker
  /\ caller' = "idle"
  /\ UNCHANGED <<line, decoder, frame, frames, clean, result, noise>>

--------------------------------------------------------------------------------
(* The decoder: what one more bit does.                                     *)

RawBits(bit) == Append(Tail(raw_bit_buffer), bit)

\* The consumer takes a frame marker or a byte of data: Begin, at least one
\* byte, End, in this order, is what it expects.
Give(event) ==
  CASE event = "begin" /\ consumer = "outside" -> "begun"
    [] event = "data" /\ consumer \in {"begun", "data"} -> "data"
    [] event = "end" /\ consumer = "data" -> "outside"
    [] OTHER -> "confused"

\* Mutant: the marker does not close the frame.
DecodeMarkerInside(bit) ==
  /\ RawBits(bit) = FrameMarker
  /\ raw_bit_buffer' = RawBits(bit)
  /\ num_raw_sequential_ones' = 0
  /\ data_bits' = <<>>
  /\ need_open_frame' = TRUE
  /\ UNCHANGED is_inside_frame
  /\ IF is_inside_frame
     THEN /\ consumer' = Give("end")
          /\ delivered' = received
          /\ received' = <<>>
     ELSE UNCHANGED result

\* Mutant: what was counted and kept before the marker stays.
DecodeMarkerAndKeep(bit) ==
  /\ RawBits(bit) = FrameMarker
  /\ raw_bit_buffer' = RawBits(bit)
  /\ is_inside_frame' = FALSE
  /\ need_open_frame' = TRUE
  /\ IF is_inside_frame
     THEN /\ consumer' = Give("end")
          /\ delivered' = received
          /\ received' = <<>>
     ELSE UNCHANGED result
  /\ UNCHANGED <<num_raw_sequential_ones, data_bits>>

\* The marker ends a frame that is open, and the next byte opens one.
DecodeMarker(bit) ==
  /\ RawBits(bit) = FrameMarker
  /\ raw_bit_buffer' = RawBits(bit)
  /\ is_inside_frame' = FALSE
  /\ num_raw_sequential_ones' = 0
  /\ data_bits' = <<>>
  /\ need_open_frame' = TRUE
  /\ IF is_inside_frame
     THEN /\ consumer' = Give("end")
          /\ delivered' = received
          /\ received' = <<>>
     ELSE UNCHANGED result

\* A 0 after five ones is dropped.
IsStuffing(bit) == bit = 0 /\ num_raw_sequential_ones = MaxConsecutiveOnes

DropStuffing(bit) ==
  /\ RawBits(bit) # FrameMarker
  /\ IsStuffing(bit)
  /\ raw_bit_buffer' = RawBits(bit)
  /\ num_raw_sequential_ones' = 0
  /\ UNCHANGED <<need_open_frame, is_inside_frame, data_bits, result>>

CountOnes(bit) ==
  num_raw_sequential_ones' =
    IF bit = 0 THEN 0
    ELSE IF num_raw_sequential_ones < MaxConsecutiveOnes
         THEN num_raw_sequential_ones + 1 ELSE MaxConsecutiveOnes

KeepDataBit(bit) ==
  /\ RawBits(bit) # FrameMarker
  /\ ~IsStuffing(bit)
  /\ Len(data_bits) < 7
  /\ raw_bit_buffer' = RawBits(bit)
  /\ CountOnes(bit)
  /\ data_bits' = Append(data_bits, bit)
  /\ UNCHANGED <<need_open_frame, is_inside_frame, result>>

\* The eighth data bit: the byte goes to the frame that is open, or opens one.
CompleteByte(bit) ==
  LET byte == Append(data_bits, bit)
  IN /\ RawBits(bit) # FrameMarker
     /\ ~IsStuffing(bit)
     /\ Len(data_bits) = 7
     /\ raw_bit_buffer' = RawBits(bit)
     /\ CountOnes(bit)
     /\ data_bits' = <<>>
     /\ need_open_frame' = FALSE
     /\ is_inside_frame' = (is_inside_frame \/ need_open_frame)
     /\ CASE need_open_frame ->
               /\ consumer' = IF Give("begin") = "begun" THEN "data"
                              ELSE "confused"
               /\ received' = <<byte>>
          [] ~need_open_frame /\ is_inside_frame ->
               /\ consumer' = Give("data")
               /\ received' = Append(received, byte)
          [] OTHER -> UNCHANGED <<consumer, received>>
     /\ UNCHANGED delivered

DecodeBit(bit) ==
  DecodeMarker(bit) \/ DropStuffing(bit) \/ KeepDataBit(bit) \/ CompleteByte(bit)

\* The receiver sees a level.
See(level) == DecodeBit(DecodeLevel(level)) /\ seen_level' = level

\* The next bit becomes a level, and the receiver sees it.
Transfer ==
  LET level == EncodeLevel(Head(out_bits))
  IN /\ out_bits # <<>>
     /\ sent_level' = level
     /\ See(level)
     /\ out_bits' = Tail(out_bits)
     /\ UNCHANGED <<encoder, sending, clean, noise>>

--------------------------------------------------------------------------------
(* Disturbances of the line.                                                *)

Disturb == noise < MaxNoise /\ noise' = noise + 1 /\ clean' = FALSE

\* A level that nobody sent.
Noise(level) ==
  /\ Disturb
  /\ See(level)
  /\ UNCHANGED <<encoder, out_bits, sent_level, sending>>

\* A level that nobody sees.
Lose ==
  /\ Disturb
  /\ out_bits # <<>>
  /\ sent_level' = EncodeLevel(Head(out_bits))
  /\ out_bits' = Tail(out_bits)
  /\ UNCHANGED <<encoder, seen_level, decoder, sending, result>>

--------------------------------------------------------------------------------
SenderStep ==
  BeginFrame \/ PushDataBit \/ EndFrame \/ \E byte \in Bytes : EncodeByte(byte)

LineStep == Lose \/ \E level \in Bit : Noise(level)

Next == SenderStep \/ Transfer \/ LineStep

Spec == Init /\ [][Next]_vars

--------------------------------------------------------------------------------
(* Properties.                                                              *)

\* Every variable has its type; no counter of the decoder leaves its range and
\* the data buffer never holds a whole byte between two bits.
TypeOK ==
  /\ num_sequential_ones \in 0..(MaxConsecutiveOnes - 1)
  /\ sent_level \in Bit /\ seen_level \in Bit
  /\ byte_bits \in Seq(Bit) /\ out_bits \in Seq(Bit)
  /\ raw_bit_buffer \in Byte
  /\ need_open_frame \in BOOLEAN /\ is_inside_frame \in BOOLEAN
  /\ num_raw_sequential_ones \in 0..MaxConsecutiveOnes
  /\ data_bits \in Seq(Bit) /\ Len(data_bits) < 8
  /\ caller \in {"idle", "begun", "data"}
  /\ frame \in Seq(Byte) /\ clean \in BOOLEAN
  /\ consumer \in {"outside", "data", "confused"}
  /\ received \in Seq(Byte) /\ delivered \in Seq(Byte)
  /\ frames \in Nat /\ noise \in Nat

\* Whatever is on the line, the decoder hands over frames that begin, have at
\* least one byte, and end, and nothing outside of them: frames do not nest,
\* idle markers are ignored, and no byte comes without its frame.
FramesAreDelimited ==
  /\ consumer # "confused"
  /\ is_inside_frame <=> consumer = "data"
  /\ is_inside_frame <=> received # <<>>
  /\ need_open_frame => ~is_inside_frame

\* A frame that is not disturbed arrives as it was sent, byte for byte, with
\* the stuffing removed and nothing taken for a marker, whatever the line
\* carried before: the decoder synchronises on the begin of the frame.
CleanFrameArrives ==
  Ready /\ caller = "idle" /\ clean /\ frame # <<>>
    => delivered = frame /\ ~is_inside_frame

\* After a marker that was not disturbed the decoder is ready for a frame.
MarkerSynchronises ==
  Ready /\ caller = "begun" /\ clean
    => /\ need_open_frame /\ data_bits = <<>> /\ num_raw_sequential_ones = 0
       /\ raw_bit_buffer = FrameMarker

--------------------------------------------------------------------------------
(* The inductive invariants of the last two, SyncInv of the second one and   *)
(* CleanInv of the first: how far a frame has come that nothing disturbed.   *)

\* n bits of a marker were sent and are the last ones that were seen.
MarkerSent(n) ==
  /\ byte_bits = <<>>
  /\ Len(out_bits) = 8 - n
  /\ \A i \in 1..(8 - n) : out_bits[i] = FrameMarker[n + i]
  /\ \A i \in 1..n : raw_bit_buffer[8 - n + i] = FrameMarker[i]

\* The first marker of the frame.
Opening ==
  /\ frame = <<>>
  /\ \E n \in 0..8 : MarkerSent(n)
  /\ out_bits = <<>> => /\ need_open_frame /\ data_bits = <<>>
                       /\ num_raw_sequential_ones = 0

\* The ones that were counted are the last bits that were seen.
OnesAreCounted ==
  LET n == num_raw_sequential_ones
  IN /\ raw_bit_buffer[8 - n] = 0
     /\ \A i \in (9 - n)..8 : raw_bit_buffer[i] = 1

\* Of the last byte of the frame n bits were decoded, and all bytes before it.
Decoded(n) ==
  IF n = 8
  THEN received = frame /\ data_bits = <<>>
  ELSE /\ Len(received) = Len(frame) - 1
       /\ \A i \in 1..Len(received) : received[i] = frame[i]
       /\ Len(data_bits) = n
       /\ \A i \in 1..n : data_bits[i] = frame[Len(frame)][i]
       /\ Len(frame) = 1 => need_open_frame

\* Of the last byte of the frame n bits were pushed, the last one of which may
\* be on its way, with the 0 that is stuffed behind it or without. The counts of
\* ones agree, but for the first bit of a frame: it starts to count at 0 at the
\* decoder, and the encoder has not forgotten the frame before.
Pushed(n) ==
  LET byte == frame[Len(frame)]
      ones == num_raw_sequential_ones
      counts(bit) == num_sequential_ones = IF bit = 1 THEN ones + 1 ELSE 0
  IN /\ Len(byte_bits) = 8 - n
     /\ \A i \in 1..(8 - n) : byte_bits[i] = byte[n + i]
     /\ \/ /\ out_bits = <<>> /\ Decoded(n) /\ ones < MaxConsecutiveOnes
           /\ num_sequential_ones = ones \/ (n = 0 /\ ones = 0 /\ byte[1] = 0)
        \/ /\ n > 0 /\ out_bits = <<byte[n]>> /\ Decoded(n - 1)
           /\ ones < MaxConsecutiveOnes /\ counts(byte[n])
        \/ /\ n > 0 /\ byte[n] = 1 /\ out_bits = <<1, 0>> /\ Decoded(n - 1)
           /\ ones = MaxConsecutiveOnes - 1 /\ num_sequential_ones = 0
        \/ /\ out_bits = <<0>> /\ Decoded(n)
           /\ ones = MaxConsecutiveOnes /\ num_sequential_ones = 0

Sending == frame # <<>> /\ OnesAreCounted /\ \E n \in 0..8 : Pushed(n)

\* The last marker of the frame.
Closing ==
  \E n \in 0..8 :
    /\ MarkerSent(n)
    /\ IF n = 8
       THEN delivered = frame /\ ~is_inside_frame
       ELSE /\ received = frame
            /\ Len(data_bits) = n /\ \A i \in 1..n : data_bits[i] = FrameMarker[i]
            /\ n = 0 => OnesAreCounted /\ num_raw_sequential_ones < MaxConsecutiveOnes

SyncInv ==
  clean => /\ seen_level = sent_level
           /\ caller = "begun" => Opening

CleanInv ==
  /\ SyncInv
  /\ clean => /\ caller = "data" => Sending
              /\ caller = "idle" /\ frame # <<>> => Closing
================================================================================
