-------------------------------- MODULE AprsLink --------------------------------
(***************************************************************************)
(* protocol/packet/aprs/encoder.h and decoder.h: messages from the AX.25   *)
(* encoder through the link of HdlcLink to the AX.25 decoder. A message is *)
(* one frame, led and trailed by a number of empty frames. The modulator   *)
(* and the demodulator between the two chains carry levels.                *)
(*                                                                         *)
(* EncodeEmptyFrame passes the bits of the HDLC encoder to the modulator   *)
(* itself, without the NRZ(S) encoder that the frame of the message goes   *)
(* through: they become levels as they are.                                *)
(*                                                                         *)
(* What the HDLC decoder returns for a bit, up to a marker and a byte, is  *)
(* decoded by the AX.25 decoder before the next level is made.             *)
(***************************************************************************)
EXTENDS HdlcLink, Ax25Reception

CONSTANTS
  NumLeading,   \* num_leading_empty_frames_
  NumTrailing   \* num_trailing_empty_frames_

ASSUME EmptyFramesAssumption == NumLeading \in Nat /\ NumTrailing \in Nat

VARIABLES
  stage,         \* where operator() is: "leading", "message" or "trailing"
  empty_frames,  \* how many empty frames of this stage were encoded
  to_encode,     \* the bytes of the AX.25 frame still to be passed on
  out_levels,    \* levels still to be seen, made without the NRZ(S) encoder
  hdlc_result    \* what the HDLC decoder returned and is not yet decoded

sender == <<stage, empty_frames, to_encode>>

aprsVars == <<vars, sender, out_levels, hdlc_result, receptionVars>>

AprsInit ==
  /\ Init
  /\ stage = "leading"
  /\ empty_frames = 0
  /\ to_encode = <<>>
  /\ out_levels = <<>>
  /\ hdlc_result = <<>>
  /\ ReceptionInit

--------------------------------------------------------------------------------
(* The encoder.                                                             *)

\* Everything that was encoded has been received.
Idle == Ready /\ out_levels = <<>> /\ hdlc_result = <<>>

\* Both markers of an empty frame.
EncodeEmptyFrame ==
  /\ Idle
  /\ \/ stage = "leading" /\ empty_frames < NumLeading
     \/ stage = "trailing" /\ empty_frames < NumTrailing
  /\ empty_frames' = empty_frames + 1
  /\ out_levels' = FrameMarker \o FrameMarker
  /\ UNCHANGED <<vars, stage, to_encode, hdlc_result, receptionVars>>

BeginMessage(m) ==
  /\ Idle
  /\ stage = "leading" /\ empty_frames = NumLeading
  /\ BeginFrame
  /\ stage' = "message"
  /\ to_encode' = Encode(m)
  /\ owed' = {m}
  /\ UNCHANGED <<empty_frames, out_levels, hdlc_result, decoderVars, decoded,
                 seen, before>>

EncodeMessage ==
  /\ Idle
  /\ stage = "message" /\ to_encode # <<>>
  /\ EncodeByte(Head(to_encode))
  /\ to_encode' = Tail(to_encode)
  /\ UNCHANGED <<stage, empty_frames, out_levels, hdlc_result, receptionVars>>

EncodeBit ==
  /\ hdlc_result = <<>>
  /\ PushDataBit
  /\ UNCHANGED <<sender, out_levels, hdlc_result, receptionVars>>

EndMessage ==
  /\ Idle
  /\ stage = "message" /\ to_encode = <<>>
  /\ EndFrame
  /\ stage' = "trailing" /\ empty_frames' = 0
  /\ UNCHANGED <<to_encode, out_levels, hdlc_result, receptionVars>>

\* operator() has returned and is called with the next message.
NextMessage ==
  /\ Idle
  /\ stage = "trailing" /\ empty_frames = NumTrailing
  /\ stage' = "leading" /\ empty_frames' = 0
  /\ UNCHANGED <<vars, to_encode, out_levels, hdlc_result, receptionVars>>

--------------------------------------------------------------------------------
(* The decoder.                                                             *)

\* What the HDLC decoder returns for the bit of this step.
HdlcResult ==
  CASE consumer = "outside" /\ consumer' = "data" ->
         <<<<"begin">>, <<"data", received'[1]>>>>
    [] consumer = "data" /\ consumer' = "outside" -> <<<<"end">>>>
    [] consumer = "data" /\ consumer' = "data" /\ received' # received ->
         <<<<"data", received'[Len(received')]>>>>
    [] OTHER -> <<>>

ReceiveLevel ==
  /\ hdlc_result = <<>>
  /\ hdlc_result' = HdlcResult
  /\ UNCHANGED <<sender, receptionVars>>

\* A bit of the message, one of an empty frame, or a disturbance.
TransferBit == Transfer /\ ReceiveLevel /\ UNCHANGED out_levels

TransferLevel ==
  /\ out_levels # <<>>
  /\ See(Head(out_levels))
  /\ out_levels' = Tail(out_levels)
  /\ ReceiveLevel
  /\ UNCHANGED <<encoder, out_bits, sent_level, sending, clean, noise>>

DisturbLine == LineStep /\ ReceiveLevel /\ UNCHANGED out_levels

DecodeFrameByte ==
  /\ hdlc_result # <<>>
  /\ LET frame_byte == Head(hdlc_result)
     IN \/ frame_byte[1] = "begin" /\ ReceiveBegin
        \/ frame_byte[1] = "data" /\ ReceiveByte(frame_byte[2])
        \/ frame_byte[1] = "end" /\ ReceiveEnd
  /\ hdlc_result' = Tail(hdlc_result)
  /\ UNCHANGED <<vars, sender, out_levels>>

--------------------------------------------------------------------------------
Encoding ==
  \/ EncodeEmptyFrame
  \/ \E m \in Messages : BeginMessage(m)
  \/ EncodeMessage \/ EncodeBit \/ EndMessage \/ NextMessage

Decoding == TransferBit \/ TransferLevel \/ DisturbLine \/ DecodeFrameByte

AprsNext == Encoding \/ Decoding

AprsSpec == AprsInit /\ [][AprsNext]_aprsVars

--------------------------------------------------------------------------------
(* Properties.                                                              *)

\* On a line without noise the first message of an encoder is decoded by the
\* time its last bit was received, through all four layers and behind the empty
\* frames that lead it. It is the first only: see MessagesArrive.
FirstMessageArrives ==
  stage = "trailing" /\ Idle /\ noise = 0 /\ frames = 1 => owed = {}

\* Every message that is encoded on a line without noise is decoded. With two
\* messages between empty frames TLC finds the second one lost: the empty frames are
\* not NRZ(S) encoded, as the frame of the message is, and they may leave the
\* line at the other level than the one the NRZ(S) encoder goes on from. The
\* receiver then reads the first bit of the frame that follows wrong.
MessagesArrive ==
  stage = "trailing" /\ Idle /\ noise = 0 => owed = {}

\* Between two frames, whatever the line carries, the two decoders agree on the
\* bytes of the last one: what the HDLC decoder enclosed is what the AX.25
\* decoder was given, no byte less or twice, and it has returned the message
\* that all of these bytes are, or none if they are no frame.
DecodersAgree ==
  consumer = "outside" /\ hdlc_result = <<>>
    => seen = delivered /\ ReturnsTheMessage

\* With noise on the line, whatever it does to the stuffing, the markers and
\* the byte boundaries, a message is lost at worst: what the receiver returns
\* is a message that was sent, once and unchanged.
Channel == INSTANCE MessageChannel
             WITH Messages <- {AsReceived(m) : m \in Messages},
                  pending <- {AsReceived(m) : m \in owed},
                  delivered <- decoded

ImplementsChannel == Channel!Spec

--------------------------------------------------------------------------------
(* The inductive invariant of the first property.                           *)

\* From the first marker of the message to its last one.
IsSending == stage = "message" \/ (stage = "trailing" /\ empty_frames = 0)

SenderTypeOK ==
  /\ stage \in {"leading", "message", "trailing"} /\ empty_frames \in Nat
  /\ to_encode \in Seq(Byte) /\ out_levels \in Seq(Bit)
  /\ stage = "message" <=> caller # "idle"
  /\ IsSending => out_levels = <<>>
  /\ ~IsSending => Ready

\* What the HDLC decoder returned and what the AX.25 decoder has been given
\* add up to what the frame markers enclose.
Handover ==
  \/ /\ hdlc_result = <<>>
     /\ IF consumer = "data" THEN seen = received /\ FollowsTheBytes
        ELSE seen = delivered /\ ReturnsTheMessage
  \/ /\ consumer = "data" /\ Len(received) = 1
     /\ hdlc_result = <<<<"begin">>, <<"data", received[1]>>>>
  \/ /\ consumer = "data" /\ FollowsTheBytes
     /\ LET byte == received[Len(seen) + 1]
        IN received = Append(seen, byte) /\ hdlc_result = <<<<"data", byte>>>>
  \/ /\ hdlc_result = <<<<"end">>>>
     /\ consumer = "outside" /\ seen = delivered /\ FollowsTheBytes

\* The bytes of a message that nothing disturbed so far: those that the HDLC
\* encoder was given and those that follow are its frame. The message is not
\* returned twice.
MessageOnItsWay ==
  \E m \in Messages :
    /\ owed \subseteq {m} /\ frame \o to_encode = Encode(m)
    /\ stage = "trailing" => to_encode = <<>>
    /\ frame = <<>> <=> caller = "begun"

\* Whether the AX.25 decoder is in that frame, or behind it.
InItsFrame ==
  /\ caller # "begun"
  /\ consumer = "data" \/ hdlc_result # <<>>
  /\ Len(hdlc_result) < 2

BehindItsFrame ==
  /\ caller = "idle"
  /\ consumer # "data" /\ hdlc_result = <<>>

MessageInv ==
  IsSending =>
    /\ CleanInv
    /\ clean => /\ MessageOnItsWay
                /\ InItsFrame => owed = {} \/ Len(decoded) = before
                /\ BehindItsFrame => owed = {}

\* Nothing is owed any more with the empty frames behind the message.
TrailingInv == stage = "trailing" /\ clean /\ ~IsSending => owed = {}

AprsInv ==
  /\ TypeOK /\ FramesAreDelimited /\ SenderTypeOK
  /\ ReceptionInv /\ Handover
  /\ MessageInv /\ TrailingInv

\* Without noise the levels of both ends agree where a message begins: always
\* when no empty frame was sent, and before the first message, as the last
\* level of a marker is the level that both ends start with.
NoiselessInv ==
  noise = 0 =>
    /\ stage # "leading" /\ (frames <= 1 \/ NumLeading + NumTrailing = 0) => clean
    /\ NumLeading + NumTrailing = 0 => out_levels = <<>> /\ seen_level = sent_level
    /\ frames = 0 =>
         /\ stage = "leading" /\ sent_level = 0
         /\ IF out_levels = <<>> THEN seen_level = 0
            ELSE out_levels[Len(out_levels)] = 0
================================================================================
