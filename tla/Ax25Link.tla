-------------------------------- MODULE Ax25Link --------------------------------
(***************************************************************************)
(* The AX.25 encoder and decoder with a link between them that disturbs    *)
(* the bytes of a frame, as the HDLC layer hands them over: a begin, at    *)
(* least one byte, an end (FramesAreDelimited of HdlcLink). Bits of a byte *)
(* may be wrong, bytes may be missing or additional, and what looks like a *)
(* marker may split the frame.                                             *)
(***************************************************************************)
EXTENDS Ax25Reception

CONSTANTS
  ForeignContents,  \* contents of frames that do not fit into a Message
  WrongBits,        \* which bits of a byte may be wrong
  NoiseBytes,       \* the bytes that may be additional
  MaxSentFrames,    \* bound: frames that are sent
  MaxDisturbances   \* bound: disturbances

ASSUME LinkAssumption ==
  /\ ForeignContents \subseteq Seq(Byte) \ {<<>>}
  /\ WrongBits \subseteq 1..8
  /\ NoiseBytes \subseteq Byte

VARIABLES
  arriving,   \* what arrives next: "idle", "begin" or "data"
  channel,    \* the bytes of the frame that still have to arrive
  intact,     \* whether nothing disturbed the last frame
  sent_frames, disturbances

linkVars ==
  <<receptionVars, arriving, channel, intact, sent_frames, disturbances>>

--------------------------------------------------------------------------------
LinkInit ==
  /\ ReceptionInit
  /\ arriving = "idle"
  /\ channel = <<>>
  /\ intact = FALSE
  /\ sent_frames = 0
  /\ disturbances = 0

Transmit(bytes, messages) ==
  /\ arriving = "idle"
  /\ sent_frames < MaxSentFrames
  /\ sent_frames' = sent_frames + 1
  /\ arriving' = "begin"
  /\ channel' = bytes
  /\ owed' = messages
  /\ intact' = TRUE
  /\ UNCHANGED <<decoderVars, seen, decoded, before, disturbances>>

Send(m) == Transmit(Encode(m), {m})

SendForeign(content) == Transmit(WithFCS(content), {})

ArriveBegin ==
  /\ arriving = "begin"
  /\ ReceiveBegin
  /\ arriving' = "data"
  /\ UNCHANGED <<channel, intact, sent_frames, disturbances>>

ArriveByte ==
  /\ arriving = "data"
  /\ channel # <<>>
  /\ ReceiveByte(Head(channel))
  /\ channel' = Tail(channel)
  /\ UNCHANGED <<arriving, intact, sent_frames, disturbances>>

ArriveEnd ==
  /\ arriving = "data"
  /\ channel = <<>>
  /\ ReceiveEnd
  /\ arriving' = "idle"
  /\ UNCHANGED <<channel, intact, sent_frames, disturbances>>

--------------------------------------------------------------------------------
(* Disturbances.                                                            *)

DisturbFrame ==
  /\ disturbances < MaxDisturbances
  /\ disturbances' = disturbances + 1
  /\ intact' = FALSE

FlipBit(i) ==
  /\ arriving = "data" /\ channel # <<>>
  /\ DisturbFrame
  /\ channel' = <<[Head(channel) EXCEPT ![i] = 1 - @]>> \o Tail(channel)
  /\ UNCHANGED <<receptionVars, arriving, sent_frames>>

LoseByte ==
  /\ arriving = "data" /\ channel # <<>>
  /\ DisturbFrame
  /\ channel' = Tail(channel)
  /\ UNCHANGED <<receptionVars, arriving, sent_frames>>

AddByte(byte) ==
  /\ arriving = "data"
  /\ DisturbFrame
  /\ channel' = <<byte>> \o channel
  /\ UNCHANGED <<receptionVars, arriving, sent_frames>>

\* An end and a begin in the middle of the frame.
Split ==
  /\ arriving = "data" /\ seen # <<>> /\ channel # <<>>
  /\ DisturbFrame
  /\ ReceiveEnd
  /\ arriving' = "begin"
  /\ UNCHANGED <<channel, sent_frames>>

--------------------------------------------------------------------------------
Sender ==
  \/ \E m \in Messages : Send(m)
  \/ \E content \in ForeignContents : SendForeign(content)

Arrival == ArriveBegin \/ ArriveByte \/ ArriveEnd

Disturbance ==
  \/ \E i \in WrongBits : FlipBit(i)
  \/ LoseByte
  \/ \E byte \in NoiseBytes : AddByte(byte)
  \/ Split

LinkNext == Sender \/ Arrival \/ Disturbance

LinkSpec == LinkInit /\ [][LinkNext]_linkVars

--------------------------------------------------------------------------------
(* Properties.                                                              *)

\* Byte by byte, through two windows, the decoder returns what the layout of
\* the whole frame says, however disturbed the frame is: one message when the
\* bytes between the markers are a frame with a correct checksum that fits,
\* none otherwise, and nothing of an earlier frame.
DecodesTheFrame == arriving # "data" => ReturnsTheMessage

\* The message of a frame that nothing disturbed is delivered.
CleanFrameDelivered == arriving = "idle" /\ intact => owed = {}

\* What is delivered is what was sent, once and in order: disturbed frames
\* are lost, and never taken for a message that nobody sent.
FrameChannel == INSTANCE MessageChannel
                  WITH Messages <- {AsReceived(m) : m \in Messages},
                       pending <- {AsReceived(m) : m \in owed},
                       delivered <- decoded

ImplementsFrameChannel == FrameChannel!Spec
--------------------------------------------------------------------------------
(* The inductive invariant of the first two.                                *)

LinkTypeOK == arriving \in {"idle", "begin", "data"} /\ channel \in Seq(Byte)

\* The bytes of a message that nothing disturbed so far.
CleanFrameOnItsWay ==
  intact /\ owed # {} =>
    \E m \in Messages :
      \/ arriving = "begin" /\ channel = Encode(m)
      \/ /\ arriving = "data" /\ seen \o channel = Encode(m)
         /\ Len(decoded) = before

LinkInv ==
  /\ ReceptionInv /\ LinkTypeOK
  /\ arriving = "data" => FollowsTheBytes
  /\ DecodesTheFrame
  /\ CleanFrameOnItsWay
================================================================================
