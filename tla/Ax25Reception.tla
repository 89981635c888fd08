------------------------------- MODULE Ax25Reception -------------------------------
(***************************************************************************)
(* The decoder of ax25/decoder.h with its caller, which passes it what the *)
(* HDLC layer returns, a marker or a byte at a time, and takes the message *)
(* of a result that is Ok; and the layout of a frame, which says what the  *)
(* decoder is to make of the bytes between two markers.                    *)
(*                                                                         *)
(* Two histories relate the decoder to the frame: its bytes so far, and    *)
(* how many messages had been taken when it began.                         *)
(***************************************************************************)
EXTENDS Ax25Decoder

CONSTANT Messages  \* the messages that are sent

\* A message has an array of that many repeaters (ax25/message.h).
ASSUME MessagesAssumption ==
  Messages \subseteq {m \in Message : Len(m.repeaters) <= MaxNumRepeaters}

VARIABLES
  owed,     \* the message that was sent last, until one is taken
  decoded,  \* the messages that the decoder returned
  seen,     \* the bytes since the last begin of a frame
  before    \* how many messages had been returned at that begin

receptionVars == <<decoderVars, owed, decoded, seen, before>>

ReceptionInit ==
  /\ DecoderInit
  /\ owed = {}
  /\ decoded = <<>>
  /\ seen = <<>>
  /\ before = 0

--------------------------------------------------------------------------------
\* The caller of the decoder takes the message of a result that is Ok.
TakeResult ==
  IF outcome' = "message"
  THEN decoded' = Append(decoded, message') /\ owed' = {}
  ELSE UNCHANGED <<decoded, owed>>

ReceiveBegin ==
  /\ MarkBegin
  /\ seen' = <<>>
  /\ before' = Len(decoded)
  /\ UNCHANGED <<owed, decoded>>

ReceiveByte(byte) ==
  /\ ProcessByte(byte)
  /\ TakeResult
  /\ seen' = Append(seen, byte)
  /\ UNCHANGED before

ReceiveEnd ==
  /\ MarkEnd
  /\ TakeResult
  /\ UNCHANGED <<seen, before>>

--------------------------------------------------------------------------------
(* The layout of a frame, of all of its bytes at once.                      *)

AddressLength == CallsignLength + 1

\* The number of bytes of k addresses, and the place of the last one.
AddressEnd(k) == k * AddressLength

\* There are n addresses, and the checksum follows the first e bytes.
WellFormed(bytes, n, e) ==
  /\ \A k \in 2..n : ExtensionBit(bytes[AddressEnd(k)]) = 1 <=> k = n
  /\ n - 2 <= MaxNumRepeaters
  /\ e + 2 <= Len(bytes)
  /\ IF FrameControlUsesInfo(bytes[AddressEnd(n) + 1])
     THEN /\ e + 2 = Len(bytes)
          /\ e - AddressEnd(n) - 2 \in 0..InformationCapacity
     ELSE e = AddressEnd(n) + 1
  /\ SubSeq(bytes, e + 1, e + 2) = FCSField(SubSeq(bytes, 1, e))

AddressAt(bytes, k) ==
  LET last == bytes[AddressEnd(k)]
  IN [callsign |-> [i \in 1..CallsignLength |->
        SubSeq(bytes[AddressEnd(k - 1) + i], 2, 8)],
      ssid |-> SubSeq(last, 2, 5),
      command_response_bit |-> last[8],
      has_been_repeated |-> k > 2 /\ last[8] = 1]

Parsed(bytes, n, e) ==
  LET control == AddressEnd(n) + 1
      has_info == FrameControlUsesInfo(bytes[control])
  IN [destination |-> AddressAt(bytes, 1), source |-> AddressAt(bytes, 2),
      repeaters |-> [i \in 1..(n - 2) |-> AddressAt(bytes, i + 2)],
      control |-> bytes[control],
      pid |-> IF has_info THEN bytes[control + 1] ELSE Nul,
      information |-> [i \in 1..InformationCapacity |->
        IF has_info /\ control + 1 + i <= e THEN bytes[control + 1 + i]
        ELSE Nul]]

\* The message of these bytes, if they are a frame.
FrameMessage(bytes) ==
  LET layouts == {l \in (2..Len(bytes)) \X (1..Len(bytes)) :
                    /\ AddressEnd(l[1]) < Len(bytes)
                    /\ WellFormed(bytes, l[1], l[2])}
  IN {Parsed(bytes, l[1], l[2]) : l \in layouts}

\* What was returned since the begin of the frame is what the layout says of
\* all of its bytes: one message, or none.
ReturnsTheMessage ==
  /\ Len(decoded) <= before + 1
  /\ FrameMessage(seen) = {decoded[i] : i \in before + 1 .. Len(decoded)}

--------------------------------------------------------------------------------
(* What the decoder has made of the bytes that it has seen of a frame.       *)

\* The bytes are those of the checksum and the two of its window.
ChecksumCovers ==
  LET n == Len(seen) - Len(fcs_data)
  IN /\ n \in Nat /\ (n > 0 => Len(fcs_data) = 2)
     /\ \A i \in 1..Len(fcs_data) : fcs_data[i] = seen[n + i]
     /\ actual_frame_fcs = CRCOf(SubSeq(seen, 1, n))

\* The addresses of the message are the first k of the frame.
HasAddresses(k) ==
  /\ k >= 1 => message.destination = AddressAt(seen, 1)
  /\ k >= 2 => message.source = AddressAt(seen, 2)
  /\ Len(message.repeaters) = IF k >= 2 THEN k - 2 ELSE 0
  /\ \A i \in 1..Len(message.repeaters) :
       message.repeaters[i] = AddressAt(seen, i + 2)

HasNoInformation ==
  /\ message.pid = Nul /\ message.information = EmptyInformation
  /\ information_length = 0

\* k addresses are complete, none of which is the last one.
InAddress(k) ==
  /\ Len(seen) = AddressEnd(k) + num_received_bytes
  /\ \A j \in 2..k : ExtensionBit(seen[AddressEnd(j)]) = 0
  /\ HasAddresses(k)
  /\ \A i \in 1..num_received_bytes :
       address.callsign[i] = SubSeq(seen[AddressEnd(k) + i], 2, 8)

\* There is a repeater too many: the decoder stays with it.
TooManyRepeaters ==
  /\ Len(message.repeaters) = MaxNumRepeaters
  /\ num_received_bytes = CallsignLength
  /\ Len(seen) >= AddressEnd(MaxNumRepeaters + 3)
  /\ \A j \in 2..(MaxNumRepeaters + 2) : ExtensionBit(seen[AddressEnd(j)]) = 0

\* The n-th address is the last one.
AddressesEndAt(n) ==
  /\ AddressEnd(n) <= Len(seen)
  /\ n - 2 <= MaxNumRepeaters
  /\ \A j \in 2..n : ExtensionBit(seen[AddressEnd(j)]) = 1 <=> j = n
  /\ HasAddresses(n)

HasControl(n) ==
  /\ AddressEnd(n) + 1 <= Len(seen)
  /\ message.control = seen[AddressEnd(n) + 1]

\* The bytes behind the PID are in the message and in its window, until there
\* are too many of them.
InInformation(n) ==
  LET begin == AddressEnd(n) + 2
      read == Len(seen) - begin
  IN /\ read >= 0 /\ message.pid = seen[begin]
     /\ information_length > 0 => Len(information_data) = 4
     /\ \/ read > InformationCapacity + 4 /\ InformationDropped
        \/ /\ read = information_length + Len(information_data)
           /\ \A i \in 1..Len(information_data) :
                information_data[i] = seen[begin + information_length + i]
           /\ \A i \in 1..InformationCapacity :
                message.information[i] =
                  IF i <= information_length THEN seen[begin + i] ELSE Nul

\* The verdict on a frame without information has been given.
IsJudged(n) ==
  LET e == AddressEnd(n) + 1
  IN /\ e + 2 <= Len(seen)
     /\ IF SubSeq(seen, e + 1, e + 2) = FCSField(SubSeq(seen, 1, e))
        THEN /\ Len(decoded) = before + 1
             /\ decoded[before + 1] = Parsed(seen, n, e)
        ELSE Len(decoded) = before

InHeader ==
  \/ field_state = "destination" /\ InAddress(0)
  \/ field_state = "source" /\ InAddress(1)
  \/ /\ field_state = "repeater"
     /\ \/ TooManyRepeaters
        \/ \E k \in 2..(MaxNumRepeaters + 2) : InAddress(k)

BehindHeader(n) ==
  /\ AddressesEndAt(n)
  /\ \/ /\ field_state = "control" /\ Len(seen) = AddressEnd(n)
        /\ HasNoInformation
     \/ /\ field_state = "pid" /\ Len(seen) = AddressEnd(n) + 1
        /\ HasControl(n) /\ FrameControlUsesInfo(message.control)
        /\ HasNoInformation
     \/ /\ field_state = "information"
        /\ HasControl(n) /\ FrameControlUsesInfo(message.control)
        /\ InInformation(n)
     \/ /\ field_state = "fcs"
        /\ Len(seen) = AddressEnd(n) + 1 + Len(fcs_field_data)
        /\ HasControl(n) /\ ~FrameControlUsesInfo(message.control)
        /\ HasNoInformation /\ Len(fcs_field_data) < 2
     \/ /\ field_state = "frame_skip"
        /\ HasControl(n) /\ ~FrameControlUsesInfo(message.control)
        /\ IsJudged(n)

\* Where the decoder is in the bytes that it has seen.
FollowsTheBytes ==
  /\ field_state # "frame_skip" => ChecksumCovers /\ Len(decoded) = before
  /\ \/ InHeader /\ HasNoInformation
     \/ \E n \in 2..(MaxNumRepeaters + 2) : BehindHeader(n)

\* What a reset leaves.
IsAfterReset ==
  /\ field_state = "destination" /\ num_received_bytes = 0
  /\ fcs_data = <<>> /\ actual_frame_fcs = InitCRC
  /\ information_length = 0 /\ message = EmptyMessage

ReceptionTypeOK ==
  /\ seen \in Seq(Byte)
  /\ decoded \in Seq(Message) /\ before \in 0..Len(decoded)

\* The decoder and the caller, between any two calls.
ReceptionInv ==
  /\ DecoderInv /\ ReceptionTypeOK
  /\ is_reset => IsAfterReset
================================================================================
