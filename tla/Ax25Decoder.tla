------------------------------- MODULE Ax25Decoder -------------------------------
(***************************************************************************)
(* protocol/datalink/ax25/decoder.h: the decoder of a frame, one marker or *)
(* byte at a time. Two windows delay the bytes: what follows the PID       *)
(* may be information or checksum, which only the end of the frame tells.  *)
(*                                                                         *)
(* A window is the sequence of the bytes it holds, oldest first: its       *)
(* integer `data` and its `num_data_bytes` in the code. The extension bit  *)
(* of an address is used where it is read and needs no variable.           *)
(***************************************************************************)
EXTENDS Ax25Frame

CONSTANT MaxNumRepeaters

ASSUME RepeatersAssumption == MaxNumRepeaters \in Nat

VARIABLES
  is_reset,
  field_state,
  num_received_bytes,  \* of address_state_
  address,             \* of address_state_
  information_data,    \* window of information_state_, up to four bytes
  information_length,
  fcs_field_data,      \* the bytes of the FCS field of a frame without
                       \* information
  actual_frame_fcs,    \* of fcs_state_
  fcs_data,            \* window of fcs_state_, up to two bytes
  message,
  outcome              \* what the last call returned

checksum == <<actual_frame_fcs, fcs_data>>
addressing == <<num_received_bytes, address>>
information == <<information_data, information_length>>

decoderVars ==
  <<is_reset, field_state, addressing, information, fcs_field_data,
    checksum, message, outcome>>

Errors == {"unavailable", "checksum_mismatch", "resource_exhausted"}

--------------------------------------------------------------------------------
\* The constructor resets what its members have been left with.
DecoderInit ==
  /\ is_reset = TRUE
  /\ field_state = "destination"
  /\ num_received_bytes = 0
  /\ address = EmptyAddress
  /\ information_data = <<>>
  /\ information_length = 0
  /\ fcs_field_data = <<>>
  /\ actual_frame_fcs = InitCRC
  /\ fcs_data = <<>>
  /\ message = EmptyMessage
  /\ outcome = "unavailable"

\* Mutant: the window of the checksum is left as it is.
ResetAllButChecksum ==
  IF is_reset
  THEN UNCHANGED <<is_reset, field_state, addressing, information,
                   fcs_field_data, checksum, message>>
  ELSE /\ is_reset' = TRUE
       /\ field_state' = "destination"
       /\ num_received_bytes' = 0 /\ address' = EmptyAddress
       /\ information_data' = <<>> /\ information_length' = 0
       /\ fcs_field_data' = <<>>
       /\ actual_frame_fcs' = InitCRC
       /\ message' = EmptyMessage
       /\ UNCHANGED fcs_data

ResetIfNeeded ==
  IF is_reset
  THEN UNCHANGED <<is_reset, field_state, addressing, information,
                   fcs_field_data, checksum, message>>
  ELSE /\ is_reset' = TRUE
       /\ field_state' = "destination"
       /\ num_received_bytes' = 0 /\ address' = EmptyAddress
       /\ information_data' = <<>> /\ information_length' = 0
       /\ fcs_field_data' = <<>>
       /\ actual_frame_fcs' = InitCRC /\ fcs_data' = <<>>
       /\ message' = EmptyMessage

MarkBegin == ResetIfNeeded /\ outcome' = "unavailable"

--------------------------------------------------------------------------------
(* The checksum of everything but the last two bytes.                       *)

AppendedFCS ==
  IF Len(fcs_data) = 2 THEN UpdateCRC(actual_frame_fcs, fcs_data[1])
  ELSE actual_frame_fcs

\* Mutant: the newest byte leaves the window.
AppendByteKeepingFirst(byte) ==
  fcs_data' = IF Len(fcs_data) = 2 THEN <<fcs_data[1], byte>>
              ELSE Append(fcs_data, byte)

AppendByteToWindow(byte) ==
  fcs_data' = IF Len(fcs_data) = 2 THEN <<fcs_data[2], byte>>
              ELSE Append(fcs_data, byte)

AppendByteToFCS(byte) ==
  actual_frame_fcs' = AppendedFCS /\ AppendByteToWindow(byte)

\* Mutant: the checksum is not compared.
VerdictUnchecked(field, fcs) == "message"

\* The answer to a frame whose two last bytes are `field`.
Verdict(field, fcs) ==
  IF field = FCSBytes(fcs) THEN "message" ELSE "checksum_mismatch"

--------------------------------------------------------------------------------
(* The address field.                                                       *)

CallsignReceived == num_received_bytes >= CallsignLength

ProcessAddressCallsignByte(byte) ==
  /\ field_state \in {"destination", "source", "repeater"}
  /\ ~CallsignReceived
  /\ address' = [address EXCEPT !.callsign =
                   [@ EXCEPT ![num_received_bytes + 1] = SubSeq(byte, 2, 8)]]
  /\ num_received_bytes' = num_received_bytes + 1
  /\ outcome' = "unavailable"
  /\ UNCHANGED <<field_state, information, fcs_field_data, message>>

ExtensionBit(byte) == byte[1]

\* The address that the SSID byte completes.
DecodedAddress(byte, has_been_repeated) ==
  [callsign |-> address.callsign, ssid |-> SubSeq(byte, 2, 5),
   command_response_bit |-> byte[8], has_been_repeated |-> has_been_repeated]

ClearAddressState == num_received_bytes' = 0 /\ address' = EmptyAddress

ProcessAddressDestinationByte(byte) ==
  /\ field_state = "destination"
  /\ CallsignReceived
  /\ message' = [message EXCEPT !.destination = DecodedAddress(byte, FALSE)]
  /\ ClearAddressState
  /\ field_state' = "source"
  /\ outcome' = "unavailable"
  /\ UNCHANGED <<information, fcs_field_data>>

ProcessAddressSourceByte(byte) ==
  /\ field_state = "source"
  /\ CallsignReceived
  /\ message' = [message EXCEPT !.source = DecodedAddress(byte, FALSE)]
  /\ IF ExtensionBit(byte) = 0
     THEN field_state' = "repeater" /\ ClearAddressState
     ELSE /\ field_state' = "control"
          /\ address' = DecodedAddress(byte, FALSE)
          /\ UNCHANGED num_received_bytes
  /\ outcome' = "unavailable"
  /\ UNCHANGED <<information, fcs_field_data>>

\* Mutant: one repeater too many.
RepeaterFitsTooLate == Len(message.repeaters) <= MaxNumRepeaters

\* Whether TryAppend has a place left.
RepeaterFits == Len(message.repeaters) < MaxNumRepeaters

\* A repeater too many is an error, and the decoder stays where it is.
ProcessAddressRepeaterByte(byte) ==
  LET repeater == DecodedAddress(byte, byte[8] = 1)
  IN /\ field_state = "repeater"
     /\ CallsignReceived
     /\ IF RepeaterFits
        THEN message' = [message EXCEPT !.repeaters = Append(@, repeater)]
        ELSE UNCHANGED message
     /\ IF RepeaterFits /\ ExtensionBit(byte) = 0 THEN ClearAddressState
        ELSE address' = repeater /\ UNCHANGED num_received_bytes
     /\ field_state' = IF RepeaterFits /\ ExtensionBit(byte) = 1 THEN "control"
                       ELSE "repeater"
     /\ outcome' = IF RepeaterFits THEN "unavailable" ELSE "resource_exhausted"
     /\ UNCHANGED <<information, fcs_field_data>>

--------------------------------------------------------------------------------
(* The control, PID and information fields.                                 *)

FieldAfterPID(control) ==
  IF FrameControlUsesInfo(control) THEN "information" ELSE "fcs"

ProcessControlByte(byte) ==
  /\ field_state = "control"
  /\ message' = [message EXCEPT !.control = byte]
  /\ field_state' = IF FrameControlUsesPID(byte) THEN "pid"
                    ELSE FieldAfterPID(byte)
  /\ outcome' = "unavailable"
  /\ UNCHANGED <<addressing, information, fcs_field_data>>

ProcessPIDByte(byte) ==
  /\ field_state = "pid"
  /\ message' = [message EXCEPT !.pid = byte]
  /\ field_state' = FieldAfterPID(message.control)
  /\ outcome' = "unavailable"
  /\ UNCHANGED <<addressing, information, fcs_field_data>>

\* The information of the message with the first n bytes of the window.
WithInformation(n) ==
  [message EXCEPT !.information =
     [i \in 1..InformationCapacity |->
        IF i \in information_length + 1 .. information_length + n
        THEN information_data[i - information_length] ELSE @[i]]]

\* A byte enters the window. The oldest of four leaves it for the message;
\* when there is no room left for it, the new byte is dropped.
ProcessInformationByte(byte) ==
  LET full == Len(information_data) = 4
      fits == information_length < InformationCapacity
  IN /\ field_state = "information"
     /\ information_data' =
          IF ~full THEN Append(information_data, byte)
          ELSE IF fits THEN Append(Tail(information_data), byte)
          ELSE information_data
     /\ IF full /\ fits
        THEN /\ message' = WithInformation(1)
             /\ information_length' = information_length + 1
        ELSE UNCHANGED <<message, information_length>>
     /\ outcome' = IF full /\ ~fits THEN "resource_exhausted"
                   ELSE "unavailable"
     /\ UNCHANGED <<field_state, addressing, fcs_field_data>>

\* Mutant: the window is not flushed before the checksum is compared.
CompareWithoutFlush ==
  /\ field_state = "information"
  /\ actual_frame_fcs' = FinalizeCRC(actual_frame_fcs)
  /\ outcome' = IF Len(information_data) < 2 THEN "unavailable"
                ELSE Verdict(SubSeq(information_data,
                                    Len(information_data) - 1,
                                    Len(information_data)),
                             actual_frame_fcs')
  /\ UNCHANGED <<is_reset, field_state, addressing, information,
                 fcs_field_data, fcs_data, message>>

\* The end of the frame: all but the last two bytes of the window leave it
\* for the message, as far as there is room, and the two are the checksum.
FlushInformationBytes ==
  LET delayed == Len(information_data) - 2
      room == InformationCapacity - information_length
      flushed == IF delayed <= room THEN delayed ELSE room
  IN /\ field_state = "information"
     /\ actual_frame_fcs' = FinalizeCRC(actual_frame_fcs)
     /\ IF delayed < 0
        THEN /\ outcome' = "unavailable"
             /\ UNCHANGED <<information, message>>
        ELSE /\ message' = WithInformation(flushed)
             /\ information_length' = information_length + flushed
             /\ information_data' = SubSeq(information_data, flushed + 1,
                                           Len(information_data))
             /\ outcome' = IF flushed < delayed THEN "resource_exhausted"
                           ELSE Verdict(information_data', actual_frame_fcs')
     /\ UNCHANGED <<is_reset, field_state, addressing, fcs_field_data,
                    fcs_data>>

MarkEnd ==
  \/ FlushInformationBytes
  \/ /\ field_state # "information"
     /\ outcome' = "unavailable"
     /\ UNCHANGED <<is_reset, field_state, addressing, information,
                    fcs_field_data, checksum, message>>

--------------------------------------------------------------------------------
\* The checksum of a frame without information: the frame is taken to be
\* complete with it, before any marker is seen.
ProcessFCSByte(byte) ==
  LET field == Append(fcs_field_data, byte)
      complete == Len(field) = 2
  IN /\ field_state = "fcs"
     /\ fcs_field_data' = field
     /\ actual_frame_fcs' = IF complete THEN FinalizeCRC(AppendedFCS)
                            ELSE AppendedFCS
     /\ field_state' = IF complete THEN "frame_skip" ELSE "fcs"
     /\ outcome' = IF complete THEN Verdict(field, actual_frame_fcs')
                   ELSE "unavailable"
     /\ UNCHANGED <<addressing, information, message>>

SkipByte ==
  /\ field_state = "frame_skip"
  /\ outcome' = "unavailable"
  /\ UNCHANGED <<field_state, addressing, information, fcs_field_data,
                 checksum, message>>

ProcessByte(byte) ==
  /\ is_reset' = FALSE
  /\ \/ /\ \/ ProcessAddressCallsignByte(byte)
           \/ ProcessAddressDestinationByte(byte)
           \/ ProcessAddressSourceByte(byte)
           \/ ProcessAddressRepeaterByte(byte)
           \/ ProcessControlByte(byte)
           \/ ProcessPIDByte(byte)
           \/ ProcessInformationByte(byte)
        /\ AppendByteToFCS(byte)
     \/ ProcessFCSByte(byte) /\ AppendByteToWindow(byte)
     \/ SkipByte

--------------------------------------------------------------------------------
\* Every variable has its type: no write leaves the callsign, the repeaters
\* or the information of the message, and no window its size, whatever bytes
\* arrive.
DecoderTypeOK ==
  /\ is_reset \in BOOLEAN
  /\ field_state \in {"destination", "source", "repeater", "control", "pid",
                      "information", "fcs", "frame_skip"}
  /\ num_received_bytes \in 0..CallsignLength
  /\ address \in Address
  /\ information_data \in Seq(Byte) /\ Len(information_data) \in 0..4
  /\ information_length \in 0..InformationCapacity
  /\ fcs_field_data \in Seq(Byte) /\ Len(fcs_field_data) \in 0..2
  /\ actual_frame_fcs \in [1..16 -> Bit]
  /\ fcs_data \in Seq(Byte) /\ Len(fcs_data) \in 0..2
  /\ message \in Message /\ Len(message.repeaters) \in 0..MaxNumRepeaters
  /\ outcome \in Errors \cup {"message"}

\* The two windows are kept apart, by different rules, and have to agree: when
\* the checksum of a frame is judged, the two bytes it is compared with are the
\* two that the computed checksum leaves out, whatever was dropped before.
ChecksumIsLast ==
  outcome \in {"message", "checksum_mismatch"} =>
    fcs_data = IF field_state = "information" THEN information_data
               ELSE fcs_field_data

--------------------------------------------------------------------------------
(* Any calls in any order, and the invariant of the decoder under them.      *)

DecoderNext == MarkBegin \/ MarkEnd \/ \E byte \in Byte : ProcessByte(byte)

DecoderSpec == DecoderInit /\ [][DecoderNext]_decoderVars

\* Bytes of the information were dropped since its window was full.
InformationDropped ==
  Len(information_data) = 4 /\ information_length = InformationCapacity

\* The windows end with the same bytes.
WindowsAgree ==
  /\ field_state = "destination" /\ num_received_bytes > 0 => fcs_data # <<>>
  /\ field_state # "destination" => Len(fcs_data) = 2
  /\ field_state = "information" =>
       \/ InformationDropped
       \/ /\ Len(information_data) >= 1
               => information_data[Len(information_data)] = fcs_data[2]
          /\ Len(information_data) >= 2
               => information_data[Len(information_data) - 1] = fcs_data[1]
  /\ field_state \in {"destination", "source", "repeater", "control", "pid"} =>
       fcs_field_data = <<>> /\ information_data = <<>>
  /\ field_state = "fcs" =>
       \/ fcs_field_data = <<>>
       \/ Len(fcs_field_data) = 1 /\ fcs_field_data[1] = fcs_data[2]

DecoderInv == DecoderTypeOK /\ WindowsAgree /\ ChecksumIsLast
================================================================================
