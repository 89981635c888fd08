----------------------------- MODULE DataLinkProofs -----------------------------
(***************************************************************************)
(* Proofs about the data links, for any messages and bytes, any number of  *)
(* frames, any disturbances of the line and any limits: AX.25 (Ax25Frame,  *)
(* Ax25Decoder, Ax25Reception, Ax25Link), then HDLC and NRZ(S) (HdlcLink), *)
(* then both in AprsLink.                                                  *)
(*                                                                         *)
(* AX.25. First the decoder, under any calls: its inductive invariant is   *)
(* DecoderInv. Then the decoder on the bytes of a line: FollowsTheBytes    *)
(* says where it is in the bytes it has seen, ByteFollows and EndFollows   *)
(* that a byte and an end keep it there. Then the encoder: what it writes  *)
(* has a layout and only one, and the layout is the message. Last the      *)
(* calls of the decoder and the steps of the link.                         *)
(***************************************************************************)
EXTENDS AprsLink, Ax25Link, FoldProofs, SequenceTheorems

--------------------------------------------------------------------------------
(* Bits and bytes.                                                          *)

Bits(n) == [1..n -> Bit]

\* Bits as functions, which are easier to compute with.
LEMMA BitsAreSequences ==
  ASSUME NEW n \in Nat
  PROVE  Bits(n) = {s \in Seq(Bit) : Len(s) = n}
  <1>1. ASSUME NEW s \in Bits(n) PROVE s \in Seq(Bit) /\ Len(s) = n
    BY <1>1 DEF Bits
  <1>2. ASSUME NEW s \in Seq(Bit), Len(s) = n PROVE s \in Bits(n)
    BY <1>2 DEF Bits
  <1> QED
    BY <1>1, <1>2

LEMMA Joined ==
  ASSUME NEW m \in Nat, NEW n \in Nat, NEW s \in Bits(m), NEW t \in Bits(n)
  PROVE  s \o t \in Bits(m + n)
  <1>1. s \in Seq(Bit) /\ Len(s) = m /\ t \in Seq(Bit) /\ Len(t) = n
    BY BitsAreSequences
  <1>2. s \o t \in Seq(Bit) /\ Len(s \o t) = m + n
    BY <1>1
  <1>3. m + n \in Nat
    OBVIOUS
  <1> QED
    BY <1>2, <1>3, BitsAreSequences

LEMMA Cut ==
  ASSUME NEW n \in Nat, NEW s \in Bits(n), NEW i \in 1..n, NEW j \in i..n
  PROVE  SubSeq(s, i, j) \in Bits(j - i + 1)
  <1>1. s \in Seq(Bit) /\ Len(s) = n
    BY BitsAreSequences
  <1>2. SubSeq(s, i, j) \in Seq(Bit) /\ Len(SubSeq(s, i, j)) = j - i + 1
    BY <1>1
  <1>3. j - i + 1 \in Nat
    OBVIOUS
  <1> QED
    BY <1>2, <1>3, BitsAreSequences

LEMMA ZerosType ==
  ASSUME NEW n \in Nat
  PROVE  Zeros(n) \in Bits(n)
  BY DEF Zeros, Bits, Bit

\* The exclusive or of bits is bits.
LEMMA XorType ==
  ASSUME NEW n \in Nat, NEW a \in Bits(n), NEW b \in Bits(n)
  PROVE  Xor(a, b) \in Bits(n)
  <1>1. Len(a) = n
    BY BitsAreSequences
  <1>2. \A i \in 1..n : (a[i] + b[i]) % 2 \in Bit
    BY DEF Bit, Bits
  <1> QED
    BY <1>1, <1>2 DEF Xor, Bits

LEMMA ByteIsBits == Byte = Bits(8) /\ Char = Bits(7) /\ Nibble = Bits(4)
  BY BitsAreSequences DEF Byte, Char, Nibble

\* The checksum keeps its sixteen bits with every byte.
LEMMA UpdateCRCType ==
  ASSUME NEW crc \in Bits(16), NEW byte \in Byte
  PROVE  UpdateCRC(crc, byte) \in Bits(16)
  <1> DEFINE x == Xor(SubSeq(crc, 1, 8), byte)
             y == Xor(x, Zeros(4) \o SubSeq(x, 1, 4))
             entry == Xor(Zeros(8) \o y,
                          Xor(Zeros(3) \o y \o Zeros(5), SubSeq(y, 5, 8) \o Zeros(12)))
  <1>1. SubSeq(crc, 1, 8) \in Bits(8) /\ SubSeq(crc, 9, 16) \in Bits(8)
    <2>1. SubSeq(crc, 1, 8) \in Bits(8 - 1 + 1)
      BY Cut
    <2>2. SubSeq(crc, 9, 16) \in Bits(16 - 9 + 1)
      BY Cut
    <2> QED
      BY <2>1, <2>2
  <1>2. x \in Bits(8)
    BY <1>1, ByteIsBits, XorType
  <1> HIDE DEF x
  <1>3. Zeros(4) \o SubSeq(x, 1, 4) \in Bits(8)
    <2>1. SubSeq(x, 1, 4) \in Bits(4 - 1 + 1)
      BY <1>2, Cut
    <2>2. Zeros(4) \in Bits(4) /\ 4 - 1 + 1 = 4 /\ 4 + 4 = 8
      BY ZerosType
    <2> QED
      BY <2>1, <2>2, Joined
  <1>4. y \in Bits(8)
    BY <1>2, <1>3, XorType
  <1> HIDE DEF y
  <1>5. /\ Zeros(8) \o y \in Bits(8 + 8)
        /\ Zeros(3) \o y \in Bits(3 + 8)
    BY <1>4, ZerosType, Joined
  <1>6. Zeros(3) \o y \o Zeros(5) \in Bits(11 + 5)
    BY <1>5, ZerosType, Joined
  <1>7. SubSeq(y, 5, 8) \o Zeros(12) \in Bits(16)
    <2>1. SubSeq(y, 5, 8) \in Bits(8 - 5 + 1)
      BY <1>4, Cut
    <2>2. Zeros(12) \in Bits(12) /\ 8 - 5 + 1 = 4 /\ 4 + 12 = 16
      BY ZerosType
    <2> QED
      BY <2>1, <2>2, Joined
  <1>8. entry \in Bits(16)
    <2>1. Xor(Zeros(3) \o y \o Zeros(5), SubSeq(y, 5, 8) \o Zeros(12)) \in Bits(16)
      BY <1>6, <1>7, XorType
    <2> QED
      BY <1>5, <2>1, XorType
  <1>9. SubSeq(crc, 9, 16) \o Zeros(8) \in Bits(8 + 8)
    BY <1>1, ZerosType, Joined
  <1>10. UpdateCRC(crc, byte) = Xor(SubSeq(crc, 9, 16) \o Zeros(8), entry)
    BY DEF UpdateCRC, x, y, entry
  <1> HIDE DEF entry
  <1> QED
    BY <1>8, <1>9, <1>10, XorType

LEMMA CRCType ==
  /\ InitCRC \in Bits(16)
  /\ \A crc \in Bits(16) : FinalizeCRC(crc) \in Bits(16)
  BY DEF InitCRC, FinalizeCRC, Bits, Bit

\* What an address takes of a byte.
LEMMA ByteParts ==
  ASSUME NEW b \in Byte
  PROVE  /\ \A i \in 1..8 : b[i] \in Bit
         /\ SubSeq(b, 2, 8) \in Char
         /\ SubSeq(b, 2, 5) \in Nibble
  <1>1. b \in Bits(8)
    BY ByteIsBits
  <1>2. \A i \in 1..8 : b[i] \in Bit
    BY <1>1 DEF Bits
  <1>3. SubSeq(b, 2, 8) \in Bits(8 - 2 + 1) /\ SubSeq(b, 2, 5) \in Bits(5 - 2 + 1)
    BY <1>1, Cut
  <1> QED
    BY <1>2, <1>3, ByteIsBits

\* What a reset writes.
LEMMA ConstantBytes ==
  /\ EmptyAddress \in Address
  /\ EmptyMessage \in Message
  /\ EmptyMessage.repeaters = <<>>
  <1>1. Nul \in Byte /\ UnnumberedInformation \in Byte
    BY DEF Nul, UnnumberedInformation, Byte, Bit
  <1>2. Space \in Char /\ <<0, 0, 0, 0>> \in Nibble /\ 0 \in Bit
    BY DEF Space, Char, Nibble, Bit
  <1>3. EmptyAddress \in Address
    BY <1>2 DEF EmptyAddress, Address
  <1>4. EmptyInformation \in [1..InformationCapacity -> Byte]
    BY <1>1 DEF EmptyInformation
  <1>5. EmptyMessage \in Message /\ EmptyMessage.repeaters = <<>>
    BY <1>1, <1>3, <1>4 DEF EmptyMessage, Message
  <1> QED
    BY <1>3, <1>5

\* A decoded address is one.
LEMMA DecodedAddressType ==
  ASSUME address \in Address, NEW byte \in Byte, NEW h \in BOOLEAN
  PROVE  DecodedAddress(byte, h) \in Address
  BY ByteParts DEF DecodedAddress, Address
--------------------------------------------------------------------------------
(* The steps.                                                               *)

\* The decoder as it is constructed.
LEMMA DecoderInitInv == DecoderInit => DecoderInv
  <1> SUFFICES ASSUME DecoderInit PROVE DecoderInv
    OBVIOUS
  <1>1. DecoderTypeOK
    BY ConstantBytes, CRCType, LengthsAssumption, RepeatersAssumption
       DEF DecoderInit, DecoderTypeOK, Bits, Errors
  <1>2. WindowsAgree
    BY DEF DecoderInit, WindowsAgree
  <1>3. ChecksumIsLast
    BY DEF DecoderInit, ChecksumIsLast
  <1> QED
    BY <1>1, <1>2, <1>3 DEF DecoderInv

\* The begin of a frame resets what the last one left, if it left anything.
LEMMA MarkBeginKeepsInv ==
  ASSUME DecoderInv, MarkBegin
  PROVE  DecoderInv'
  <1>1. DecoderTypeOK /\ WindowsAgree
    BY DEF DecoderInv
  <1>2. outcome' = "unavailable"
    BY DEF MarkBegin
  <1>3. CASE is_reset
    <2>1. /\ is_reset' = is_reset /\ field_state' = field_state
          /\ num_received_bytes' = num_received_bytes /\ address' = address
          /\ information_data' = information_data
          /\ information_length' = information_length
          /\ fcs_field_data' = fcs_field_data /\ message' = message
          /\ actual_frame_fcs' = actual_frame_fcs /\ fcs_data' = fcs_data
      BY <1>3 DEF MarkBegin, ResetIfNeeded, addressing, information, checksum
    <2>2. DecoderTypeOK'
      BY <1>1, <1>2, <2>1 DEF DecoderTypeOK, Errors
    <2>3. WindowsAgree'
      BY <1>1, <2>1 DEF WindowsAgree, InformationDropped
    <2> QED
      BY <1>2, <2>2, <2>3 DEF DecoderInv, ChecksumIsLast
  <1>4. CASE ~is_reset
    <2>1. /\ is_reset' = TRUE /\ field_state' = "destination"
          /\ num_received_bytes' = 0 /\ address' = EmptyAddress
          /\ information_data' = <<>> /\ information_length' = 0
          /\ fcs_field_data' = <<>> /\ message' = EmptyMessage
          /\ actual_frame_fcs' = InitCRC /\ fcs_data' = <<>>
      BY <1>4 DEF MarkBegin, ResetIfNeeded
    <2>2. DecoderTypeOK'
      BY <1>2, <2>1, ConstantBytes, CRCType, LengthsAssumption, RepeatersAssumption
         DEF DecoderTypeOK, Bits, Errors
    <2>3. WindowsAgree'
      BY <2>1 DEF WindowsAgree
    <2> QED
      BY <1>2, <2>2, <2>3 DEF DecoderInv, ChecksumIsLast
  <1> QED
    BY <1>3, <1>4

\* A sequence with one more element.
LEMMA Appended ==
  ASSUME NEW S, NEW s \in Seq(S), NEW e \in S, NEW n \in Nat, Len(s) = n
  PROVE  /\ Append(s, e) \in Seq(S) /\ Len(Append(s, e)) = n + 1
         /\ \A i \in 1..n : Append(s, e)[i] = s[i]
         /\ Append(s, e)[n + 1] = e
  OBVIOUS

LEMMA ShortLengths == 1 \in 0..2 /\ 2 \in 0..2
  OBVIOUS

LEMMA PairType ==
  ASSUME NEW S, NEW a \in S, NEW b \in S
  PROVE  <<a, b>> \in Seq(S) /\ Len(<<a, b>>) = 2
  OBVIOUS

\* Two windows of two bytes are one when their bytes are.
LEMMA SamePair ==
  ASSUME NEW s \in Seq(Byte), NEW t \in Seq(Byte), Len(s) = 2, Len(t) = 2,
         s[1] = t[1], s[2] = t[2]
  PROVE  s = t
  <1>1. \A i \in 1..2 : s[i] = t[i]
    OBVIOUS
  <1> QED
    BY <1>1, SeqEqual

\* A byte that enters the window of the checksum is its last.
LEMMA WindowMoves ==
  ASSUME NEW byte \in Byte, fcs_data \in Seq(Byte), Len(fcs_data) \in 0..2,
         AppendByteToWindow(byte)
  PROVE  /\ fcs_data' \in Seq(Byte) /\ Len(fcs_data') \in 1..2
         /\ Len(fcs_data) \in 1..2 => Len(fcs_data') = 2 /\ fcs_data'[2] = byte
         /\ Len(fcs_data) = 2 => fcs_data'[1] = fcs_data[2]
  <1>1. CASE Len(fcs_data) = 2
    <2>1. fcs_data' = <<fcs_data[2], byte>>
      BY <1>1 DEF AppendByteToWindow
    <2>2. fcs_data[2] \in Byte
      BY <1>1
    <2>3. fcs_data' \in Seq(Byte) /\ Len(fcs_data') = 2
      BY <2>1, <2>2, PairType
    <2> QED
      BY <1>1, <2>1, <2>3
  <1>2. CASE Len(fcs_data) = 1
    <2>1. fcs_data' = Append(fcs_data, byte)
      BY <1>2 DEF AppendByteToWindow
    <2>2. /\ fcs_data' \in Seq(Byte) /\ Len(fcs_data') = 1 + 1
          /\ fcs_data'[1 + 1] = byte
      BY <1>2, <2>1, Appended
    <2> QED
      BY <1>2, <2>2
  <1>3. CASE Len(fcs_data) = 0
    <2>1. fcs_data' = Append(fcs_data, byte)
      BY <1>3 DEF AppendByteToWindow
    <2>2. fcs_data' \in Seq(Byte) /\ Len(fcs_data') = 0 + 1
      BY <1>3, <2>1, Appended
    <2> QED
      BY <1>3, <2>2
  <1> QED
    BY <1>1, <1>2, <1>3

LEMMA AppendedFCSType ==
  ASSUME DecoderTypeOK
  PROVE  AppendedFCS \in Bits(16)
  <1>1. actual_frame_fcs \in Bits(16) /\ (Len(fcs_data) = 2 => fcs_data[1] \in Byte)
    BY DEF DecoderTypeOK, Bits
  <1> QED
    BY <1>1, UpdateCRCType DEF AppendedFCS

\* The fields of addresses, control and PID.
LEMMA HeaderKeepsInv ==
  ASSUME DecoderInv, NEW byte \in Byte, is_reset' = FALSE,
         \/ ProcessAddressCallsignByte(byte) \/ ProcessAddressDestinationByte(byte)
         \/ ProcessAddressSourceByte(byte) \/ ProcessAddressRepeaterByte(byte)
         \/ ProcessControlByte(byte) \/ ProcessPIDByte(byte),
         AppendByteToFCS(byte)
  PROVE  DecoderInv'
  <1>0. DecoderTypeOK /\ WindowsAgree
    BY DEF DecoderInv
  <1>1. /\ actual_frame_fcs' \in Bits(16)
        /\ fcs_data' \in Seq(Byte) /\ Len(fcs_data') \in 1..2
        /\ Len(fcs_data) \in 1..2 => Len(fcs_data') = 2
    BY <1>0, AppendedFCSType, WindowMoves DEF AppendByteToFCS, DecoderTypeOK
  <1>2. /\ information_data' = information_data /\ information_length' = information_length
        /\ fcs_field_data' = fcs_field_data
    BY DEF ProcessAddressCallsignByte, ProcessAddressDestinationByte,
           ProcessAddressSourceByte, ProcessAddressRepeaterByte, ProcessControlByte,
           ProcessPIDByte, information
  <1>3. outcome' \in {"unavailable", "resource_exhausted"}
    BY DEF ProcessAddressCallsignByte, ProcessAddressDestinationByte,
           ProcessAddressSourceByte, ProcessAddressRepeaterByte, ProcessControlByte,
           ProcessPIDByte
  <1>4. /\ field_state \in {"destination", "source", "repeater", "control", "pid"}
        /\ field_state' \in {"destination", "source", "repeater", "control", "pid",
                             "information", "fcs"}
        /\ field_state' = "destination" => field_state = "destination"
        /\ field_state = "destination" /\ field_state' # "destination" => num_received_bytes > 0
    <2>1. num_received_bytes \in Nat /\ CallsignLength \in Nat \ {0}
      BY <1>0, LengthsAssumption DEF DecoderTypeOK
    <2>2. CASE ProcessAddressCallsignByte(byte)
      BY <2>2 DEF ProcessAddressCallsignByte
    <2>3. CASE ProcessAddressDestinationByte(byte)
      BY <2>1, <2>3 DEF ProcessAddressDestinationByte, CallsignReceived
    <2>4. CASE ProcessAddressSourceByte(byte)
      BY <2>4 DEF ProcessAddressSourceByte
    <2>5. CASE ProcessAddressRepeaterByte(byte)
      BY <2>5 DEF ProcessAddressRepeaterByte
    <2>6. CASE ProcessControlByte(byte)
      BY <2>6 DEF ProcessControlByte, FieldAfterPID
    <2>7. CASE ProcessPIDByte(byte)
      BY <2>7 DEF ProcessPIDByte, FieldAfterPID
    <2> QED
      BY <2>2, <2>3, <2>4, <2>5, <2>6, <2>7
  <1>5. WindowsAgree'
    <2>1. fcs_field_data = <<>> /\ information_data = <<>>
      BY <1>0, <1>4 DEF WindowsAgree
    <2>2. field_state' # "destination" => Len(fcs_data') = 2
      <3> SUFFICES ASSUME field_state' # "destination" PROVE Len(fcs_data') = 2
        OBVIOUS
      <3>1. fcs_data \in Seq(Byte) /\ Len(fcs_data) \in 0..2
        BY <1>0 DEF DecoderTypeOK
      <3>2. fcs_data # <<>> \/ Len(fcs_data) = 2
        BY <1>0, <1>4 DEF WindowsAgree
      <3>3. Len(fcs_data) \in 1..2
        BY <3>1, <3>2
      <3> QED
        BY <1>1, <3>3
    <2>3. fcs_data' # <<>>
      BY <1>1
    <2> QED
      BY <1>2, <1>4, <2>1, <2>2, <2>3 DEF WindowsAgree
  <1>6. ChecksumIsLast'
    BY <1>3 DEF ChecksumIsLast
  <1>7. /\ num_received_bytes' \in 0..CallsignLength
        /\ address' \in Address
        /\ message' \in Message /\ Len(message'.repeaters) \in 0..MaxNumRepeaters
    <2> USE LengthsAssumption, RepeatersAssumption
    <2>0. /\ address \in Address /\ message \in Message /\ EmptyAddress \in Address
          /\ num_received_bytes \in 0..CallsignLength
          /\ Len(message.repeaters) \in 0..MaxNumRepeaters
          /\ \A h \in BOOLEAN : DecodedAddress(byte, h) \in Address
      BY <1>0, ConstantBytes, DecodedAddressType DEF DecoderTypeOK
    <2>1. CASE ProcessAddressCallsignByte(byte)
      <3>1. num_received_bytes' \in 1..CallsignLength /\ message' = message
        BY <2>0, <2>1 DEF ProcessAddressCallsignByte, CallsignReceived
      <3>2. address' \in Address
        BY <2>0, <2>1, ByteParts DEF ProcessAddressCallsignByte, Address
      <3> QED
        BY <2>0, <3>1, <3>2
    <2>2. CASE ProcessAddressDestinationByte(byte)
      <3>1. message' \in Message /\ message'.repeaters = message.repeaters
        BY <2>0, <2>2 DEF ProcessAddressDestinationByte, Message
      <3> QED
        BY <2>0, <2>2, <3>1 DEF ProcessAddressDestinationByte, ClearAddressState
    <2>3. CASE ProcessAddressSourceByte(byte)
      <3>1. message' \in Message /\ message'.repeaters = message.repeaters
        BY <2>0, <2>3 DEF ProcessAddressSourceByte, Message
      <3>2. \/ num_received_bytes' = 0 /\ address' = EmptyAddress
            \/ num_received_bytes' = num_received_bytes
               /\ address' = DecodedAddress(byte, FALSE)
        BY <2>3 DEF ProcessAddressSourceByte, ClearAddressState
      <3>3. DecodedAddress(byte, FALSE) \in Address
        BY <2>0
      <3>4. num_received_bytes' \in 0..CallsignLength
        <4>1. 0 \in 0..CallsignLength
          OBVIOUS
        <4>2. num_received_bytes' \in {0, num_received_bytes}
          BY <3>2, Zenon
        <4> QED
          BY <2>0, <4>1, <4>2, Zenon
      <3>5. address' \in Address
        BY <2>0, <3>2, <3>3
      <3> QED
        BY <2>0, <3>1, <3>4, <3>5
    <2>4. CASE ProcessAddressRepeaterByte(byte)
      <3> DEFINE repeater == DecodedAddress(byte, byte[8] = 1)
      <3>1. repeater \in Address
        BY <2>0
      <3> HIDE DEF repeater
      <3>2. \/ num_received_bytes' = 0 /\ address' = EmptyAddress
            \/ num_received_bytes' = num_received_bytes /\ address' = repeater
        BY <2>4 DEF ProcessAddressRepeaterByte, ClearAddressState, repeater
      <3>3. CASE RepeaterFits
        <4>1. message' = [message EXCEPT !.repeaters = Append(message.repeaters, repeater)]
          BY <2>4, <3>3 DEF ProcessAddressRepeaterByte, repeater
        <4>2. /\ Append(message.repeaters, repeater) \in Seq(Address)
              /\ Len(Append(message.repeaters, repeater)) = Len(message.repeaters) + 1
          BY <2>0, <3>1 DEF Message
        <4>3. /\ message' \in Message
              /\ message'.repeaters = Append(message.repeaters, repeater)
          BY <2>0, <4>1, <4>2 DEF Message
        <4> QED
          BY <2>0, <3>1, <3>2, <3>3, <4>2, <4>3 DEF RepeaterFits, Message
      <3>4. CASE ~RepeaterFits
        BY <2>0, <2>4, <3>1, <3>2, <3>4 DEF ProcessAddressRepeaterByte
      <3> QED
        BY <3>3, <3>4
    <2>5. CASE ProcessControlByte(byte) \/ ProcessPIDByte(byte)
      <3>1. num_received_bytes' = num_received_bytes /\ address' = address
        BY <2>5 DEF ProcessControlByte, ProcessPIDByte, addressing
      <3>2. message' \in Message /\ message'.repeaters = message.repeaters
        BY <2>0, <2>5 DEF ProcessControlByte, ProcessPIDByte, Message
      <3> QED
        BY <2>0, <3>1, <3>2
    <2> QED
      BY <2>1, <2>2, <2>3, <2>4, <2>5
  <1>8. DecoderTypeOK'
    <2>1. is_reset' \in BOOLEAN /\ outcome' \in Errors \cup {"message"}
      BY <1>3 DEF Errors
    <2>2. /\ information_data' \in Seq(Byte) /\ Len(information_data') \in 0..4
          /\ information_length' \in 0..InformationCapacity
          /\ fcs_field_data' \in Seq(Byte) /\ Len(fcs_field_data') \in 0..2
      BY <1>0, <1>2 DEF DecoderTypeOK
    <2>3. field_state' \in {"destination", "source", "repeater", "control", "pid",
                            "information", "fcs", "frame_skip"}
      BY <1>4
    <2>4. Len(fcs_data') \in 0..2
      BY <1>1
    <2> QED
      BY <1>1, <1>7, <2>1, <2>2, <2>3, <2>4 DEF DecoderTypeOK, Bits
  <1> QED
    BY <1>5, <1>6, <1>8 DEF DecoderInv

\* Bytes of the window become characters of the information.
LEMMA WithInformationType ==
  ASSUME DecoderTypeOK, NEW n \in Nat, information_length + n <= InformationCapacity,
         NEW len \in Nat, len = Len(information_data), n <= len
  PROVE  /\ WithInformation(n) \in Message
         /\ WithInformation(n).repeaters = message.repeaters
  <1> DEFINE info == [i \in 1..InformationCapacity |->
                        IF i \in information_length + 1 .. information_length + n
                        THEN information_data[i - information_length]
                        ELSE message.information[i]]
  <1>1. /\ message \in Message /\ information_length \in Nat
        /\ information_data \in Seq(Byte) /\ InformationCapacity \in Nat
    BY LengthsAssumption DEF DecoderTypeOK
  <1>2. message.information \in [1..InformationCapacity -> Byte]
    BY <1>1 DEF Message
  <1>3. \A i \in 1..len : information_data[i] \in Byte
    BY <1>1
  <1>4. info \in [1..InformationCapacity -> Byte]
    <2>1. ASSUME NEW i \in 1..InformationCapacity
          PROVE  info[i] \in Byte
      <3>1. CASE i \in information_length + 1 .. information_length + n
        <4>1. i - information_length \in 1..len
          BY <1>1, <3>1
        <4> QED
          BY <1>3, <3>1, <4>1
      <3>2. CASE i \notin information_length + 1 .. information_length + n
        BY <1>2, <3>2
      <3> QED
        BY <3>1, <3>2
    <2> QED
      BY <2>1
  <1>5. WithInformation(n) = [message EXCEPT !.information = info]
    BY DEF WithInformation
  <1> HIDE DEF info
  <1> QED
    BY <1>1, <1>4, <1>5 DEF Message

\* The field of the information.
LEMMA InformationKeepsInv ==
  ASSUME DecoderInv, NEW byte \in Byte, is_reset' = FALSE,
         ProcessInformationByte(byte), AppendByteToFCS(byte)
  PROVE  DecoderInv'
  <1>0. DecoderTypeOK /\ WindowsAgree
    BY DEF DecoderInv
  <1>1. /\ field_state = "information" /\ field_state' = "information"
        /\ num_received_bytes' = num_received_bytes /\ address' = address
        /\ fcs_field_data' = fcs_field_data
        /\ outcome' \in {"unavailable", "resource_exhausted"}
    BY DEF ProcessInformationByte, addressing
  <1>2. Len(fcs_data) = 2
    BY <1>0, <1>1 DEF WindowsAgree
  <1>3. /\ actual_frame_fcs' \in Bits(16)
        /\ fcs_data' \in Seq(Byte) /\ Len(fcs_data') = 2
        /\ fcs_data'[1] = fcs_data[2] /\ fcs_data'[2] = byte
    BY <1>0, <1>2, AppendedFCSType, WindowMoves DEF AppendByteToFCS, DecoderTypeOK
  <1>4. PICK n \in 0..4 : n = Len(information_data)
    BY <1>0 DEF DecoderTypeOK
  <1>5. /\ information_data \in Seq(Byte)
        /\ information_length \in 0..InformationCapacity
        /\ InformationCapacity \in Nat
        /\ message \in Message /\ Len(message.repeaters) \in 0..MaxNumRepeaters
    BY <1>0, LengthsAssumption DEF DecoderTypeOK
  <1>6. /\ information_data' \in Seq(Byte) /\ Len(information_data') \in 0..4
        /\ information_length' \in 0..InformationCapacity
        /\ message' \in Message /\ Len(message'.repeaters) \in 0..MaxNumRepeaters
        /\ \/ InformationDropped'
           \/ /\ Len(information_data') >= 1
                   => information_data'[Len(information_data')] = fcs_data'[2]
              /\ Len(information_data') >= 2
                   => information_data'[Len(information_data') - 1] = fcs_data'[1]
    <2>1. CASE n # 4
      <3>1. /\ information_data' = Append(information_data, byte)
            /\ message' = message /\ information_length' = information_length
        BY <1>4, <2>1 DEF ProcessInformationByte
      <3>2. /\ information_data' \in Seq(Byte) /\ Len(information_data') = n + 1
            /\ \A i \in 1..n : information_data'[i] = information_data[i]
            /\ information_data'[n + 1] = byte
        BY <1>4, <1>5, <3>1, Appended
      <3>3. n + 1 \in 0..4 /\ n + 1 - 1 = n
        BY <2>1
      <3>4. n >= 1 => information_data[n] = fcs_data[2]
        BY <1>0, <1>1, <1>4, <2>1 DEF WindowsAgree, InformationDropped
      <3>5. n >= 1 => information_data'[n] = fcs_data'[1]
        BY <1>3, <3>2, <3>4
      <3>6. /\ information_data'[Len(information_data')] = fcs_data'[2]
            /\ Len(information_data') >= 2
                 => information_data'[Len(information_data') - 1] = fcs_data'[1]
        BY <1>3, <3>2, <3>3, <3>5
      <3> QED
        BY <1>5, <3>1, <3>2, <3>3, <3>6
    <2>2. CASE n = 4 /\ information_length < InformationCapacity
      <3>1. /\ information_data' = Append(Tail(information_data), byte)
            /\ message' = WithInformation(1)
            /\ information_length' = information_length + 1
        BY <1>4, <2>2 DEF ProcessInformationByte
      <3>2. /\ Tail(information_data) \in Seq(Byte) /\ Len(Tail(information_data)) = 3
            /\ Tail(information_data)[3] = information_data[4]
        <4>1. information_data # <<>>
          <5>1. information_data = <<>> => n = 0
            BY <1>4
          <5> QED
            BY <2>2, <5>1
        <4>2. /\ Tail(information_data) \in Seq(Byte)
              /\ Len(Tail(information_data)) = Len(information_data) - 1
              /\ \A i \in 1..Len(Tail(information_data)) :
                   Tail(information_data)[i] = information_data[i + 1]
          BY <1>5, <4>1, HeadTailProperties
        <4>3. Len(Tail(information_data)) = 3
          BY <1>4, <2>2, <4>2
        <4>4. 3 \in 1..3 /\ 3 + 1 = 4
          OBVIOUS
        <4> QED
          BY <4>2, <4>3, <4>4
      <3>3. /\ information_data' \in Seq(Byte) /\ Len(information_data') = 4
            /\ information_data'[3] = information_data[4]
            /\ information_data'[4] = byte
        <4>1. 3 \in Nat /\ 3 + 1 = 4 /\ 3 \in 1..3
          OBVIOUS
        <4> DEFINE rest == Tail(information_data)
        <4>2. rest \in Seq(Byte) /\ Len(rest) = 3
          BY <3>2
        <4> HIDE DEF rest
        <4>3. /\ Append(rest, byte) \in Seq(Byte) /\ Len(Append(rest, byte)) = 3 + 1
              /\ \A i \in 1..3 : Append(rest, byte)[i] = rest[i]
              /\ Append(rest, byte)[3 + 1] = byte
          <5>1. \A k \in Nat : Len(rest) = k =>
                  /\ Append(rest, byte) \in Seq(Byte)
                  /\ Len(Append(rest, byte)) = k + 1
                  /\ \A i \in 1..k : Append(rest, byte)[i] = rest[i]
                  /\ Append(rest, byte)[k + 1] = byte
            BY <4>2, Appended
          <5> QED
            BY <4>1, <4>2, <5>1
        <4>4. information_data' = Append(rest, byte) /\ rest[3] = information_data[4]
          BY <3>1, <3>2 DEF rest
        <4>5. Append(rest, byte)[3] = rest[3]
          BY <4>1, <4>3
        <4> QED
          BY <4>1, <4>3, <4>4, <4>5
      <3>4. information_data[4] = fcs_data[2]
        <4>1. ~InformationDropped
          BY <1>5, <2>2 DEF InformationDropped
        <4>2. Len(information_data) >= 1
                => information_data[Len(information_data)] = fcs_data[2]
          BY <1>0, <1>1, <4>1, Zenon DEF WindowsAgree
        <4> QED
          BY <1>4, <2>2, <4>2
      <3>5. message' \in Message /\ message'.repeaters = message.repeaters
        <4>1. information_length + 1 <= InformationCapacity /\ 1 \in Nat /\ 1 <= n
          BY <1>5, <2>2
        <4> QED
          BY <1>0, <1>4, <3>1, <4>1, WithInformationType
      <3>6. information_length' \in 0..InformationCapacity
        BY <1>5, <2>2, <3>1
      <3>7. /\ information_data'[Len(information_data')] = fcs_data'[2]
            /\ information_data'[Len(information_data') - 1] = fcs_data'[1]
        BY <1>3, <3>3, <3>4
      <3> QED
        BY <1>5, <3>3, <3>5, <3>6, <3>7
    <2>3. CASE n = 4 /\ ~(information_length < InformationCapacity)
      <3>1. /\ information_data' = information_data
            /\ message' = message /\ information_length' = information_length
        BY <1>4, <2>3 DEF ProcessInformationByte
      <3>2. information_length = InformationCapacity
        BY <1>5, <2>3
      <3>3. InformationDropped'
        BY <1>4, <2>3, <3>1, <3>2 DEF InformationDropped
      <3> QED
        BY <1>4, <1>5, <3>1, <3>3
    <2> QED
      BY <2>1, <2>2, <2>3
  <1>7. DecoderTypeOK'
    <2>1. outcome' \in Errors /\ is_reset' \in BOOLEAN /\ Len(fcs_data') \in 0..2
      BY <1>1, <1>3, ShortLengths, Zenon DEF Errors
    <2>2. /\ num_received_bytes' \in 0..CallsignLength /\ address' \in Address
          /\ fcs_field_data' \in Seq(Byte) /\ Len(fcs_field_data') \in 0..2
      BY <1>0, <1>1 DEF DecoderTypeOK
    <2> QED
      BY <1>1, <1>3, <1>6, <2>1, <2>2 DEF DecoderTypeOK, Bits
  <1>8. WindowsAgree'
    BY <1>1, <1>3, <1>6 DEF WindowsAgree
  <1>9. ChecksumIsLast'
    BY <1>1 DEF ChecksumIsLast
  <1> QED
    BY <1>7, <1>8, <1>9 DEF DecoderInv

\* The checksum of a frame without information.
LEMMA FCSKeepsInv ==
  ASSUME DecoderInv, NEW byte \in Byte, is_reset' = FALSE,
         ProcessFCSByte(byte), AppendByteToWindow(byte)
  PROVE  DecoderInv'
  <1>0. DecoderTypeOK /\ WindowsAgree
    BY DEF DecoderInv
  <1>1. /\ field_state = "fcs"
        /\ num_received_bytes' = num_received_bytes /\ address' = address
        /\ information_data' = information_data
        /\ information_length' = information_length /\ message' = message
        /\ fcs_field_data' = Append(fcs_field_data, byte)
    BY DEF ProcessFCSByte, addressing, information
  <1>2. /\ Len(fcs_data) = 2
        /\ \/ fcs_field_data = <<>>
           \/ Len(fcs_field_data) = 1 /\ fcs_field_data[1] = fcs_data[2]
        /\ fcs_field_data \in Seq(Byte)
    <2>1. fcs_field_data \in Seq(Byte)
      BY <1>0 DEF DecoderTypeOK
    <2> QED
      BY <1>0, <1>1, <2>1 DEF WindowsAgree
  <1>3. /\ fcs_data' \in Seq(Byte) /\ Len(fcs_data') = 2
        /\ fcs_data'[1] = fcs_data[2] /\ fcs_data'[2] = byte
    BY <1>0, <1>2, WindowMoves DEF DecoderTypeOK
  <1>4. AppendedFCS \in Bits(16) /\ FinalizeCRC(AppendedFCS) \in Bits(16)
    BY <1>0, AppendedFCSType, CRCType
  <1>5. actual_frame_fcs' \in Bits(16)
    BY <1>4 DEF ProcessFCSByte
  <1>8. /\ num_received_bytes' \in 0..CallsignLength /\ address' \in Address
        /\ information_data' \in Seq(Byte) /\ Len(information_data') \in 0..4
        /\ information_length' \in 0..InformationCapacity
        /\ message' \in Message /\ Len(message'.repeaters) \in 0..MaxNumRepeaters
    BY <1>0, <1>1 DEF DecoderTypeOK
  <1>6. CASE fcs_field_data = <<>>
    <2>1. /\ fcs_field_data' \in Seq(Byte) /\ Len(fcs_field_data') = 1
          /\ fcs_field_data'[1] = byte
      <3>1. Len(fcs_field_data) = 0 /\ 0 \in Nat /\ 0 + 1 = 1
        BY <1>6
      <3> QED
        BY <1>1, <1>2, <3>1, Appended
    <2>2. field_state' = "fcs" /\ outcome' = "unavailable"
      <3>1. Len(Append(fcs_field_data, byte)) # 2
        BY <1>1, <2>1
      <3> QED
        BY <3>1 DEF ProcessFCSByte
    <2>3. DecoderTypeOK'
      <3>1. /\ outcome' \in Errors /\ is_reset' \in BOOLEAN
            /\ Len(fcs_data') \in 0..2 /\ Len(fcs_field_data') \in 0..2
        BY <1>3, <2>1, <2>2, ShortLengths, Zenon DEF Errors
      <3> QED
        BY <1>3, <1>5, <1>8, <2>1, <2>2, <3>1 DEF DecoderTypeOK, Bits
    <2>4. WindowsAgree'
      BY <1>3, <2>1, <2>2 DEF WindowsAgree
    <2> QED
      BY <2>2, <2>3, <2>4 DEF DecoderInv, ChecksumIsLast
  <1>7. CASE fcs_field_data # <<>>
    <2>1. /\ fcs_field_data' \in Seq(Byte) /\ Len(fcs_field_data') = 2
          /\ fcs_field_data'[1] = fcs_field_data[1] /\ fcs_field_data'[2] = byte
      <3>1. Len(fcs_field_data) = 1 /\ 1 \in Nat /\ 1 + 1 = 2 /\ 1 \in 1..1
        BY <1>2, <1>7
      <3> QED
        BY <1>1, <1>2, <3>1, Appended
    <2>2. /\ field_state' = "frame_skip"
          /\ outcome' \in {"message", "checksum_mismatch"}
      <3>1. Len(Append(fcs_field_data, byte)) = 2
        BY <1>1, <2>1
      <3> QED
        BY <3>1 DEF ProcessFCSByte, Verdict
    <2>3. fcs_data' = fcs_field_data'
      <3>1. fcs_data'[1] = fcs_field_data'[1] /\ fcs_data'[2] = fcs_field_data'[2]
        BY <1>2, <1>3, <1>7, <2>1
      <3> QED
        BY <1>3, <2>1, <3>1, SamePair
    <2>4. DecoderTypeOK'
      <3>1. /\ outcome' \in Errors \cup {"message"} /\ is_reset' \in BOOLEAN
            /\ Len(fcs_data') \in 0..2 /\ Len(fcs_field_data') \in 0..2
        BY <1>3, <2>1, <2>2, ShortLengths, Zenon DEF Errors
      <3> QED
        BY <1>3, <1>5, <1>8, <2>1, <2>2, <3>1 DEF DecoderTypeOK, Bits
    <2>5. WindowsAgree'
      BY <1>3, <2>2 DEF WindowsAgree
    <2>6. ChecksumIsLast'
      BY <2>2, <2>3 DEF ChecksumIsLast
    <2> QED
      BY <2>4, <2>5, <2>6 DEF DecoderInv
  <1> QED
    BY <1>6, <1>7

\* Bytes after a frame that was judged.
LEMMA SkipKeepsInv ==
  ASSUME DecoderInv, is_reset' = FALSE, SkipByte
  PROVE  DecoderInv'
  <1>1. /\ field_state' = field_state
        /\ num_received_bytes' = num_received_bytes /\ address' = address
        /\ information_data' = information_data
        /\ information_length' = information_length
        /\ fcs_field_data' = fcs_field_data /\ message' = message
        /\ actual_frame_fcs' = actual_frame_fcs /\ fcs_data' = fcs_data
        /\ outcome' = "unavailable"
    BY DEF SkipByte, addressing, information, checksum
  <1>2. DecoderTypeOK'
    BY <1>1 DEF DecoderInv, DecoderTypeOK, Errors
  <1>3. WindowsAgree'
    BY <1>1 DEF DecoderInv, WindowsAgree, InformationDropped
  <1> QED
    BY <1>1, <1>2, <1>3 DEF DecoderInv, ChecksumIsLast

\* The end of the frame: what is left in the window ends as it did.
LEMMA FlushKeepsInv ==
  ASSUME DecoderInv, FlushInformationBytes
  PROVE  DecoderInv'
  <1> DEFINE delayed == Len(information_data) - 2
             room == InformationCapacity - information_length
             flushed == IF delayed <= room THEN delayed ELSE room
  <1>0. DecoderTypeOK /\ WindowsAgree
    BY DEF DecoderInv
  <1>1. /\ is_reset' = is_reset
        /\ field_state = "information" /\ field_state' = "information"
        /\ num_received_bytes' = num_received_bytes /\ address' = address
        /\ fcs_field_data' = fcs_field_data /\ fcs_data' = fcs_data
        /\ actual_frame_fcs' = FinalizeCRC(actual_frame_fcs)
    BY DEF FlushInformationBytes, addressing
  <1>2. PICK n \in 0..4 : n = Len(information_data)
    BY <1>0 DEF DecoderTypeOK
  <1>3. /\ information_data \in Seq(Byte)
        /\ information_length \in 0..InformationCapacity
        /\ InformationCapacity \in Nat
        /\ message \in Message /\ Len(message.repeaters) \in 0..MaxNumRepeaters
    BY <1>0, LengthsAssumption DEF DecoderTypeOK
  <1>4. /\ is_reset' \in BOOLEAN
        /\ field_state' \in {"destination", "source", "repeater", "control", "pid",
                            "information", "fcs", "frame_skip"}
        /\ num_received_bytes' \in 0..CallsignLength /\ address' \in Address
        /\ fcs_field_data' \in Seq(Byte) /\ Len(fcs_field_data') \in 0..2
        /\ fcs_data' \in Seq(Byte) /\ Len(fcs_data') \in 0..2
    BY <1>0, <1>1 DEF DecoderTypeOK
  <1>5. actual_frame_fcs' \in Bits(16)
    <2>1. actual_frame_fcs \in Bits(16)
      BY <1>0 DEF DecoderTypeOK, Bits
    <2> QED
      BY <1>1, <2>1, CRCType
  <1>6. Len(fcs_data') = 2
    BY <1>0, <1>1 DEF WindowsAgree
  <1>7. CASE n < 2
    <2>1. delayed < 0
      BY <1>2, <1>7
    <2>2. /\ outcome' = "unavailable" /\ message' = message
          /\ information_data' = information_data
          /\ information_length' = information_length
      BY <2>1 DEF FlushInformationBytes, information
    <2>3. DecoderTypeOK'
      <3>1. outcome' \in Errors \cup {"message"} /\ Len(information_data') \in 0..4
        BY <1>2, <2>2 DEF Errors
      <3> QED
        BY <1>3, <1>4, <1>5, <2>2, <3>1 DEF DecoderTypeOK, Bits
    <2>4. WindowsAgree'
      BY <1>0, <1>1, <2>2 DEF WindowsAgree, InformationDropped
    <2> QED
      BY <2>2, <2>3, <2>4 DEF DecoderInv, ChecksumIsLast
  <1>8. CASE ~(n < 2)
    <2>1. ~(delayed < 0) /\ delayed = n - 2 /\ n \in 2..4
      BY <1>2, <1>8
    <2>2. flushed \in 0..(n - 2) /\ information_length + flushed <= InformationCapacity
      BY <1>3, <2>1
    <2>3. /\ message' = WithInformation(flushed)
          /\ information_length' = information_length + flushed
          /\ information_data' = SubSeq(information_data, flushed + 1,
                                        Len(information_data))
          /\ outcome' = IF flushed < delayed THEN "resource_exhausted"
                        ELSE Verdict(information_data', actual_frame_fcs')
      BY <2>1 DEF FlushInformationBytes
    <2>a. flushed < delayed => room < delayed /\ flushed = room
      BY <1>3, <2>1
    <2>b. delayed <= room => flushed = delayed
      OBVIOUS
    <2>c. delayed = n - 2 /\ room = InformationCapacity - information_length
      BY <2>1
    <2> HIDE DEF delayed, room, flushed
    <2>4. message' \in Message /\ message'.repeaters = message.repeaters
      <3>1. flushed \in Nat /\ flushed <= n
        BY <2>1, <2>2
      <3> QED
        BY <1>0, <1>2, <2>2, <2>3, <3>1, WithInformationType
    <2>5. /\ information_data' \in Seq(Byte)
          /\ Len(information_data') = n - flushed
          /\ \A i \in 1..(n - flushed) : information_data'[i] = information_data[flushed + i]
      BY <1>2, <1>3, <2>1, <2>2, <2>3
    <2>6. information_length' \in 0..InformationCapacity
      BY <1>3, <2>2, <2>3
    <2>7. n - flushed \in 2..4
      BY <2>1, <2>2
    <2>8. DecoderTypeOK'
      <3>1. outcome' \in Errors \cup {"message"}
        BY <2>3 DEF Errors, Verdict
      <3>2. Len(information_data') \in 0..4
        BY <2>5, <2>7
      <3>3. Len(message'.repeaters) \in 0..MaxNumRepeaters
        BY <1>3, <2>4
      <3> QED
        BY <1>4, <1>5, <2>4, <2>5, <2>6, <3>1, <3>2, <3>3 DEF DecoderTypeOK, Bits
    <2>9. CASE InformationDropped
      <3>1. n = 4 /\ information_length = InformationCapacity
        BY <1>2, <2>9 DEF InformationDropped
      <3>2. room = 0 /\ delayed = 2
        BY <1>3, <2>c, <3>1
      <3>3. flushed = 0 /\ flushed < delayed
        <4>1. flushed \in 0..2 /\ information_length + flushed <= InformationCapacity
          BY <2>2, <3>1
        <4> QED
          BY <1>3, <3>1, <3>2, <4>1
      <3>4. outcome' = "resource_exhausted"
        BY <2>3, <3>3
      <3>5. InformationDropped'
        BY <1>3, <2>3, <2>5, <3>1, <3>3 DEF InformationDropped
      <3>6. WindowsAgree'
        BY <1>1, <1>6, <3>5 DEF WindowsAgree
      <3> QED
        BY <2>8, <3>4, <3>6 DEF DecoderInv, ChecksumIsLast
    <2>10. CASE ~InformationDropped
      <3>1. information_data[n] = fcs_data[2] /\ information_data[n - 1] = fcs_data[1]
        <4>1. /\ Len(information_data) >= 1
                   => information_data[Len(information_data)] = fcs_data[2]
              /\ Len(information_data) >= 2
                   => information_data[Len(information_data) - 1] = fcs_data[1]
          BY <1>0, <1>1, <2>10 DEF WindowsAgree
        <4> QED
          BY <1>2, <2>1, <4>1
      <3>2. /\ information_data'[n - flushed] = fcs_data'[2]
            /\ information_data'[n - flushed - 1] = fcs_data'[1]
        <4>1. /\ n - flushed \in 1..(n - flushed) /\ n - flushed - 1 \in 1..(n - flushed)
              /\ flushed + (n - flushed) = n /\ flushed + (n - flushed - 1) = n - 1
          BY <2>1, <2>2, <2>7
        <4>2. /\ information_data'[n - flushed] = information_data[n]
              /\ information_data'[n - flushed - 1] = information_data[n - 1]
          BY <2>5, <4>1
        <4> QED
          BY <1>1, <3>1, <4>2
      <3>3. WindowsAgree'
        BY <1>1, <1>6, <2>5, <3>2 DEF WindowsAgree
      <3>4. ASSUME outcome' \in {"message", "checksum_mismatch"}
            PROVE  fcs_data' = information_data'
        <4>1. ~(flushed < delayed)
          BY <2>3, <3>4
        <4>2. flushed = n - 2
          BY <2>1, <2>2, <2>c, <4>1
        <4>3. n - flushed = 2 /\ n - flushed - 1 = 1
          BY <2>1, <4>2
        <4>4. /\ Len(information_data') = 2 /\ Len(fcs_data') = 2
              /\ fcs_data'[1] = information_data'[1]
              /\ fcs_data'[2] = information_data'[2]
          BY <1>6, <2>5, <3>2, <4>3
        <4> QED
          BY <1>4, <2>5, <4>4, SamePair
      <3>5. ChecksumIsLast'
        BY <1>1, <3>4 DEF ChecksumIsLast
      <3> QED
        BY <2>8, <3>3, <3>5 DEF DecoderInv
    <2> QED
      BY <2>9, <2>10
  <1> QED
    BY <1>7, <1>8

\* What changes nothing but, perhaps, the result keeps the invariant.
LEMMA EndElsewhereKeepsInv ==
  ASSUME DecoderInv, outcome' = "unavailable",
         UNCHANGED <<is_reset, field_state, addressing, information,
                     fcs_field_data, checksum, message>>
  PROVE  DecoderInv'
  <1>1. /\ is_reset' = is_reset /\ field_state' = field_state
        /\ num_received_bytes' = num_received_bytes /\ address' = address
        /\ information_data' = information_data
        /\ information_length' = information_length
        /\ fcs_field_data' = fcs_field_data /\ message' = message
        /\ actual_frame_fcs' = actual_frame_fcs /\ fcs_data' = fcs_data
    BY DEF addressing, information, checksum
  <1>2. DecoderTypeOK'
    BY <1>1 DEF DecoderInv, DecoderTypeOK, Errors
  <1>3. WindowsAgree'
    BY <1>1 DEF DecoderInv, WindowsAgree, InformationDropped
  <1> QED
    BY <1>2, <1>3 DEF DecoderInv, ChecksumIsLast

\* No call at all.
LEMMA StutterKeepsInv ==
  ASSUME DecoderInv, UNCHANGED decoderVars
  PROVE  DecoderInv'
  <1>1. /\ is_reset' = is_reset /\ field_state' = field_state
        /\ num_received_bytes' = num_received_bytes /\ address' = address
        /\ information_data' = information_data
        /\ information_length' = information_length
        /\ fcs_field_data' = fcs_field_data /\ message' = message
        /\ actual_frame_fcs' = actual_frame_fcs /\ fcs_data' = fcs_data
        /\ outcome' = outcome
    BY DEF decoderVars, addressing, information, checksum
  <1> QED
    BY <1>1 DEF DecoderInv, DecoderTypeOK, WindowsAgree, InformationDropped,
                ChecksumIsLast

\* Every call.
LEMMA DecoderStep ==
  ASSUME DecoderInv, [DecoderNext]_decoderVars
  PROVE  DecoderInv'
  <1>1. CASE MarkBegin
    BY <1>1, MarkBeginKeepsInv
  <1>2. CASE MarkEnd
    BY <1>2, FlushKeepsInv, EndElsewhereKeepsInv DEF MarkEnd
  <1>3. ASSUME NEW byte \in Byte, ProcessByte(byte)
        PROVE  DecoderInv'
    <2>1. is_reset' = FALSE
      BY <1>3 DEF ProcessByte
    <2>2. CASE /\ \/ ProcessAddressCallsignByte(byte)
                  \/ ProcessAddressDestinationByte(byte)
                  \/ ProcessAddressSourceByte(byte)
                  \/ ProcessAddressRepeaterByte(byte)
                  \/ ProcessControlByte(byte)
                  \/ ProcessPIDByte(byte)
               /\ AppendByteToFCS(byte)
      BY <2>1, <2>2, HeaderKeepsInv
    <2>3. CASE ProcessInformationByte(byte) /\ AppendByteToFCS(byte)
      BY <2>1, <2>3, InformationKeepsInv
    <2>4. CASE ProcessFCSByte(byte) /\ AppendByteToWindow(byte)
      BY <2>1, <2>4, FCSKeepsInv
    <2>5. CASE SkipByte
      BY <2>1, <2>5, SkipKeepsInv
    <2> QED
      BY <1>3, <2>2, <2>3, <2>4, <2>5 DEF ProcessByte
  <1>4. CASE UNCHANGED decoderVars
    BY <1>4, StutterKeepsInv
  <1> QED
    BY <1>1, <1>2, <1>3, <1>4 DEF DecoderNext

--------------------------------------------------------------------------------
\* Types and windows of the decoder, for any calls and any limits.
THEOREM DecoderInvariant == DecoderSpec => []DecoderInv
  <1>1. DecoderInit => DecoderInv
    BY DecoderInitInv
  <1>2. DecoderInv /\ [DecoderNext]_decoderVars => DecoderInv'
    BY DecoderStep
  <1> QED
    BY <1>1, <1>2, PTL DEF DecoderSpec

\* No byte makes the decoder write outside of the call sign, the repeaters or
\* the information of its message (ax25/decoder.h).
THEOREM DecoderTypeCorrect == DecoderSpec => []DecoderTypeOK
  <1>1. DecoderInv => DecoderTypeOK
    BY DEF DecoderInv
  <1> QED
    BY <1>1, DecoderInvariant, PTL

\* The two bytes that are compared with the checksum are always those that it
\* does not cover, although two windows with rules of their own hold them.
THEOREM ChecksumComparesItsOwn == DecoderSpec => []ChecksumIsLast
  <1>1. DecoderInv => ChecksumIsLast
    BY DEF DecoderInv
  <1> QED
    BY <1>1, DecoderInvariant, PTL

--------------------------------------------------------------------------------
(* The checksum and the addresses, defined by recursion.                     *)

\* The checksums of the first bytes, of none of them to all.
CRCsOf(f, bytes) ==
  f = [i \in 0..Len(bytes) |->
         IF i = 0 THEN InitCRC ELSE UpdateCRC(f[i - 1], bytes[i])]

LEMMA CRCsExist ==
  \A n \in Nat : \A bytes \in Seq(Byte) :
    Len(bytes) = n => \E f \in [0..n -> Bits(16)] : CRCsOf(f, bytes)
  <1> DEFINE Has(n) == \A bytes \in Seq(Byte) :
                         Len(bytes) = n =>
                           \E f \in [0..n -> Bits(16)] : CRCsOf(f, bytes)
             Good == {n \in Nat : Has(n)}
  <1>1. Has(0)
    <2> SUFFICES ASSUME NEW bytes \in Seq(Byte), Len(bytes) = 0
                 PROVE  \E f \in [0..0 -> Bits(16)] : CRCsOf(f, bytes)
      OBVIOUS
    <2> DEFINE f == [i \in 0..0 |-> InitCRC]
    <2>1. f \in [0..0 -> Bits(16)]
      BY CRCType
    <2>2. CRCsOf(f, bytes)
      BY DEF CRCsOf
    <2> HIDE DEF f
    <2> QED
      BY <2>1, <2>2
  <1>2. ASSUME NEW n \in Nat, Has(n) PROVE Has(n + 1)
    <2> SUFFICES ASSUME NEW bytes \in Seq(Byte), Len(bytes) = n + 1
                 PROVE  \E f \in [0..(n + 1) -> Bits(16)] : CRCsOf(f, bytes)
      OBVIOUS
    <2> DEFINE s == SubSeq(bytes, 1, n)
    <2>1. s \in Seq(Byte) /\ Len(s) = n /\ \A i \in 1..n : s[i] = bytes[i]
      BY SMT
    <2> HIDE DEF s
    <2>2. PICK g \in [0..n -> Bits(16)] : CRCsOf(g, s)
      BY <1>2, <2>1
    <2>3. bytes[n + 1] \in Byte
      OBVIOUS
    <2> DEFINE last == UpdateCRC(g[n], bytes[n + 1])
               f == [i \in 0..(n + 1) |-> IF i <= n THEN g[i] ELSE last]
    <2>4. last \in Bits(16)
      BY <2>2, <2>3, UpdateCRCType
    <2>5. last = UpdateCRC(g[n], bytes[n + 1])
      OBVIOUS
    <2> HIDE DEF last
    <2>6. f \in [0..(n + 1) -> Bits(16)]
      BY <2>2, <2>4
    <2>7. ASSUME NEW i \in 0..(n + 1)
          PROVE  f[i] = IF i = 0 THEN InitCRC ELSE UpdateCRC(f[i - 1], bytes[i])
      <3>1. CASE i = n + 1
        <4>1. f[i] = last /\ f[i - 1] = g[n]
          BY <3>1
        <4> QED
          BY <2>5, <3>1, <4>1
      <3>2. CASE i # n + 1
        <4>1. i \in 0..n
          BY <3>2
        <4>2. g[i] = IF i = 0 THEN InitCRC ELSE UpdateCRC(g[i - 1], s[i])
          BY <2>1, <2>2, <4>1 DEF CRCsOf
        <4>3. f[i] = g[i]
          BY <4>1
        <4>4. i # 0 => f[i - 1] = g[i - 1] /\ s[i] = bytes[i]
          BY <2>1, <4>1
        <4> QED
          BY <4>2, <4>3, <4>4
      <3> QED
        BY <3>1, <3>2
    <2>8. CRCsOf(f, bytes)
      <3> HIDE DEF f
      <3>1. f = [i \in 0..(n + 1) |-> f[i]]
        BY <2>6
      <3> QED
        BY <2>7, <3>1 DEF CRCsOf
    <2> HIDE DEF f
    <2> QED
      BY <2>6, <2>8
  <1> HIDE DEF Has
  <1>3. 0 \in Good /\ \A n \in Nat : n \in Good => n + 1 \in Good
    BY <1>1, <1>2
  <1> HIDE DEF Good
  <1>4. \A n \in Nat : n \in Good
    BY <1>3, NatSetInduction
  <1> QED
    BY <1>4 DEF Good, Has

LEMMA CRCsAreOne ==
  ASSUME NEW bytes \in Seq(Byte), NEW f, CRCsOf(f, bytes), NEW g, CRCsOf(g, bytes)
  PROVE  f = g
  <1> DEFINE Good == {n \in Nat : n <= Len(bytes) => f[n] = g[n]}
  <1>0. Len(bytes) \in Nat
    BY LenProperties
  <1>1. 0 \in Good
    BY <1>0 DEF CRCsOf
  <1>2. ASSUME NEW n \in Nat, n \in Good PROVE n + 1 \in Good
    <2> SUFFICES ASSUME n + 1 <= Len(bytes) PROVE f[n + 1] = g[n + 1]
      OBVIOUS
    <2>1. f[n] = g[n]
      BY <1>0, <1>2
    <2>2. n + 1 \in 0..Len(bytes) /\ n + 1 # 0 /\ (n + 1) - 1 = n
      BY <1>0
    <2>3. /\ f[n + 1] = UpdateCRC(f[(n + 1) - 1], bytes[n + 1])
          /\ g[n + 1] = UpdateCRC(g[(n + 1) - 1], bytes[n + 1])
      BY <2>2 DEF CRCsOf
    <2> QED
      BY <2>1, <2>2, <2>3
  <1> HIDE DEF Good
  <1>3. \A n \in Nat : n \in Good
    BY <1>1, <1>2, NatSetInduction
  <1>4. \A i \in 0..Len(bytes) : f[i] = g[i]
    BY <1>0, <1>3 DEF Good
  <1>5. f = [i \in 0..Len(bytes) |-> f[i]] /\ g = [i \in 0..Len(bytes) |-> g[i]]
    BY DEF CRCsOf
  <1> QED
    BY <1>4, <1>5

LEMMA CRCOfSolves ==
  ASSUME NEW bytes \in Seq(Byte)
  PROVE  \E f \in [0..Len(bytes) -> Bits(16)] :
           CRCsOf(f, bytes) /\ CRCOf(bytes) = f[Len(bytes)]
  <1> DEFINE f == CHOOSE g : CRCsOf(g, bytes)
  <1>1. CRCOf(bytes) = f[Len(bytes)]
    BY DEF CRCOf, CRCsOf
  <1>2. PICK g \in [0..Len(bytes) -> Bits(16)] : CRCsOf(g, bytes)
    BY CRCsExist, LenProperties
  <1>3. CRCsOf(f, bytes)
    BY <1>2
  <1> HIDE DEF f
  <1>4. f = g
    BY <1>2, <1>3, CRCsAreOne
  <1> QED
    BY <1>1, <1>2, <1>3, <1>4

\* The checksum byte by byte.
LEMMA CRCByteByByte ==
  /\ CRCOf(<<>>) = InitCRC
  /\ \A bytes \in Seq(Byte) : CRCOf(bytes) \in Bits(16)
  /\ \A bytes \in Seq(Byte), byte \in Byte :
       CRCOf(Append(bytes, byte)) = UpdateCRC(CRCOf(bytes), byte)
  <1>1. CRCOf(<<>>) = InitCRC
    <2>1. <<>> \in Seq(Byte) /\ Len(<<>>) = 0
      OBVIOUS
    <2>2. PICK f \in [0..Len(<<>>) -> Bits(16)] :
            CRCsOf(f, <<>>) /\ CRCOf(<<>>) = f[Len(<<>>)]
      BY <2>1, CRCOfSolves
    <2>3. f[0] = InitCRC
      BY <2>1, <2>2 DEF CRCsOf
    <2> QED
      BY <2>1, <2>2, <2>3
  <1>2. ASSUME NEW bytes \in Seq(Byte) PROVE CRCOf(bytes) \in Bits(16)
    <2>1. PICK f \in [0..Len(bytes) -> Bits(16)] : CRCOf(bytes) = f[Len(bytes)]
      BY CRCOfSolves
    <2>2. Len(bytes) \in 0..Len(bytes)
      BY LenProperties
    <2> QED
      BY <2>1, <2>2
  <1>3. ASSUME NEW bytes \in Seq(Byte), NEW byte \in Byte
        PROVE  CRCOf(Append(bytes, byte)) = UpdateCRC(CRCOf(bytes), byte)
    <2> DEFINE n == Len(bytes)
               longer == Append(bytes, byte)
    <2>1. /\ n \in Nat /\ longer \in Seq(Byte) /\ Len(longer) = n + 1
          /\ \A i \in 1..n : longer[i] = bytes[i]
          /\ longer[n + 1] = byte
      BY AppendProperties, LenProperties
    <2>2. n = Len(bytes)
      OBVIOUS
    <2> HIDE DEF n, longer
    <2>3. PICK f \in [0..(n + 1) -> Bits(16)] :
            CRCsOf(f, longer) /\ CRCOf(longer) = f[n + 1]
      BY <2>1, CRCOfSolves
    <2>4. PICK g \in [0..n -> Bits(16)] : CRCsOf(g, bytes) /\ CRCOf(bytes) = g[n]
      BY <2>2, CRCOfSolves
    <2> DEFINE h == [i \in 0..n |-> f[i]]
    <2>5. CRCsOf(h, bytes)
      <3>1. ASSUME NEW i \in 0..n
            PROVE  h[i] = IF i = 0 THEN InitCRC ELSE UpdateCRC(h[i - 1], bytes[i])
        <4>1. f[i] = IF i = 0 THEN InitCRC ELSE UpdateCRC(f[i - 1], longer[i])
          <5>1. i \in 0..Len(longer)
            BY <2>1
          <5> QED
            BY <2>3, <5>1 DEF CRCsOf
        <4>2. h[i] = f[i] /\ (i # 0 => h[i - 1] = f[i - 1] /\ longer[i] = bytes[i])
          BY <2>1
        <4> QED
          BY <4>1, <4>2
      <3>2. h = [i \in 0..n |-> h[i]]
        OBVIOUS
      <3> HIDE DEF h
      <3> QED
        BY <2>2, <3>1, <3>2 DEF CRCsOf
    <2>6. h[n] = f[n]
      BY <2>1
    <2> HIDE DEF h
    <2>7. h = g
      BY <2>4, <2>5, CRCsAreOne
    <2>8. f[n + 1] = UpdateCRC(f[(n + 1) - 1], longer[n + 1])
      <3>1. n + 1 \in 0..Len(longer) /\ n + 1 # 0
        BY <2>1
      <3> QED
        BY <2>3, <3>1 DEF CRCsOf
    <2>9. (n + 1) - 1 = n
      BY <2>1
    <2> QED
      BY <2>1, <2>3, <2>4, <2>6, <2>7, <2>8, <2>9 DEF longer
  <1> QED
    BY <1>1, <1>2, <1>3

--------------------------------------------------------------------------------
\* Where addresses end.
LEMMA AddressEnds ==
  /\ AddressLength \in Nat /\ AddressLength >= 2
  /\ AddressLength = CallsignLength + 1
  /\ AddressEnd(0) = 0
  /\ \A k \in Nat : /\ AddressEnd(k) \in Nat
                    /\ AddressEnd(k + 1) = AddressEnd(k) + AddressLength
  /\ \A j \in Nat, k \in Nat :
       j < k => AddressEnd(j) + AddressLength <= AddressEnd(k)
  <1> DEFINE a == AddressLength
  <1>1. a \in Nat /\ a >= 2 /\ a = CallsignLength + 1
    BY LengthsAssumption DEF AddressLength
  <1> HIDE DEF a
  <1>2. 0 * a = 0 /\ \A k \in Nat : k * a \in Nat /\ (k + 1) * a = k * a + a
    BY <1>1
  <1>3. ASSUME NEW j \in Nat, NEW k \in Nat, j < k PROVE j * a + a <= k * a
    <2> DEFINE d == k - (j + 1)
    <2>1. d \in Nat /\ k = (j + 1) + d
      BY <1>3
    <2>2. d * a \in Nat
      BY <1>1, <2>1
    <2> HIDE DEF d
    <2>3. ((j + 1) + d) * a = j * a + a + d * a
      BY <1>1, <2>1
    <2>4. j * a \in Nat /\ k * a \in Nat
      BY <1>1
    <2> QED
      BY <1>1, <2>1, <2>2, <2>3, <2>4
  <1> QED
    BY <1>1, <1>2, <1>3 DEF AddressEnd, a

--------------------------------------------------------------------------------
(* The bytes that were seen, and one more.                                   *)

\* One more byte of the frame is seen.
Grows(longer, bytes, byte) ==
  /\ longer \in Seq(Byte) /\ Len(longer) = Len(bytes) + 1
  /\ \A i \in 1..Len(bytes) : longer[i] = bytes[i]
  /\ longer[Len(bytes) + 1] = byte

LEMMA AppendGrows ==
  ASSUME NEW bytes \in Seq(Byte), NEW byte \in Byte
  PROVE  Grows(Append(bytes, byte), bytes, byte)
  BY AppendProperties DEF Grows

\* The first bytes are those they were.
LEMMA FirstBytesStay ==
  ASSUME NEW bytes \in Seq(Byte), NEW longer \in Seq(Byte),
         NEW n \in 0..Len(bytes), Len(longer) >= Len(bytes),
         \A i \in 1..Len(bytes) : longer[i] = bytes[i]
  PROVE  /\ SubSeq(longer, 1, n) = SubSeq(bytes, 1, n)
         /\ SubSeq(bytes, 1, n) \in Seq(Byte) /\ Len(SubSeq(bytes, 1, n)) = n
         /\ \A i \in 1..n : SubSeq(bytes, 1, n)[i] = bytes[i]
  <1> DEFINE s == SubSeq(bytes, 1, n)
             t == SubSeq(longer, 1, n)
  <1>0. Len(bytes) \in Nat /\ Len(longer) \in Nat
    BY LenProperties
  <1>1. \A i \in 1..n : bytes[i] \in Byte /\ longer[i] \in Byte
    BY <1>0, ElementOfSeq
  <1>2. s \in Seq(Byte) /\ Len(s) = n /\ \A i \in 1..n : s[i] = bytes[i]
    BY <1>0, <1>1
  <1>3. t \in Seq(Byte) /\ Len(t) = n /\ \A i \in 1..n : t[i] = longer[i]
    BY <1>0, <1>1
  <1> HIDE DEF s, t
  <1>4. t = s
    BY <1>0, <1>2, <1>3, SeqEqual
  <1> QED
    BY <1>2, <1>4 DEF s, t

\* The first bytes and the next one.
LEMMA NextFirstByte ==
  ASSUME NEW bytes \in Seq(Byte), NEW n \in Nat, n < Len(bytes)
  PROVE  SubSeq(bytes, 1, n + 1) = Append(SubSeq(bytes, 1, n), bytes[n + 1])
  <1> DEFINE s == SubSeq(bytes, 1, n)
             t == SubSeq(bytes, 1, n + 1)
             u == Append(s, bytes[n + 1])
  <1>0. Len(bytes) \in Nat /\ n \in 0..Len(bytes) /\ n + 1 \in 0..Len(bytes)
    BY LenProperties
  <1>1. s \in Seq(Byte) /\ Len(s) = n /\ \A i \in 1..n : s[i] = bytes[i]
    BY <1>0, FirstBytesStay
  <1>2. t \in Seq(Byte) /\ Len(t) = n + 1 /\ \A i \in 1..(n + 1) : t[i] = bytes[i]
    BY <1>0, FirstBytesStay
  <1>3. bytes[n + 1] \in Byte
    BY <1>0, ElementOfSeq
  <1> HIDE DEF s, t
  <1>4. /\ u \in Seq(Byte) /\ Len(u) = n + 1
        /\ \A i \in 1..n : u[i] = s[i]
        /\ u[n + 1] = bytes[n + 1]
    BY <1>1, <1>3, AppendProperties
  <1> HIDE DEF u
  <1>5. \A i \in 1..(n + 1) : t[i] = u[i]
    BY <1>1, <1>2, <1>4
  <1>6. t = u
    BY <1>2, <1>4, <1>5, SeqEqual
  <1> QED
    BY <1>6 DEF s, t, u

\* The window of the checksum moves by one byte, and the checksum follows it.
LEMMA ChecksumFollows ==
  ASSUME DecoderTypeOK, seen \in Seq(Byte), ChecksumCovers,
         NEW byte \in Byte, AppendByteToWindow(byte), seen' = Append(seen, byte)
  PROVE  LET n == Len(seen') - Len(fcs_data')
         IN /\ n \in Nat /\ (n > 0 => Len(fcs_data') = 2)
            /\ \A i \in 1..Len(fcs_data') : fcs_data'[i] = seen'[n + i]
            /\ AppendedFCS = CRCOf(SubSeq(seen', 1, n))
  <1> DEFINE k == Len(seen)
             w == Len(fcs_data)
             m == k - w
             n == Len(seen') - Len(fcs_data')
  <1>1. /\ k \in Nat /\ w \in 0..2 /\ fcs_data \in Seq(Byte)
        /\ m \in Nat /\ (m > 0 => w = 2)
        /\ \A i \in 1..w : fcs_data[i] = seen[m + i]
        /\ actual_frame_fcs = CRCOf(SubSeq(seen, 1, m))
    BY LenProperties DEF DecoderTypeOK, ChecksumCovers
  <1>2. Grows(seen', seen, byte)
    BY AppendGrows
  <1>3. /\ seen' \in Seq(Byte) /\ Len(seen') = k + 1 /\ seen'[k + 1] = byte
        /\ \A i \in 1..k : seen'[i] = seen[i]
    BY <1>2 DEF Grows
  <1>4. k = Len(seen) /\ w = Len(fcs_data) /\ m = k - w
    OBVIOUS
  <1>5. SubSeq(seen', 1, m) = SubSeq(seen, 1, m) /\ SubSeq(seen, 1, m) \in Seq(Byte)
    <2>1. m \in 0..Len(seen) /\ Len(seen') >= Len(seen)
      BY <1>1, <1>3
    <2> QED
      BY <1>3, <2>1, FirstBytesStay
  <1>6. CASE w = 2
    <2>1. fcs_data' = <<fcs_data[2], byte>>
      BY <1>6 DEF AppendByteToWindow
    <2>2. Len(fcs_data') = 2 /\ fcs_data'[1] = fcs_data[2] /\ fcs_data'[2] = byte
      BY <2>1
    <2> HIDE DEF k, w, m
    <2>3. n = m + 1 /\ k = m + 2
      BY <1>1, <1>3, <1>4, <1>6, <2>2
    <2>4. fcs_data[1] = seen[m + 1] /\ fcs_data[2] = seen[m + 2]
      BY <1>1, <1>6
    <2>5. \A i \in 1..2 : fcs_data'[i] = seen'[m + 1 + i]
      <3>1. fcs_data'[1] = seen'[m + 1 + 1]
        BY <1>1, <1>3, <2>2, <2>3, <2>4
      <3>2. fcs_data'[2] = seen'[m + 1 + 2]
        BY <1>1, <1>3, <2>2, <2>3
      <3>3. \A i \in 1..2 : i = 1 \/ i = 2
        OBVIOUS
      <3> QED
        BY <3>1, <3>2, <3>3
    <2>6. AppendedFCS = CRCOf(SubSeq(seen', 1, m + 1))
      <3>1. AppendedFCS = UpdateCRC(CRCOf(SubSeq(seen, 1, m)), fcs_data[1])
        BY <1>1, <1>4, <1>6 DEF AppendedFCS
      <3>2. seen'[m + 1] = fcs_data[1] /\ m < Len(seen')
        BY <1>1, <1>3, <2>3, <2>4
      <3>3. seen'[m + 1] \in Byte
        BY <1>1, <1>3, <3>2, ElementOfSeq
      <3>4. SubSeq(seen', 1, m + 1) = Append(SubSeq(seen, 1, m), seen'[m + 1])
        BY <1>1, <1>3, <1>5, <3>2, NextFirstByte
      <3> QED
        BY <1>5, <3>1, <3>2, <3>3, <3>4, CRCByteByByte
    <2>7. n \in Nat
      BY <1>1, <2>3
    <2> QED
      BY <2>2, <2>3, <2>5, <2>6, <2>7
  <1>7. CASE w # 2
    <2>1. fcs_data' = Append(fcs_data, byte)
      BY <1>7 DEF AppendByteToWindow
    <2>2. /\ Len(fcs_data') = w + 1 /\ fcs_data'[w + 1] = byte
          /\ \A i \in 1..w : fcs_data'[i] = fcs_data[i]
      BY <1>1, <2>1, AppendProperties
    <2> HIDE DEF k, w, m
    <2>3. m = 0 /\ k = w /\ n = 0
      BY <1>1, <1>3, <1>4, <1>7, <2>2
    <2>4. \A i \in 1..(w + 1) : fcs_data'[i] = seen'[0 + i]
      <3> TAKE i \in 1..(w + 1)
      <3>1. CASE i = w + 1
        BY <1>1, <1>3, <2>2, <2>3, <3>1
      <3>2. CASE i # w + 1
        <4>1. i \in 1..w
          BY <1>1, <3>2
        <4> QED
          BY <1>1, <1>3, <2>2, <2>3, <4>1
      <3> QED
        BY <3>1, <3>2
    <2>5. AppendedFCS = actual_frame_fcs
      BY <1>4, <1>7 DEF AppendedFCS
    <2>6. AppendedFCS = CRCOf(SubSeq(seen', 1, 0))
      BY <1>1, <1>5, <2>3, <2>5
    <2> QED
      BY <2>2, <2>3, <2>4, <2>6
  <1> QED
    BY <1>6, <1>7

--------------------------------------------------------------------------------
(* Addresses, byte by byte.                                                  *)

\* An address is that of its own bytes.
LEMMA AddressStays ==
  ASSUME NEW bytes \in Seq(Byte), NEW longer, NEW k \in Nat \ {0},
         AddressEnd(k) <= Len(bytes),
         \A i \in 1..Len(bytes) : longer[i] = bytes[i]
  PROVE  AddressAt(longer, k) = AddressAt(bytes, k)
  <1> DEFINE begin == AddressEnd(k - 1)
             end == AddressEnd(k)
  <1>1. Len(bytes) \in Nat /\ k - 1 \in Nat /\ (k - 1) + 1 = k
    BY LenProperties
  <1>2. begin \in Nat /\ end = begin + AddressLength
    BY <1>1, AddressEnds
  <1>3. AddressLength = CallsignLength + 1 /\ CallsignLength \in Nat
    BY AddressEnds, LengthsAssumption
  <1> HIDE DEF begin, end
  <1>4. end \in 1..Len(bytes)
    BY <1>1, <1>2, <1>3 DEF end
  <1>5. longer[end] = bytes[end]
    BY <1>4
  <1>6. \A i \in 1..CallsignLength : longer[begin + i] = bytes[begin + i]
    <2> TAKE i \in 1..CallsignLength
    <2>1. begin + i \in 1..Len(bytes)
      BY <1>1, <1>2, <1>3, <1>4
    <2> QED
      BY <2>1
  <1>7. [i \in 1..CallsignLength |-> SubSeq(longer[begin + i], 2, 8)]
          = [i \in 1..CallsignLength |-> SubSeq(bytes[begin + i], 2, 8)]
    BY <1>6
  <1> QED
    BY <1>5, <1>7 DEF AddressAt, begin, end

\* The addresses of the message stay those of the frame.
LEMMA AddressesStay ==
  ASSUME seen \in Seq(Byte), NEW byte, Grows(seen', seen, byte),
         NEW k \in Nat, AddressEnd(k) <= Len(seen), HasAddresses(k),
         message'.destination = message.destination,
         message'.source = message.source,
         message'.repeaters = message.repeaters
  PROVE  HasAddresses(k)'
  <1>1. /\ Len(seen) \in Nat /\ Len(seen') = Len(seen) + 1
        /\ \A i \in 1..Len(seen) : seen'[i] = seen[i]
    BY LenProperties DEF Grows
  <1>2. \A j \in 1..k : AddressEnd(j) <= Len(seen)
    <2> TAKE j \in 1..k
    <2>1. CASE j = k
      BY <2>1
    <2>2. CASE j # k
      <3>1. j < k /\ j \in Nat
        BY <2>2
      <3>2. /\ AddressEnd(j) + AddressLength <= AddressEnd(k)
            /\ AddressEnd(j) \in Nat /\ AddressEnd(k) \in Nat /\ AddressLength \in Nat
        BY <3>1, AddressEnds
      <3> QED
        BY <1>1, <3>2
    <2> QED
      BY <2>1, <2>2
  <1>3. \A j \in 1..k : AddressAt(seen', j) = AddressAt(seen, j)
    BY <1>1, <1>2, AddressStays
  <1>4. k >= 1 => message'.destination = AddressAt(seen', 1)
    BY <1>3 DEF HasAddresses
  <1>5. k >= 2 => message'.source = AddressAt(seen', 2)
    BY <1>3 DEF HasAddresses
  <1>6. Len(message'.repeaters) = IF k >= 2 THEN k - 2 ELSE 0
    BY DEF HasAddresses
  <1>7. \A i \in 1..Len(message'.repeaters) :
          message'.repeaters[i] = AddressAt(seen', i + 2)
    <2> TAKE i \in 1..Len(message'.repeaters)
    <2>1. i + 2 \in 1..k
      BY <1>6
    <2>2. i \in 1..Len(message.repeaters)
      OBVIOUS
    <2>3. message.repeaters[i] = AddressAt(seen, i + 2)
      BY <2>2 DEF HasAddresses
    <2> QED
      BY <1>3, <2>1, <2>3
  <1> QED
    BY <1>4, <1>5, <1>6, <1>7 DEF HasAddresses

\* Of the first k addresses the extension bits stay what they are.
LEMMA BytesStay ==
  ASSUME seen \in Seq(Byte), NEW byte, Grows(seen', seen, byte)
  PROVE  /\ Len(seen) \in Nat /\ Len(seen') = Len(seen) + 1
         /\ \A i \in 1..Len(seen) : seen'[i] = seen[i]
         /\ seen'[Len(seen) + 1] = byte
         /\ \A k \in Nat : AddressEnd(k) <= Len(seen) =>
              \A j \in 1..k : /\ AddressEnd(j) \in 1..Len(seen)
                              /\ seen'[AddressEnd(j)] = seen[AddressEnd(j)]
  <1>1. /\ Len(seen) \in Nat /\ Len(seen') = Len(seen) + 1
        /\ \A i \in 1..Len(seen) : seen'[i] = seen[i]
        /\ seen'[Len(seen) + 1] = byte
    BY LenProperties DEF Grows
  <1>2. ASSUME NEW k \in Nat, AddressEnd(k) <= Len(seen), NEW j \in 1..k
        PROVE  AddressEnd(j) \in 1..Len(seen)
    <2>1. /\ AddressEnd(0) + AddressLength <= AddressEnd(j) /\ AddressEnd(0) = 0
          /\ AddressLength >= 2 /\ AddressEnd(j) \in Nat /\ AddressEnd(k) \in Nat
          /\ AddressLength \in Nat
      <3>1. 0 < j /\ j \in Nat /\ 0 \in Nat
        OBVIOUS
      <3> QED
        BY <3>1, AddressEnds
    <2>2. j < k => AddressEnd(j) + AddressLength <= AddressEnd(k)
      BY AddressEnds
    <2>3. j = k \/ j < k
      OBVIOUS
    <2>4. AddressEnd(j) <= AddressEnd(k)
      BY <2>1, <2>2, <2>3
    <2> QED
      BY <1>1, <1>2, <2>1, <2>4
  <1> QED
    BY <1>1, <1>2

\* The byte behind a callsign completes the address that is read.
LEMMA AddressCompleted ==
  ASSUME DecoderTypeOK, seen \in Seq(Byte), NEW k \in Nat, InAddress(k),
         num_received_bytes = CallsignLength,
         NEW byte \in Byte, Grows(seen', seen, byte)
  PROVE  /\ Len(seen') = AddressEnd(k + 1)
         /\ seen'[AddressEnd(k + 1)] = byte
         /\ DecodedAddress(byte, k + 1 > 2 /\ byte[8] = 1) = AddressAt(seen', k + 1)
  <1> DEFINE begin == AddressEnd(k)
             end == AddressEnd(k + 1)
  <1>1. /\ begin \in Nat /\ end = begin + AddressLength
        /\ AddressLength = CallsignLength + 1 /\ CallsignLength \in Nat
    BY AddressEnds, LengthsAssumption
  <1>2. Len(seen) = begin + CallsignLength
    BY DEF InAddress
  <1>3. /\ Len(seen') = Len(seen) + 1 /\ seen'[Len(seen) + 1] = byte
        /\ \A i \in 1..Len(seen) : seen'[i] = seen[i]
    BY DEF Grows
  <1>4. \A i \in 1..CallsignLength :
          address.callsign[i] = SubSeq(seen[begin + i], 2, 8)
    BY DEF InAddress
  <1>5. address.callsign = [i \in 1..CallsignLength |-> address.callsign[i]]
    BY DEF DecoderTypeOK, Address
  <1>6. AddressEnd((k + 1) - 1) = begin
    BY DEF begin
  <1> HIDE DEF begin, end
  <1>7. Len(seen') = end /\ seen'[end] = byte
    BY <1>1, <1>2, <1>3
  <1>8. \A i \in 1..CallsignLength : seen'[begin + i] = seen[begin + i]
    <2> TAKE i \in 1..CallsignLength
    <2>1. begin + i \in 1..Len(seen)
      BY <1>1, <1>2
    <2> QED
      BY <1>3, <2>1
  <1>9. address.callsign
          = [i \in 1..CallsignLength |-> SubSeq(seen'[begin + i], 2, 8)]
    BY <1>4, <1>5, <1>8
  <1>10. DecodedAddress(byte, k + 1 > 2 /\ byte[8] = 1) = AddressAt(seen', k + 1)
    BY <1>6, <1>7, <1>9 DEF DecodedAddress, AddressAt, end
  <1> QED
    BY <1>7, <1>10 DEF end

\* A byte of a callsign.
LEMMA CallsignFollows ==
  ASSUME DecoderTypeOK, seen \in Seq(Byte), NEW k \in Nat, InAddress(k),
         NEW byte \in Byte, Grows(seen', seen, byte),
         ProcessAddressCallsignByte(byte)
  PROVE  InAddress(k)'
  <1> DEFINE n == num_received_bytes
  <1>1. /\ n \in 0..CallsignLength /\ ~(n >= CallsignLength)
        /\ num_received_bytes' = n + 1 /\ message' = message
        /\ address' = [address EXCEPT !.callsign =
                         [@ EXCEPT ![n + 1] = SubSeq(byte, 2, 8)]]
    BY DEF DecoderTypeOK, ProcessAddressCallsignByte, CallsignReceived
  <1>2. CallsignLength \in Nat /\ n + 1 \in 1..CallsignLength
    BY <1>1, LengthsAssumption
  <1>3. address' = [address EXCEPT !.callsign =
                      [address.callsign EXCEPT ![n + 1] = SubSeq(byte, 2, 8)]]
    BY <1>1
  <1>4. address'.callsign = [address.callsign EXCEPT ![n + 1] = SubSeq(byte, 2, 8)]
    BY <1>3 DEF DecoderTypeOK, Address
  <1>5. address.callsign \in [1..CallsignLength -> Char]
    BY DEF DecoderTypeOK, Address
  <1> HIDE DEF n
  <1>6. /\ address'.callsign[n + 1] = SubSeq(byte, 2, 8)
        /\ \A i \in 1..n : address'.callsign[i] = address.callsign[i]
    BY <1>1, <1>2, <1>4, <1>5
  <1>7. /\ Len(seen) \in Nat /\ Len(seen') = Len(seen) + 1
        /\ \A i \in 1..Len(seen) : seen'[i] = seen[i]
        /\ seen'[Len(seen) + 1] = byte
    BY BytesStay
  <1> DEFINE begin == AddressEnd(k)
  <1>8. /\ begin \in Nat /\ Len(seen) = begin + n /\ begin <= Len(seen)
        /\ \A i \in 1..n : address.callsign[i] = SubSeq(seen[begin + i], 2, 8)
    BY <1>1, AddressEnds DEF InAddress, n
  <1>9. \A j \in 2..k : ExtensionBit(seen'[AddressEnd(j)]) = 0
    <2> TAKE j \in 2..k
    <2>1. seen'[AddressEnd(j)] = seen[AddressEnd(j)]
      BY <1>8, BytesStay
    <2> QED
      BY <2>1 DEF InAddress
  <1>10. HasAddresses(k)'
    BY <1>1, <1>8, AddressesStay DEF InAddress
  <1> HIDE DEF begin
  <1>11. Len(seen') = begin + (n + 1)
    BY <1>1, <1>2, <1>7, <1>8
  <1>12. \A i \in 1..(n + 1) : address'.callsign[i] = SubSeq(seen'[begin + i], 2, 8)
    <2> TAKE i \in 1..(n + 1)
    <2>1. CASE i = n + 1
      <3>1. begin + i = Len(seen) + 1
        BY <1>1, <1>2, <1>7, <1>8, <2>1
      <3> QED
        BY <1>6, <1>7, <2>1, <3>1
    <2>2. CASE i # n + 1
      <3>1. i \in 1..n /\ begin + i \in 1..Len(seen)
        BY <1>1, <1>2, <1>7, <1>8, <2>2
      <3> QED
        BY <1>6, <1>7, <1>8, <3>1
    <2> QED
      BY <2>1, <2>2
  <1> QED
    BY <1>1, <1>9, <1>10, <1>11, <1>12 DEF InAddress, begin

--------------------------------------------------------------------------------
(* The end of an address.                                                    *)

\* An address is complete: what the extension bits say.
LEMMA ExtensionsFollow ==
  ASSUME DecoderTypeOK, seen \in Seq(Byte), NEW k \in Nat, InAddress(k),
         num_received_bytes = CallsignLength,
         NEW byte \in Byte, Grows(seen', seen, byte)
  PROVE  /\ AddressEnd(k) <= Len(seen) /\ AddressEnd(k + 1) <= Len(seen')
         /\ ExtensionBit(byte) = 0 =>
              \A j \in 2..(k + 1) : ExtensionBit(seen'[AddressEnd(j)]) = 0
         /\ ExtensionBit(byte) = 1 =>
              \A j \in 2..(k + 1) :
                ExtensionBit(seen'[AddressEnd(j)]) = 1 <=> j = k + 1
         /\ ExtensionBit(byte) \in Bit
  <1>1. Len(seen') = AddressEnd(k + 1) /\ seen'[AddressEnd(k + 1)] = byte
    BY AddressCompleted
  <1>2. AddressEnd(k) <= Len(seen) /\ AddressEnd(k + 1) <= Len(seen')
    <2>1. Len(seen) = AddressEnd(k) + CallsignLength /\ AddressEnd(k) \in Nat
      BY AddressEnds DEF InAddress
    <2>2. AddressEnd(k + 1) \in Nat
      BY AddressEnds
    <2> QED
      BY <1>1, <2>1, <2>2, LengthsAssumption
  <1>3. \A j \in 2..k : ExtensionBit(seen'[AddressEnd(j)]) = 0
    <2> TAKE j \in 2..k
    <2>1. j \in 1..k
      OBVIOUS
    <2>2. seen'[AddressEnd(j)] = seen[AddressEnd(j)]
      BY <1>2, <2>1, BytesStay
    <2> QED
      BY <2>2 DEF InAddress
  <1>4. ExtensionBit(byte) \in Bit
    BY ByteParts DEF ExtensionBit
  <1>5. \A j \in 2..(k + 1) : j \in 2..k \/ j = k + 1
    OBVIOUS
  <1>6. \A j \in 2..k : j # k + 1
    OBVIOUS
  <1> QED
    BY <1>1, <1>2, <1>3, <1>4, <1>5, <1>6

\* The destination is complete.
LEMMA DestinationFollows ==
  ASSUME DecoderTypeOK, seen \in Seq(Byte), InAddress(0), HasNoInformation,
         NEW byte \in Byte, Grows(seen', seen, byte),
         ProcessAddressDestinationByte(byte)
  PROVE  field_state' = "source" /\ InAddress(1)' /\ HasNoInformation'
  <1>1. /\ num_received_bytes = CallsignLength
        /\ message' = [message EXCEPT !.destination = DecodedAddress(byte, FALSE)]
        /\ num_received_bytes' = 0 /\ field_state' = "source"
        /\ information_length' = information_length
    <2>1. num_received_bytes \in 0..CallsignLength /\ num_received_bytes >= CallsignLength
      BY DEF DecoderTypeOK, ProcessAddressDestinationByte, CallsignReceived
    <2> QED
      BY <2>1, LengthsAssumption
      DEF ProcessAddressDestinationByte, ClearAddressState, information
  <1>2. /\ message'.destination = DecodedAddress(byte, FALSE)
        /\ message'.repeaters = message.repeaters
        /\ message'.pid = message.pid /\ message'.information = message.information
    BY <1>1 DEF DecoderTypeOK, Message
  <1>3. /\ Len(seen') = AddressEnd(0 + 1)
        /\ DecodedAddress(byte, 0 + 1 > 2 /\ byte[8] = 1) = AddressAt(seen', 0 + 1)
    BY <1>1, AddressCompleted
  <1>4. 0 + 1 = 1 /\ (0 + 1 > 2 /\ byte[8] = 1) = FALSE
    OBVIOUS
  <1>5. Len(seen') = AddressEnd(1) /\ message'.destination = AddressAt(seen', 1)
    BY <1>2, <1>3, <1>4
  <1>6. Len(message.repeaters) = 0
    BY DEF InAddress, HasAddresses
  <1>7. HasAddresses(1)'
    <2>1. ~(1 >= 2) /\ Len(message'.repeaters) = 0
      BY <1>2, <1>6
    <2>2. \A i \in 1..Len(message'.repeaters) : FALSE
      BY <2>1
    <2> QED
      BY <1>5, <2>1, <2>2 DEF HasAddresses
  <1>8. AddressEnd(1) \in Nat
    BY AddressEnds
  <1>9. InAddress(1)'
    BY <1>1, <1>5, <1>7, <1>8 DEF InAddress
  <1> QED
    BY <1>1, <1>2, <1>9 DEF HasNoInformation

\* The source is complete, and may be the last address.
LEMMA SourceFollows ==
  ASSUME DecoderTypeOK, seen \in Seq(Byte), InAddress(1), HasNoInformation,
         NEW byte \in Byte, Grows(seen', seen, byte),
         ProcessAddressSourceByte(byte)
  PROVE  /\ \/ field_state' = "repeater" /\ InAddress(2)'
            \/ /\ field_state' = "control" /\ AddressesEndAt(2)'
               /\ Len(seen') = AddressEnd(2)
         /\ HasNoInformation'
  <1>1. /\ num_received_bytes = CallsignLength
        /\ message' = [message EXCEPT !.source = DecodedAddress(byte, FALSE)]
        /\ IF ExtensionBit(byte) = 0
           THEN field_state' = "repeater" /\ num_received_bytes' = 0
           ELSE field_state' = "control"
        /\ information_length' = information_length
    <2>1. num_received_bytes \in 0..CallsignLength /\ num_received_bytes >= CallsignLength
      BY DEF DecoderTypeOK, ProcessAddressSourceByte, CallsignReceived
    <2>2. num_received_bytes = CallsignLength
      BY <2>1, LengthsAssumption
    <2>3. /\ message' = [message EXCEPT !.source = DecodedAddress(byte, FALSE)]
          /\ information_length' = information_length
      BY DEF ProcessAddressSourceByte, information
    <2>4. IF ExtensionBit(byte) = 0
          THEN field_state' = "repeater" /\ num_received_bytes' = 0
          ELSE field_state' = "control"
      BY Zenon DEF ProcessAddressSourceByte, ClearAddressState
    <2> QED
      BY <2>2, <2>3, <2>4
  <1>2. /\ message'.source = DecodedAddress(byte, FALSE)
        /\ message'.destination = message.destination
        /\ message'.repeaters = message.repeaters
        /\ message'.pid = message.pid /\ message'.information = message.information
    BY <1>1 DEF DecoderTypeOK, Message
  <1>3. /\ Len(seen') = AddressEnd(1 + 1)
        /\ DecodedAddress(byte, 1 + 1 > 2 /\ byte[8] = 1) = AddressAt(seen', 1 + 1)
    BY <1>1, AddressCompleted
  <1>4. 1 + 1 = 2 /\ (1 + 1 > 2 /\ byte[8] = 1) = FALSE
    OBVIOUS
  <1>5. Len(seen') = AddressEnd(2) /\ message'.source = AddressAt(seen', 2)
    BY <1>2, <1>3, <1>4
  <1>6. /\ AddressEnd(1) <= Len(seen) /\ AddressEnd(2) <= Len(seen')
        /\ ExtensionBit(byte) = 0 =>
             \A j \in 2..2 : ExtensionBit(seen'[AddressEnd(j)]) = 0
        /\ ExtensionBit(byte) = 1 =>
             \A j \in 2..2 : ExtensionBit(seen'[AddressEnd(j)]) = 1 <=> j = 2
        /\ ExtensionBit(byte) \in Bit
    BY <1>1, <1>4, ExtensionsFollow
  <1>7. HasAddresses(2)'
    <2>1. Len(message.repeaters) = 0 /\ message.destination = AddressAt(seen, 1)
      BY DEF InAddress, HasAddresses
    <2>2. AddressAt(seen', 1) = AddressAt(seen, 1)
      BY <1>6, AddressStays, BytesStay
    <2>3. /\ message'.destination = AddressAt(seen', 1)
          /\ message'.source = AddressAt(seen', 2)
          /\ Len(message'.repeaters) = 0
      BY <1>2, <1>5, <2>1, <2>2, Zenon
    <2>4. \A i \in 1..Len(message'.repeaters) : FALSE
      BY <2>3
    <2>5. 0 = 2 - 2 /\ 2 >= 2
      OBVIOUS
    <2> QED
      BY <2>3, <2>4, <2>5 DEF HasAddresses
  <1>8. AddressEnd(2) \in Nat
    BY AddressEnds
  <1>9. CASE ExtensionBit(byte) = 0
    <2>1. InAddress(2)'
      BY <1>1, <1>5, <1>6, <1>7, <1>8, <1>9 DEF InAddress
    <2> QED
      BY <1>1, <1>2, <1>9, <2>1 DEF HasNoInformation
  <1>10. CASE ExtensionBit(byte) = 1
    <2>1. AddressesEndAt(2)'
      BY <1>5, <1>6, <1>7, <1>8, <1>10, RepeatersAssumption DEF AddressesEndAt
    <2> QED
      BY <1>1, <1>2, <1>5, <1>10, <2>1 DEF HasNoInformation
  <1> QED
    BY <1>6, <1>9, <1>10 DEF Bit

\* A repeater is complete, and may be the last address.
LEMMA RepeaterFollows ==
  ASSUME DecoderTypeOK, seen \in Seq(Byte),
         NEW k \in 2..(MaxNumRepeaters + 2), InAddress(k), HasNoInformation,
         NEW byte \in Byte, Grows(seen', seen, byte),
         ProcessAddressRepeaterByte(byte)
  PROVE  /\ \/ /\ field_state' = "repeater" /\ k < MaxNumRepeaters + 2
               /\ InAddress(k + 1)'
            \/ field_state' = "repeater" /\ TooManyRepeaters'
            \/ /\ field_state' = "control" /\ AddressesEndAt(k + 1)'
               /\ Len(seen') = AddressEnd(k + 1) /\ k < MaxNumRepeaters + 2
         /\ HasNoInformation'
  <1> DEFINE repeater == DecodedAddress(byte, byte[8] = 1)
             fits == Len(message.repeaters) < MaxNumRepeaters
  <1>0. MaxNumRepeaters \in Nat /\ k \in Nat /\ k >= 2
    BY RepeatersAssumption
  <1>1. /\ num_received_bytes = CallsignLength
        /\ message' = IF fits
                      THEN [message EXCEPT !.repeaters = Append(@, repeater)]
                      ELSE message
        /\ IF fits /\ ExtensionBit(byte) = 0 THEN num_received_bytes' = 0
           ELSE num_received_bytes' = num_received_bytes
        /\ field_state' = IF fits /\ ExtensionBit(byte) = 1 THEN "control"
                          ELSE "repeater"
        /\ information_length' = information_length
    <2>1. num_received_bytes \in 0..CallsignLength /\ num_received_bytes >= CallsignLength
      BY DEF DecoderTypeOK, ProcessAddressRepeaterByte, CallsignReceived
    <2> QED
      BY <2>1, LengthsAssumption
      DEF ProcessAddressRepeaterByte, ClearAddressState, information, RepeaterFits
  <1>2. /\ message'.destination = message.destination
        /\ message'.source = message.source
        /\ message'.pid = message.pid /\ message'.information = message.information
        /\ fits => message'.repeaters = Append(message.repeaters, repeater)
        /\ ~fits => message'.repeaters = message.repeaters
    BY <1>1 DEF DecoderTypeOK, Message
  <1>3. /\ Len(seen') = AddressEnd(k + 1)
        /\ repeater = AddressAt(seen', k + 1)
    <2>1. (k + 1 > 2 /\ byte[8] = 1) = (byte[8] = 1)
      BY <1>0
    <2> QED
      BY <1>0, <1>1, <2>1, AddressCompleted
  <1>4. /\ AddressEnd(k) <= Len(seen) /\ AddressEnd(k + 1) <= Len(seen')
        /\ ExtensionBit(byte) = 0 =>
             \A j \in 2..(k + 1) : ExtensionBit(seen'[AddressEnd(j)]) = 0
        /\ ExtensionBit(byte) = 1 =>
             \A j \in 2..(k + 1) :
               ExtensionBit(seen'[AddressEnd(j)]) = 1 <=> j = k + 1
        /\ ExtensionBit(byte) \in Bit
    BY <1>0, <1>1, ExtensionsFollow
  <1>5. Len(message.repeaters) = k - 2 /\ message.repeaters \in Seq(Address)
    BY <1>0 DEF InAddress, HasAddresses, DecoderTypeOK, Message
  <1>6. repeater \in Address
    BY DecodedAddressType DEF DecoderTypeOK
  <1>7. fits = (k < MaxNumRepeaters + 2)
    BY <1>0, <1>5
  <1>8. HasNoInformation'
    BY <1>1, <1>2 DEF HasNoInformation
  <1> HIDE DEF repeater, fits
  <1>9. CASE fits
    <2> DEFINE longer == Append(message.repeaters, repeater)
    <2>1. /\ Len(longer) = k - 1
          /\ \A i \in 1..(k - 2) : longer[i] = message.repeaters[i]
          /\ longer[k - 1] = repeater
      <3>1. /\ Len(longer) = Len(message.repeaters) + 1
            /\ \A i \in 1..Len(message.repeaters) : longer[i] = message.repeaters[i]
            /\ longer[Len(message.repeaters) + 1] = repeater
        BY <1>5, <1>6, AppendProperties
      <3> HIDE DEF longer
      <3>2. (k - 2) + 1 = k - 1
        BY <1>0
      <3> QED
        BY <1>5, <3>1, <3>2
    <2>2. message'.repeaters = longer
      BY <1>2, <1>9
    <2> HIDE DEF longer
    <2>3. HasAddresses(k + 1)'
      <3>1. \A j \in 1..k : AddressAt(seen', j) = AddressAt(seen, j)
        <4> TAKE j \in 1..k
        <4>1. AddressEnd(j) \in 1..Len(seen)
          BY <1>0, <1>4, BytesStay
        <4>2. AddressEnd(j) <= Len(seen)
          BY <4>1, LenProperties
        <4> QED
          BY <4>2, AddressStays, BytesStay
      <3>2. /\ message.destination = AddressAt(seen, 1)
            /\ message.source = AddressAt(seen, 2)
            /\ \A i \in 1..(k - 2) : message.repeaters[i] = AddressAt(seen, i + 2)
        BY <1>0, <1>5 DEF InAddress, HasAddresses
      <3>3. 1 \in 1..k /\ 2 \in 1..k /\ k + 1 >= 2 /\ (k + 1) - 2 = k - 1
        BY <1>0
      <3>4. /\ message'.destination = AddressAt(seen', 1)
            /\ message'.source = AddressAt(seen', 2)
        BY <1>2, <3>1, <3>2, <3>3
      <3>5. \A i \in 1..(k - 1) : longer[i] = AddressAt(seen', i + 2)
        <4> TAKE i \in 1..(k - 1)
        <4>1. CASE i = k - 1
          <5>1. i + 2 = k + 1
            BY <1>0, <4>1
          <5> QED
            BY <1>3, <2>1, <4>1, <5>1
        <4>2. CASE i # k - 1
          <5>1. i \in 1..(k - 2) /\ i + 2 \in 1..k
            BY <1>0, <4>2
          <5> QED
            BY <2>1, <3>1, <3>2, <5>1
        <4> QED
          BY <4>1, <4>2
      <3> QED
        BY <2>1, <2>2, <3>3, <3>4, <3>5 DEF HasAddresses
    <2>4. AddressEnd(k + 1) \in Nat
      BY <1>0, AddressEnds
    <2>5. CASE ExtensionBit(byte) = 0
      <3>1. num_received_bytes' = 0 /\ field_state' = "repeater"
        BY <1>1, <1>9, <2>5
      <3>2. InAddress(k + 1)'
        BY <1>3, <1>4, <2>3, <2>4, <2>5, <3>1 DEF InAddress
      <3> QED
        BY <1>7, <1>8, <1>9, <3>1, <3>2
    <2>6. CASE ExtensionBit(byte) = 1
      <3>1. field_state' = "control"
        BY <1>1, <1>9, <2>6
      <3>3. k < MaxNumRepeaters + 2
        BY <1>7, <1>9
      <3>4. (k + 1) - 2 <= MaxNumRepeaters
        BY <1>0, <3>3
      <3>2. AddressesEndAt(k + 1)'
        BY <1>4, <2>3, <2>6, <3>4 DEF AddressesEndAt
      <3> QED
        BY <1>3, <1>8, <3>1, <3>2, <3>3
    <2> QED
      BY <1>4, <2>5, <2>6 DEF Bit
  <1>10. CASE ~fits
    <2>0. ~(k < MaxNumRepeaters + 2)
      BY <1>7, <1>10
    <2>1. k = MaxNumRepeaters + 2 /\ k + 1 = MaxNumRepeaters + 3 /\ k - 2 = MaxNumRepeaters
      BY <1>0, <2>0
    <2>2. /\ field_state' = "repeater" /\ num_received_bytes' = CallsignLength
          /\ Len(message'.repeaters) = MaxNumRepeaters
      <3>1. field_state' = "repeater" /\ num_received_bytes' = num_received_bytes
        BY <1>1, <1>10
      <3>2. message'.repeaters = message.repeaters
        BY <1>2, <1>10
      <3> QED
        BY <1>1, <1>5, <2>1, <3>1, <3>2
    <2>3. Len(seen') >= AddressEnd(MaxNumRepeaters + 3)
      <3>0. MaxNumRepeaters + 3 \in Nat
        BY <1>0
      <3>1. AddressEnd(MaxNumRepeaters + 3) \in Nat
        BY <3>0, AddressEnds
      <3> QED
        BY <1>3, <2>1, <3>1
    <2>4. \A j \in 2..(MaxNumRepeaters + 2) : ExtensionBit(seen'[AddressEnd(j)]) = 0
      <3> TAKE j \in 2..(MaxNumRepeaters + 2)
      <3>1. j \in 1..k /\ j \in 2..k
        BY <2>1
      <3>2. seen'[AddressEnd(j)] = seen[AddressEnd(j)]
        BY <1>0, <1>4, <3>1, BytesStay
      <3> QED
        BY <3>1, <3>2 DEF InAddress
    <2>5. TooManyRepeaters'
      BY <2>2, <2>3, <2>4 DEF TooManyRepeaters
    <2> QED
      BY <1>8, <2>2, <2>5
  <1> QED
    BY <1>9, <1>10

--------------------------------------------------------------------------------
(* What follows the addresses.                                               *)

\* Behind a repeater too many the decoder stays where it is.
LEMMA TooManyStay ==
  ASSUME DecoderTypeOK, seen \in Seq(Byte), TooManyRepeaters, HasNoInformation,
         NEW byte \in Byte, Grows(seen', seen, byte),
         ProcessAddressRepeaterByte(byte)
  PROVE  field_state' = "repeater" /\ TooManyRepeaters' /\ HasNoInformation'
  <1>1. ~RepeaterFits
    BY RepeatersAssumption DEF RepeaterFits, TooManyRepeaters
  <1>2. /\ message' = message /\ information_length' = information_length
        /\ num_received_bytes' = num_received_bytes
        /\ field_state' = "repeater"
    BY <1>1, Zenon DEF ProcessAddressRepeaterByte, information
  <1> DEFINE k == MaxNumRepeaters + 2
  <1>3. /\ k \in Nat /\ k + 1 = MaxNumRepeaters + 3 /\ k + 1 \in Nat
        /\ AddressEnd(k) \in Nat /\ AddressEnd(k + 1) \in Nat
        /\ AddressEnd(k + 1) = AddressEnd(k) + AddressLength /\ AddressLength \in Nat
    <2>1. k \in Nat /\ k + 1 = MaxNumRepeaters + 3 /\ k + 1 \in Nat
      BY RepeatersAssumption
    <2> HIDE DEF k
    <2> QED
      BY <2>1, AddressEnds
  <1>4. /\ Len(seen) >= AddressEnd(k + 1)
        /\ \A j \in 2..k : ExtensionBit(seen[AddressEnd(j)]) = 0
    BY <1>3 DEF TooManyRepeaters
  <1>7. k + 1 = MaxNumRepeaters + 3 /\ k = MaxNumRepeaters + 2
    BY <1>3
  <1> HIDE DEF k
  <1>5. Len(seen') >= AddressEnd(k + 1) /\ AddressEnd(k) <= Len(seen)
    BY <1>3, <1>4, BytesStay
  <1>6. \A j \in 2..k : ExtensionBit(seen'[AddressEnd(j)]) = 0
    <2> TAKE j \in 2..k
    <2>1. j \in 1..k
      BY <1>3
    <2>2. seen'[AddressEnd(j)] = seen[AddressEnd(j)]
      BY <1>3, <1>5, <2>1, BytesStay
    <2> QED
      BY <1>4, <2>2
  <1>8. TooManyRepeaters'
    BY <1>2, <1>5, <1>6, <1>7 DEF TooManyRepeaters
  <1> QED
    BY <1>2, <1>8 DEF HasNoInformation

\* The last address stays the last one.
LEMMA EndStays ==
  ASSUME seen \in Seq(Byte), NEW byte, Grows(seen', seen, byte),
         NEW n \in 2..(MaxNumRepeaters + 2), AddressesEndAt(n),
         message'.destination = message.destination,
         message'.source = message.source,
         message'.repeaters = message.repeaters
  PROVE  /\ AddressesEndAt(n)' /\ AddressEnd(n) \in Nat
         /\ AddressEnd(n) <= Len(seen) /\ Len(seen) \in Nat
         /\ Len(seen') = Len(seen) + 1 /\ seen'[Len(seen) + 1] = byte
         /\ \A i \in 1..Len(seen) : seen'[i] = seen[i]
  <1>1. n \in Nat
    BY RepeatersAssumption
  <1>2. AddressEnd(n) \in Nat /\ AddressEnd(n) <= Len(seen)
    BY <1>1, AddressEnds DEF AddressesEndAt
  <1>3. AddressEnd(n) <= Len(seen')
    BY <1>2, BytesStay
  <1>4. HasAddresses(n)'
    BY <1>1, <1>2, AddressesStay DEF AddressesEndAt
  <1>5. \A j \in 2..n : ExtensionBit(seen'[AddressEnd(j)]) = 1 <=> j = n
    <2> TAKE j \in 2..n
    <2>1. j \in 1..n
      BY <1>1
    <2>2. seen'[AddressEnd(j)] = seen[AddressEnd(j)]
      BY <1>1, <1>2, <2>1, BytesStay
    <2> QED
      BY <2>2 DEF AddressesEndAt
  <1> QED
    BY <1>2, <1>3, <1>4, <1>5, BytesStay DEF AddressesEndAt

\* The control field stays what it is.
LEMMA ControlStays ==
  ASSUME seen \in Seq(Byte), NEW byte, Grows(seen', seen, byte),
         NEW n \in Nat, HasControl(n), message'.control = message.control
  PROVE  HasControl(n)'
  <1>1. AddressEnd(n) \in Nat
    BY AddressEnds
  <1> DEFINE c == AddressEnd(n) + 1
  <1>2. c \in 1..Len(seen) /\ c <= Len(seen')
    BY <1>1, BytesStay DEF HasControl
  <1>3. seen'[c] = seen[c]
    BY <1>2, BytesStay
  <1> QED
    BY <1>2, <1>3 DEF HasControl

\* The control field is complete.
LEMMA ControlFollows ==
  ASSUME DecoderTypeOK, WindowsAgree, seen \in Seq(Byte), field_state = "control",
         NEW n \in 2..(MaxNumRepeaters + 2), AddressesEndAt(n),
         Len(seen) = AddressEnd(n), HasNoInformation,
         NEW byte \in Byte, Grows(seen', seen, byte), ProcessControlByte(byte)
  PROVE  BehindHeader(n)'
  <1>1. /\ message' = [message EXCEPT !.control = byte]
        /\ fcs_field_data' = fcs_field_data
        /\ information_length' = information_length
    BY Zenon DEF ProcessControlByte, information
  <1>2. /\ message'.destination = message.destination
        /\ message'.source = message.source
        /\ message'.repeaters = message.repeaters
        /\ message'.pid = message.pid /\ message'.information = message.information
        /\ message'.control = byte
    BY <1>1 DEF DecoderTypeOK, Message
  <1>3. /\ AddressesEndAt(n)' /\ AddressEnd(n) \in Nat
        /\ Len(seen') = AddressEnd(n) + 1 /\ seen'[AddressEnd(n) + 1] = byte
    BY <1>2, EndStays
  <1>4. HasControl(n)'
    BY <1>2, <1>3 DEF HasControl
  <1>5. HasNoInformation'
    BY <1>1, <1>2 DEF HasNoInformation
  <1>6. fcs_field_data' = <<>>
    BY <1>1 DEF WindowsAgree
  <1>7. CASE FrameControlUsesInfo(byte)
    <2>1. field_state' = "pid"
      BY <1>7, Zenon DEF ProcessControlByte, FrameControlUsesPID
    <2> QED
      BY <1>2, <1>3, <1>4, <1>5, <1>7, <2>1 DEF BehindHeader
  <1>8. CASE ~FrameControlUsesInfo(byte)
    <2>1. field_state' = "fcs"
      BY <1>8, Zenon DEF ProcessControlByte, FrameControlUsesPID, FieldAfterPID
    <2>2. Len(fcs_field_data') = 0 /\ Len(fcs_field_data') < 2
          /\ Len(seen') = AddressEnd(n) + 1 + Len(fcs_field_data')
      BY <1>3, <1>6
    <2> QED
      BY <1>2, <1>3, <1>4, <1>5, <1>8, <2>1, <2>2 DEF BehindHeader
  <1> QED
    BY <1>7, <1>8

\* The PID is complete.
LEMMA PIDFollows ==
  ASSUME DecoderTypeOK, WindowsAgree, seen \in Seq(Byte), field_state = "pid",
         NEW n \in 2..(MaxNumRepeaters + 2), AddressesEndAt(n),
         Len(seen) = AddressEnd(n) + 1, HasControl(n),
         FrameControlUsesInfo(message.control), HasNoInformation,
         NEW byte \in Byte, Grows(seen', seen, byte), ProcessPIDByte(byte)
  PROVE  BehindHeader(n)'
  <1>1. /\ message' = [message EXCEPT !.pid = byte]
        /\ information_data' = information_data
        /\ information_length' = information_length
    BY Zenon DEF ProcessPIDByte, information
  <1>2. /\ message'.destination = message.destination
        /\ message'.source = message.source
        /\ message'.repeaters = message.repeaters
        /\ message'.control = message.control
        /\ message'.information = message.information
        /\ message'.pid = byte
    BY <1>1 DEF DecoderTypeOK, Message
  <1>3. /\ AddressesEndAt(n)' /\ AddressEnd(n) \in Nat
        /\ Len(seen') = AddressEnd(n) + 2 /\ seen'[AddressEnd(n) + 2] = byte
    <2>1. /\ AddressesEndAt(n)' /\ AddressEnd(n) \in Nat
          /\ Len(seen') = Len(seen) + 1 /\ seen'[Len(seen) + 1] = byte
      BY <1>2, EndStays
    <2>2. Len(seen) + 1 = AddressEnd(n) + 2
      BY <2>1
    <2> QED
      BY <2>1, <2>2
  <1>4. HasControl(n)'
    <2>1. n \in Nat
      BY RepeatersAssumption
    <2> QED
      BY <1>2, <2>1, ControlStays
  <1>5. field_state' = "information"
    BY Zenon DEF ProcessPIDByte, FieldAfterPID
  <1>6. information_data' = <<>> /\ Len(information_data') = 0
    BY <1>1 DEF WindowsAgree
  <1>7. /\ information_length' = 0
        /\ message'.information = [i \in 1..InformationCapacity |-> Nul]
    BY <1>1, <1>2 DEF HasNoInformation, EmptyInformation
  <1>8. InInformation(n)'
    <2> DEFINE begin == AddressEnd(n) + 2
               read == Len(seen') - begin
    <2>1. read = 0 /\ read >= 0 /\ message'.pid = seen'[begin]
      BY <1>2, <1>3
    <2>2. read = information_length' + Len(information_data')
      BY <1>6, <1>7, <2>1
    <2>3. \A i \in 1..Len(information_data') : FALSE
      BY <1>6
    <2>4. \A i \in 1..InformationCapacity :
            message'.information[i] =
              IF i <= information_length' THEN seen'[begin + i] ELSE Nul
      <3> TAKE i \in 1..InformationCapacity
      <3>1. ~(i <= information_length')
        BY <1>7
      <3>2. message'.information[i] = Nul
        BY <1>7
      <3> QED
        BY <3>1, <3>2
    <2>5. ~(information_length' > 0)
      BY <1>7
    <2> QED
      BY <2>1, <2>2, <2>3, <2>4, <2>5 DEF InInformation
  <1> QED
    BY <1>2, <1>3, <1>4, <1>5, <1>8 DEF BehindHeader

--------------------------------------------------------------------------------
(* The information.                                                          *)

\* What the bytes of the window leave of the message.
LEMMA InformationFields ==
  ASSUME DecoderTypeOK, NEW n \in Nat
  PROVE  LET m == WithInformation(n)
         IN /\ m.destination = message.destination /\ m.source = message.source
            /\ m.repeaters = message.repeaters /\ m.control = message.control
            /\ m.pid = message.pid
            /\ m.information =
                 [i \in 1..InformationCapacity |->
                    IF i \in information_length + 1 .. information_length + n
                    THEN information_data[i - information_length]
                    ELSE message.information[i]]
  <1> DEFINE info == [i \in 1..InformationCapacity |->
                        IF i \in information_length + 1 .. information_length + n
                        THEN information_data[i - information_length]
                        ELSE message.information[i]]
  <1>1. message \in Message
    BY DEF DecoderTypeOK
  <1>2. WithInformation(n) = [message EXCEPT !.information = info]
    BY DEF WithInformation
  <1>3. info = [i \in 1..InformationCapacity |->
                  IF i \in information_length + 1 .. information_length + n
                  THEN information_data[i - information_length]
                  ELSE message.information[i]]
    OBVIOUS
  <1> HIDE DEF info
  <1>4. /\ WithInformation(n).destination = message.destination
        /\ WithInformation(n).source = message.source
        /\ WithInformation(n).repeaters = message.repeaters
        /\ WithInformation(n).control = message.control
        /\ WithInformation(n).pid = message.pid
        /\ WithInformation(n).information = info
    BY <1>1, <1>2 DEF Message
  <1> QED
    BY <1>3, <1>4

\* A window of four bytes moves by one.
LEMMA FullWindowMoves ==
  ASSUME NEW s \in Seq(Byte), Len(s) = 4, NEW byte \in Byte
  PROVE  LET t == Append(Tail(s), byte)
         IN /\ Len(t) = 4 /\ t[4] = byte
            /\ \A i \in 1..3 : t[i] = s[i + 1]
  <1> DEFINE tail == Tail(s)
  <1>1. s # <<>>
    OBVIOUS
  <1>2. /\ tail \in Seq(Byte) /\ Len(tail) = Len(s) - 1
        /\ \A i \in 1..Len(tail) : tail[i] = s[i + 1]
    BY <1>1, HeadTailProperties
  <1> HIDE DEF tail
  <1>3. Len(tail) = 3
    BY <1>2
  <1>4. 3 \in Nat /\ 3 + 1 = 4
    OBVIOUS
  <1>5. \A k \in Nat : Len(tail) = k =>
          /\ Len(Append(tail, byte)) = k + 1 /\ Append(tail, byte)[k + 1] = byte
          /\ \A i \in 1..k : Append(tail, byte)[i] = tail[i]
    BY <1>2, Appended
  <1> QED
    BY <1>2, <1>3, <1>4, <1>5 DEF tail

\* A byte of the information, or of the checksum behind it.
LEMMA InformationFollows ==
  ASSUME DecoderTypeOK, seen \in Seq(Byte), field_state = "information",
         NEW n \in 2..(MaxNumRepeaters + 2), AddressesEndAt(n), HasControl(n),
         FrameControlUsesInfo(message.control), InInformation(n),
         NEW byte \in Byte, Grows(seen', seen, byte),
         ProcessInformationByte(byte)
  PROVE  BehindHeader(n)'
  <1> DEFINE begin == AddressEnd(n) + 2
             read == Len(seen) - begin
             size == Len(information_data)
             length == information_length
             capacity == InformationCapacity
  <1>1. n \in Nat /\ capacity \in Nat /\ AddressEnd(n) \in Nat
    <2>1. n \in Nat
      BY RepeatersAssumption
    <2> QED
      BY <2>1, LengthsAssumption, AddressEnds
  <1>2. /\ begin \in Nat /\ size \in 0..4 /\ length \in 0..capacity
        /\ information_data \in Seq(Byte)
    BY SMTT(30), <1>1 DEF DecoderTypeOK
  <1>3. /\ Len(seen) \in Nat /\ Len(seen') = Len(seen) + 1
        /\ \A i \in 1..Len(seen) : seen'[i] = seen[i]
        /\ seen'[Len(seen) + 1] = byte
    BY BytesStay
  <1>4. /\ read >= 0 /\ message.pid = seen[begin]
        /\ length > 0 => size = 4
        /\ \/ read > capacity + 4 /\ size = 4 /\ length = capacity
           \/ /\ read = length + size
              /\ \A i \in 1..size : information_data[i] = seen[begin + length + i]
              /\ \A i \in 1..capacity :
                   message.information[i] =
                     IF i <= length THEN seen[begin + i] ELSE Nul
    BY DEF InInformation, InformationDropped
  <1>5. field_state' = "information"
    BY DEF ProcessInformationByte
  <1>6. begin = AddressEnd(n) + 2 /\ read = Len(seen) - begin /\ begin \in 1..Len(seen)
    BY <1>1, <1>3, <1>4
  <1> DEFINE dropped == size = 4 /\ ~(length < capacity)
             moved == size = 4 /\ length < capacity
  <1>7. /\ size # 4 => /\ information_data' = Append(information_data, byte)
                       /\ message' = message /\ information_length' = length
        /\ moved => /\ information_data' = Append(Tail(information_data), byte)
                    /\ message' = WithInformation(1)
                    /\ information_length' = length + 1
        /\ dropped => /\ information_data' = information_data
                      /\ message' = message /\ information_length' = length
    BY Zenon DEF ProcessInformationByte
  <1>8. (size # 4 \/ moved \/ dropped) /\ (dropped => length = capacity)
    BY <1>1, <1>2
  <1>9. /\ message'.destination = message.destination
        /\ message'.source = message.source
        /\ message'.repeaters = message.repeaters
        /\ message'.control = message.control
        /\ message'.pid = message.pid
    <2>1. CASE moved
      <3>1. message' = WithInformation(1) /\ 1 \in Nat
        BY <1>7, <2>1
      <3> QED
        BY <3>1, InformationFields
    <2>2. CASE ~moved
      <3>1. message' = message
        BY <1>7, <1>8, <2>2, Zenon
      <3> QED
        BY <3>1
    <2> QED
      BY <2>1, <2>2
  <1>10. AddressesEndAt(n)' /\ HasControl(n)' /\ FrameControlUsesInfo(message'.control)
    BY <1>1, <1>9, EndStays, ControlStays
  <1>11. message'.pid = seen'[begin]
    BY <1>3, <1>4, <1>6, <1>9
  <1>12. moved => message'.information =
           [i \in 1..capacity |->
              IF i \in length + 1 .. length + 1
              THEN information_data[i - length] ELSE message.information[i]]
    BY <1>7, InformationFields
  <1>21. \A i \in 1..read : /\ begin + i \in 1..Len(seen)
                            /\ seen'[begin + i] = seen[begin + i]
    <2> TAKE i \in 1..read
    <2>1. begin + i \in 1..Len(seen)
      BY <1>2, <1>3, <1>6
    <2> QED
      BY <1>3, <2>1
  <1>22. seen'[begin + (read + 1)] = byte /\ Len(seen') - begin = read + 1
    BY <1>2, <1>3, <1>6
  <1> HIDE DEF begin, read, length, capacity, size, moved, dropped
  <1>13. SUFFICES
         /\ information_length' > 0 => Len(information_data') = 4
         /\ \/ /\ read + 1 > capacity + 4
               /\ Len(information_data') = 4 /\ information_length' = capacity
            \/ /\ read + 1 = information_length' + Len(information_data')
               /\ \A i \in 1..Len(information_data') :
                    information_data'[i] = seen'[begin + information_length' + i]
               /\ \A i \in 1..capacity :
                    message'.information[i] =
                      IF i <= information_length' THEN seen'[begin + i] ELSE Nul
    <2>1. read + 1 >= 0
      BY <1>2, <1>3, <1>4, <1>6
    <2>2. InInformation(n)'
      BY <1>11, <1>13, <1>22, <2>1 DEF InInformation, InformationDropped, begin, capacity
    <2> QED
      BY <1>5, <1>10, <2>2 DEF BehindHeader
  <1>14. read \in Nat
    BY <1>2, <1>3, <1>4, <1>6
  <1>15. CASE read > capacity + 4 /\ size = 4 /\ length = capacity
    <2>1. dropped
      BY <1>1, <1>15 DEF dropped
    <2>2. information_data' = information_data /\ information_length' = length
      BY <1>7, <2>1
    <2>3. read + 1 > capacity + 4
      BY <1>1, <1>14, <1>15
    <2> QED
      BY <1>15, <2>2, <2>3 DEF size
  <1>16. CASE /\ read = length + size
              /\ \A i \in 1..size : information_data[i] = seen[begin + length + i]
              /\ \A i \in 1..capacity :
                   message.information[i] =
                     IF i <= length THEN seen[begin + i] ELSE Nul
    <2>0. \A i \in 1..capacity : i <= length => seen'[begin + i] = seen[begin + i]
      <3> TAKE i \in 1..capacity
      <3>1. i <= length => i \in 1..read
        BY <1>1, <1>2, <1>16
      <3> QED
        BY <1>21, <3>1
    <2>1. CASE size # 4
      <3>1. /\ information_data' = Append(information_data, byte)
            /\ message' = message /\ information_length' = length
        BY <1>7, <2>1
      <3>2. length = 0
        BY <1>1, <1>2, <1>4, <2>1
      <3>3. /\ Len(information_data') = size + 1
            /\ \A i \in 1..size : information_data'[i] = information_data[i]
            /\ information_data'[size + 1] = byte
        BY <1>2, <3>1, Appended DEF size
      <3>4. \A i \in 1..(size + 1) :
              information_data'[i] = seen'[begin + length + i]
        <4> TAKE i \in 1..(size + 1)
        <4>1. begin + length + i = begin + i
          BY <1>2, <3>2
        <4>2. CASE i = size + 1
          <5>1. i = read + 1
            BY <1>2, <1>16, <3>2, <4>2
          <5> QED
            BY <1>22, <3>3, <4>1, <4>2, <5>1
        <4>3. CASE i # size + 1
          <5>1. i \in 1..size /\ i \in 1..read
            BY <1>2, <1>16, <3>2, <4>3
          <5> QED
            BY <1>16, <1>21, <3>3, <4>1, <5>1
        <4> QED
          BY <4>2, <4>3
      <3>5. read + 1 = length + (size + 1) /\ ~(length > 0)
        BY <1>2, <1>16, <3>2
      <3> QED
        BY <1>16, <2>0, <3>1, <3>3, <3>4, <3>5
    <2>2. CASE moved
      <3>1. /\ information_data' = Append(Tail(information_data), byte)
            /\ information_length' = length + 1
        BY <1>7, <2>2
      <3>2. size = 4 /\ length < capacity
        BY <2>2 DEF moved
      <3>4. /\ Len(information_data') = 4
            /\ \A i \in 1..3 : information_data'[i] = information_data[i + 1]
            /\ information_data'[4] = byte
        BY <1>2, <3>1, <3>2, FullWindowMoves DEF size
      <3>5. \A i \in 1..4 : information_data'[i] = seen'[begin + (length + 1) + i]
        <4> TAKE i \in 1..4
        <4>1. CASE i = 4
          <5>1. begin + (length + 1) + i = begin + (read + 1)
            BY <1>1, <1>2, <1>16, <3>2, <4>1
          <5> QED
            BY <1>22, <3>4, <4>1, <5>1
        <4>2. CASE i # 4
          <5>1. /\ i \in 1..3 /\ i + 1 \in 1..size
                /\ begin + (length + 1) + i = begin + length + (i + 1)
                /\ begin + length + (i + 1) = begin + (length + (i + 1))
                /\ length + (i + 1) \in 1..read
            BY <1>1, <1>2, <1>16, <3>2, <4>2
          <5>2. information_data[i + 1] = seen[begin + length + (i + 1)]
            BY <1>16, <5>1
          <5>3. seen'[begin + (length + (i + 1))] = seen[begin + (length + (i + 1))]
            BY <1>21, <5>1
          <5> QED
            BY <3>4, <5>1, <5>2, <5>3
        <4> QED
          BY <4>1, <4>2
      <3>6. \A i \in 1..capacity :
              message'.information[i] =
                IF i <= length + 1 THEN seen'[begin + i] ELSE Nul
        <4> TAKE i \in 1..capacity
        <4>1. message'.information[i] =
                IF i = length + 1 THEN information_data[i - length]
                ELSE message.information[i]
          <5>1. i \in length + 1 .. length + 1 <=> i = length + 1
            BY <1>1, <1>2
          <5> QED
            BY <1>12, <2>2, <5>1
        <4>2. CASE i = length + 1
          <5>1. /\ i - length = 1 /\ 1 \in 1..size /\ begin + length + 1 = begin + i
                /\ i \in 1..read /\ i <= length + 1
            BY <1>1, <1>2, <1>16, <3>2, <4>2
          <5>2. information_data[1] = seen[begin + i] /\ seen'[begin + i] = seen[begin + i]
            BY <1>16, <1>21, <5>1
          <5> QED
            BY <4>1, <4>2, <5>1, <5>2
        <4>3. CASE i # length + 1
          <5>1. i <= length + 1 <=> i <= length
            BY <1>1, <1>2, <4>3
          <5> QED
            BY <1>16, <2>0, <4>1, <4>3, <5>1
        <4> QED
          BY <4>2, <4>3
      <3>7. read + 1 = (length + 1) + 4
        BY <1>1, <1>2, <1>16, <3>2
      <3> QED
        BY <3>1, <3>4, <3>5, <3>6, <3>7
    <2>3. CASE dropped
      <3>1. /\ information_data' = information_data /\ information_length' = length
            /\ size = 4 /\ length = capacity
        BY <1>7, <1>8, <2>3 DEF dropped
      <3>2. read + 1 > capacity + 4
        BY <1>1, <1>16, <3>1
      <3> QED
        BY <3>1, <3>2 DEF size
    <2> QED
      BY <1>8, <2>1, <2>2, <2>3
  <1> QED
    BY <1>4, <1>15, <1>16

--------------------------------------------------------------------------------
(* The message and the checksum of a frame without information.              *)

\* A message that agrees with the layout of a frame, field by field.
LEMMA ParsedByFields ==
  ASSUME NEW m \in Message, NEW bytes, NEW n \in Nat \ {0, 1}, NEW e,
         m.destination = AddressAt(bytes, 1), m.source = AddressAt(bytes, 2),
         Len(m.repeaters) = n - 2,
         \A i \in 1..(n - 2) : m.repeaters[i] = AddressAt(bytes, i + 2),
         m.control = bytes[AddressEnd(n) + 1],
         m.pid = IF FrameControlUsesInfo(m.control)
                 THEN bytes[AddressEnd(n) + 2] ELSE Nul,
         \A i \in 1..InformationCapacity :
           m.information[i] =
             IF FrameControlUsesInfo(m.control) /\ AddressEnd(n) + 2 + i <= e
             THEN bytes[AddressEnd(n) + 2 + i] ELSE Nul
  PROVE  m = Parsed(bytes, n, e)
  <1> DEFINE info == FrameControlUsesInfo(m.control)
             control == AddressEnd(n) + 1
  <1>1. AddressEnd(n) \in Nat /\ n - 2 \in Nat /\ InformationCapacity \in Nat
    <2>1. n \in Nat /\ n - 2 \in Nat
      BY SMT
    <2>2. InformationCapacity \in Nat
      BY LengthsAssumption
    <2> QED
      BY <2>1, <2>2, AddressEnds
  <1>2. control + 1 = AddressEnd(n) + 2 /\ m.control = bytes[control]
    BY <1>1
  <1>3. m.repeaters = [i \in 1..(n - 2) |-> AddressAt(bytes, i + 2)]
    <2> DEFINE f == [i \in 1..(n - 2) |-> AddressAt(bytes, i + 2)]
    <2>1. m.repeaters \in Seq(Address)
      BY DEF Message
    <2>2. m.repeaters = [i \in 1..(n - 2) |-> m.repeaters[i]]
      BY <2>1, LenProperties
    <2>3. \A i \in 1..(n - 2) : m.repeaters[i] = f[i]
      OBVIOUS
    <2> QED
      BY <2>2, <2>3, Zenon
  <1>4. m.information =
          [i \in 1..InformationCapacity |->
             IF info /\ control + 1 + i <= e THEN bytes[control + 1 + i] ELSE Nul]
    <2>1. m.information = [i \in 1..InformationCapacity |-> m.information[i]]
      BY DEF Message
    <2>2. ASSUME NEW i \in 1..InformationCapacity
          PROVE  m.information[i] =
                   IF info /\ control + 1 + i <= e THEN bytes[control + 1 + i]
                   ELSE Nul
      <3>1. control + 1 + i = AddressEnd(n) + 2 + i
        BY <1>1
      <3> QED
        BY <3>1, Zenon
    <2> QED
      BY <2>1, <2>2, Zenon
  <1>5. m.pid = IF info THEN bytes[control + 1] ELSE Nul
    BY <1>2, Zenon
  <1>6. m = [destination |-> m.destination, source |-> m.source,
             repeaters |-> m.repeaters, control |-> m.control,
             pid |-> m.pid, information |-> m.information]
    BY DEF Message
  <1>7. info = FrameControlUsesInfo(bytes[control])
    BY <1>2
  <1> HIDE DEF info, control
  <1>8. Parsed(bytes, n, e) =
          [destination |-> AddressAt(bytes, 1), source |-> AddressAt(bytes, 2),
           repeaters |-> [i \in 1..(n - 2) |-> AddressAt(bytes, i + 2)],
           control |-> bytes[control],
           pid |-> IF info THEN bytes[control + 1] ELSE Nul,
           information |-> [i \in 1..InformationCapacity |->
             IF info /\ control + 1 + i <= e THEN bytes[control + 1 + i]
             ELSE Nul]]
    BY <1>7 DEF Parsed, control
  <1> QED
    BY <1>2, <1>3, <1>4, <1>5, <1>6, <1>8, Zenon

\* Two bytes of a frame.
LEMMA TwoBytes ==
  ASSUME NEW bytes \in Seq(Byte), NEW e \in Nat, e + 2 <= Len(bytes),
         NEW pair \in Seq(Byte), Len(pair) = 2,
         pair[1] = bytes[e + 1], pair[2] = bytes[e + 2]
  PROVE  SubSeq(bytes, e + 1, e + 2) = pair
  <1> DEFINE s == SubSeq(bytes, e + 1, e + 2)
  <1>1. Len(bytes) \in Nat
    BY LenProperties
  <1>2. \A i \in (e + 1)..(e + 2) : bytes[i] \in Byte
    BY <1>1, ElementOfSeq
  <1>3. Len(s) = 2
    BY <1>1, SubSeqProperties
  <1>4. s[1] = bytes[e + 1] /\ s[2] = bytes[e + 2]
    BY <1>1, SubSeqProperties
  <1>5. s \in Seq(Byte)
    BY <1>1, <1>2, SubSeqProperties
  <1> HIDE DEF s
  <1>6. s = pair
    BY <1>3, <1>4, <1>5, SamePair
  <1> QED
    BY <1>6 DEF s

\* The checksum of a frame without information: the verdict on it.
LEMMA FCSFollows ==
  ASSUME DecoderInv, DecoderInv', seen \in Seq(Byte), decoded \in Seq(Message),
         before \in Nat, before' = before, Len(decoded) = before,
         field_state = "fcs",
         NEW n \in 2..(MaxNumRepeaters + 2), AddressesEndAt(n), HasControl(n),
         Len(seen) = AddressEnd(n) + 1 + Len(fcs_field_data),
         ~FrameControlUsesInfo(message.control), HasNoInformation,
         Len(fcs_field_data) < 2, ChecksumCovers,
         NEW byte \in Byte, seen' = Append(seen, byte),
         ProcessFCSByte(byte), AppendByteToWindow(byte), TakeResult
  PROVE  /\ BehindHeader(n)'
         /\ field_state' # "frame_skip" =>
              ChecksumCovers' /\ Len(decoded') = before'
  <1> DEFINE e == AddressEnd(n) + 1
  <1>0. DecoderTypeOK /\ WindowsAgree /\ Grows(seen', seen, byte)
    BY AppendGrows DEF DecoderInv
  <1>1. message' = message /\ information_length' = information_length
        /\ fcs_field_data' = Append(fcs_field_data, byte)
    BY DEF ProcessFCSByte, information
  <1>2. /\ AddressesEndAt(n)' /\ AddressEnd(n) \in Nat /\ n \in Nat /\ n >= 2
        /\ Len(seen') = Len(seen) + 1 /\ HasControl(n)' /\ HasNoInformation'
        /\ ~FrameControlUsesInfo(message'.control)
    <2>1. n \in Nat /\ n >= 2
      BY RepeatersAssumption
    <2> QED
      BY <1>0, <1>1, <2>1, EndStays, ControlStays DEF HasNoInformation
  <1>3. /\ fcs_field_data \in Seq(Byte) /\ Len(fcs_field_data) \in 0..1
        /\ Len(Append(fcs_field_data, byte)) = Len(fcs_field_data) + 1
    <2>1. fcs_field_data \in Seq(Byte) /\ Len(fcs_field_data) \in 0..2
      BY <1>0 DEF DecoderTypeOK
    <2>3. PICK k \in 0..2 : k = Len(fcs_field_data)
      BY <2>1
    <2>4. k < 2
      BY <2>3, Zenon
    <2>2. Len(fcs_field_data) \in 0..1
      <3>1. k \in 0..1
        BY <2>4
      <3> QED
        BY <2>3, <3>1
    <2> QED
      BY <2>1, <2>2, AppendProperties
  <1>4. LET k == Len(seen') - Len(fcs_data')
        IN /\ \A i \in 1..Len(fcs_data') : fcs_data'[i] = seen'[k + i]
           /\ k \in Nat /\ (k > 0 => Len(fcs_data') = 2)
           /\ AppendedFCS = CRCOf(SubSeq(seen', 1, k))
    BY <1>0, ChecksumFollows
  <1>5. CASE Len(fcs_field_data) = 0
    <2>1. Len(Append(fcs_field_data, byte)) = 1
      BY <1>3, <1>5
    <2>2. Len(Append(fcs_field_data, byte)) # 2
      BY <2>1
    <2>3. /\ actual_frame_fcs' = AppendedFCS /\ field_state' = "fcs"
          /\ outcome' = "unavailable"
      BY <2>2, Zenon DEF ProcessFCSByte
    <2>4. decoded' = decoded
      BY <2>3 DEF TakeResult
    <2>5. ChecksumCovers'
      BY <1>4, <2>3 DEF ChecksumCovers
    <2>6. /\ Len(seen') = AddressEnd(n) + 1 + Len(fcs_field_data')
          /\ Len(fcs_field_data') < 2
      BY <1>1, <1>2, <1>5, <2>1
    <2>7. BehindHeader(n)'
      BY <1>2, <2>3, <2>6 DEF BehindHeader
    <2> QED
      BY <2>4, <2>5, <2>7
  <1>6. CASE Len(fcs_field_data) = 1
    <2>1. Len(Append(fcs_field_data, byte)) = 2
      BY <1>3, <1>6
    <2>2. /\ actual_frame_fcs' = FinalizeCRC(AppendedFCS)
          /\ field_state' = "frame_skip"
          /\ outcome' = Verdict(Append(fcs_field_data, byte), actual_frame_fcs')
      BY <2>1, Zenon DEF ProcessFCSByte
    <2>3. outcome' = Verdict(fcs_data', actual_frame_fcs') /\ Len(fcs_data') = 2
          /\ fcs_data' \in Seq(Byte)
      <3>1. outcome' \in {"message", "checksum_mismatch"}
        BY <2>2 DEF Verdict
      <3>2. fcs_data' = fcs_field_data'
        BY <2>2, <3>1 DEF DecoderInv, ChecksumIsLast
      <3> QED
        BY <1>1, <2>1, <2>2, <3>2 DEF DecoderInv, DecoderTypeOK
    <2>4. e \in Nat /\ Len(seen') = e + 2 /\ e > 0
      BY <1>2, <1>6
    <2> HIDE DEF e
    <2>5. /\ fcs_data'[1] = seen'[e + 1] /\ fcs_data'[2] = seen'[e + 2]
          /\ AppendedFCS = CRCOf(SubSeq(seen', 1, e))
      <3>1. Len(seen') - Len(fcs_data') = e
        BY <2>3, <2>4
      <3> QED
        BY <1>4, <2>3, <3>1
    <2>6. SubSeq(seen', e + 1, e + 2) = fcs_data'
      <3>1. seen' \in Seq(Byte)
        BY <1>0 DEF Grows
      <3> QED
        BY <2>3, <2>4, <2>5, <3>1, TwoBytes
    <2>7. FCSField(SubSeq(seen', 1, e)) = FCSBytes(actual_frame_fcs')
      BY <2>2, <2>5 DEF FCSField
    <2>8. message' = Parsed(seen', n, e)
      <3>1. /\ message'.destination = AddressAt(seen', 1)
            /\ message'.source = AddressAt(seen', 2)
            /\ Len(message'.repeaters) = n - 2
            /\ \A i \in 1..(n - 2) : message'.repeaters[i] = AddressAt(seen', i + 2)
        BY <1>2 DEF AddressesEndAt, HasAddresses
      <3>2. message'.control = seen'[AddressEnd(n) + 1]
        BY <1>2 DEF HasControl
      <3>3. /\ message'.pid = Nul
            /\ \A i \in 1..InformationCapacity : message'.information[i] = Nul
        BY <1>2 DEF HasNoInformation, EmptyInformation
      <3>4. message' \in Message
        BY DEF DecoderInv, DecoderTypeOK
      <3>5. n \in Nat \ {0, 1}
        BY <1>2
      <3> QED
        BY <1>2, <3>1, <3>2, <3>3, <3>4, <3>5, ParsedByFields
    <2>10. e + 2 <= Len(seen')
      BY <2>4
    <2>9. IsJudged(n)'
      <3>1. CASE fcs_data' = FCSBytes(actual_frame_fcs')
        <4>1. outcome' = "message"
          BY <2>3, <3>1 DEF Verdict
        <4>2. decoded' = Append(decoded, message')
          BY <4>1 DEF TakeResult
        <4>3. message' \in Message
          BY DEF DecoderInv, DecoderTypeOK
        <4>4. Len(decoded') = before' + 1 /\ decoded'[before' + 1] = message'
          BY <4>2, <4>3, AppendProperties
        <4> QED
          BY <2>10, <2>6, <2>7, <2>8, <3>1, <4>4, Zenon DEF IsJudged, e
      <3>2. CASE fcs_data' # FCSBytes(actual_frame_fcs')
        <4>1. outcome' = "checksum_mismatch"
          BY <2>3, <3>2 DEF Verdict
        <4>2. Len(decoded') = before'
          BY <4>1 DEF TakeResult
        <4> QED
          BY <2>10, <2>6, <2>7, <3>2, <4>2, Zenon DEF IsJudged, e
      <3> QED
        BY <3>1, <3>2
    <2> QED
      BY <1>2, <2>2, <2>9 DEF BehindHeader
  <1> QED
    BY <1>3, <1>5, <1>6

--------------------------------------------------------------------------------
(* Every byte.                                                               *)

\* The verdict on a frame without information stays when bytes follow it.
LEMMA VerdictStays ==
  ASSUME seen \in Seq(Byte), NEW byte, Grows(seen', seen, byte),
         NEW n \in Nat \ {0, 1}, IsJudged(n), AddressEnd(n) <= Len(seen),
         ~FrameControlUsesInfo(seen[AddressEnd(n) + 1]),
         decoded' = decoded, before' = before
  PROVE  IsJudged(n)'
  <1> DEFINE e == AddressEnd(n) + 1
  <1>1. /\ Len(seen) \in Nat /\ Len(seen') = Len(seen) + 1
        /\ \A i \in 1..Len(seen) : seen'[i] = seen[i]
        /\ seen' \in Seq(Byte)
    BY BytesStay DEF Grows
  <1>2. AddressEnd(n) \in Nat /\ e \in Nat /\ e > 0 /\ e + 2 <= Len(seen)
    <2>1. AddressEnd(n) \in Nat
      BY AddressEnds
    <2>2. e + 2 <= Len(seen)
      BY DEF IsJudged
    <2> QED
      BY <2>1, <2>2
  <1>3. e + 2 <= Len(seen')
    BY <1>1, <1>2
  <1>4. SubSeq(seen', e + 1, e + 2) = SubSeq(seen, e + 1, e + 2)
    <2> DEFINE pair == SubSeq(seen, e + 1, e + 2)
    <2>0. \A i \in (e + 1)..(e + 2) : seen[i] \in Byte
      BY <1>1, <1>2, ElementOfSeq
    <2> HIDE DEF e
    <2>1. /\ pair \in Seq(Byte) /\ Len(pair) = 2
          /\ pair[1] = seen[e + 1] /\ pair[2] = seen[e + 2]
      BY <1>1, <1>2, <2>0
    <2> HIDE DEF pair
    <2>2. seen'[e + 1] = seen[e + 1] /\ seen'[e + 2] = seen[e + 2]
      <3> DEFINE total == Len(seen)
      <3>1. e \in Nat /\ total \in Nat /\ e + 2 <= total
        BY <1>1, <1>2
      <3> HIDE DEF total
      <3>2. e + 1 \in 1..total /\ e + 2 \in 1..total
        BY <3>1
      <3> QED
        BY <1>1, <3>2, Zenon DEF total
    <2>3. SubSeq(seen', e + 1, e + 2) = pair
      BY <1>1, <1>2, <1>3, <2>1, <2>2, TwoBytes
    <2> QED
      BY <2>3 DEF pair
  <1>5. SubSeq(seen', 1, e) = SubSeq(seen, 1, e)
    <2>1. e \in 0..Len(seen) /\ Len(seen') >= Len(seen)
      BY <1>1, <1>2
    <2> QED
      BY <1>1, <2>1, FirstBytesStay
  <1>6. \A k \in 1..n : AddressAt(seen', k) = AddressAt(seen, k)
    <2> TAKE k \in 1..n
    <2>1. AddressEnd(k) \in 1..Len(seen)
      BY BytesStay
    <2>2. AddressEnd(k) <= Len(seen) /\ k \in Nat \ {0}
      BY <1>1, <2>1
    <2> QED
      BY <1>1, <2>2, AddressStays
  <1>7. seen'[e] = seen[e]
    BY <1>1, <1>2
  <1>8. Parsed(seen', n, e) = Parsed(seen, n, e)
    <2>1. ~FrameControlUsesInfo(seen[e]) /\ ~FrameControlUsesInfo(seen'[e])
      BY <1>7
    <2>2. /\ AddressAt(seen', 1) = AddressAt(seen, 1)
          /\ AddressAt(seen', 2) = AddressAt(seen, 2)
      BY <1>6
    <2>3. [i \in 1..(n - 2) |-> AddressAt(seen', i + 2)]
            = [i \in 1..(n - 2) |-> AddressAt(seen, i + 2)]
      <3>1. ASSUME NEW i \in 1..(n - 2)
            PROVE  AddressAt(seen', i + 2) = AddressAt(seen, i + 2)
        <4>1. i + 2 \in 1..n
          OBVIOUS
        <4> QED
          BY <1>6, <4>1
      <3> QED
        BY <3>1
    <2> QED
      BY <1>7, <2>1, <2>2, <2>3, Zenon DEF Parsed, e
  <1> QED
    BY <1>3, <1>4, <1>5, <1>8, Zenon DEF IsJudged, e

\* Bytes of the fields before the information.
LEMMA HeaderFollows ==
  ASSUME DecoderTypeOK, WindowsAgree, seen \in Seq(Byte),
         \/ InHeader /\ HasNoInformation
         \/ \E n \in 2..(MaxNumRepeaters + 2) : BehindHeader(n),
         NEW byte \in Byte, Grows(seen', seen, byte),
         \/ ProcessAddressCallsignByte(byte) \/ ProcessAddressDestinationByte(byte)
         \/ ProcessAddressSourceByte(byte) \/ ProcessAddressRepeaterByte(byte)
         \/ ProcessControlByte(byte) \/ ProcessPIDByte(byte)
         \/ ProcessInformationByte(byte)
  PROVE  /\ \/ InHeader' /\ HasNoInformation'
            \/ \E n \in 2..(MaxNumRepeaters + 2) : BehindHeader(n)'
         /\ field_state # "frame_skip" /\ outcome' # "message"
  <1>0. MaxNumRepeaters \in Nat /\ 0 \in Nat /\ 1 \in Nat
        /\ \A k \in 2..(MaxNumRepeaters + 2) : k \in Nat
    BY RepeatersAssumption
  <1>1. CASE ProcessAddressCallsignByte(byte)
    <2>1. /\ field_state \in {"destination", "source", "repeater"}
          /\ field_state' = field_state /\ message' = message
          /\ information_length' = information_length
          /\ outcome' = "unavailable" /\ ~CallsignReceived
      BY <1>1 DEF ProcessAddressCallsignByte, information
    <2>2. InHeader /\ HasNoInformation
      BY <2>1 DEF BehindHeader
    <2>3. HasNoInformation'
      BY <2>1, <2>2 DEF HasNoInformation
    <2>4. CASE field_state = "destination"
      <3>1. InAddress(0)
        BY <2>2, <2>4 DEF InHeader
      <3>2. InAddress(0)'
        BY <1>0, <1>1, <3>1, CallsignFollows
      <3> QED
        BY <2>1, <2>3, <2>4, <3>2 DEF InHeader
    <2>5. CASE field_state = "source"
      <3>1. InAddress(1)
        BY <2>2, <2>5 DEF InHeader
      <3>2. InAddress(1)'
        BY <1>0, <1>1, <3>1, CallsignFollows
      <3> QED
        BY <2>1, <2>3, <2>5, <3>2 DEF InHeader
    <2>6. CASE field_state = "repeater"
      <3>1. ~TooManyRepeaters
        BY <2>1, LengthsAssumption DEF TooManyRepeaters, CallsignReceived
      <3>2. PICK k \in 2..(MaxNumRepeaters + 2) : InAddress(k)
        BY <2>2, <2>6, <3>1 DEF InHeader
      <3>3. InAddress(k)'
        BY <1>0, <1>1, <3>2, CallsignFollows
      <3> QED
        BY <2>1, <2>3, <2>6, <3>3 DEF InHeader
    <2> QED
      BY <2>1, <2>4, <2>5, <2>6
  <1>2. CASE ProcessAddressDestinationByte(byte)
    <2>1. field_state = "destination" /\ outcome' = "unavailable"
      BY <1>2 DEF ProcessAddressDestinationByte
    <2>2. InAddress(0) /\ HasNoInformation
      BY <2>1 DEF BehindHeader, InHeader
    <2>3. field_state' = "source" /\ InAddress(1)' /\ HasNoInformation'
      BY <1>2, <2>2, DestinationFollows
    <2> QED
      BY <2>1, <2>3 DEF InHeader
  <1>3. CASE ProcessAddressSourceByte(byte)
    <2>1. field_state = "source" /\ outcome' = "unavailable"
      BY <1>3 DEF ProcessAddressSourceByte
    <2>2. InAddress(1) /\ HasNoInformation
      BY <2>1 DEF BehindHeader, InHeader
    <2>3. /\ \/ field_state' = "repeater" /\ InAddress(2)'
             \/ /\ field_state' = "control" /\ AddressesEndAt(2)'
                /\ Len(seen') = AddressEnd(2)
          /\ HasNoInformation'
      BY <1>3, <2>2, SourceFollows
    <2>4. 2 \in 2..(MaxNumRepeaters + 2)
      BY <1>0
    <2>5. CASE field_state' = "repeater" /\ InAddress(2)'
      BY <2>1, <2>3, <2>4, <2>5 DEF InHeader
    <2>6. CASE /\ field_state' = "control" /\ AddressesEndAt(2)'
               /\ Len(seen') = AddressEnd(2)
      <3>1. BehindHeader(2)'
        BY <2>3, <2>6 DEF BehindHeader
      <3> QED
        BY <2>1, <2>4, <3>1
    <2> QED
      BY <2>3, <2>5, <2>6
  <1>4. CASE ProcessAddressRepeaterByte(byte)
    <2>1. field_state = "repeater" /\ outcome' # "message"
      BY <1>4 DEF ProcessAddressRepeaterByte
    <2>2. /\ HasNoInformation
          /\ \/ TooManyRepeaters
             \/ \E k \in 2..(MaxNumRepeaters + 2) : InAddress(k)
      BY <2>1 DEF BehindHeader, InHeader
    <2>3. CASE TooManyRepeaters
      <3>1. field_state' = "repeater" /\ TooManyRepeaters' /\ HasNoInformation'
        BY <1>4, <2>2, <2>3, TooManyStay
      <3> QED
        BY <2>1, <3>1 DEF InHeader
    <2>4. ASSUME NEW k \in 2..(MaxNumRepeaters + 2), InAddress(k)
          PROVE  \/ InHeader' /\ HasNoInformation'
                 \/ \E n \in 2..(MaxNumRepeaters + 2) : BehindHeader(n)'
      <3>1. /\ \/ /\ field_state' = "repeater" /\ k < MaxNumRepeaters + 2
                  /\ InAddress(k + 1)'
               \/ field_state' = "repeater" /\ TooManyRepeaters'
               \/ /\ field_state' = "control" /\ AddressesEndAt(k + 1)'
                  /\ Len(seen') = AddressEnd(k + 1) /\ k < MaxNumRepeaters + 2
            /\ HasNoInformation'
        BY <1>4, <2>2, <2>4, RepeaterFollows
      <3>2. k < MaxNumRepeaters + 2 => k + 1 \in 2..(MaxNumRepeaters + 2)
        BY <1>0
      <3>3. CASE field_state' = "repeater"
        BY <3>1, <3>2, <3>3 DEF InHeader
      <3>4. CASE /\ field_state' = "control" /\ AddressesEndAt(k + 1)'
                 /\ Len(seen') = AddressEnd(k + 1) /\ k < MaxNumRepeaters + 2
        <4>1. BehindHeader(k + 1)'
          BY <3>1, <3>4 DEF BehindHeader
        <4> QED
          BY <3>2, <3>4, <4>1
      <3> QED
        BY <3>1, <3>3, <3>4
    <2> QED
      BY <2>1, <2>2, <2>3, <2>4
  <1>5. CASE ProcessControlByte(byte)
    <2>1. field_state = "control" /\ outcome' = "unavailable"
      BY <1>5 DEF ProcessControlByte
    <2>2. PICK n \in 2..(MaxNumRepeaters + 2) : BehindHeader(n)
      BY <2>1 DEF InHeader
    <2>3. AddressesEndAt(n) /\ Len(seen) = AddressEnd(n) /\ HasNoInformation
      BY <2>1, <2>2 DEF BehindHeader
    <2>4. BehindHeader(n)'
      BY <1>5, <2>1, <2>3, ControlFollows
    <2> QED
      BY <2>1, <2>4
  <1>6. CASE ProcessPIDByte(byte)
    <2>1. field_state = "pid" /\ outcome' = "unavailable"
      BY <1>6 DEF ProcessPIDByte
    <2>2. PICK n \in 2..(MaxNumRepeaters + 2) : BehindHeader(n)
      BY <2>1 DEF InHeader
    <2>3. /\ AddressesEndAt(n) /\ Len(seen) = AddressEnd(n) + 1 /\ HasNoInformation
          /\ HasControl(n) /\ FrameControlUsesInfo(message.control)
      BY <2>1, <2>2 DEF BehindHeader
    <2>4. BehindHeader(n)'
      BY <1>6, <2>1, <2>3, PIDFollows
    <2> QED
      BY <2>1, <2>4
  <1>7. CASE ProcessInformationByte(byte)
    <2>1. field_state = "information" /\ outcome' # "message"
      BY <1>7 DEF ProcessInformationByte
    <2>2. PICK n \in 2..(MaxNumRepeaters + 2) : BehindHeader(n)
      BY <2>1 DEF InHeader
    <2>3. /\ AddressesEndAt(n) /\ InInformation(n)
          /\ HasControl(n) /\ FrameControlUsesInfo(message.control)
      BY <2>1, <2>2 DEF BehindHeader
    <2>4. BehindHeader(n)'
      BY <1>7, <2>1, <2>3, InformationFollows
    <2> QED
      BY <2>1, <2>4
  <1> QED
    BY <1>1, <1>2, <1>3, <1>4, <1>5, <1>6, <1>7

\* Every byte.
LEMMA ByteFollows ==
  ASSUME DecoderInv, DecoderInv', seen \in Seq(Byte), decoded \in Seq(Message),
         before \in Nat, before' = before, FollowsTheBytes,
         NEW byte \in Byte, seen' = Append(seen, byte),
         ProcessByte(byte), TakeResult
  PROVE  FollowsTheBytes'
  <1>0. DecoderTypeOK /\ WindowsAgree /\ Grows(seen', seen, byte)
    BY AppendGrows DEF DecoderInv
  <1>1. CASE /\ \/ ProcessAddressCallsignByte(byte) \/ ProcessAddressDestinationByte(byte)
                \/ ProcessAddressSourceByte(byte) \/ ProcessAddressRepeaterByte(byte)
                \/ ProcessControlByte(byte) \/ ProcessPIDByte(byte)
                \/ ProcessInformationByte(byte)
             /\ AppendByteToFCS(byte)
    <2>1. /\ \/ InHeader' /\ HasNoInformation'
             \/ \E n \in 2..(MaxNumRepeaters + 2) : BehindHeader(n)'
          /\ field_state # "frame_skip" /\ outcome' # "message"
      BY <1>0, <1>1, HeaderFollows DEF FollowsTheBytes
    <2>2. ChecksumCovers /\ Len(decoded) = before /\ decoded' = decoded
      BY <2>1 DEF FollowsTheBytes, TakeResult
    <2>3. AppendByteToWindow(byte) /\ actual_frame_fcs' = AppendedFCS
      BY <1>1 DEF AppendByteToFCS
    <2>4. ChecksumCovers'
      BY <1>0, <2>2, <2>3, ChecksumFollows DEF ChecksumCovers
    <2> QED
      BY <2>1, <2>2, <2>4 DEF FollowsTheBytes
  <1>2. CASE ProcessFCSByte(byte) /\ AppendByteToWindow(byte)
    <2>1. field_state = "fcs"
      BY <1>2 DEF ProcessFCSByte
    <2>2. ChecksumCovers /\ Len(decoded) = before
      BY <2>1 DEF FollowsTheBytes
    <2>3. PICK n \in 2..(MaxNumRepeaters + 2) : BehindHeader(n)
      BY <2>1 DEF FollowsTheBytes, InHeader
    <2>4. /\ AddressesEndAt(n) /\ HasControl(n)
          /\ Len(seen) = AddressEnd(n) + 1 + Len(fcs_field_data)
          /\ ~FrameControlUsesInfo(message.control) /\ HasNoInformation
          /\ Len(fcs_field_data) < 2
      BY <2>1, <2>3 DEF BehindHeader
    <2>5. /\ BehindHeader(n)'
          /\ field_state' # "frame_skip" =>
               ChecksumCovers' /\ Len(decoded') = before'
      BY <1>2, <2>1, <2>2, <2>4, FCSFollows
    <2> QED
      BY <2>5 DEF FollowsTheBytes
  <1>3. CASE SkipByte
    <2>1. /\ field_state = "frame_skip" /\ field_state' = field_state
          /\ message' = message /\ decoded' = decoded
      BY <1>3 DEF SkipByte, TakeResult
    <2>2. PICK n \in 2..(MaxNumRepeaters + 2) : BehindHeader(n)
      BY <2>1 DEF FollowsTheBytes, InHeader
    <2>3. /\ AddressesEndAt(n) /\ HasControl(n) /\ IsJudged(n)
          /\ ~FrameControlUsesInfo(message.control)
      BY <2>1, <2>2 DEF BehindHeader
    <2>4. n \in Nat \ {0, 1} /\ n \in Nat
      BY RepeatersAssumption
    <2>5. AddressesEndAt(n)' /\ AddressEnd(n) <= Len(seen) /\ HasControl(n)'
      BY <1>0, <2>1, <2>3, <2>4, EndStays, ControlStays
    <2>6. ~FrameControlUsesInfo(seen[AddressEnd(n) + 1])
      BY <2>3 DEF HasControl
    <2>7. IsJudged(n)'
      BY <1>0, <2>1, <2>3, <2>4, <2>5, <2>6, VerdictStays
    <2>8. BehindHeader(n)'
      BY <2>1, <2>3, <2>5, <2>7 DEF BehindHeader
    <2> QED
      BY <2>1, <2>8 DEF FollowsTheBytes
  <1> QED
    BY <1>1, <1>2, <1>3 DEF ProcessByte

--------------------------------------------------------------------------------
(* Layouts: there is none, or only one.                                      *)

\* The frame with this one layout.
LEMMA OneFrame ==
  ASSUME NEW bytes \in Seq(Byte), NEW n \in 2..Len(bytes), NEW e \in 1..Len(bytes),
         AddressEnd(n) < Len(bytes), WellFormed(bytes, n, e),
         \A k \in 2..Len(bytes), d \in 1..Len(bytes) :
           AddressEnd(k) < Len(bytes) /\ WellFormed(bytes, k, d) => k = n /\ d = e
  PROVE  FrameMessage(bytes) = {Parsed(bytes, n, e)}
  <1> DEFINE layouts == {l \in (2..Len(bytes)) \X (1..Len(bytes)) :
                           /\ AddressEnd(l[1]) < Len(bytes)
                           /\ WellFormed(bytes, l[1], l[2])}
  <1>1. ASSUME NEW l \in layouts
        PROVE  l[1] = n /\ l[2] = e
    <2>1. /\ l[1] \in 2..Len(bytes) /\ l[2] \in 1..Len(bytes)
          /\ AddressEnd(l[1]) < Len(bytes) /\ WellFormed(bytes, l[1], l[2])
      OBVIOUS
    <2> QED
      BY <2>1
  <1>2. <<n, e>> \in layouts
    <2>1. <<n, e>> \in (2..Len(bytes)) \X (1..Len(bytes))
      OBVIOUS
    <2>2. <<n, e>>[1] = n /\ <<n, e>>[2] = e
      OBVIOUS
    <2> QED
      BY <2>1, <2>2, Zenon
  <1>3. FrameMessage(bytes) = {Parsed(bytes, l[1], l[2]) : l \in layouts}
    BY DEF FrameMessage
  <1>4. <<n, e>>[1] = n /\ <<n, e>>[2] = e
    OBVIOUS
  <1> HIDE DEF layouts
  <1>5. ASSUME NEW m \in FrameMessage(bytes) PROVE m = Parsed(bytes, n, e)
    <2>1. PICK l \in layouts : m = Parsed(bytes, l[1], l[2])
      BY <1>3
    <2> QED
      BY <1>1, <2>1
  <1>6. Parsed(bytes, n, e) \in FrameMessage(bytes)
    <2>1. Parsed(bytes, <<n, e>>[1], <<n, e>>[2]) \in FrameMessage(bytes)
      BY <1>2, <1>3, Zenon
    <2> QED
      BY <1>4, <2>1, Zenon
  <1> QED
    BY <1>5, <1>6

\* Bytes without a layout are no frame.
LEMMA NoFrame ==
  ASSUME NEW bytes \in Seq(Byte),
         \A k \in 2..Len(bytes), d \in 1..Len(bytes) :
           ~(AddressEnd(k) < Len(bytes) /\ WellFormed(bytes, k, d))
  PROVE  FrameMessage(bytes) = {}
  <1> DEFINE layouts == {l \in (2..Len(bytes)) \X (1..Len(bytes)) :
                           /\ AddressEnd(l[1]) < Len(bytes)
                           /\ WellFormed(bytes, l[1], l[2])}
  <1>1. layouts = {}
    <2> SUFFICES ASSUME NEW l \in layouts PROVE FALSE
      OBVIOUS
    <2>1. /\ l[1] \in 2..Len(bytes) /\ l[2] \in 1..Len(bytes)
          /\ AddressEnd(l[1]) < Len(bytes) /\ WellFormed(bytes, l[1], l[2])
      OBVIOUS
    <2> QED
      BY <2>1
  <1>2. FrameMessage(bytes) = {Parsed(bytes, l[1], l[2]) : l \in layouts}
    BY DEF FrameMessage
  <1> HIDE DEF layouts
  <1> QED
    BY <1>1, <1>2

\* Where the extension bits say that the addresses end is where they end in
\* every layout.
LEMMA LayoutEnds ==
  ASSUME NEW bytes, NEW n \in Nat, n >= 2,
         \A j \in 2..n : ExtensionBit(bytes[AddressEnd(j)]) = 1 <=> j = n,
         NEW k \in Nat, k >= 2, NEW e, WellFormed(bytes, k, e)
  PROVE  k = n
  <1>1. \A j \in 2..k : ExtensionBit(bytes[AddressEnd(j)]) = 1 <=> j = k
    BY DEF WellFormed
  <1>2. CASE k < n
    <2>1. k \in 2..n /\ k \in 2..k /\ k # n
      BY <1>2
    <2> QED
      BY <1>1, <2>1
  <1>3. CASE n < k
    <2>1. n \in 2..k /\ n \in 2..n /\ k # n
      BY <1>3
    <2> QED
      BY <1>1, <2>1
  <1> QED
    BY <1>2, <1>3

\* There is none as long as every extension bit is 0.
LEMMA HeaderOnly ==
  ASSUME NEW bytes \in Seq(Byte), NEW k \in Nat,
         \A j \in 2..k : ExtensionBit(bytes[AddressEnd(j)]) = 0,
         \/ Len(bytes) < AddressEnd(k + 1)
         \/ k >= MaxNumRepeaters + 2
  PROVE  FrameMessage(bytes) = {}
  <1> SUFFICES ASSUME NEW n \in 2..Len(bytes), NEW e,
                      AddressEnd(n) < Len(bytes), WellFormed(bytes, n, e)
               PROVE  FALSE
    BY NoFrame
  <1>1. n \in Nat /\ n >= 2 /\ Len(bytes) \in Nat /\ k + 1 \in Nat
        /\ MaxNumRepeaters \in Nat
    BY LenProperties, RepeatersAssumption
  <1>2. /\ ExtensionBit(bytes[AddressEnd(n)]) = 1
        /\ n - 2 <= MaxNumRepeaters
    <2>1. n \in 2..n
      BY <1>1
    <2> QED
      BY <2>1 DEF WellFormed
  <1>3. n \notin 2..k
    BY <1>2
  <1>4. n >= k + 1
    BY <1>1, <1>3
  <1>5. ~(k >= MaxNumRepeaters + 2)
    BY <1>1, <1>2, <1>4
  <1>6. Len(bytes) < AddressEnd(k + 1)
    BY <1>5
  <1>7. AddressEnd(n) >= AddressEnd(k + 1)
    <2>1. AddressEnd(n) \in Nat /\ AddressEnd(k + 1) \in Nat /\ AddressLength \in Nat
      BY <1>1, AddressEnds
    <2>2. CASE n = k + 1
      BY <2>1, <2>2
    <2>3. CASE n # k + 1
      <3>1. k + 1 < n
        BY <1>1, <1>4, <2>3
      <3>2. AddressEnd(k + 1) + AddressLength <= AddressEnd(n)
        BY <1>1, <3>1, AddressEnds
      <3> QED
        BY <2>1, <3>2
    <2> QED
      BY <2>2, <2>3
  <1>8. AddressEnd(n) \in Nat /\ AddressEnd(k + 1) \in Nat
    BY <1>1, AddressEnds
  <1> QED
    BY <1>1, <1>6, <1>7, <1>8

\* At an end inside of the header there is no frame.
LEMMA NoFrameInHeader ==
  ASSUME DecoderTypeOK, seen \in Seq(Byte), InHeader
  PROVE  FrameMessage(seen) = {}
  <1>1. ASSUME NEW k \in Nat, InAddress(k)
        PROVE  FrameMessage(seen) = {}
    <2>1. num_received_bytes \in 0..CallsignLength /\ CallsignLength \in Nat
      BY LengthsAssumption DEF DecoderTypeOK
    <2>2. /\ Len(seen) = AddressEnd(k) + num_received_bytes
          /\ \A j \in 2..k : ExtensionBit(seen[AddressEnd(j)]) = 0
      BY <1>1 DEF InAddress
    <2>3. /\ AddressEnd(k) \in Nat
          /\ AddressEnd(k + 1) = AddressEnd(k) + AddressLength
          /\ AddressLength = CallsignLength + 1
      BY AddressEnds
    <2>4. Len(seen) < AddressEnd(k + 1)
      BY <2>1, <2>2, <2>3
    <2> QED
      BY <2>2, <2>4, HeaderOnly
  <1>2. ASSUME TooManyRepeaters PROVE FrameMessage(seen) = {}
    <2> DEFINE k == MaxNumRepeaters + 2
    <2>1. k \in Nat /\ k >= MaxNumRepeaters + 2
      BY RepeatersAssumption
    <2>2. \A j \in 2..k : ExtensionBit(seen[AddressEnd(j)]) = 0
      BY <1>2 DEF TooManyRepeaters
    <2> HIDE DEF k
    <2> QED
      BY <2>1, <2>2, HeaderOnly
  <1>3. 0 \in Nat /\ 1 \in Nat /\ \A k \in 2..(MaxNumRepeaters + 2) : k \in Nat
    BY RepeatersAssumption
  <1> QED
    BY <1>1, <1>2, <1>3 DEF InHeader

--------------------------------------------------------------------------------
(* The end of a frame.                                                       *)

\* The messages since the begin of the frame are what the layout says.
AsTheLayoutSays(messages, n, bytes) ==
  /\ Len(messages) <= n + 1
  /\ FrameMessage(bytes) = {messages[i] : i \in n + 1 .. Len(messages)}

LEMMA AddressEndsFarEnough ==
  ASSUME NEW n \in Nat
  PROVE  AddressEnd(n) \in Nat /\ AddressEnd(n) >= n
  <1>1. AddressLength \in Nat /\ AddressLength >= 2
    BY AddressEnds
  <1> DEFINE a == AddressLength
  <1> HIDE DEF a
  <1>2. a - 1 \in Nat /\ n * a = n * (a - 1) + n /\ n * (a - 1) \in Nat
    BY <1>1 DEF a
  <1> QED
    BY <1>2 DEF AddressEnd, a

LEMMA NothingDelivered ==
  ASSUME NEW messages \in Seq(Message), NEW bytes, FrameMessage(bytes) = {}
  PROVE  AsTheLayoutSays(messages, Len(messages), bytes)
  <1>1. Len(messages) \in Nat
    BY LenProperties
  <1>2. Len(messages) + 1 .. Len(messages) = {}
    BY <1>1
  <1> QED
    BY <1>1, <1>2 DEF AsTheLayoutSays

LEMMA OneDelivered ==
  ASSUME NEW messages \in Seq(Message), NEW n \in Nat, Len(messages) = n + 1,
         NEW bytes, FrameMessage(bytes) = {messages[n + 1]}
  PROVE  AsTheLayoutSays(messages, n, bytes)
  <1>1. n + 1 .. n + 1 = {n + 1}
    BY SMT
  <1> QED
    BY <1>1 DEF AsTheLayoutSays

\* The result of an end that is no message.
LEMMA NothingTaken ==
  ASSUME decoded \in Seq(Message), Len(decoded) = before,
         outcome' # "message", TakeResult, FrameMessage(seen) = {}
  PROVE  AsTheLayoutSays(decoded', before, seen)
  <1>1. decoded' = decoded
    BY DEF TakeResult
  <1> QED
    BY <1>1, NothingDelivered

\* An end before the information.
LEMMA NoFrameBeforeInformation ==
  ASSUME seen \in Seq(Byte), NEW n \in 2..(MaxNumRepeaters + 2), BehindHeader(n),
         field_state \notin {"information", "frame_skip"}
  PROVE  FrameMessage(seen) = {}
  <1> SUFFICES ASSUME NEW k \in 2..Len(seen), NEW e \in 1..Len(seen),
                      AddressEnd(k) < Len(seen), WellFormed(seen, k, e)
               PROVE  FALSE
    BY NoFrame
  <1>1. /\ n \in Nat /\ n >= 2 /\ k \in Nat /\ k >= 2
        /\ Len(seen) \in Nat /\ AddressEnd(n) \in Nat
    <2>1. n \in Nat /\ n >= 2
      BY RepeatersAssumption
    <2> QED
      BY <2>1, AddressEnds, LenProperties
  <1>2. k = n
    <2>1. \A j \in 2..n : ExtensionBit(seen[AddressEnd(j)]) = 1 <=> j = n
      BY DEF BehindHeader, AddressesEndAt
    <2> QED
      BY <1>1, <2>1, LayoutEnds
  <1>3. AddressEnd(n) < Len(seen) /\ WellFormed(seen, n, e)
    BY <1>2
  <1> DEFINE info == FrameControlUsesInfo(seen[AddressEnd(n) + 1])
  <1>4. /\ e + 2 <= Len(seen)
        /\ info => e + 2 = Len(seen) /\ e - AddressEnd(n) - 2 \in 0..InformationCapacity
        /\ ~info => e = AddressEnd(n) + 1
    BY <1>3 DEF WellFormed
  <1> HIDE DEF info
  <1>5. CASE field_state = "control"
    <2>1. Len(seen) = AddressEnd(n)
      BY <1>5 DEF BehindHeader
    <2> QED
      BY <1>1, <1>3, <2>1
  <1>6. CASE field_state = "pid"
    <2>1. Len(seen) = AddressEnd(n) + 1 /\ info
      BY <1>6 DEF BehindHeader, HasControl, info
    <2>2. e + 2 = Len(seen) /\ e - AddressEnd(n) - 2 >= 0
      BY <1>4, <2>1, LengthsAssumption
    <2> QED
      BY <1>1, <2>1, <2>2
  <1>7. CASE field_state = "fcs"
    <2>1. /\ Len(seen) = AddressEnd(n) + 1 + Len(fcs_field_data)
          /\ Len(fcs_field_data) < 2 /\ ~info
      BY <1>7 DEF BehindHeader, HasControl, info
    <2>2. e = AddressEnd(n) + 1 /\ e + 2 <= Len(seen)
      BY <1>4, <2>1
    <2>3. Len(fcs_field_data) = Len(seen) - e
      BY <1>1, <2>1, <2>2
    <2> QED
      BY <1>1, <2>1, <2>2, <2>3
  <1> QED
    BY <1>5, <1>6, <1>7 DEF BehindHeader

\* An end behind a frame without information, which has been judged.
LEMMA EndAfterVerdict ==
  ASSUME DecoderTypeOK, seen \in Seq(Byte), decoded \in Seq(Message), before \in Nat,
         NEW n \in 2..(MaxNumRepeaters + 2), BehindHeader(n),
         field_state = "frame_skip", MarkEnd, TakeResult
  PROVE  AsTheLayoutSays(decoded', before, seen)
  <1> DEFINE e == AddressEnd(n) + 1
  <1>1. decoded' = decoded
    BY DEF MarkEnd, FlushInformationBytes, TakeResult
  <1>2. /\ IsJudged(n) /\ ~FrameControlUsesInfo(seen[e])
        /\ \A j \in 2..n : ExtensionBit(seen[AddressEnd(j)]) = 1 <=> j = n
        /\ n - 2 <= MaxNumRepeaters
    BY DEF BehindHeader, HasControl, AddressesEndAt
  <1>3. /\ n \in Nat /\ n >= 2 /\ AddressEnd(n) \in Nat /\ Len(seen) \in Nat
        /\ e \in 1..Len(seen) /\ e + 2 <= Len(seen) /\ AddressEnd(n) < Len(seen)
        /\ n \in 2..Len(seen)
    <2>1. n \in Nat /\ n >= 2 /\ Len(seen) \in Nat
      BY RepeatersAssumption, LenProperties
    <2>2. AddressEnd(n) \in Nat /\ AddressEnd(n) >= n
      BY <2>1, AddressEndsFarEnough
    <2>3. e + 2 <= Len(seen)
      BY <1>2 DEF IsJudged
    <2> QED
      BY <2>1, <2>2, <2>3
  <1>4. ASSUME NEW k \in 2..Len(seen), NEW d \in 1..Len(seen),
               AddressEnd(k) < Len(seen), WellFormed(seen, k, d)
        PROVE  k = n /\ d = e /\ WellFormed(seen, n, e)
    <2>0. k \in Nat /\ k >= 2
      OBVIOUS
    <2>1. k = n
      BY <1>2, <1>3, <1>4, <2>0, LayoutEnds
    <2>2. d = e
      BY <1>2, <1>4, <2>1 DEF WellFormed
    <2> QED
      BY <1>4, <2>1, <2>2
  <1>5. WellFormed(seen, n, e) <=>
          SubSeq(seen, e + 1, e + 2) = FCSField(SubSeq(seen, 1, e))
    BY <1>2, <1>3 DEF WellFormed
  <1>6. CASE WellFormed(seen, n, e)
    <2>1. FrameMessage(seen) = {Parsed(seen, n, e)}
      BY <1>3, <1>4, <1>6, OneFrame
    <2>2. Len(decoded) = before + 1 /\ decoded[before + 1] = Parsed(seen, n, e)
      BY <1>2, <1>5, <1>6, Zenon DEF IsJudged
    <2> QED
      BY <1>1, <2>1, <2>2, OneDelivered
  <1>7. CASE ~WellFormed(seen, n, e)
    <2>1. FrameMessage(seen) = {}
      BY <1>4, <1>7, NoFrame
    <2>2. Len(decoded) = before
      BY <1>2, <1>5, <1>7, Zenon DEF IsJudged
    <2> QED
      BY <1>1, <2>1, <2>2, NothingDelivered
  <1> QED
    BY <1>6, <1>7

\* An end in the information.
LEMMA EndInInformation ==
  ASSUME DecoderInv, DecoderInv', seen \in Seq(Byte),
         decoded \in Seq(Message), before \in Nat, Len(decoded) = before,
         NEW n \in 2..(MaxNumRepeaters + 2), AddressesEndAt(n), HasControl(n),
         FrameControlUsesInfo(message.control), InInformation(n), ChecksumCovers,
         FlushInformationBytes, TakeResult
  PROVE  AsTheLayoutSays(decoded', before, seen)
  <1> DEFINE begin == AddressEnd(n) + 2
             read == Len(seen) - begin
             size == Len(information_data)
             length == information_length
             capacity == InformationCapacity
             room == capacity - length
             delayed == size - 2
             flushed == IF delayed <= room THEN delayed ELSE room
             e == Len(seen) - 2
             matches == SubSeq(seen, e + 1, e + 2) = FCSField(SubSeq(seen, 1, e))
  <1>0. DecoderTypeOK /\ WindowsAgree
    BY DEF DecoderInv
  <1>1. /\ n \in Nat /\ n >= 2 /\ n - 2 <= MaxNumRepeaters /\ n \in Nat \ {0, 1}
        /\ AddressEnd(n) \in Nat /\ AddressEnd(n) >= n
        /\ Len(seen) \in Nat /\ capacity \in Nat
    <2>1. n \in Nat /\ n >= 2 /\ n - 2 <= MaxNumRepeaters /\ n \in Nat \ {0, 1}
      BY RepeatersAssumption
    <2> QED
      BY <2>1, AddressEndsFarEnough, LenProperties, LengthsAssumption
  <1>2. size \in 0..4 /\ length \in 0..capacity /\ information_data \in Seq(Byte)
    BY <1>0 DEF DecoderTypeOK
  <1>3. /\ read >= 0 /\ message.pid = seen[begin]
        /\ length > 0 => size = 4
        /\ \/ read > capacity + 4 /\ size = 4 /\ length = capacity
           \/ /\ read = length + size
              /\ \A i \in 1..size : information_data[i] = seen[begin + length + i]
              /\ \A i \in 1..capacity :
                   message.information[i] =
                     IF i <= length THEN seen[begin + i] ELSE Nul
    BY DEF InInformation, InformationDropped
  <1>4. /\ FrameControlUsesInfo(seen[AddressEnd(n) + 1])
        /\ \A j \in 2..n : ExtensionBit(seen[AddressEnd(j)]) = 1 <=> j = n
    BY DEF HasControl, AddressesEndAt
  <1>5. /\ fcs_data' = fcs_data /\ field_state' = "information"
        /\ actual_frame_fcs' = FinalizeCRC(actual_frame_fcs)
        /\ delayed < 0 => outcome' = "unavailable"
        /\ ~(delayed < 0) =>
             /\ message' = WithInformation(flushed)
             /\ outcome' = IF flushed < delayed THEN "resource_exhausted"
                           ELSE Verdict(information_data', actual_frame_fcs')
    BY Zenon DEF FlushInformationBytes
  <1>6. Len(fcs_data) = 2 /\ fcs_data \in Seq(Byte)
    <2>1. field_state = "information"
      BY DEF FlushInformationBytes
    <2> QED
      BY <1>0, <2>1 DEF WindowsAgree, DecoderTypeOK
  <1>7. /\ begin = AddressEnd(n) + 2 /\ read = Len(seen) - begin /\ e = Len(seen) - 2
        /\ AddressEnd(n) < Len(seen) /\ n \in 2..Len(seen) /\ e \in 1..Len(seen)
        /\ e \in Nat /\ e + 2 = Len(seen) /\ e - AddressEnd(n) - 2 = read - 2
        /\ read \in Nat
    BY <1>1, <1>3
  <1>8. /\ fcs_data[1] = seen[e + 1] /\ fcs_data[2] = seen[e + 2]
        /\ actual_frame_fcs = CRCOf(SubSeq(seen, 1, e))
    BY <1>6 DEF ChecksumCovers
  <1>9. matches <=> fcs_data = FCSBytes(actual_frame_fcs')
    <2>1. SubSeq(seen, e + 1, e + 2) = fcs_data
      <3>1. e + 2 <= Len(seen)
        BY <1>1, <1>7
      <3> HIDE DEF e
      <3> QED
        BY <1>6, <1>7, <1>8, <3>1, TwoBytes
    <2>2. FCSField(SubSeq(seen, 1, e)) = FCSBytes(actual_frame_fcs')
      BY <1>5, <1>8, Zenon DEF FCSField
    <2> QED
      BY <2>1, <2>2, Zenon
  <1>10. WellFormed(seen, n, e) <=> read - 2 \in 0..capacity /\ matches
    <2>1. e + 2 <= Len(seen) /\ e + 2 = Len(seen)
      BY <1>1, <1>7
    <2>2. e - AddressEnd(n) - 2 \in 0..InformationCapacity <=> read - 2 \in 0..capacity
      BY <1>7
    <2> HIDE DEF e, read, capacity
    <2> QED
      BY <1>1, <1>4, <2>1, <2>2, Zenon DEF WellFormed
  <1>11. ASSUME NEW k \in 2..Len(seen), NEW d \in 1..Len(seen),
                AddressEnd(k) < Len(seen), WellFormed(seen, k, d)
         PROVE  k = n /\ d = e /\ WellFormed(seen, n, e)
    <2>0. k \in Nat /\ k >= 2
      OBVIOUS
    <2>1. k = n
      BY <1>1, <1>4, <1>11, <2>0, LayoutEnds
    <2>2. d + 2 = Len(seen)
      BY <1>4, <1>11, <2>1 DEF WellFormed
    <2>3. d = e
      BY <1>1, <2>2
    <2> QED
      BY <1>11, <2>1, <2>3
  <1>14. room \in 0..capacity /\ delayed \in -2..2 /\ room = capacity - length
         /\ delayed = size - 2
    BY <1>1, <1>2
  <1>15. flushed = IF delayed <= room THEN delayed ELSE room
    OBVIOUS
  <1>20. e = begin + (read - 2) /\ begin \in Nat
    BY <1>1, <1>7
  <1> HIDE DEF begin, read, size, length, capacity, room, delayed, flushed, e, matches
  <1>12. ~WellFormed(seen, n, e) => FrameMessage(seen) = {}
    BY <1>11, NoFrame
  <1>13. WellFormed(seen, n, e) => FrameMessage(seen) = {Parsed(seen, n, e)}
    BY <1>7, <1>11, OneFrame
  <1>19. /\ length > 0 => size = 4
         /\ read > capacity + 4 \/ read = length + size
    BY <1>3
  <1>21. read \in Nat /\ capacity \in Nat
    BY <1>1, <1>7
  <1>16. CASE delayed < 0
    <2>1. outcome' # "message"
      BY <1>5, <1>16
    <2>2. ~(read - 2 \in 0..capacity)
      BY <1>2, <1>14, <1>16, <1>19, <1>21
    <2> QED
      BY <1>10, <1>12, <2>1, <2>2, NothingTaken
  <1>17. CASE ~(delayed < 0) /\ flushed < delayed
    <2>1. outcome' # "message"
      BY <1>5, <1>17
    <2>2. flushed = room /\ room < delayed
      BY <1>14, <1>15, <1>17
    <2>3. ~(read - 2 \in 0..capacity)
      BY <1>2, <1>14, <1>19, <1>21, <2>2
    <2> QED
      BY <1>10, <1>12, <2>1, <2>3, NothingTaken
  <1>18. CASE ~(delayed < 0) /\ ~(flushed < delayed)
    <2>1. delayed <= room /\ flushed = delayed /\ delayed \in Nat
      BY <1>14, <1>15, <1>18
    <2>2. ~(read > capacity + 4 /\ size = 4 /\ length = capacity)
      BY <1>1, <1>14, <2>1
    <2>3. /\ read = length + size
          /\ \A i \in 1..size : information_data[i] = seen[begin + length + i]
          /\ \A i \in 1..capacity :
               message.information[i] = IF i <= length THEN seen[begin + i] ELSE Nul
      BY <1>3, <2>2
    <2>4. read - 2 \in 0..capacity /\ read - 2 = length + delayed
      BY <1>1, <1>2, <1>14, <2>1, <2>3
    <2>5. /\ message' = WithInformation(delayed)
          /\ outcome' = Verdict(information_data', actual_frame_fcs')
      BY <1>5, <1>18, <2>1
    <2>6. outcome' = Verdict(fcs_data, actual_frame_fcs')
      <3>1. outcome' \in {"message", "checksum_mismatch"}
        BY <2>5 DEF Verdict
      <3>2. fcs_data' = information_data'
        BY <1>5, <3>1 DEF DecoderInv, ChecksumIsLast
      <3> QED
        BY <1>5, <2>5, <3>2
    <2>7. message' = Parsed(seen, n, e)
      <3>1. /\ message'.destination = message.destination
            /\ message'.source = message.source
            /\ message'.repeaters = message.repeaters
            /\ message'.control = message.control
            /\ message'.pid = message.pid
            /\ message'.information =
                 [i \in 1..capacity |->
                    IF i \in length + 1 .. length + delayed
                    THEN information_data[i - length]
                    ELSE message.information[i]]
        BY <1>0, <2>1, <2>5, InformationFields DEF capacity, length
      <3>2. /\ message'.destination = AddressAt(seen, 1)
            /\ message'.source = AddressAt(seen, 2)
            /\ Len(message'.repeaters) = n - 2
            /\ \A i \in 1..(n - 2) : message'.repeaters[i] = AddressAt(seen, i + 2)
        BY <1>1, <3>1 DEF AddressesEndAt, HasAddresses
      <3>3. /\ message'.control = seen[AddressEnd(n) + 1]
            /\ FrameControlUsesInfo(message'.control)
            /\ message'.pid = seen[begin]
        BY <1>3, <3>1 DEF HasControl
      <3>4. \A i \in 1..capacity :
              message'.information[i] =
                IF begin + i <= e THEN seen[begin + i] ELSE Nul
        <4> TAKE i \in 1..capacity
        <4>0. begin + i <= e <=> i <= length + delayed
          BY <1>2, <1>20, <1>21, <2>1, <2>4
        <4>1. CASE i \in length + 1 .. length + delayed
          <5>1. message'.information[i] = information_data[i - length]
            BY <3>1, <4>1
          <5>2. i - length \in 1..size /\ begin + length + (i - length) = begin + i
                /\ i <= length + delayed
            BY SMTT(30), <1>1, <1>2, <1>7, <1>14, <2>1, <4>1
          <5> QED
            BY <2>3, <4>0, <5>1, <5>2
        <4>2. CASE i \notin length + 1 .. length + delayed
          <5>1. message'.information[i] = message.information[i]
            BY <3>1, <4>2
          <5>2. i <= length <=> i <= length + delayed
            BY <1>1, <1>2, <2>1, <4>2
          <5> QED
            BY <2>3, <4>0, <5>1, <5>2
        <4> QED
          BY <4>1, <4>2
      <3>5. message' \in Message
        BY DEF DecoderInv, DecoderTypeOK
      <3> QED
        BY <1>1, <1>7, <3>2, <3>3, <3>4, <3>5, ParsedByFields DEF capacity
    <2>8. CASE matches
      <3>1. outcome' = "message"
        BY <1>9, <2>6, <2>8 DEF Verdict
      <3>2. decoded' = Append(decoded, message') /\ message' \in Message
        BY <3>1 DEF TakeResult, DecoderInv, DecoderTypeOK
      <3>3. /\ Len(decoded') = before + 1 /\ decoded'[before + 1] = message'
            /\ decoded' \in Seq(Message)
        BY <3>2, AppendProperties
      <3>4. FrameMessage(seen) = {decoded'[before + 1]}
        BY <1>10, <1>13, <2>4, <2>7, <2>8, <3>3
      <3> QED
        BY <3>3, <3>4, OneDelivered
    <2>9. CASE ~matches
      <3>1. outcome' # "message"
        BY <1>9, <2>6, <2>9 DEF Verdict
      <3> QED
        BY <1>10, <1>12, <2>9, <3>1, NothingTaken
    <2> QED
      BY <2>8, <2>9
  <1> QED
    BY <1>16, <1>17, <1>18

\* Every end.
LEMMA EndFollows ==
  ASSUME DecoderInv, DecoderInv', seen \in Seq(Byte),
         decoded \in Seq(Message), before \in Nat, FollowsTheBytes,
         MarkEnd, TakeResult
  PROVE  AsTheLayoutSays(decoded', before, seen)
  <1>0. DecoderTypeOK
    BY DEF DecoderInv
  <1>1. CASE InHeader
    <2>1. field_state \notin {"information", "frame_skip"}
      BY <1>1 DEF InHeader
    <2>2. outcome' = "unavailable"
      BY <2>1 DEF MarkEnd, FlushInformationBytes
    <2>3. Len(decoded) = before
      BY <2>1 DEF FollowsTheBytes
    <2> QED
      BY <1>0, <1>1, <2>2, <2>3, NoFrameInHeader, NothingTaken
  <1>2. ASSUME NEW n \in 2..(MaxNumRepeaters + 2), BehindHeader(n)
        PROVE  AsTheLayoutSays(decoded', before, seen)
    <2>1. CASE field_state = "frame_skip"
      BY <1>0, <1>2, <2>1, EndAfterVerdict
    <2>2. CASE field_state = "information"
      <3>1. FlushInformationBytes
        BY <2>2 DEF MarkEnd
      <3>2. ChecksumCovers /\ Len(decoded) = before
        BY <2>2 DEF FollowsTheBytes
      <3>3. /\ AddressesEndAt(n) /\ HasControl(n) /\ InInformation(n)
            /\ FrameControlUsesInfo(message.control)
        BY <1>2, <2>2 DEF BehindHeader
      <3> QED
        BY <3>1, <3>2, <3>3, EndInInformation
    <2>3. CASE field_state \notin {"information", "frame_skip"}
      <3>1. outcome' = "unavailable"
        BY <2>3 DEF MarkEnd, FlushInformationBytes
      <3>2. Len(decoded) = before
        BY <2>3 DEF FollowsTheBytes
      <3> QED
        BY <1>2, <2>3, <3>1, <3>2, NoFrameBeforeInformation, NothingTaken
    <2> QED
      BY <2>1, <2>2, <2>3
  <1> QED
    BY <1>1, <1>2 DEF FollowsTheBytes

--------------------------------------------------------------------------------
(* The encoder: addresses.                                                   *)

\* The m elements of s, and the n of t behind them.
AreJoined(r, s, m, t, n) ==
  /\ Len(r) = m + n
  /\ \A i \in 1..m : r[i] = s[i]
  /\ \A i \in 1..n : r[m + i] = t[i]

LEMMA JoinedSequences ==
  ASSUME NEW S, NEW s \in Seq(S), NEW t \in Seq(S), NEW r, r = s \o t,
         NEW m \in Nat, NEW n \in Nat, Len(s) = m, Len(t) = n
  PROVE  r \in Seq(S) /\ AreJoined(r, s, m, t, n)
  <1>1. r \in Seq(S)
    OBVIOUS
  <1>2. Len(r) = m + n
    <2>1. Len(s \o t) = Len(s) + Len(t)
      BY ConcatProperties, Zenon
    <2> QED
      BY <2>1, Zenon
  <1>3. \A i \in 1..m : (s \o t)[i] = s[i]
    OBVIOUS
  <1>4. \A i \in 1..n : (s \o t)[m + i] = t[i]
    OBVIOUS
  <1> QED
    BY <1>1, <1>2, <1>3, <1>4, Zenon DEF AreJoined

LEMMA JoinedBits ==
  ASSUME NEW m \in Nat, NEW n \in Nat, NEW s \in Bits(m), NEW t \in Bits(n),
         NEW r, r = s \o t
  PROVE  AreJoined(r, s, m, t, n)
  <1>1. s \in Seq(Bit) /\ Len(s) = m /\ t \in Seq(Bit) /\ Len(t) = n
    BY BitsAreSequences
  <1> QED
    BY <1>1, JoinedSequences, Zenon

\* The checksum of bytes is two bytes.
LEMMA FCSFieldType ==
  ASSUME NEW bytes \in Seq(Byte)
  PROVE  FCSField(bytes) \in Seq(Byte) /\ Len(FCSField(bytes)) = 2
  <1> DEFINE crc == FinalizeCRC(CRCOf(bytes))
  <1>1. crc \in Bits(16)
    BY CRCByteByByte, CRCType
  <1>2. FCSField(bytes) = <<SubSeq(crc, 1, 8), SubSeq(crc, 9, 16)>>
    BY DEF FCSField, FCSBytes
  <1> HIDE DEF crc
  <1>3. SubSeq(crc, 1, 8) \in Bits(8 - 1 + 1) /\ SubSeq(crc, 9, 16) \in Bits(16 - 9 + 1)
    BY <1>1, Cut
  <1>4. SubSeq(crc, 1, 8) \in Byte /\ SubSeq(crc, 9, 16) \in Byte
    BY <1>3, ByteIsBits
  <1> QED
    BY <1>2, <1>4

\* The last byte of an address tells whether it is the last one.
LEMMA SSIDByteType ==
  ASSUME NEW a \in Address, NEW h \in BOOLEAN
  PROVE  /\ SSIDByte(a, h) \in Byte
         /\ ExtensionBit(SSIDByte(a, h)) = IF h THEN 0 ELSE 1
         /\ \A i \in 1..4 : SSIDByte(a, h)[1 + i] = a.ssid[i]
         /\ SSIDByte(a, h)[8] =
              IF a.has_been_repeated \/ a.command_response_bit = 1 THEN 1 ELSE 0
  <1> DEFINE first == <<IF h THEN 0 ELSE 1>>
             ssid == a.ssid
             ones == <<1, 1>>
             last == <<IF a.has_been_repeated \/ a.command_response_bit = 1
                       THEN 1 ELSE 0>>
             five == first \o ssid
             seven == five \o ones
  <1>1. first \in Bits(1) /\ first[1] = IF h THEN 0 ELSE 1
    BY DEF Bits, Bit
  <1>2. /\ last \in Bits(1)
        /\ last[1] = IF a.has_been_repeated \/ a.command_response_bit = 1
                     THEN 1 ELSE 0
    BY DEF Bits, Bit
  <1>3. ssid \in Bits(4)
    BY ByteIsBits DEF Address
  <1>4. ones \in Bits(2)
    BY DEF Bits, Bit
  <1>5. SSIDByte(a, h) = seven \o last
    BY DEF SSIDByte
  <1>6. first \o ssid = five /\ five \o ones = seven
    OBVIOUS
  <1> HIDE DEF first, last, ones, ssid, five, seven
  <1>0. 1 \in Nat /\ 2 \in Nat /\ 4 \in Nat /\ 5 \in Nat /\ 7 \in Nat
    OBVIOUS
  <1>7. AreJoined(five, first, 1, ssid, 4) /\ five \in Bits(1 + 4)
    BY <1>0, <1>1, <1>3, <1>6, Joined, JoinedBits, Zenon
  <1>8. five \in Bits(5)
    BY <1>7
  <1>9. AreJoined(seven, five, 5, ones, 2) /\ seven \in Bits(5 + 2)
    BY <1>0, <1>4, <1>6, <1>8, Joined, JoinedBits, Zenon
  <1>10. seven \in Bits(7)
    BY <1>9
  <1>11. /\ AreJoined(seven \o last, seven, 7, last, 1)
         /\ seven \o last \in Bits(7 + 1)
    BY <1>0, <1>2, <1>10, Joined, JoinedBits, Zenon
  <1> DEFINE byte == seven \o last
  <1> HIDE DEF byte
  <1>12. byte \in Bits(8) /\ byte[1] = first[1]
    BY <1>7, <1>9, <1>11 DEF AreJoined, byte
  <1>13. ASSUME NEW i \in 1..4 PROVE byte[1 + i] = ssid[i]
    <2>1. 1 + i \in 1..5 /\ 1 + i \in 1..7
      OBVIOUS
    <2>2. /\ five[1 + i] = ssid[i] /\ seven[1 + i] = five[1 + i]
          /\ byte[1 + i] = seven[1 + i]
      BY <1>7, <1>9, <1>11, <2>1 DEF AreJoined, byte
    <2> QED
      BY <2>2
  <1>14. byte[8] = last[1]
    <2>1. byte[7 + 1] = last[1]
      BY <1>11 DEF AreJoined, byte
    <2> QED
      BY <2>1
  <1> QED
    BY <1>1, <1>2, <1>5, <1>12, <1>13, <1>14, ByteIsBits
       DEF ExtensionBit, byte, ssid

\* The bytes of an address.
LEMMA PushAddressType ==
  ASSUME NEW a \in Address, NEW h \in BOOLEAN
  PROVE  /\ PushAddress(a, h) \in Seq(Byte)
         /\ Len(PushAddress(a, h)) = AddressLength
         /\ \A i \in 1..CallsignLength : PushAddress(a, h)[i] = <<0>> \o a.callsign[i]
         /\ PushAddress(a, h)[AddressLength] = SSIDByte(a, h)
  <1> DEFINE callsign == [i \in 1..CallsignLength |-> <<0>> \o a.callsign[i]]
             last == SSIDByte(a, h)
  <1>1. ASSUME NEW i \in 1..CallsignLength PROVE <<0>> \o a.callsign[i] \in Byte
    <2>1. a.callsign[i] \in Char
      BY DEF Address
    <2> DEFINE c == a.callsign[i]
               zero == <<0>>
    <2>2. c \in Bits(7)
      BY <2>1, ByteIsBits
    <2>3. zero \in Bits(1)
      BY DEF Bits, Bit
    <2> HIDE DEF c, zero
    <2>4. zero \o c \in Bits(1 + 7)
      BY <2>2, <2>3, Joined
    <2> QED
      BY <2>4, ByteIsBits DEF c, zero
  <1>2. CallsignLength \in Nat
    BY LengthsAssumption
  <1>3. callsign \in Seq(Byte) /\ Len(callsign) = CallsignLength
    BY <1>1, <1>2
  <1>4. last \in Byte
    BY SSIDByteType
  <1>10. \A i \in 1..CallsignLength : callsign[i] = <<0>> \o a.callsign[i]
    OBVIOUS
  <1>5. PushAddress(a, h) = callsign \o <<last>>
    BY DEF PushAddress
  <1> HIDE DEF callsign, last
  <1> DEFINE end == <<last>>
             all == callsign \o end
  <1>6. end \in Seq(Byte) /\ Len(end) = 1 /\ end[1] = last /\ 1 \in Nat
    BY <1>4
  <1>7. PushAddress(a, h) = all
    BY <1>5
  <1> HIDE DEF end
  <1>8. all \in Seq(Byte) /\ AreJoined(all, callsign, CallsignLength, end, 1)
    BY <1>2, <1>3, <1>6, JoinedSequences, Zenon
  <1> HIDE DEF all
  <1>9. /\ Len(all) = CallsignLength + 1 /\ all[CallsignLength + 1] = end[1]
        /\ \A i \in 1..CallsignLength : all[i] = callsign[i]
    BY <1>2, <1>8 DEF AreJoined
  <1> QED
    BY <1>6, <1>7, <1>8, <1>9, <1>10, Zenon DEF AddressLength, last

\* The bytes of the first k addresses, the n-th of which is the last.
AreAddresses(bytes, addresses, k, n) ==
  /\ bytes \in Seq(Byte) /\ Len(bytes) = AddressEnd(k)
  /\ \A j \in 1..k, i \in 1..AddressLength :
       bytes[AddressEnd(j - 1) + i] = PushAddress(addresses[j], j # n)[i]

\* One more address.
LEMMA OneMoreAddress ==
  ASSUME NEW k \in Nat, NEW n \in Nat, NEW bytes, NEW addresses,
         AreAddresses(bytes, addresses, k, n),
         addresses[k + 1] \in Address
  PROVE  AreAddresses(bytes \o PushAddress(addresses[k + 1], k + 1 # n),
                      addresses, k + 1, n)
  <1> DEFINE more == PushAddress(addresses[k + 1], k + 1 # n)
             all == bytes \o more
             e == AddressEnd(k)
             l == AddressLength
             Of(j) == PushAddress(addresses[j], j # n)
  <1>1. more \in Seq(Byte) /\ Len(more) = l
    BY PushAddressType
  <1>2. bytes \in Seq(Byte) /\ Len(bytes) = e
    BY DEF AreAddresses
  <1>3. /\ e \in Nat /\ l \in Nat /\ l >= 2
        /\ AddressEnd(k + 1) = e + l
        /\ \A i \in Nat : AddressEnd(i) \in Nat
        /\ \A i \in Nat, j \in Nat : i < j => AddressEnd(i) + l <= AddressEnd(j)
    BY AddressEnds
  <1>4. bytes \o more = all /\ more = Of(k + 1)
    OBVIOUS
  <1>5. \A j \in 1..k, i \in 1..l : bytes[AddressEnd(j - 1) + i] = Of(j)[i]
    BY DEF AreAddresses
  <1>6. AddressEnd(k) = e
    OBVIOUS
  <1> HIDE DEF more, all, e, l, Of
  <1>7. /\ all \in Seq(Byte) /\ Len(all) = e + l
        /\ \A i \in 1..e : all[i] = bytes[i]
        /\ \A i \in 1..l : all[e + i] = more[i]
    <2>1. all \in Seq(Byte) /\ AreJoined(all, bytes, e, more, l)
      BY <1>1, <1>2, <1>3, <1>4, JoinedSequences, Zenon
    <2> QED
      BY <2>1 DEF AreJoined
  <1>8. ASSUME NEW j \in 1..(k + 1), NEW i \in 1..l
        PROVE  all[AddressEnd(j - 1) + i] = Of(j)[i]
    <2>1. CASE j = k + 1
      <3>1. j - 1 = k
        BY <2>1
      <3> QED
        BY <1>4, <1>6, <1>7, <2>1, <3>1
    <2>2. CASE j # k + 1
      <3>1. j \in 1..k /\ j - 1 \in Nat /\ j - 1 < k
        BY <2>2
      <3>2. AddressEnd(j - 1) \in Nat /\ AddressEnd(j - 1) + l <= e
        BY <1>3, <1>6, <3>1
      <3>3. AddressEnd(j - 1) + i \in 1..e
        BY <1>3, <3>2
      <3> QED
        BY <1>5, <1>7, <3>1, <3>3
    <2> QED
      BY <2>1, <2>2
  <1>9. /\ all \in Seq(Byte) /\ Len(all) = AddressEnd(k + 1)
        /\ \A j \in 1..(k + 1), i \in 1..AddressLength :
             all[AddressEnd(j - 1) + i] = PushAddress(addresses[j], j # n)[i]
    BY <1>3, <1>7, <1>8 DEF Of, l
  <1> QED
    BY <1>4, <1>9 DEF AreAddresses, more

\* The bytes of the first repeaters, of none of them to n.
PushedTo(f, repeaters, n) ==
  f = [i \in 0..n |->
         IF i = 0 THEN <<>>
         ELSE f[i - 1] \o PushAddress(repeaters[i], i < Len(repeaters))]

LEMMA PushedExists ==
  ASSUME NEW repeaters
  PROVE  \A n \in Nat : \E f : PushedTo(f, repeaters, n)
  <1> DEFINE Good == {n \in Nat : \E f : PushedTo(f, repeaters, n)}
             Longer(s, i) == s \o PushAddress(repeaters[i], i < Len(repeaters))
  <1>1. 0 \in Good
    <2> DEFINE f == [i \in 0..0 |-> <<>>]
    <2>1. PushedTo(f, repeaters, 0)
      BY DEF PushedTo
    <2> HIDE DEF f
    <2> QED
      BY <2>1
  <1>2. ASSUME NEW n \in Nat, n \in Good PROVE n + 1 \in Good
    <2>1. PICK g : PushedTo(g, repeaters, n)
      BY <1>2
    <2> HIDE DEF Longer
    <2>2. g = [i \in 0..n |-> IF i = 0 THEN <<>> ELSE Longer(g[i - 1], i)]
      BY <2>1, Zenon DEF PushedTo, Longer
    <2> DEFINE f == [i \in 0..(n + 1) |->
                       IF i <= n THEN g[i] ELSE Longer(g[n], n + 1)]
    <2>3. \A i \in 0..(n + 1) :
            f[i] = IF i = 0 THEN <<>> ELSE Longer(f[i - 1], i)
      <3> SUFFICES ASSUME NEW i \in 0..(n + 1)
                   PROVE  f[i] = IF i = 0 THEN <<>> ELSE Longer(f[i - 1], i)
        OBVIOUS
      <3>1. CASE i = n + 1
        BY <3>1
      <3>2. CASE i # n + 1
        <4>1. i \in 0..n /\ (i # 0 => i - 1 \in 0..n)
          BY <3>2
        <4>2. f[i] = g[i] /\ (i # 0 => f[i - 1] = g[i - 1])
          BY <4>1
        <4>3. g[i] = IF i = 0 THEN <<>> ELSE Longer(g[i - 1], i)
          BY <2>2, <4>1
        <4> QED
          BY <4>2, <4>3
      <3> QED
        BY <3>1, <3>2
    <2>4. f = [i \in 0..(n + 1) |-> f[i]]
      OBVIOUS
    <2> HIDE DEF f
    <2>5. PushedTo(f, repeaters, n + 1)
      BY <2>3, <2>4 DEF PushedTo, Longer
    <2> QED
      BY <2>5
  <1> HIDE DEF Good
  <1>3. \A n \in Nat : n \in Good
    BY <1>1, <1>2, NatSetInduction
  <1> QED
    BY <1>3 DEF Good

\* The bytes of the repeaters, the last of which says so.
LEMMA RepeatersLayout ==
  ASSUME NEW repeaters \in Seq(Address), NEW count \in Nat, Len(repeaters) = count,
         NEW f, PushedTo(f, repeaters, count)
  PROVE  \A k \in 0..count : AreAddresses(f[k], repeaters, k, count)
  <1> DEFINE Good == {k \in Nat : k <= count =>
                                   AreAddresses(f[k], repeaters, k, count)}
  <1>1. 0 \in Good
    <2>1. f[0] = <<>>
      BY DEF PushedTo
    <2>2. <<>> \in Seq(Byte) /\ Len(<<>>) = 0 /\ AddressEnd(0) = 0
      BY AddressEnds
    <2>3. AreAddresses(<<>>, repeaters, 0, count)
      BY <2>2 DEF AreAddresses
    <2> QED
      BY <2>1, <2>3
  <1>2. ASSUME NEW k \in Nat, k \in Good PROVE k + 1 \in Good
    <2> SUFFICES ASSUME k + 1 <= count
                 PROVE  AreAddresses(f[k + 1], repeaters, k + 1, count)
      OBVIOUS
    <2>1. AreAddresses(f[k], repeaters, k, count)
      BY <1>2
    <2>2. k + 1 \in 0..count /\ k + 1 # 0 /\ (k + 1) - 1 = k /\ k + 1 \in 1..count
      OBVIOUS
    <2>3. f[k + 1] = f[(k + 1) - 1]
                       \o PushAddress(repeaters[k + 1], k + 1 < Len(repeaters))
      BY <2>2 DEF PushedTo
    <2>4. (k + 1 < Len(repeaters)) = (k + 1 # count)
      OBVIOUS
    <2>5. repeaters[k + 1] \in Address
      BY <2>2
    <2>6. f[k + 1] = f[k] \o PushAddress(repeaters[k + 1], k + 1 # count)
      BY <2>2, <2>3, <2>4, Zenon
    <2>7. AreAddresses(f[k] \o PushAddress(repeaters[k + 1], k + 1 # count),
                       repeaters, k + 1, count)
      BY <2>1, <2>5, OneMoreAddress
    <2> QED
      BY <2>6, <2>7, Zenon
  <1> HIDE DEF Good
  <1>3. \A k \in Nat : k \in Good
    BY <1>1, <1>2, NatSetInduction
  <1> QED
    BY <1>3 DEF Good

LEMMA PushAddressRepeatersType ==
  ASSUME NEW repeaters \in Seq(Address), NEW count \in Nat, Len(repeaters) = count
  PROVE  AreAddresses(PushAddressRepeaters(repeaters), repeaters, count, count)
  <1> DEFINE f == CHOOSE g : PushedTo(g, repeaters, Len(repeaters))
  <1>1. PushAddressRepeaters(repeaters) = f[Len(repeaters)]
    BY DEF PushAddressRepeaters, PushedTo
  <1>2. PushedTo(f, repeaters, Len(repeaters))
    BY PushedExists
  <1> HIDE DEF f
  <1>3. PushAddressRepeaters(repeaters) = f[count] /\ PushedTo(f, repeaters, count)
    BY <1>1, <1>2
  <1>4. count \in 0..count
    OBVIOUS
  <1> QED
    BY <1>3, <1>4, RepeatersLayout

--------------------------------------------------------------------------------
\* The addresses of a message with n repeaters, in the order they are sent.
AddressesOf(m, n) ==
  [j \in 1..(n + 2) |-> IF j = 1 THEN m.destination
                        ELSE IF j = 2 THEN m.source ELSE m.repeaters[j - 2]]

\* The addresses of a message: the last of them, and only that, says so.
LEMMA PushAddressFieldLayout ==
  ASSUME NEW m \in Message, NEW n \in Nat, Len(m.repeaters) = n
  PROVE  AreAddresses(PushAddressField(m), AddressesOf(m, n), n + 2, n + 2)
  <1> DEFINE addresses == AddressesOf(m, n)
             one == PushAddress(m.destination, TRUE)
             two == one \o PushAddress(m.source, m.repeaters # <<>>)
             more == PushAddressRepeaters(m.repeaters)
             all == two \o more
  <1>1. PushAddressField(m) = all
    BY DEF PushAddressField
  <1>2. /\ m.destination \in Address /\ m.source \in Address
        /\ m.repeaters \in Seq(Address)
    BY DEF Message
  <1>3. /\ addresses[1] = m.destination /\ addresses[2] = m.source
        /\ \A j \in 1..n : addresses[j + 2] = m.repeaters[j]
    BY DEF AddressesOf
  <1>4. /\ (1 # n + 2) = TRUE /\ (2 # n + 2) = (m.repeaters # <<>>)
        /\ n + 2 \in Nat
    <2>1. n = 0 <=> m.repeaters = <<>>
      BY <1>2, EmptySeq
    <2> QED
      BY <2>1
  <1> HIDE DEF addresses
  <1>5. AreAddresses(one, addresses, 1, n + 2)
    <2>1. one \in Seq(Byte) /\ Len(one) = AddressLength
      BY <1>2, PushAddressType
    <2>2. /\ AddressEnd(0) = 0 /\ AddressEnd(0 + 1) = AddressEnd(0) + AddressLength
          /\ AddressLength \in Nat
      BY AddressEnds
    <2>3. AddressEnd(1) = AddressLength
      BY <2>2
    <2>4. one = PushAddress(addresses[1], 1 # n + 2)
      BY <1>3, <1>4, Zenon
    <2>5. ASSUME NEW j \in 1..1, NEW i \in 1..AddressLength
          PROVE  one[AddressEnd(j - 1) + i] = PushAddress(addresses[j], j # n + 2)[i]
      <3>1. j = 1 /\ AddressEnd(j - 1) + i = i
        BY <2>2
      <3> QED
        BY <2>4, <3>1, Zenon
    <2> QED
      BY <2>1, <2>3, <2>5 DEF AreAddresses
  <1>6. AreAddresses(two, addresses, 2, n + 2)
    <2>1. addresses[1 + 1] \in Address /\ 1 \in Nat /\ 1 + 1 = 2
      BY <1>2, <1>3
    <2>2. AreAddresses(one \o PushAddress(addresses[1 + 1], 1 + 1 # n + 2),
                       addresses, 1 + 1, n + 2)
      BY <1>4, <1>5, <2>1, OneMoreAddress
    <2>3. PushAddress(addresses[1 + 1], 1 + 1 # n + 2)
            = PushAddress(m.source, m.repeaters # <<>>)
      BY <1>3, <1>4, <2>1, Zenon
    <2> QED
      BY <2>1, <2>2, <2>3, Zenon
  <1>7. AreAddresses(more, m.repeaters, n, n)
    BY <1>2, PushAddressRepeatersType
  <1> DEFINE l == AddressLength
             e == AddressEnd(2)
             r == AddressEnd(n)
  <1>8. /\ l \in Nat /\ e \in Nat /\ r \in Nat
        /\ \A j \in Nat : AddressEnd(j) \in Nat /\ AddressEnd(j + 2) = e + AddressEnd(j)
        /\ \A i \in Nat, j \in Nat : i < j => AddressEnd(i) + l <= AddressEnd(j)
    <2>1. ASSUME NEW j \in Nat PROVE AddressEnd(j + 2) = e + AddressEnd(j)
      BY LengthsAssumption DEF AddressEnd, AddressLength
    <2> QED
      BY <2>1, AddressEnds
  <1>9. r = AddressEnd(n) /\ e = AddressEnd(2) /\ l = AddressLength /\ all = two \o more
    OBVIOUS
  <1>10. two \in Seq(Byte) /\ Len(two) = e /\ more \in Seq(Byte) /\ Len(more) = r
    BY <1>6, <1>7 DEF AreAddresses
  <1> HIDE DEF one, two, more, all, l, e, r
  <1>11. /\ all \in Seq(Byte) /\ Len(all) = e + r
         /\ \A i \in 1..e : all[i] = two[i]
         /\ \A i \in 1..r : all[e + i] = more[i]
    <2>1. all \in Seq(Byte) /\ AreJoined(all, two, e, more, r)
      BY <1>8, <1>9, <1>10, JoinedSequences, Zenon
    <2> QED
      BY <2>1 DEF AreJoined
  <1>12. ASSUME NEW j \in 1..(n + 2), NEW i \in 1..l
         PROVE  all[AddressEnd(j - 1) + i] = PushAddress(addresses[j], j # n + 2)[i]
    <2>1. CASE j <= 2
      <3>1. j \in 1..2 /\ j - 1 \in Nat /\ j - 1 < 2
        BY <2>1
      <3>2. AddressEnd(j - 1) \in Nat /\ AddressEnd(j - 1) + l <= e
        BY <1>8, <1>9, <3>1
      <3>3. AddressEnd(j - 1) + i \in 1..e
        <4> DEFINE x == AddressEnd(j - 1)
        <4>1. l \in Nat /\ e \in Nat /\ x \in Nat /\ x + l <= e
          BY <1>8, <3>2
        <4> HIDE DEF x
        <4>2. x + i \in 1..e
          BY <4>1
        <4> QED
          BY <4>2 DEF x
      <3>4. two[AddressEnd(j - 1) + i] = PushAddress(addresses[j], j # n + 2)[i]
        BY <1>6, <1>9, <3>1 DEF AreAddresses
      <3> QED
        BY <1>11, <3>3, <3>4
    <2>2. CASE j > 2
      <3> DEFINE k == j - 2
      <3>1. /\ k \in 1..n /\ j = k + 2 /\ k - 1 \in Nat /\ k - 1 < n
            /\ j - 1 = (k - 1) + 2
        BY <2>2
      <3> HIDE DEF k
      <3>2. /\ AddressEnd(k - 1) \in Nat /\ AddressEnd(k - 1) + l <= r
            /\ AddressEnd(j - 1) = e + AddressEnd(k - 1)
        BY <1>8, <1>9, <3>1
      <3>3. AddressEnd(k - 1) + i \in 1..r
            /\ AddressEnd(j - 1) + i = e + (AddressEnd(k - 1) + i)
        <4> DEFINE x == AddressEnd(k - 1)
                   y == AddressEnd(j - 1)
        <4>1. /\ l \in Nat /\ e \in Nat /\ r \in Nat /\ x \in Nat /\ x + l <= r
              /\ y = e + x
          BY <1>8, <3>2
        <4> HIDE DEF x, y
        <4>2. x + i \in 1..r /\ y + i = e + (x + i)
          BY <4>1
        <4> QED
          BY <4>2 DEF x, y
      <3>4. more[AddressEnd(k - 1) + i] = PushAddress(m.repeaters[k], k # n)[i]
        BY <1>7, <1>9, <3>1 DEF AreAddresses
      <3>5. addresses[j] = m.repeaters[k] /\ (k # n) = (j # n + 2)
        BY <1>3, <3>1
      <3>6. all[AddressEnd(j - 1) + i] = more[AddressEnd(k - 1) + i]
        BY <1>11, <3>3
      <3> QED
        BY <3>4, <3>5, <3>6, Zenon
    <2> QED
      BY <2>1, <2>2
  <1>13. Len(all) = AddressEnd(n + 2)
    BY <1>8, <1>9, <1>11
  <1>14. AreAddresses(all, addresses, n + 2, n + 2)
    BY <1>9, <1>11, <1>12, <1>13 DEF AreAddresses
  <1> QED
    BY <1>1, <1>14 DEF all, addresses

--------------------------------------------------------------------------------
(* The encoder: contents.                                                    *)

\* Where the information ends.
LEMMA InformationEnds ==
  ASSUME NEW text \in [1..InformationCapacity -> Byte]
  PROVE  /\ InformationLength(text) \in 0..InformationCapacity
         /\ \A i \in 1..InformationLength(text) : text[i] # Nul
  <1> DEFINE c == InformationCapacity
             Ends(n) == /\ \A i \in 1..n : text[i] # Nul
                        /\ n < c => text[n + 1] = Nul
             Good == {n \in Nat : n <= c =>
                        \/ \A i \in 1..n : text[i] # Nul
                        \/ \E k \in 0..c : Ends(k)}
  <1>0. c \in Nat
    BY LengthsAssumption
  <1>1. InformationLength(text) = CHOOSE n \in 0..c : Ends(n)
    BY DEF InformationLength
  <1> HIDE DEF c
  <1>2. 0 \in Good
    OBVIOUS
  <1>3. ASSUME NEW n \in Nat, n \in Good PROVE n + 1 \in Good
    <2> SUFFICES ASSUME n + 1 <= c, ~ \E k \in 0..c : Ends(k)
                 PROVE  \A i \in 1..(n + 1) : text[i] # Nul
      OBVIOUS
    <2>1. \A i \in 1..n : text[i] # Nul
      BY <1>0, <1>3
    <2>2. n \in 0..c /\ n < c
      BY <1>0
    <2>3. text[n + 1] # Nul
      BY <2>1, <2>2
    <2> QED
      BY <2>1, <2>3
  <1> HIDE DEF Good
  <1>4. \A n \in Nat : n \in Good
    BY <1>2, <1>3, NatSetInduction
  <1>5. \E k \in 0..c : Ends(k)
    <2>1. \/ \A i \in 1..c : text[i] # Nul
          \/ \E k \in 0..c : Ends(k)
      BY <1>0, <1>4 DEF Good
    <2>2. (\A i \in 1..c : text[i] # Nul) => Ends(c)
      BY <1>0
    <2>3. c \in 0..c
      BY <1>0
    <2> HIDE DEF Ends
    <2> QED
      BY <2>1, <2>2, <2>3
  <1> HIDE DEF Ends
  <1>6. InformationLength(text) \in 0..c /\ Ends(InformationLength(text))
    BY <1>1, <1>5
  <1> QED
    BY <1>6 DEF c, Ends

\* Bytes with those of a message of n repeaters up to the e-th, of which the
\* last a are addresses.
IsContent(bytes, m, n, a, e) ==
  /\ \A j \in 1..(n + 2), i \in 1..AddressLength :
       bytes[AddressEnd(j - 1) + i]
         = PushAddress(AddressesOf(m, n)[j], j # n + 2)[i]
  /\ bytes[a + 1] = m.control
  /\ IF FrameControlUsesInfo(m.control)
     THEN /\ e = a + 2 + InformationLength(m.information)
          /\ bytes[a + 2] = m.pid
          /\ \A i \in 1..InformationLength(m.information) :
               bytes[a + 2 + i] = m.information[i]
     ELSE e = a + 1

\* The bytes that the checksum is about.
LEMMA FrameContentLayout ==
  ASSUME NEW m \in Message, NEW n \in Nat, Len(m.repeaters) = n
  PROVE  /\ FrameContent(m) \in Seq(Byte)
         /\ IsContent(FrameContent(m), m, n, AddressEnd(n + 2), Len(FrameContent(m)))
  <1> DEFINE addresses == PushAddressField(m)
             control == <<m.control>>
             pid == PushPIDField(m)
             info == PushInfoField(m)
             one == addresses \o control
             two == one \o pid
             all == two \o info
             a == AddressEnd(n + 2)
             l == AddressLength
             has == FrameControlUsesInfo(m.control)
             k == InformationLength(m.information)
             p == IF has THEN 1 ELSE 0
             f == IF has THEN k ELSE 0
  <1>1. /\ m.control \in Byte /\ m.pid \in Byte
        /\ m.information \in [1..InformationCapacity -> Byte]
    BY DEF Message
  <1>2. AreAddresses(addresses, AddressesOf(m, n), n + 2, n + 2)
    BY PushAddressFieldLayout
  <1>3. /\ addresses \in Seq(Byte) /\ Len(addresses) = a
        /\ \A j \in 1..(n + 2), i \in 1..l :
             addresses[AddressEnd(j - 1) + i]
               = PushAddress(AddressesOf(m, n)[j], j # n + 2)[i]
    BY <1>2 DEF AreAddresses
  <1>4. control \in Seq(Byte) /\ Len(control) = 1 /\ control[1] = m.control
    BY <1>1
  <1>5. k \in Nat /\ k \in 0..InformationCapacity
    BY <1>1, InformationEnds, LengthsAssumption
  <1>6. pid \in Seq(Byte) /\ Len(pid) = p /\ (has => pid[1] = m.pid)
    BY <1>1 DEF PushPIDField, FrameControlUsesPID
  <1>7. /\ info \in Seq(Byte) /\ Len(info) = f
        /\ has => \A i \in 1..k : info[i] = m.information[i]
    <2>1. CASE has
      <3> DEFINE text == [i \in 1..k |-> m.information[i]]
      <3>1. info = text
        BY <2>1 DEF PushInfoField
      <3>2. \A i \in 1..k : m.information[i] \in Byte
        BY <1>1, <1>5, LengthsAssumption
      <3> HIDE DEF k
      <3>3. text \in Seq(Byte) /\ Len(text) = k /\ \A i \in 1..k : text[i] = m.information[i]
        BY <1>5, <3>2
      <3> HIDE DEF text
      <3> QED
        BY <2>1, <3>1, <3>3
    <2>2. CASE ~has
      BY <2>2 DEF PushInfoField
    <2> QED
      BY <2>1, <2>2
  <1>8. /\ a \in Nat /\ l \in Nat
        /\ \A j \in Nat : AddressEnd(j) \in Nat
        /\ \A i \in Nat, j \in Nat : i < j => AddressEnd(i) + l <= AddressEnd(j)
    <2>1. n + 2 \in Nat
      OBVIOUS
    <2> QED
      BY <2>1, AddressEnds
  <1>9. /\ p \in Nat /\ f \in Nat /\ has \in BOOLEAN /\ (has => p = 1 /\ f = k)
        /\ (~has => p = 0 /\ f = 0)
    BY <1>5 DEF FrameControlUsesInfo
  <1>10. /\ FrameContent(m) = all
         /\ addresses \o control = one /\ one \o pid = two /\ two \o info = all
         /\ AddressEnd(n + 2) = a
    BY DEF FrameContent
  <1> HIDE DEF addresses, control, pid, info, one, two, all, a, l, has, k, p, f
  <1>11. one \in Seq(Byte) /\ AreJoined(one, addresses, a, control, 1)
    <2>1. 1 \in Nat
      OBVIOUS
    <2> QED
      BY <1>3, <1>4, <1>8, <1>10, <2>1, JoinedSequences, Zenon
  <1>12. two \in Seq(Byte) /\ AreJoined(two, one, a + 1, pid, p)
    <2>1. a + 1 \in Nat /\ Len(one) = a + 1
      BY <1>8, <1>11 DEF AreJoined
    <2> QED
      BY <1>6, <1>9, <1>10, <1>11, <2>1, JoinedSequences, Zenon
  <1>13. all \in Seq(Byte) /\ AreJoined(all, two, a + 1 + p, info, f)
    <2>1. a + 1 + p \in Nat /\ Len(two) = a + 1 + p
      BY <1>8, <1>9, <1>12 DEF AreJoined
    <2> QED
      BY <1>7, <1>9, <1>10, <1>12, <2>1, JoinedSequences, Zenon
  <1>14. Len(all) = a + 1 + p + f
    BY <1>13 DEF AreJoined
  <1>15. \A i \in 1..a : all[i] = addresses[i]
    BY <1>8, <1>9, <1>11, <1>12, <1>13 DEF AreJoined
  <1>16. all[a + 1] = m.control
    <2>1. a \in Nat /\ p \in Nat
      BY <1>8, <1>9
    <2>2. a + 1 \in 1..(a + 1) /\ a + 1 \in 1..(a + 1 + p) /\ 1 \in 1..1
      BY <2>1
    <2>3. all[a + 1] = two[a + 1] /\ two[a + 1] = one[a + 1] /\ one[a + 1] = control[1]
      BY <1>11, <1>12, <1>13, <2>2 DEF AreJoined
    <2> QED
      BY <1>4, <2>3
  <1>17. has => all[a + 2] = m.pid
    <2> SUFFICES ASSUME has PROVE all[a + 2] = m.pid
      OBVIOUS
    <2>1. p = 1 /\ a + 2 = (a + 1) + 1 /\ a + 2 \in 1..(a + 1 + p) /\ 1 \in 1..p
      BY <1>8, <1>9
    <2>2. two[(a + 1) + 1] = pid[1]
      BY <1>12, <2>1 DEF AreJoined
    <2>3. all[a + 2] = two[a + 2]
      BY <1>13, <2>1 DEF AreJoined
    <2> QED
      BY <1>6, <2>1, <2>2, <2>3, Zenon
  <1>18. has => \A i \in 1..k : all[a + 2 + i] = m.information[i]
    <2> SUFFICES ASSUME has, NEW i \in 1..k PROVE all[a + 2 + i] = m.information[i]
      OBVIOUS
    <2>1. p = 1 /\ i \in 1..f /\ a + 2 + i = a + 1 + p + i
      BY <1>5, <1>8, <1>9
    <2>2. all[a + 1 + p + i] = info[i]
      BY <1>13, <2>1 DEF AreJoined
    <2>3. info[i] = m.information[i]
      BY <1>7
    <2> QED
      BY <2>1, <2>2, <2>3, Zenon
  <1>19. ASSUME NEW j \in 1..(n + 2), NEW i \in 1..l
         PROVE  all[AddressEnd(j - 1) + i]
                  = PushAddress(AddressesOf(m, n)[j], j # n + 2)[i]
    <2> DEFINE x == AddressEnd(j - 1)
    <2>1. j - 1 \in Nat /\ n + 2 \in Nat /\ j - 1 < n + 2
      OBVIOUS
    <2>2. x \in Nat /\ x + l <= a
      BY <1>8, <1>10, <2>1
    <2>3. l \in Nat /\ a \in Nat
      BY <1>8
    <2>4. addresses[x + i] = PushAddress(AddressesOf(m, n)[j], j # n + 2)[i]
      BY <1>3
    <2> HIDE DEF x
    <2>5. x + i \in 1..a
      BY <2>2, <2>3
    <2>6. all[x + i] = addresses[x + i]
      BY <1>15, <2>5
    <2> QED
      BY <2>4, <2>6, Zenon DEF x
  <1>20. IF has THEN Len(all) = a + 2 + k ELSE Len(all) = a + 1
    <2> DEFINE s == Len(all)
    <2>1. a \in Nat /\ k \in Nat /\ s = a + 1 + p + f
      BY <1>5, <1>8, <1>14
    <2> HIDE DEF s
    <2>2. p = 1 /\ f = k => s = a + 2 + k
      BY <2>1
    <2>3. p = 0 /\ f = 0 => s = a + 1
      BY <2>1
    <2> QED
      BY <1>9, <2>2, <2>3, Zenon DEF s
  <1>21. IF has
         THEN /\ Len(all) = a + 2 + k /\ all[a + 2] = m.pid
              /\ \A i \in 1..k : all[a + 2 + i] = m.information[i]
         ELSE Len(all) = a + 1
    BY <1>17, <1>18, <1>20, Zenon
  <1>22. IsContent(all, m, n, a, Len(all))
    BY <1>16, <1>19, <1>21, Zenon DEF IsContent, has, k, l
  <1> QED
    BY <1>10, <1>13, <1>22, Zenon

--------------------------------------------------------------------------------
(* The decoder reads what the encoder wrote.                                 *)

\* A part of bits, bit by bit.
LEMMA PartOfBits ==
  ASSUME NEW n \in Nat, NEW s \in Bits(n), NEW i \in 1..n, NEW j \in i..n,
         NEW t \in Bits(j - i + 1),
         \A k \in 1..(j - i + 1) : s[i + k - 1] = t[k]
  PROVE  SubSeq(s, i, j) = t
  <1> DEFINE c == j - i + 1
             u == SubSeq(s, i, j)
  <1>1. u \in Bits(c)
    BY Cut
  <1>2. ASSUME NEW k \in 1..c PROVE u[k] = t[k]
    <2>1. s \in Seq(Bit) /\ Len(s) = n
      BY BitsAreSequences
    <2>2. u[k] = s[i + k - 1]
      BY <2>1
    <2> QED
      BY <2>2
  <1>3. u = [k \in 1..c |-> u[k]] /\ t = [k \in 1..c |-> t[k]]
    BY <1>1 DEF Bits
  <1> QED
    BY <1>2, <1>3, Zenon

\* Whether the C or the H bit of an address is set, which share a place.
Bit8(a) == a.has_been_repeated \/ a.command_response_bit = 1

\* What the decoder reads of the bytes of an address.
LEMMA AddressIsRead ==
  ASSUME NEW a \in Address, NEW h \in BOOLEAN
  PROVE  /\ \A i \in 1..CallsignLength :
              SubSeq(PushAddress(a, h)[i], 2, 8) = a.callsign[i]
         /\ SubSeq(PushAddress(a, h)[AddressLength], 2, 5) = a.ssid
         /\ PushAddress(a, h)[AddressLength][8] = IF Bit8(a) THEN 1 ELSE 0
         /\ ExtensionBit(PushAddress(a, h)[AddressLength]) = IF h THEN 0 ELSE 1
  <1> DEFINE p == PushAddress(a, h)
             b == SSIDByte(a, h)
  <1>1. /\ \A i \in 1..CallsignLength : p[i] = <<0>> \o a.callsign[i]
        /\ p[AddressLength] = b
    BY PushAddressType
  <1>2. /\ b \in Byte /\ ExtensionBit(b) = IF h THEN 0 ELSE 1
        /\ \A i \in 1..4 : b[1 + i] = a.ssid[i]
        /\ b[8] = IF Bit8(a) THEN 1 ELSE 0
    BY SSIDByteType DEF Bit8
  <1> HIDE DEF p, b
  <1>3. ASSUME NEW i \in 1..CallsignLength PROVE SubSeq(p[i], 2, 8) = a.callsign[i]
    <2> DEFINE c == a.callsign[i]
               zero == <<0>>
               all == zero \o c
    <2>1. c \in Bits(7)
      BY ByteIsBits DEF Address
    <2>2. zero \in Bits(1) /\ 1 \in Nat /\ 7 \in Nat
      BY DEF Bits, Bit
    <2>3. all = zero \o c
      OBVIOUS
    <2>4. p[i] = all
      BY <1>1
    <2> HIDE DEF c, zero, all
    <2>5. all \in Bits(1 + 7) /\ AreJoined(all, zero, 1, c, 7)
      BY <2>1, <2>2, <2>3, Joined, JoinedBits, Zenon
    <2>6. all \in Bits(8)
      BY <2>5
    <2>7. \A k \in 1..(8 - 2 + 1) : all[2 + k - 1] = c[k]
      <3>1. \A k \in 1..7 : all[1 + k] = c[k]
        BY <2>5 DEF AreJoined
      <3>2. \A k \in 1..(8 - 2 + 1) : k \in 1..7 /\ 2 + k - 1 = 1 + k
        OBVIOUS
      <3> QED
        BY <3>1, <3>2
    <2>8. c \in Bits(8 - 2 + 1)
      BY <2>1
    <2>9. SubSeq(all, 2, 8) = c
      <3>1. 8 \in Nat /\ 2 \in 1..8 /\ 8 \in 2..8
        OBVIOUS
      <3> QED
        BY <2>6, <2>7, <2>8, <3>1, PartOfBits
    <2> QED
      BY <2>4, <2>9 DEF c
  <1>4. SubSeq(b, 2, 5) = a.ssid
    <2> DEFINE t == a.ssid
    <2>1. t \in Bits(4) /\ b \in Bits(8)
      BY <1>2, ByteIsBits DEF Address
    <2>2. \A i \in 1..4 : b[1 + i] = t[i]
      BY <1>2
    <2> HIDE DEF t
    <2>3. /\ \A k \in 1..(5 - 2 + 1) : k \in 1..4 /\ 2 + k - 1 = 1 + k
          /\ 8 \in Nat /\ 2 \in 1..8 /\ 5 \in 2..8
      OBVIOUS
    <2>4. \A k \in 1..(5 - 2 + 1) : b[2 + k - 1] = t[k]
      BY <2>2, <2>3
    <2>5. t \in Bits(5 - 2 + 1)
      BY <2>1
    <2>6. SubSeq(b, 2, 5) = t
      BY <2>1, <2>3, <2>4, <2>5, PartOfBits
    <2> QED
      BY <2>6 DEF t
  <1> QED
    BY <1>1, <1>2, <1>3, <1>4, Zenon DEF p

\* An address as it is received.
Received(a, is_repeater) ==
  [a EXCEPT !.command_response_bit = IF Bit8(a) THEN 1 ELSE 0,
            !.has_been_repeated = is_repeater /\ Bit8(a)]

LEMMA ReceivedType ==
  ASSUME NEW a \in Address, NEW r \in BOOLEAN
  PROVE  /\ Received(a, r) \in Address
         /\ Received(a, r) =
              [callsign |-> [i \in 1..CallsignLength |-> a.callsign[i]],
               ssid |-> a.ssid,
               command_response_bit |-> IF Bit8(a) THEN 1 ELSE 0,
               has_been_repeated |-> r /\ Bit8(a)]
  <1>1. Bit8(a) \in BOOLEAN
    BY DEF Bit8, Address
  <1>2. /\ a = [callsign |-> a.callsign, ssid |-> a.ssid,
                command_response_bit |-> a.command_response_bit,
                has_been_repeated |-> a.has_been_repeated]
        /\ a.callsign = [i \in 1..CallsignLength |-> a.callsign[i]]
        /\ a.callsign \in [1..CallsignLength -> Char] /\ a.ssid \in Nibble
    BY DEF Address
  <1>3. (IF Bit8(a) THEN 1 ELSE 0) \in Bit /\ (r /\ Bit8(a)) \in BOOLEAN
    BY <1>1 DEF Bit
  <1>4. Received(a, r) = [callsign |-> a.callsign, ssid |-> a.ssid,
                          command_response_bit |-> IF Bit8(a) THEN 1 ELSE 0,
                          has_been_repeated |-> r /\ Bit8(a)]
    <2> DEFINE c == IF Bit8(a) THEN 1 ELSE 0
               d == r /\ Bit8(a)
    <2>1. Received(a, r) = [a EXCEPT !.command_response_bit = c,
                                     !.has_been_repeated = d]
      BY DEF Received
    <2> HIDE DEF c, d
    <2>2. [a EXCEPT !.command_response_bit = c, !.has_been_repeated = d]
            = [callsign |-> a.callsign, ssid |-> a.ssid,
               command_response_bit |-> c, has_been_repeated |-> d]
      <3> DEFINE x == a.callsign
                 y == a.ssid
                 z == a.command_response_bit
                 w == a.has_been_repeated
                 b == [a EXCEPT !.command_response_bit = c]
      <3>1. a = [callsign |-> x, ssid |-> y, command_response_bit |-> z,
                 has_been_repeated |-> w]
        BY <1>2
      <3>2. [a EXCEPT !.command_response_bit = c, !.has_been_repeated = d]
              = [b EXCEPT !.has_been_repeated = d]
        OBVIOUS
      <3> HIDE DEF x, y, z, w
      <3>3. b = [callsign |-> x, ssid |-> y, command_response_bit |-> c,
                 has_been_repeated |-> w]
        BY <3>1
      <3> HIDE DEF b
      <3>4. [b EXCEPT !.has_been_repeated = d]
              = [callsign |-> x, ssid |-> y, command_response_bit |-> c,
                 has_been_repeated |-> d]
        BY <3>3
      <3> QED
        BY <3>2, <3>4, Zenon DEF x, y
    <2> QED
      BY <2>1, <2>2, Zenon DEF c, d
  <1>5. [callsign |-> a.callsign, ssid |-> a.ssid,
         command_response_bit |-> IF Bit8(a) THEN 1 ELSE 0,
         has_been_repeated |-> r /\ Bit8(a)] \in Address
    BY <1>2, <1>3, Zenon DEF Address
  <1> QED
    BY <1>2, <1>4, <1>5, Zenon

\* The decoder reads the address j that the encoder wrote.
LEMMA AddressAtIsReceived ==
  ASSUME NEW bytes, NEW a \in Address, NEW j \in Nat, j >= 1, NEW h \in BOOLEAN,
         \A i \in 1..AddressLength : bytes[AddressEnd(j - 1) + i] = PushAddress(a, h)[i]
  PROVE  /\ AddressAt(bytes, j) = Received(a, j > 2)
         /\ ExtensionBit(bytes[AddressEnd(j)]) = IF h THEN 0 ELSE 1
  <1> DEFINE p == PushAddress(a, h)
  <1>1. /\ \A i \in 1..CallsignLength : SubSeq(p[i], 2, 8) = a.callsign[i]
        /\ SubSeq(p[AddressLength], 2, 5) = a.ssid
        /\ p[AddressLength][8] = IF Bit8(a) THEN 1 ELSE 0
        /\ ExtensionBit(p[AddressLength]) = IF h THEN 0 ELSE 1
    BY AddressIsRead
  <1>2. /\ AddressLength \in Nat /\ AddressLength = CallsignLength + 1
        /\ CallsignLength \in Nat
        /\ AddressEnd(j - 1) \in Nat
        /\ AddressEnd(j) = AddressEnd(j - 1) + AddressLength
    <2>1. j - 1 \in Nat /\ (j - 1) + 1 = j
      OBVIOUS
    <2> QED
      BY <2>1, AddressEnds, LengthsAssumption
  <1>3. /\ AddressLength \in 1..AddressLength
        /\ \A i \in 1..CallsignLength : i \in 1..AddressLength
    BY <1>2
  <1>4. bytes[AddressEnd(j)] = p[AddressLength]
    BY <1>2, <1>3
  <1>5. \A i \in 1..CallsignLength : bytes[AddressEnd(j - 1) + i] = p[i]
    BY <1>3
  <1> HIDE DEF p
  <1>6. AddressAt(bytes, j) =
          [callsign |-> [i \in 1..CallsignLength |-> SubSeq(p[i], 2, 8)],
           ssid |-> SubSeq(p[AddressLength], 2, 5),
           command_response_bit |-> p[AddressLength][8],
           has_been_repeated |-> j > 2 /\ p[AddressLength][8] = 1]
    <2>1. [i \in 1..CallsignLength |-> SubSeq(bytes[AddressEnd(j - 1) + i], 2, 8)]
            = [i \in 1..CallsignLength |-> SubSeq(p[i], 2, 8)]
      BY <1>5, Zenon
    <2> QED
      BY <1>4, <2>1, Zenon DEF AddressAt
  <1>7. [i \in 1..CallsignLength |-> SubSeq(p[i], 2, 8)]
          = [i \in 1..CallsignLength |-> a.callsign[i]]
    BY <1>1, Zenon
  <1>8. (j > 2 /\ p[AddressLength][8] = 1) = (j > 2 /\ Bit8(a))
    BY <1>1
  <1>9. Received(a, j > 2) =
          [callsign |-> [i \in 1..CallsignLength |-> a.callsign[i]],
           ssid |-> a.ssid,
           command_response_bit |-> IF Bit8(a) THEN 1 ELSE 0,
           has_been_repeated |-> j > 2 /\ Bit8(a)]
    <2>1. (j > 2) \in BOOLEAN
      OBVIOUS
    <2> QED
      BY <2>1, ReceivedType, Zenon
  <1>10. AddressAt(bytes, j) = Received(a, j > 2)
    BY <1>1, <1>6, <1>7, <1>8, <1>9, Zenon
  <1> QED
    BY <1>1, <1>4, <1>10, Zenon

\* The fields of a message as it is received.
LEMMA AsReceivedByFields ==
  ASSUME NEW m \in Message, NEW n \in Nat, Len(m.repeaters) = n
  PROVE  /\ AsReceived(m) \in Message
         /\ AsReceived(m).destination = Received(m.destination, FALSE)
         /\ AsReceived(m).source = Received(m.source, FALSE)
         /\ Len(AsReceived(m).repeaters) = n
         /\ \A i \in 1..n :
              AsReceived(m).repeaters[i] = Received(m.repeaters[i], TRUE)
         /\ AsReceived(m).control = m.control
         /\ AsReceived(m).pid = IF FrameControlUsesInfo(m.control) THEN m.pid ELSE Nul
         /\ \A i \in 1..InformationCapacity :
              AsReceived(m).information[i] =
                IF /\ FrameControlUsesInfo(m.control)
                   /\ i <= InformationLength(m.information)
                THEN m.information[i] ELSE Nul
  <1> DEFINE destination == Received(m.destination, FALSE)
             source == Received(m.source, FALSE)
             Repeater(i) == Received(m.repeaters[i], TRUE)
             repeaters == [i \in 1..n |-> Repeater(i)]
             has == FrameControlUsesInfo(m.control)
             pid == IF has THEN m.pid ELSE Nul
             Character(i) == IF has /\ i <= InformationLength(m.information)
                             THEN m.information[i] ELSE Nul
             text == [i \in 1..InformationCapacity |-> Character(i)]
             r == [destination |-> destination, source |-> source,
                   repeaters |-> repeaters, control |-> m.control,
                   pid |-> pid, information |-> text]
  <1>1. AsReceived(m) = r
    BY DEF AsReceived, Received, Bit8
  <1>2. /\ m.destination \in Address /\ m.source \in Address
        /\ \A i \in 1..n : m.repeaters[i] \in Address
        /\ m.control \in Byte /\ m.pid \in Byte
        /\ m.information \in [1..InformationCapacity -> Byte]
    BY DEF Message
  <1>3. /\ destination \in Address /\ source \in Address
        /\ \A i \in 1..n : Repeater(i) \in Address
    BY <1>2, ReceivedType
  <1>4. Nul \in Byte
    BY DEF Nul, Byte, Bit
  <1>5. pid \in Byte /\ \A i \in 1..InformationCapacity : Character(i) \in Byte
    BY <1>2, <1>4
  <1> HIDE DEF destination, source, Repeater, has, pid, Character
  <1>6. repeaters \in Seq(Address) /\ Len(repeaters) = n
        /\ \A i \in 1..n : repeaters[i] = Repeater(i)
    BY <1>3
  <1>7. /\ text \in [1..InformationCapacity -> Byte]
        /\ \A i \in 1..InformationCapacity : text[i] = Character(i)
    BY <1>5
  <1> HIDE DEF repeaters, text
  <1>8. r \in Message
    BY <1>2, <1>3, <1>5, <1>6, <1>7 DEF Message
  <1>9. /\ r.destination = destination /\ r.source = source /\ r.repeaters = repeaters
        /\ r.control = m.control /\ r.pid = pid /\ r.information = text
    OBVIOUS
  <1> HIDE DEF r
  <1> QED
    BY <1>1, <1>6, <1>7, <1>8, <1>9, Zenon
       DEF destination, source, Repeater, has, pid, Character

\* What is sent: the content, and its checksum.
LEMMA EncodedBytes ==
  ASSUME NEW content \in Seq(Byte), NEW e \in Nat, Len(content) = e
  PROVE  /\ WithFCS(content) \in Seq(Byte) /\ Len(WithFCS(content)) = e + 2
         /\ \A i \in 1..e : WithFCS(content)[i] = content[i]
         /\ SubSeq(WithFCS(content), 1, e) = content
         /\ SubSeq(WithFCS(content), e + 1, e + 2) = FCSField(content)
  <1> DEFINE fcs == FCSField(content)
             all == content \o fcs
  <1>1. fcs \in Seq(Byte) /\ Len(fcs) = 2 /\ 2 \in Nat
    BY FCSFieldType
  <1>2. WithFCS(content) = all /\ all = content \o fcs
    BY DEF WithFCS
  <1> HIDE DEF fcs, all
  <1>3. all \in Seq(Byte) /\ AreJoined(all, content, e, fcs, 2)
    BY <1>1, <1>2, JoinedSequences, Zenon
  <1>4. /\ Len(all) = e + 2 /\ \A i \in 1..e : all[i] = content[i]
        /\ all[e + 1] = fcs[1] /\ all[e + 2] = fcs[2]
    <2>1. \A i \in 1..2 : all[e + i] = fcs[i]
      BY <1>3 DEF AreJoined
    <2> QED
      BY <1>3, <2>1 DEF AreJoined
  <1>5. SubSeq(all, 1, e) = content
    <2>1. /\ SubSeq(all, 1, e) \in Seq(Byte) /\ Len(SubSeq(all, 1, e)) = e
          /\ \A i \in 1..e : SubSeq(all, 1, e)[i] = all[i]
      BY <1>3, <1>4, SMT
    <2> DEFINE s == SubSeq(all, 1, e)
    <2> HIDE DEF s
    <2>2. s \in Seq(Byte) /\ Len(s) = Len(content) /\ \A i \in 1..Len(s) : s[i] = content[i]
      BY <1>4, <2>1 DEF s
    <2>3. s = content
      BY <2>2, SeqEqual
    <2> QED
      BY <2>3 DEF s
  <1>6. SubSeq(all, e + 1, e + 2) = fcs
    <2>1. e + 2 <= Len(all) /\ all \in Seq(Byte)
      BY <1>3, <1>4
    <2> QED
      BY <1>1, <1>4, <2>1, TwoBytes
  <1> QED
    BY <1>2, <1>3, <1>4, <1>5, <1>6, Zenon DEF fcs

\* The layout of an encoded message.
LEMMA EncodedLayout ==
  ASSUME NEW m \in Message, NEW n \in Nat, Len(m.repeaters) = n,
         NEW e, e = Len(FrameContent(m)), NEW a, a = AddressEnd(n + 2)
  PROVE  /\ Encode(m) \in Seq(Byte) /\ e \in Nat /\ a \in Nat
         /\ Len(Encode(m)) = e + 2
         /\ e >= a + 1
         /\ IsContent(Encode(m), m, n, a, e)
         /\ SubSeq(Encode(m), e + 1, e + 2) = FCSField(SubSeq(Encode(m), 1, e))
  <1> DEFINE content == FrameContent(m)
             bytes == Encode(m)
             has == FrameControlUsesInfo(m.control)
             k == InformationLength(m.information)
             l == AddressLength
  <1>1. content \in Seq(Byte) /\ IsContent(content, m, n, a, e)
    BY FrameContentLayout
  <1>2. e \in Nat /\ Len(content) = e
    BY <1>1, LenProperties
  <1>3. bytes = WithFCS(content)
    BY DEF Encode
  <1> HIDE DEF content, bytes
  <1>4. /\ bytes \in Seq(Byte) /\ Len(bytes) = e + 2
        /\ \A i \in 1..e : bytes[i] = content[i]
        /\ SubSeq(bytes, 1, e) = content
        /\ SubSeq(bytes, e + 1, e + 2) = FCSField(content)
    BY <1>1, <1>2, <1>3, EncodedBytes
  <1>5. k \in Nat
    BY InformationEnds, LengthsAssumption DEF Message
  <1>6. /\ a \in Nat /\ l \in Nat
        /\ \A j \in Nat : AddressEnd(j) \in Nat
        /\ \A i \in Nat, j \in Nat : i < j => AddressEnd(i) + l <= AddressEnd(j)
    <2>1. n + 2 \in Nat
      OBVIOUS
    <2> QED
      BY <2>1, AddressEnds
  <1>7. /\ content[a + 1] = m.control
        /\ IF has
           THEN /\ e = a + 2 + k /\ content[a + 2] = m.pid
                /\ \A i \in 1..k : content[a + 2 + i] = m.information[i]
           ELSE e = a + 1
        /\ \A j \in 1..(n + 2), i \in 1..l :
             content[AddressEnd(j - 1) + i]
               = PushAddress(AddressesOf(m, n)[j], j # n + 2)[i]
    BY <1>1 DEF IsContent
  <1> HIDE DEF has, k, l
  <1>8. e = a + 2 + k \/ e = a + 1
    BY <1>7
  <1>15. a \in Nat /\ e \in Nat
    BY <1>2, <1>6
  <1>9. e >= a + 1
    BY <1>5, <1>8, <1>15
  <1>10. bytes[a + 1] = m.control
    <2>1. a + 1 \in 1..e
      BY <1>9, <1>15
    <2> QED
      BY <1>4, <1>7, <2>1
  <1>11. has => /\ e = a + 2 + k /\ bytes[a + 2] = m.pid
                /\ \A i \in 1..k : bytes[a + 2 + i] = m.information[i]
    <2> SUFFICES ASSUME has
                 PROVE  /\ e = a + 2 + k /\ bytes[a + 2] = m.pid
                        /\ \A i \in 1..k : bytes[a + 2 + i] = m.information[i]
      OBVIOUS
    <2>1. e = a + 2 + k
      BY <1>7
    <2>2. a + 2 \in 1..e /\ \A i \in 1..k : a + 2 + i \in 1..e
      BY <1>5, <1>15, <2>1
    <2> QED
      BY <1>4, <1>7, <2>1, <2>2
  <1>12. ~has => e = a + 1
    BY <1>7
  <1>13. ASSUME NEW j \in 1..(n + 2), NEW i \in 1..l
         PROVE  bytes[AddressEnd(j - 1) + i]
                  = PushAddress(AddressesOf(m, n)[j], j # n + 2)[i]
    <2> DEFINE x == AddressEnd(j - 1)
    <2>1. j - 1 \in Nat /\ n + 2 \in Nat /\ j - 1 < n + 2
      OBVIOUS
    <2>2. x \in Nat /\ x + l <= a
      BY <1>6, <2>1
    <2>3. l \in Nat /\ a \in Nat /\ e \in Nat /\ e >= a + 1
      BY <1>2, <1>6, <1>9
    <2>4. content[x + i] = PushAddress(AddressesOf(m, n)[j], j # n + 2)[i]
      BY <1>7
    <2> HIDE DEF x
    <2>5. x + i \in 1..e
      BY <2>2, <2>3
    <2>6. bytes[x + i] = content[x + i]
      BY <1>4, <2>5
    <2> QED
      BY <2>4, <2>6, Zenon DEF x
  <1>14. IsContent(bytes, m, n, a, e)
    BY <1>10, <1>11, <1>12, <1>13, Zenon DEF IsContent, has, k, l
  <1> QED
    BY <1>2, <1>4, <1>6, <1>9, <1>14, Zenon DEF bytes

\* The addresses of an encoded message, as the decoder reads them.
LEMMA EncodedAddresses ==
  ASSUME NEW m \in Message, NEW n \in Nat, Len(m.repeaters) = n,
         NEW bytes, NEW a, NEW e, IsContent(bytes, m, n, a, e),
         NEW j \in 1..(n + 2)
  PROVE  /\ AddressAt(bytes, j) = Received(AddressesOf(m, n)[j], j > 2)
         /\ ExtensionBit(bytes[AddressEnd(j)]) = 1 <=> j = n + 2
  <1> DEFINE address_ == AddressesOf(m, n)[j]
             h == j # n + 2
  <1>1. address_ \in Address
    <2>1. /\ m.destination \in Address /\ m.source \in Address
          /\ \A i \in 1..n : m.repeaters[i] \in Address
      BY DEF Message
    <2>2. j > 2 => j - 2 \in 1..n
      OBVIOUS
    <2> QED
      BY <2>1, <2>2 DEF AddressesOf
  <1>2. h \in BOOLEAN /\ j \in Nat /\ j >= 1
    OBVIOUS
  <1>3. \A i \in 1..AddressLength :
          bytes[AddressEnd(j - 1) + i] = PushAddress(address_, h)[i]
    BY DEF IsContent
  <1> HIDE DEF address_, h
  <1>4. /\ AddressAt(bytes, j) = Received(address_, j > 2)
        /\ ExtensionBit(bytes[AddressEnd(j)]) = IF h THEN 0 ELSE 1
    BY <1>1, <1>2, <1>3, AddressAtIsReceived
  <1>5. ExtensionBit(bytes[AddressEnd(j)]) = 1 <=> ~h
    BY <1>2, <1>4
  <1> QED
    BY <1>4, <1>5, Zenon DEF address_, h

\* It is a frame with one layout.
LEMMA EncodedIsWellFormed ==
  ASSUME NEW m \in Message, NEW n \in Nat, Len(m.repeaters) = n,
         n <= MaxNumRepeaters,
         NEW e, e = Len(FrameContent(m))
  PROVE  /\ FrameMessage(Encode(m)) = {Parsed(Encode(m), n + 2, e)}
         /\ IsContent(Encode(m), m, n, AddressEnd(n + 2), e)
  <1> DEFINE bytes == Encode(m)
             a == AddressEnd(n + 2)
             has == FrameControlUsesInfo(m.control)
             k == InformationLength(m.information)
  <1>1. /\ bytes \in Seq(Byte) /\ e \in Nat /\ a \in Nat
        /\ Len(bytes) = e + 2 /\ e >= a + 1
        /\ IsContent(bytes, m, n, a, e)
        /\ SubSeq(bytes, e + 1, e + 2) = FCSField(SubSeq(bytes, 1, e))
    BY ZenonT(60), EncodedLayout
  <1>2. /\ bytes[a + 1] = m.control
        /\ IF has THEN e = a + 2 + k ELSE e = a + 1
    BY <1>1 DEF IsContent
  <1>3. \A j \in 2..(n + 2) : ExtensionBit(bytes[AddressEnd(j)]) = 1 <=> j = n + 2
    BY <1>1, EncodedAddresses
  <1>4. k \in 0..InformationCapacity /\ k \in Nat /\ InformationCapacity \in Nat
    BY InformationEnds, LengthsAssumption DEF Message
  <1>5. a = AddressEnd(n + 2) /\ a >= n + 2
    <2>1. n + 2 \in Nat
      OBVIOUS
    <2> QED
      BY <2>1, AddressEndsFarEnough
  <1>6. FrameControlUsesInfo(bytes[AddressEnd(n + 2) + 1]) <=> has
    BY <1>2, <1>5
  <1> HIDE DEF bytes, a, has, k
  <1>7. WellFormed(bytes, n + 2, e)
    <2>1. (n + 2) - 2 <= MaxNumRepeaters /\ e + 2 <= Len(bytes)
      BY <1>1, RepeatersAssumption
    <2>2. has => e + 2 = Len(bytes) /\ e - a - 2 \in 0..InformationCapacity
      <3> SUFFICES ASSUME has
                   PROVE  e + 2 = Len(bytes) /\ e - a - 2 \in 0..InformationCapacity
        OBVIOUS
      <3>1. e = a + 2 + k
        BY <1>2
      <3>2. e - a - 2 = k
        BY <1>1, <1>4, <3>1
      <3> QED
        BY <1>1, <1>4, <3>2
    <2>3. ~has => e = a + 1
      BY <1>2
    <2> QED
      BY <1>1, <1>3, <1>5, <1>6, <2>1, <2>2, <2>3, Zenon DEF WellFormed
  <1>8. ASSUME NEW i \in 2..Len(bytes), NEW d \in 1..Len(bytes),
               AddressEnd(i) < Len(bytes), WellFormed(bytes, i, d)
        PROVE  i = n + 2 /\ d = e
    <2>1. i \in Nat /\ i >= 2 /\ n + 2 \in Nat /\ n + 2 >= 2 /\ d \in Nat
      OBVIOUS
    <2>2. i = n + 2
      BY <1>3, <1>8, <2>1, LayoutEnds
    <2>3. IF has THEN d + 2 = Len(bytes) ELSE d = a + 1
      BY <1>5, <1>6, <1>8, <2>2, Zenon DEF WellFormed
    <2>4. CASE has
      <3>1. d + 2 = e + 2
        BY <1>1, <2>3, <2>4
      <3> QED
        BY <1>1, <2>1, <2>2, <3>1
    <2>5. CASE ~has
      BY <1>2, <2>2, <2>3, <2>5
    <2> QED
      BY <2>4, <2>5
  <1>9. /\ n + 2 \in 2..Len(bytes) /\ e \in 1..Len(bytes)
        /\ AddressEnd(n + 2) < Len(bytes)
    <2>1. /\ e \in Nat /\ a \in Nat /\ Len(bytes) = e + 2 /\ e >= a + 1 /\ a >= n + 2
      BY <1>1, <1>5
    <2> QED
      BY <1>5, <2>1
  <1>10. FrameMessage(bytes) = {Parsed(bytes, n + 2, e)}
    BY <1>1, <1>7, <1>8, <1>9, OneFrame
  <1> QED
    BY <1>1, <1>10, Zenon DEF bytes, a

\* What the layout says of an encoded message is the message as it is received.
LEMMA EncodedIsParsed ==
  ASSUME NEW m \in Message, NEW n \in Nat, Len(m.repeaters) = n,
         NEW e, NEW bytes, IsContent(bytes, m, n, AddressEnd(n + 2), e)
  PROVE  AsReceived(m) = Parsed(bytes, n + 2, e)
  <1> DEFINE r == AsReceived(m)
             a == AddressEnd(n + 2)
             has == FrameControlUsesInfo(m.control)
             k == InformationLength(m.information)
  <1>1. /\ r \in Message
        /\ r.destination = Received(m.destination, FALSE)
        /\ r.source = Received(m.source, FALSE)
        /\ Len(r.repeaters) = n
        /\ \A i \in 1..n : r.repeaters[i] = Received(m.repeaters[i], TRUE)
        /\ r.control = m.control
        /\ r.pid = IF has THEN m.pid ELSE Nul
        /\ \A i \in 1..InformationCapacity :
             r.information[i] = IF has /\ i <= k THEN m.information[i] ELSE Nul
    BY AsReceivedByFields
  <1>2. /\ bytes[a + 1] = m.control
        /\ IF has
           THEN /\ e = a + 2 + k /\ bytes[a + 2] = m.pid
                /\ \A i \in 1..k : bytes[a + 2 + i] = m.information[i]
           ELSE e = a + 1
    BY DEF IsContent
  <1>3. k \in Nat
    BY InformationEnds, LengthsAssumption DEF Message
  <1>4. a \in Nat /\ a = AddressEnd(n + 2)
    <2>1. n + 2 \in Nat
      OBVIOUS
    <2> QED
      BY <2>1, AddressEnds
  <1>5. /\ 1 \in 1..(n + 2) /\ 2 \in 1..(n + 2) /\ (1 > 2) = FALSE /\ (2 > 2) = FALSE
        /\ AddressesOf(m, n)[1] = m.destination /\ AddressesOf(m, n)[2] = m.source
    BY DEF AddressesOf
  <1>6. /\ AddressAt(bytes, 1) = Received(AddressesOf(m, n)[1], 1 > 2)
        /\ AddressAt(bytes, 2) = Received(AddressesOf(m, n)[2], 2 > 2)
    BY <1>5, EncodedAddresses
  <1>7. r.destination = AddressAt(bytes, 1) /\ r.source = AddressAt(bytes, 2)
    BY <1>1, <1>5, <1>6, Zenon
  <1>8. ASSUME NEW i \in 1..((n + 2) - 2)
        PROVE  r.repeaters[i] = AddressAt(bytes, i + 2)
    <2>1. /\ i \in 1..n /\ i + 2 \in 1..(n + 2) /\ (i + 2 > 2) = TRUE
          /\ i + 2 # 1 /\ i + 2 # 2 /\ (i + 2) - 2 = i
      OBVIOUS
    <2>2. AddressesOf(m, n)[i + 2] = m.repeaters[i]
      BY <2>1 DEF AddressesOf
    <2>3. AddressAt(bytes, i + 2) = Received(AddressesOf(m, n)[i + 2], i + 2 > 2)
      BY <2>1, EncodedAddresses
    <2> HIDE DEF r
    <2> QED
      BY <1>1, <2>1, <2>2, <2>3, Zenon
  <1> HIDE DEF r, a, has, k
  <1>9. r.control = bytes[a + 1] /\ (FrameControlUsesInfo(r.control) <=> has)
    BY <1>1, <1>2 DEF has
  <1>10. r.pid = IF has THEN bytes[a + 2] ELSE Nul
    BY <1>1, <1>2, Zenon
  <1>11. ASSUME NEW i \in 1..InformationCapacity
         PROVE  r.information[i] = IF has /\ a + 2 + i <= e THEN bytes[a + 2 + i]
                                   ELSE Nul
    <2>1. r.information[i] = IF has /\ i <= k THEN m.information[i] ELSE Nul
      BY <1>1
    <2>2. CASE has
      <3>1. e = a + 2 + k
        BY <1>2, <2>2
      <3>2. a \in Nat /\ k \in Nat /\ i \in Nat /\ i >= 1
        BY <1>3, <1>4
      <3>3. i <= k <=> a + 2 + i <= e
        BY <3>1, <3>2
      <3>4. i <= k => i \in 1..k
        BY <3>2
      <3>5. i <= k => bytes[a + 2 + i] = m.information[i]
        BY <1>2, <2>2, <3>4
      <3> QED
        BY <2>1, <2>2, <3>3, <3>5, Zenon
    <2>3. CASE ~has
      BY <2>1, <2>3
    <2> QED
      BY <2>2, <2>3
  <1>12. n + 2 \in Nat \ {0, 1} /\ Len(r.repeaters) = (n + 2) - 2
    BY <1>1
  <1>13. /\ r.pid = IF FrameControlUsesInfo(r.control) THEN bytes[AddressEnd(n + 2) + 2]
                    ELSE Nul
         /\ r.control = bytes[AddressEnd(n + 2) + 1]
         /\ \A i \in 1..InformationCapacity :
              r.information[i] =
                IF FrameControlUsesInfo(r.control) /\ AddressEnd(n + 2) + 2 + i <= e
                THEN bytes[AddressEnd(n + 2) + 2 + i] ELSE Nul
    BY <1>4, <1>9, <1>10, <1>11, Zenon
  <1>14. r = Parsed(bytes, n + 2, e)
    BY <1>1, <1>7, <1>8, <1>12, <1>13, ParsedByFields
  <1> QED
    BY <1>14 DEF r

\* The frame of a message is read as the message.
LEMMA EncodedFrameIsRead ==
  ASSUME NEW m \in Message, Len(m.repeaters) <= MaxNumRepeaters
  PROVE  Encode(m) \in Seq(Byte) /\ FrameMessage(Encode(m)) = {AsReceived(m)}
  <1>1. PICK n \in Nat : n = Len(m.repeaters)
    BY LenProperties DEF Message
  <1>2. Len(m.repeaters) = n /\ n <= MaxNumRepeaters
    BY <1>1
  <1>3. Encode(m) \in Seq(Byte)
    BY <1>2, EncodedLayout
  <1>4. PICK e : e = Len(FrameContent(m))
    OBVIOUS
  <1>5. /\ FrameMessage(Encode(m)) = {Parsed(Encode(m), n + 2, e)}
        /\ IsContent(Encode(m), m, n, AddressEnd(n + 2), e)
    BY <1>2, <1>4, EncodedIsWellFormed
  <1>6. AsReceived(m) = Parsed(Encode(m), n + 2, e)
    BY <1>2, <1>5, EncodedIsParsed
  <1> QED
    BY <1>3, <1>5, <1>6, Zenon

--------------------------------------------------------------------------------
(* The calls of the decoder.                                                 *)

LEMMA ReceptionInitInv ==
  ASSUME ReceptionInit
  PROVE  ReceptionInv /\ ReturnsTheMessage
  <1>1. DecoderInv
    BY DecoderInitInv DEF ReceptionInit
  <1>2. decoded = <<>> /\ seen = <<>> /\ before = 0
    BY DEF ReceptionInit
  <1>3. ReceptionTypeOK
    BY <1>2 DEF ReceptionTypeOK
  <1>4. is_reset => IsAfterReset
    BY DEF ReceptionInit, DecoderInit, IsAfterReset
  <1>5. ReturnsTheMessage
    <2>1. <<>> \in Seq(Byte) /\ Len(<<>>) = 0
      OBVIOUS
    <2>2. FrameMessage(<<>>) = {}
      <3>1. 2..Len(<<>>) = {}
        BY <2>1
      <3> QED
        BY <2>1, <3>1, NoFrame, Zenon
    <2>3. <<>> \in Seq(Message)
      OBVIOUS
    <2>4. AsTheLayoutSays(<<>>, Len(<<>>), <<>>)
      BY <2>2, <2>3, NothingDelivered
    <2> QED
      BY <1>2, <2>1, <2>4, Zenon DEF AsTheLayoutSays, ReturnsTheMessage
  <1> QED
    BY <1>1, <1>3, <1>4, <1>5 DEF ReceptionInv

\* While nobody calls the decoder it stays where it is.
LEMMA ReceptionRests ==
  ASSUME ReceptionInv, UNCHANGED <<decoderVars, decoded, seen, before>>
  PROVE  /\ ReceptionInv'
         /\ FollowsTheBytes => FollowsTheBytes'
         /\ ReturnsTheMessage => ReturnsTheMessage'
  <1>1. /\ is_reset' = is_reset /\ field_state' = field_state
        /\ num_received_bytes' = num_received_bytes /\ address' = address
        /\ information_data' = information_data
        /\ information_length' = information_length
        /\ fcs_field_data' = fcs_field_data /\ message' = message
        /\ actual_frame_fcs' = actual_frame_fcs /\ fcs_data' = fcs_data
    BY DEF decoderVars, addressing, information, checksum
  <1>2. DecoderInv'
    BY StutterKeepsInv DEF ReceptionInv
  <1>3. ReceptionInv'
    <2>1. (is_reset => IsAfterReset)'
      BY <1>1 DEF ReceptionInv, IsAfterReset
    <2>2. ReceptionTypeOK'
      BY DEF ReceptionInv, ReceptionTypeOK
    <2> QED
      BY <1>2, <2>1, <2>2 DEF ReceptionInv
  <1>4. ASSUME seen' = seen, decoded' = decoded, before' = before,
               FollowsTheBytes
        PROVE  FollowsTheBytes'
    <2>1. ChecksumCovers => ChecksumCovers'
      BY <1>1, <1>4, Zenon DEF ChecksumCovers
    <2>2. InHeader => InHeader'
      BY <1>1, <1>4, Zenon DEF InHeader, InAddress, HasAddresses, TooManyRepeaters
    <2>3. HasNoInformation => HasNoInformation'
      BY <1>1 DEF HasNoInformation
    <2>4. ASSUME NEW n, BehindHeader(n)
          PROVE  BehindHeader(n)'
      <3>1. AddressesEndAt(n) => AddressesEndAt(n)'
        BY <1>4, <1>1, Zenon DEF AddressesEndAt, HasAddresses
      <3>2. HasControl(n) => HasControl(n)'
        BY <1>4, <1>1, Zenon DEF HasControl
      <3>3. InInformation(n) => InInformation(n)'
        BY <1>4, <1>1, Zenon DEF InInformation, InformationDropped
      <3>4. IsJudged(n) => IsJudged(n)'
        BY <1>4, <1>1, Zenon DEF IsJudged
      <3> QED
        BY <1>1, <1>4, <2>3, <2>4, <3>1, <3>2, <3>3, <3>4, Zenon DEF BehindHeader
    <2>5. \/ InHeader' /\ HasNoInformation'
          \/ \E n \in 2..(MaxNumRepeaters + 2) : BehindHeader(n)'
      BY <1>4, <2>2, <2>3, <2>4, Zenon DEF FollowsTheBytes
    <2> QED
      BY <1>1, <1>4, <2>1, <2>5, Zenon DEF FollowsTheBytes
  <1>5. ReturnsTheMessage => ReturnsTheMessage'
    BY DEF ReturnsTheMessage
  <1> QED
    BY <1>3, <1>4, <1>5

\* The begin of a frame: the decoder has seen none of its bytes.
LEMMA BeginReceived ==
  ASSUME ReceptionInv, ReceiveBegin
  PROVE  ReceptionInv' /\ FollowsTheBytes'
  <1>1. /\ MarkBegin /\ seen' = <<>>
        /\ before' = Len(decoded) /\ decoded' = decoded
    BY DEF ReceiveBegin
  <1>2. DecoderInv'
    BY <1>1, MarkBeginKeepsInv DEF ReceptionInv
  <1>3. IsAfterReset'
    <2>1. CASE is_reset
      BY <1>1, <2>1 DEF ReceptionInv, IsAfterReset, MarkBegin, ResetIfNeeded,
                        addressing, information, checksum
    <2>2. CASE ~is_reset
      BY <1>1, <2>2 DEF IsAfterReset, MarkBegin, ResetIfNeeded
    <2> QED
      BY <2>1, <2>2
  <1>4. decoded \in Seq(Message)
    BY DEF ReceptionInv, ReceptionTypeOK
  <1>5. ReceptionTypeOK'
    <2>1. <<>> \in Seq(Byte) /\ Len(decoded) \in 0..Len(decoded)
      BY <1>4, LenProperties
    <2> QED
      BY <1>1, <1>4, <2>1 DEF ReceptionTypeOK
  <1>6. FollowsTheBytes'
    <2>1. /\ field_state' = "destination" /\ num_received_bytes' = 0
          /\ fcs_data' = <<>> /\ actual_frame_fcs' = InitCRC
          /\ information_length' = 0 /\ message' = EmptyMessage
      BY <1>3 DEF IsAfterReset
    <2>2. /\ <<>> \in Seq(Byte) /\ Len(<<>>) = 0 /\ SubSeq(<<>>, 1, 0) = <<>>
          /\ 0 - 0 = 0 /\ 0 \in Nat /\ 1..0 = {} /\ ~(0 > 0) /\ 0 + 0 = 0
          /\ 2..0 = {} /\ ~(0 >= 1) /\ ~(0 >= 2)
      OBVIOUS
    <2>3. ChecksumCovers'
      BY <2>1, <2>2, <1>1, CRCByteByByte, Zenon DEF ChecksumCovers
    <2>4. AddressEnd(0) = 0
      BY AddressEnds
    <2>5. /\ EmptyMessage.repeaters = <<>> /\ EmptyMessage.pid = Nul
          /\ EmptyMessage.information = EmptyInformation
      BY DEF EmptyMessage
    <2>6. HasAddresses(0)'
      BY <2>1, <2>2, <2>5, Zenon DEF HasAddresses
    <2>7. InAddress(0)'
      BY <1>1, <2>1, <2>2, <2>4, <2>6, Zenon DEF InAddress
    <2>8. InHeader' /\ HasNoInformation'
      BY <2>1, <2>5, <2>7 DEF InHeader, HasNoInformation
    <2> QED
      BY <1>1, <2>3, <2>8 DEF FollowsTheBytes
  <1> QED
    BY <1>2, <1>3, <1>5, <1>6 DEF ReceptionInv

\* What the decoder returns are messages.
LEMMA TakenType ==
  ASSUME DecoderInv', ReceptionTypeOK, TakeResult
  PROVE  /\ decoded' \in Seq(Message)
         /\ before \in 0..Len(decoded')
         /\ before \in Nat
  <1>1. message' \in Message
    BY DEF DecoderInv, DecoderTypeOK
  <1>2. decoded \in Seq(Message) /\ before \in 0..Len(decoded)
    BY DEF ReceptionTypeOK
  <1>3. CASE outcome' = "message"
    <2>1. decoded' = Append(decoded, message')
      BY <1>3 DEF TakeResult
    <2>2. decoded' \in Seq(Message) /\ Len(decoded') = Len(decoded) + 1
      BY <1>1, <1>2, <2>1, AppendProperties
    <2> QED
      BY <1>2, <2>2, LenProperties
  <1>4. CASE outcome' # "message"
    BY <1>2, <1>4 DEF TakeResult
  <1> QED
    BY <1>3, <1>4

\* A byte that is decoded.
LEMMA ByteReceived ==
  ASSUME ReceptionInv, FollowsTheBytes, NEW byte \in Byte, ReceiveByte(byte)
  PROVE  ReceptionInv' /\ FollowsTheBytes'
  <1>1. /\ ProcessByte(byte) /\ TakeResult /\ seen' = Append(seen, byte)
        /\ before' = before
    BY DEF ReceiveByte
  <1>2. /\ DecoderInv /\ ReceptionTypeOK
        /\ seen \in Seq(Byte) /\ decoded \in Seq(Message)
    BY DEF ReceptionInv, ReceptionTypeOK
  <1>3. DecoderInv'
    BY <1>1, <1>2, DecoderStep DEF DecoderNext
  <1>4. decoded' \in Seq(Message) /\ before \in 0..Len(decoded') /\ before \in Nat
    BY <1>1, <1>2, <1>3, TakenType
  <1>5. FollowsTheBytes'
    BY <1>1, <1>2, <1>3, <1>4, ByteFollows
  <1>6. ReceptionTypeOK'
    <2>1. Append(seen, byte) \in Seq(Byte)
      BY <1>2, AppendProperties
    <2> QED
      BY <1>1, <1>4, <2>1 DEF ReceptionTypeOK
  <1>7. is_reset' = FALSE
    BY <1>1 DEF ProcessByte
  <1> QED
    BY <1>3, <1>5, <1>6, <1>7 DEF ReceptionInv

\* An end: what was returned is what the layout of all of the bytes says.
LEMMA EndReceived ==
  ASSUME ReceptionInv, FollowsTheBytes, ReceiveEnd
  PROVE  ReceptionInv' /\ ReturnsTheMessage'
  <1>1. MarkEnd /\ TakeResult /\ seen' = seen /\ before' = before
    BY DEF ReceiveEnd
  <1>2. /\ DecoderInv /\ ReceptionTypeOK
        /\ seen \in Seq(Byte) /\ decoded \in Seq(Message)
    BY DEF ReceptionInv, ReceptionTypeOK
  <1>3. DecoderInv'
    BY <1>1, <1>2, DecoderStep DEF DecoderNext
  <1>4. decoded' \in Seq(Message) /\ before \in 0..Len(decoded') /\ before \in Nat
    BY <1>1, <1>2, <1>3, TakenType
  <1>5. AsTheLayoutSays(decoded', before, seen)
    BY <1>1, <1>2, <1>3, <1>4, EndFollows
  <1>6. ReturnsTheMessage'
    BY <1>1, <1>5, Zenon DEF ReturnsTheMessage, AsTheLayoutSays
  <1>7. ReceptionTypeOK'
    BY <1>1, <1>2, <1>4 DEF ReceptionTypeOK
  <1>8. is_reset' = is_reset
    BY <1>1 DEF MarkEnd, FlushInformationBytes
  <1>9. is_reset => IsAfterReset'
    <2> SUFFICES ASSUME is_reset PROVE IsAfterReset'
      OBVIOUS
    <2>1. IsAfterReset
      BY DEF ReceptionInv
    <2>2. UNCHANGED <<field_state, addressing, information, checksum, message>>
      BY <1>1, <2>1 DEF MarkEnd, FlushInformationBytes, IsAfterReset
    <2> QED
      BY <2>1, <2>2 DEF IsAfterReset, addressing, information, checksum
  <1> QED
    BY <1>3, <1>6, <1>7, <1>8, <1>9 DEF ReceptionInv

\* The end of the frame of a message: the message is returned, by it or before.
LEMMA MessageReceived ==
  ASSUME ReceptionInv, FollowsTheBytes, ReceiveEnd, Len(decoded) = before,
         NEW m \in Messages, seen = Encode(m)
  PROVE  owed' = {}
  <1> SUFFICES ASSUME owed' # {} PROVE FALSE
    OBVIOUS
  <1>1. TakeResult /\ seen' = seen /\ before' = before
    BY DEF ReceiveEnd
  <1>2. decoded' = decoded
    BY <1>1 DEF TakeResult
  <1>3. FrameMessage(seen) = {decoded[i] : i \in before + 1 .. Len(decoded)}
    <2>1. ReturnsTheMessage'
      BY EndReceived
    <2>2. FrameMessage(seen') = {decoded'[i] : i \in before' + 1 .. Len(decoded')}
      BY <2>1, Zenon DEF ReturnsTheMessage
    <2> QED
      BY <1>1, <1>2, <2>2, Zenon
  <1>4. FrameMessage(seen) = {AsReceived(m)}
    <2>1. m \in Message /\ Len(m.repeaters) <= MaxNumRepeaters
      BY MessagesAssumption
    <2> QED
      BY <2>1, EncodedFrameIsRead
  <1>5. before + 1 .. Len(decoded) = {}
    <2>1. before \in 0..Len(decoded)
      BY DEF ReceptionInv, ReceptionTypeOK
    <2> QED
      BY <2>1
  <1>6. FrameMessage(seen) = {}
    BY <1>3, <1>5
  <1> QED
    BY <1>4, <1>6

--------------------------------------------------------------------------------
(* The steps of the link.                                                    *)

LEMMA LinkInitInv == LinkInit => LinkInv
  <1> SUFFICES ASSUME LinkInit PROVE LinkInv
    OBVIOUS
  <1>1. ReceptionInv /\ ReturnsTheMessage
    BY ReceptionInitInv DEF LinkInit
  <1>2. LinkTypeOK /\ arriving = "idle" /\ intact = FALSE
    BY DEF LinkInit, LinkTypeOK
  <1> QED
    BY <1>1, <1>2 DEF LinkInv, DecodesTheFrame, CleanFrameOnItsWay

\* The sequences that the messages between sender and decoder are.
LEMMA FirstAndRest ==
  ASSUME NEW s \in Seq(Byte), s # <<>>
  PROVE  Head(s) \in Byte /\ Tail(s) \in Seq(Byte)
  BY HeadTailProperties

\* A transmission leaves the decoder alone.
LEMMA TransmitKeepsInv ==
  ASSUME LinkInv, NEW bytes \in Seq(Byte), NEW messages, Transmit(bytes, messages),
         \/ messages = {}
         \/ \E m \in Messages : bytes = Encode(m)
  PROVE  LinkInv'
  <1>1. /\ arriving = "idle" /\ arriving' = "begin" /\ channel' = bytes
        /\ owed' = messages
        /\ UNCHANGED <<decoderVars, decoded, seen, before>>
    BY DEF Transmit
  <1>2. ReceptionInv' /\ (ReturnsTheMessage => ReturnsTheMessage')
    BY <1>1, ReceptionRests DEF LinkInv
  <1>3. LinkTypeOK'
    BY <1>1 DEF LinkTypeOK
  <1>4. DecodesTheFrame'
    BY <1>1, <1>2 DEF LinkInv, DecodesTheFrame
  <1>5. CleanFrameOnItsWay'
    BY <1>1 DEF CleanFrameOnItsWay
  <1> QED
    BY <1>1, <1>2, <1>3, <1>4, <1>5 DEF LinkInv

LEMMA ArriveBeginKeepsInv ==
  ASSUME LinkInv, ArriveBegin
  PROVE  LinkInv'
  <1>1. /\ ReceiveBegin /\ arriving = "begin" /\ arriving' = "data"
        /\ channel' = channel /\ intact' = intact
    BY DEF ArriveBegin
  <1>2. ReceptionInv' /\ FollowsTheBytes'
    BY <1>1, BeginReceived DEF LinkInv
  <1>3. /\ seen' = <<>> /\ before' = Len(decoded)
        /\ owed' = owed /\ decoded' = decoded
    BY <1>1 DEF ReceiveBegin
  <1>4. channel \in Seq(Byte)
    BY DEF LinkInv, LinkTypeOK
  <1>5. LinkTypeOK'
    BY <1>1, <1>4 DEF LinkTypeOK
  <1>6. CleanFrameOnItsWay'
    <2> SUFFICES ASSUME intact', owed' # {}
                 PROVE  \E m \in Messages :
                          /\ arriving' = "data" /\ seen' \o channel' = Encode(m)
                          /\ Len(decoded') = before'
      BY DEF CleanFrameOnItsWay
    <2>1. PICK m \in Messages : channel = Encode(m)
      BY <1>1, <1>3 DEF LinkInv, CleanFrameOnItsWay
    <2>2. seen' \o channel' = channel
      BY <1>1, <1>3, <1>4, ConcatEmptySeq
    <2> QED
      BY <1>1, <1>3, <2>1, <2>2
  <1> QED
    BY <1>1, <1>2, <1>5, <1>6 DEF LinkInv, DecodesTheFrame

\* A sequence of bytes of which the first one moves to the end of another.
LEMMA HeadMoves ==
  ASSUME NEW s \in Seq(Byte), NEW t \in Seq(Byte), t # <<>>
  PROVE  Append(s, Head(t)) \o Tail(t) = s \o t
  <1> DEFINE byte == Head(t)
             rest == Tail(t)
             one == <<byte>>
  <1>1. byte \in Byte /\ rest \in Seq(Byte)
    BY FirstAndRest
  <1>2. t = one \o rest
    BY HeadTailProperties
  <1>3. one \in Seq(Byte)
    BY <1>1
  <1>4. Append(s, byte) = s \o one
    BY <1>1, AppendIsConcat
  <1> HIDE DEF byte, rest, one
  <1>5. (s \o one) \o rest = s \o (one \o rest)
    BY <1>1, <1>3, ConcatAssociative
  <1>6. Append(s, byte) \o rest = s \o t
    BY <1>2, <1>4, <1>5, Zenon
  <1> QED
    BY <1>6 DEF byte, rest

LEMMA ArriveByteKeepsInv ==
  ASSUME LinkInv, ArriveByte
  PROVE  LinkInv'
  <1> DEFINE byte == Head(channel)
  <1>1. /\ arriving = "data" /\ arriving' = arriving /\ channel # <<>>
        /\ ReceiveByte(byte) /\ intact' = intact /\ channel' = Tail(channel)
    BY DEF ArriveByte
  <1>2. /\ ReceptionInv /\ FollowsTheBytes
        /\ channel \in Seq(Byte) /\ seen \in Seq(Byte)
    BY <1>1 DEF LinkInv, LinkTypeOK, ReceptionInv, ReceptionTypeOK
  <1>3. byte \in Byte /\ Tail(channel) \in Seq(Byte)
    BY <1>1, <1>2, FirstAndRest
  <1>4. Append(seen, byte) \o Tail(channel) = seen \o channel
    BY <1>1, <1>2, HeadMoves
  <1> HIDE DEF byte
  <1>5. ReceptionInv' /\ FollowsTheBytes'
    BY <1>1, <1>2, <1>3, ByteReceived
  <1>6. LinkTypeOK'
    BY <1>1, <1>3 DEF LinkTypeOK
  <1>7. TakeResult /\ seen' = Append(seen, byte) /\ before' = before
    BY <1>1 DEF ReceiveByte
  <1>8. CleanFrameOnItsWay'
    <2> SUFFICES ASSUME intact', owed' # {}
                 PROVE  \E m \in Messages :
                          /\ arriving' = "data" /\ seen' \o channel' = Encode(m)
                          /\ Len(decoded') = before'
      BY DEF CleanFrameOnItsWay
    <2>1. decoded' = decoded /\ owed' = owed
      BY <1>7 DEF TakeResult
    <2>2. PICK m \in Messages : /\ seen \o channel = Encode(m)
                                /\ Len(decoded) = before
      BY <1>1, <2>1 DEF LinkInv, CleanFrameOnItsWay
    <2>3. seen' \o channel' = seen \o channel
      BY <1>1, <1>4, <1>7
    <2> QED
      BY <1>1, <1>7, <2>1, <2>2, <2>3
  <1> QED
    BY <1>1, <1>5, <1>6, <1>8 DEF LinkInv, DecodesTheFrame

\* The end of a frame that nothing disturbed delivers its message.
LEMMA ArriveEndKeepsInv ==
  ASSUME LinkInv, ArriveEnd
  PROVE  LinkInv'
  <1>1. /\ arriving = "data" /\ channel = <<>> /\ ReceiveEnd
        /\ arriving' = "idle" /\ channel' = channel /\ intact' = intact
    BY DEF ArriveEnd
  <1>2. ReceptionInv /\ FollowsTheBytes
    BY <1>1 DEF LinkInv
  <1>3. ReceptionInv' /\ ReturnsTheMessage'
    BY <1>1, <1>2, EndReceived
  <1>4. LinkTypeOK'
    BY <1>1 DEF LinkTypeOK
  <1>5. ASSUME intact', owed' # {} PROVE FALSE
    <2>1. owed' = owed
      BY <1>1, <1>5 DEF ReceiveEnd, TakeResult
    <2>2. PICK m \in Messages : /\ seen \o channel = Encode(m)
                                /\ Len(decoded) = before
      BY <1>1, <1>5, <2>1 DEF LinkInv, CleanFrameOnItsWay
    <2>3. seen \in Seq(Byte)
      BY <1>2 DEF ReceptionInv, ReceptionTypeOK
    <2>4. seen \o <<>> = seen
      BY <2>3, ConcatEmptySeq
    <2>5. seen = Encode(m)
      BY <1>1, <2>2, <2>4, Zenon
    <2> QED
      BY <1>1, <1>2, <1>5, <2>2, <2>5, MessageReceived
  <1>6. CleanFrameOnItsWay'
    BY <1>5 DEF CleanFrameOnItsWay
  <1> QED
    BY <1>1, <1>3, <1>4, <1>6 DEF LinkInv, DecodesTheFrame

\* A frame that is split.
LEMMA SplitKeepsInv ==
  ASSUME LinkInv, Split
  PROVE  LinkInv'
  <1>1. /\ arriving = "data" /\ ReceiveEnd
        /\ arriving' = "begin" /\ channel' = channel /\ intact' = FALSE
    BY DEF Split, DisturbFrame
  <1>2. ReceptionInv' /\ ReturnsTheMessage'
    BY <1>1, EndReceived DEF LinkInv
  <1>3. LinkTypeOK'
    BY <1>1 DEF LinkInv, LinkTypeOK
  <1> QED
    BY <1>1, <1>2, <1>3 DEF LinkInv, DecodesTheFrame, CleanFrameOnItsWay

\* Other bytes arrive than those that were sent.
LEMMA OtherBytesKeepInv ==
  ASSUME LinkInv, arriving = "data", arriving' = arriving, intact' = FALSE,
         UNCHANGED receptionVars, channel' \in Seq(Byte)
  PROVE  LinkInv'
  <1>1. ReceptionInv' /\ FollowsTheBytes'
    BY ReceptionRests DEF LinkInv, receptionVars
  <1>2. LinkTypeOK'
    BY DEF LinkTypeOK
  <1>3. DecodesTheFrame' /\ CleanFrameOnItsWay'
    BY DEF DecodesTheFrame, CleanFrameOnItsWay
  <1> QED
    BY <1>1, <1>2, <1>3 DEF LinkInv

LEMMA DisturbanceKeepsInv ==
  ASSUME LinkInv, Disturbance
  PROVE  LinkInv'
  <1>0. channel \in Seq(Byte)
    BY DEF LinkInv, LinkTypeOK
  <1>1. ASSUME NEW i \in WrongBits, FlipBit(i) PROVE LinkInv'
    <2> DEFINE wrong == [Head(channel) EXCEPT ![i] = 1 - @]
               one == <<wrong>>
    <2>1. /\ arriving = "data" /\ channel # <<>> /\ arriving' = arriving /\ intact' = FALSE
          /\ UNCHANGED receptionVars
          /\ channel' = one \o Tail(channel)
      BY <1>1 DEF FlipBit, DisturbFrame
    <2>2. Head(channel) \in Byte /\ Tail(channel) \in Seq(Byte)
      BY <1>0, <2>1, FirstAndRest
    <2>3. wrong \in Byte
      <3> DEFINE byte == Head(channel)
      <3>1. byte \in [1..8 -> Bit] /\ i \in 1..8
        BY <2>2, ByteIsBits, LinkAssumption DEF Bits
      <3> HIDE DEF byte
      <3>2. 1 - byte[i] \in Bit
        BY <3>1 DEF Bit
      <3>3. [byte EXCEPT ![i] = 1 - byte[i]] \in [1..8 -> Bit]
        BY <3>1, <3>2
      <3> QED
        BY <3>3, ByteIsBits DEF Bits, byte
    <2> HIDE DEF wrong
    <2>4. one \in Seq(Byte)
      BY <2>3
    <2> HIDE DEF one
    <2>5. channel' \in Seq(Byte)
      BY <2>1, <2>2, <2>4, ConcatProperties
    <2> QED
      BY <2>1, <2>5, OtherBytesKeepInv
  <1>2. CASE LoseByte
    <2>1. /\ arriving = "data" /\ channel # <<>> /\ arriving' = arriving /\ intact' = FALSE
          /\ UNCHANGED receptionVars
          /\ channel' = Tail(channel)
      BY <1>2 DEF LoseByte, DisturbFrame
    <2>2. channel' \in Seq(Byte)
      BY <1>0, <2>1, FirstAndRest
    <2> QED
      BY <2>1, <2>2, OtherBytesKeepInv
  <1>3. ASSUME NEW byte \in NoiseBytes, AddByte(byte) PROVE LinkInv'
    <2> DEFINE one == <<byte>>
    <2>1. /\ arriving = "data" /\ arriving' = arriving /\ intact' = FALSE
          /\ UNCHANGED receptionVars
          /\ channel' = one \o channel
      BY <1>3 DEF AddByte, DisturbFrame
    <2>2. one \in Seq(Byte)
      BY LinkAssumption
    <2> HIDE DEF one
    <2>3. channel' \in Seq(Byte)
      BY <1>0, <2>1, <2>2, ConcatProperties
    <2> QED
      BY <2>1, <2>3, OtherBytesKeepInv
  <1> QED
    BY <1>1, <1>2, <1>3, SplitKeepsInv DEF Disturbance

LEMMA SenderKeepsInv ==
  ASSUME LinkInv, Sender
  PROVE  LinkInv'
  <1>1. ASSUME NEW m \in Messages, Send(m) PROVE LinkInv'
    <2>1. m \in Message /\ Len(m.repeaters) <= MaxNumRepeaters
      BY MessagesAssumption
    <2>2. Encode(m) \in Seq(Byte)
      BY <2>1, EncodedFrameIsRead
    <2> QED
      BY <1>1, <2>2, TransmitKeepsInv DEF Send
  <1>2. ASSUME NEW content \in ForeignContents, SendForeign(content) PROVE LinkInv'
    <2>1. content \in Seq(Byte) /\ Len(content) \in Nat
      BY LinkAssumption, LenProperties
    <2>2. WithFCS(content) \in Seq(Byte)
      BY <2>1, EncodedBytes
    <2> QED
      BY <1>2, <2>2, TransmitKeepsInv DEF SendForeign
  <1> QED
    BY <1>1, <1>2 DEF Sender

LEMMA LinkStep ==
  ASSUME LinkInv, [LinkNext]_linkVars
  PROVE  LinkInv'
  <1>1. CASE Sender
    BY <1>1, SenderKeepsInv
  <1>2. CASE Arrival
    BY <1>2, ArriveBeginKeepsInv, ArriveByteKeepsInv, ArriveEndKeepsInv DEF Arrival
  <1>3. CASE Disturbance
    BY <1>3, DisturbanceKeepsInv
  <1>4. CASE UNCHANGED linkVars
    <2>1. /\ UNCHANGED receptionVars /\ arriving' = arriving
          /\ channel' = channel /\ intact' = intact
      BY <1>4 DEF linkVars
    <2>2. /\ UNCHANGED <<decoderVars, decoded, seen, before>> /\ owed' = owed
      BY <2>1 DEF receptionVars
    <2>3. /\ ReceptionInv' /\ (FollowsTheBytes => FollowsTheBytes')
          /\ ReturnsTheMessage => ReturnsTheMessage'
      BY <2>2, ReceptionRests DEF LinkInv
    <2>4. LinkTypeOK'
      BY <2>1 DEF LinkInv, LinkTypeOK
    <2>5. DecodesTheFrame' /\ CleanFrameOnItsWay'
      BY <2>1, <2>2, <2>3 DEF LinkInv, DecodesTheFrame, CleanFrameOnItsWay
    <2> QED
      BY <2>1, <2>3, <2>4, <2>5 DEF LinkInv
  <1> QED
    BY <1>1, <1>2, <1>3, <1>4 DEF LinkNext

--------------------------------------------------------------------------------
\* Where the decoder is in the bytes it has seen, for any messages, any
\* disturbances, any number of frames and any limits.
THEOREM LinkInvariant == LinkSpec => []LinkInv
  <1>1. LinkInit => LinkInv
    BY LinkInitInv
  <1>2. LinkInv /\ [LinkNext]_linkVars => LinkInv'
    BY LinkStep
  <1> QED
    BY <1>1, <1>2, PTL DEF LinkSpec

\* Byte by byte, through two windows with rules of their own, the decoder
\* returns what the layout of the whole frame says, whatever bytes arrive: the
\* one message of a frame with a correct checksum that fits, or none
\* (Decoder::Process of ax25/decoder.h).
THEOREM DecoderFollowsTheLayout == LinkSpec => []DecodesTheFrame
  <1>1. LinkInv => DecodesTheFrame
    BY DEF LinkInv
  <1> QED
    BY <1>1, LinkInvariant, PTL

\* The decoder accepts what the encoder writes: no message that a Message can
\* hold, and no history of broken frames before it, is one that it loses.
THEOREM EncodedMessagesArrive == LinkSpec => []CleanFrameDelivered
  <1>1. LinkInv => CleanFrameDelivered
    BY DEF LinkInv, CleanFrameOnItsWay, CleanFrameDelivered
  <1> QED
    BY <1>1, LinkInvariant, PTL

\* The layout of what the encoder writes is that of the message, field by
\* field, as far as the bytes of AX.25 can carry it (ax25/encoder.h).
THEOREM DecoderInvertsEncoder ==
  \A m \in Messages : FrameMessage(Encode(m)) = {AsReceived(m)}
  BY EncodedFrameIsRead, MessagesAssumption

--------------------------------------------------------------------------------
(* HDLC and NRZ(S), HdlcLink: types and delimited frames. Frames of AX.25   *)
(* begin with the first byte of an address, which the codec shifts left by  *)
(* one: FirstBitIsZero.                                                     *)

HdlcInv == TypeOK /\ FramesAreDelimited

\* The frame marker is eight bits.
LEMMA MarkerIsByte == FrameMarker \in Byte /\ FrameMarker \in Seq(Bit)
  <1>1. FrameMarker \in Seq(Bit) /\ Len(FrameMarker) = 8
    BY DEF FrameMarker, Bit
  <1> QED
    BY <1>1 DEF Byte

\* The link starts with the decoder outside of a frame.
LEMMA InitInv == Init => HdlcInv
  <1> SUFFICES ASSUME Init PROVE HdlcInv
    OBVIOUS
  <1>1. raw_bit_buffer \in Seq(Bit) /\ Len(raw_bit_buffer) = 8
    BY DEF Init, Bit
  <1>2. raw_bit_buffer \in Byte
    BY <1>1 DEF Byte
  <1>3. 0 \in 0..(MaxConsecutiveOnes - 1) /\ 0 \in 0..MaxConsecutiveOnes
    BY DEF MaxConsecutiveOnes
  <1>4. Len(<<>>) < 8 /\ <<>> \in Seq(Bit) /\ <<>> \in Seq(Byte) /\ 0 \in Bit
    BY DEF Bit
  <1>5. TypeOK
    BY <1>2, <1>3, <1>4 DEF Init, TypeOK
  <1>6. FramesAreDelimited
    BY DEF Init, FramesAreDelimited
  <1> QED
    BY <1>5, <1>6 DEF HdlcInv

\* A sequence of bits that grows by one.
LEMMA AppendBit ==
  ASSUME NEW bits \in Seq(Bit), NEW bit \in Bit
  PROVE  Append(bits, bit) \in Seq(Bit) /\ Len(Append(bits, bit)) = Len(bits) + 1
  BY AppendProperties

\* The window on the raw bits keeps its eight bits.
LEMMA RawBitsType ==
  ASSUME TypeOK, NEW bit \in Bit
  PROVE  RawBits(bit) \in Byte
  <1>1. raw_bit_buffer \in Seq(Bit) /\ Len(raw_bit_buffer) = 8
    BY DEF TypeOK, Byte
  <1>2. raw_bit_buffer # <<>>
    BY <1>1
  <1>3. Tail(raw_bit_buffer) \in Seq(Bit) /\ Len(Tail(raw_bit_buffer)) = 7
    BY <1>1, <1>2, HeadTailProperties
  <1>4. /\ Append(Tail(raw_bit_buffer), bit) \in Seq(Bit)
        /\ Len(Append(Tail(raw_bit_buffer), bit)) = 8
    BY <1>3, AppendBit
  <1> QED
    BY <1>4 DEF RawBits, Byte

\* The types of the decoder and of its consumer.
DecoderTypes ==
  /\ raw_bit_buffer \in Byte
  /\ need_open_frame \in BOOLEAN /\ is_inside_frame \in BOOLEAN
  /\ num_raw_sequential_ones \in 0..MaxConsecutiveOnes
  /\ data_bits \in Seq(Bit) /\ Len(data_bits) < 8
  /\ consumer \in {"outside", "data", "confused"}
  /\ received \in Seq(Byte) /\ delivered \in Seq(Byte)

\* The empty sequence has the types of data_bits and of received.
LEMMA EmptySequences == <<>> \in Seq(Bit) /\ Len(<<>>) < 8 /\ <<>> \in Seq(Byte)
  OBVIOUS

\* The saturated count of ones.
LEMMA CountOnesType ==
  ASSUME DecoderTypes, NEW bit \in Bit, CountOnes(bit)
  PROVE  num_raw_sequential_ones' \in 0..MaxConsecutiveOnes
  BY DEF DecoderTypes, CountOnes, MaxConsecutiveOnes

\* What one more bit does to the decoder and to its consumer.
LEMMA DecodeBitKeepsInv ==
  ASSUME DecoderTypes, FramesAreDelimited, NEW bit \in Bit, DecodeBit(bit),
         RawBits(bit) \in Byte
  PROVE  DecoderTypes' /\ FramesAreDelimited'
  <1>1. CASE DecodeMarker(bit)
    <2>1. /\ raw_bit_buffer' \in Byte
          /\ need_open_frame' = TRUE /\ is_inside_frame' = FALSE
          /\ num_raw_sequential_ones' \in 0..MaxConsecutiveOnes
          /\ data_bits' = <<>>
      BY <1>1 DEF DecodeMarker, MaxConsecutiveOnes
    <2>2. consumer' = "outside" /\ received' = <<>> /\ delivered' \in Seq(Byte)
      BY <1>1 DEF DecodeMarker, DecoderTypes, FramesAreDelimited, Give, result
    <2> QED
      BY <2>1, <2>2, EmptySequences DEF DecoderTypes, FramesAreDelimited
  <1>2. CASE DropStuffing(bit)
    <2>1. /\ raw_bit_buffer' \in Byte
          /\ num_raw_sequential_ones' \in 0..MaxConsecutiveOnes
      BY <1>2 DEF DropStuffing, MaxConsecutiveOnes
    <2>2. UNCHANGED <<need_open_frame, is_inside_frame, data_bits, result>>
      BY <1>2 DEF DropStuffing
    <2> QED
      BY <2>1, <2>2 DEF DecoderTypes, FramesAreDelimited, result
  <1>3. CASE KeepDataBit(bit)
    <2>1. /\ raw_bit_buffer' \in Byte
          /\ num_raw_sequential_ones' \in 0..MaxConsecutiveOnes
      BY <1>3, CountOnesType DEF KeepDataBit
    <2>2. data_bits' \in Seq(Bit) /\ Len(data_bits') < 8
      BY <1>3, AppendBit DEF KeepDataBit, DecoderTypes
    <2>3. UNCHANGED <<need_open_frame, is_inside_frame, result>>
      BY <1>3 DEF KeepDataBit
    <2> QED
      BY <2>1, <2>2, <2>3 DEF DecoderTypes, FramesAreDelimited, result
  <1>4. CASE CompleteByte(bit)
    <2> DEFINE byte == Append(data_bits, bit)
    <2>1. byte \in Byte
      <3>1. data_bits \in Seq(Bit) /\ Len(data_bits) = 7
        BY <1>4 DEF CompleteByte, DecoderTypes
      <3>2. byte \in Seq(Bit) /\ Len(byte) = Len(data_bits) + 1
        BY <3>1, AppendBit
      <3>3. Len(byte) = 8
        BY <3>1, <3>2
      <3> QED
        BY <3>2, <3>3 DEF Byte
    <2>2. /\ raw_bit_buffer' \in Byte
          /\ num_raw_sequential_ones' \in 0..MaxConsecutiveOnes
      BY <1>4, CountOnesType DEF CompleteByte
    <2>3. /\ need_open_frame' = FALSE
          /\ is_inside_frame' = (is_inside_frame \/ need_open_frame)
          /\ data_bits' = <<>> /\ delivered' = delivered
      BY <1>4 DEF CompleteByte
    <2>4. is_inside_frame' \in BOOLEAN
      BY <2>3
    <2>5. \/ /\ is_inside_frame' = TRUE /\ consumer' = "data"
             /\ received' \in Seq(Byte) /\ received' # <<>>
          \/ is_inside_frame' = FALSE /\ UNCHANGED <<consumer, received>>
      <3>1. CASE need_open_frame
        <4>1. consumer = "outside"
          BY <3>1 DEF FramesAreDelimited, DecoderTypes
        <4>2. consumer' = "data" /\ received' = <<byte>>
          BY <1>4, <3>1, <4>1 DEF CompleteByte, Give
        <4> HIDE DEF byte
        <4>3. <<byte>> \in Seq(Byte) /\ <<byte>> # <<>>
          BY <2>1
        <4> QED
          BY <2>3, <3>1, <4>2, <4>3
      <3>2. CASE ~need_open_frame /\ is_inside_frame
        <4>1. consumer' = "data" /\ received' = Append(received, byte)
          BY <1>4, <3>2 DEF CompleteByte, Give, FramesAreDelimited
        <4> HIDE DEF byte
        <4>2. received \in Seq(Byte)
          BY DEF DecoderTypes
        <4>3. /\ Append(received, byte) \in Seq(Byte)
              /\ Append(received, byte) # <<>>
          BY <2>1, <4>2, AppendProperties
        <4> QED
          BY <2>3, <3>2, <4>1, <4>3
      <3>3. CASE ~need_open_frame /\ ~is_inside_frame
        BY <1>4, <2>3, <3>3 DEF CompleteByte
      <3> QED
        BY <3>1, <3>2, <3>3
    <2> HIDE DEF byte
    <2>6. DecoderTypes'
      BY <2>2, <2>3, <2>4, <2>5, EmptySequences DEF DecoderTypes
    <2>7. FramesAreDelimited'
      <3>1. CASE is_inside_frame' = TRUE /\ consumer' = "data" /\ received' # <<>>
        BY <2>3, <3>1 DEF FramesAreDelimited
      <3>2. CASE is_inside_frame' = FALSE /\ UNCHANGED <<consumer, received>>
        <4>1. is_inside_frame = FALSE
          BY <2>3, <3>2 DEF DecoderTypes
        <4> QED
          BY <2>3, <3>2, <4>1 DEF FramesAreDelimited
      <3> QED
        BY <2>5, <3>1, <3>2
    <2> QED
      BY <2>6, <2>7
  <1> QED
    BY <1>1, <1>2, <1>3, <1>4 DEF DecodeBit

\* A level is seen: the receiver's side keeps the invariant.
LEMMA SeeKeepsInv ==
  ASSUME HdlcInv, NEW level \in Bit, See(level)
  PROVE  seen_level' \in Bit /\ DecoderTypes' /\ FramesAreDelimited'
  <1> DEFINE bit == DecodeLevel(level)
  <1>1. bit \in Bit
    BY DEF DecodeLevel, Bit
  <1>2. DecodeBit(bit) /\ seen_level' = level
    BY DEF See
  <1>3. DecoderTypes /\ FramesAreDelimited
    BY DEF HdlcInv, TypeOK, DecoderTypes
  <1> HIDE DEF bit
  <1>4. RawBits(bit) \in Byte
    BY <1>1, RawBitsType DEF HdlcInv
  <1> QED
    BY <1>1, <1>2, <1>3, <1>4, DecodeBitKeepsInv

\* The caller passes any byte.
LEMMA EncodeByteKeepsInv ==
  ASSUME HdlcInv, NEW byte \in Byte, EncodeByte(byte)
  PROVE  HdlcInv'
  <1> USE DEF HdlcInv, TypeOK, line, decoder, result, sending
  <1>1. byte \in Seq(Bit)
    BY DEF Byte
  <1>2. UNCHANGED <<line, decoder, result>>
    BY DEF EncodeByte
  <1>3. FramesAreDelimited'
    BY <1>2 DEF FramesAreDelimited
  <1>4. TypeOK'
    BY <1>1, <1>2 DEF EncodeByte
  <1> QED
    BY <1>3, <1>4

\* The steps of the sender leave the receiver alone.
LEMMA SenderStepKeepsInv ==
  ASSUME HdlcInv, SenderStep
  PROVE  HdlcInv'
  <1> USE DEF HdlcInv, TypeOK, line, decoder, result, sending
  <1>1. CASE BeginFrame
    <2>1. UNCHANGED <<line, decoder, result>>
      BY <1>1 DEF BeginFrame
    <2>2. FramesAreDelimited'
      BY <2>1 DEF FramesAreDelimited
    <2>3. TypeOK'
      BY <1>1, <2>1, MarkerIsByte DEF BeginFrame, WriteMarker, encoder
    <2> QED
      BY <2>2, <2>3
  <1>2. CASE \E byte \in Bytes : EncodeByte(byte)
    BY <1>2, EncodeByteKeepsInv, BytesAssumption
  <1>3. CASE PushDataBit
    <2>1. UNCHANGED <<line, decoder, result>>
      BY <1>3 DEF PushDataBit
    <2>2. FramesAreDelimited'
      BY <2>1 DEF FramesAreDelimited
    <2>3. Head(byte_bits) \in Bit /\ Tail(byte_bits) \in Seq(Bit)
      BY <1>3, HeadTailProperties DEF PushDataBit
    <2>4. out_bits' \in Seq(Bit)
      <3>1. /\ <<Head(byte_bits), 0>> \in Seq(Bit)
            /\ <<Head(byte_bits)>> \in Seq(Bit)
        BY <2>3 DEF Bit
      <3> QED
        BY <1>3, <3>1 DEF PushDataBit
    <2>5. num_sequential_ones' \in 0..(MaxConsecutiveOnes - 1)
      BY <1>3, <2>3 DEF PushDataBit, MaxConsecutiveOnes, Bit
    <2>6. TypeOK'
      BY <1>3, <2>1, <2>3, <2>4, <2>5 DEF PushDataBit
    <2> QED
      BY <2>2, <2>6
  <1>4. CASE EndFrame
    <2>1. UNCHANGED <<line, decoder, result>>
      BY <1>4 DEF EndFrame
    <2>2. FramesAreDelimited'
      BY <2>1 DEF FramesAreDelimited
    <2>3. TypeOK'
      BY <1>4, <2>1, MarkerIsByte DEF EndFrame, WriteMarker, encoder
    <2> QED
      BY <2>2, <2>3
  <1> QED
    BY <1>1, <1>2, <1>3, <1>4 DEF SenderStep

\* A bit on its way is a bit, and so is its level.
LEMMA LevelOfBit ==
  ASSUME TypeOK, out_bits # <<>>
  PROVE  EncodeLevel(Head(out_bits)) \in Bit /\ Tail(out_bits) \in Seq(Bit)
  <1>1. Head(out_bits) \in Bit /\ Tail(out_bits) \in Seq(Bit)
    BY HeadTailProperties DEF TypeOK
  <1> QED
    BY <1>1 DEF EncodeLevel, TypeOK, Bit

\* Every step keeps the invariant, whatever happens to the line.
LEMMA NextKeepsInv == HdlcInv /\ [Next]_vars => HdlcInv'
  <1> SUFFICES ASSUME HdlcInv, [Next]_vars PROVE HdlcInv'
    OBVIOUS
  <1>1. CASE Transfer
    <2> DEFINE level == EncodeLevel(Head(out_bits))
    <2>1. level \in Bit /\ Tail(out_bits) \in Seq(Bit)
      BY <1>1, LevelOfBit DEF Transfer, HdlcInv
    <2>2. See(level) /\ sent_level' = level /\ out_bits' = Tail(out_bits)
      BY <1>1 DEF Transfer
    <2> HIDE DEF level
    <2>3. seen_level' \in Bit /\ DecoderTypes' /\ FramesAreDelimited'
      BY <2>1, <2>2, SeeKeepsInv
    <2>4. UNCHANGED <<encoder, sending, clean, noise>>
      BY <1>1 DEF Transfer
    <2> QED
      BY <2>1, <2>2, <2>3, <2>4
      DEF HdlcInv, TypeOK, DecoderTypes, encoder, sending
  <1>2. ASSUME NEW level \in Bit, Noise(level) PROVE HdlcInv'
    <2>1. seen_level' \in Bit /\ DecoderTypes' /\ FramesAreDelimited'
      BY <1>2, SeeKeepsInv DEF Noise
    <2>2. noise' \in Nat
      BY <1>2 DEF Noise, Disturb, HdlcInv, TypeOK
    <2>3. clean' = FALSE /\ UNCHANGED <<encoder, out_bits, sent_level, sending>>
      BY <1>2 DEF Noise, Disturb
    <2> QED
      BY <2>1, <2>2, <2>3 DEF HdlcInv, TypeOK, DecoderTypes, encoder, sending
  <1>3. CASE Lose
    <2>1. EncodeLevel(Head(out_bits)) \in Bit /\ Tail(out_bits) \in Seq(Bit)
      BY <1>3, LevelOfBit DEF Lose, HdlcInv
    <2>2. sent_level' \in Bit /\ out_bits' \in Seq(Bit)
      BY <1>3, <2>1 DEF Lose
    <2>3. noise' \in Nat
      BY <1>3 DEF Lose, Disturb, HdlcInv, TypeOK
    <2>4. clean' = FALSE
      BY <1>3 DEF Lose, Disturb
    <2>5. UNCHANGED <<encoder, seen_level, decoder, sending, result>>
      BY <1>3 DEF Lose
    <2>6. TypeOK'
      BY <2>2, <2>3, <2>4, <2>5
      DEF HdlcInv, TypeOK, encoder, decoder, sending, result
    <2>7. FramesAreDelimited'
      BY <2>5 DEF HdlcInv, FramesAreDelimited, decoder, result
    <2> QED
      BY <2>6, <2>7 DEF HdlcInv
  <1>4. CASE UNCHANGED vars
    BY <1>4 DEF HdlcInv, TypeOK, FramesAreDelimited, vars, encoder, decoder,
                line, sending, result
  <1> QED
    BY <1>1, <1>2, <1>3, <1>4, SenderStepKeepsInv DEF Next, LineStep

\* In every reachable state the variables of the link have their types: no
\* counter of the decoder leaves its range, however badly formed the bits are.
THEOREM LinkTypeCorrect == Spec => []TypeOK
  <1>1. HdlcInv => TypeOK
    BY DEF HdlcInv
  <1> QED
    BY <1>1, InitInv, NextKeepsInv, PTL DEF Spec

\* On any line whatever, the decoder hands over well-delimited frames: begin, at
\* least one byte, end, and nothing in between.
THEOREM DecoderDelimitsFrames == Spec => []FramesAreDelimited
  <1>1. HdlcInv => FramesAreDelimited
    BY DEF HdlcInv
  <1> QED
    BY <1>1, InitInv, NextKeepsInv, PTL DEF Spec

--------------------------------------------------------------------------------
(* Both ends in step: the marker that opens a frame.                        *)

\* The bits of the frame marker, one by one.
LEMMA MarkerBits ==
  /\ Len(FrameMarker) = 8
  /\ FrameMarker[1] = 0 /\ FrameMarker[8] = 0
  /\ \A i \in 2..7 : FrameMarker[i] = 1
  BY DEF FrameMarker

\* The window after one more bit: all bits move by one place.
LEMMA RawBitsMove ==
  ASSUME TypeOK, NEW bit \in Bit
  PROVE  /\ RawBits(bit) \in Byte
         /\ \A i \in 1..7 : RawBits(bit)[i] = raw_bit_buffer[i + 1]
         /\ RawBits(bit)[8] = bit
  <1>1. raw_bit_buffer \in Seq(Bit) /\ Len(raw_bit_buffer) = 8
    BY DEF TypeOK, Byte
  <1>2. raw_bit_buffer # <<>>
    BY <1>1
  <1> DEFINE rest == Tail(raw_bit_buffer)
  <1>3. /\ rest \in Seq(Bit) /\ Len(rest) = Len(raw_bit_buffer) - 1
        /\ \A i \in 1..Len(rest) : rest[i] = raw_bit_buffer[i + 1]
    BY <1>1, <1>2, HeadTailProperties
  <1>4. RawBits(bit) = Append(rest, bit)
    BY DEF RawBits
  <1> HIDE DEF rest
  <1>5. Len(rest) = 7
    BY <1>1, <1>3
  <1>6. /\ Append(rest, bit)[Len(rest) + 1] = bit
        /\ \A i \in 1..Len(rest) : Append(rest, bit)[i] = rest[i]
    BY <1>3, AppendProperties
  <1>7. Append(rest, bit)[8] = bit
    BY SMTT(30), <1>5, <1>6
  <1> QED
    BY <1>3, <1>4, <1>5, <1>6, <1>7, RawBitsType

\* What the decoder does with one bit is said by the window, by the count of
\* ones and by the bits of data alone.
LEMMA DecodeBitMoves ==
  ASSUME NEW bit, DecodeBit(bit)
  PROVE  raw_bit_buffer' = RawBits(bit)
  BY DEF DecodeBit, DecodeMarker, DropStuffing, KeepDataBit, CompleteByte

\* While the levels of both ends agree, the decoder is given the very bit that
\* was encoded, and the levels still agree behind it.
LEMMA TransferDecodes ==
  ASSUME TypeOK, seen_level = sent_level, Transfer
  PROVE  /\ out_bits # <<>> /\ Head(out_bits) \in Bit
         /\ DecodeBit(Head(out_bits))
         /\ seen_level' = sent_level'
         /\ out_bits' = Tail(out_bits)
         /\ UNCHANGED <<encoder, sending, clean, noise>>
  <1> DEFINE bit == Head(out_bits)
             level == EncodeLevel(bit)
  <1>1. out_bits # <<>>
    BY DEF Transfer
  <1>2. bit \in Bit
    BY <1>1, HeadTailProperties DEF TypeOK
  <1>3. DecodeLevel(level) = bit
    BY <1>2 DEF TypeOK, DecodeLevel, EncodeLevel, Bit
  <1>4. DecodeBit(DecodeLevel(level)) /\ seen_level' = level /\ sent_level' = level
    BY DEF Transfer, See
  <1>5. DecodeBit(bit)
    BY <1>3, <1>4
  <1> QED
    BY <1>1, <1>2, <1>4, <1>5 DEF Transfer

\* One more bit of a marker arrives.
LEMMA MarkerAdvances ==
  ASSUME TypeOK, NEW n \in 0..8, MarkerSent(n), out_bits # <<>>,
         out_bits' = Tail(out_bits), byte_bits' = byte_bits,
         raw_bit_buffer' = RawBits(Head(out_bits))
  PROVE  n \in 0..7 /\ Head(out_bits) = FrameMarker[n + 1] /\ MarkerSent(n + 1)'
  <1> DEFINE rest == Tail(out_bits)
             bit == Head(out_bits)
             window == RawBits(bit)
  <1>1. /\ Len(out_bits) = 8 - n
        /\ \A i \in 1..(8 - n) : out_bits[i] = FrameMarker[n + i]
        /\ \A i \in 1..n : raw_bit_buffer[8 - n + i] = FrameMarker[i]
    BY DEF MarkerSent
  <1>2. Len(out_bits) # 0
    BY DEF TypeOK
  <1>3. n \in 0..7
    BY <1>1, <1>2
  <1>4. /\ bit \in Bit /\ rest \in Seq(Bit) /\ Len(rest) = 7 - n
        /\ \A i \in 1..(7 - n) : rest[i] = out_bits[i + 1]
    BY <1>1, <1>3, HeadTailProperties DEF TypeOK
  <1>5. bit = FrameMarker[n + 1]
    BY <1>1, <1>2, <1>3 DEF TypeOK
  <1>6. (\A i \in 1..7 : window[i] = raw_bit_buffer[i + 1]) /\ window[8] = bit
    BY <1>4, RawBitsMove
  <1>7. out_bits' = rest /\ raw_bit_buffer' = window
    OBVIOUS
  <1> HIDE DEF rest, bit, window
  <1>8. \A i \in 1..(7 - n) : rest[i] = FrameMarker[n + 1 + i]
    <2> TAKE i \in 1..(7 - n)
    <2>1. rest[i] = out_bits[i + 1] /\ i + 1 \in 1..(8 - n)
      BY <1>3, <1>4
    <2>2. out_bits[i + 1] = FrameMarker[n + (i + 1)]
      BY <1>1, <2>1
    <2>3. n + (i + 1) = n + 1 + i
      BY <1>3
    <2> QED
      BY <2>1, <2>2, <2>3
  <1>9. \A i \in 1..(n + 1) : window[8 - (n + 1) + i] = FrameMarker[i]
    <2> TAKE i \in 1..(n + 1)
    <2>1. CASE i = n + 1
      BY <1>3, <1>5, <1>6, <2>1
    <2>2. CASE i # n + 1
      <3>1. i \in 1..n /\ 8 - (n + 1) + i \in 1..7
        BY <1>3, <2>2
      <3>2. 8 - (n + 1) + i + 1 = 8 - n + i
        BY <1>3, <3>1
      <3> QED
        BY <1>1, <1>6, <3>1, <3>2
    <2> QED
      BY <2>1, <2>2
  <1>10. byte_bits' = <<>> /\ Len(rest) = 8 - (n + 1)
    BY <1>3, <1>4 DEF MarkerSent
  <1>11. MarkerSent(n + 1)'
    BY SMTT(30), <1>3, <1>7, <1>8, <1>9, <1>10 DEF MarkerSent
  <1> QED
    BY <1>3, <1>5, <1>11 DEF bit

\* A marker of which eight bits were sent is what the window shows.
LEMMA WindowIsMarker ==
  raw_bit_buffer \in Byte /\ MarkerSent(8)
    => raw_bit_buffer = FrameMarker /\ Len(out_bits) = 0
  <1> SUFFICES ASSUME raw_bit_buffer \in Byte, MarkerSent(8)
               PROVE  raw_bit_buffer = FrameMarker /\ Len(out_bits) = 0
    OBVIOUS
  <1>1. raw_bit_buffer \in Seq(Bit) /\ Len(raw_bit_buffer) = 8
    BY DEF Byte
  <1>2. \A i \in 1..8 : raw_bit_buffer[8 - 8 + i] = FrameMarker[i]
    BY DEF MarkerSent
  <1>3. \A i \in 1..8 : raw_bit_buffer[i] = FrameMarker[i]
    BY <1>2
  <1>4. raw_bit_buffer = FrameMarker
    BY <1>1, <1>3, MarkerIsByte, MarkerBits, SeqEqual
  <1> QED
    BY <1>4 DEF MarkerSent

\* A marker that is written waits with all its bits.
LEMMA MarkerWritten ==
  ASSUME byte_bits' = <<>>, out_bits' = FrameMarker
  PROVE  MarkerSent(0)'
  BY MarkerBits DEF MarkerSent

--------------------------------------------------------------------------------
\* One step while the levels agree: the first marker of a frame.
LEMMA OpeningTransfer ==
  ASSUME HdlcInv, clean, SyncInv, caller = "begun", Transfer
  PROVE  Opening'
  <1>1. TypeOK /\ seen_level = sent_level /\ Opening
    BY DEF HdlcInv, SyncInv
  <1> DEFINE bit == Head(out_bits)
  <1>2. /\ out_bits # <<>> /\ bit \in Bit /\ DecodeBit(bit)
        /\ out_bits' = Tail(out_bits)
        /\ frame' = frame /\ byte_bits' = byte_bits
    BY <1>1, TransferDecodes DEF sending, encoder
  <1>3. raw_bit_buffer' = RawBits(bit)
    BY <1>2, DecodeBitMoves
  <1>4. PICK n \in 0..8 : MarkerSent(n)
    BY <1>1 DEF Opening
  <1>5. n \in 0..7 /\ MarkerSent(n + 1)'
    BY <1>1, <1>2, <1>3, <1>4, MarkerAdvances
  <1>6. frame' = <<>>
    BY <1>1, <1>2 DEF Opening
  <1> HIDE DEF bit
  <1>7. ASSUME out_bits' = <<>>
        PROVE  need_open_frame' /\ data_bits' = <<>> /\ num_raw_sequential_ones' = 0
    <2>1. Len(out_bits') = 8 - (n + 1)
      BY <1>5 DEF MarkerSent
    <2>2. n + 1 = 8
      BY <1>5, <1>7, <2>1
    <2>3. raw_bit_buffer' \in Byte
      BY <1>1, <1>2, <1>3, RawBitsType
    <2>4. MarkerSent(8)'
      BY <1>5, <2>2
    <2>5. (raw_bit_buffer \in Byte /\ MarkerSent(8)
             => raw_bit_buffer = FrameMarker /\ Len(out_bits) = 0)'
      BY WindowIsMarker, PTL
    <2>6. raw_bit_buffer' = FrameMarker
      BY <2>3, <2>4, <2>5
    <2>7. RawBits(bit) = FrameMarker
      BY <1>3, <2>6
    <2>8. DecodeMarker(bit)
      BY <1>2, <2>7 DEF DecodeBit, DropStuffing, KeepDataBit, CompleteByte
    <2> QED
      BY <2>8 DEF DecodeMarker
  <1>8. \E m \in 0..8 : MarkerSent(m)'
    <2>1. n + 1 \in 0..8
      BY <1>5
    <2> QED
      BY <1>5, <2>1
  <1> QED
    BY <1>6, <1>7, <1>8 DEF Opening

\* A frame that begins opens with its marker, if both ends are in step.
LEMMA SyncOfBegin ==
  ASSUME BeginFrame
  PROVE  SyncInv'
  <1>1. /\ byte_bits' = <<>> /\ out_bits' = FrameMarker
        /\ frame' = <<>> /\ clean' = (seen_level = sent_level)
        /\ seen_level' = seen_level /\ sent_level' = sent_level
    BY DEF BeginFrame, WriteMarker, Ready, encoder, line
  <1>2. MarkerSent(0)' /\ out_bits' # <<>>
    BY <1>1, MarkerWritten, MarkerBits
  <1>3. Opening'
    BY <1>1, <1>2 DEF Opening
  <1> QED
    BY <1>1, <1>3 DEF SyncInv

\* The steps of the sender while nothing disturbs its frame.
LEMMA SyncOfSender ==
  ASSUME HdlcInv, SyncInv, SenderStep
  PROVE  SyncInv'
  <1>1. CASE BeginFrame
    BY <1>1, SyncOfBegin
  <1>2. CASE \E byte \in Bytes : EncodeByte(byte)
    <2>1. /\ caller' = "data" /\ clean' = clean
          /\ seen_level' = seen_level /\ sent_level' = sent_level
      BY <1>2 DEF EncodeByte, line
    <2> QED
      BY <2>1 DEF SyncInv
  <1>3. CASE PushDataBit
    <2>1. /\ caller' = caller /\ clean' = clean /\ byte_bits # <<>>
          /\ seen_level' = seen_level /\ sent_level' = sent_level
      BY <1>3 DEF PushDataBit, sending, line
    <2>2. Opening => byte_bits = <<>>
      BY DEF Opening, MarkerSent
    <2> QED
      BY <2>1, <2>2 DEF SyncInv
  <1>4. CASE EndFrame
    <2>1. /\ caller' = "idle" /\ clean' = clean
          /\ seen_level' = seen_level /\ sent_level' = sent_level
      BY <1>4 DEF EndFrame, line
    <2> QED
      BY <2>1 DEF SyncInv
  <1> QED
    BY <1>1, <1>2, <1>3, <1>4 DEF SenderStep

\* Every step keeps the two ends in step.
LEMMA SyncOfStep == HdlcInv /\ SyncInv /\ [Next]_vars => SyncInv'
  <1> SUFFICES ASSUME HdlcInv, SyncInv, [Next]_vars PROVE SyncInv'
    OBVIOUS
  <1>1. CASE Transfer
    <2> SUFFICES ASSUME clean'
                 PROVE  seen_level' = sent_level' /\ (caller' = "begun" => Opening')
      BY DEF SyncInv
    <2>1. clean' = clean /\ caller' = caller
      BY <1>1 DEF Transfer, sending
    <2>2. TypeOK /\ seen_level = sent_level
      BY <2>1 DEF HdlcInv, SyncInv
    <2>3. seen_level' = sent_level'
      BY <1>1, <2>2, TransferDecodes
    <2> QED
      BY <1>1, <2>1, <2>3, OpeningTransfer
  <1>2. CASE LineStep
    <2>1. clean' = FALSE
      BY <1>2 DEF LineStep, Lose, Noise, Disturb
    <2> QED
      BY <2>1 DEF SyncInv
  <1>3. CASE UNCHANGED vars
    BY <1>3 DEF vars, encoder, decoder, line, sending, result, SyncInv, Opening,
                MarkerSent
  <1> QED
    BY <1>1, <1>2, <1>3, SyncOfSender DEF Next

\* Whatever the line carried before, a marker that nothing disturbed leaves the
\* decoder ready for the first byte of a frame.
THEOREM MarkerAlwaysSynchronises == Spec => []MarkerSynchronises
  <1>1. Init => SyncInv
    BY DEF Init, SyncInv
  <1>2. HdlcInv /\ SyncInv => MarkerSynchronises
    <2> SUFFICES ASSUME HdlcInv, SyncInv, Ready, caller = "begun", clean
                 PROVE  /\ need_open_frame /\ data_bits = <<>>
                        /\ num_raw_sequential_ones = 0
                        /\ raw_bit_buffer = FrameMarker
      BY DEF MarkerSynchronises
    <2>1. Opening /\ out_bits = <<>>
      BY DEF SyncInv, Ready
    <2>2. PICK n \in 0..8 : MarkerSent(n)
      BY <2>1 DEF Opening
    <2>3. n = 8
      BY <2>1, <2>2 DEF MarkerSent
    <2>4. raw_bit_buffer = FrameMarker
      BY <2>2, <2>3, WindowIsMarker DEF HdlcInv, TypeOK
    <2> QED
      BY <2>1, <2>4 DEF Opening
  <1> QED
    BY <1>1, <1>2, InitInv, NextKeepsInv, SyncOfStep, PTL DEF Spec

--------------------------------------------------------------------------------
(* The bytes of a frame and the marker that closes it.                     *)

\* At most five ones came since the last 0 of the window: one more bit does not
\* make it a marker.
LEMMA NotAMarker ==
  ASSUME TypeOK, OnesAreCounted, NEW bit \in Bit
  PROVE  RawBits(bit) # FrameMarker
  <1> DEFINE n == num_raw_sequential_ones
  <1>1. n \in 0..5
    BY DEF TypeOK, MaxConsecutiveOnes
  <1>2. raw_bit_buffer[8 - n] = 0
    BY DEF OnesAreCounted
  <1> HIDE DEF n
  <1>3. /\ \A i \in 1..7 : RawBits(bit)[i] = raw_bit_buffer[i + 1]
        /\ RawBits(bit)[8] = bit
    BY RawBitsMove
  <1>4. 7 - n \in 2..7 /\ 7 - n + 1 = 8 - n
    BY <1>1
  <1>5. RawBits(bit)[7 - n] = 0
    BY <1>2, <1>3, <1>4
  <1>6. FrameMarker[7 - n] = 1
    BY <1>4, MarkerBits
  <1> QED
    BY <1>5, <1>6

\* A bit that the window and the count of ones take: the count stays right.
LEMMA OnesStayCounted ==
  ASSUME TypeOK, OnesAreCounted, NEW bit \in Bit,
         raw_bit_buffer' = RawBits(bit),
         \/ bit = 0 /\ num_raw_sequential_ones' = 0
         \/ /\ bit = 1
            /\ num_raw_sequential_ones < MaxConsecutiveOnes
            /\ num_raw_sequential_ones' = num_raw_sequential_ones + 1
  PROVE  OnesAreCounted'
  <1> DEFINE n == num_raw_sequential_ones
             window == RawBits(bit)
  <1>1. /\ \A i \in 1..7 : window[i] = raw_bit_buffer[i + 1]
        /\ window[8] = bit
    BY RawBitsMove
  <1>2. n \in 0..5
    BY DEF TypeOK, MaxConsecutiveOnes
  <1>3. raw_bit_buffer[8 - n] = 0 /\ \A i \in (9 - n)..8 : raw_bit_buffer[i] = 1
    BY DEF OnesAreCounted
  <1>4. /\ raw_bit_buffer' = window
        /\ \/ bit = 0 /\ num_raw_sequential_ones' = 0
           \/ bit = 1 /\ n < 5 /\ num_raw_sequential_ones' = n + 1
    BY DEF MaxConsecutiveOnes
  <1> HIDE DEF n, window
  <1>5. CASE bit = 0 /\ num_raw_sequential_ones' = 0
    BY <1>1, <1>4, <1>5 DEF OnesAreCounted
  <1>6. CASE bit = 1 /\ n < 5 /\ num_raw_sequential_ones' = n + 1
    <2>1. window[8 - (n + 1)] = 0
      <3>1. 8 - (n + 1) \in 1..7 /\ 8 - (n + 1) + 1 = 8 - n
        BY <1>2, <1>6
      <3> QED
        BY <1>1, <1>3, <3>1
    <2>2. \A i \in (9 - (n + 1))..8 : window[i] = 1
      <3> TAKE i \in (9 - (n + 1))..8
      <3>1. CASE i = 8
        BY <1>1, <1>6, <3>1
      <3>2. CASE i # 8
        <4>1. i \in 1..7 /\ i + 1 \in (9 - n)..8
          BY <1>2, <1>6, <3>2
        <4> QED
          BY <1>1, <1>3, <4>1
      <3> QED
        BY <3>1, <3>2
    <2> QED
      BY <1>4, <1>6, <2>1, <2>2 DEF OnesAreCounted
  <1> QED
    BY <1>4, <1>5, <1>6

\* The window does not show a marker and less than five ones came before the
\* bit, or the bit is a one: it is a bit of data.
LEMMA DataBitIsKept ==
  ASSUME TypeOK, OnesAreCounted, NEW bit \in Bit, DecodeBit(bit),
         num_raw_sequential_ones < MaxConsecutiveOnes
  PROVE  /\ KeepDataBit(bit) \/ CompleteByte(bit)
         /\ OnesAreCounted'
         /\ num_raw_sequential_ones' =
              IF bit = 0 THEN 0 ELSE num_raw_sequential_ones + 1
  <1>1. RawBits(bit) # FrameMarker
    BY NotAMarker
  <1>2. num_raw_sequential_ones \in 0..4
    BY DEF TypeOK, MaxConsecutiveOnes
  <1>3. KeepDataBit(bit) \/ CompleteByte(bit)
    BY <1>1, <1>2 DEF DecodeBit, DecodeMarker, DropStuffing, IsStuffing,
                      MaxConsecutiveOnes
  <1>4. CountOnes(bit) /\ raw_bit_buffer' = RawBits(bit)
    BY <1>3 DEF KeepDataBit, CompleteByte
  <1>5. num_raw_sequential_ones' =
          IF bit = 0 THEN 0 ELSE num_raw_sequential_ones + 1
    BY <1>2, <1>4 DEF CountOnes, MaxConsecutiveOnes
  <1>6. \/ bit = 0 /\ num_raw_sequential_ones' = 0
        \/ /\ bit = 1
           /\ num_raw_sequential_ones < MaxConsecutiveOnes
           /\ num_raw_sequential_ones' = num_raw_sequential_ones + 1
    BY <1>5 DEF Bit
  <1>7. OnesAreCounted'
    BY <1>4, <1>6, OnesStayCounted
  <1> QED
    BY <1>3, <1>5, <1>7

\* Sequences that were appended to, compared with another sequence.
LEMMA AppendIs ==
  ASSUME NEW T, NEW head \in Seq(T), NEW last \in T, NEW whole \in Seq(T),
         Len(whole) = Len(head) + 1, whole[Len(whole)] = last,
         \A i \in 1..Len(head) : head[i] = whole[i]
  PROVE  Append(head, last) = whole
  <1> DEFINE longer == Append(head, last)
  <1>1. /\ longer \in Seq(T) /\ Len(longer) = Len(head) + 1
        /\ \A i \in 1..Len(head) : longer[i] = head[i]
        /\ longer[Len(head) + 1] = last
    BY AppendProperties
  <1>2. Len(head) \in Nat
    BY LenProperties
  <1> HIDE DEF longer
  <1>3. \A i \in 1..Len(longer) : longer[i] = whole[i]
    BY <1>1, <1>2
  <1>4. longer = whole
    BY <1>1, <1>3, SeqEqual
  <1> QED
    BY <1>4 DEF longer

\* The next bit of the last byte is decoded.
LEMMA DecodedAdvances ==
  ASSUME HdlcInv, frame # <<>>, frame' = frame, NEW n \in 0..7, Decoded(n),
         NEW bit \in Bit, bit = frame[Len(frame)][n + 1],
         KeepDataBit(bit) \/ CompleteByte(bit)
  PROVE  Decoded(n + 1)'
  <1> DEFINE k == Len(frame)
             last == frame[k]
  <1>1. /\ frame \in Seq(Byte) /\ received \in Seq(Byte) /\ data_bits \in Seq(Bit)
        /\ need_open_frame \in BOOLEAN /\ is_inside_frame \in BOOLEAN
    BY DEF HdlcInv, TypeOK
  <1>2. k \in Nat \ {0}
    BY <1>1, EmptySeq
  <1>3. last \in Byte
    BY <1>1, <1>2, ElementOfSeq
  <1>4. /\ Len(received) = k - 1
        /\ \A i \in 1..Len(received) : received[i] = frame[i]
        /\ Len(data_bits) = n
        /\ \A i \in 1..n : data_bits[i] = last[i]
        /\ k = 1 => need_open_frame
    BY DEF Decoded
  <1>5. k = Len(frame) /\ last = frame[k] /\ bit = last[n + 1]
    OBVIOUS
  <1> HIDE DEF k, last
  <1>6. CASE KeepDataBit(bit)
    <2>1. /\ data_bits' = Append(data_bits, bit) /\ Len(data_bits) < 7
          /\ received' = received /\ need_open_frame' = need_open_frame
      BY <1>6 DEF KeepDataBit, result
    <2>2. n < 7
      BY <1>4, <2>1
    <2> DEFINE longer == Append(data_bits, bit)
    <2>3. /\ Len(longer) = n + 1
          /\ \A i \in 1..n : longer[i] = data_bits[i]
          /\ longer[n + 1] = bit
      BY <1>1, <1>4, AppendProperties
    <2> HIDE DEF longer
    <2>4. \A i \in 1..(n + 1) : longer[i] = last[i]
      BY <1>4, <1>5, <2>3
    <2>5. data_bits' = longer
      BY <2>1 DEF longer
    <2>6. Len(frame') = k /\ frame'[Len(frame')] = last
      BY <1>5
    <2>7. n + 1 # 8
      BY <2>2
    <2> QED
      BY <1>4, <1>5, <2>1, <2>3, <2>4, <2>5, <2>6, <2>7 DEF Decoded
  <1>7. CASE CompleteByte(bit)
    <2>1. n = 7
      BY <1>4, <1>7 DEF CompleteByte
    <2>2. Append(data_bits, bit) = last
      <3>1. last \in Seq(Bit) /\ Len(last) = 8
        BY <1>3 DEF Byte
      <3>2. Len(last) = Len(data_bits) + 1 /\ last[Len(last)] = bit
        BY <1>4, <1>5, <2>1, <3>1
      <3>3. \A i \in 1..Len(data_bits) : data_bits[i] = last[i]
        BY <1>4
      <3> QED
        BY <1>1, <3>1, <3>2, <3>3, AppendIs
    <2>3. data_bits' = <<>>
      BY <1>7 DEF CompleteByte
    <2>4. received' = frame
      <3>1. CASE need_open_frame
        <4>1. received = <<>>
          BY <3>1 DEF HdlcInv, FramesAreDelimited
        <4>2. k = 1
          BY <1>2, <1>4, <4>1
        <4>3. received' = <<last>>
          BY <1>7, <2>2, <3>1 DEF CompleteByte
        <4>4. <<last>> \in Seq(Byte) /\ Len(<<last>>) = 1 /\ <<last>>[1] = last
          BY <1>3
        <4>5. <<last>> = frame
          <5>1. Len(<<last>>) = Len(frame)
            BY <1>5, <4>2, <4>4
          <5>2. \A i \in 1..Len(<<last>>) : <<last>>[i] = frame[i]
            BY <1>5, <4>2, <4>4
          <5> QED
            BY <1>1, <4>4, <5>1, <5>2, SeqEqual
        <4> QED
          BY <4>3, <4>5
      <3>2. CASE ~need_open_frame
        <4>1. k # 1
          BY <1>4, <3>2
        <4>2. received # <<>>
          BY <1>2, <1>4, <4>1
        <4>3. is_inside_frame
          BY <4>2 DEF HdlcInv, FramesAreDelimited
        <4>4. received' = Append(received, last)
          BY <1>7, <2>2, <3>2, <4>3 DEF CompleteByte
        <4>5. Append(received, last) = frame
          <5>1. Len(frame) = Len(received) + 1 /\ frame[Len(frame)] = last
            BY <1>2, <1>4, <1>5
          <5> QED
            BY <1>1, <1>3, <1>4, <5>1, AppendIs
        <4> QED
          BY <4>4, <4>5
      <3> QED
        BY <3>1, <3>2
    <2>5. n + 1 = 8
      BY <2>1
    <2> QED
      BY <2>3, <2>4, <2>5 DEF Decoded
  <1> QED
    BY <1>6, <1>7

\* One step while the levels agree: a bit of a byte, or the 0 stuffed behind it.
LEMMA SendingTransfer ==
  ASSUME HdlcInv, clean, CleanInv, caller = "data", Transfer
  PROVE  Sending'
  <1>1. TypeOK /\ seen_level = sent_level /\ Sending
    BY DEF HdlcInv, CleanInv, SyncInv
  <1> DEFINE bit == Head(out_bits)
             ones == num_raw_sequential_ones
  <1>2. /\ out_bits # <<>> /\ bit \in Bit /\ DecodeBit(bit)
        /\ out_bits' = Tail(out_bits) /\ frame' = frame
        /\ byte_bits' = byte_bits /\ num_sequential_ones' = num_sequential_ones
    BY <1>1, TransferDecodes DEF sending, encoder
  <1>3. raw_bit_buffer' = RawBits(bit)
    BY <1>2, DecodeBitMoves
  <1>4. PICK n \in 0..8 : Pushed(n)
    BY <1>1 DEF Sending
  <1>5. frame # <<>> /\ OnesAreCounted
    BY <1>1 DEF Sending
  <1>6. /\ ones \in 0..5 /\ num_sequential_ones \in 0..4
        /\ ones = num_raw_sequential_ones
    BY <1>1 DEF TypeOK, MaxConsecutiveOnes
  <1> DEFINE byte == frame[Len(frame)]
  <1>7. /\ Len(byte_bits') = 8 - n
        /\ \A i \in 1..(8 - n) : byte_bits'[i] = frame'[Len(frame')][n + i]
    BY <1>2, <1>4 DEF Pushed
  \* The bit itself: it is kept.
  <1>8. ASSUME n > 0, Decoded(n - 1), bit = byte[n], ones < 5
        PROVE  /\ Decoded(n)' /\ OnesAreCounted'
               /\ num_raw_sequential_ones' = IF bit = 0 THEN 0 ELSE ones + 1
    <2>1. /\ KeepDataBit(bit) \/ CompleteByte(bit)
          /\ OnesAreCounted'
          /\ num_raw_sequential_ones' = IF bit = 0 THEN 0 ELSE ones + 1
      <3> HIDE DEF bit
      <3> QED
        BY <1>1, <1>2, <1>5, <1>8, DataBitIsKept DEF MaxConsecutiveOnes
    <2>2. n - 1 \in 0..7 /\ (n - 1) + 1 = n
      BY <1>8
    <2>3. Decoded((n - 1) + 1)'
      <3>1. bit = frame[Len(frame)][(n - 1) + 1]
        BY <1>8, <2>2
      <3> HIDE DEF bit
      <3> QED
        BY <1>2, <1>5, <1>8, <2>1, <2>2, <3>1, DecodedAdvances
    <2> QED
      BY <2>1, <2>2, <2>3
  <1>9. CASE n > 0 /\ out_bits = <<byte[n]>> /\ Decoded(n - 1)
             /\ ones < 5 /\ num_sequential_ones = IF byte[n] = 1 THEN ones + 1 ELSE 0
    <2>1. bit = byte[n] /\ out_bits' = <<>>
      BY <1>2, <1>9
    <2>2. /\ Decoded(n)' /\ OnesAreCounted'
          /\ num_raw_sequential_ones' = IF bit = 0 THEN 0 ELSE ones + 1
      BY <1>8, <1>9, <2>1
    <2>3. num_sequential_ones' = num_raw_sequential_ones'
      BY <1>2, <1>9, <2>1, <2>2 DEF Bit
    <2>4. num_raw_sequential_ones' < MaxConsecutiveOnes
      BY <1>2, <1>6, <2>3 DEF MaxConsecutiveOnes
    <2>5. Pushed(n)'
      BY <1>7, <2>1, <2>2, <2>3, <2>4 DEF Pushed
    <2> QED
      BY <1>2, <1>5, <2>2, <2>5 DEF Sending
  <1>10. CASE n > 0 /\ byte[n] = 1 /\ out_bits = <<1, 0>> /\ Decoded(n - 1)
              /\ ones = 4 /\ num_sequential_ones = 0
    <2>1. bit = byte[n] /\ out_bits' = <<0>> /\ bit = 1
      BY <1>2, <1>10
    <2>2. /\ Decoded(n)' /\ OnesAreCounted'
          /\ num_raw_sequential_ones' = IF bit = 0 THEN 0 ELSE ones + 1
      BY <1>8, <1>10, <2>1
    <2>3. num_raw_sequential_ones' = MaxConsecutiveOnes
      BY <1>10, <2>1, <2>2 DEF MaxConsecutiveOnes
    <2>4. num_sequential_ones' = 0
      BY <1>2, <1>10
    <2>5. Pushed(n)'
      BY <1>7, <2>1, <2>2, <2>3, <2>4 DEF Pushed
    <2> QED
      BY <1>2, <1>5, <2>2, <2>5 DEF Sending
  \* The 0 that was stuffed: it is dropped.
  <1>11. CASE out_bits = <<0>> /\ Decoded(n) /\ ones = 5 /\ num_sequential_ones = 0
    <2>1. bit = 0 /\ out_bits' = <<>>
      BY <1>2, <1>11
    <2>2. RawBits(bit) # FrameMarker
      <3> HIDE DEF bit
      <3> QED
        BY <1>1, <1>2, <1>5, NotAMarker
    <2>3. DropStuffing(bit)
      BY <1>2, <1>11, <2>1, <2>2
      DEF DecodeBit, DecodeMarker, KeepDataBit, CompleteByte, IsStuffing,
          MaxConsecutiveOnes
    <2>4. num_raw_sequential_ones' = 0 /\ UNCHANGED <<need_open_frame, data_bits, received>>
      BY <2>3 DEF DropStuffing, result
    <2>5. OnesAreCounted'
      <3> HIDE DEF bit
      <3> QED
        BY <1>1, <1>2, <1>3, <1>5, <2>1, <2>4, OnesStayCounted
    <2>6. Decoded(n)'
      BY <1>2, <1>11, <2>4 DEF Decoded
    <2>7. num_sequential_ones' = num_raw_sequential_ones'
      BY <1>2, <1>11, <2>4
    <2>8. num_raw_sequential_ones' < MaxConsecutiveOnes
      BY <2>4 DEF MaxConsecutiveOnes
    <2>9. Pushed(n)'
      BY <1>7, <2>1, <2>6, <2>7, <2>8 DEF Pushed
    <2> QED
      BY <1>2, <1>5, <2>5, <2>9 DEF Sending
  <1> QED
    BY <1>2, <1>4, <1>9, <1>10, <1>11 DEF Pushed, MaxConsecutiveOnes

\* One step while the levels agree: a bit of the last marker.
LEMMA ClosingTransfer ==
  ASSUME HdlcInv, clean, CleanInv, caller = "idle", frame # <<>>, Transfer
  PROVE  Closing'
  <1>1. TypeOK /\ seen_level = sent_level /\ Closing
    BY DEF HdlcInv, CleanInv, SyncInv
  <1> DEFINE bit == Head(out_bits)
             ones == num_raw_sequential_ones
  <1>2. /\ out_bits # <<>> /\ bit \in Bit /\ DecodeBit(bit)
        /\ out_bits' = Tail(out_bits) /\ frame' = frame /\ byte_bits' = byte_bits
    BY <1>1, TransferDecodes DEF sending, encoder
  <1>3. raw_bit_buffer' = RawBits(bit)
    BY <1>2, DecodeBitMoves
  <1>4. PICK n \in 0..8 :
          /\ MarkerSent(n)
          /\ IF n = 8
             THEN delivered = frame /\ ~is_inside_frame
             ELSE /\ received = frame
                  /\ Len(data_bits) = n
                  /\ \A i \in 1..n : data_bits[i] = FrameMarker[i]
                  /\ n = 0 => OnesAreCounted /\ num_raw_sequential_ones < MaxConsecutiveOnes
    BY <1>1 DEF Closing
  <1>5. n \in 0..7 /\ bit = FrameMarker[n + 1] /\ MarkerSent(n + 1)'
    BY <1>1, <1>2, <1>3, <1>4, MarkerAdvances
  <1>6. /\ received = frame /\ Len(data_bits) = n
        /\ \A i \in 1..n : data_bits[i] = FrameMarker[i]
        /\ n = 0 => OnesAreCounted /\ ones < MaxConsecutiveOnes
    BY <1>4, <1>5
  <1> HIDE DEF bit
  \* All but the last bit are taken for data.
  <1>7. CASE n < 7
    <2>1. KeepDataBit(bit)
      <3>1. CASE n = 0
        <4>1. KeepDataBit(bit) \/ CompleteByte(bit)
          BY <1>1, <1>2, <1>6, <3>1, DataBitIsKept
        <4> QED
          BY <1>6, <3>1, <4>1 DEF CompleteByte
      <3>2. CASE n # 0
        <4>1. n + 1 \in 2..7
          BY <1>5, <1>7, <3>2
        <4>2. bit = 1
          BY <1>5, <4>1, MarkerBits
        <4>3. RawBits(bit)[8] = 1
          BY <1>1, <1>2, <4>2, RawBitsMove
        <4>4. RawBits(bit) # FrameMarker
          BY <4>3, MarkerBits
        <4> QED
          BY <1>2, <1>6, <1>7, <4>2, <4>4
          DEF DecodeBit, DecodeMarker, DropStuffing, CompleteByte, IsStuffing
      <3> QED
        BY <3>1, <3>2
    <2>2. data_bits' = Append(data_bits, bit) /\ received' = received
      BY <2>1 DEF KeepDataBit, result
    <2> DEFINE longer == Append(data_bits, bit)
    <2>3. /\ Len(longer) = Len(data_bits) + 1
          /\ \A i \in 1..Len(data_bits) : longer[i] = data_bits[i]
          /\ longer[Len(data_bits) + 1] = bit
      BY <1>1, <1>2, AppendProperties DEF TypeOK
    <2>4. data_bits' = longer
      BY <2>2
    <2> HIDE DEF longer
    <2>5. Len(longer) = n + 1 /\ \A i \in 1..(n + 1) : longer[i] = FrameMarker[i]
      BY <1>5, <1>6, <2>3
    <2>6. n + 1 \in 0..8 /\ n + 1 # 8 /\ n + 1 # 0
      BY <1>5, <1>7
    <2>7. received' = frame'
      BY <1>2, <1>6, <2>2
    <2> QED
      BY <1>5, <2>4, <2>5, <2>6, <2>7 DEF Closing
  \* The last one completes the marker.
  <1>8. CASE n = 7
    <2>1. raw_bit_buffer' \in Byte
      BY <1>1, <1>2, <1>3, RawBitsType
    <2>2. MarkerSent(8)'
      BY <1>5, <1>8
    <2>3. (raw_bit_buffer \in Byte /\ MarkerSent(8)
             => raw_bit_buffer = FrameMarker /\ Len(out_bits) = 0)'
      BY WindowIsMarker, PTL
    <2>4. RawBits(bit) = FrameMarker
      BY <1>3, <2>1, <2>2, <2>3
    <2>5. DecodeMarker(bit)
      BY <1>2, <2>4 DEF DecodeBit, DropStuffing, KeepDataBit, CompleteByte
    <2>6. is_inside_frame
      BY <1>6 DEF HdlcInv, FramesAreDelimited
    <2>7. delivered' = frame' /\ ~is_inside_frame'
      BY <1>2, <1>6, <2>5, <2>6 DEF DecodeMarker
    <2> QED
      BY <2>2, <2>7 DEF Closing
  <1> QED
    BY <1>5, <1>7, <1>8

\* The caller passes a byte: none of its bits is pushed.
LEMMA SendingBegins ==
  ASSUME HdlcInv, clean, CleanInv,
         NEW byte \in Byte, EncodeByte(byte), caller = "begun" => byte[1] = 0
  PROVE  Sending'
  <1>1. /\ out_bits = <<>> /\ byte_bits = <<>>
        /\ byte_bits' = byte /\ out_bits' = <<>> /\ frame' = Append(frame, byte)
        /\ num_sequential_ones' = num_sequential_ones
        /\ UNCHANGED decoder /\ UNCHANGED result
    BY DEF EncodeByte, Ready
  <1>2. byte \in Byte /\ byte \in Seq(Bit) /\ Len(byte) = 8
    BY DEF Byte
  <1>3. frame \in Seq(Byte) /\ received \in Seq(Byte)
    BY DEF HdlcInv, TypeOK
  <1> DEFINE longer == Append(frame, byte)
  <1>4. /\ longer \in Seq(Byte) /\ Len(longer) = Len(frame) + 1
        /\ \A i \in 1..Len(frame) : longer[i] = frame[i]
        /\ longer[Len(frame) + 1] = byte
    BY <1>2, <1>3, AppendProperties
  <1>5. frame' = longer /\ Len(frame) \in Nat
    BY <1>1, <1>3, LenProperties
  <1> HIDE DEF longer
  <1>6. longer # <<>>
    BY <1>4, <1>5
  <1>7. Len(byte_bits') = 8 /\ \A i \in 1..8 : byte_bits'[i] = longer[Len(longer)][i]
    BY <1>1, <1>2, <1>4
  <1>8. CASE caller = "begun"
    <2>1. Opening
      BY <1>8 DEF CleanInv, SyncInv
    <2>2. /\ frame = <<>> /\ need_open_frame /\ data_bits = <<>>
          /\ num_raw_sequential_ones = 0
      BY <1>1, <2>1 DEF Opening
    <2>3. received = <<>>
      BY <2>2 DEF HdlcInv, FramesAreDelimited
    <2>4. raw_bit_buffer = FrameMarker
      <3>1. PICK n \in 0..8 : MarkerSent(n)
        BY <2>1 DEF Opening
      <3>2. n = 8
        BY <1>1, <3>1 DEF MarkerSent
      <3> QED
        BY <3>1, <3>2, WindowIsMarker DEF HdlcInv, TypeOK
    <2>5. OnesAreCounted'
      <3>1. raw_bit_buffer'[8] = 0 /\ num_raw_sequential_ones' = 0
        BY <1>1, <2>2, <2>4, MarkerBits DEF decoder
      <3> QED
        BY <3>1 DEF OnesAreCounted
    <2>6. byte[1] = 0
      BY <1>8
    <2>7. Len(longer) = 1 /\ longer[Len(longer)] = byte
      BY <1>4, <2>2
    <2>8. Decoded(0)'
      BY <1>1, <1>5, <2>2, <2>3, <2>7 DEF Decoded, decoder, result
    <2>9. Pushed(0)'
      BY <1>1, <1>5, <1>7, <2>2, <2>6, <2>7, <2>8
      DEF Pushed, decoder, MaxConsecutiveOnes
    <2> QED
      BY <1>5, <1>6, <2>5, <2>9 DEF Sending
  <1>9. CASE caller = "data"
    <2>1. Sending
      BY <1>9 DEF CleanInv
    <2>2. PICK n \in 0..8 : Pushed(n)
      BY <2>1 DEF Sending
    <2>3. n = 8
      BY <1>1, <2>2 DEF Pushed
    <2>4. /\ received = frame /\ data_bits = <<>>
          /\ num_raw_sequential_ones < MaxConsecutiveOnes
          /\ num_sequential_ones = num_raw_sequential_ones
      BY <1>1, <2>2, <2>3 DEF Pushed, Decoded
    <2>5. frame # <<>> /\ OnesAreCounted
      BY <2>1 DEF Sending
    <2>6. Len(frame) # 0
      BY <1>3, <2>5, EmptySeq
    <2>7. OnesAreCounted'
      BY <1>1, <2>5 DEF OnesAreCounted, decoder
    <2>8. Decoded(0)'
      <3>1. received' = frame /\ data_bits' = <<>>
        BY <1>1, <2>4 DEF decoder, result
      <3>2. Len(frame) = Len(longer) - 1 /\ Len(longer) # 1
        BY <1>4, <1>5, <2>6
      <3> QED
        BY <1>4, <1>5, <3>1, <3>2 DEF Decoded
    <2>9. Pushed(0)'
      BY <1>1, <1>5, <1>7, <2>4, <2>8 DEF Pushed, decoder
    <2> QED
      BY <1>5, <1>6, <2>7, <2>9 DEF Sending
  <1> QED
    BY <1>8, <1>9 DEF EncodeByte

\* A bit is pushed, with the 0 behind five ones.
LEMMA SendingPushes ==
  ASSUME HdlcInv, clean, CleanInv, caller = "data", PushDataBit
  PROVE  Sending'
  <1> DEFINE bit == Head(byte_bits)
             ones == IF bit = 1 THEN num_sequential_ones + 1 ELSE 0
             rest == Tail(byte_bits)
             byte == frame[Len(frame)]
             counted == num_raw_sequential_ones
  <1>1. /\ out_bits = <<>> /\ byte_bits # <<>>
        /\ out_bits' = IF ones = 5 THEN <<bit, 0>> ELSE <<bit>>
        /\ num_sequential_ones' = IF ones = 5 THEN 0 ELSE ones
        /\ byte_bits' = rest
        /\ frame' = frame /\ UNCHANGED decoder /\ UNCHANGED result
    BY DEF PushDataBit, MaxConsecutiveOnes, sending
  <1>2. /\ byte_bits \in Seq(Bit) /\ num_sequential_ones \in 0..4 /\ counted \in 0..5
    BY DEF HdlcInv, TypeOK, MaxConsecutiveOnes
  <1>3. Sending
    BY DEF CleanInv
  <1>4. PICK n \in 0..8 : Pushed(n)
    BY <1>3 DEF Sending
  <1>5. /\ Len(byte_bits) = 8 - n
        /\ \A i \in 1..(8 - n) : byte_bits[i] = byte[n + i]
        /\ Decoded(n) /\ counted < 5
        /\ num_sequential_ones = counted \/ (n = 0 /\ counted = 0 /\ byte[1] = 0)
    BY <1>1, <1>4 DEF Pushed, MaxConsecutiveOnes
  <1>6. n \in 0..7
    BY <1>1, <1>2, <1>5
  <1>7. /\ bit \in Bit /\ bit = byte_bits[1] /\ Len(rest) = Len(byte_bits) - 1
        /\ \A i \in 1..Len(rest) : rest[i] = byte_bits[i + 1]
    BY <1>1, <1>2, HeadTailProperties
  <1>8. bit = byte[n + 1]
    <2>1. byte_bits[1] = byte[n + 1]
      BY <1>5, <1>6
    <2> QED
      BY <1>7, <2>1
  <1>9. ones = IF bit = 1 THEN num_sequential_ones + 1 ELSE 0
    OBVIOUS
  <1> HIDE DEF bit, rest, ones
  <1>10. \A i \in 1..(8 - (n + 1)) : rest[i] = byte[n + 1 + i]
    <2> TAKE i \in 1..(8 - (n + 1))
    <2>1. i \in 1..Len(rest) /\ i + 1 \in 1..(8 - n)
      BY <1>5, <1>6, <1>7
    <2>2. n + (i + 1) = n + 1 + i
      BY <1>6
    <2> QED
      BY <1>5, <1>7, <2>1, <2>2
  <1>11. Len(byte_bits') = 8 - (n + 1)
    BY <1>1, <1>5, <1>6, <1>7
  <1>12. Decoded((n + 1) - 1)'
    <2>1. Decoded(n)'
      BY <1>1, <1>5 DEF Decoded, decoder, result
    <2>2. (n + 1) - 1 = n
      BY <1>6
    <2> QED
      BY <2>1, <2>2
  <1>13. \A i \in 1..(8 - (n + 1)) : byte_bits'[i] = frame'[Len(frame')][n + 1 + i]
    BY <1>1, <1>10
  <1>14. n + 1 > 0 /\ n + 1 \in 0..8
    BY <1>6
  <1>15. Pushed(n + 1)'
    <2>1. CASE ones = 5
      <3>1. bit = 1 /\ num_sequential_ones = 4
        BY <1>2, <1>9, <2>1
      <3>2. counted = 4
        <4>1. CASE n = 0 /\ byte[1] = 0
          <5>1. n + 1 = 1
            BY <4>1
          <5>2. byte[n + 1] = 0
            BY <4>1, <5>1
          <5>3. bit = 0
            BY <1>8, <5>2
          <5> QED
            BY <3>1, <5>3
        <4> QED
          BY <1>5, <3>1, <4>1
      <3>3. out_bits' = <<1, 0>> /\ num_sequential_ones' = 0
        BY <1>1, <2>1, <3>1
      <3>4. num_raw_sequential_ones' = MaxConsecutiveOnes - 1
        BY <1>1, <3>2 DEF decoder, MaxConsecutiveOnes
      <3>5. frame'[Len(frame')][n + 1] = 1
        BY <1>1, <1>8, <3>1
      <3> QED
        BY <1>11, <1>12, <1>13, <1>14, <3>3, <3>4, <3>5 DEF Pushed
    <2>2. CASE ones # 5
      <3>1. out_bits' = <<frame'[Len(frame')][n + 1]>> /\ num_sequential_ones' = ones
        BY <1>1, <1>8, <2>2
      <3>2. num_raw_sequential_ones' = counted /\ counted < MaxConsecutiveOnes
        BY <1>1, <1>5 DEF decoder, MaxConsecutiveOnes
      <3>3. ones = IF bit = 1 THEN counted + 1 ELSE 0
        BY <1>5, <1>8, <1>9
      <3>4. bit = frame'[Len(frame')][n + 1]
        BY <1>1, <1>8
      <3> QED
        BY <1>11, <1>12, <1>13, <1>14, <3>1, <3>2, <3>3, <3>4 DEF Pushed
    <2> QED
      BY <2>1, <2>2
  <1>16. OnesAreCounted'
    BY <1>1, <1>3 DEF Sending, OnesAreCounted, decoder
  <1> QED
    BY <1>1, <1>3, <1>14, <1>15, <1>16 DEF Sending

\* The caller ends a frame with at least one byte.
LEMMA ClosingBegins ==
  ASSUME HdlcInv, clean, CleanInv, EndFrame, frame' # <<>>
  PROVE  Closing'
  <1>1. /\ out_bits = <<>> /\ byte_bits = <<>>
        /\ out_bits' = FrameMarker /\ byte_bits' = <<>> /\ frame' = frame
        /\ UNCHANGED decoder /\ UNCHANGED result
    BY DEF EndFrame, Ready, WriteMarker, encoder
  <1>2. caller = "data"
    BY <1>1 DEF EndFrame, CleanInv, SyncInv, Opening
  <1>3. Sending
    BY <1>2 DEF CleanInv
  <1>4. PICK n \in 0..8 : Pushed(n)
    BY <1>3 DEF Sending
  <1>5. n = 8
    BY <1>1, <1>4 DEF Pushed
  <1>6. /\ received = frame /\ data_bits = <<>>
        /\ num_raw_sequential_ones < MaxConsecutiveOnes
    BY <1>1, <1>4, <1>5 DEF Pushed, Decoded
  <1>7. MarkerSent(0)'
    BY <1>1, MarkerWritten
  <1>8. OnesAreCounted'
    BY <1>1, <1>3 DEF Sending, OnesAreCounted, decoder
  <1>9. /\ received' = frame' /\ Len(data_bits') = 0
        /\ num_raw_sequential_ones' < MaxConsecutiveOnes
    BY <1>1, <1>6 DEF decoder, result
  <1> QED
    BY <1>7, <1>8, <1>9 DEF Closing

\* A byte that is passed keeps what is known of a frame that nothing disturbs, if
\* a frame begins with a 0.
LEMMA CleanOfByte ==
  ASSUME HdlcInv, CleanInv,
         NEW byte \in Byte, EncodeByte(byte), caller = "begun" => byte[1] = 0
  PROVE  CleanInv'
  <1>1. /\ caller' = "data" /\ clean' = clean
        /\ seen_level' = seen_level /\ sent_level' = sent_level
    BY DEF EncodeByte, line
  <1>2. SyncInv'
    BY <1>1 DEF CleanInv, SyncInv
  <1>3. clean' => Sending'
    BY <1>1, SendingBegins
  <1> QED
    BY <1>1, <1>2, <1>3 DEF CleanInv

\* So does every other step.
LEMMA CleanOfOthers ==
  ASSUME HdlcInv, CleanInv,
         \/ BeginFrame \/ PushDataBit \/ EndFrame
         \/ Transfer \/ LineStep \/ UNCHANGED vars
  PROVE  CleanInv'
  <1>1. SyncInv'
    BY SyncOfStep DEF CleanInv, Next, SenderStep
  <1> SUFFICES ASSUME clean'
               PROVE  /\ caller' = "data" => Sending'
                      /\ caller' = "idle" /\ frame' # <<>> => Closing'
    BY <1>1 DEF CleanInv
  <1>2. CASE BeginFrame
    BY <1>2 DEF BeginFrame
  <1>3. CASE PushDataBit
    <2>1. /\ clean /\ caller' = caller /\ frame' = frame /\ byte_bits # <<>>
      BY <1>3 DEF PushDataBit, sending
    <2>2. Closing => byte_bits = <<>>
      BY DEF Closing, MarkerSent
    <2> QED
      BY <1>3, <2>1, <2>2, SendingPushes DEF CleanInv
  <1>4. CASE EndFrame
    <2>1. clean /\ caller' = "idle"
      BY <1>4 DEF EndFrame
    <2> QED
      BY <1>4, <2>1, ClosingBegins
  <1>5. CASE Transfer
    <2>1. clean /\ caller' = caller /\ frame' = frame
      BY <1>5 DEF Transfer, sending
    <2> QED
      BY <1>5, <2>1, SendingTransfer, ClosingTransfer
  <1>6. CASE LineStep
    BY <1>6 DEF LineStep, Lose, Noise, Disturb
  <1>7. CASE UNCHANGED vars
    BY <1>7 DEF vars, encoder, decoder, line, sending, result, CleanInv, Sending,
                Pushed, Decoded, OnesAreCounted, Closing, MarkerSent
  <1> QED
    BY <1>2, <1>3, <1>4, <1>5, <1>6, <1>7

\* A frame begins with a byte whose first bit is a 0, as one of AX.25 does: the
\* first byte is a character of an address, which is shifted left by one.
FirstBitIsZero == \A byte \in FirstBytes : byte[1] = 0

LEMMA CleanOfStep ==
  FirstBitIsZero /\ HdlcInv /\ CleanInv /\ [Next]_vars => CleanInv'
  <1> SUFFICES ASSUME FirstBitIsZero, HdlcInv, CleanInv, [Next]_vars
               PROVE  CleanInv'
    OBVIOUS
  <1>1. ASSUME NEW byte \in Bytes, EncodeByte(byte) PROVE CleanInv'
    <2>1. byte \in Byte /\ (caller = "begun" => byte[1] = 0)
      BY <1>1, BytesAssumption DEF EncodeByte, FirstBitIsZero
    <2> QED
      BY <1>1, <2>1, CleanOfByte
  <1> QED
    BY <1>1, CleanOfOthers DEF Next, SenderStep

\* A frame that nothing disturbs arrives as it was sent, whatever the line carried
\* before: every stuffed 0 is removed and no byte is taken for a marker.
THEOREM CleanFramesArrive == FirstBitIsZero => (Spec => []CleanFrameArrives)
  <1> SUFFICES ASSUME FirstBitIsZero PROVE Spec => []CleanFrameArrives
    OBVIOUS
  <1>1. Init => CleanInv
    BY DEF Init, CleanInv, SyncInv
  <1>2. HdlcInv /\ CleanInv /\ [Next]_vars => CleanInv'
    BY CleanOfStep
  <1>3. CleanInv => CleanFrameArrives
    <2> SUFFICES ASSUME CleanInv, Ready, caller = "idle", clean, frame # <<>>
                 PROVE  delivered = frame /\ ~is_inside_frame
      BY DEF CleanFrameArrives
    <2>1. Closing
      BY DEF CleanInv
    <2>2. PICK n \in 0..8 :
            /\ MarkerSent(n)
            /\ n = 8 => delivered = frame /\ ~is_inside_frame
      BY <2>1 DEF Closing
    <2>3. n = 8
      BY <2>2 DEF MarkerSent, Ready
    <2> QED
      BY <2>2, <2>3
  <1> QED
    BY <1>1, <1>2, <1>3, InitInv, NextKeepsInv, PTL DEF Spec

--------------------------------------------------------------------------------
(* The message and the layers it goes through.                              *)

\* A frame of AX.25 begins with a 0: its first byte is the first character of
\* an address, which the encoder shifts left by one.
LEMMA EncodeBeginsWithZero ==
  ASSUME NEW m \in Messages
  PROVE  Encode(m) \in Seq(Byte) /\ Encode(m) # <<>> /\ Encode(m)[1][1] = 0
  <1>1. m \in Message /\ Len(m.repeaters) <= MaxNumRepeaters
    BY MessagesAssumption
  <1>2. PICK n \in Nat : n = Len(m.repeaters)
    BY <1>1, LenProperties DEF Message
  <1>3. PICK e : e = Len(FrameContent(m))
    OBVIOUS
  <1>4. PICK a : a = AddressEnd(n + 2)
    OBVIOUS
  <1>5. /\ Encode(m) \in Seq(Byte) /\ e \in Nat /\ Len(Encode(m)) = e + 2
        /\ IsContent(Encode(m), m, n, a, e)
    BY <1>1, <1>2, <1>3, <1>4, EncodedLayout
  <1> DEFINE station == AddressesOf(m, n)[1]
             h == 1 # n + 2
             bytes == Encode(m)
  <1>6. station \in Address
    BY <1>1, <1>2 DEF Message, AddressesOf
  <1>7. 1 \in 1..(n + 2) /\ 1 \in 1..AddressLength /\ 1 \in 1..CallsignLength
    BY <1>2, LengthsAssumption DEF AddressLength
  <1>8. bytes[AddressEnd(1 - 1) + 1] = PushAddress(station, h)[1]
    BY <1>5, <1>7 DEF IsContent
  <1>9. AddressEnd(1 - 1) + 1 = 1
    BY AddressEnds
  <1>10. h \in BOOLEAN
    OBVIOUS
  <1> HIDE DEF station, h, bytes
  <1>11. PushAddress(station, h)[1] = <<0>> \o station.callsign[1]
    BY <1>6, <1>7, <1>10, PushAddressType
  <1>12. (<<0>> \o station.callsign[1])[1] = 0
    <2>1. station.callsign[1] \in Char
      BY <1>6, <1>7 DEF Address
    <2>2. PICK c \in Seq(Bit) : c = station.callsign[1]
      BY <2>1 DEF Char
    <2>3. (<<0>> \o c)[1] = 0
      BY DEF Bit
    <2> QED
      BY <2>2, <2>3
  <1>13. bytes[1][1] = 0
    BY <1>8, <1>9, <1>11, <1>12
  <1>14. bytes # <<>>
    <2>1. Len(bytes) # 0
      BY <1>5 DEF bytes
    <2> QED
      BY <2>1
  <1> QED
    BY <1>5, <1>13, <1>14 DEF bytes

\* What one more bit does to what the frame markers enclose: nothing, the end
\* of a frame, its first byte, or one more byte.
ResultRests == UNCHANGED <<consumer, received, delivered>>

ResultEnds ==
  /\ consumer = "data" /\ consumer' = "outside"
  /\ delivered' = received /\ received' = <<>>

ResultBegins ==
  /\ consumer = "outside" /\ consumer' = "data" /\ UNCHANGED delivered
  /\ \E byte \in Byte : received' = <<byte>>

ResultGrows ==
  /\ consumer = "data" /\ consumer' = "data" /\ UNCHANGED delivered
  /\ \E byte \in Byte : received' = Append(received, byte)

LEMMA ResultOfBit ==
  ASSUME DecoderTypes, FramesAreDelimited, NEW bit \in Bit, DecodeBit(bit)
  PROVE  ResultRests \/ ResultEnds \/ ResultBegins \/ ResultGrows
  <1> USE DEF ResultRests, ResultEnds, ResultBegins, ResultGrows
  <1>1. CASE DecodeMarker(bit)
    <2>1. CASE is_inside_frame
      <3>1. consumer = "data"
        BY <2>1 DEF FramesAreDelimited
      <3>2. consumer' = Give("end") /\ delivered' = received /\ received' = <<>>
        BY <1>1, <2>1 DEF DecodeMarker
      <3> QED
        BY <3>1, <3>2 DEF Give
    <2>2. CASE ~is_inside_frame
      BY <1>1, <2>2 DEF DecodeMarker, result
    <2> QED
      BY <2>1, <2>2
  <1>2. CASE DropStuffing(bit) \/ KeepDataBit(bit)
    BY <1>2 DEF DropStuffing, KeepDataBit, result
  <1>3. CASE CompleteByte(bit)
    <2> DEFINE byte == Append(data_bits, bit)
    <2>1. byte \in Byte
      <3>1. data_bits \in Seq(Bit) /\ Len(data_bits) = 7
        BY <1>3 DEF CompleteByte, DecoderTypes
      <3>2. byte \in Seq(Bit) /\ Len(byte) = Len(data_bits) + 1
        BY <3>1, AppendBit
      <3>3. Len(byte) = 8
        BY <3>1, <3>2
      <3> QED
        BY <3>2, <3>3 DEF Byte
    <2>2. delivered' = delivered
      BY <1>3 DEF CompleteByte
    <2>3. CASE need_open_frame
      <3>1. consumer = "outside"
        BY <2>3 DEF FramesAreDelimited, DecoderTypes
      <3>2. consumer' = "data" /\ received' = <<byte>>
        BY <1>3, <2>3, <3>1 DEF CompleteByte, Give
      <3> HIDE DEF byte
      <3> QED
        BY <2>1, <2>2, <3>1, <3>2
    <2>4. CASE ~need_open_frame /\ is_inside_frame
      <3>1. consumer = "data"
        BY <2>4 DEF FramesAreDelimited
      <3>2. consumer' = "data" /\ received' = Append(received, byte)
        BY <1>3, <2>4, <3>1 DEF CompleteByte, Give
      <3> HIDE DEF byte
      <3> QED
        BY <2>1, <2>2, <3>1, <3>2
    <2>5. CASE ~need_open_frame /\ ~is_inside_frame
      BY <1>3, <2>2, <2>5 DEF CompleteByte
    <2> QED
      BY <2>3, <2>4, <2>5
  <1> QED
    BY <1>1, <1>2, <1>3 DEF DecodeBit

\* What the HDLC decoder returns for it.
LEMMA HdlcResultOfBit ==
  ASSUME received \in Seq(Byte)
  PROVE  /\ ResultRests => HdlcResult = <<>>
         /\ ResultEnds => HdlcResult = <<<<"end">>>>
         /\ ResultBegins => HdlcResult = <<<<"begin">>, <<"data", received'[1]>>>>
         /\ ResultGrows => HdlcResult = <<<<"data", received'[Len(received')]>>>>
  <1>1. ResultRests => HdlcResult = <<>>
    BY DEF ResultRests, HdlcResult
  <1>2. ResultEnds => HdlcResult = <<<<"end">>>>
    BY DEF ResultEnds, HdlcResult
  <1>3. ResultBegins => HdlcResult = <<<<"begin">>, <<"data", received'[1]>>>>
    BY DEF ResultBegins, HdlcResult
  <1>4. ASSUME ResultGrows PROVE HdlcResult = <<<<"data", received'[Len(received')]>>>>
    <2>1. PICK byte \in Byte : received' = Append(received, byte)
      BY <1>4 DEF ResultGrows
    <2>2. Len(received') = Len(received) + 1 /\ Len(received) \in Nat
      BY <2>1, AppendProperties, LenProperties
    <2>3. received' # received
      BY <2>2
    <2> QED
      BY <1>4, <2>3 DEF ResultGrows, HdlcResult
  <1> QED
    BY <1>1, <1>2, <1>3, <1>4

\* What is handed over while a level is seen.
LEMMA HandoverOfLevel ==
  ASSUME received \in Seq(Byte), FramesAreDelimited, ReceptionInv, Handover,
         consumer \in {"outside", "data", "confused"}, ReceiveLevel,
         ResultRests \/ ResultEnds \/ ResultBegins \/ ResultGrows
  PROVE  Handover'
  <1>1. /\ hdlc_result = <<>> /\ hdlc_result' = HdlcResult
        /\ UNCHANGED <<decoderVars, decoded, seen, before>> /\ seen' = seen
    BY DEF ReceiveLevel, receptionVars
  <1>2. /\ FollowsTheBytes => FollowsTheBytes'
        /\ ReturnsTheMessage => ReturnsTheMessage'
    BY <1>1, ReceptionRests
  <1>3. IF consumer = "data" THEN seen = received /\ FollowsTheBytes
        ELSE seen = delivered /\ ReturnsTheMessage
    BY <1>1 DEF Handover
  <1>4. consumer = "data" \/ consumer = "outside"
    BY DEF FramesAreDelimited
  <1>5. CASE ResultRests
    <2>1. hdlc_result' = <<>>
      BY <1>1, <1>5, HdlcResultOfBit
    <2> QED
      BY <1>1, <1>2, <1>3, <1>5, <2>1 DEF ResultRests, Handover
  <1>6. CASE ResultEnds
    <2>1. hdlc_result' = <<<<"end">>>>
      BY <1>1, <1>6, HdlcResultOfBit
    <2> QED
      BY <1>1, <1>2, <1>3, <1>6, <2>1 DEF ResultEnds, Handover
  <1>7. CASE ResultBegins
    <2>1. hdlc_result' = <<<<"begin">>, <<"data", received'[1]>>>>
      BY <1>1, <1>7, HdlcResultOfBit
    <2>2. consumer' = "data" /\ Len(received') = 1
      BY <1>7 DEF ResultBegins
    <2> QED
      BY <2>1, <2>2 DEF Handover
  <1>8. CASE ResultGrows
    <2>1. hdlc_result' = <<<<"data", received'[Len(received')]>>>>
      BY <1>1, <1>8, HdlcResultOfBit
    <2>2. PICK byte \in Byte : received' = Append(received, byte)
      BY <1>8 DEF ResultGrows
    <2>3. consumer = "data" /\ consumer' = "data"
      BY <1>8 DEF ResultGrows
    <2>4. seen = received /\ FollowsTheBytes'
      BY <1>2, <1>3, <2>3
    <2>5. /\ Len(received') = Len(received) + 1 /\ Len(received) \in Nat
          /\ received'[Len(received) + 1] = byte
      BY <2>2, AppendProperties, LenProperties
    <2>6. /\ received'[Len(seen') + 1] = byte /\ received' = Append(seen', byte)
          /\ hdlc_result' = <<<<"data", byte>>>>
      BY <1>1, <2>1, <2>2, <2>4, <2>5
    <2> QED
      BY <2>3, <2>4, <2>6 DEF Handover
  <1> QED
    BY <1>5, <1>6, <1>7, <1>8

\* The parts of a result of the HDLC decoder, one by one.
LEMMA ResultParts ==
  ASSUME NEW byte
  PROVE  /\ Head(<<<<"begin">>, <<"data", byte>>>>) = <<"begin">>
         /\ Tail(<<<<"begin">>, <<"data", byte>>>>) = <<<<"data", byte>>>>
         /\ Head(<<<<"data", byte>>>>) = <<"data", byte>>
         /\ Tail(<<<<"data", byte>>>>) = <<>>
         /\ Head(<<<<"end">>>>) = <<"end">>
         /\ Tail(<<<<"end">>>>) = <<>>
         /\ Len(<<<<"begin">>, <<"data", byte>>>>) = 2
         /\ Len(<<<<"data", byte>>>>) = 1 /\ Len(<<<<"end">>>>) = 1
         /\ <<<<"begin">>, <<"data", byte>>>> # <<>>
         /\ <<<<"data", byte>>>> # <<>> /\ <<<<"end">>>> # <<>>
         /\ <<"begin">>[1] = "begin" /\ <<"end">>[1] = "end"
         /\ <<"data", byte>>[1] = "data" /\ <<"data", byte>>[2] = byte
  <1> DEFINE one == <<"begin">>
             two == <<"data", byte>>
             three == <<"end">>
  <1>1. /\ one[1] = "begin" /\ two[1] = "data" /\ two[2] = byte /\ three[1] = "end"
    OBVIOUS
  <1> HIDE DEF one, two, three
  <1>2. /\ Head(<<one, two>>) = one /\ Tail(<<one, two>>) = <<two>>
        /\ Head(<<two>>) = two /\ Tail(<<two>>) = <<>>
        /\ Head(<<three>>) = three /\ Tail(<<three>>) = <<>>
        /\ Len(<<one, two>>) = 2 /\ Len(<<two>>) = 1 /\ Len(<<three>>) = 1
        /\ <<one, two>> # <<>> /\ <<two>> # <<>> /\ <<three>> # <<>>
    OBVIOUS
  <1> QED
    BY <1>1, <1>2, Zenon DEF one, two, three

\* A message that is taken is no longer owed.
LEMMA OwedOrTaken ==
  ASSUME TakeResult
  PROVE  /\ owed' \subseteq owed
         /\ owed' = {} \/ (owed' = owed /\ decoded' = decoded)
  BY DEF TakeResult

\* The AX.25 decoder is given what the HDLC decoder returned.
LEMMA FrameByteDecoded ==
  ASSUME received \in Seq(Byte), ReceptionInv, Handover, DecodeFrameByte
  PROVE  /\ ReceptionInv' /\ Handover' /\ owed' \subseteq owed
         /\ \/ /\ consumer = "data" /\ hdlc_result' # <<>>
               /\ Len(decoded') = before'
            \/ /\ Len(hdlc_result) = 1 /\ hdlc_result' = <<>>
               /\ consumer = "data" \/ (/\ consumer = "outside" /\ ReceiveEnd
                                        /\ FollowsTheBytes /\ seen = delivered)
               /\ before' = before
               /\ owed' = {} \/ (owed' = owed /\ decoded' = decoded)
  <1> DEFINE head == Head(hdlc_result)
  <1>1. /\ hdlc_result # <<>> /\ hdlc_result' = Tail(hdlc_result)
        /\ consumer' = consumer /\ received' = received /\ delivered' = delivered
        /\ \/ head[1] = "begin" /\ ReceiveBegin
           \/ head[1] = "data" /\ ReceiveByte(head[2])
           \/ head[1] = "end" /\ ReceiveEnd
    BY DEF DecodeFrameByte, vars, result
  <1> HIDE DEF head
  <1>2. CASE /\ consumer = "data" /\ Len(received) = 1
             /\ hdlc_result = <<<<"begin">>, <<"data", received[1]>>>>
    <2>1. /\ head = <<"begin">> /\ hdlc_result' = <<<<"data", received[1]>>>>
          /\ hdlc_result' # <<>> /\ head[1] = "begin"
      BY <1>1, <1>2, ResultParts DEF head
    <2>2. ReceiveBegin
      BY <1>1, <2>1
    <2>3. ReceptionInv' /\ FollowsTheBytes'
      BY <2>2, BeginReceived
    <2>4. /\ seen' = <<>> /\ before' = Len(decoded) /\ decoded' = decoded
          /\ owed' = owed
      BY <2>2 DEF ReceiveBegin
    <2>5. Handover'
      <3>1. received[1] \in Byte /\ received = <<received[1]>>
        BY <1>2
      <3>2. Len(seen') + 1 = 1 /\ Append(<<>>, received[1]) = <<received[1]>>
        BY <2>4
      <3>3. /\ received'[Len(seen') + 1] = received[1]
            /\ received' = Append(seen', received[1])
        BY <1>1, <2>4, <3>1, <3>2
      <3> QED
        BY <1>1, <1>2, <2>1, <2>3, <3>3 DEF Handover
    <2> QED
      BY <1>2, <2>1, <2>3, <2>4, <2>5
  <1>3. CASE /\ consumer = "data" /\ FollowsTheBytes
             /\ LET byte == received[Len(seen) + 1]
                IN received = Append(seen, byte) /\ hdlc_result = <<<<"data", byte>>>>
    <2>1. PICK byte : /\ byte = received[Len(seen) + 1]
                      /\ received = Append(seen, byte)
                      /\ hdlc_result = <<<<"data", byte>>>>
      BY <1>3
    <2>2. /\ head = <<"data", byte>> /\ hdlc_result' = <<>> /\ head[1] = "data"
          /\ head[2] = byte /\ Len(hdlc_result) = 1
      BY <1>1, <2>1, ResultParts DEF head
    <2>3. ReceiveByte(byte)
      BY <1>1, <2>2
    <2>4. byte \in Byte
      <3>1. seen \in Seq(Byte)
        BY DEF ReceptionInv, ReceptionTypeOK
      <3>2. received = seen \o <<byte>> /\ Len(received) = Len(seen) + 1
        <4>1. Len(received) = Len(seen) + 1
          BY <2>1, <3>1
        <4> QED
          BY <2>1, <3>1, <4>1
      <3>3. Len(seen) + 1 \in 1..Len(received)
        BY <3>1, <3>2, LenProperties
      <3> QED
        BY <2>1, <3>3, ElementOfSeq
    <2>5. ReceptionInv' /\ FollowsTheBytes'
      BY <1>3, <2>3, <2>4, ByteReceived
    <2>6. seen' = Append(seen, byte) /\ before' = before /\ TakeResult
      BY <2>3 DEF ReceiveByte
    <2>7. Handover'
      BY <1>1, <1>3, <2>1, <2>2, <2>5, <2>6 DEF Handover
    <2> QED
      BY <1>3, <2>2, <2>5, <2>6, <2>7, OwedOrTaken
  <1>4. CASE /\ hdlc_result = <<<<"end">>>>
             /\ consumer = "outside" /\ seen = delivered /\ FollowsTheBytes
    <2>1. /\ head = <<"end">> /\ hdlc_result' = <<>> /\ head[1] = "end"
          /\ Len(hdlc_result) = 1
      BY <1>1, <1>4, ResultParts DEF head
    <2>2. ReceiveEnd
      BY <1>1, <2>1
    <2>3. ReceptionInv' /\ ReturnsTheMessage'
      BY <1>4, <2>2, EndReceived
    <2>4. seen' = seen /\ before' = before /\ TakeResult
      BY <2>2 DEF ReceiveEnd
    <2>5. Handover'
      BY <1>1, <1>4, <2>1, <2>3, <2>4 DEF Handover
    <2> QED
      BY <1>4, <2>1, <2>2, <2>3, <2>4, <2>5, OwedOrTaken
  <1> QED
    BY <1>1, <1>2, <1>3, <1>4 DEF Handover

\* Every step keeps the invariant of the link below.
LEMMA HdlcOfStep ==
  ASSUME HdlcInv, SenderTypeOK, [AprsNext]_aprsVars
  PROVE  HdlcInv'
  <1>1. CASE [Next]_vars
    BY <1>1, NextKeepsInv
  <1>2. CASE EncodeMessage
    <2>1. to_encode \in Seq(Byte) /\ to_encode # <<>> /\ EncodeByte(Head(to_encode))
      BY <1>2 DEF EncodeMessage, SenderTypeOK
    <2>2. Head(to_encode) \in Byte
      BY <2>1, HeadTailProperties
    <2> QED
      BY <2>1, <2>2, EncodeByteKeepsInv
  <1>3. CASE TransferLevel
    <2>1. /\ Head(out_levels) \in Bit /\ See(Head(out_levels))
          /\ UNCHANGED <<encoder, out_bits, sent_level, sending, clean, noise>>
      BY <1>3, HeadTailProperties DEF TransferLevel, SenderTypeOK
    <2>2. seen_level' \in Bit /\ DecoderTypes' /\ FramesAreDelimited'
      BY <2>1, SeeKeepsInv
    <2> QED
      BY <2>1, <2>2 DEF HdlcInv, TypeOK, DecoderTypes, encoder, sending
  <1>4. CASE EncodeEmptyFrame \/ NextMessage \/ DecodeFrameByte \/ UNCHANGED aprsVars
    <2>1. UNCHANGED vars
      BY <1>4 DEF EncodeEmptyFrame, NextMessage, DecodeFrameByte, aprsVars
    <2> QED
      BY <1>1, <2>1
  <1>5. CASE \/ \E m \in Messages : BeginMessage(m)
             \/ EncodeBit \/ EndMessage \/ TransferBit \/ DisturbLine
    <2>1. Next
      BY <1>5 DEF BeginMessage, EncodeBit, EndMessage, TransferBit, DisturbLine,
                  Next, SenderStep
    <2> QED
      BY <1>1, <2>1
  <1> QED
    BY <1>2, <1>3, <1>4, <1>5 DEF AprsNext, Encoding, Decoding

\* A step of the sender leaves the two decoders and what is between them alone.
LEMMA HandoverRests ==
  ASSUME ReceptionInv, Handover, hdlc_result' = hdlc_result,
         UNCHANGED result, UNCHANGED <<decoderVars, decoded, seen, before>>
  PROVE  ReceptionInv' /\ Handover'
  <1>1. /\ ReceptionInv'
        /\ FollowsTheBytes => FollowsTheBytes'
        /\ ReturnsTheMessage => ReturnsTheMessage'
    BY ReceptionRests
  <1>2. /\ consumer' = consumer /\ received' = received /\ delivered' = delivered
        /\ seen' = seen
    BY DEF result
  <1> QED
    BY <1>1, <1>2, Zenon DEF Handover

\* The frame of the message has been received when the encoder may go on.
LEMMA NothingIsOwed ==
  ASSUME AprsInv, stage = "trailing", Idle, clean
  PROVE  owed = {}
  <1>1. CASE ~IsSending
    BY <1>1 DEF AprsInv, TrailingInv
  <1>2. CASE IsSending
    <2>1. CleanInv /\ MessageOnItsWay /\ (BehindItsFrame => owed = {})
      BY <1>2 DEF AprsInv, MessageInv
    <2>2. caller = "idle" /\ frame # <<>>
      BY <2>1 DEF AprsInv, SenderTypeOK, MessageOnItsWay
    <2>3. PICK n \in 0..8 : /\ MarkerSent(n)
                            /\ n = 8 => ~is_inside_frame
      BY <2>1, <2>2 DEF CleanInv, Closing
    <2>4. out_bits = <<>> /\ hdlc_result = <<>>
      BY DEF Idle, Ready
    <2>5. Len(out_bits) = 8 - n
      BY <2>3 DEF MarkerSent
    <2>6. n = 8
      BY <2>4, <2>5
    <2>7. consumer # "data"
      BY <2>3, <2>6 DEF AprsInv, FramesAreDelimited
    <2> QED
      BY <2>1, <2>2, <2>4, <2>7 DEF BehindItsFrame
  <1> QED
    BY <1>1, <1>2

LEMMA EmptyFrameKeepsInv ==
  ASSUME AprsInv, EncodeEmptyFrame, TypeOK', FramesAreDelimited'
  PROVE  AprsInv'
  <1>1. /\ Idle /\ stage' = stage /\ empty_frames' = empty_frames + 1
        /\ stage \in {"leading", "trailing"} /\ empty_frames \in Nat
        /\ out_levels' = FrameMarker \o FrameMarker
        /\ UNCHANGED vars /\ to_encode' = to_encode /\ hdlc_result' = hdlc_result
        /\ UNCHANGED <<decoderVars, owed, decoded, seen, before>>
    BY DEF EncodeEmptyFrame, AprsInv, SenderTypeOK, receptionVars
  <1>2. ~IsSending'
    BY <1>1 DEF IsSending
  <1>3. UNCHANGED <<caller, clean, out_bits, byte_bits>> /\ UNCHANGED result
    BY <1>1 DEF vars, sending, encoder
  <1>4. SenderTypeOK'
    <2>1. FrameMarker \o FrameMarker \in Seq(Bit)
      BY MarkerIsByte, ConcatProperties
    <2>2. Ready'
      BY <1>1, <1>3 DEF Idle, Ready
    <2> QED
      BY <1>1, <1>2, <1>3, <2>1, <2>2 DEF AprsInv, SenderTypeOK
  <1>5. ReceptionInv' /\ Handover'
    BY <1>1, <1>3, HandoverRests DEF AprsInv
  <1>6. MessageInv'
    BY <1>2 DEF MessageInv
  <1>7. TrailingInv'
    BY <1>1, <1>3, NothingIsOwed DEF TrailingInv
  <1> QED
    BY <1>4, <1>5, <1>6, <1>7 DEF AprsInv

LEMMA NextMessageKeepsInv ==
  ASSUME AprsInv, NextMessage, TypeOK', FramesAreDelimited'
  PROVE  AprsInv'
  <1>1. /\ Idle /\ stage' = "leading" /\ empty_frames' = 0
        /\ stage = "trailing"
        /\ out_levels' = out_levels
        /\ UNCHANGED vars /\ to_encode' = to_encode /\ hdlc_result' = hdlc_result
        /\ UNCHANGED <<decoderVars, owed, decoded, seen, before>>
    BY DEF NextMessage, receptionVars
  <1>2. ~IsSending'
    BY <1>1 DEF IsSending
  <1>3. UNCHANGED <<caller, clean, out_bits, byte_bits>> /\ UNCHANGED result
    BY <1>1 DEF vars, sending, encoder
  <1>4. SenderTypeOK'
    <2>1. Ready'
      BY <1>1, <1>3 DEF Idle, Ready
    <2> QED
      BY <1>1, <1>2, <1>3, <2>1 DEF AprsInv, SenderTypeOK
  <1>5. ReceptionInv' /\ Handover'
    BY <1>1, <1>3, HandoverRests DEF AprsInv
  <1> QED
    BY <1>1, <1>2, <1>4, <1>5 DEF AprsInv, MessageInv, TrailingInv

LEMMA BeginMessageKeepsInv ==
  ASSUME AprsInv, NEW m \in Messages, BeginMessage(m), TypeOK', FramesAreDelimited'
  PROVE  AprsInv'
  <1>1. /\ Idle /\ BeginFrame /\ stage' = "message" /\ to_encode' = Encode(m)
        /\ owed' = {m} /\ hdlc_result' = hdlc_result
        /\ UNCHANGED <<empty_frames, out_levels>>
        /\ UNCHANGED <<decoderVars, decoded, seen, before>>
    BY DEF BeginMessage
  <1>2. caller' = "begun" /\ frame' = <<>> /\ UNCHANGED result
    BY <1>1 DEF BeginFrame
  <1>3. Encode(m) \in Seq(Byte)
    BY EncodeBeginsWithZero
  <1>4. IsSending' /\ stage' # "trailing"
    BY <1>1 DEF IsSending
  <1>5. SenderTypeOK'
    BY <1>1, <1>2, <1>3, <1>4 DEF AprsInv, SenderTypeOK, Idle
  <1>6. ReceptionInv' /\ Handover'
    BY <1>1, <1>2, HandoverRests DEF AprsInv
  <1>7. CleanInv'
    BY <1>1, <1>2, SyncOfBegin DEF CleanInv
  <1>8. MessageOnItsWay'
    <2>1. <<>> \o Encode(m) = Encode(m)
      BY <1>3
    <2> QED
      BY <1>1, <1>2, <1>4, <2>1 DEF MessageOnItsWay
  <1>9. MessageInv'
    BY <1>2, <1>7, <1>8 DEF MessageInv, InItsFrame, BehindItsFrame
  <1> QED
    BY <1>4, <1>5, <1>6, <1>9 DEF AprsInv, TrailingInv

LEMMA EncodeMessageKeepsInv ==
  ASSUME AprsInv, EncodeMessage, TypeOK', FramesAreDelimited'
  PROVE  AprsInv'
  <1> DEFINE byte == Head(to_encode)
  <1>1. /\ Idle /\ stage = "message" /\ stage' = stage /\ to_encode # <<>>
        /\ EncodeByte(byte) /\ to_encode' = Tail(to_encode)
        /\ hdlc_result' = hdlc_result
        /\ UNCHANGED <<empty_frames, out_levels>>
        /\ UNCHANGED <<decoderVars, owed, decoded, seen, before>>
    BY DEF EncodeMessage, receptionVars
  <1>2. /\ caller' = "data" /\ frame' = Append(frame, byte) /\ clean' = clean
        /\ UNCHANGED result
    BY <1>1 DEF EncodeByte
  <1>3. to_encode \in Seq(Byte) /\ frame \in Seq(Byte) /\ HdlcInv
    BY DEF AprsInv, SenderTypeOK, TypeOK, HdlcInv
  <1>4. byte \in Byte /\ Tail(to_encode) \in Seq(Byte)
    BY <1>1, <1>3, FirstAndRest
  <1>5. IsSending /\ IsSending' /\ stage' = "message"
    BY <1>1 DEF IsSending
  <1> HIDE DEF byte
  <1>6. SenderTypeOK'
    BY <1>1, <1>2, <1>4, <1>5 DEF AprsInv, SenderTypeOK, Idle
  <1>7. ReceptionInv' /\ Handover'
    BY <1>1, <1>2, HandoverRests DEF AprsInv
  <1>8. CASE clean
    <2>1. /\ CleanInv /\ MessageOnItsWay
          /\ InItsFrame => owed = {} \/ Len(decoded) = before
      BY <1>5, <1>8 DEF AprsInv, MessageInv
    <2>2. PICK m \in Messages :
            /\ owed \subseteq {m} /\ frame \o to_encode = Encode(m)
            /\ frame = <<>> <=> caller = "begun"
      BY <2>1 DEF MessageOnItsWay
    <2>3. caller = "begun" => byte[1] = 0
      <3> SUFFICES ASSUME caller = "begun" PROVE byte[1] = 0
        OBVIOUS
      <3>1. to_encode = Encode(m)
        BY <1>3, <2>2
      <3>2. byte = Encode(m)[1]
        BY <1>1, <3>1 DEF byte
      <3> QED
        BY <3>2, EncodeBeginsWithZero
    <2>4. CleanInv'
      BY <1>1, <1>3, <1>4, <2>1, <2>3, CleanOfByte
    <2>5. frame' \o to_encode' = Encode(m)
      BY <1>1, <1>2, <1>3, <2>2, HeadMoves DEF byte
    <2>6. frame' # <<>>
      BY <1>2, <1>3, <1>4, AppendProperties
    <2>7. MessageOnItsWay'
      BY <1>1, <1>2, <1>5, <2>2, <2>5, <2>6 DEF MessageOnItsWay
    <2>8. InItsFrame' => InItsFrame
      <3> SUFFICES ASSUME caller = "begun", InItsFrame' PROVE FALSE
        BY <1>1, <1>2 DEF InItsFrame, result
      <3>1. consumer = "data"
        BY <1>1, <1>2 DEF InItsFrame, result, Idle
      <3>2. need_open_frame
        BY <1>1, <1>8, <2>1 DEF CleanInv, SyncInv, Opening, Idle, Ready
      <3> QED
        BY <3>1, <3>2 DEF AprsInv, FramesAreDelimited
    <2>9. ~BehindItsFrame'
      BY <1>2 DEF BehindItsFrame
    <2> QED
      BY <1>1, <1>5, <1>6, <1>7, <2>1, <2>4, <2>7, <2>8, <2>9
      DEF AprsInv, MessageInv, TrailingInv
  <1>9. CASE ~clean
    <2>1. ~clean'
      BY <1>2, <1>9
    <2> QED
      BY <1>6, <1>7, <2>1 DEF AprsInv, MessageInv, TrailingInv, CleanInv, SyncInv
  <1> QED
    BY <1>8, <1>9

LEMMA EncodeBitKeepsInv ==
  ASSUME AprsInv, EncodeBit, TypeOK', FramesAreDelimited'
  PROVE  AprsInv'
  <1>1. /\ PushDataBit /\ hdlc_result' = hdlc_result
        /\ UNCHANGED <<stage, empty_frames, to_encode, out_levels>>
        /\ UNCHANGED <<decoderVars, owed, decoded, seen, before>>
    BY DEF EncodeBit, sender, receptionVars
  <1>2. /\ byte_bits # <<>> /\ UNCHANGED result
        /\ UNCHANGED <<caller, frame, clean>>
    BY <1>1 DEF PushDataBit, sending
  <1>3. IsSending /\ IsSending'
    BY <1>1, <1>2 DEF AprsInv, SenderTypeOK, Ready, IsSending
  <1>4. SenderTypeOK'
    BY <1>1, <1>2, <1>3 DEF AprsInv, SenderTypeOK
  <1>5. ReceptionInv' /\ Handover'
    BY <1>1, <1>2, HandoverRests DEF AprsInv
  <1>6. CleanInv'
    BY <1>1, <1>3, CleanOfOthers DEF AprsInv, MessageInv, HdlcInv
  <1>7. consumer' = consumer
    BY <1>2 DEF result
  <1>8. /\ MessageOnItsWay => MessageOnItsWay'
        /\ InItsFrame' => InItsFrame
        /\ BehindItsFrame' => BehindItsFrame
    BY <1>1, <1>2, <1>7 DEF MessageOnItsWay, InItsFrame, BehindItsFrame
  <1>9. MessageInv'
    BY <1>1, <1>2, <1>3, <1>6, <1>8 DEF AprsInv, MessageInv
  <1> QED
    BY <1>3, <1>4, <1>5, <1>9 DEF AprsInv, TrailingInv

LEMMA EndMessageKeepsInv ==
  ASSUME AprsInv, EndMessage, TypeOK', FramesAreDelimited'
  PROVE  AprsInv'
  <1>1. /\ Idle /\ stage = "message" /\ to_encode = <<>> /\ EndFrame
        /\ stage' = "trailing" /\ empty_frames' = 0
        /\ to_encode' = to_encode
        /\ hdlc_result' = hdlc_result /\ out_levels' = out_levels
        /\ UNCHANGED <<decoderVars, owed, decoded, seen, before>>
    BY DEF EndMessage, receptionVars
  <1>2. /\ caller' = "idle" /\ UNCHANGED result
        /\ UNCHANGED <<frame, clean>>
    BY <1>1 DEF EndFrame
  <1>3. IsSending /\ IsSending'
    BY <1>1 DEF IsSending
  <1>4. SenderTypeOK'
    <2>1. 0 \in Nat
      OBVIOUS
    <2> QED
      BY <1>1, <1>2, <1>3, <2>1 DEF AprsInv, SenderTypeOK
  <1>5. ReceptionInv' /\ Handover'
    BY <1>1, <1>2, HandoverRests DEF AprsInv
  <1>6. CleanInv'
    BY <1>1, <1>3, CleanOfOthers DEF AprsInv, MessageInv, HdlcInv
  <1>7. consumer' = consumer
    BY <1>2 DEF result
  <1>8. ASSUME clean
        PROVE  /\ MessageOnItsWay'
               /\ InItsFrame' => owed = {} \/ Len(decoded) = before
               /\ ~BehindItsFrame'
    <2>1. /\ CleanInv /\ MessageOnItsWay
          /\ InItsFrame => owed = {} \/ Len(decoded) = before
      BY <1>3, <1>8 DEF AprsInv, MessageInv
    <2>2. PICK m \in Messages :
            /\ owed \subseteq {m} /\ frame \o to_encode = Encode(m)
            /\ frame = <<>> <=> caller = "begun"
      BY <2>1 DEF MessageOnItsWay
    <2>3. frame = Encode(m)
      BY <1>1, <2>2 DEF AprsInv, TypeOK
    <2>4. frame # <<>> /\ caller = "data"
      BY <1>1, <2>2, <2>3, EncodeBeginsWithZero DEF AprsInv, SenderTypeOK, TypeOK
    <2>5. MessageOnItsWay'
      BY <1>1, <1>2, <2>2, <2>4 DEF MessageOnItsWay
    <2>6. InItsFrame' => InItsFrame
      BY <1>1, <1>2, <1>7, <2>4 DEF InItsFrame
    <2>7. PICK n \in 0..8 : Pushed(n)
      BY <1>8, <2>1, <2>4 DEF CleanInv, Sending
    <2>8. out_bits = <<>> /\ byte_bits = <<>>
      BY <1>1 DEF Idle, Ready
    <2>9. n = 8
      BY <2>7, <2>8 DEF Pushed
    <2>10. received = frame
      BY <2>7, <2>8, <2>9 DEF Pushed, Decoded
    <2>11. consumer = "data"
      BY <2>4, <2>10 DEF AprsInv, FramesAreDelimited
    <2> QED
      BY <1>7, <2>1, <2>5, <2>6, <2>11 DEF BehindItsFrame
  <1>9. MessageInv'
    BY <1>1, <1>2, <1>6, <1>8 DEF MessageInv
  <1> QED
    BY <1>3, <1>4, <1>5, <1>9 DEF AprsInv, TrailingInv

\* What the decoder of the link makes of a level.
LEMMA ResultOfLevel ==
  ASSUME HdlcInv, NEW level \in Bit, See(level)
  PROVE  ResultRests \/ ResultEnds \/ ResultBegins \/ ResultGrows
  <1> DEFINE bit == DecodeLevel(level)
  <1>1. bit \in Bit
    BY DEF DecodeLevel, Bit
  <1>2. DecodeBit(bit)
    BY DEF See
  <1>3. DecoderTypes /\ FramesAreDelimited
    BY DEF HdlcInv, TypeOK, DecoderTypes
  <1> QED
    BY <1>1, <1>2, <1>3, ResultOfBit

\* A level that is seen keeps the two decoders together.
LEMMA LevelHandsOver ==
  ASSUME AprsInv, ReceiveLevel,
         ResultRests \/ ResultEnds \/ ResultBegins \/ ResultGrows
  PROVE  /\ ReceptionInv' /\ Handover'
         /\ UNCHANGED sender /\ UNCHANGED <<owed, decoded, before>>
         /\ InItsFrame' /\ caller' = caller => InItsFrame
         /\ BehindItsFrame' /\ caller' = caller => BehindItsFrame
  <1>1. /\ received \in Seq(Byte) /\ consumer \in {"outside", "data", "confused"}
        /\ FramesAreDelimited /\ ReceptionInv /\ Handover
    BY DEF AprsInv, TypeOK
  <1>2. /\ hdlc_result = <<>> /\ hdlc_result' = HdlcResult
        /\ UNCHANGED sender
        /\ UNCHANGED <<decoderVars, owed, decoded, seen, before>>
    BY DEF ReceiveLevel, receptionVars
  <1>3. ReceptionInv'
    BY <1>1, <1>2, ReceptionRests
  <1>4. Handover'
    BY <1>1, HandoverOfLevel
  <1>5. Len(hdlc_result) < 2
    BY <1>2
  <1>6. CASE ResultRests
    <2>1. hdlc_result' = <<>> /\ consumer' = consumer
      BY <1>1, <1>2, <1>6, HdlcResultOfBit DEF ResultRests
    <2> QED
      BY <1>2, <1>3, <1>4, <1>5, <2>1 DEF InItsFrame, BehindItsFrame
  <1>7. CASE ResultEnds
    <2>1. hdlc_result' = <<<<"end">>>> /\ consumer = "data"
      BY <1>1, <1>2, <1>7, HdlcResultOfBit DEF ResultEnds
    <2>2. hdlc_result' # <<>>
      BY <2>1, ResultParts
    <2> QED
      BY <1>2, <1>3, <1>4, <1>5, <2>1, <2>2 DEF InItsFrame, BehindItsFrame
  <1>8. CASE ResultBegins
    <2>1. /\ hdlc_result' = <<<<"begin">>, <<"data", received'[1]>>>>
          /\ consumer' = "data"
      BY <1>1, <1>2, <1>8, HdlcResultOfBit DEF ResultBegins
    <2>2. Len(hdlc_result') = 2
      BY <2>1, ResultParts
    <2> QED
      BY <1>2, <1>3, <1>4, <2>1, <2>2 DEF InItsFrame, BehindItsFrame
  <1>9. CASE ResultGrows
    <2>1. consumer = "data" /\ consumer' = "data"
      BY <1>9 DEF ResultGrows
    <2> QED
      BY <1>2, <1>3, <1>4, <1>5, <2>1 DEF InItsFrame, BehindItsFrame
  <1> QED
    BY <1>6, <1>7, <1>8, <1>9

LEMMA TransferBitKeepsInv ==
  ASSUME AprsInv, TransferBit, TypeOK', FramesAreDelimited'
  PROVE  AprsInv'
  <1>1. Transfer /\ ReceiveLevel /\ out_levels' = out_levels
    BY DEF TransferBit
  <1>2. HdlcInv /\ TypeOK
    BY DEF AprsInv, HdlcInv
  <1>3. /\ out_bits # <<>> /\ See(EncodeLevel(Head(out_bits)))
        /\ UNCHANGED <<caller, frame, clean>>
    BY <1>1 DEF Transfer, sending
  <1>4. ResultRests \/ ResultEnds \/ ResultBegins \/ ResultGrows
    BY <1>2, <1>3, LevelOfBit, ResultOfLevel
  <1>5. /\ ReceptionInv' /\ Handover'
        /\ UNCHANGED sender /\ UNCHANGED <<owed, decoded, before>>
        /\ InItsFrame' => InItsFrame
        /\ BehindItsFrame' => BehindItsFrame
    BY <1>1, <1>3, <1>4, LevelHandsOver
  <1>6. UNCHANGED <<stage, empty_frames, to_encode>>
    BY <1>5 DEF sender
  <1>7. IsSending /\ IsSending'
    BY <1>3, <1>6 DEF AprsInv, SenderTypeOK, Ready, IsSending
  <1>8. SenderTypeOK'
    BY <1>1, <1>3, <1>6, <1>7 DEF AprsInv, SenderTypeOK
  <1>9. CleanInv'
    BY <1>1, <1>2, <1>7, CleanOfOthers DEF AprsInv, MessageInv
  <1>10. MessageOnItsWay => MessageOnItsWay'
    BY <1>3, <1>5, <1>6 DEF MessageOnItsWay
  <1>11. MessageInv'
    BY <1>3, <1>5, <1>7, <1>9, <1>10 DEF AprsInv, MessageInv
  <1> QED
    BY <1>5, <1>7, <1>8, <1>11 DEF AprsInv, TrailingInv

LEMMA TransferLevelKeepsInv ==
  ASSUME AprsInv, TransferLevel, TypeOK', FramesAreDelimited'
  PROVE  AprsInv'
  <1>1. /\ out_levels # <<>> /\ See(Head(out_levels)) /\ ReceiveLevel
        /\ out_levels' = Tail(out_levels)
        /\ UNCHANGED <<caller, clean, out_bits, byte_bits>>
    BY DEF TransferLevel, encoder, sending
  <1>2. HdlcInv /\ out_levels \in Seq(Bit)
    BY DEF AprsInv, HdlcInv, SenderTypeOK
  <1>3. Head(out_levels) \in Bit /\ out_levels' \in Seq(Bit)
    BY <1>1, <1>2, HeadTailProperties
  <1>4. ResultRests \/ ResultEnds \/ ResultBegins \/ ResultGrows
    BY <1>1, <1>2, <1>3, ResultOfLevel
  <1>5. /\ ReceptionInv' /\ Handover'
        /\ UNCHANGED sender /\ owed' = owed
    BY <1>1, <1>4, LevelHandsOver
  <1>6. UNCHANGED <<stage, empty_frames, to_encode>>
    BY <1>5 DEF sender
  <1>7. ~IsSending /\ ~IsSending'
    BY <1>1, <1>6 DEF AprsInv, SenderTypeOK, IsSending
  <1>8. SenderTypeOK'
    BY <1>1, <1>3, <1>6, <1>7 DEF AprsInv, SenderTypeOK, Ready
  <1> QED
    BY <1>1, <1>5, <1>6, <1>7, <1>8 DEF AprsInv, MessageInv, TrailingInv

LEMMA DisturbLineKeepsInv ==
  ASSUME AprsInv, DisturbLine, TypeOK', FramesAreDelimited'
  PROVE  AprsInv'
  <1>1. LineStep /\ ReceiveLevel /\ out_levels' = out_levels
    BY DEF DisturbLine
  <1>2. /\ ~clean' /\ caller' = caller /\ byte_bits' = byte_bits
        /\ out_bits # <<>> \/ out_bits' = out_bits
    BY <1>1 DEF LineStep, Lose, Noise, Disturb, sending, encoder
  <1>3. ResultRests \/ ResultEnds \/ ResultBegins \/ ResultGrows
    <2>1. CASE Lose
      BY <2>1 DEF Lose, result, ResultRests
    <2>2. CASE \E level \in Bit : Noise(level)
      BY <2>2, ResultOfLevel DEF Noise, AprsInv, HdlcInv
    <2> QED
      BY <1>1, <2>1, <2>2 DEF LineStep
  <1>4. ReceptionInv' /\ Handover' /\ UNCHANGED sender
    BY <1>1, <1>3, LevelHandsOver
  <1>5. UNCHANGED <<stage, empty_frames, to_encode>>
    BY <1>4 DEF sender
  <1>6. IsSending' <=> IsSending
    BY <1>5 DEF IsSending
  <1>7. SenderTypeOK'
    BY <1>1, <1>2, <1>5, <1>6 DEF AprsInv, SenderTypeOK, Ready
  <1> QED
    BY <1>2, <1>4, <1>7
    DEF AprsInv, MessageInv, TrailingInv, CleanInv, SyncInv

LEMMA FrameByteKeepsInv ==
  ASSUME AprsInv, DecodeFrameByte, TypeOK', FramesAreDelimited'
  PROVE  AprsInv'
  <1>1. /\ hdlc_result # <<>> /\ UNCHANGED vars /\ UNCHANGED sender
        /\ out_levels' = out_levels
    BY DEF DecodeFrameByte
  <1>2. /\ UNCHANGED <<stage, empty_frames, to_encode>>
        /\ UNCHANGED <<caller, frame, clean, out_bits, byte_bits, consumer>>
    BY <1>1 DEF vars, sender, sending, encoder, result
  <1>3. IsSending' <=> IsSending
    BY <1>2 DEF IsSending
  <1>4. SenderTypeOK'
    BY <1>1, <1>2, <1>3 DEF AprsInv, SenderTypeOK, Ready
  <1>5. /\ ReceptionInv' /\ Handover' /\ owed' \subseteq owed
        /\ \/ /\ consumer = "data" /\ hdlc_result' # <<>>
              /\ Len(decoded') = before'
           \/ /\ Len(hdlc_result) = 1 /\ hdlc_result' = <<>>
              /\ consumer = "data" \/ (/\ consumer = "outside" /\ ReceiveEnd
                                       /\ FollowsTheBytes /\ seen = delivered)
              /\ before' = before
              /\ owed' = {} \/ (owed' = owed /\ decoded' = decoded)
    BY FrameByteDecoded DEF AprsInv, TypeOK
  <1>6. TrailingInv'
    BY <1>2, <1>3, <1>5 DEF AprsInv, TrailingInv
  <1>7. ASSUME IsSending PROVE CleanInv'
    BY <1>1, <1>7, CleanOfOthers DEF AprsInv, MessageInv, HdlcInv
  <1>8. ASSUME IsSending, clean
        PROVE  /\ MessageOnItsWay'
               /\ InItsFrame' => owed' = {} \/ Len(decoded') = before'
               /\ BehindItsFrame' => owed' = {}
    <2>1. /\ CleanInv /\ MessageOnItsWay
          /\ InItsFrame => owed = {} \/ Len(decoded) = before
      BY <1>8 DEF AprsInv, MessageInv
    <2>2. PICK m \in Messages :
            /\ owed \subseteq {m} /\ frame \o to_encode = Encode(m)
            /\ stage = "trailing" => to_encode = <<>>
            /\ frame = <<>> <=> caller = "begun"
      BY <2>1 DEF MessageOnItsWay
    <2>3. MessageOnItsWay'
      <3>1. owed' \subseteq {m}
        BY <1>5, <2>2
      <3> QED
        BY <1>2, <2>2, <3>1 DEF MessageOnItsWay
    <2>4. CASE hdlc_result' # <<>> /\ Len(decoded') = before'
      BY <2>3, <2>4 DEF BehindItsFrame
    <2>5. CASE /\ Len(hdlc_result) = 1 /\ hdlc_result' = <<>>
               /\ consumer = "data" \/ (/\ consumer = "outside" /\ ReceiveEnd
                                        /\ FollowsTheBytes /\ seen = delivered)
               /\ before' = before
               /\ owed' = {} \/ (owed' = owed /\ decoded' = decoded)
      <3>1. caller # "begun" => owed = {} \/ Len(decoded) = before
        BY <1>1, <2>1, <2>5 DEF InItsFrame
      <3>2. InItsFrame' => owed' = {} \/ Len(decoded') = before'
        BY <1>2, <2>5, <3>1 DEF InItsFrame
      <3>3. ASSUME BehindItsFrame' PROVE owed' = {}
        <4>1. caller = "idle" /\ consumer # "data"
          BY <1>2, <3>3 DEF BehindItsFrame
        <4>2. ReceiveEnd /\ FollowsTheBytes /\ seen = delivered
          BY <2>5, <4>1
        <4>3. frame # <<>> /\ Closing
          BY <1>8, <2>1, <2>2, <4>1 DEF CleanInv
        <4>4. delivered = frame
          <5>1. PICK n \in 0..8 : IF n = 8 THEN delivered = frame
                                  ELSE received = frame
            BY <4>3 DEF Closing
          <5>2. received # frame
            BY <4>1, <4>3 DEF AprsInv, FramesAreDelimited
          <5> QED
            BY <5>1, <5>2
        <4>5. stage = "trailing"
          BY <1>8, <4>1 DEF AprsInv, SenderTypeOK, IsSending
        <4>6. frame = Encode(m)
          BY SMTT(30), <2>2, <4>5 DEF AprsInv, TypeOK
        <4>7. CASE owed = {}
          BY <1>5, <4>7
        <4>8. CASE Len(decoded) = before
          BY <4>2, <4>4, <4>6, <4>8, MessageReceived DEF AprsInv
        <4> QED
          BY <3>1, <4>1, <4>7, <4>8
      <3> QED
        BY <2>3, <3>2, <3>3
    <2> QED
      BY <1>5, <2>4, <2>5
  <1>9. MessageInv'
    BY <1>2, <1>3, <1>7, <1>8 DEF MessageInv
  <1> QED
    BY <1>4, <1>5, <1>6, <1>9 DEF AprsInv

LEMMA AprsInitInv == AprsInit => AprsInv /\ NoiselessInv
  <1> SUFFICES ASSUME AprsInit PROVE AprsInv /\ NoiselessInv
    OBVIOUS
  <1>1. /\ Init /\ stage = "leading" /\ empty_frames = 0 /\ to_encode = <<>>
        /\ out_levels = <<>> /\ hdlc_result = <<>> /\ ReceptionInit
    BY DEF AprsInit
  <1>2. /\ out_bits = <<>> /\ byte_bits = <<>> /\ caller = "idle"
        /\ consumer = "outside" /\ delivered = <<>>
        /\ sent_level = 0 /\ seen_level = 0
    BY <1>1 DEF Init
  <1>3. TypeOK /\ FramesAreDelimited
    BY <1>1, InitInv DEF HdlcInv
  <1>4. ~IsSending
    BY <1>1 DEF IsSending
  <1>5. SenderTypeOK
    <2>1. <<>> \in Seq(Byte) /\ <<>> \in Seq(Bit) /\ 0 \in Nat
      OBVIOUS
    <2> QED
      BY <1>1, <1>2, <1>4, <2>1 DEF SenderTypeOK, Ready
  <1>6. ReceptionInv /\ ReturnsTheMessage
    BY <1>1, ReceptionInitInv
  <1>7. Handover
    <2>1. seen = delivered
      BY <1>1, <1>2 DEF ReceptionInit
    <2> QED
      BY <1>1, <1>2, <1>6, <2>1 DEF Handover
  <1>8. MessageInv /\ TrailingInv
    BY <1>1, <1>4 DEF MessageInv, TrailingInv
  <1>9. NoiselessInv
    BY <1>1, <1>2, <1>4 DEF NoiselessInv
  <1> QED
    BY <1>3, <1>5, <1>6, <1>7, <1>8, <1>9 DEF AprsInv

LEMMA AprsStepKeepsInv == AprsInv /\ [AprsNext]_aprsVars => AprsInv'
  <1> SUFFICES ASSUME AprsInv, [AprsNext]_aprsVars PROVE AprsInv'
    OBVIOUS
  <1>1. TypeOK' /\ FramesAreDelimited'
    BY HdlcOfStep DEF AprsInv, HdlcInv
  <1>2. CASE UNCHANGED aprsVars
    <2>1. /\ UNCHANGED vars /\ UNCHANGED <<decoderVars, owed, decoded, seen, before>>
          /\ UNCHANGED <<stage, empty_frames, to_encode, out_levels, hdlc_result>>
      BY <1>2 DEF aprsVars, sender, receptionVars
    <2>2. /\ UNCHANGED <<caller, frame, clean, out_bits, byte_bits, consumer>>
          /\ UNCHANGED result
      BY <2>1 DEF vars, sending, encoder, result
    <2>3. ReceptionInv' /\ Handover'
      BY <2>1, <2>2, HandoverRests DEF AprsInv
    <2>4. IsSending' <=> IsSending
      BY <2>1 DEF IsSending
    <2>5. SenderTypeOK'
      BY <2>1, <2>2, <2>4 DEF AprsInv, SenderTypeOK, Ready
    <2>6. IsSending => CleanInv'
      BY <2>1, CleanOfOthers DEF AprsInv, MessageInv, HdlcInv
    <2>7. /\ MessageOnItsWay => MessageOnItsWay'
          /\ InItsFrame' => InItsFrame
          /\ BehindItsFrame' => BehindItsFrame
      BY <2>1, <2>2 DEF MessageOnItsWay, InItsFrame, BehindItsFrame
    <2>8. MessageInv'
      BY <2>1, <2>2, <2>4, <2>6, <2>7 DEF AprsInv, MessageInv
    <2> QED
      BY <1>1, <2>1, <2>2, <2>3, <2>4, <2>5, <2>8 DEF AprsInv, TrailingInv
  <1>3. CASE Encoding
    BY <1>1, <1>3, EmptyFrameKeepsInv, BeginMessageKeepsInv, EncodeMessageKeepsInv,
       EncodeBitKeepsInv, EndMessageKeepsInv, NextMessageKeepsInv DEF Encoding
  <1>4. CASE Decoding
    BY <1>1, <1>4, TransferBitKeepsInv, TransferLevelKeepsInv, DisturbLineKeepsInv,
       FrameByteKeepsInv DEF Decoding
  <1> QED
    BY <1>2, <1>3, <1>4 DEF AprsNext

LEMMA LastOfTail ==
  ASSUME NEW s \in Seq(Bit), s # <<>>, s[Len(s)] = 0
  PROVE  IF Tail(s) = <<>> THEN Head(s) = 0 ELSE Tail(s)[Len(Tail(s))] = 0
  <1>1. PICK rest \in Seq(Bit) : rest = Tail(s)
    BY HeadTailProperties
  <1>2. PICK n \in Nat : n = Len(rest)
    BY LenProperties
  <1>3. n = Len(s) - 1 /\ Len(s) = n + 1
    BY <1>1, <1>2, HeadTailProperties, LenProperties
  <1>4. s[n + 1] = 0
    BY <1>3
  <1>5. \A i \in 1..n : rest[i] = s[i + 1]
    BY <1>1, <1>2, HeadTailProperties
  <1>6. CASE rest = <<>>
    <2>1. n = 0
      BY <1>2, <1>6
    <2>2. s[1] = 0
      BY <1>4, <2>1
    <2> QED
      BY <1>1, <1>6, <2>2
  <1>7. CASE rest # <<>>
    <2>1. n # 0
      BY <1>2, <1>7, EmptySeq
    <2>2. rest[n] = 0
      BY <1>4, <1>5, <2>1
    <2> QED
      BY <1>1, <1>2, <1>7, <2>2
  <1> QED
    BY <1>6, <1>7

\* The levels of a line without noise.
LEMMA NoiselessStep ==
  TypeOK /\ SenderTypeOK /\ NoiselessInv /\ [AprsNext]_aprsVars => NoiselessInv'
  <1> SUFFICES ASSUME TypeOK, SenderTypeOK, NoiselessInv, [AprsNext]_aprsVars,
                      noise' = 0
               PROVE  NoiselessInv'
    BY DEF NoiselessInv
  <1> DEFINE bare == NumLeading + NumTrailing = 0
             marked == IF out_levels = <<>> THEN seen_level = 0
                       ELSE out_levels[Len(out_levels)] = 0
  <1>1. /\ frames \in Nat /\ noise \in Nat /\ empty_frames \in Nat
        /\ out_levels \in Seq(Bit)
    BY DEF TypeOK, SenderTypeOK
  <1>2. ASSUME noise = 0
        PROVE  /\ stage # "leading" /\ (frames <= 1 \/ bare) => clean
               /\ bare => out_levels = <<>> /\ seen_level = sent_level
               /\ frames = 0 => stage = "leading" /\ sent_level = 0 /\ marked
    BY <1>2 DEF NoiselessInv
  <1>3. SUFFICES /\ stage' # "leading" /\ (frames' <= 1 \/ bare) => clean'
                 /\ bare => out_levels' = <<>> /\ seen_level' = sent_level'
                 /\ frames' = 0 => stage' = "leading" /\ sent_level' = 0 /\ marked'
    BY DEF NoiselessInv
  <1>4. bare => NumLeading = 0 /\ NumTrailing = 0
    BY EmptyFramesAssumption
  <1> HIDE DEF bare
  <1>5. CASE EncodeEmptyFrame
    <2>1. /\ stage' = stage /\ empty_frames' = empty_frames + 1
          /\ stage \in {"leading", "trailing"} /\ ~bare
          /\ out_levels' = FrameMarker \o FrameMarker
          /\ UNCHANGED <<noise, frames, seen_level, sent_level>>
      BY <1>1, <1>4, <1>5 DEF EncodeEmptyFrame, vars, line, sending
    <2>2. clean' = clean
      BY <1>5 DEF EncodeEmptyFrame, vars
    <2>3. /\ Len(FrameMarker \o FrameMarker) = 16
          /\ (FrameMarker \o FrameMarker)[16] = 0
      BY DEF FrameMarker
    <2>4. out_levels' # <<>> /\ out_levels'[Len(out_levels')] = 0
      BY <2>1, <2>3
    <2> QED
      BY <1>2, <2>1, <2>2, <2>4
  <1>6. ASSUME NEW m \in Messages, BeginMessage(m)
        PROVE  /\ stage' # "leading" /\ (frames' <= 1 \/ bare) => clean'
               /\ bare => out_levels' = <<>> /\ seen_level' = sent_level'
               /\ frames' # 0
    <2>1. /\ frames' = frames + 1 /\ clean' = (seen_level = sent_level)
          /\ UNCHANGED <<noise, seen_level, sent_level, out_levels>>
          /\ out_levels = <<>>
      BY <1>6 DEF BeginMessage, BeginFrame, Idle, line
    <2>2. (frames' <= 1 => frames = 0) /\ frames' # 0
      BY <1>1, <2>1
    <2>3. frames' <= 1 \/ bare => seen_level = sent_level
      BY <1>2, <2>1, <2>2
    <2>4. frames' <= 1 \/ bare => clean'
      BY <2>1, <2>3
    <2> QED
      BY <1>2, <2>1, <2>2, <2>4
  <1>7. CASE EncodeMessage \/ EncodeBit
    <2>1. /\ UNCHANGED <<noise, frames, clean, seen_level, sent_level, out_levels>>
          /\ stage' = stage /\ empty_frames' = empty_frames
      BY <1>7 DEF EncodeMessage, EncodeBit, EncodeByte, PushDataBit, sender, line,
                  sending
    <2> QED
      BY <1>2, <2>1
  <1>8. CASE EndMessage
    <2>1. /\ UNCHANGED <<noise, frames, clean, seen_level, sent_level, out_levels>>
          /\ stage = "message"
      BY <1>8 DEF EndMessage, EndFrame, line
    <2> QED
      BY <1>2, <2>1
  <1>9. CASE NextMessage
    <2>1. /\ UNCHANGED <<noise, frames, seen_level, sent_level, out_levels>>
          /\ stage' = "leading"
      BY <1>9 DEF NextMessage, vars, line, sending
    <2> QED
      BY <1>2, <2>1
  <1>10. CASE TransferBit
    <2>1. /\ UNCHANGED <<noise, frames, clean, stage, empty_frames, out_levels>>
          /\ seen_level' = sent_level' /\ out_bits # <<>>
      BY <1>10 DEF TransferBit, Transfer, ReceiveLevel, See, sender, sending
    <2>2. stage # "leading"
      BY <2>1 DEF SenderTypeOK, Ready, IsSending
    <2> QED
      BY <1>2, <2>1, <2>2
  <1>11. CASE TransferLevel
    <2>1. /\ UNCHANGED <<noise, frames, clean, stage, empty_frames, sent_level>>
          /\ seen_level' = Head(out_levels) /\ out_levels # <<>>
          /\ out_levels' = Tail(out_levels)
      BY <1>11 DEF TransferLevel, ReceiveLevel, See, sender, sending
    <2>2. ~bare
      BY <1>2, <2>1
    <2>3. frames = 0 => marked'
      <3> SUFFICES ASSUME frames = 0 PROVE marked'
        OBVIOUS
      <3>1. out_levels[Len(out_levels)] = 0
        BY <1>2, <2>1
      <3> QED
        BY <1>1, <2>1, <3>1, LastOfTail
    <2> QED
      BY <1>2, <2>1, <2>2, <2>3
  <1>12. CASE DisturbLine
    <2>1. noise' = noise + 1
      BY <1>12 DEF DisturbLine, LineStep, Lose, Noise, Disturb
    <2> QED
      BY <1>1, <2>1
  <1>13. CASE DecodeFrameByte \/ UNCHANGED aprsVars
    <2>1. /\ UNCHANGED <<noise, frames, clean, seen_level, sent_level, out_levels>>
          /\ stage' = stage /\ empty_frames' = empty_frames
      BY <1>13 DEF DecodeFrameByte, aprsVars, vars, line, sender, sending
    <2> QED
      BY <1>2, <2>1
  <1> HIDE DEF marked
  <1> QED
    BY <1>5, <1>6, <1>7, <1>8, <1>9, <1>10, <1>11, <1>12, <1>13
    DEF AprsNext, Encoding, Decoding

\* A message whose frame is not disturbed arrives, whatever the line carried
\* before it: by the time the encoder may send another frame it was decoded and
\* taken, once, through all four layers.
THEOREM CleanMessagesArrive ==
  AprsSpec => [](stage = "trailing" /\ Idle /\ clean => owed = {})
  <1>1. AprsInv => (stage = "trailing" /\ Idle /\ clean => owed = {})
    BY NothingIsOwed
  <1> QED
    BY <1>1, AprsInitInv, AprsStepKeepsInv, PTL DEF AprsSpec

\* On a line without noise the first message of an encoder arrives, and every
\* message of one that adds no empty frames.
THEOREM NoiselessMessagesArrive ==
  AprsSpec => [](FirstMessageArrives /\ (NumLeading + NumTrailing = 0 => MessagesArrive))
  <1>1. AprsInv => TypeOK /\ SenderTypeOK
    BY DEF AprsInv
  <1>2. AprsInv /\ NoiselessInv
          => FirstMessageArrives /\ (NumLeading + NumTrailing = 0 => MessagesArrive)
    <2> SUFFICES ASSUME AprsInv, NoiselessInv,
                        frames = 1 \/ NumLeading + NumTrailing = 0,
                        stage = "trailing", Idle, noise = 0
                 PROVE  owed = {}
      BY DEF FirstMessageArrives, MessagesArrive
    <2>1. clean
      BY DEF NoiselessInv
    <2> QED
      BY <2>1, NothingIsOwed
  <1> QED
    BY <1>1, <1>2, AprsInitInv, AprsStepKeepsInv, NoiselessStep, PTL DEF AprsSpec

\* Whatever the line carries, the decoder of AX.25 is given the bytes of every
\* frame that the decoder of HDLC encloses, and between two frames it has
\* returned the message that those bytes are, and nothing else.
THEOREM DecodersAlwaysAgree == AprsSpec => []DecodersAgree
  <1>1. AprsInv => DecodersAgree
    BY ResultParts, Zenon DEF AprsInv, Handover, DecodersAgree
  <1> QED
    BY <1>1, AprsInitInv, AprsStepKeepsInv, PTL DEF AprsSpec
================================================================================
