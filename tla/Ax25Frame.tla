-------------------------------- MODULE Ax25Frame --------------------------------
(***************************************************************************)
(* protocol/datalink/ax25/message.h, control.h and encoder.h, and          *)
(* crypto/crc-16-ccitt.h: messages, the bytes a message is encoded to, and *)
(* the frame check sequence.                                               *)
(*                                                                         *)
(* A character of a call sign is the sequence of its seven bits, an SSID   *)
(* of its four, least significant bit first, as in Octets.                 *)
(***************************************************************************)
EXTENDS Octets

CONSTANTS
  CallsignLength,      \* characters of a Callsign
  InformationCapacity  \* characters of an Information

ASSUME LengthsAssumption ==
  CallsignLength \in Nat \ {0} /\ InformationCapacity \in Nat

--------------------------------------------------------------------------------
(* Messages.                                                                *)

Char == {c \in Seq(Bit) : Len(c) = 7}
Nibble == {n \in Seq(Bit) : Len(n) = 4}

Space == <<0, 0, 0, 0, 0, 1, 0>>
Nul == <<0, 0, 0, 0, 0, 0, 0, 0>>
UnnumberedInformation == <<1, 1, 0, 0, 0, 0, 0, 0>>

Address ==
  [callsign : [1..CallsignLength -> Char], ssid : Nibble,
   command_response_bit : Bit, has_been_repeated : BOOLEAN]

Message ==
  [destination : Address, source : Address, repeaters : Seq(Address),
   control : Byte, pid : Byte, information : [1..InformationCapacity -> Byte]]

\* Address::Clear does not touch command_response_bit, which is assigned with
\* every address that is decoded: what is in it before does not matter.
EmptyAddress ==
  [callsign |-> [i \in 1..CallsignLength |-> Space], ssid |-> <<0, 0, 0, 0>>,
   command_response_bit |-> 0, has_been_repeated |-> FALSE]

EmptyInformation == [i \in 1..InformationCapacity |-> Nul]

EmptyMessage ==
  [destination |-> EmptyAddress, source |-> EmptyAddress, repeaters |-> <<>>,
   control |-> UnnumberedInformation, pid |-> Nul,
   information |-> EmptyInformation]

\* Information frames, and unnumbered information whatever its P/F bit is.
FrameControlUsesInfo(control) ==
  \/ [control EXCEPT ![5] = 0] = UnnumberedInformation
  \/ control[1] = 0

FrameControlUsesPID(control) == FrameControlUsesInfo(control)

--------------------------------------------------------------------------------
(* The checksum: sixteen bits, least significant bit first.                 *)

Zeros(n) == [i \in 1..n |-> 0]

Xor(a, b) == [i \in 1..Len(a) |-> (a[i] + b[i]) % 2]

InitCRC == [i \in 1..16 |-> 1]

\* The table of the code in closed form: the entry of a byte x is
\* (y << 8) ^ (y << 3) ^ (y >> 4), where y is x ^ (x << 4).
UpdateCRC(crc, byte) ==
  LET x == Xor(SubSeq(crc, 1, 8), byte)
      y == Xor(x, Zeros(4) \o SubSeq(x, 1, 4))
      entry == Xor(Zeros(8) \o y,
                   Xor(Zeros(3) \o y \o Zeros(5), SubSeq(y, 5, 8) \o Zeros(12)))
  IN Xor(SubSeq(crc, 9, 16) \o Zeros(8), entry)

FinalizeCRC(crc) == [i \in 1..16 |-> 1 - crc[i]]

\* The checksum as it is transmitted: low byte, high byte.
FCSBytes(crc) == <<SubSeq(crc, 1, 8), SubSeq(crc, 9, 16)>>

CRCOf(bytes) ==
  LET crc[i \in 0..Len(bytes)] ==
        IF i = 0 THEN InitCRC ELSE UpdateCRC(crc[i - 1], bytes[i])
  IN crc[Len(bytes)]

FCSField(bytes) == FCSBytes(FinalizeCRC(CRCOf(bytes)))

--------------------------------------------------------------------------------
(* The encoder: the bytes between the two frame markers.                    *)

\* CRRSSSS0 of the comments, with the last bit first.
SSIDByte(address, has_repeater) ==
  <<IF has_repeater THEN 0 ELSE 1>> \o address.ssid \o <<1, 1>>
    \o <<IF address.has_been_repeated \/ address.command_response_bit = 1
         THEN 1 ELSE 0>>

PushAddress(address, has_repeater) ==
  [i \in 1..CallsignLength |-> <<0>> \o address.callsign[i]]
    \o <<SSIDByte(address, has_repeater)>>

PushAddressRepeaters(repeaters) ==
  LET pushed[i \in 0..Len(repeaters)] ==
        IF i = 0 THEN <<>>
        ELSE pushed[i - 1] \o PushAddress(repeaters[i], i < Len(repeaters))
  IN pushed[Len(repeaters)]

PushAddressField(message) ==
  PushAddress(message.destination, TRUE)
    \o PushAddress(message.source, message.repeaters # <<>>)
    \o PushAddressRepeaters(message.repeaters)

PushPIDField(message) ==
  IF FrameControlUsesPID(message.control) THEN <<message.pid>> ELSE <<>>

\* The information ends before the first null character.
InformationLength(information) ==
  CHOOSE n \in 0..InformationCapacity :
    /\ \A i \in 1..n : information[i] # Nul
    /\ n < InformationCapacity => information[n + 1] = Nul

PushInfoField(message) ==
  IF FrameControlUsesInfo(message.control)
  THEN [i \in 1..InformationLength(message.information)
          |-> message.information[i]]
  ELSE <<>>

\* Everything the checksum is about.
FrameContent(message) ==
  PushAddressField(message) \o <<message.control>>
    \o PushPIDField(message) \o PushInfoField(message)

WithFCS(content) == content \o FCSField(content)

Encode(message) == WithFCS(FrameContent(message))

\* A message as its receiver gets it. The C and the H bit share one place, so
\* a repeater gets both; a frame without information carries no PID; and the
\* information ends before its first null character.
AsReceived(m) ==
  LET Bit8(a) == a.has_been_repeated \/ a.command_response_bit = 1
      Received(a, is_repeater) ==
        [a EXCEPT !.command_response_bit = IF Bit8(a) THEN 1 ELSE 0,
                  !.has_been_repeated = is_repeater /\ Bit8(a)]
      has_info == FrameControlUsesInfo(m.control)
  IN [destination |-> Received(m.destination, FALSE),
      source |-> Received(m.source, FALSE),
      repeaters |-> [i \in 1..Len(m.repeaters) |->
                       Received(m.repeaters[i], TRUE)],
      control |-> m.control,
      pid |-> IF has_info THEN m.pid ELSE Nul,
      information |-> [i \in 1..InformationCapacity |->
        IF has_info /\ i <= InformationLength(m.information)
        THEN m.information[i] ELSE Nul]]
================================================================================
