------------------------------- MODULE MCAprsLink -------------------------------
(* Small instances of AprsLink for TLC. The SSID of all ones and the bytes   *)
(* of the information make the encoder stuff bits; one byte is the pattern   *)
(* of the marker.                                                            *)
EXTENDS AprsLink

AnyByte == [1..8 -> Bit]
AddressBytes == {b \in AnyByte : b[1] = 0}

Letter == <<1, 1, 1, 1, 1, 0, 1>>
NoLayer3 == <<0, 0, 0, 0, 1, 1, 1, 1>>
Ones == <<1, 1, 1, 1, 1, 1, 1, 1>>
Disconnect == <<1, 1, 0, 0, 0, 0, 1, 0>>

Station(ssid, command, repeated) ==
  [callsign |-> [i \in 1..CallsignLength |-> Letter], ssid |-> ssid,
   command_response_bit |-> command, has_been_repeated |-> repeated]

Text(chars) ==
  [i \in 1..InformationCapacity |->
     IF i <= Len(chars) THEN chars[i] ELSE <<0, 0, 0, 0, 0, 0, 0, 0>>]

Frame(control, repeaters, chars) ==
  [destination |-> Station(<<1, 1, 1, 1>>, 1, FALSE),
   source |-> Station(<<0, 1, 0, 1>>, 0, FALSE),
   repeaters |-> repeaters, control |-> control, pid |-> NoLayer3,
   information |-> Text(chars)]

SomeMessages ==
  {Frame(<<1, 1, 0, 0, 0, 0, 0, 0>>, <<>>, <<FrameMarker, Ones>>),
   Frame(<<1, 1, 0, 0, 0, 0, 0, 0>>, <<Station(<<1, 1, 1, 0>>, 0, TRUE)>>, <<>>),
   Frame(Disconnect, <<>>, <<>>)}
================================================================================
