------------------------------- MODULE MCAx25Link -------------------------------
(* Small instances of Ax25Link for TLC: frames with and without repeaters   *)
(* and information, the longest of both, and frames that exceed them by one *)
(* and by more.                                                             *)
EXTENDS Ax25Link

LetterA == <<1, 0, 0, 0, 0, 0, 1>>
ByteA == LetterA \o <<0>>
Marker == <<0, 1, 1, 1, 1, 1, 1, 0>>
NoLayer3 == <<0, 0, 0, 0, 1, 1, 1, 1>>
InformationFrame == <<0, 1, 0, 0, 0, 1, 0, 0>>
FinalUnnumberedInformation == <<1, 1, 0, 0, 1, 0, 0, 0>>
SetAsynchronousBalancedMode == <<1, 1, 1, 1, 0, 1, 0, 0>>

Station(char, ssid, command, repeated) ==
  [callsign |-> [i \in 1..CallsignLength |-> char], ssid |-> ssid,
   command_response_bit |-> command, has_been_repeated |-> repeated]

Text(chars) ==
  [i \in 1..InformationCapacity |->
     IF i <= Len(chars) THEN chars[i] ELSE Nul]

Frame(control, repeaters, chars) ==
  [destination |-> Station(LetterA, <<1, 0, 1, 0>>, 1, FALSE),
   source |-> Station(Space, <<0, 1, 1, 1>>, 0, FALSE),
   repeaters |-> repeaters, control |-> control, pid |-> NoLayer3,
   information |-> Text(chars)]

Repeated == Station(LetterA, <<1, 1, 1, 1>>, 0, TRUE)
NotRepeated == Station(Space, <<0, 0, 0, 0>>, 0, FALSE)

ManyMessages ==
  {Frame(UnnumberedInformation, <<>>, <<>>),
   Frame(FinalUnnumberedInformation, <<Repeated>>, <<ByteA, Nul, ByteA>>),
   Frame(InformationFrame, <<>>, <<ByteA, Marker, ByteA, ByteA>>),
   Frame(UnnumberedInformation, <<Repeated, NotRepeated>>, <<Marker, ByteA>>),
   Frame(SetAsynchronousBalancedMode, <<>>, <<>>),
   Frame(SetAsynchronousBalancedMode, <<Repeated, NotRepeated>>, <<>>)}

LongContents ==
  {FrameContent(Frame(UnnumberedInformation, <<Repeated, Repeated, NotRepeated>>,
                      <<ByteA>>))}
  \cup {FrameContent(Frame(UnnumberedInformation, <<>>, <<>>))
          \o [i \in 1..n |-> ByteA] : n \in InformationCapacity + 1 .. InformationCapacity + 4}

SomeBits == {1, 2}
LineNoise == {ByteA, Marker}
================================================================================
