\* The first message of an encoder, as the tests and the tools send it.
SPECIFICATION AprsSpec
CONSTANTS
  Bytes <- AnyByte
  FirstBytes <- AddressBytes
  MaxFrameLength = 16
  MaxFrames = 1
  MaxNoise = 2
  NumLeading = 1
  NumTrailing = 1
  Messages <- SomeMessages
  CallsignLength = 1
  InformationCapacity = 2
  MaxNumRepeaters = 1
INVARIANTS
  FirstMessageArrives
PROPERTIES
  ImplementsChannel
CHECK_DEADLOCK FALSE
