\* Frames of all kinds, two of which follow each other, over a bad line.
SPECIFICATION LinkSpec
CONSTANTS
  CallsignLength = 1
  InformationCapacity = 4
  MaxNumRepeaters = 2
  Messages <- ManyMessages
  ForeignContents <- LongContents
  WrongBits <- SomeBits
  NoiseBytes <- LineNoise
  MaxSentFrames = 2
  MaxDisturbances = 2
INVARIANTS
  DecoderTypeOK
  ChecksumIsLast
  DecodesTheFrame
  CleanFrameDelivered
PROPERTIES
  ImplementsFrameChannel
CHECK_DEADLOCK FALSE
