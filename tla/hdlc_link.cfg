\* Frames as AX.25 builds them on a line with noise.
SPECIFICATION Spec
CONSTANTS
  Bytes <- ManyBytes
  FirstBytes <- AddressBytes
  MaxFrameLength = 2
  MaxFrames = 2
  MaxNoise = 2
INVARIANTS
  FramesAreDelimited
  CleanFrameArrives
  MarkerSynchronises
CHECK_DEADLOCK FALSE
