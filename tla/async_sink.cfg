\* A radio thread, the worker, and two threads that stop the sink.
SPECIFICATION FairSpec
CONSTANTS
  Owners = {o1, o2}
  MaxPushes = 4
INVARIANTS
  SinkInv
  WaitMeansProcessed
  MemoryValidWhileRunning
PROPERTIES
  ProcessedInOrder
  CallsReturn
  BatchesProcessed
