\* One producer and one consumer, as the class is used and tested.
SPECIFICATION BusySpec
CONSTANTS
  w1 = w1
  w2 = w2
  r1 = r1
  r2 = r2
  c1 = c1
  Writers = {w1}
  Readers = {r1}
  Closers = {c1}
  Element = {1, 2, 3, 4, 5}
  Payloads <- LongAndShort
  MaxRead = 3
  Capacities = {2, 3}
  SizeModulus = 256
INVARIANTS
  WaitsOnlyForTheOther
PROPERTIES
  CloseReleases
  CallsReturn
