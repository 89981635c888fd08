\* Two consumers wait when the stream is closed.
SPECIFICATION FairSpec
CONSTANTS
  w1 = w1
  w2 = w2
  r1 = r1
  r2 = r2
  c1 = c1
  Writers = {w1}
  Readers = {r1, r2}
  Closers = {c1}
  Element = {1, 2}
  Payloads <- OnePair
  MaxRead = 1
  Capacities = {2}
  SizeModulus = 256
PROPERTIES
  CloseReleases
