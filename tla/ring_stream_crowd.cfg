\* Several producers and consumers on a ring that wraps around.
SPECIFICATION Spec
CONSTANTS
  w1 = w1
  w2 = w2
  r1 = r1
  r2 = r2
  c1 = c1
  Writers = {w1, w2}
  Readers = {r1, r2}
  Closers = {c1}
  Element = {1, 2, 3}
  Payloads <- ShortOnes
  MaxRead = 2
  Capacities = {2}
  SizeModulus = 256
SYMMETRY Crowd
INVARIANTS
  StreamConsistent
  NoMutualWait
PROPERTIES
  ImplementsStream
