SPECIFICATION Spec
CONSTANTS
  N = 3
  Vectors = {v1, v2}
  Values = {e1, e2}
  Moved = Moved
  Raw = Raw
  Abandoned = Abandoned
  MaxRange = 4
SYMMETRY Symmetry
INVARIANTS
  ElementsLive
PROPERTIES
  CallsAsVector
