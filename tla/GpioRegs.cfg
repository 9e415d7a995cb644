SPECIFICATION Spec
CONSTANTS
  Pins = {p1}
  p1 = p1
INVARIANTS NoFalseEdge EdgesTold
