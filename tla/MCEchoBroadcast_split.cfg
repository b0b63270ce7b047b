SPECIFICATION Spec
CONSTANTS
  Node = {a, b, s}
  Faulty = {s}
  T = 2
  Rounds = 2
  Upfront = 2
  Direct = {2}
  Disputed = {1}
INVARIANT Consistency
SYMMETRY Symmetry
CHECK_DEADLOCK FALSE
