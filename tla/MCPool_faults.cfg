SPECIFICATION Spec
CONSTANTS
  Node = {a, b}
  T = 2
  Target = 1
  Ttl = 1
  Tolerant = TRUE
  Faults = {"kill", "lost", "late"}
  MaxId = 3
  MaxMsg = 2
  MaxTime = 3
  MaxKills = 1
INVARIANTS TypeOK PoolBounded NeverRemade ExpiredNeverServed
SYMMETRY Symmetry
CHECK_DEADLOCK FALSE
