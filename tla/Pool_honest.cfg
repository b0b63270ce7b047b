SPECIFICATION FairSpec
CONSTANTS
  Node = {a, b, c}
  T = 2
  Target = 2
  Ttl = 0
  Tolerant = FALSE
  Faults = {}
  MaxId = 4
  MaxMsg = 2
  MaxTime = 0
  MaxKills = 0
INVARIANTS OneMessagePerRecord HonestBlameless
PROPERTIES PoolRefilled AllSigned
CHECK_DEADLOCK FALSE
