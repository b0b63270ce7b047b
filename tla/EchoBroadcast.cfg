SPECIFICATION FairSpec
CONSTANTS
  Node = {a, b, s}
  Faulty = {s}
  T = 2
  Rounds = 1
  Upfront = 1
  Direct = {1}
  Disputed = {1}
INVARIANTS TypeOK HonestNeverPoisoned CalmRoundsAgree
PROPERTIES SplitsAreExposed Validity
CHECK_DEADLOCK FALSE
