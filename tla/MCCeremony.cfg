CONSTANTS
  Node = {1, 2, 3, 4}
  Faulty = {2}
  T = 2
  Plans <- MCPlans
SPECIFICATION Spec
INVARIANTS TypeOK OneCommittee SharedByAll HonestBlameNeedsBadShare HonestEnough
CHECK_DEADLOCK FALSE
