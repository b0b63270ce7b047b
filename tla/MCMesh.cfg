CONSTANTS
  n1 = n1
  n2 = n2
  Node = {n1, n2}
  Sids = 2
  All = All
  Script <- MCScript
  Flaky <- MCFlaky
  MaxBreaks = 2
SPECIFICATION FairSpec
INVARIANTS TypeOK NoGap
PROPERTIES Delivered
CHECK_DEADLOCK FALSE
