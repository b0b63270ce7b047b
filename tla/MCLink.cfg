SPECIFICATION Spec
CONSTANTS
  Q = 11
  SigIds <- MCSigIds
  N = 3
  Envelopes <- MCEnvelopes
  Echoers = {2, 3}
  Later = {2, 3, 6, 14}
  MaxSent = 2
  MaxTroubles = 1
INVARIANTS HandledAsWritten HonestFramesPass
CHECK_DEADLOCK FALSE
