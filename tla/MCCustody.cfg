SPECIFICATION Spec
CONSTANTS
  Q = 11
  Gen = 2
  Fork <- MCFork
  Draw <- MCDraw
  N = 5
  T = 2
  B = 2
  Tapes = {1}
  Makers = {"one", "restart", "ki", "triple", "batch", "packed"}
  Pairs <- MCPairs
  NewIds <- MCNewIds
  SignerSets <- MCSignerSets
  Requests <- MCRequests
  MaxRecords = 1
  MaxEpochs = 1
INVARIANTS TypeOK KeyIntact RecordsSound SignaturesVerify OnlyCulpritsBlamed CulpritsCaught  FailsForCause NonceOnce
