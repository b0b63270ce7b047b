SPECIFICATION Spec
SYMMETRY IdSymmetry
CONSTANTS
  Id = {i1, i2}
  Faults = {"kill", "power", "io", "torn", "foreign"}
  Legacy = TRUE
INVARIANTS
  TypeOK
  HandedOutOnce
  SpentIsDurable
  NoFalseRollback
