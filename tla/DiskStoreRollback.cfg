SPECIFICATION SpecR
CONSTANTS
  Id = {i1, i2}
  Faults = {"kill", "torn", "foreign"}
  Legacy = FALSE
  MaxRestores = 1
PROPERTY
  EvidencedOnce
