SPECIFICATION Spec
CONSTANTS
  Id = {i1, i2}
  Faults = {"kill", "io", "torn", "foreign"}
  Legacy = TRUE
INVARIANT
  RefusedOnlyDamaged
PROPERTY
  ImplementsSingleUse
