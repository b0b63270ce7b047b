---- MODULE MCDiskStore ----
EXTENDS DiskStore, TLC

\* Ids are interchangeable, and the properties checked with it are invariants.
IdSymmetry == Permutations(Id)
====
