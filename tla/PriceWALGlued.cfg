\* A torn line is not cut off at the next boot.
SPECIFICATION Spec
CONSTANTS
  Posts = {p1, p2}
  Symbols = {s1}
  Subjects <- OneApart
  Base = Base
  Faults = {"kill", "torn"}
  MaxCrashes = 1
SYMMETRY Symmetry
INVARIANTS AckedIsDurable
