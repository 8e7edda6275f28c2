\* Two posts of one symbol: log order and memory order.
SPECIFICATION Spec
CONSTANTS
  Posts = {p1, p2}
  Symbols = {s1}
  Subjects <- OneApart
  Base = Base
  Faults = {"kill"}
  MaxCrashes = 0
SYMMETRY Symmetry
INVARIANTS LastWriteWins
