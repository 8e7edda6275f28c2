\* Every fault, torn appends and half-written lines included.
SPECIFICATION FairSpec
CONSTANTS
  Posts = {p1, p2, p3}
  Symbols = {s1, s2}
  Subjects <- OneApart
  Base = Base
  Faults = {"kill", "power", "torn", "write", "sync", "open", "read"}
  MaxCrashes = 2
INVARIANTS TypeOK OnlyGluedIsLost AppliedIsLogged MemoryIsReplayed
PROPERTIES DurableGrows PostsEnd
