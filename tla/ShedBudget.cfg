\* Every interleaving of three goroutines in shedReserveError with the counters.
SPECIFICATION FairSpec
CONSTANTS
  Procs = {p1, p2, p3}
  Scale = 3
  BudgetBP = 1
  MinTotal = 2
  MaxOK = 4
  MaxCharges = 1
INVARIANTS TypeOK BudgetHolds
PROPERTIES ImplementsLedger LockFree
