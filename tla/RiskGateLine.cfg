\* One worker and three requests, with a moving patience window, disconnects
\* and the backstop.
SPECIFICATION Spec
CONSTANTS
  Reqs = {r1, r2, r3}
  Workers = {w1}
  Kernels = {"pair"}
  X16Lanes = 16
  X16MinBatch = 8
  WakeCap = 1
  Backstop = 2
  SeesDisconnect = TRUE
  Patiences = {0, 1}
  RetryTicks = 1
  AgeCap = 2
  GiveUpAge = 0
  MaxGone = 2
  MaxOther = 1
  Scale = 2
  BudgetBP = 1
  MinTotal = 2
SYMMETRY Symmetry
INVARIANTS TypeOK LedgerExact Overestimate
PROPERTIES ImplementsLedger StaleTakeEmptiesStack
