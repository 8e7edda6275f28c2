\* Five requests and every batch kernel: sixteen-, four-, two- and one-lane chains.
SPECIFICATION Spec
CONSTANTS
  Reqs = {r1, r2, r3, r4, r5}
  Workers = {w1}
  Kernels = {"pair", "quad", "x16"}
  X16Lanes = 6
  X16MinBatch = 5
  WakeCap = 1
  Backstop = 5
  SeesDisconnect = FALSE
  Patiences = {0}
  RetryTicks = 0
  AgeCap = 0
  GiveUpAge = 0
  MaxGone = 0
  MaxOther = 4
  Scale = 2
  BudgetBP = 1
  MinTotal = 2
SYMMETRY Symmetry
INVARIANTS Ownership
