\* The raw front end: nobody tells the gate that a client has given up.
SPECIFICATION ImpatientSpec
CONSTANTS
  Reqs = {r1, r2}
  Workers = {w1}
  Kernels = {"pair"}
  X16Lanes = 16
  X16MinBatch = 8
  WakeCap = 2
  Backstop = 3
  SeesDisconnect = FALSE
  Patiences = {1}
  RetryTicks = 1
  AgeCap = 3
  GiveUpAge = 3
  MaxGone = 2
  MaxOther = 0
  Scale = 2
  BudgetBP = 1
  MinTotal = 2
PROPERTIES EveryoneAnswered
