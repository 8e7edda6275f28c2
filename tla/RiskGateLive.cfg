\* Two workers under net/http, whose contexts end when clients give up.
SPECIFICATION ImpatientSpec
CONSTANTS
  Reqs = {r1, r2}
  Workers = {w1, w2}
  Kernels = {"pair"}
  X16Lanes = 16
  X16MinBatch = 8
  WakeCap = 2
  Backstop = 3
  SeesDisconnect = TRUE
  Patiences = {0}
  RetryTicks = 1
  AgeCap = 1
  GiveUpAge = 1
  MaxGone = 2
  MaxOther = 0
  Scale = 2
  BudgetBP = 2
  MinTotal = 1
INVARIANTS WorkConserving
PROPERTIES DecidedOnce TakenIsServed LineDrains EveryoneAnswered
