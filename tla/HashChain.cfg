\* Chains of seven rounds counted in four bits; strides 1, 2, 4, the default 2 and 0, 5, 16.
SPECIFICATION FairSpec
CONSTANTS
  Environments <- Settings
  Processors <- Kinds
  Machines <- OneUnsound
  Costs = {8, 10, 100, 112, 144, 190}
  Wrap = 16
  MinStride = 1
  MaxStride = 4
  X16Lanes = 16
  X16Floor = 8
  Rounds = 7
INVARIANTS OnlySoundServe NoIllegalInstruction KillSwitches EarlierStepsHold BatchPays RoundsExact YieldsInTime
PROPERTIES ChainEnds
