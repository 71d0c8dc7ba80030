SPECIFICATION FairSpec
CONSTANTS
  Enough = 1
  MaxRounds = 3
  MaxOutputs = 3
  MaxPosted = 2
  MaxUserActions = 4
PROPERTIES
  OptimizesOpenWallet
  StartsOnSpendable
  KeepsOptimizing
CHECK_DEADLOCK FALSE
