SPECIFICATION Spec
CONSTANTS
  Mod = 6
  BaseFee = 1
  RemoteFee = 1
  MessageCost = 1
  MaxBalance = 3
  MaxTyped = 3
  MaxRuns = 1
  MaxUserActions = 4
INVARIANT
  EnoughFunds
CHECK_DEADLOCK FALSE
