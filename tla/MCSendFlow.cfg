SPECIFICATION Spec
CONSTANTS
  Mod = 6
  BaseFee = 1
  RemoteFee = 1
  MessageCost = 1
  MaxBalance = 3
  MaxTyped = 5
  MaxRuns = 2
  MaxUserActions = 4
INVARIANTS
  RunsAreCovered
  FeesAreShown
  PercentageCanBeSent
CHECK_DEADLOCK FALSE
