SPECIFICATION Spec
CONSTANTS
  MaxTx = 3
  MaxUserActions = 4
  RemoteFee = TRUE
INVARIANTS
  OneFeePerDeposit
CHECK_DEADLOCK FALSE
