SPECIFICATION Spec
CONSTANTS
  MaxTx = 3
  MaxUserActions = 4
  RemoteFee = TRUE
INVARIANTS
  SignalsItsKind
  FeesBounded
CHECK_DEADLOCK FALSE
