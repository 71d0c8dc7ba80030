SPECIFICATION Spec
CONSTANTS
  MaxTx = 3
  MaxUserActions = 4
  RemoteFee = TRUE
INVARIANTS
  ReportIsKnown
CHECK_DEADLOCK FALSE
