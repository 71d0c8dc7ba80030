SPECIFICATION FairSpec
CONSTANTS
  MaxDeposits = 2
  MaxTx = 2
  MaxPosted = 3
  MaxUserActions = 3
INVARIANTS
  TypeOK
  ShowsDeposits
  PendingIsUnconfirmed
  ViewsAgree
PROPERTY
  EventuallyAllShown
CHECK_DEADLOCK FALSE
