SPECIFICATION PageFairSpec
CONSTANTS
  MaxTx = 2
  MaxPosted = 2
  MaxUserActions = 3
INVARIANTS
  NeverAnnouncesNone
  SyncedIsCurrent
  RowIsId
  NoForeignRows
PROPERTY
  OpensWhenSynchronized
  EventuallyShown
CHECK_DEADLOCK FALSE
