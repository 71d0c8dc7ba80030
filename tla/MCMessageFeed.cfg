SPECIFICATION MessageFairSpec
CONSTANTS
  MaxTx = 2
  MaxPosted = 2
  MaxUserActions = 2
  ChunkSize = 1
  WithMessages = {0, 1}
INVARIANTS
  InOrder
  OneReload
  NoForeignMessages
PROPERTY
  EventuallyKnown
CHECK_DEADLOCK FALSE
