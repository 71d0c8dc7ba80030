SPECIFICATION FairSpec
CONSTANTS
  Files = {a, b}
  DefaultFile = a
  LegacyFile = l
  ConvertedFile = b
  NoFile = none
  MaxStarts = 2
  MaxUserActions = 5
INVARIANTS
  EncryptedAgrees
  ScreenFits
PROPERTIES
  NeverBlank
  ImplementsOneWallet
CHECK_DEADLOCK FALSE
