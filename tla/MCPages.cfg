SPECIFICATION PagesSpec
CONSTANTS
  Wallets = {a, b}
  NoFile = NoFile
  NoContact = NoContact
  MaxContacts = 2
  MaxUserActions = 6
  Plain = {p}
  Listed = {x, y}
  Integrated = {i}
  Aliases = {n}
  Empty = Empty
  TypedId = TypedId
  MaxFieldActions = 4
  Base = 2
  Decimals = 3
  MaxAmount = 1000
  MaxLength = 7
  Words = {v, w}
  MaxLines = 4
INVARIANTS
  PagesTypeOK
  ShowsSaved
  NoForeignContacts
  ActsOnSelected
  ReachesItsRecipient
  AmountSurvives
  MessageSurvives
PROPERTY
  ContactsKept
CHECK_DEADLOCK FALSE
