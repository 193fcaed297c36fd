SPECIFICATION Spec
CONSTANTS
  PlayerCount = 2
  Names <- MCNames
  Star = "*"
  Users = {"Ann", "bob"}
  Lower <- MCLower
  Garbage = {2}
  Decks = {"d1", "d2"}
  AnyDeck = "*"
  Slots0 <- MCSlots0
  MaxPid = 2
  MaxInbox = 2
  MaxRenames = 1
CHECK_DEADLOCK FALSE
INVARIANTS
  TypeOK
  UncheckedKicked
  SlotsFollowPlayers
  ExpectedSeated
  DeckChecked
PROPERTIES
  ImplementsSeating
