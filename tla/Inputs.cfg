SPECIFICATION Spec
CONSTANTS
  Lines <- BodyLines
  PrefixesOf <- NamePrefixes
  Token = "token"
  MaxPlayers = 2
  MaxDecks = 3
  NameLength = 256
  HashLength = 9
  MaxEntries = 5
  FileLines <- ConfigLines
  Files = {"server.pem"}
  Atoi <- AtoiOf
  Stripped <- WithoutSlashes
  MaxBoots = 2
  Messages <- ChatMessages
  Begins <- Starts
  Senders = {"ann", "bob"}
  MaxSaid = 2
  Characters = {"a", ".", "/", "-", "%", "bad"}
  MaxDescription = 4
  GameIDs = {2, 12}
  ReplayFolder <- FolderName
  BufferLength = 34
  Replays = {"r1", "r2", "r3"}
  FileOf <- MatchFiles
  Blocks = 2
  MaxCommands = 4
  MaxLosses = 1
INVARIANTS
  InputsTypeOK
  OnlyAuthorised
  SlotsAsListed
  LastLineUsed
  AnswersToQuestions
  FilesBelowFolder
  LinkLeadsToGame
  ReplaysAccounted
  FileHoldsFirst
CHECK_DEADLOCK FALSE
