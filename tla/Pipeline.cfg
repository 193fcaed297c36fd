SPECIFICATION Safety
CONSTANTS
  Clients = {c1}
  BotThread = bot
  Names = {g1}
  NoName = none
  GameName <- OneName
  TIMEOUT = 1
  PING_FREQUENCY = 1
  ID_MODULUS = 3
  RATE_LIMIT = 1
  MaxTime = 2
  MaxConnections = 2
  Budget = 1
  MaxIssued = 0
INVARIANTS
  IInv
  NoCommandTwice
  NoCommandLost
  ResponsesMatch
  PingsSpaced
PROPERTIES
  ImplementsService
