SPECIFICATION Spec
CONSTANTS
  Clients = {c1}
  BotThread = bot
  Names = {g1}
  NoName = none
  GameName <- OneName
  TIMEOUT = 2
  PING_FREQUENCY = 3
  ID_MODULUS = 9
  RATE_LIMIT = 1
  MaxTime = 5
  MaxConnections = 1
  Budget = 1
  MaxIssued = 3
PROPERTIES
  EveryCommandFinishes
