SPECIFICATION Safety
CONSTANTS
  Clients = {c1}
  BotThread = bot
  Names = {g1}
  NoName = none
  GameName <- OneName
  TIMEOUT = 1
  PING_FREQUENCY = 3
  ID_MODULUS = 9
  RATE_LIMIT = 1
  MaxTime = 4
  MaxConnections = 2
  Budget = 2
  MaxIssued = 4
INVARIANTS
  RateLimitRespected
