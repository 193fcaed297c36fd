SPECIFICATION Spec
CONSTANTS
  Bot = bot
  Api = api
  Nobody = nobody
  Games = {g1}
  NoGame = noGame
  Requests = {"end"}
  MaxInbox = 1
  MaxEvents = 1
  MaxDisconnects = 0
PROPERTIES
  EveryOperationEnds
CHECK_DEADLOCK FALSE
