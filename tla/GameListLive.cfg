SPECIFICATION Spec
CONSTANTS
  Bot = bot
  Api = api
  Nobody = nobody
  Games = {g1}
  NoGame = noGame
  Requests = {"look", "kick"}
  MaxInbox = 1
  MaxEvents = 1
  MaxDisconnects = 1
PROPERTIES
  EveryOperationEnds
  ClosedGamesLeave
