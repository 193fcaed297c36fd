SPECIFICATION Safety
CONSTANTS
  Bot = bot
  Api = api
  Nobody = nobody
  Games = {g1}
  NoGame = noGame
  Requests = {}
  MaxInbox = 1
  MaxEvents = 2
  MaxDisconnects = 0
INVARIANTS
  NoUseAfterClosed
