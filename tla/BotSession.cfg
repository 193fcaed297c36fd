SPECIFICATION Spec
CONSTANTS
  Rooms = {"lobby", "main"}
  ConfigRoom = "main"
  RoomLists <- MCRoomLists
  Watched = {"onBotConnectionError", "onBotLogin", "onEventListRooms", "onBotDisconnect"}
  MaxThreads = 2
  MaxSets = 2
CHECK_DEADLOCK FALSE
INVARIANTS
  TypeOK
  OneBotThread
  RoomJoinedOnce
  StopEndsThread
PROPERTIES
  LoginLeadsToRoom
  DisconnectRestarts
