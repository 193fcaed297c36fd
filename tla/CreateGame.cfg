SPECIFICATION SpecClientsGiveUp
CONSTANTS
  Conns = {c1, c2}
  Creations = {p1, p2}
  Names = {"Match", "Final"}
  NoGame = noGame
  NoCreation = noCreation
  MaxDisconnects = 2
INVARIANTS
  OwnersInv
  FreedOnce
  PolledUntilTimeout
  PointersLive
  LiveHasOwner
  AnswersTold
PROPERTIES
  EveryParamFreed
CHECK_DEADLOCK FALSE
