SPECIFICATION Safety
CONSTANTS
  Conns = {c1}
  Creations = {p1}
  Names = {"Match", "Final"}
  NoGame = noGame
  NoCreation = noCreation
  MaxDisconnects = 0
INVARIANTS
  PolledParamLive
CHECK_DEADLOCK FALSE
