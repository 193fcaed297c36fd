----------------------------- MODULE MCBotSession -----------------------------
(* BotSession for TLC: two rooms, listed in either order or one of them alone. *)
EXTENDS BotSession

MCRoomLists == {<<"lobby">>, <<"lobby", "main">>}
=============================================================================
