------------------------------ MODULE MCGameList ------------------------------
(* GameList for TLC: its constants are model values and sets of the cfg.     *)
EXTENDS GameList
=============================================================================
