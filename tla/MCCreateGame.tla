----------------------------- MODULE MCCreateGame -----------------------------
(* CreateGame for TLC: its constants are model values and sets of the cfg.     *)
EXTENDS CreateGame
=============================================================================
