-------------------------- MODULE MCCommandPipeline --------------------------
(* Values for the constants of CommandPipeline: every client gives its games *)
(* the same name.                                                            *)
EXTENDS CommandPipeline

OneName == [c \in Clients |-> CHOOSE n \in Names : TRUE]
=============================================================================
