-------------------------------- MODULE Inputs --------------------------------
(***************************************************************************)
(* What the program makes of what it is given: requests to the API         *)
(* (ApiRequests), the configuration file (ConfigReader), chat messages     *)
(* (ChatCommands), descriptions of games and links to them (ReplayNames),  *)
(* and replays (ReplayFiles).  The five share no state, so one behaviour   *)
(* runs one of them, which `part` names, and leaves the others at rest.    *)
(***************************************************************************)
EXTENDS ApiRequests, ConfigReader, ChatCommands, ReplayNames, ReplayFiles

VARIABLE part

vars == <<part, requestVars, configVars, chatVars, namesVars, filesVars>>

Parts == {"request", "config", "chat", "names", "files"}

Init ==
  /\ part \in Parts
  /\ RequestInit /\ ConfigInit /\ ChatInit /\ NamesInit /\ FilesInit

Next ==
  /\ UNCHANGED part
  /\ \/ part = "request" /\ RequestNext /\ UNCHANGED <<configVars, chatVars, namesVars, filesVars>>
     \/ part = "config" /\ ConfigNext /\ UNCHANGED <<requestVars, chatVars, namesVars, filesVars>>
     \/ part = "chat" /\ ChatNext /\ UNCHANGED <<requestVars, configVars, namesVars, filesVars>>
     \/ part = "names" /\ NamesNext /\ UNCHANGED <<requestVars, configVars, chatVars, filesVars>>
     \/ part = "files" /\ FilesNext /\ UNCHANGED <<requestVars, configVars, chatVars, namesVars>>

Spec == Init /\ [][Next]_vars

\* The variables of every part have the values their modules name.
InputsTypeOK == RequestTypeOK /\ ConfigTypeOK /\ ChatTypeOK /\ NamesTypeOK /\ FilesTypeOK
=============================================================================
