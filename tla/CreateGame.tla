------------------------------ MODULE CreateGame ------------------------------
(***************************************************************************)
(* The creation of a game for the HTTP API: the request allocates a        *)
(* gameCreateCallbackWaitParam, shared from then on by the API thread      *)
(* (which polls its gameID to answer the client), the bot thread (which    *)
(* sets gameID when the game is joined) and two kinds of detached threads  *)
(* that free it when the client or the connection to the server is gone.   *)
(* api_server.c, handleGameCreate and executeCallback of bot.c,            *)
(* freePendingCommand of cmd_queue.c.                                      *)
(*                                                                         *)
(* The queues are abstract here (CommandPipeline has them): a command is   *)
(* waiting, sent, or ended.  A creation stands for its request, its        *)
(* parameter, its command and the game the server makes for it.            *)
(***************************************************************************)
EXTENDS Integers, FiniteSets

CONSTANTS
  Conns,           \* HTTP connections
  Creations,       \* requests to create a game
  Names,           \* names of games
  NoGame,          \* gameID -1
  NoCreation,      \* the NULL parameter
  MaxDisconnects   \* bound: connections to the server that are lost

ASSUME CreationAssumption ==
  /\ NoGame \notin Creations /\ NoCreation \notin Creations
  /\ MaxDisconnects \in Nat

VARIABLES
  gameName,      \* per creation: the name of the game it asks for
  status,        \* per connection: open, closing (c->is_closing) or closed
  isGameCreate,  \* s->isGameCreate
  param,         \* s->param
  closing,       \* s->closing: 408 was sent
  memory,        \* per creation: its parameter is none, live or freed
  gameID,        \* param->gameID
  callbackFn,    \* param->callbackFn is not NULL (it is ErrorCallback)
  command,       \* per creation: none, waiting, sent, ended
  made,          \* games the server may still announce
  gameList,      \* games of b->gameList
  callFreers,    \* creations whose freeCmdForGameCreate of bot.c runs
  waitFreers,    \* creations whose freeCmdForGameCreate of cmd_queue.c runs
  disconnects,   \* a bound: connections lost so far
  late,          \* history: a creation timed out while the API thread polled it
  frees,         \* ghost: times each parameter was freed
  answers        \* ghost: <<creation, gameID>> of each 201

connVars   == <<status, isGameCreate, param, closing>>
paramVars  == <<memory, gameID, callbackFn, frees>>
botVars    == <<command, made, gameList, disconnects, late>>
freers     == <<callFreers, waitFreers>>
clientVars == <<gameName, answers>>
vars == <<connVars, paramVars, botVars, freers, clientVars>>

-----------------------------------------------------------------------------
\* s->isGameCreate with an open connection: the API thread polls the parameter.
Polls(c, p) == status[c] # "closed" /\ isGameCreate[c] /\ param[c] = p

Free(p) ==   \* freeGameCreateCallbackWaitParam
  /\ memory' = [memory EXCEPT ![p] = "freed"]
  /\ frees' = [frees EXCEPT ![p] = @ + 1]

\* What a read of param->gameID returns: of freed memory, anything.
ReadID(p) == IF memory[p] = "live" THEN {gameID[p]} ELSE Creations \cup {NoGame}

-----------------------------------------------------------------------------
\* The API thread.

\* serverCreateGameCommand and sendCreateGameCommand.
Create(c, p) ==
  /\ status[c] = "open"
  /\ memory[p] = "none"
  /\ memory' = [memory EXCEPT ![p] = "live"]
  /\ command' = [command EXCEPT ![p] = "waiting"]
  /\ isGameCreate' = [isGameCreate EXCEPT ![c] = TRUE]
  /\ param' = [param EXCEPT ![c] = p]
  /\ UNCHANGED <<status, closing, gameID, callbackFn, frees, made, gameList, disconnects,
                 late, freers, clientVars>>

PollCreatedAgain(c) ==   \* mutant: isGameCreate is not reset
  \E p \in Creations :
    /\ Polls(c, p)
    /\ \E ID \in ReadID(p) \ {NoGame} : answers' = answers \cup {<<p, ID>>}
    /\ Free(p)
    /\ UNCHANGED <<connVars, gameID, callbackFn, botVars, freers, gameName>>

\* MG_EV_POLL: the game was made, 201 and the end of the parameter.
PollCreated(c) ==
  \E p \in Creations :
    /\ Polls(c, p)
    /\ \E ID \in ReadID(p) \ {NoGame} : answers' = answers \cup {<<p, ID>>}
    /\ Free(p)
    /\ isGameCreate' = [isGameCreate EXCEPT ![c] = FALSE]
    /\ UNCHANGED <<status, param, closing, gameID, callbackFn, botVars, freers, gameName>>

\* MG_EV_POLL of a connection that is not waiting for a game: TIMEOUT seconds
\* after it was accepted it is told 408, then closed.
PollOld(c) ==
  /\ status[c] = "open"
  /\ ~isGameCreate[c]
  /\ IF closing[c]
     THEN status' = [status EXCEPT ![c] = "closing"] /\ UNCHANGED closing
     ELSE closing' = [closing EXCEPT ![c] = TRUE] /\ UNCHANGED status
  /\ UNCHANGED <<isGameCreate, param, paramVars, botVars, freers, clientVars>>

CloseSilently(c) ==   \* mutant: callbackFn stays NULL
  /\ status[c] # "closed"
  /\ status' = [status EXCEPT ![c] = "closed"]
  /\ IF isGameCreate[c] /\ ReadID(param[c]) # {NoGame}
     THEN Free(param[c]) ELSE UNCHANGED <<memory, frees>>
  /\ UNCHANGED <<isGameCreate, param, closing, gameID, callbackFn, botVars, freers, clientVars>>

\* MG_EV_CLOSE or MG_EV_ERROR: a made game's parameter is freed here, another's
\* is left to the bot thread, which is told by callbackFn.
Close(c) ==
  /\ status[c] # "closed"
  /\ status' = [status EXCEPT ![c] = "closed"]
  /\ \/ /\ ~isGameCreate[c]
        /\ UNCHANGED paramVars
     \/ /\ isGameCreate[c]
        /\ \/ /\ ReadID(param[c]) # {NoGame}
              /\ Free(param[c])
              /\ UNCHANGED <<gameID, callbackFn>>
           \/ /\ NoGame \in ReadID(param[c])
              /\ callbackFn' = [callbackFn EXCEPT ![param[c]] = TRUE]
              /\ UNCHANGED <<memory, gameID, frees>>
  /\ UNCHANGED <<isGameCreate, param, closing, botVars, freers, clientVars>>

-----------------------------------------------------------------------------
\* The bot thread.

\* The command leaves sendQueue for callbackQueue, and the server may make the
\* game at any time from now on.
Send(p) ==
  /\ command[p] = "waiting"
  /\ command' = [command EXCEPT ![p] = "sent"]
  /\ made' = made \cup {p}
  /\ UNCHANGED <<connVars, paramVars, gameList, disconnects, late, freers, clientVars>>

AnyCreation(g) == {p \in Creations : command[p] = "sent"}   \* mutant: no strcmp

\* The commands gameWithName may find: callbackQueue rotates, so any of the
\* pending creations of the game's name may be the first.
GameWithName(g) == {p \in Creations : command[p] = "sent" /\ gameName[p] = gameName[g]}

GameJoinedPeek(g) ==   \* mutant: the command stays in callbackQueue
  /\ g \in made
  /\ made' = made \ {g}
  /\ \E p \in GameWithName(g) :
       /\ gameList' = gameList \cup {g}
       /\ gameID' = [gameID EXCEPT ![p] = g]
       /\ callFreers' = IF callbackFn[p] THEN callFreers \cup {p} ELSE callFreers
  /\ UNCHANGED <<connVars, memory, callbackFn, frees, command, disconnects, late, waitFreers,
                 clientVars>>

GameJoinedNoThread(g) ==   \* mutant: nobody frees for a client that left
  /\ g \in made
  /\ made' = made \ {g}
  /\ \E p \in GameWithName(g) :
       /\ command' = [command EXCEPT ![p] = "ended"]
       /\ gameList' = gameList \cup {g}
       /\ gameID' = [gameID EXCEPT ![p] = g]
  /\ UNCHANGED <<connVars, memory, callbackFn, frees, disconnects, late, freers, clientVars>>

\* handleGameCreate: the game enters the list and its creation learns its ID.
GameJoined(g) ==
  /\ g \in made
  /\ made' = made \ {g}
  /\ \/ /\ GameWithName(g) = {}
        /\ UNCHANGED <<command, gameList, gameID, callFreers>>
     \/ \E p \in GameWithName(g) :
          /\ command' = [command EXCEPT ![p] = "ended"]
          /\ gameList' = gameList \cup {g}
          /\ gameID' = [gameID EXCEPT ![p] = g]
          /\ callFreers' = IF callbackFn[p] THEN callFreers \cup {p} ELSE callFreers
  /\ UNCHANGED <<connVars, memory, callbackFn, frees, disconnects, late, waitFreers, clientVars>>

\* executeCallback of a command that timed out.
Timeout(p) ==
  /\ command[p] = "sent"
  /\ command' = [command EXCEPT ![p] = "ended"]
  /\ Free(p)
  /\ late' = (late \/ \E c \in Conns : Polls(c, p))
  /\ UNCHANGED <<connVars, gameID, callbackFn, made, gameList, disconnects, freers, clientVars>>

Dropped == {p \in Creations : command[p] \in {"waiting", "sent"}}

DisconnectFreeing ==   \* mutant: the parameters are freed with their commands
  /\ disconnects < MaxDisconnects
  /\ disconnects' = disconnects + 1
  /\ command' = [p \in Creations |-> IF p \in Dropped THEN "ended" ELSE command[p]]
  /\ memory' = [p \in Creations |-> IF p \in Dropped THEN "freed" ELSE memory[p]]
  /\ made' = {}
  /\ gameList' = {}
  /\ UNCHANGED <<connVars, gameID, callbackFn, frees, late, freers, clientVars>>

\* botThread ends: freeGameList and freePendingCommand on both queues, which
\* leaves the parameters to threads that wait for callbackFn.
Disconnect ==
  /\ disconnects < MaxDisconnects
  /\ disconnects' = disconnects + 1
  /\ command' = [p \in Creations |-> IF p \in Dropped THEN "ended" ELSE command[p]]
  /\ waitFreers' = waitFreers \cup Dropped
  /\ made' = {}
  /\ gameList' = {}
  /\ UNCHANGED <<connVars, paramVars, callFreers, late, clientVars>>

-----------------------------------------------------------------------------
\* The detached threads, both called freeCmdForGameCreate.

CallFreer(p) ==   \* bot.c: ErrorCallback, then free
  /\ p \in callFreers
  /\ callFreers' = callFreers \ {p}
  /\ Free(p)
  /\ UNCHANGED <<connVars, gameID, callbackFn, botVars, waitFreers, clientVars>>

WaitFreer(p) ==   \* cmd_queue.c: waits for a callback, frees without calling it
  /\ p \in waitFreers
  /\ callbackFn[p]
  /\ waitFreers' = waitFreers \ {p}
  /\ Free(p)
  /\ UNCHANGED <<connVars, gameID, callbackFn, botVars, callFreers, clientVars>>

Init ==
  /\ gameName \in [Creations -> Names]
  /\ status = [c \in Conns |-> "open"]
  /\ isGameCreate = [c \in Conns |-> FALSE]
  /\ param = [c \in Conns |-> NoCreation]
  /\ closing = [c \in Conns |-> FALSE]
  /\ memory = [p \in Creations |-> "none"]
  /\ gameID = [p \in Creations |-> NoGame]
  /\ callbackFn = [p \in Creations |-> FALSE]
  /\ command = [p \in Creations |-> "none"]
  /\ made = {}
  /\ gameList = {}
  /\ callFreers = {} /\ waitFreers = {}
  /\ disconnects = 0
  /\ late = FALSE
  /\ frees = [p \in Creations |-> 0]
  /\ answers = {}

Next ==
  \/ \E c \in Conns :
       \/ \E p \in Creations : Create(c, p)
       \/ PollCreated(c) \/ PollOld(c) \/ Close(c)
  \/ \E p \in Creations :
       Send(p) \/ GameJoined(p) \/ Timeout(p) \/ CallFreer(p) \/ WaitFreer(p)
  \/ Disconnect

\* The loops of the API thread and of the bot thread, and the detached threads.
\* The server need not announce a game, and no client has to close its connection.
Fairness ==
  /\ \A c \in Conns : WF_vars(PollCreated(c)) /\ WF_vars(PollOld(c))
  /\ \A p \in Creations : /\ WF_vars(Send(p)) /\ WF_vars(Timeout(p))
                          /\ WF_vars(CallFreer(p)) /\ WF_vars(WaitFreer(p))

Safety == Init /\ [][Next]_vars
Spec == Safety /\ Fairness

\* Clients give up in the end: tricebot.py:34 and sys_tests.cpp:89 set timeouts.
SpecClientsGiveUp == Spec /\ \A c \in Conns : WF_vars(Close(c))

-----------------------------------------------------------------------------
\* Properties.

TypeOK ==
  /\ gameName \in [Creations -> Names] /\ late \in BOOLEAN
  /\ status \in [Conns -> {"open", "closing", "closed"}]
  /\ isGameCreate \in [Conns -> BOOLEAN]
  /\ param \in [Conns -> Creations \cup {NoCreation}]
  /\ closing \in [Conns -> BOOLEAN]
  /\ memory \in [Creations -> {"none", "live", "freed"}]
  /\ gameID \in [Creations -> Creations \cup {NoGame}]
  /\ callbackFn \in [Creations -> BOOLEAN]
  /\ command \in [Creations -> {"none", "waiting", "sent", "ended"}]
  /\ made \subseteq Creations /\ gameList \subseteq Creations
  /\ callFreers \subseteq Creations /\ waitFreers \subseteq Creations
  /\ disconnects \in 0..MaxDisconnects
  /\ frees \in [Creations -> Nat]
  /\ answers \subseteq Creations \X (Creations \cup {NoGame})

Pending(p) == command[p] \in {"waiting", "sent"}

\* A connection that sends a second creation forgets the parameter of its first.
Orphaned(p) == \A c \in Conns : param[c] # p

\* However answering, closing, joining, losing the connection, timeouts and the
\* detached threads interleave, a parameter is freed at most once, until a
\* creation times out that the API thread polls.
FreedOnce == late \/ \A p \in Creations : frees[p] <= 1

\* The bot thread finds the parameter of every pending command alive, and so
\* does each detached thread until it frees it itself.
PointersLive ==
  \A p \in Creations :
    Pending(p) \/ p \in callFreers \cup waitFreers => memory[p] = "live"

\* Refuted.  bot.c:1163-1178, "the param struct is not freed as it assumes that a
\* thread is polling it": what the API thread polls is alive.  The timeout of the
\* command frees it under the poller.
PolledParamLive ==
  \A c \in Conns, p \in Creations : Polls(c, p) => memory[p] = "live"

\* Nothing but that timeout does: not the answer to another client, the close of a
\* connection, its loss, nor a timeout of a creation that nobody polls.
PolledUntilTimeout == late \/ PolledParamLive

\* At every moment somebody is in charge of freeing a live parameter: the bot
\* thread, a detached thread that will not wait for ever, or the API thread.
LiveHasOwner ==
  \A p \in Creations :
    memory[p] = "live" =>
      \/ Pending(p)
      \/ p \in callFreers
      \/ p \in waitFreers /\ callbackFn[p]
      \/ \E c \in Conns : Polls(c, p)
      \/ Orphaned(p)

\* Who may hold a parameter, and what callbackFn and gameID tell of it.
Holders ==
  /\ \A c, d \in Conns : param[c] = param[d] /\ param[c] # NoCreation => c = d
  /\ \A c \in Conns : isGameCreate[c] => param[c] # NoCreation
  /\ \A p \in Creations :
       /\ memory[p] = "none" =>
            /\ command[p] = "none" /\ ~callbackFn[p] /\ p \notin callFreers \cup waitFreers
            /\ Orphaned(p) /\ gameID[p] = NoGame
       /\ callbackFn[p] => \A c \in Conns : ~Polls(c, p)
       /\ p \in callFreers => callbackFn[p] /\ ~Pending(p) /\ p \notin waitFreers
       /\ p \in waitFreers => ~Pending(p)
       /\ gameID[p] # NoGame => ~Pending(p) /\ p \notin waitFreers

\* Who will free a live parameter, by what was written into it.
Owned ==
  \A p \in Creations :
    memory[p] = "live" =>
      /\ gameID[p] = NoGame => Pending(p) \/ p \in waitFreers
      /\ callbackFn[p] => Pending(p) \/ p \in callFreers \cup waitFreers
      /\ ~callbackFn[p] => (\E c \in Conns : Polls(c, p)) \/ Orphaned(p)

\* The inductive invariant, whatever timed out.
HoldersInv == TypeOK /\ Holders /\ Owned /\ PointersLive

FreesCounted == \A p \in Creations : frees[p] = IF memory[p] = "freed" THEN 1 ELSE 0

\* Until a creation times out that is polled, a freed parameter is not polled either, so
\* that it is not freed again.
OwnersInv == HoldersInv /\ (late \/ (PolledParamLive /\ FreesCounted))

\* Every parameter is freed once its client gave up, unless a second request
\* of its connection orphaned it.
EveryParamFreed ==
  \A p \in Creations : memory[p] = "live" ~> memory[p] = "freed" \/ Orphaned(p)

\* Of what GameJoined and Send leave behind, AnswersTold needs: a game is joined
\* once, after its command was sent, and no two parameters hold its ID.
JoinedOnce ==
  /\ \A g \in made : command[g] \in {"sent", "ended"}
  /\ \A p \in Creations : LET g == gameID[p] IN
       g # NoGame =>
         /\ g \notin made /\ command[g] \in {"sent", "ended"} /\ gameName[g] = gameName[p]
         /\ \A q \in Creations : gameID[q] = g => q = p
  /\ \A a \in answers : gameID[a[1]] = a[2] /\ a[2] # NoGame

\* Each client that is told of a game (201) is told of one that the server made,
\* of the name it asked for, and no two of the same, though the bot looks up the
\* creation by the name of the game (cmd_queue.c:165) and the queue rotates.
\* That it is the very game the client asked for does not follow, and is false
\* of two games of one name.
\* Until a polled creation times out: a freed parameter may name any game.
AnswersTold ==
  \/ late
  \/ /\ \A a \in answers : a[2] \in Creations \ made /\ gameName[a[2]] = gameName[a[1]]
     /\ \A a, b \in answers : a[2] = b[2] => a = b
=============================================================================
