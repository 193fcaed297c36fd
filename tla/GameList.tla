------------------------------- MODULE GameList -------------------------------
(***************************************************************************)
(* The list of games that the bot thread and the API thread share, and the *)
(* two mutexes they take on the way: b->mutex ("b") and gameList.mutex     *)
(* ("gl").  game_struct.c, handleGameEvent, the game timeout and the two   *)
(* ends of botThread in bot.c, the requests of api_server.c about games,   *)
(* gameEndCallback and onGameEnd of main.c.                                *)
(*                                                                         *)
(* An operation is the sequence of its steps: a lock, an unlock, or what   *)
(* it does to the list between them.  A thread runs one operation at a     *)
(* time, and the threads interleave between any two steps.  A game stands  *)
(* for its ID, its node and its struct; the mutexes of the queues, which   *)
(* are always taken last and held alone, are left out.                     *)
(***************************************************************************)
EXTENDS Integers, Sequences

CONSTANTS
  Bot, Api,         \* the two threads
  Nobody,           \* holder of a free mutex
  Games, NoGame,    \* games the server may announce, and the NULL game
  Requests,         \* kinds of API requests: "look", "kick", "end"
  MaxInbox,         \* bound: messages of the server on their way
  MaxEvents,        \* bound: events of one message
  MaxDisconnects    \* bound: connections to the server that are lost

ASSUME GameListAssumption ==
  /\ Bot # Api /\ Nobody \notin {Bot, Api} /\ NoGame \notin Games
  /\ Requests \subseteq {"look", "kick", "end"}
  /\ MaxInbox \in Nat /\ MaxEvents \in Nat \ {0} /\ MaxDisconnects \in Nat

Threads == {Bot, Api}

\* What the server may tell of a game in a GameEventContainer.
EventKinds == {"start", "stop", "join", "leave", "closed"}

VARIABLES
  holder,       \* who holds each mutex
  prog,         \* the steps each thread still has to take
  id,           \* the game ID each thread works on
  ref,          \* the struct game * each thread keeps
  events,       \* the events of its message each thread has still to deal with
  closed,       \* history: one that it dealt with was a GameClosed
  listed,       \* the games of b->gameList
  memory,       \* each game's struct: none, live or freed
  started,      \* game->started
  leaves,       \* games with a LeaveGame whose callback is gameEndCallback
  inbox,        \* messages from the server
  server,       \* what the server last said of each game
  disconnects   \* a bound: connections lost so far

loopVars   == <<events, closed>>
threadVars == <<holder, prog, id, ref, loopVars>>
listVars   == <<listed, memory, started, leaves>>
serverVars == <<inbox, server, disconnects>>
vars == <<threadVars, listVars, serverVars>>

-----------------------------------------------------------------------------
\* Steps.

Lock(m)   == [do |-> "lock", on |-> m]
Unlock(m) == [do |-> "unlock", on |-> m]
Do(what)  == [do |-> what]

\* getGameWithIDNTS, and what follows when there is a game and when not.
Find(found, missing) == [do |-> "find", found |-> found, missing |-> missing]

-----------------------------------------------------------------------------
\* The operations of the bot thread.

Section(m) == <<Lock(m), Unlock(m)>>

PrepCmd == Section("b")

RemoveGame == <<Lock("gl"), Do("remove"), Unlock("gl")>>
AddGame    == <<Lock("gl"), Do("add"), Unlock("gl")>>

\* addPlayer, removePlayer and the loops over the players in handleGameEvent.
EditPlayers == <<Lock("gl"), Do("use"), Unlock("gl")>>

\* At the end of botEventHandler: is the bot still running?
CheckRunning == Section("b")

TimedOutGoOn ==   \* mutant: the loop goes on after a removal
  PrepCmd \o <<Unlock("gl"), Do("use")>> \o RemoveGame \o <<Do("use")>>

TimedOutNoLock ==   \* mutant: prepCmdNTS without b->mutex
  <<Unlock("b"), Unlock("gl"), Do("use")>> \o RemoveGame

\* A game that was not started for MAX_GAME_WAIT seconds is left and removed;
\* its node is read after the mutex of the list is released.
TimedOut == PrepCmd \o <<Unlock("gl"), Do("use")>> \o RemoveGame

\* The game timeout of a poll, in a new second; the mutex of the list is
\* unlocked at the end whether it is held or not.
PollGames(newSecond) ==
  IF newSecond
  THEN <<Lock("b"), Lock("gl"), Unlock("b"), Do("scan"), Unlock("gl")>>
  ELSE <<Unlock("gl")>>

\* The ping of a poll: needsPing, and sendPing without the mutex.
PollPing(pingDue) ==
  IF pingDue THEN Section("b") \o PrepCmd \o Section("b") ELSE Section("b")

\* MG_EV_POLL: the room list, the game timeout, the send queue and the ping,
\* then what mg_mgr_poll reads.  The first poll releases b->mutex once more to
\* queue the room list's command.
Poll(newSecond, pingDue) ==
  Section("b") \o PollGames(newSecond) \o Section("b") \o PollPing(pingDue)
  \o CheckRunning \o <<Do("read")>>

\* onGameEnd of main.c.
OnGameEnd == Section("b") \o PrepCmd \o <<Do("leave")>>

GameClosedKeeps == Section("b")   \* mutant: the game stays in the list
GameClosed == Section("b") \o RemoveGame

\* What handleGameEvent does with one event of the container: the pointer it found
\* is used after the mutex is released, and b->mutex is taken to read callbacks.
GameEvent(kind) ==
  CASE kind = "start"  -> <<Do("start")>> \o Section("b")
    [] kind = "stop"   -> <<Do("stop")>> \o Section("b")
    [] kind = "join"   -> EditPlayers \o EditPlayers \o Section("b")
    [] kind = "leave"  -> Section("b") \o EditPlayers
    [] kind = "closed" -> GameClosed

\* handleGameCreate, gameEndCallback and handleGameEvent: one lookup for all the
\* events of a container.
Receive(kind) ==
  (CASE kind = "joined" -> AddGame
     [] kind = "left"   -> <<Lock("gl"), Find(<<Unlock("gl")>> \o RemoveGame, <<Unlock("gl")>>)>>
     [] kind = "events" -> <<Lock("gl"), Find(<<Unlock("gl"), Do("events")>>, <<Unlock("gl")>>)>>)
  \o CheckRunning

EndThreadNoReset ==   \* mutant: the head of the list is not reset
  <<Lock("b"), Lock("gl"), Do("freeAll"), Unlock("gl"), Unlock("b")>> \o Section("b")
  \o <<Lock("b"), Do("init"), Unlock("b")>>

\* The end of botThread, and the beginning of the next one: freeGameList
\* releases the list before its head is reset.  onBotDisconnect of main.c
\* starts the bot again.
EndThread ==
  <<Lock("b"), Lock("gl"), Do("freeAll"), Unlock("gl"), Do("reset"), Unlock("b")>>
  \o Section("b") \o <<Lock("b"), Do("init"), Unlock("b")>>

-----------------------------------------------------------------------------
\* The operations of the API thread.

\* The game page, the update of a player's name, the end of the deck checks.
LookAtGame == <<Lock("gl"), Find(<<Do("use"), Unlock("gl")>>, <<Unlock("gl")>>)>>

\* getPlayerIDForGameIDAndName, then prepCmd.
KickPlayer == <<Lock("gl"), Find(<<Unlock("gl")>> \o PrepCmd, <<Unlock("gl")>>)>>

\* serverEndGame: prepCmd under the mutex of the list, which stays locked when
\* there is no such game.
EndGame == <<Lock("gl"), Find(PrepCmd \o <<Unlock("gl")>> \o RemoveGame, <<>>)>>

Request(kind) ==
  CASE kind = "look" -> LookAtGame
    [] kind = "kick" -> KickPlayer
    [] kind = "end"  -> EndGame

-----------------------------------------------------------------------------
\* Taking steps.

Next1(t) == Head(prog[t])
Rest(t)  == Tail(prog[t])
Takes(t, what) == prog[t] # <<>> /\ Next1(t).do = what

\* prog' when t goes on with steps before the rest of its operation.
GoOn(t, steps) == prog' = [prog EXCEPT ![t] = steps \o Rest(t)]

Acquire(t) ==
  /\ Takes(t, "lock")
  /\ holder[Next1(t).on] = Nobody
  /\ holder' = [holder EXCEPT ![Next1(t).on] = t]
  /\ GoOn(t, <<>>)
  /\ UNCHANGED <<id, ref, listVars, loopVars, serverVars>>

\* pthread_mutex_unlock of a default mutex frees it, whoever holds it.
Release(t) ==
  /\ Takes(t, "unlock")
  /\ holder' = [holder EXCEPT ![Next1(t).on] = Nobody]
  /\ GoOn(t, <<>>)
  /\ UNCHANGED <<id, ref, listVars, loopVars, serverVars>>

FindGame(t) ==
  /\ Takes(t, "find")
  /\ \/ /\ id[t] \in listed
        /\ ref' = [ref EXCEPT ![t] = id[t]]
        /\ GoOn(t, Next1(t).found)
     \/ /\ id[t] \notin listed
        /\ ref' = [ref EXCEPT ![t] = NoGame]
        /\ GoOn(t, Next1(t).missing)
  /\ UNCHANGED <<holder, id, listVars, loopVars, serverVars>>

ScanStuck(t) ==   \* mutant: current is not moved on
  /\ Takes(t, "scan")
  /\ \/ \E g \in listed :
          /\ ~started[g]
          /\ ref' = [ref EXCEPT ![t] = g]
          /\ GoOn(t, TimedOut)
     \/ /\ GoOn(t, IF listed = {} THEN <<>> ELSE <<Do("scan")>>)
        /\ UNCHANGED ref
  /\ UNCHANGED <<holder, id, listVars, loopVars, serverVars>>

\* The loop over the list in a poll: some game timed out, or none did.
Scan(t) ==
  /\ Takes(t, "scan")
  /\ \/ \E g \in listed :
          /\ ~started[g]
          /\ ref' = [ref EXCEPT ![t] = g]
          /\ GoOn(t, TimedOut)
     \/ /\ GoOn(t, <<>>)
        /\ UNCHANGED ref
  /\ UNCHANGED <<holder, id, listVars, loopVars, serverVars>>

\* A read or a write through the pointer that changes nothing here.
Use(t) ==
  /\ Takes(t, "use")
  /\ GoOn(t, <<>>)
  /\ UNCHANGED <<holder, id, ref, listVars, loopVars, serverVars>>

\* currentGame->started: of freed memory, anything.
Started(g) == IF memory[g] = "live" THEN {started[g]} ELSE BOOLEAN

\* Event_GameStateChanged.
ChangeState(t) ==
  /\ Takes(t, "start") \/ Takes(t, "stop")
  /\ \E now \in Started(ref[t]) :
       \/ /\ Takes(t, "stop") /\ now
          /\ started' = [started EXCEPT ![ref[t]] = FALSE]
          /\ GoOn(t, Section("b") \o OnGameEnd)
       \/ /\ Takes(t, "start") /\ ~now
          /\ started' = [started EXCEPT ![ref[t]] = TRUE]
          /\ GoOn(t, Section("b") \o <<Do("use")>>)
       \/ /\ now = Takes(t, "start")
          /\ GoOn(t, <<>>)
          /\ UNCHANGED started
  /\ UNCHANGED <<holder, id, ref, listed, memory, leaves, loopVars, serverVars>>

\* enq of the LeaveGame of onGameEnd.
Leave(t) ==
  /\ Takes(t, "leave")
  /\ leaves' = leaves \cup {id[t]}
  /\ GoOn(t, <<>>)
  /\ UNCHANGED <<holder, id, ref, listed, memory, started, loopVars, serverVars>>

Add(t) ==
  /\ Takes(t, "add")
  /\ listed' = listed \cup {id[t]}
  /\ memory' = [memory EXCEPT ![id[t]] = "live"]
  /\ GoOn(t, <<>>)
  /\ UNCHANGED <<holder, id, ref, started, leaves, loopVars, serverVars>>

\* removeGame looks for the pointer, which may be of a game that is gone.
Remove(t) ==
  /\ Takes(t, "remove")
  /\ \/ /\ ref[t] \in listed
        /\ listed' = listed \ {ref[t]}
        /\ memory' = [memory EXCEPT ![ref[t]] = "freed"]
     \/ /\ ref[t] \notin listed
        /\ UNCHANGED <<listed, memory>>
  /\ GoOn(t, <<>>)
  /\ UNCHANGED <<holder, id, ref, started, leaves, loopVars, serverVars>>

FreeAll(t) ==
  /\ Takes(t, "freeAll")
  /\ memory' = [g \in Games |-> IF g \in listed THEN "freed" ELSE memory[g]]
  /\ GoOn(t, <<>>)
  /\ UNCHANGED <<holder, id, ref, listed, started, leaves, loopVars, serverVars>>

Reset(t) ==
  /\ Takes(t, "reset")
  /\ listed' = {}
  /\ leaves' = {}
  /\ GoOn(t, <<>>)
  /\ UNCHANGED <<holder, id, ref, memory, started, loopVars, serverVars>>

\* initGameList.
InitGameList(t) ==
  /\ Takes(t, "init")
  /\ holder' = [holder EXCEPT !["gl"] = Nobody]
  /\ listed' = {}
  /\ GoOn(t, <<>>)
  /\ UNCHANGED <<id, ref, memory, started, leaves, loopVars, serverVars>>

\* mg_mgr_poll reads the next message, if there is one.
Read(t) ==
  /\ Takes(t, "read")
  /\ \/ /\ inbox = <<>>
        /\ GoOn(t, <<>>)
        /\ UNCHANGED <<id, events, inbox>>
     \/ /\ inbox # <<>>
        /\ inbox' = Tail(inbox)
        /\ id' = [id EXCEPT ![t] = Head(inbox).game]
        /\ events' = [events EXCEPT ![t] = Head(inbox).events]
        /\ GoOn(t, Receive(Head(inbox).kind))
  /\ UNCHANGED <<holder, ref, closed, listVars, server, disconnects>>

\* The loop of handleGameEvent, which goes on after a GameClosed.
NextEvent(t) ==
  /\ Takes(t, "events")
  /\ \/ /\ events[t] = <<>>
        /\ GoOn(t, <<>>)
        /\ UNCHANGED loopVars
     \/ /\ events[t] # <<>>
        /\ events' = [events EXCEPT ![t] = Tail(@)]
        /\ closed' = [closed EXCEPT ![t] = @ \/ Head(events[t]) = "closed"]
        /\ GoOn(t, GameEvent(Head(events[t])) \o <<Do("events")>>)
  /\ UNCHANGED <<holder, id, ref, listVars, serverVars>>

Step(t) ==
  \/ Acquire(t) \/ Release(t) \/ FindGame(t) \/ Scan(t) \/ Use(t) \/ ChangeState(t)
  \/ Leave(t) \/ Add(t) \/ Remove(t) \/ FreeAll(t) \/ Reset(t) \/ InitGameList(t)
  \/ Read(t) \/ NextEvent(t)

\* A thread starts an operation about game g; its last pointer is forgotten.
Begin(t, steps, g) ==
  /\ prog[t] = <<>>
  /\ prog' = [prog EXCEPT ![t] = steps]
  /\ id' = [id EXCEPT ![t] = g]
  /\ ref' = [ref EXCEPT ![t] = NoGame]
  /\ events' = [events EXCEPT ![t] = <<>>]
  /\ closed' = [closed EXCEPT ![t] = FALSE]
  /\ UNCHANGED <<holder, listVars>>

BeginPoll ==
  /\ \E newSecond, pingDue \in BOOLEAN : Begin(Bot, Poll(newSecond, pingDue), NoGame)
  /\ UNCHANGED serverVars

BeginRequest ==
  /\ \E kind \in Requests, g \in Games : Begin(Api, Request(kind), g)
  /\ UNCHANGED serverVars

Disconnect ==
  /\ disconnects < MaxDisconnects
  /\ disconnects' = disconnects + 1
  /\ Begin(Bot, EndThread, NoGame)
  /\ inbox' = <<>>
  /\ server' = [g \in Games |-> IF server[g] = "none" THEN "none" ELSE "closed"]

-----------------------------------------------------------------------------
\* The server.

\* A response, or an Event_GameJoined.
Says(kind, g) ==
  /\ Len(inbox) < MaxInbox
  /\ inbox' = Append(inbox, [kind |-> kind, game |-> g, events |-> <<>>])
  /\ UNCHANGED <<threadVars, listed, memory, started, disconnects>>

\* The last message on its way is a container of game events, and gets one more.
TellsMore(event, g) ==
  /\ inbox # <<>>
  /\ LET m == inbox[Len(inbox)] IN
     /\ m.kind = "events" /\ m.game = g /\ Len(m.events) < MaxEvents
     /\ inbox' = [inbox EXCEPT ![Len(inbox)].events = Append(@, event)]
  /\ UNCHANGED <<threadVars, listVars, disconnects>>

\* Of a game that is not closed: in a new container, or in that one.
Tells(event, g) ==
  \/ /\ Len(inbox) < MaxInbox
     /\ inbox' = Append(inbox, [kind |-> "events", game |-> g, events |-> <<event>>])
     /\ UNCHANGED <<threadVars, listVars, disconnects>>
  \/ TellsMore(event, g)

ServerMakes(g) ==
  /\ server[g] = "none"
  /\ server' = [server EXCEPT ![g] = "waiting"]
  /\ Says("joined", g)
  /\ UNCHANGED leaves

ServerStarts(g) ==
  /\ server[g] = "waiting"
  /\ server' = [server EXCEPT ![g] = "playing"]
  /\ Tells("start", g)

ServerStops(g) ==
  /\ server[g] = "playing"
  /\ server' = [server EXCEPT ![g] = "waiting"]
  /\ Tells("stop", g)

ServerMovesPlayers(g) ==
  /\ server[g] \in {"waiting", "playing"}
  /\ Tells("join", g) \/ Tells("leave", g)
  /\ UNCHANGED server

ServerCloses(g) ==
  /\ server[g] \in {"waiting", "playing"}
  /\ server' = [server EXCEPT ![g] = "closed"]
  /\ Tells("closed", g)

\* Nothing keeps the server from telling more of a game that it closed; in a
\* later container that finds no game.
ServerTellsMore(g) ==
  /\ server[g] = "closed"
  /\ \E event \in EventKinds : TellsMore(event, g)
  /\ UNCHANGED server

\* The response to the LeaveGame of onGameEnd.
ServerLetsLeave(g) ==
  /\ g \in leaves
  /\ leaves' = leaves \ {g}
  /\ Says("left", g)
  /\ UNCHANGED server

ServerSays ==
  \E g \in Games :
    \/ ServerMakes(g) \/ ServerStarts(g) \/ ServerStops(g) \/ ServerMovesPlayers(g)
    \/ ServerCloses(g) \/ ServerTellsMore(g) \/ ServerLetsLeave(g)

Init ==
  /\ holder = [m \in {"b", "gl"} |-> Nobody]
  /\ prog = [t \in Threads |-> <<>>]
  /\ id = [t \in Threads |-> NoGame]
  /\ ref = [t \in Threads |-> NoGame]
  /\ events = [t \in Threads |-> <<>>]
  /\ closed = [t \in Threads |-> FALSE]
  /\ listed = {}
  /\ memory = [g \in Games |-> "none"]
  /\ started = [g \in Games |-> FALSE]
  /\ leaves = {}
  /\ inbox = <<>>
  /\ server = [g \in Games |-> "none"]
  /\ disconnects = 0

Next ==
  \/ \E t \in Threads : Step(t)
  \/ BeginPoll \/ BeginRequest \/ Disconnect
  \/ ServerSays

\* The loop of the bot thread goes on, and a thread that waits for a mutex gets
\* it if it is released again and again: the API thread waits for the network
\* between two requests.  Neither requests nor messages need come.
Fairness == (\A t \in Threads : SF_vars(Step(t))) /\ WF_vars(BeginPoll)

Safety == Init /\ [][Next]_vars
Spec == Safety /\ Fairness

-----------------------------------------------------------------------------
\* Properties.

TypeOK ==
  /\ holder \in [{"b", "gl"} -> Threads \cup {Nobody}]
  /\ id \in [Threads -> Games \cup {NoGame}] /\ ref \in [Threads -> Games \cup {NoGame}]
  /\ events \in [Threads -> Seq(EventKinds)] /\ closed \in [Threads -> BOOLEAN]
  /\ listed \subseteq Games /\ leaves \subseteq Games
  /\ memory \in [Games -> {"none", "live", "freed"}]
  /\ started \in [Games -> BOOLEAN]
  /\ Len(inbox) <= MaxInbox
  /\ server \in [Games -> {"none", "waiting", "playing", "closed"}]
  /\ disconnects \in 0..MaxDisconnects

\* The games of the list are alive and no other game is, save while botThread
\* ends: no path to removeGame or addGame forgets a game or keeps a freed one.
ListedLive ==
  /\ TypeOK
  /\ (\A i \in 1..Len(prog[Bot]) : prog[Bot][i].do # "reset") =>
        listed = {g \in Games : memory[g] = "live"}

\* t will unlock m before it locks it.
InSection(t, m) ==
  \E i \in 1..Len(prog[t]) :
    /\ prog[t][i] = Unlock(m)
    /\ \A j \in 1..(i - 1) : prog[t][j] # Lock(m)

\* b->mutex, which numbers the commands, is held by whoever works under it.
BotMutexExclusive ==
  \A t \in Threads : InSection(t, "b") => holder["b"] = t

\* The bot thread reads or writes its struct game *.
UsesPointer == prog[Bot] # <<>> /\ Next1(Bot).do \in {"use", "start", "stop"}

\* The struct game * that the bot thread found under the mutex of the list and
\* uses after releasing it is of a live game, until it has dealt with a
\* GameClosed of the container it works on: no timeout, LeaveGame or other
\* message frees the game under it.
BotPointerLive == UsesPointer => memory[ref[Bot]] = "live" \/ closed[Bot]

\* bot.c:1074: a game is freed after the event functions, "to stop seg fault".
\* Refuted: the loop goes on to the events behind a GameClosed with the pointer.
NoUseAfterClosed == UsesPointer => memory[ref[Bot]] = "live"

\* No thread waits for ever: every request, poll and event ends, the stray
\* unlocks notwithstanding.  With "end" among the requests it is refuted:
\* serverEndGame leaves the mutex of the list locked, and takes b->mutex under it
\* while the poll takes them in the other order.
EveryOperationEnds == \A t \in Threads : prog[t] # <<>> ~> prog[t] = <<>>

\* A game the server closed is forgotten, whatever the requests and the timeout
\* do to it meanwhile.
ClosedGamesLeave == \A g \in Games : server[g] = "closed" ~> g \notin listed
=============================================================================
