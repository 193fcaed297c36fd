# A verification of CockatriceTournamentBot

TLA+ models of the bot library (`src/src/*.c`), checked with TLC and, where it
matters most, proved with TLAPS. Paths and line numbers are those of the
repository, `PROJECT.json` maps every definition to the lines it stands for.

## The system

The program keeps one websocket connection to a Cockatrice server
(*servatrice*), creates games on it for tournaments, watches them, downloads
their replays, and offers an HTTP API through which a tournament site does all
of this. It is one process with these threads and pieces of shared state:

| thread | runs | touches |
|---|---|---|
| bot | `botThread` (bot.c): `mg_mgr_poll` delivers poll, message, error and close events to `botEventHandler` | everything in `struct triceBot` |
| API | `pollingThread` (api_server.c): `mg_mgr_poll` delivers HTTP events to `eventHandler` | `b->mutex` (through `prepCmd`), `sendQueue`, `gameList`, the parameters of game creations |
| freer | two detached functions called `freeCmdForGameCreate` (bot.c, cmd_queue.c) | one game creation parameter each |
| replay saver | `threadSaveReplay` | files only |
| main | `main.c` | starts the others and sleeps |

### Components, their state, their operations

1. **Command pipeline** (`cmd_queue.c`, the poll branch of `botEventHandler`,
   `handleResponse`, `handleGameCreate`, `botThread`). State: `sendQueue`,
   `callbackQueue`, `cmdID`, the clocks `lastSend`, `lastPingTime`,
   `lastGameWaitCheck`, the limiter's counters. Operations: `prepCmd`, `enq`,
   `deq`, `cmdForCMDId`, `gameWithName`, the poll steps, the reset at both ends
   of a connection. Correct when no command is lost, duplicated or finished
   twice, when a response finishes the command it answers, and when every
   command ends.
2. **Game creation** (`serverCreateGameCommand`, the API's poll branch,
   `handleGameCreate`, `executeCallback`, both `freeCmdForGameCreate`). State:
   one `gameCreateCallbackWaitParam` per request, shared by three threads.
   Correct when it is freed once, by nobody while another thread still reads it,
   and when every API request is answered.
3. **Mutexes**: `b->mutex`, `gameList.mutex`, one per queue, one per parameter,
   `api->bottleneck`. Correct when no thread waits for ever, and none releases
   a lock another holds.
4. **Game list and game events** (`game_struct.c`, `handleGameEvent`, the game
   timeout of the poll branch). State: the list of games with their players.
   Correct when the list follows the server's events.
5. **Player slots** (`player_deck_info.c`, `playerJoin`, `playerLeave`,
   `playerPropertyChange` of `main.c`, the player list of `game_struct.c`,
   `serverUpdatePlayerInfo`, `serverDisablePlayerDeckVerififcation`,
   `serverKickPlayerCommand`). State: the slots, who uses them, the list of players,
   the copy of the game the callbacks get. Correct when a slot belongs to one
   player and a player to one slot, when nobody plays who was not checked, and only
   listed decks play.
6. **Lifecycle and session** (`startBot`, `stopBot`, `freeBot`, `botThread`, login,
   room list, the setters of `trice_structs.c`, `botDisconnect` of `main.c`).
   State: `running`, the thread handle, the session's fields, the user's handlers.
   Correct when one thread at a time runs the bot, a stop stops it, each connection
   joins one room, and a lost connection is made again.
7. **Replays** (`replayReady`, `onReplayDownloadResponse`, `saveReplay`,
   `getReplayFileName`, the replay links of `eventHandler`). State: the commands that
   ask for replays, the threads that save them, the files. Correct when each
   replay announced is saved or accounted for, a file is below the replay folder and
   holds one whole replay, and a link leads to its own game.
8. **HTTP API parsing** (`tb_readProperty` and the endpoints of `api_server.c`),
   **configuration** (`bot_conf.c`, the checks of `main`), **chat commands**
   (`commands.c`). Correct when only authorised requests are obeyed, slots are as the
   request lists them, the last line of a property counts, and questions are answered
   once.

The components meet in four ways: callbacks run on the bot thread when a command
finishes (1 to 2, 6, 7), the API thread issues commands (2, 4 to 1), both threads
edit the game list and the slots (4, 5), and what the outside sends decides which
of this happens (8).

What is hard to test in all this, and where it bites, is the list `hazards` of
`PROJECT.json`.

## Modules

| module | models | lines |
|---|---|---|
| `CommandPipeline` | component 1 in full: the two queues, the IDs, the clocks, every step of a poll, the answers, both ends of `botThread` | cmd_queue.c, bot.c |
| `CommandService` | what component 1 promises: a command waits, is sent, ends; no queue, no ID, no clock | abstract |
| `QueueLemmas` | lemmas on unlinking, appending and taking the head of a queue | |
| `CommandPipelineProofs` | the theorems about `CommandPipeline` | |
| `CreateGame` | component 2 over abstract queues: one parameter per request, three threads and a lossy connection | api_server.c, bot.c, cmd_queue.c, game_struct.c |
| `CreateGameProofs` | the theorems about `CreateGame` | |
| `GameList` | components 3 and 4, lock by lock: `b->mutex`, `gameList.mutex`, and every operation of the bot thread and of the API thread on the list | game_struct.c, bot.c, api_server.c, main.c |
| `GameListProofs` | the theorems about `GameList`: its programs and `b->mutex`; the memory of games | |
| `PlayerSlots` | component 5: the bot thread's callbacks against the requests that edit slots | player_deck_info.c, main.c, game_struct.c, api_server.c |
| `Seating` | what component 5 promises: who sits stays where they sit until they leave | abstract |
| `PlayerSlotsProofs` | the theorems about `PlayerSlots` | |
| `BotSession` | component 6: the bot's threads, its user, the session on each connection | bot.c, trice_structs.c, main.c |
| `BotSessionProofs` | the theorems about `BotSession` | |
| `ReplayFiles` | component 7: downloads, retries, the threads that write files | bot.c |
| `ReplayNames` | component 7: the name of a replay's file and the link that leads to it | bot.c, api_server.c, mongoose.c |
| `ApiRequests` | component 8: bodies read line by line, endpoints, the token, the slots of a new game | api_server.c |
| `ConfigReader` | component 8: `config.conf` | bot_conf.c, main.c |
| `ChatCommands` | component 8: the commands in the chat | commands.c |
| `Inputs` | one behaviour of any of the last five, which share no state | |
| `ReplayNamesProofs` | the theorems about `ReplayNames` | |
| `InputsProofs` | the theorems about `ApiRequests`, `ConfigReader`, `ChatCommands`, `ReplayFiles` and `Inputs` | |
| `MC...` | values of the constants for TLC | |

### CommandPipeline

A step is what a thread does between two points where another thread can act on
`sendQueue`. The bot thread is a program counter `botPc`: idle between events,
then `rooms`, `games`, `leave`, `send`, `timeout`, `ping` in the order of the
poll branch of `botEventHandler`, `handler` for an event handler between its
`prepCmd` and `enq`, and `cleanup`, `reset`, `down`, `init` for the end of
`botThread` and the start of the next one. Other threads prepare a command
(`Prepare`, under `b->mutex`) and queue it (`Enqueue`), with anything in between.
A command carries `cmdID`, `timeSent`, its kind and, as ghost data, its
connection and its number, by which properties tell commands apart whatever
their IDs. The server may send a response to any command it received, at any time
or never, and a GameJoined for a game creation; both may be late, when the ID
is in use again.

Left out: the bytes of messages, callbacks other than the ping's (the others
belong to other components), the 32 bit width of `timeSent`. `needsPing` and the
assignment after it read the clock twice; here they read one value.
`mg_ws_connect` returning NULL ends `botThread` as a lost connection does.

### CreateGame

`Create` is a request; it allocates a parameter, `memory` says whether it is
live. From then on `PollCreated`, `PollOld` and `Close` are the API thread's poll and
close events, `Send`, `GameJoined`, `Timeout` and `Disconnect` the bot thread's,
`CallFreer` and `WaitFreer` the two detached functions called
`freeCmdForGameCreate`. A read of a freed parameter may return anything
(`ReadID`). The pipeline is abstract: a command waits, is sent, is ended. Two
sections of the code under the parameter's mutex are one step each, since
neither thread touches the parameter after its section.

Left out: the case that `pthread_create` fails (the same work is done on the bot
thread), the leak when a command is queued while `botThread` frees its queues
(`CommandPipeline` has that outcome, `leaked`), the unlocking of a mutex that was
just freed at the end of `Close`.

### GameList

An operation is a sequence of steps: `Lock`, `Unlock`, and what it does to the
list. `Acquire` waits for a free mutex; `Release` frees a mutex whoever holds it,
which is what the default mutex of the platform does when a thread unlocks
a mutex it does not hold. `Find` carries the two continuations of a lookup.
`Poll`, `Receive` and `EndThread` are the bot thread's operations, `LookAtGame` (the
game page, the update of a player's name, the end of deck checks),
`KickPlayer` and `EndGame` the API's; `CONSTANT Requests` says which of the
API's operations a run has. `Started` of a freed game may be anything. A message of the
server about a game is a container of events: the game is looked up once, and `NextEvent`
is a turn of the loop of `handleGameEvent` with the pointer that was found (`events` is
what is left of the container, `closed` remembers a GameClosed). Nothing keeps the
server from telling more of a game behind its GameClosed (`ServerTellsMore`).

Left out: time (a game that was not started may time out at any poll of a new
second), the order of the list, the players' names, and that the allocator may
give a new game the address of a freed one.

### PlayerSlots

The bot thread takes the next event (`Receive`), and works on it: `Join`,
then the loop of `isPlayerAllowed` turn by turn (`IsPlayerAllowed`), then `TakeSlot`;
`Leave`; `LoadDeck`. The API thread's `RenameSlot`, `KickPlayer` and `Disable` come
between any two of these, since the callbacks hold no mutex. The copy of the
game is made once per message (`copy`), with the pointer to the slots, so that after
`Disable` the callbacks read freed slots, which may look like anything
(`Dangling`). The server gives IDs in order and may put several events in
one message. `sure`, `own` and `unseen` are history, for the properties only.

Left out: spectators and judges, the names' lengths, what players are told. A deck is
loaded once per player.

### BotSession

The user thread starts the bot, sets handlers, stops and frees it. Each `startBot` makes
a bot thread, which goes through `start`, `connect`, `loop`, `cleanup`, `free`, `end`
(the parts of `botThread`) and may be calling a handler of the user (`calling`): the
pointer is read under the mutex and the function called after, so that a setter may
come between. `botDisconnect` is such a handler: it starts the bot again from the
thread that ends. On a connection the server's messages (`inbox`) and the poll
events interleave; the queues hold kinds of commands. `Lost` is the end of a connection,
`ConnectionError` an error, whose handler is called before the bot stops running.
`freeBot` and the `stopBot` in it each look at `running` (`Free`, `StopToFree`).

Left out: commands of other components, which only take turns in the queues; the
handlers of game events, called in `PlayerSlots` and `GameList`; a user who starts the bot
again after a stop that found nothing running, whose second thread would meet the one that
ends as the one of `botDisconnect` does.

### ApiRequests, ConfigReader, ChatCommands, ReplayNames, ReplayFiles

Five modules for what comes from outside. A line of a request or of the configuration
is a record of what the parser takes from it, a text is the set of names it is a prefix
of.

In `ApiRequests` a body is read to its end before any token is compared, and nothing is
refused on the way: a hash of the wrong length begins a row of decks like any other, and
when more rows were begun than the buffer has (api_server.c:614-624) the next hash is
written behind it. What the endpoint reads after that is undefined (`overrun`,
`Undefined`). `MaxEntries` bounds the names and hashes of a body.

`ReplayNames` is the exception to what was said of texts: there the conversion of a
description into a path is the subject, so a description is typed character by character,
sanitised as the code rewrites it in place, and cut where `snprintf` cuts (`Cut`). A client
asks for the link it was told as it is, or escapes what has a meaning in a request line
(`Escaped`, external); the server ends the path at a "?" or a space (`Received`), matches it
with the wildcard, looks for the ID with its automaton, and serves a file under the name
that decoding, `remove_double_dots` and trimming leave (`Served`). Left out: "*" and
"\\" in names, and a status page's text.

`ReplayFiles` has one thread per replay that arrived, each of which looks
whether the file exists, opens it and writes it in blocks, with a process that may end in
between.

## Runs

| run | asks | bounds |
|---|---|---|
| `pipeline` | that commands move through the queues once and are answered by their own responses, that pings are spaced over a reconnection, the inductive invariant of the proofs, and that the pipeline implements `CommandService` | two connections, one command of a client or of an event handler beside room lists and pings, two instants, `TIMEOUT` and `PING_FREQUENCY` 1, 3 IDs |
| `pipeline_live` | every queued command ends | one connection, one command of a client or handler, three instants, `TIMEOUT` 2, 9 IDs |
| `rate_limit` | refuted: at most `ratelimit` messages a second | |
| `create_game` | who owns the parameters of creations and frees them, that clients are told of games of the name they asked for, and that every parameter is freed, for a server that is in time, late or silent | 2 connections, 2 creations of the same or of two names, 2 losses of the server connection |
| `create_game_timeout` | refuted: what the API polls is alive | 1 connection, 1 creation |
| `game_list` | the list agrees with memory, `b->mutex` excludes, the bot's pointer stays valid until a GameClosed was dealt with | 1 game, 1 message of 2 events in flight, 1 reconnection, all requests but `end` |
| `game_list_live` | no thread blocks for ever, closed games leave the list | the same, 1 event in a message |
| `game_list_closed` | refuted: the bot uses no game it freed | 1 game, 2 events in a message, no request |
| `game_list_end` | refuted: no thread blocks for ever, with `end` among the requests | 1 game |
| `player_slots` | who sits where, who is kicked or warned, and that the slots implement `Seating` | 2 slots, 2 players (one spelled in another case), 2 decks, 2 messages in flight, 1 rename |
| `session` | one bot thread, stops that stop, one room per connection, login leads to a room, a lost connection is made again | 2 bot threads, 2 rooms, 2 settings of a handler |
| `inputs` | the properties of the five modules for what comes from outside | 1 request of any lines with 5 names and hashes, rows for 2 players of 2 decks, 2 starts of the program, 2 chat messages, descriptions of 4 of 6 characters, a buffer of 34, 3 replays of 2 files with 4 commands and 1 loss |

Why the bounds are enough. In `pipeline`, one client already races the bot
between `prepCmd` and `enq`, and one connection's end; with `ID_MODULUS` 3 the room list
request, pings and a game creation or a LeaveGame wrap the IDs while old ones are pending;
in two instants a command may time out, its answer come late and a ping repeat, and the
second connection finds the clocks of the first. In `pipeline_live` a command is passed
over by the timeout check at least once before it times out. In
`create_game` two games may have one name (the case the code confuses), or two, on one
connection (which orphans the first) or on two, and one may be joined when the other is
dropped, orphaned or times out. In `game_list` operations on different games meet only in the
mutexes, so that one game has the conflicts on data and on locks; two events are one
that frees or leaves the game and one behind it. In
`player_slots` two slots have all that the loop of `isPlayerAllowed` tells apart (a
slot for everybody, a slot with the player's name, "*"), a second player takes the slot
the first one wants or left, and two events fit in one message. In `session` two
threads are the one that ends and the one its handler makes. In `inputs` five names and
hashes are two players with a deck more between them than a row takes, one name or hash
more than there is room for, or bad hashes that begin a third row; lines repeat and
abbreviate. Four characters are a folder, a slash and what may hide in it, and among
them are a "%" and one that becomes a "?"; with a buffer of 34 characters the answers of
the longer names are cut and those of the shorter are not. Three replays are two that
share a file and one that does not.
Deadlock is checked in `pipeline`, `pipeline_live`, `rate_limit`,
`game_list` and `game_list_live`. Creations, players, bot threads and inputs are bounded, so the other
passing runs stop; `game_list_end` really deadlocks, and its property says so.

Fairness. `mg_mgr_poll` runs in a loop (bot.c:1550-1556, api_server.c:1261-1267),
so polls recur and a thread in an operation goes on; time passes. The server need
not answer. `EveryParamFreed` assumes that HTTP clients give up in
the end, as those of the repository do (tricebot.py:34, sys_tests.cpp:89). In
`GameList` a mutex that is released again and again is granted in the end
(strong fairness of `Step`): the API thread waits for the network between
requests, the bot thread between polls. In `session` the bot thread runs, each turn of
its loop delivers a poll event and closes a connection that is closing, and the server
answers; nothing is assumed of the user, of the end of connections or of timeouts.

## What the runs show

That hold: commands move through the queues exactly once and are answered by
their own responses; a game creation that was answered and re-queued is found
again; each parameter has one owner and is freed once, and clients are told of games
of the name they asked for, until a creation that is polled times out; requests that look at games or kick players
cannot block the bot thread, although each poll unlocks a mutex it may not hold; a player has one slot
and a slot one player, whatever requests do to the slots meanwhile, and nobody
plays unchecked while the verification is on; one thread runs the bot and joins one
room; a connection that is lost is made again; what is read from outside is obeyed
only with the token, and read as the documentation says but for what is listed below;
replays are saved in one file of their game, below the replay folder; the link of a game
in one folder, escaped where it has to be, leads to its status or to that very file.

That do not, each with a run that finds it:

- `rate_limit`: the limiter counts into the configured limit and compares it with a
  counter nobody sets (bot.c:1441-1455).
- `create_game_timeout`: the timeout of a creation frees its parameter under the
  API thread's poll (bot.c:335).
- `game_list_closed`: `handleGameEvent` finds its pointer once for all the events of a
  container (bot.c:883) and goes on with it after a GameClosed freed the game
  (bot.c:1078); the comment there (bot.c:1074) has the order right for one event only.
- `game_list_end`: `serverEndGame` leaves `gameList.mutex` locked when there is no
  such game (api_server.c:522), and takes `b->mutex` under it, against the order
  of the poll (bot.c:1388).

### Known weaknesses

Behaviour of the code that the models contain, and that the properties therefore
exclude or that lies outside them. A property that excludes one says so in its comment.

- Of two creations of one name, the first in `callbackQueue` is given the first game
  made (cmd_queue.c:165); `AnswersTold` speaks of names, not of games.
- A creation that is dropped with the server connection is never answered: the 408 of the
  poll branch is not reached (api_server.c:1159). `gameEndCallback` of a LeaveGame that
  timed out reads a NULL response (main.c:313).
- The poll releases `gameList.mutex` under a request (bot.c:1432), so that what the request
  looks at may be freed; the close handler unlocks the mutex it has just freed
  (api_server.c:1228).
- Events of a container behind a GameClosed are dealt with on the freed game
  (`game_list_closed`); a second GameClosed only looks for the freed pointer in the list.
  `BotPointerLive` speaks of the pointer until the first one.
- Callbacks read slots that a request has freed (main.c:149), and who leaves in the message
  they came with keeps a slot (main.c:223, `SlotsFollowPlayers`).
- A name behind two slots called "*" is not found by a rename (api_server.c:424).
- `stopBot` and `freeBot` return at once when the bot is no longer running, although the
  thread of a lost connection still ends (bot.c:1612-1616); `StopEndsThread` is about a stop
  that found the bot running. A refused login is followed by reconnection after
  reconnection without a pause (bot.c:275). `mg_mgr_free` polls an open connection once
  more after the session was reset.
- A crash leaves part of a replay in a file that is not overwritten (bot.c:653); two threads
  that both find no file write one over the other. `FileHoldsFirst` excludes both.
- A link with a "*" may be matched for ever: `mg_match` takes it for the "*" of the pattern,
  and tries the rest again and again from the same place (mongoose.c:3906); a "\\" is taken
  for a slash by `mg_http_serve_dir` and not by `saveReplay`. `CharacterAssumption` leaves both out of
  descriptions and of the replay folder.
- The wildcard is compared with the link before it is decoded, so that replays in a folder
  whose name has a space, "?" or "%" are not found by any link, and an absolute replay
  folder or one with "../" is looked for below the working directory (`FolderAssumption`).
- The link in the answer of a creation is not escaped (api_server.c:1174), and the bot writes
  "?" for what is not printable (bot.c:348-363). The server ends a path there
  (mongoose.c:1216): a link with a "?", "%" or space leads elsewhere unless the client
  escapes it, although api_help.html:204 sends clients to the link as it is.
- "*" stops at a slash (mongoose.c:3919), so that a replay in no folder or in two is a 404,
  although api_help.html:198-200, tricebot.py:62-63 and bot.h:31 build such links.
- Names and answers are cut at 4095 characters (bot.c:557, :641, api_server.c:1174). A cut
  name is still below the replay folder, but it may be that of a folder, and then the
  replay is not written; a cut link leads elsewhere. `FilesBelowFolder` and `LinkLeadsToGame`
  are about names and answers that fit.
- A deck hash that is not 8 characters long begins a row of decks (api_server.c:614), so that
  the next one of the same player lands in another's row, although "Bad lines are ignored"
  (api_help.html:92); the tag "*" of a player without deck check (:97) is such a hash. Of the
  ten decks of api_help.html:103 nine are kept (api_server.c:618).
- Hashes of a body may be written behind the buffer of rows, by anybody, since the body is
  read before the token is compared (api_server.c:613-624). `OnlyAuthorised` and
  `SlotsAsListed` say nothing of such a body.
- The help page of the API differs from the code in details: a player info that is too long is
  ignored, not truncated (api_help.html:102); a deck tag of "*" is not stored, so that no
  player is exempted from the check by it (:97); property
  names are read in lower case (:94); the hash of an empty slot is read from an address that
  is no array (:99, api_server.c:717); the replies of an update for a game that is not
  found and for one without verification are exchanged (:160-165). `SlotsAsListed`
  speaks of requests whose hashes have 8 characters, of no more names than there is room for
  and of the first 9 decks of each player.
- `checkauthkey` compares a body that has no terminator. A `ratelimit` of 0 makes later
  ones ignored (bot_conf.c:84, excluded from `LastLineUsed`), and the message for a file that
  was just made is not reached, because its status passes as success (main.c:397, :520).

## Proofs

All theorems hold for every value of the constants that the named assumptions
admit (`ThreadAssumption`, `TimeAssumption`, `BoundAssumption`,
`CreationAssumption`, `GameListAssumption`, `SlotsAssumption`, `Slots0Assumption`,
`SessionAssumption`, `WatchedAssumption`, `ConfigAssumption`, `ValuesAssumption`, `ChatAssumption`,
`BeginsAssumption`, `NamesAssumption`, `FolderAssumption`, `CharacterAssumption`). Some say what the code
makes true: "*" is the only deck of a slot that lists it (`AnyDeckAlone`); what
is read as `authtoken` is not `gameid` nor the name of a number (`TokenApart`; a property is
known by a prefix of its name); lengths are numbers and a row has room for a deck
(`RequestAssumption`); a match has finitely many replays (`ReplaysAssumption`); the
replay folder is a text (`NamesAssumption`). Two say what configurations and names the
links are right for: the replay folder is a relative path without "..", doubled slashes or
anything to escape (`FolderAssumption`), and there is no "*", "\\" or escape in it or in a
description (`CharacterAssumption`); only `LinkLeadsToGameHolds` uses them.

**CommandPipeline.** `TypeOK` alone is inductive (`PipelineTypes`). The other
properties are not: that a new command is in no queue needs that every known
command was numbered before it (`Fresh`), that two commands of one number are
one needs `KnownById`, that `enq` adds a command no queue has needs that a thread
holds one command and the bot holds one only where it queues it
(`HeldOnce`), that the reset of the queues forgets nothing pending needs
`PendingWhileConnected`, and that a response belongs to the command it finishes
needs that the server speaks of known commands (`ServerKnown`) and that IDs are
numbers modulo `ID_MODULUS` (`Numbered`). Their conjunction `IInv` is inductive
(`PipelineInvariant`). Instead of treating each action for each part,
`StepEffect` says what any step does: it issues a command, or it moves commands
between held, queued, pending and ended and adds the endings; the parts follow
from that. `QueueLemmas` gives the facts on sequences (unlinking a node removes
its command and nothing else). `NoCommandTwiceHolds`, `NoCommandLostHolds` and
`ResponsesMatchHolds` follow, the last by arithmetic on remainders. `PingsSpacedHolds` needs
that the last ping is no earlier than any ping there is and not in the future
(`PingsStamped`): the reset of a connection does not set `lastPingTime` back.
`PipelineImplementsService` shows that every step is a step of `CommandService` or
changes nothing it sees.

**CreateGame.** `Holders` says who may hold a parameter and what `callbackFn` and `gameID` tell
of it: the API thread polls one that has no callback, a detached thread frees one that has, a
parameter that has an ID is no longer the bot's; `Owned` says that a live one has somebody to
free it. With `PointersLive` they are inductive however late the server is (`HoldersInv`,
`HoldersInvariant`): the timeout frees the parameter of a pending command, which no
detached thread holds. So `PointersLiveHolds` and `LiveHasOwnerHolds` need no assumption
on the server. After the timeout of a creation that is polled (`late` remembers one) the
connection polls what was freed, as `create_game_timeout` shows; until then it does not, and a
freed parameter was freed once (`PolledParamLive`, `FreesCounted`; `OwnersInv`,
`OwnersInvariant`), which gives `FreedOnceHolds` and `PolledUntilTimeoutHolds`, and with
`JoinedOnce` (a game is joined once, after its command was sent) `AnswersToldHolds`.

**GameList.** A thread's program is data, so what is proved first is about programs
(`Free`, `Held`, `Branches`): every unlock of `b->mutex` has its lock before it, and no step
that others take the place of (a lookup, the loop over the games, a read, a change of
state) lies in a section. It survives joining programs and taking a step, and holds of
every operation (`PollProgram`, `ReceiveProgram`, `RequestProgram`, `EndThreadProgram`
...). That the thread which holds `b->mutex` is in a section, and nobody else is
(`ProgramsOK`), is then inductive and gives `BotMutexExclusiveHolds`; nothing of the kind is
true of `gameList.mutex`, which the poll unlocks whether it holds it or not.
`ListedLiveHolds` needs to know where botThread is when it ends (`Phases`: the games are
freed, the list is reset, the list is made again, in this order, `EndsInOrder`) and that
only a message adds a game, the game it names. `BotPointerLiveHolds` is under the
assumption that no request is an EndGame: then only the bot thread removes games,
and its programs use a pointer before they forget it (`UsesFirst`, `FindsFirst`). The loop
over a container gives the thread a new program for each event; until one is a GameClosed
(`PointerOrClosed`) that program forgets nothing (`EventOrderly`, `EventPointer`).

**PlayerSlots.** A player is given a slot only when they arrive. So `SlotsInv` says
that IDs are given in order and each arrival is in the inbox or at work once
(`Numbered`, `ArriveOnce`), that nobody has a slot whose arrival was not dealt with, and
that the slot the loop chose stays free until it is taken unless the slots were freed
(`ChosenFree`); it is inductive (`SlotsInvariant`). Every step is then a step of `Seating`
(`SlotsImplementSeating`), from which `OneSlotEachHolds` follows. `UncheckedKickedHolds`
also needs that a leave is told of who has left (`Told`), and that an arrival is worked on
with a copy that has the slots as long as there are slots (`Copied`): events of one
message follow one that made the copy. `ExpectedSeatedHolds` keeps, of the loop over the
slots, what it has passed. For `SlotsFollowPlayersHolds` the events come in the order of
what they tell of (`Orderly`), each player in the game has one entry in the bot's list
(`Entered`), and who leaves or loads a deck is in the copy or came in the same message
(`Seen`); `DeckCheckedHolds` adds that a player loads one deck (`Loaded`), who is told of it
only when it was dealt with.

**BotSession.** `TypeOKHolds` is inductive by itself. `OneHolder` says that the bot is in one
thread's hands: the thread that uses the session, or the one that ends and has still a
handler to call, and that threads are made one after the other; it gives
`OneBotThreadHolds`. While no handler was set that starts the bot again there is one
thread, the one `stopBot` joins (`OneStart`, `StopEndsThreadHolds`). `SessionInv` says of the
holder what it did on this connection, and gives `RoomJoinedOnceHolds` and
`HandlersCalledAfterHolds`, that `onBotLogin` is called with the rooms asked for and
`onBotDisconnect` with the session gone.

**What is read from outside** (`InputsProofs`). The token that is compared is the last one
that was sent, and nothing is answered before it is (`TokenInv`): `OnlyAuthorisedHolds`. The
names read so far are the players listed, each with the first decks that were sent for them
(`Kept`, `FirstDecks`), and as long as no bad hash and no name too many was sent
(`Followed`) each row of decks is the row of its player, the last of them perhaps still without one, so
that nothing is written behind them (`AsListed`): `SlotsAsListedHolds`. For the configuration each property has the value of its last line,
but for a rate limit of 0, which is remembered (`ConfigInv`): `LastLineUsedHolds`. A replay
is asked for or being saved by one command, which is not both (`AskInv`):
`ReplaysAccountedHolds`. A file that no two threads were about to make has one maker, which
has not found it there, and the blocks that the maker has written (`OneMaker`):
`FileHoldsFirstHolds`. In the chat, what was answered and then what the bot has still to hear
and will answer belong to questions in the order they were asked (`About`, `ChatInv`). What
it says in the room comes back to it as an event of its own, which is no question
(`EchoFacts`), and of a question there is one answer, whatever commands its text may stand
for (`ExecFacts`); a question of a user and a turn of the bot keep this (`TellKept`,
`HearKept`): `AnswersToQuestionsHolds`. The types need of each part little more than these
invariants have (`FilesLimits`, `ConfigValues`), and are proved of the five together,
since a behaviour of `Inputs` is a behaviour of each (`EachPart`): `InputsTypes`,
and with it `InputsCorrect`.

**ReplayNames.** `Neutral`, `Decimal` and `Match` are recursive functions; that they are the
loops they stand for is proved first, for a text of any length, from the least number for
which it would not be so (`LeastNumber`, `LoopExists`). A turn of the loop in
`getReplayFileName` turns characters into underscores and nothing else (`Underscored`), and
so keeps what is harmless harmless (`HarmlessKept`) while it makes its own position so
(`NeutralAtFacts`): in the end there is no "../" and no "//" in the path. The rest of a name is
dashes, figures and the extension, and a slash of the name is one of the description's:
`FilesBelowFolderHolds`, of names that are not cut.

For `LinkLeadsToGameHolds` the match of a link with the pattern is not a loop over the
link, since a star sends it back. That `Match` defines a function at all is proved from
the least set of states that lead to a match (`Leading`, `MatchTurns`). Without "*"
in the link the match walks through the folder (`SameTurn`), sets the two stars aside
(`StarTurn`) and comes back to the second one character later until it finds a slash
(`BackTurn`); counting the slashes that are left from the end of the link backwards, it
succeeds when there is exactly one behind the folder (`LinkMatches`), that is when the
description made one folder (`RoutedFacts`). The last dash of a link is the one before the
ID, so the automaton ends with the ID's figures between its cursors
(`AutomatonFacts`); adding these up undoes `Decimal` (`ReadsBack`).

What is asked for is what was told: if the answer fits its buffer nothing of the link is
cut (`Uncut`), and an escaped link has no "?" or space at which the server would end it
and decodes to the link (`EscapedArrives`). For the file, the path is shown to have no
separator behind a separator and no ".." between two, except the slash that the root "./"
and the link share (`Smooth`, `Doubles`); of such a path `remove_double_dots` drops that
slash and nothing else (`DotsRemoved`), which leaves the path `saveReplay` opened
(`ServedFacts`). The page of any link follows (`PageFacts`), and that the page shown is the
page of the game's link is the invariant (`PageInv`).

Only model-checked: liveness (`EveryCommandFinishes`, `EveryParamFreed`,
`EveryOperationEnds`, `ClosedGamesLeave`, `LoginLeadsToRoom`, `DisconnectRestarts`),
which TLAPS does not prove under fairness.

## Not modelled

`mongoose.c` (vendored) but for `mg_match`, `mg_http_match_uri`, the request line of
`mg_http_parse`, `mg_url_decode` and the path of `mg_http_serve_dir` in `ReplayNames` and
`mg_mgr_free` in `BotSession`: its event loop appears as the order of the events it
delivers. The generated protobuf code (messages are records), the logger, the web
pages and `helpToSrc.py`, the constructors and copies of `trice_structs.c`, `tricebot.py`
and the tests (read as the expectations of callers). `tb_startServer`, `tb_stopServer`
and the start and end of the API's polling thread; `api->bottleneck`, which each
request takes and releases alone; `readConfFromBuffer`, which only tests use.

## Plan

| order | module | what it composes or abstracts | state |
|---|---|---|---|
| 1 | `CommandPipeline`, `CommandService`, `CommandPipelineProofs` | component 1 | done |
| 2 | `CreateGame`, `CreateGameProofs` | component 2 over an abstract pipeline | done |
| 3 | `GameList`, `GameListProofs` | components 3 and 4 | done |
| 4 | `PlayerSlots`, `Seating`, `PlayerSlotsProofs` | component 5 | done |
| 5 | `BotSession`, `BotSessionProofs` | component 6 | done |
| 6 | `ReplayNames`, `ReplayFiles`, `ApiRequests`, `ConfigReader`, `ChatCommands`, `Inputs`, `ReplayNamesProofs`, `InputsProofs` | components 7 and 8 | done |
| 7 | `GameList` with an allocator | a game made at the address of a freed one (api_server.c:544) | |
| 8 | `ApiServer` | `tb_startServer`, `tb_stopServer`, the polling thread | |

No module declares a RECURSIVE operator: recursion is by functions, about which TLAPS can reason.
