--------------------------- MODULE CommandPipeline ---------------------------
(***************************************************************************)
(* The life of a command of the bot: prepared by some thread (cmd_queue.c, *)
(* prepCmd), queued on sendQueue, sent and moved to callbackQueue by the   *)
(* bot thread's poll handler, and finished there by a response, by a       *)
(* GameJoined event, by the timeout, or by the end of the connection       *)
(* (bot.c).  One step of the model is what a thread does between two       *)
(* points where another thread can act on the shared queues: API threads   *)
(* touch b->mutex (prepCmd) and sendQueue (enq) only, callbackQueue        *)
(* belongs to the bot thread.                                              *)
(*                                                                         *)
(* Ghost data, read by no guard but the bounds: connection, issued, the    *)
(* fields conn and seqNo of a command, finished, and sentThisSecond.       *)
(***************************************************************************)
EXTENDS Integers, SequencesExt

CONSTANTS
  Clients,          \* threads, other than the bot's, that issue commands
  BotThread,        \* the thread of botThread(), where every handler runs
  Names,            \* names of created games
  GameName,         \* the name each client gives to the games it creates
  NoName,           \* gameName of a command that creates no game
  TIMEOUT,          \* seconds a sent command waits for its response
  PING_FREQUENCY,   \* seconds between two pings
  ID_MODULUS,       \* command IDs wrap here: 0x7FFFFFFF in the source
  RATE_LIMIT,       \* ratelimit of config.conf
  MaxTime,          \* bound: the clock stops here
  MaxConnections,   \* bound: connections the bot makes
  Budget,           \* bound: commands that clients and event handlers issue
  MaxIssued         \* bound: commands of a connection that liveness follows

Threads == Clients \cup {BotThread}

ASSUME ThreadAssumption ==
  BotThread \notin Clients /\ GameName \in [Clients -> Names] /\ NoName \notin Names
ASSUME TimeAssumption ==
  /\ TIMEOUT \in Nat \ {0} /\ PING_FREQUENCY \in Nat \ {0}
  /\ ID_MODULUS \in Nat \ {0} /\ RATE_LIMIT \in Nat \ {0}
ASSUME BoundAssumption ==
  {MaxTime, MaxConnections, Budget, MaxIssued} \subseteq Nat

VARIABLES
  now,             \* time(NULL)
  botPc,           \* where the bot thread is: see BotPc
  currentTime,     \* the poll handler's copy of the clock
  cmdID,           \* b->cmdID
  roomRequested,   \* b->roomRequested
  lastSend,        \* b->lastSend
  lastPingTime,    \* b->lastPingTime
  maxMessagesPerSecond, \* b->config.maxMessagesPerSecond
  lastGameWaitCheck, \* b->lastGameWaitCheck
  sendQueue,       \* b->sendQueue
  callbackQueue,   \* b->callbackQueue
  held,            \* per thread, the command it prepared and has not queued
  budget,          \* a bound: commands that may still be issued but rooms and pings
  server,          \* messages the server may still send about commands
  connection,      \* ghost: how many times botThread reset its state
  issued,          \* ghost: commands prepared since the last reset
  finished,        \* ghost: how each finished command ended
  sentThisSecond   \* ghost: messages sent while the clock shows now

clock   == <<now, currentTime, lastSend, lastPingTime, lastGameWaitCheck>>
numbers == <<cmdID, issued, connection>>
queues  == <<sendQueue, callbackQueue>>
limiter == <<maxMessagesPerSecond, sentThisSecond>>
vars == <<clock, numbers, queues, limiter, botPc, roomRequested, held, budget,
          server, finished>>

-----------------------------------------------------------------------------
\* Types.

Kinds == {"plain", "game", "rooms", "ping"}

Command ==
  [conn: Nat, seqNo: Nat, cmdID: 0..ID_MODULUS - 1, timeSent: Nat,
   kind: Kinds, gameName: Names \cup {NoName}]

\* What the server can say about a command it received: a Response, and, when
\* the command creates a game, the Event_GameJoined.
ServerMessage == [type: {"response", "joined"}, cmd: Command]

Outcomes == {"answered", "joined", "timedOut", "dropped", "leaked"}

\* by is the command the server's message was about; the command itself when
\* the server said nothing.
Ending == [cmd: Command, outcome: Outcomes, by: Command]

\* Between two events the bot thread is idle.  A poll event goes through
\* rooms (queue the room list request), games (game timeouts), leave (queue a
\* LeaveGame), send, timeout and ping.  handler is an event handler with a
\* command to queue.  cleanup, reset, down and init are the end of botThread
\* and the start of the next one.
BotPc == {"idle", "rooms", "games", "leave", "send", "timeout", "ping", "handler",
          "cleanup", "reset", "down", "init"}

\* b->messagesSentThisSecond is zeroed with the struct and never assigned.
messagesSentThisSecond == 0

Waiting == (UNION {held[t] : t \in Threads}) \cup ToSet(sendQueue)
Pending == ToSet(callbackQueue)
Ended   == {f.cmd : f \in finished}
Known   == Waiting \cup Pending \cup Ended
Id(c)   == <<c.conn, c.seqNo>>

-----------------------------------------------------------------------------
\* Operations on commands (cmd_queue.c).

\* prepCmdNTS: the next command of a kind, at the current time.
NewCommand(kind, name) ==
  [conn |-> connection, seqNo |-> issued, cmdID |-> cmdID, timeSent |-> now,
   kind |-> kind, gameName |-> name]

CountCommandSameID ==   \* mutant: two commands share an ID
  UNCHANGED <<cmdID, connection>> /\ issued' = issued + 1

CountCommand ==
  /\ cmdID' = (cmdID + 1) % ID_MODULUS
  /\ issued' = issued + 1
  /\ UNCHANGED connection

RotatePeek(q) == Append(q, Head(q))   \* mutant: the head is not dequeued
RotateDrop(q) == Tail(q)              \* mutant: the head is not queued again
RotateRestamp(q) ==                   \* mutant: queued again as if sent now
  Append(Tail(q), [Head(q) EXCEPT !.timeSent = now])

\* deq and enq on one queue.
Rotate(q) == Append(Tail(q), Head(q))

\* cmdForCMDId and gameWithName search from the head.
IsFirst(i, matches) == i \in matches /\ \A j \in matches : i <= j

End(cmd, outcome, by) ==
  finished' = finished \cup {[cmd |-> cmd, outcome |-> outcome, by |-> by]}

\* executeCallback: only a ping has a callback with an effect on this state.
Execute(cmd, outcome, by) ==
  /\ End(cmd, outcome, by)
  /\ lastPingTime' = IF cmd.kind = "ping" THEN now ELSE lastPingTime

-----------------------------------------------------------------------------
\* The threads of the API server and of the library's user.

\* prepCmd takes b->mutex, which botThread holds in "reset" and in "init".
Prepare(t) ==
  /\ botPc \notin {"reset", "init"}
  /\ held[t] = {}
  /\ budget > 0
  /\ \E kind \in {"plain", "game"} :
       held' = [held EXCEPT ![t] =
         {NewCommand(kind, IF kind = "game" THEN GameName[t] ELSE NoName)}]
  /\ CountCommand
  /\ budget' = budget - 1
  /\ UNCHANGED <<clock, queues, limiter, botPc, roomRequested, server, finished>>

Enqueue(t) ==
  \E cmd \in held[t] :
    /\ sendQueue' = Append(sendQueue, cmd)
    /\ held' = [held EXCEPT ![t] = {}]
    /\ UNCHANGED <<clock, numbers, callbackQueue, limiter, botPc, roomRequested,
                   budget, server, finished>>

-----------------------------------------------------------------------------
\* The poll handler: botEventHandler with MG_EV_POLL.

PollRooms ==
  /\ botPc = "idle"
  /\ IF roomRequested
     THEN /\ botPc' = "games"
          /\ UNCHANGED <<numbers, held>>
     ELSE /\ botPc' = "rooms"
          /\ held' = [held EXCEPT ![BotThread] = {NewCommand("rooms", NoName)}]
          /\ CountCommand
  /\ UNCHANGED <<clock, queues, limiter, roomRequested, budget, server, finished>>

\* The bot thread queues the command it prepared and goes on.
BotEnqueue ==
  /\ botPc \in {"rooms", "leave", "handler"}
  /\ \E cmd \in held[BotThread] :
       /\ sendQueue' = Append(sendQueue, cmd)
       /\ held' = [held EXCEPT ![BotThread] = {}]
  /\ botPc' = CASE botPc = "rooms" -> "games"
                [] botPc = "leave" -> "send"
                [] botPc = "handler" -> "idle"
  /\ roomRequested' = (roomRequested \/ botPc = "rooms")
  /\ UNCHANGED <<clock, numbers, callbackQueue, limiter, budget, server, finished>>

\* The clock is read here; once per second the games are searched, and a game
\* that waited too long (which one is not this module's concern) is left.
PollGames ==
  /\ botPc = "games"
  /\ currentTime' = now
  /\ lastGameWaitCheck' = now
  /\ \/ /\ botPc' = "send"
        /\ UNCHANGED <<numbers, held, budget>>
     \/ /\ lastGameWaitCheck # now
        /\ budget > 0
        /\ botPc' = "leave"
        /\ held' = [held EXCEPT ![BotThread] = {NewCommand("plain", NoName)}]
        /\ CountCommand
        /\ budget' = budget - 1
  /\ UNCHANGED <<now, lastSend, lastPingTime, queues, limiter, roomRequested, server,
                 finished>>

\* The rate limiter and mg_ws_send.
PollSend ==
  /\ botPc = "send"
  /\ botPc' = "timeout"
  /\ currentTime' = 0  \* a local variable, not read again
  /\ LET newSecond == currentTime # lastSend
         limited == ~newSecond /\ messagesSentThisSecond >= maxMessagesPerSecond
         counted == IF newSecond THEN 0 ELSE maxMessagesPerSecond
     IN /\ lastSend' = currentTime
        /\ IF limited \/ sendQueue = <<>>
           THEN /\ maxMessagesPerSecond' = counted
                /\ UNCHANGED <<queues, server, sentThisSecond>>
           ELSE LET cmd == Head(sendQueue) IN
                /\ sendQueue' = Tail(sendQueue)
                /\ callbackQueue' = Append(callbackQueue, cmd)
                /\ maxMessagesPerSecond' = counted + 1
                /\ sentThisSecond' = sentThisSecond + 1
                /\ server' = server \cup
                     [type: {"response"} \cup (IF cmd.kind = "game" THEN {"joined"} ELSE {}),
                      cmd: {cmd}]
  /\ UNCHANGED <<now, lastPingTime, lastGameWaitCheck, numbers, roomRequested, held,
                 budget, finished>>

\* The head of callbackQueue times out, or goes to the tail.
PollTimeout ==
  /\ botPc = "timeout"
  /\ botPc' = "ping"
  /\ \/ /\ callbackQueue = <<>>
        /\ UNCHANGED <<callbackQueue, finished, lastPingTime>>
     \/ /\ callbackQueue # <<>>
        /\ LET cmd == Head(callbackQueue) IN
             IF now - cmd.timeSent >= TIMEOUT
             THEN /\ callbackQueue' = Tail(callbackQueue)
                  /\ Execute(cmd, "timedOut", cmd)
             ELSE /\ callbackQueue' = Rotate(callbackQueue)
                  /\ UNCHANGED <<finished, lastPingTime>>
  /\ UNCHANGED <<now, currentTime, lastSend, lastGameWaitCheck, numbers, sendQueue,
                 limiter, roomRequested, held, budget, server>>

PollPingNoStamp ==   \* mutant: only an answered or expired ping counts
  /\ botPc = "ping"
  /\ botPc' = "idle"
  /\ IF now - lastPingTime >= PING_FREQUENCY
     THEN sendQueue' = Append(sendQueue, NewCommand("ping", NoName)) /\ CountCommand
     ELSE UNCHANGED <<sendQueue, numbers>>
  /\ UNCHANGED <<clock, callbackQueue, limiter, roomRequested, held, budget, server,
                 finished>>

\* needsPing and sendPing, which prepares and queues under b->mutex.
PollPing ==
  /\ botPc = "ping"
  /\ botPc' = "idle"
  /\ IF now - lastPingTime >= PING_FREQUENCY
     THEN /\ sendQueue' = Append(sendQueue, NewCommand("ping", NoName))
          /\ CountCommand
          /\ lastPingTime' = now
     ELSE UNCHANGED <<sendQueue, numbers, lastPingTime>>
  /\ UNCHANGED <<now, currentTime, lastSend, lastGameWaitCheck, callbackQueue, limiter,
                 roomRequested, held, budget, server, finished>>

-----------------------------------------------------------------------------
\* Messages of the server.

\* handleResponse: the first pending command with the response's ID is
\* finished, unless it creates a game: then it goes to the tail.
HandleResponse(m) ==
  /\ botPc = "idle"
  /\ m.type = "response"
  /\ server' = server \ {m}
  /\ LET matches == {i \in DOMAIN callbackQueue : callbackQueue[i].cmdID = m.cmd.cmdID} IN
     \/ /\ matches = {}
        /\ UNCHANGED <<callbackQueue, finished, lastPingTime>>
     \/ \E i \in DOMAIN callbackQueue :
          /\ IsFirst(i, matches)
          /\ LET cmd == callbackQueue[i]
                 rest == RemoveAt(callbackQueue, i)
             IN IF cmd.kind = "game"
                THEN /\ callbackQueue' = Append(rest, cmd)
                     /\ UNCHANGED <<finished, lastPingTime>>
                ELSE /\ callbackQueue' = rest
                     /\ Execute(cmd, "answered", m.cmd)
  /\ UNCHANGED <<now, currentTime, lastSend, lastGameWaitCheck, numbers, sendQueue,
                 limiter, botPc, roomRequested, held, budget>>

\* handleGameCreate: the first pending creation of a game of that name.
HandleGameJoined(m) ==
  /\ botPc = "idle"
  /\ m.type = "joined"
  /\ server' = server \ {m}
  /\ LET matches == {i \in DOMAIN callbackQueue :
                      /\ callbackQueue[i].kind = "game"
                      /\ callbackQueue[i].gameName = m.cmd.gameName}
     IN
     \/ /\ matches = {}
        /\ UNCHANGED <<callbackQueue, finished>>
     \/ \E i \in DOMAIN callbackQueue :
          /\ IsFirst(i, matches)
          /\ callbackQueue' = RemoveAt(callbackQueue, i)
          /\ End(callbackQueue[i], "joined", m.cmd)
  /\ UNCHANGED <<clock, numbers, sendQueue, limiter, botPc, roomRequested, held, budget>>

\* Any other message whose handler issues a command: sendLogin, loginResponse,
\* roomsListed, replayReady, the kick of playerJoin...
\* The first poll of a connection comes before its first message, so the
\* roomRequested = 1 of loginResponse changes nothing.
HandleEvent ==
  /\ botPc = "idle"
  /\ roomRequested
  /\ budget > 0
  /\ botPc' = "handler"
  /\ held' = [held EXCEPT ![BotThread] = {NewCommand("plain", NoName)}]
  /\ CountCommand
  /\ budget' = budget - 1
  /\ UNCHANGED <<clock, queues, limiter, roomRequested, server, finished>>

-----------------------------------------------------------------------------
\* The end of a connection and the next botThread.

\* MG_EV_ERROR or MG_EV_CLOSE: running = 0 and the loop of botThread ends.
ConnectionLost ==
  /\ botPc = "idle"
  /\ connection < MaxConnections
  /\ botPc' = "cleanup"
  /\ server' = {}
  /\ UNCHANGED <<clock, numbers, queues, limiter, roomRequested, held, budget, finished>>

EndNone(cmds, outcome) == UNCHANGED finished   \* mutant: emptied, nothing is freed

EndAll(cmds, outcome) ==
  finished' = finished \cup {[cmd |-> c, outcome |-> outcome, by |-> c] : c \in cmds}

\* freePendingCommandQueue on both queues, b->mutex held from here: at the end
\* of botThread, and for what it finds when it starts.
FreeQueues ==
  /\ botPc \in {"cleanup", "down"}
  /\ botPc' = IF botPc = "cleanup" THEN "reset" ELSE "init"
  /\ EndAll(ToSet(sendQueue) \cup ToSet(callbackQueue), "dropped")
  /\ sendQueue' = <<>>
  /\ callbackQueue' = <<>>
  /\ UNCHANGED <<clock, numbers, limiter, roomRequested, held, budget, server>>

\* The heads are set to NULL: a node queued since the queue was freed is lost.
\* Then onBotDisconnect, for which main.c starts the bot again.
ResetQueues ==
  /\ botPc = "reset"
  /\ botPc' = "down"
  /\ EndAll(ToSet(sendQueue), "leaked")
  /\ sendQueue' = <<>>
  /\ UNCHANGED <<clock, numbers, callbackQueue, limiter, roomRequested, held, budget,
                 server>>

InitThreadKeepID ==   \* mutant: the ID goes on from the last connection
  /\ botPc = "init"
  /\ botPc' = "idle"
  /\ EndAll(ToSet(sendQueue), "leaked")
  /\ sendQueue' = <<>>
  /\ roomRequested' = FALSE
  /\ connection' = connection + 1
  /\ issued' = 0
  /\ UNCHANGED <<clock, cmdID, callbackQueue, limiter, held, budget, server>>

\* botThread initialises the queues and its counters, and connects.
InitThread ==
  /\ botPc = "init"
  /\ botPc' = "idle"
  /\ EndAll(ToSet(sendQueue), "leaked")
  /\ sendQueue' = <<>>
  /\ cmdID' = 0
  /\ roomRequested' = FALSE
  /\ connection' = connection + 1
  /\ issued' = 0
  /\ UNCHANGED <<clock, callbackQueue, limiter, held, budget, server>>

-----------------------------------------------------------------------------
Tick ==
  /\ now < MaxTime
  /\ now' = now + 1
  /\ sentThisSecond' = 0
  /\ UNCHANGED <<currentTime, lastSend, lastPingTime, lastGameWaitCheck, numbers, queues,
                 maxMessagesPerSecond, botPc, roomRequested, held, budget, server,
                 finished>>

\* initBot and startBot.  The real clock is far above PING_FREQUENCY.
Init ==
  /\ now = PING_FREQUENCY
  /\ botPc = "down"
  /\ currentTime = 0
  /\ lastSend = 0
  /\ lastPingTime = 0
  /\ lastGameWaitCheck = 0
  /\ cmdID = 0
  /\ roomRequested = FALSE
  /\ maxMessagesPerSecond = RATE_LIMIT
  /\ sendQueue = <<>>
  /\ callbackQueue = <<>>
  /\ held = [t \in Threads |-> {}]
  /\ budget = Budget
  /\ server = {}
  /\ connection = 0
  /\ issued = 0
  /\ finished = {}
  /\ sentThisSecond = 0

Poll == PollRooms \/ PollGames \/ PollSend \/ PollTimeout \/ PollPing
Restart == FreeQueues \/ ResetQueues \/ InitThread

Next ==
  \/ \E t \in Clients : Prepare(t) \/ Enqueue(t)
  \/ Poll \/ BotEnqueue
  \/ \E m \in server : HandleResponse(m) \/ HandleGameJoined(m)
  \/ HandleEvent
  \/ ConnectionLost \/ Restart
  \/ Tick

\* mg_mgr_poll runs in a loop, a thread between prepCmd and enq goes on, and
\* time passes.  Nothing obliges the server to answer.
Fairness ==
  /\ WF_vars(Poll) /\ WF_vars(BotEnqueue) /\ WF_vars(Restart) /\ WF_vars(Tick)
  /\ \A t \in Clients : WF_vars(Enqueue(t))

Safety == Init /\ [][Next]_vars
Spec == Safety /\ Fairness

-----------------------------------------------------------------------------
\* Properties.

TypeOK ==
  /\ now \in Nat /\ currentTime \in Nat /\ lastSend \in Nat
  /\ lastPingTime \in Nat /\ lastGameWaitCheck \in Nat
  /\ maxMessagesPerSecond \in Nat /\ sentThisSecond \in Nat
  /\ issued \in Nat /\ connection \in Nat
  /\ botPc \in BotPc
  /\ cmdID \in 0..ID_MODULUS - 1
  /\ roomRequested \in BOOLEAN
  /\ sendQueue \in Seq(Command)
  /\ callbackQueue \in Seq(Command)
  /\ held \in [Threads -> SUBSET Command]
  /\ budget \in Nat
  /\ server \subseteq ServerMessage
  /\ finished \subseteq Ending

\* No command is in two places, queued twice, or finished twice: a callback
\* runs at most once, and never for a command that is still queued (a command
\* is freed when it is finished).
NoCommandTwice ==
  /\ \A t, u \in Threads : t # u => held[t] \cap held[u] = {}
  /\ \A t \in Threads : held[t] \cap (ToSet(sendQueue) \cup Pending \cup Ended) = {}
  /\ IsInjective(sendQueue) /\ IsInjective(callbackQueue)
  /\ ToSet(sendQueue) \cap (Pending \cup Ended) = {}
  /\ Pending \cap Ended = {}
  /\ \A f, g \in finished : f.cmd = g.cmd => f = g

\* Every command prepared since the last reset is held, queued, pending or
\* finished: unlinking nodes from the queues, re-queueing game creations and
\* rotating callbackQueue lose nothing.
NoCommandLost ==
  \A n \in 0..issued - 1 :
    \E c \in Known : c.conn = connection /\ c.seqNo = n

\* The response that finishes a command is the server's response to that very
\* command, whatever was timed out, re-queued or answered late in between,
\* when both were prepared on one connection and fewer than ID_MODULUS
\* commands apart.
ResponsesMatch ==
  \A f \in finished :
    /\ f.outcome = "answered"
    /\ f.cmd.conn = f.by.conn
    /\ f.cmd.seqNo - f.by.seqNo < ID_MODULUS
    /\ f.by.seqNo - f.cmd.seqNo < ID_MODULUS
    => f.by = f.cmd

\* The parts of the inductive invariant that the properties above need.  A
\* prepared command is new; a command is known by its connection and number;
\* a thread holds one command at a time, the bot's only where it queues it;
\* nothing is pending once botThread freed its queues;
\* the server speaks of commands it received; IDs count modulo ID_MODULUS.
Fresh ==
  \A c \in Known : c.conn < connection \/ (c.conn = connection /\ c.seqNo < issued)
KnownById ==
  \A c, d \in Known : Id(c) = Id(d) => c = d
HeldOnce ==
  /\ \A t \in Threads : \A c, d \in held[t] : c = d
  /\ botPc \notin {"rooms", "leave", "handler"} => held[BotThread] = {}
PendingWhileConnected ==
  botPc \in {"reset", "down", "init"} => callbackQueue = <<>>
ServerKnown ==
  /\ \A m \in server : m.cmd \in Known
  /\ \A f \in finished : f.by \in Known
Numbered ==
  /\ cmdID = issued % ID_MODULUS
  /\ \A c \in Known : c.cmdID = c.seqNo % ID_MODULUS
  /\ \A f \in finished : f.outcome = "answered" => f.cmd.cmdID = f.by.cmdID
IInv == /\ TypeOK /\ NoCommandTwice /\ NoCommandLost /\ Fresh /\ KnownById
        /\ HeldOnce /\ PendingWhileConnected /\ ServerKnown /\ Numbered

\* needsPing (bot.c:213-216): however polls, answers and timeouts of pings and
\* reconnections interleave, two pings are PING_FREQUENCY seconds apart.
PingsSpaced ==
  \A c, d \in Known :
    c.kind = "ping" /\ d.kind = "ping" /\ c # d
      => \/ c.timeSent - d.timeSent >= PING_FREQUENCY
         \/ d.timeSent - c.timeSent >= PING_FREQUENCY

\* A command whose timeout and next send slot fall before the clock stops is
\* finished, whatever the rate limiter blocked and whatever the server left
\* unanswered.
InHorizon(c) == c.timeSent + TIMEOUT <= MaxTime
EveryCommandFinishes ==
  \A conn \in 0..MaxConnections, n \in 0..MaxIssued :
    (\E c \in ToSet(sendQueue) \cup Pending :
       c.conn = conn /\ c.seqNo = n /\ InHorizon(c) /\ now < MaxTime)
    ~> (\E c \in Ended : c.conn = conn /\ c.seqNo = n)

\* README.md, "Rate limit in max messages per second": refuted.
RateLimitRespected == sentThisSecond <= RATE_LIMIT

\* What a command goes through, whoever issued it and however it is queued.
IdsOf(S) == {Id(c) : c \in S}
Service == INSTANCE CommandService WITH
  waiting <- IdsOf(Waiting),
  sent <- IdsOf(Pending),
  done <- {<<Id(f.cmd), f.outcome>> : f \in finished}
ImplementsService == Service!Spec
=============================================================================
