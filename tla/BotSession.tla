------------------------------ MODULE BotSession ------------------------------
(***************************************************************************)
(* The life of the bot: startBot, botThread, stopBot and freeBot, the      *)
(* session the bot thread builds on each connection (login, list of rooms, *)
(* room), the user's handlers it calls, and botDisconnect of main.c, the   *)
(* handler that starts the bot again (bot.c, trice_structs.c, main.c).     *)
(*                                                                         *)
(* A user thread starts the bot, sets handlers, and may stop and free the  *)
(* bot; each start makes a bot thread.  A step is what a thread does       *)
(* between two points where another may act.  Commands and messages are    *)
(* their kinds; what else travels through the queues, pings among it, is   *)
(* CommandPipeline's subject.                                              *)
(***************************************************************************)
EXTENDS Integers, SequencesExt

CONSTANTS
  Rooms, ConfigRoom,   \* rooms of the server; the roomName of config.conf
  RoomLists,           \* the lists of rooms the server answers with
  Watched,             \* the events the user sets handlers for
  MaxThreads,          \* bound: bot threads, that is connections
  MaxSets              \* bound: handlers set

NoRoom == "-1"
NULL == "NULL"

ASSUME SessionAssumption ==
  /\ RoomLists \subseteq Seq(Rooms) \ {<<>>} /\ NoRoom \notin Rooms
  /\ MaxThreads \in Nat /\ MaxSets \in Nat

Threads == 1..MaxThreads

\* Commands of the session, and what the server says.
Commands == {"listRooms", "login", "joinRoom"}
Message ==
  [kind : {"identification"}]
  \cup [kind : {"login"}, code : {"RespOk", "denied"}, extension : BOOLEAN]
  \cup [kind : {"rooms"}, list : RoomLists \cup {<<>>}]
  \cup [kind : {"response"}, to : Commands]

\* Events with a handler of the user, and what is set: a function of the user
\* that returns, or botDisconnect, for the event main.c sets it for.
Events == {"onBotConnectionError", "onBotConnect", "onEventServerIdentifictaion", "onBotLogin",
           "onEventListRooms", "onBotDisconnect"}
Handlers(e) == {NULL, "user"} \cup (IF e = "onBotDisconnect" THEN {"botDisconnect"} ELSE {})
NoCall == [event |-> "none", fn |-> NULL]
Calls == [event : Events, fn : {"user", "botDisconnect", "startBot"}] \cup {NoCall}

ASSUME WatchedAssumption == Watched \subseteq Events

VARIABLES
  running, loggedIn, magicRoomID, roomName, roomRequested,   \* fields of struct triceBot
  handle,          \* pollingThreadBOT: the last thread made, or 0
  handlers,        \* the function pointers of struct triceBot
  pc,              \* of each bot thread
  calling,         \* of each bot thread, the handler it is about to call
  conn,            \* the connection: "none", "open", "closing" (is_closing), "closed"
  sendQueue, callbackQueue, \* kinds of commands to be sent; of commands that wait
  server,          \* commands the server has not answered
  admitted,        \* the server logged this connection in
  inbox,           \* messages the bot has not read
  user,            \* the user thread
  found,           \* flag of the user's stopBot: it was running
  joinee,          \* the thread that stopBot waits for
  sets,            \* bound: handlers set so far
  joins,           \* history: rooms joined on this connection
  accepted         \* history: the server accepted the login in time

fields == <<running, loggedIn, magicRoomID, roomName, roomRequested>>
queues == <<sendQueue, callbackQueue>>
net    == <<server, inbox, admitted>>
user_  == <<user, found, joinee>>
history == <<joins, accepted>>
vars == <<fields, handle, handlers, pc, calling, conn, queues, net, user_, sets, history>>

Goto(t, l) == pc' = [pc EXCEPT ![t] = l]

\* A handler is read under the mutex and called after it is released.
Dispatch(t, e) ==
  calling' = [calling EXCEPT ![t] =
    IF handlers[e] = NULL THEN NoCall ELSE [event |-> e, fn |-> handlers[e]]]

At(t, l) == pc[t] = l /\ calling[t] = NoCall

-----------------------------------------------------------------------------
\* startBot: first the fields, then the thread.

StartFields ==
  /\ running' = TRUE
  /\ roomName' = NoRoom
  /\ UNCHANGED <<loggedIn, magicRoomID, roomRequested>>

HandleAfter(n) == n + 1   \* mutant: the handle of a thread that was not made

HandleOf(n) == n

\* The thread made by a startBot.
NewThread ==
  \E n \in Threads :
    /\ pc[n] = "unborn" /\ \A k \in 1..(n - 1) : pc[k] # "unborn"
    /\ handle' = HandleOf(n)
    /\ pc' = [pc EXCEPT ![n] = "start"]

-----------------------------------------------------------------------------
\* botThread.

KeepRoom(t) ==   \* mutant: the room of the last connection is kept
  /\ At(t, "start")
  /\ Goto(t, "connect")
  /\ sendQueue' = <<>> /\ callbackQueue' = <<>>
  /\ loggedIn' = FALSE /\ roomRequested' = FALSE
  /\ UNCHANGED <<net, history, running, magicRoomID, roomName, handle, handlers,
                 calling, conn, user_, sets>>

\* The queues are freed if they are not empty, and the fields are reset.
InitThread(t) ==
  /\ At(t, "start")
  /\ Goto(t, "connect")
  /\ sendQueue' = <<>> /\ callbackQueue' = <<>>
  /\ loggedIn' = FALSE /\ magicRoomID' = NoRoom /\ roomRequested' = FALSE
  /\ UNCHANGED <<net, history, running, roomName, handle, handlers, calling, conn, user_, sets>>

\* mg_ws_connect may return NULL.  cont is read before onBotConnect is called.
Connect(t) ==
  /\ At(t, "connect")
  /\ \/ /\ conn' = "none" /\ UNCHANGED inbox
        /\ Dispatch(t, "onBotConnectionError")
        /\ Goto(t, "cleanup")
     \/ /\ conn' = "open" /\ inbox' = <<[kind |-> "identification"]>>
        /\ Dispatch(t, "onBotConnect")
        /\ Goto(t, IF running THEN "loop" ELSE "cleanup")
  /\ UNCHANGED <<fields, handle, handlers, queues, server, admitted, user_, sets, history>>

\* What every event ends with: a bot that was told to stop closes the connection.
EndOfEvent(run) == conn' = IF conn = "open" /\ ~run THEN "closing" ELSE conn

\* One poll event, in the loop or of mg_mgr_free: the room list is requested
\* once, and the head of the queue is sent.
PollQueue ==
  LET q == IF roomRequested THEN sendQueue ELSE Append(sendQueue, "listRooms") IN
  /\ roomRequested' = TRUE
  /\ IF q = <<>> THEN UNCHANGED queues
     ELSE sendQueue' = Tail(q) /\ callbackQueue' = Append(callbackQueue, Head(q))

Sent == SubSeq(callbackQueue', Len(callbackQueue) + 1, Len(callbackQueue'))

Poll(t) ==
  /\ At(t, "loop") /\ conn \in {"open", "closing"}
  /\ PollQueue
  /\ server' = server \o Sent
  /\ EndOfEvent(running)
  /\ UNCHANGED <<running, loggedIn, magicRoomID, roomName, handle, handlers, pc, calling, inbox,
                 admitted, user_, sets, history>>

\* A command that waited too long.
PollTimeout(t) ==
  /\ At(t, "loop") /\ conn = "open" /\ callbackQueue # <<>>
  /\ callbackQueue' = Tail(callbackQueue)
  /\ EndOfEvent(running)
  /\ UNCHANGED <<fields, handle, handlers, pc, calling, sendQueue, net, user_, sets, history>>

\* MG_EV_ERROR: the handler is called before the bot stops running.
ConnectionError(t) ==
  /\ At(t, "loop") /\ conn = "open"
  /\ conn' = "closing"
  /\ Dispatch(t, "onBotConnectionError")
  /\ UNCHANGED <<fields, handle, handlers, pc, queues, net, user_, sets, history>>

\* The connection ends: the server closed it, an error, or is_closing.
Lost(t) ==
  /\ At(t, "loop") /\ conn \in {"open", "closing"}
  /\ conn' = "closed"
  /\ running' = FALSE
  /\ server' = <<>> /\ inbox' = <<>> /\ admitted' = FALSE
  /\ UNCHANGED <<loggedIn, magicRoomID, roomName, roomRequested, handle, handlers, pc, calling,
                 queues, user_, sets, history>>

LeaveLoop(t) ==
  /\ At(t, "loop") /\ ~running
  /\ Goto(t, "cleanup")
  /\ UNCHANGED <<fields, handle, handlers, calling, conn, queues, net, user_, sets, history>>

DisconnectEarly(t) ==   \* mutant: onBotDisconnect is called before mg_mgr_free
  /\ At(t, "cleanup")
  /\ Goto(t, "free")
  /\ sendQueue' = <<>> /\ callbackQueue' = <<>> /\ roomName' = NoRoom
  /\ joins' = <<>> /\ accepted' = FALSE
  /\ Dispatch(t, "onBotDisconnect")
  /\ UNCHANGED <<running, loggedIn, magicRoomID, roomRequested, handle, handlers, conn,
                 net, user_, sets>>

\* The lists are freed and reset.
Cleanup(t) ==
  /\ At(t, "cleanup")
  /\ Goto(t, "free")
  /\ sendQueue' = <<>> /\ callbackQueue' = <<>> /\ roomName' = NoRoom
  /\ joins' = <<>> /\ accepted' = FALSE
  /\ UNCHANGED <<running, loggedIn, magicRoomID, roomRequested, handle, handlers, calling, conn,
                 net, user_, sets>>

CallIfRunning(t) ==   \* mutant: only a bot that still runs tells its user
  IF running THEN Dispatch(t, "onBotDisconnect") ELSE UNCHANGED calling

CallOnBotDisconnect(t) == Dispatch(t, "onBotDisconnect")

\* mg_mgr_free polls a connection that is still open once more, on the queues that
\* were freed, and closes it; then onBotDisconnect.
FreeManager(t) ==
  /\ At(t, "free")
  /\ IF conn \in {"open", "closing"}
     THEN /\ PollQueue
          /\ running' = FALSE /\ conn' = "closed"
          /\ server' = <<>> /\ inbox' = <<>> /\ admitted' = FALSE
     ELSE UNCHANGED <<running, roomRequested, conn, queues, net>>
  /\ CallOnBotDisconnect(t)
  /\ Goto(t, "end")
  /\ UNCHANGED <<loggedIn, magicRoomID, roomName, handle, handlers, user_, sets, history>>

Exit(t) ==
  /\ At(t, "end")
  /\ Goto(t, "exited")
  /\ UNCHANGED <<fields, handle, handlers, calling, conn, queues, net, user_, sets, history>>

-----------------------------------------------------------------------------
\* The messages of the server, and the handlers.

\* A connection is polled before its first message is read.
Read(t, kind) ==
  /\ At(t, "loop") /\ conn = "open" /\ roomRequested
  /\ inbox # <<>> /\ Head(inbox).kind = kind
  /\ inbox' = Tail(inbox)

\* Event_ServerIdentification: sendLogin.
Identified(t) ==
  /\ Read(t, "identification")
  /\ sendQueue' = Append(sendQueue, "login")
  /\ Dispatch(t, "onEventServerIdentifictaion")
  /\ EndOfEvent(running)
  /\ UNCHANGED <<fields, handle, handlers, pc, callbackQueue, server, admitted, user_, sets,
                 history>>

AnswerLate(q, cmd) == RemoveFirst(q, cmd) # <<>>   \* mutant: after the command is taken

\* handleResponse works only while some command waits for a response.
AnswerSeen(q, cmd) == q # <<>>

\* loginResponse asks for the rooms.
AskForRooms == sendQueue' = Append(sendQueue, "listRooms")

LoginAnswered(t) ==
  /\ Read(t, "login")
  /\ LET m == Head(inbox)
         timely == "login" \in ToSet(callbackQueue)
     IN
     /\ callbackQueue' = RemoveFirst(callbackQueue, "login")
     /\ accepted' = (accepted \/ (m.code = "RespOk" /\ timely))
     /\ IF ~AnswerSeen(callbackQueue, "login") \/ ~m.extension
        THEN UNCHANGED <<fields, sendQueue, calling>>
        ELSE IF m.code = "RespOk"
        THEN /\ loggedIn' = TRUE /\ roomRequested' = TRUE
             /\ AskForRooms
             /\ Dispatch(t, "onBotLogin")
             /\ UNCHANGED <<running, magicRoomID, roomName>>
        ELSE /\ running' = FALSE /\ loggedIn' = FALSE
             /\ UNCHANGED <<magicRoomID, roomName, roomRequested, sendQueue, calling>>
  /\ EndOfEvent(running')
  /\ UNCHANGED <<handle, handlers, pc, server, admitted, user_, sets, joins>>

\* A response without a meaning for the session.
OtherAnswered(t) ==
  /\ Read(t, "response")
  /\ callbackQueue' = RemoveFirst(callbackQueue, Head(inbox).to)
  /\ EndOfEvent(running)
  /\ UNCHANGED <<fields, handle, handlers, pc, calling, sendQueue, server, admitted, user_, sets,
                 history>>

Joins(list) == magicRoomID = NoRoom /\ list # <<>>

\* The configured room if it is listed, else the first.
RoomOf(list) == IF ConfigRoom \in ToSet(list) THEN ConfigRoom ELSE Head(list)

\* Event_ListRooms: roomsListed.
RoomsListed(t) ==
  /\ Read(t, "rooms")
  /\ LET list == Head(inbox).list IN
     IF Joins(list)
     THEN /\ magicRoomID' = RoomOf(list) /\ roomName' = RoomOf(list)
          /\ joins' = Append(joins, <<RoomOf(list), list>>)
          /\ sendQueue' = Append(sendQueue, "joinRoom")
     ELSE UNCHANGED <<magicRoomID, roomName, joins, sendQueue>>
  /\ Dispatch(t, "onEventListRooms")
  /\ EndOfEvent(running)
  /\ UNCHANGED <<running, loggedIn, roomRequested, handle, handlers, pc, callbackQueue, server,
                 admitted, user_, sets, accepted>>

\* A handler of the user returns.
UserHandler(t) ==
  /\ calling[t].fn = "user"
  /\ calling' = [calling EXCEPT ![t] = NoCall]
  /\ UNCHANGED <<fields, handle, handlers, pc, conn, queues, net, user_, sets, history>>

\* botDisconnect calls startBot.
BotDisconnect(t) ==
  /\ calling[t].fn = "botDisconnect"
  /\ calling' = [calling EXCEPT ![t] = [event |-> "onBotDisconnect", fn |-> "startBot"]]
  /\ StartFields
  /\ UNCHANGED <<handle, handlers, pc, conn, queues, net, user_, sets, history>>

CreateNext(t) ==
  /\ calling[t].fn = "startBot"
  /\ NewThread
  /\ calling' = [calling EXCEPT ![t] = NoCall]
  /\ UNCHANGED <<fields, handlers, conn, queues, net, user_, sets, history>>

BotThread(t) ==
  \/ InitThread(t) \/ Connect(t) \/ Poll(t) \/ LeaveLoop(t) \/ Cleanup(t) \/ FreeManager(t)
  \/ Exit(t)
  \/ Identified(t) \/ LoginAnswered(t) \/ OtherAnswered(t) \/ RoomsListed(t)
  \/ UserHandler(t) \/ BotDisconnect(t) \/ CreateNext(t)

-----------------------------------------------------------------------------
\* The user thread.

Start ==
  /\ user = "new"
  /\ user' = "starting"
  /\ StartFields
  /\ UNCHANGED <<handle, handlers, pc, calling, conn, queues, net, found, joinee, sets, history>>

Create ==
  /\ user = "starting"
  /\ user' = "started"
  /\ NewThread
  /\ UNCHANGED <<fields, handlers, calling, conn, queues, net, found, joinee, sets, history>>

\* A setter of trice_structs.c.
SetHandler(e, fn) ==
  /\ user \in {"new", "started"} /\ sets < MaxSets
  /\ handlers[e] # fn
  /\ handlers' = [handlers EXCEPT ![e] = fn]
  /\ sets' = sets + 1
  /\ UNCHANGED <<fields, handle, pc, calling, conn, queues, net, user_, history>>

\* The flag is set or not; the handle is read after the mutex is released.
StopAsk ==   \* mutant: the thread is not joined
  /\ user = "started"
  /\ user' = "stopped"
  /\ running' = FALSE /\ found' = running
  /\ UNCHANGED <<loggedIn, magicRoomID, roomName, roomRequested, handle, handlers, pc, calling,
                 conn, queues, net, joinee, sets, history>>

\* stopBot.
Stop ==
  /\ user = "started"
  /\ user' = IF running THEN "stopping" ELSE "stopped"
  /\ running' = FALSE /\ found' = running
  /\ UNCHANGED <<loggedIn, magicRoomID, roomName, roomRequested, handle, handlers, pc, calling,
                 conn, queues, net, joinee, sets, history>>

Join ==
  /\ user \in {"stopping", "freeing"}
  /\ user' = IF user = "stopping" THEN "joining" ELSE "joining to free"
  /\ joinee' = handle
  /\ UNCHANGED <<fields, handle, handlers, pc, calling, conn, queues, net, found, sets, history>>

Joined ==
  /\ user \in {"joining", "joining to free"} /\ pc[joinee] = "exited"
  /\ user' = IF user = "joining" THEN "stopped" ELSE "freed"
  /\ UNCHANGED <<fields, handle, handlers, pc, calling, conn, queues, net, found, joinee, sets,
                 history>>

\* freeBot stops the bot if it runs, and destroys the mutex.
Free ==
  /\ user = "stopped"
  /\ user' = IF running THEN "stopping to free" ELSE "freed"
  /\ UNCHANGED <<fields, handle, handlers, pc, calling, conn, queues, net, found, joinee, sets,
                 history>>

\* stopBot looks again whether it runs.
StopToFree ==
  /\ user = "stopping to free"
  /\ user' = IF running THEN "freeing" ELSE "freed"
  /\ running' = FALSE
  /\ UNCHANGED <<loggedIn, magicRoomID, roomName, roomRequested, handle, handlers, pc, calling,
                 conn, queues, net, found, joinee, sets, history>>

User ==
  \/ Start \/ Create \/ Stop \/ Join \/ Joined \/ Free \/ StopToFree
  \/ \E e \in Watched : \E fn \in Handlers(e) : SetHandler(e, fn)

-----------------------------------------------------------------------------
\* The server answers one command after the other.  A login that is denied has an
\* extension or not; rooms are for who is logged in.
Answer ==
  /\ conn = "open" /\ server # <<>>
  /\ server' = Tail(server)
  /\ LET cmd == Head(server) IN
     \/ /\ cmd = "login"
        /\ \E code \in {"RespOk", "denied"}, extension \in BOOLEAN :
             /\ code = "RespOk" => extension
             /\ inbox' = Append(inbox, [kind |-> "login", code |-> code, extension |-> extension])
             /\ admitted' = (code = "RespOk")
     \/ /\ cmd = "listRooms" /\ admitted
        /\ \E list \in RoomLists :
             inbox' = inbox \o <<[kind |-> "rooms", list |-> list],
                                 [kind |-> "response", to |-> cmd]>>
        /\ UNCHANGED admitted
     \/ /\ cmd = "joinRoom" \/ (cmd = "listRooms" /\ ~admitted)
        /\ inbox' = Append(inbox, [kind |-> "response", to |-> cmd])
        /\ UNCHANGED admitted
  /\ UNCHANGED <<fields, handle, handlers, pc, calling, conn, queues, user_, sets, history>>

\* A room changed: a list that nobody asked for.
Update ==
  /\ conn = "open" /\ admitted /\ inbox = <<>>
  /\ \E list \in RoomLists \cup {<<>>} : inbox' = <<[kind |-> "rooms", list |-> list]>>
  /\ UNCHANGED <<fields, handle, handlers, pc, calling, conn, queues, server, admitted, user_, sets,
                 history>>

-----------------------------------------------------------------------------
Init ==
  /\ running = FALSE /\ loggedIn = FALSE /\ magicRoomID = NoRoom /\ roomName = NoRoom
  /\ roomRequested = FALSE /\ handle = 0
  /\ handlers = [e \in Events |-> NULL]
  /\ pc = [t \in Threads |-> "unborn"] /\ calling = [t \in Threads |-> NoCall]
  /\ conn = "none" /\ sendQueue = <<>> /\ callbackQueue = <<>>
  /\ server = <<>> /\ inbox = <<>> /\ admitted = FALSE
  /\ user = "new" /\ found = FALSE /\ joinee = 0 /\ sets = 0
  /\ joins = <<>> /\ accepted = FALSE

Next ==
  \/ \E t \in Threads : BotThread(t) \/ PollTimeout(t) \/ ConnectionError(t) \/ Lost(t)
  \/ User
  \/ Answer \/ Update

\* The bot thread runs, each turn of its loop delivers a poll event (mg_mgr_poll) and
\* closes a connection that is closing, and the server answers; nothing is assumed
\* of the user and of timeouts.
Fairness ==
  /\ \A t \in Threads :
       WF_vars(BotThread(t)) /\ SF_vars(Poll(t)) /\ WF_vars(conn = "closing" /\ Lost(t))
  /\ WF_vars(Answer)

Spec == Init /\ [][Next]_vars /\ Fairness

-----------------------------------------------------------------------------
\* Properties.

Labels == {"unborn", "start", "connect", "loop", "cleanup", "free", "end", "exited"}

FlagsOK ==
  /\ running \in BOOLEAN /\ loggedIn \in BOOLEAN /\ roomRequested \in BOOLEAN
  /\ found \in BOOLEAN /\ accepted \in BOOLEAN /\ admitted \in BOOLEAN

FieldsOK ==
  /\ magicRoomID \in Rooms \cup {NoRoom} /\ roomName \in Rooms \cup {NoRoom}
  /\ handle \in Threads \cup {0} /\ joinee \in Threads \cup {0}
  /\ conn \in {"none", "open", "closing", "closed"}
  /\ user \in {"new", "starting", "started", "stopping", "joining", "stopped",
               "stopping to free", "freeing", "joining to free", "freed"}
  /\ sets \in 0..MaxSets

ThreadsOK ==
  /\ DOMAIN handlers = Events /\ \A e \in Events : handlers[e] \in Handlers(e)
  /\ pc \in [Threads -> Labels]
  /\ calling \in [Threads -> Calls]

QueuesOK ==
  /\ sendQueue \in Seq(Commands) /\ callbackQueue \in Seq(Commands) /\ server \in Seq(Commands)
  /\ inbox \in Seq(Message)

TypeOK == FlagsOK /\ FieldsOK /\ ThreadsOK /\ QueuesOK

Alive(t) == pc[t] \notin {"unborn", "exited"}

\* The threads that use the session: the others only end.
InSession(t) == pc[t] \in {"start", "connect", "loop", "cleanup", "free"}

\* However connections end and the bot is started again, one thread at a time
\* uses the queues and the session (botThread takes them to be its own).
OneBotThread ==
  \A t, u \in Threads : InSession(t) /\ InSession(u) => t = u

\* The room is of this connection: it was joined on it, once, it is the configured
\* room when the list had it, and roomName is its name.
RoomJoinedOnce ==
  \A t \in Threads : pc[t] = "loop" =>
    /\ magicRoomID = NoRoom <=> joins = <<>>
    /\ \A i \in DOMAIN joins :
         /\ i = 1 /\ joins[i][1] = magicRoomID /\ roomName = magicRoomID
         /\ ConfigRoom \in ToSet(joins[i][2]) => magicRoomID = ConfigRoom
         /\ magicRoomID \in ToSet(joins[i][2])

\* A handler is called when what it is told of was done: the room list was
\* requested before onBotLogin (bot.h:100), and the session is gone before
\* onBotDisconnect.
HandlersCalledAfter ==
  \A t \in Threads :
    CASE calling[t].event = "onBotLogin" ->
           loggedIn /\ "listRooms" \in ToSet(sendQueue) /\ roomRequested
      [] calling[t].event = "onBotDisconnect" -> roomName = NoRoom /\ joins = <<>>
      [] OTHER -> TRUE

\* When stopBot found the bot running and nothing starts it again, no bot thread is
\* left once it returned, nor is one when the bot is freed.
StopEndsThread ==
  user \in {"stopped", "freed"} /\ found /\ sets = 0 => \A t \in Threads : ~Alive(t)

\* A login that is accepted in time, that is before its command timed out (an answer
\* after that is not seen, and leads nowhere), leads to a room, or to the end of the connection.
LoginLeadsToRoom ==
  \A t \in Threads : (pc[t] = "loop" /\ accepted) ~> (magicRoomID # NoRoom \/ pc[t] # "loop")

\* botDisconnect: whichever way a connection ends, another thread is made.
DisconnectRestarts ==
  \A t \in Threads : t < MaxThreads =>
    (pc[t] = "loop" /\ ~running /\ handlers["onBotDisconnect"] = "botDisconnect" ~>
       pc[t + 1] = "connect" \/ handlers["onBotDisconnect"] # "botDisconnect")
=============================================================================
