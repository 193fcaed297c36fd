--------------------------- MODULE BotSessionProofs ---------------------------
(***************************************************************************)
(* Proofs about BotSession, for every number of bot threads and of         *)
(* handlers set, every set of rooms and of lists the server answers with.  *)
(***************************************************************************)
EXTENDS BotSession, QueueLemmas, WellFoundedInduction

USE WatchedAssumption

-----------------------------------------------------------------------------
\* A set of indices has a least element.
LEMMA MinFacts ==
  ASSUME NEW I, I \subseteq Nat, I # {}
  PROVE  Min(I) \in I
<1>1. \E x \in I : \A y \in I : ~(<<y, x>> \in OpToRel(<, Nat))
  BY NatLessThanWellFounded, WFMin
<1>2. PICK x \in I : \A y \in I : ~(y < x)
  BY <1>1 DEF OpToRel
<1>3. \A y \in I : x =< y
  BY <1>2
<1>4. QED
  BY <1>2, <1>3 DEF Min

\* cmdForCMDId takes a command out of a queue, and leaves a queue of commands.
LEMMA RemoveFirstType ==
  ASSUME NEW S, NEW q \in Seq(S), NEW e
  PROVE  RemoveFirst(q, e) \in Seq(S)
<1>1. CASE \E i \in 1..Len(q) : q[i] = e
  <2> DEFINE I == {i \in 1..Len(q) : q[i] = e}
  <2>1. I \subseteq Nat /\ I # {}
    BY <1>1
  <2>2. Min(I) \in I
    <3> HIDE DEF I
    <3> QED  BY <2>1, MinFacts
  <2>3. RemoveFirst(q, e) = RemoveAt(q, Min(I))
    BY <1>1, <2>1 DEF RemoveFirst, SelectInSeq
  <2>4. Min(I) \in DOMAIN q
    BY <2>2
  <2>5. QED
    BY <2>3, <2>4, RemoveAtFacts
<1>2. CASE ~\E i \in 1..Len(q) : q[i] = e
  BY <1>2 DEF RemoveFirst
<1>3. QED
  BY <1>1, <1>2

-----------------------------------------------------------------------------
\* Types.

\* A handler that a thread is to call is one that was set for the event.
LEMMA DispatchFacts ==
  ASSUME ThreadsOK, NEW t \in Threads, NEW e \in Events, Dispatch(t, e)
  PROVE  /\ \A u \in Threads : u # t => calling'[u] = calling[u]
         /\ calling'[t] = NoCall \/ \E fn \in Handlers(e) \ {NULL} :
                                     calling'[t] = [event |-> e, fn |-> fn]
         /\ calling' \in [Threads -> Calls]
BY DEF ThreadsOK, Dispatch, Handlers, Calls, Events

\* A poll of the queues moves commands from one to the other.
LEMMA PollQueueType ==
  ASSUME QueuesOK, PollQueue
  PROVE  /\ roomRequested' = TRUE
         /\ sendQueue' \in Seq(Commands) /\ callbackQueue' \in Seq(Commands)
         /\ Sent \in Seq(Commands)
<1> DEFINE q == IF roomRequested THEN sendQueue ELSE Append(sendQueue, "listRooms")
<1>1. q \in Seq(Commands) /\ callbackQueue \in Seq(Commands)
  BY DEF QueuesOK, Commands
<1>2. CASE q = <<>>
  <2>1. callbackQueue' = callbackQueue /\ sendQueue' = sendQueue /\ roomRequested' = TRUE
    BY <1>2 DEF PollQueue, queues
  <2>2. Sent = <<>>
    BY <1>1, <2>1, SubSeqProperties DEF Sent
  <2>3. QED
    BY <2>1, <2>2 DEF QueuesOK
<1>3. CASE q # <<>>
  <2>1. /\ sendQueue' = Tail(q) /\ callbackQueue' = Append(callbackQueue, Head(q))
        /\ roomRequested' = TRUE
    BY <1>3 DEF PollQueue
  <2> HIDE DEF q
  <2>2. Tail(q) \in Seq(Commands) /\ Head(q) \in Commands
    BY <1>1, <1>3
  <2>3. callbackQueue' \in Seq(Commands) /\ Len(callbackQueue') = Len(callbackQueue) + 1
    BY <1>1, <2>1, <2>2, AppendProperties
  <2>4. \A i \in Len(callbackQueue) + 1..Len(callbackQueue') : callbackQueue'[i] \in Commands
    BY <1>1, <2>3
  <2>5. Sent \in Seq(Commands)
    BY <1>1, <2>3, <2>4, SubSeqProperties DEF Sent
  <2>6. QED
    BY <2>1, <2>2, <2>3, <2>5
<1>4. QED
  BY <1>2, <1>3

\* The messages that are read are messages.
LEMMA ReadFacts ==
  ASSUME QueuesOK, NEW t \in Threads, NEW kind, Read(t, kind)
  PROVE  /\ inbox' \in Seq(Message)
         /\ Head(inbox) \in Message /\ Head(inbox).kind = kind
BY DEF QueuesOK, Read

\* The rooms of a list that was read; the one to join is among them, and it is
\* the configured one if that is.
LEMMA ListFacts ==
  ASSUME QueuesOK, NEW t \in Threads, Read(t, "rooms"), Joins(Head(inbox).list)
  PROVE  LET list == Head(inbox).list IN
         /\ list \in RoomLists
         /\ RoomOf(list) \in Rooms /\ RoomOf(list) \in ToSet(list)
         /\ ConfigRoom \in ToSet(list) => RoomOf(list) = ConfigRoom
<1> DEFINE list == Head(inbox).list
<1>1. list \in RoomLists
  BY ReadFacts DEF Message, Joins
<1>2. list \in Seq(Rooms) /\ list # <<>>
  BY <1>1, SessionAssumption
<1>3. Head(list) = list[1] /\ 1 \in DOMAIN list /\ \A i \in DOMAIN list : list[i] \in Rooms
  BY <1>2
<1>4. QED
  BY <1>1, <1>3 DEF RoomOf, ToSet

\* The flags of the bot and of its user stay Booleans.
LEMMA FlagsKept ==
  ASSUME TypeOK, [Next]_vars
  PROVE  FlagsOK'
<1> USE DEF FlagsOK, fields, user_, history, net
<1>1. FlagsOK /\ QueuesOK
  BY DEF TypeOK
<1>2. ASSUME NEW t \in Threads,
             BotThread(t) \/ PollTimeout(t) \/ ConnectionError(t) \/ Lost(t)
      PROVE  FlagsOK'
  <2>1. CASE InitThread(t) \/ Connect(t) \/ LeaveLoop(t) \/ Cleanup(t) \/ Exit(t)
    BY <1>1, <2>1 DEF InitThread, Connect, LeaveLoop, Cleanup, Exit
  <2>2. CASE Poll(t) \/ PollTimeout(t) \/ ConnectionError(t) \/ Lost(t)
    BY <1>1, <2>2 DEF Poll, PollTimeout, ConnectionError, Lost, PollQueue
  <2>3. CASE FreeManager(t)
    BY <1>1, <2>3 DEF FreeManager, PollQueue
  <2>4. CASE Identified(t) \/ OtherAnswered(t) \/ UserHandler(t) \/ RoomsListed(t)
    BY <1>1, <2>4 DEF Identified, OtherAnswered, UserHandler, RoomsListed
  <2>5. CASE LoginAnswered(t)
    BY <1>1, <2>5 DEF LoginAnswered
  <2>6. CASE BotDisconnect(t) \/ CreateNext(t)
    BY <1>1, <2>6 DEF BotDisconnect, StartFields, CreateNext
  <2>7. QED
    BY <1>2, <2>1, <2>2, <2>3, <2>4, <2>5, <2>6 DEF BotThread
<1>3. CASE User
  BY <1>1, <1>3
     DEF User, Start, StartFields, Stop, Join, Joined, Free, StopToFree, Create, SetHandler
<1>4. CASE Answer
  BY <1>1, <1>4 DEF Answer
<1>5. CASE Update \/ UNCHANGED vars
  BY <1>1, <1>5 DEF Update, vars
<1>6. QED
  BY <1>2, <1>3, <1>4, <1>5 DEF Next

\* The other fields of the bot and of its user keep their types.
LEMMA FieldsKept ==
  ASSUME TypeOK, [Next]_vars
  PROVE  FieldsOK'
<1> USE DEF FieldsOK, fields, user_, history, net
<1>1. FieldsOK /\ QueuesOK
  BY DEF TypeOK
<1>2. ASSUME NEW t \in Threads,
             BotThread(t) \/ PollTimeout(t) \/ ConnectionError(t) \/ Lost(t)
      PROVE  FieldsOK'
  <2>1. CASE InitThread(t) \/ Connect(t) \/ LeaveLoop(t) \/ Cleanup(t) \/ Exit(t)
    BY <1>1, <2>1 DEF InitThread, Connect, LeaveLoop, Cleanup, Exit
  <2>2. CASE Poll(t) \/ PollTimeout(t) \/ ConnectionError(t) \/ Lost(t)
    BY <1>1, <2>2 DEF Poll, PollTimeout, ConnectionError, Lost, EndOfEvent
  <2>3. CASE FreeManager(t)
    BY <1>1, <2>3 DEF FreeManager
  <2>4. CASE Identified(t) \/ OtherAnswered(t) \/ UserHandler(t)
    BY <1>1, <2>4 DEF Identified, OtherAnswered, UserHandler, EndOfEvent
  <2>5. CASE LoginAnswered(t)
    BY <1>1, <2>5 DEF LoginAnswered, EndOfEvent
  <2>6. CASE RoomsListed(t)
    <3>1. CASE ~Joins(Head(inbox).list)
      BY <1>1, <2>6, <3>1 DEF RoomsListed, EndOfEvent
    <3>2. CASE Joins(Head(inbox).list)
      <4>1. Read(t, "rooms")
        BY <2>6 DEF RoomsListed
      <4>2. RoomOf(Head(inbox).list) \in Rooms
        BY <1>1, <3>2, <4>1, ListFacts
      <4>3. QED
        BY <1>1, <2>6, <3>2, <4>2 DEF RoomsListed, EndOfEvent
    <3>3. QED
      BY <3>1, <3>2
  <2>7. CASE BotDisconnect(t)
    BY <1>1, <2>7 DEF BotDisconnect, StartFields
  <2>8. CASE CreateNext(t)
    BY <1>1, <2>8 DEF CreateNext, NewThread, HandleOf
  <2>9. QED
    BY <1>2, <2>1, <2>2, <2>3, <2>4, <2>5, <2>6, <2>7, <2>8 DEF BotThread
<1>3. CASE User
  <2>1. CASE Start \/ Stop \/ Join \/ Joined \/ Free \/ StopToFree
    BY <1>1, <2>1 DEF Start, StartFields, Stop, Join, Joined, Free, StopToFree
  <2>2. CASE Create
    BY <1>1, <2>2 DEF Create, NewThread, HandleOf
  <2>3. ASSUME NEW e \in Watched, NEW fn \in Handlers(e), SetHandler(e, fn)  PROVE FieldsOK'
    <3>1. MaxSets \in Nat /\ sets \in 0..MaxSets
      BY <1>1, SessionAssumption
    <3>2. /\ sets < MaxSets /\ sets' = sets + 1
          /\ UNCHANGED <<magicRoomID, roomName, handle, conn, user, joinee>>
      BY <2>3 DEF SetHandler
    <3>3. sets' \in 0..MaxSets
      BY <3>1, <3>2
    <3>4. QED
      BY <1>1, <3>2, <3>3
  <2>4. QED
    BY <1>3, <2>1, <2>2, <2>3 DEF User
<1>4. CASE Answer \/ Update \/ UNCHANGED vars
  BY <1>1, <1>4 DEF Answer, Update, vars
<1>5. QED
  BY <1>2, <1>3, <1>4 DEF Next

\* The threads and the handlers they call keep their types.
LEMMA ThreadsKept ==
  ASSUME TypeOK, [Next]_vars
  PROVE  ThreadsOK'
<1> USE DEF ThreadsOK, Goto, Labels
<1>1. ThreadsOK
  BY DEF TypeOK
<1>2. ASSUME NEW t \in Threads,
             BotThread(t) \/ PollTimeout(t) \/ ConnectionError(t) \/ Lost(t)
      PROVE  ThreadsOK'
  <2>1. CASE InitThread(t) \/ LeaveLoop(t) \/ Cleanup(t) \/ Exit(t) \/ Poll(t) \/ PollTimeout(t)
             \/ Lost(t) \/ OtherAnswered(t)
    BY <1>1, <2>1
       DEF InitThread, LeaveLoop, Cleanup, Exit, Poll, PollTimeout, Lost, OtherAnswered
  <2>2. ASSUME NEW e \in Events, Dispatch(t, e) \/ UNCHANGED calling,
               UNCHANGED handlers, pc' \in [Threads -> Labels]
        PROVE  ThreadsOK'
    <3>1. calling' \in [Threads -> Calls]
      BY <1>1, <2>2, DispatchFacts
    <3>2. QED
      BY <1>1, <2>2, <3>1
  <2>3. CASE Connect(t)
    BY <1>1, <2>2, <2>3 DEF Connect, Events
  <2>4. CASE FreeManager(t)
    BY <1>1, <2>2, <2>4 DEF FreeManager, CallOnBotDisconnect, Events
  <2>5. CASE Identified(t) \/ LoginAnswered(t) \/ RoomsListed(t) \/ ConnectionError(t)
    BY <1>1, <2>2, <2>5 DEF Identified, LoginAnswered, RoomsListed, ConnectionError, Events
  <2>6. CASE UserHandler(t) \/ BotDisconnect(t) \/ CreateNext(t)
    BY <1>1, <2>6 DEF UserHandler, BotDisconnect, CreateNext, NewThread, Calls, Events
  <2>7. QED
    BY <1>2, <2>1, <2>3, <2>4, <2>5, <2>6 DEF BotThread
<1>3. CASE User
  BY <1>1, <1>3
     DEF User, Start, Stop, Join, Joined, Free, StopToFree, Create, NewThread, SetHandler
<1>4. CASE Answer \/ Update
  BY <1>1, <1>4 DEF Answer, Update
<1>5. CASE UNCHANGED vars
  BY <1>1, <1>5 DEF vars
<1>6. QED
  BY <1>2, <1>3, <1>4, <1>5 DEF Next

\* The queues keep holding commands, and the inbox messages.
LEMMA QueuesKept ==
  ASSUME TypeOK, [Next]_vars
  PROVE  QueuesOK'
<1>1. QueuesOK
  BY DEF TypeOK
<1>2. ASSUME UNCHANGED <<queues, net>>  PROVE QueuesOK'
  BY <1>1, <1>2 DEF QueuesOK, queues, net
<1>3. ASSUME NEW t \in Threads,
             BotThread(t) \/ PollTimeout(t) \/ ConnectionError(t) \/ Lost(t)
      PROVE  QueuesOK'
  <2>1. CASE InitThread(t) \/ Cleanup(t)
    <3>1. sendQueue' = <<>> /\ callbackQueue' = <<>> /\ UNCHANGED <<server, inbox>>
      BY <2>1 DEF InitThread, Cleanup, net
    <3>2. QED
      BY <1>1, <3>1 DEF QueuesOK
  <2>2. CASE Connect(t)
    <3> DEFINE m == [kind |-> "identification"]
    <3>1. m \in Message
      BY DEF Message
    <3>2. inbox' = inbox \/ inbox' = <<m>>
      BY <2>2 DEF Connect
    <3>3. UNCHANGED <<sendQueue, callbackQueue, server>>
      BY <2>2 DEF Connect, queues
    <3> HIDE DEF m
    <3>4. <<m>> \in Seq(Message)
      BY <3>1
    <3>5. QED
      BY <1>1, <3>2, <3>3, <3>4 DEF QueuesOK
  <2>3. CASE Poll(t)
    <3>1. PollQueue /\ server' = server \o Sent /\ inbox' = inbox
      BY <2>3 DEF Poll
    <3>2. /\ sendQueue' \in Seq(Commands) /\ callbackQueue' \in Seq(Commands)
          /\ Sent \in Seq(Commands)
      BY <1>1, <3>1, PollQueueType
    <3>3. server' \in Seq(Commands)
      BY <1>1, <3>1, <3>2, ConcatProperties DEF QueuesOK
    <3>4. QED
      BY <1>1, <3>1, <3>2, <3>3 DEF QueuesOK
  <2>4. CASE Lost(t)
    <3>1. server' = <<>> /\ inbox' = <<>> /\ UNCHANGED <<sendQueue, callbackQueue>>
      BY <2>4 DEF Lost, queues
    <3>2. QED
      BY <1>1, <3>1 DEF QueuesOK
  <2>5. CASE FreeManager(t)
    <3>1. CASE UNCHANGED <<queues, net>>
      BY <1>2, <3>1
    <3>2. CASE PollQueue /\ server' = <<>> /\ inbox' = <<>>
      <4>1. sendQueue' \in Seq(Commands) /\ callbackQueue' \in Seq(Commands)
        BY <1>1, <3>2, PollQueueType
      <4>2. QED
        BY <3>2, <4>1 DEF QueuesOK
    <3>3. QED
      BY <2>5, <3>1, <3>2 DEF FreeManager
  <2>6. CASE Identified(t)
    <3>1. /\ sendQueue' = Append(sendQueue, "login") /\ Read(t, "identification")
          /\ UNCHANGED <<callbackQueue, server>>
      BY <2>6 DEF Identified
    <3>2. inbox' \in Seq(Message) /\ "login" \in Commands
      BY <1>1, <3>1, ReadFacts DEF Commands
    <3>3. QED
      BY <1>1, <3>1, <3>2 DEF QueuesOK
  <2>7. CASE LoginAnswered(t)
    <3>1. /\ Read(t, "login") /\ callbackQueue' = RemoveFirst(callbackQueue, "login")
          /\ server' = server
          /\ sendQueue' = sendQueue \/ sendQueue' = Append(sendQueue, "listRooms")
      BY <2>7 DEF LoginAnswered, AskForRooms
    <3>2. /\ inbox' \in Seq(Message) /\ "listRooms" \in Commands
          /\ sendQueue \in Seq(Commands) /\ server \in Seq(Commands)
      BY <1>1, <3>1, ReadFacts DEF Commands, QueuesOK
    <3>3. callbackQueue' \in Seq(Commands)
      BY <1>1, <3>1, RemoveFirstType DEF QueuesOK
    <3>4. sendQueue' \in Seq(Commands)
      BY <3>1, <3>2, AppendProperties
    <3>5. QED
      BY <3>1, <3>2, <3>3, <3>4 DEF QueuesOK
  <2>8. CASE OtherAnswered(t)
    <3>1. /\ Read(t, "response") /\ callbackQueue' = RemoveFirst(callbackQueue, Head(inbox).to)
          /\ UNCHANGED <<sendQueue, server>>
      BY <2>8 DEF OtherAnswered
    <3>2. inbox' \in Seq(Message) /\ sendQueue \in Seq(Commands) /\ server \in Seq(Commands)
      BY <1>1, <3>1, ReadFacts DEF QueuesOK
    <3>3. callbackQueue' \in Seq(Commands)
      BY <1>1, <3>1, RemoveFirstType DEF QueuesOK
    <3>4. QED
      BY <3>1, <3>2, <3>3 DEF QueuesOK
  <2>9. CASE RoomsListed(t)
    <3>1. /\ Read(t, "rooms") /\ UNCHANGED <<callbackQueue, server>>
          /\ sendQueue' = sendQueue \/ sendQueue' = Append(sendQueue, "joinRoom")
      BY <2>9 DEF RoomsListed
    <3>2. inbox' \in Seq(Message) /\ "joinRoom" \in Commands
      BY <1>1, <3>1, ReadFacts DEF Commands
    <3>3. QED
      BY <1>1, <3>1, <3>2 DEF QueuesOK
  <2>10. CASE PollTimeout(t)
    <3>1. /\ callbackQueue # <<>> /\ callbackQueue' = Tail(callbackQueue)
          /\ UNCHANGED <<sendQueue, server, inbox>>
      BY <2>10 DEF PollTimeout, net
    <3>2. QED
      BY <1>1, <3>1 DEF QueuesOK
  <2>11. CASE LeaveLoop(t) \/ Exit(t) \/ UserHandler(t) \/ BotDisconnect(t) \/ CreateNext(t)
    BY <1>2, <2>11 DEF LeaveLoop, Exit, UserHandler, BotDisconnect, CreateNext
  <2>12. CASE ConnectionError(t)
    BY <1>2, <2>12 DEF ConnectionError, queues, net
  <2>13. QED
    BY <1>3, <2>1, <2>2, <2>3, <2>4, <2>5, <2>6, <2>7, <2>8, <2>9, <2>10, <2>11, <2>12
       DEF BotThread
<1>4. CASE User
  BY <1>2, <1>4 DEF User, Start, Stop, Join, Joined, Free, StopToFree, Create, SetHandler
<1>5. CASE Answer
  <2>1. server # <<>> /\ server' = Tail(server) /\ UNCHANGED <<sendQueue, callbackQueue>>
    BY <1>5 DEF Answer, queues
  <2>2. server \in Seq(Commands) /\ Head(server) \in Commands /\ inbox \in Seq(Message)
    BY <1>1, <2>1 DEF QueuesOK
  <2>3. inbox' \in Seq(Message)
    <3>1. ASSUME NEW m \in Message, inbox' = Append(inbox, m)  PROVE inbox' \in Seq(Message)
      BY <2>2, <3>1, AppendProperties
    <3>2. ASSUME NEW a \in Message, NEW b \in Message, inbox' = inbox \o <<a, b>>
          PROVE  inbox' \in Seq(Message)
      <4>1. <<a, b>> \in Seq(Message)
        OBVIOUS
      <4>2. QED
        BY <2>2, <3>2, <4>1, ConcatProperties
    <3>3. \A code \in {"RespOk", "denied"}, extension \in BOOLEAN :
            [kind |-> "login", code |-> code, extension |-> extension] \in Message
      BY DEF Message
    <3>4. \A list \in RoomLists : [kind |-> "rooms", list |-> list] \in Message
      BY DEF Message
    <3>5. [kind |-> "response", to |-> Head(server)] \in Message
      BY <2>2 DEF Message
    <3>6. CASE \E code \in {"RespOk", "denied"}, extension \in BOOLEAN : inbox' =
                 Append(inbox, [kind |-> "login", code |-> code, extension |-> extension])
      BY <3>1, <3>3, <3>6
    <3>7. CASE \E list \in RoomLists : inbox' = inbox \o <<[kind |-> "rooms", list |-> list],
                                                [kind |-> "response", to |-> Head(server)]>>
      BY <3>2, <3>4, <3>5, <3>7
    <3>8. CASE inbox' = Append(inbox, [kind |-> "response", to |-> Head(server)])
      BY <3>1, <3>5, <3>8
    <3>9. QED
      BY <1>5, <3>6, <3>7, <3>8 DEF Answer
  <2>4. QED
    BY <1>1, <2>1, <2>3 DEF QueuesOK
<1>6. CASE Update
  <2>1. PICK list \in RoomLists \cup {<<>>} : inbox' = <<[kind |-> "rooms", list |-> list]>>
    BY <1>6 DEF Update
  <2>2. [kind |-> "rooms", list |-> list] \in Message
    BY DEF Message
  <2>3. UNCHANGED <<sendQueue, callbackQueue, server>>
    BY <1>6 DEF Update, queues
  <2>4. QED
    BY <1>1, <2>1, <2>2, <2>3 DEF QueuesOK
<1>7. CASE UNCHANGED vars
  BY <1>2, <1>7 DEF vars
<1>8. QED
  BY <1>3, <1>4, <1>5, <1>6, <1>7 DEF Next

\* The fields, threads, queues and messages of the bot have their types.
THEOREM TypeOKHolds == Spec => []TypeOK
<1>1. Init => TypeOK
  <2> SUFFICES ASSUME Init  PROVE TypeOK
    OBVIOUS
  <2>1. FlagsOK
    BY DEF Init, FlagsOK
  <2>2. MaxSets \in Nat
    BY SessionAssumption
  <2>3. FieldsOK
    BY <2>2 DEF Init, FieldsOK
  <2>4. ThreadsOK
    BY DEF Init, ThreadsOK, Handlers, Labels, Calls
  <2>5. QueuesOK
    BY DEF Init, QueuesOK
  <2>6. QED
    BY <2>1, <2>3, <2>4, <2>5 DEF TypeOK
<1>2. TypeOK /\ [Next]_vars => TypeOK'
  BY FlagsKept, FieldsKept, ThreadsKept, QueuesKept DEF TypeOK
<1>3. QED
  BY <1>1, <1>2, PTL DEF Spec

-----------------------------------------------------------------------------
\* One thread at a time has the bot.

\* The thread that uses the session, or still has a handler to call.
HasBot(t) == InSession(t) \/ calling[t] # NoCall

OneHolder ==
  /\ \A t, u \in Threads : HasBot(t) /\ HasBot(u) => t = u
  /\ user \in {"new", "starting"} => \A t \in Threads : ~HasBot(t)
  /\ \A t \in Threads :
       /\ calling[t] # NoCall => pc[t] \in {"loop", "cleanup", "end"}
       /\ calling[t].event = "onBotDisconnect" => pc[t] = "end"
       /\ calling[t].fn \in {"botDisconnect", "startBot"} => calling[t].event = "onBotDisconnect"

\* What a step of the thread that uses the session may do.
LEMMA SessionStep ==
  ASSUME OneHolder, NEW t \in Threads, InSession(t), user' = user,
         \A u \in Threads : u # t => pc'[u] = pc[u] /\ calling'[u] = calling[u],
         \/ calling'[t] = NoCall
         \/ \E e \in Events : \E fn \in Handlers(e) \ {NULL} :
              /\ calling'[t] = [event |-> e, fn |-> fn]
              /\ pc'[t] \in {"loop", "cleanup", "end"}
              /\ e = "onBotDisconnect" => pc'[t] = "end"
  PROVE  OneHolder'
<1> USE DEF OneHolder, HasBot, InSession
<1>1. NoCall.event = "none" /\ NoCall.fn = "NULL"
  BY DEF NoCall, NULL
<1>2. /\ calling'[t] # NoCall => pc'[t] \in {"loop", "cleanup", "end"}
      /\ calling'[t].event = "onBotDisconnect" => pc'[t] = "end"
      /\ calling'[t].fn \in {"botDisconnect", "startBot"} => calling'[t].event = "onBotDisconnect"
  <2>1. CASE calling'[t] = NoCall
    BY <1>1, <2>1
  <2>2. ASSUME NEW e \in Events, NEW fn \in Handlers(e) \ {NULL},
               calling'[t] = [event |-> e, fn |-> fn],
               pc'[t] \in {"loop", "cleanup", "end"}, e = "onBotDisconnect" => pc'[t] = "end"
        PROVE  /\ pc'[t] \in {"loop", "cleanup", "end"}
               /\ calling'[t].event = "onBotDisconnect" => pc'[t] = "end"
               /\ calling'[t].fn \in {"botDisconnect", "startBot"} =>
                     calling'[t].event = "onBotDisconnect"
    <3>1. calling'[t].event = e /\ calling'[t].fn = fn
      BY <2>2
    <3>2. fn \in {"botDisconnect", "startBot"} => e = "onBotDisconnect"
      BY DEF Handlers, NULL
    <3>3. QED
      BY <2>2, <3>1, <3>2
  <2>3. QED
    BY <2>1, <2>2
<1>3. \A u \in Threads : u # t => ~HasBot(u)'
  OBVIOUS
<1>4. user' \notin {"new", "starting"}
  OBVIOUS
<1>5. QED
  BY <1>2, <1>3, <1>4

\* A thread that has the bot keeps it, or makes another and ends.
LEMMA OneHolderByThread ==
  ASSUME TypeOK, OneHolder, NEW t \in Threads,
         BotThread(t) \/ PollTimeout(t) \/ ConnectionError(t) \/ Lost(t)
  PROVE  OneHolder'
<1>1. ThreadsOK /\ pc \in [Threads -> Labels] /\ calling \in [Threads -> Calls]
  BY DEF TypeOK, ThreadsOK
<1>2. CASE InitThread(t) \/ Poll(t) \/ LeaveLoop(t) \/ Cleanup(t) \/ OtherAnswered(t)
           \/ PollTimeout(t) \/ Lost(t)
  <2>1. InSession(t) /\ calling[t] = NoCall /\ calling' = calling /\ user' = user
    BY <1>2 DEF InitThread, Poll, LeaveLoop, Cleanup, OtherAnswered, PollTimeout, Lost,
                Read, At, InSession, user_
  <2>2. \A u \in Threads : u # t => pc'[u] = pc[u]
    BY <1>1, <1>2 DEF InitThread, Poll, LeaveLoop, Cleanup, OtherAnswered, PollTimeout, Lost, Goto
  <2>3. QED
    BY <2>1, <2>2, SessionStep
<1>3. CASE Connect(t)
  <2>1. /\ InSession(t) /\ user' = user
        /\ Dispatch(t, "onBotConnectionError") \/ Dispatch(t, "onBotConnect")
        /\ pc' = [pc EXCEPT ![t] = pc'[t]] /\ pc'[t] \in {"loop", "cleanup"}
    BY <1>1, <1>3 DEF Connect, At, InSession, user_, Goto
  <2>2. \A u \in Threads : u # t => pc'[u] = pc[u] /\ calling'[u] = calling[u]
    BY <1>1, <2>1, DispatchFacts DEF Events
  <2>3. {"onBotConnectionError", "onBotConnect"} \subseteq Events \ {"onBotDisconnect"}
    BY DEF Events
  <2>4. \/ calling'[t] = NoCall
        \/ \E e \in Events \ {"onBotDisconnect"} : \E fn \in Handlers(e) \ {NULL} :
             calling'[t] = [event |-> e, fn |-> fn]
    <3>1. ASSUME NEW e \in Events \ {"onBotDisconnect"}, Dispatch(t, e)
          PROVE  \/ calling'[t] = NoCall
                 \/ \E fn \in Handlers(e) \ {NULL} : calling'[t] = [event |-> e, fn |-> fn]
      BY <1>1, <3>1, DispatchFacts
    <3>2. QED
      BY <2>1, <2>3, <3>1
  <2>5. QED
    BY <2>1, <2>2, <2>4, SessionStep
<1>4. CASE FreeManager(t)
  <2>1. /\ InSession(t) /\ user' = user /\ Dispatch(t, "onBotDisconnect")
        /\ pc' = [pc EXCEPT ![t] = "end"]
    BY <1>4 DEF FreeManager, CallOnBotDisconnect, At, InSession, user_, Goto
  <2>2. \A u \in Threads : u # t => pc'[u] = pc[u] /\ calling'[u] = calling[u]
    BY <1>1, <2>1, DispatchFacts DEF Events
  <2>3. \/ calling'[t] = NoCall
        \/ \E fn \in Handlers("onBotDisconnect") \ {NULL} :
             calling'[t] = [event |-> "onBotDisconnect", fn |-> fn]
    BY <1>1, <2>1, DispatchFacts DEF Events
  <2>4. pc'[t] = "end" /\ "onBotDisconnect" \in Events
    BY <1>1, <2>1 DEF Events
  <2>5. QED
    BY <2>1, <2>2, <2>3, <2>4, SessionStep
<1>5. CASE Identified(t) \/ LoginAnswered(t) \/ RoomsListed(t) \/ ConnectionError(t)
  <2>1. InSession(t) /\ pc[t] = "loop" /\ calling[t] = NoCall /\ pc' = pc /\ user' = user
    BY <1>5 DEF Identified, LoginAnswered, RoomsListed, ConnectionError, Read, At,
                InSession, user_
  <2>2. \/ calling' = calling
        \/ \E e \in Events \ {"onBotDisconnect"} : Dispatch(t, e)
    BY <1>5 DEF Identified, LoginAnswered, RoomsListed, ConnectionError, Events
  <2>3. \A u \in Threads : u # t => calling'[u] = calling[u]
    BY <1>1, <2>2, DispatchFacts
  <2>4. \/ calling'[t] = NoCall
        \/ \E e \in Events \ {"onBotDisconnect"} : \E fn \in Handlers(e) \ {NULL} :
             calling'[t] = [event |-> e, fn |-> fn]
    BY <1>1, <2>1, <2>2, DispatchFacts
  <2>5. QED
    BY <2>1, <2>3, <2>4, SessionStep
<1> USE DEF OneHolder, HasBot, InSession
<1>6. CASE Exit(t)
  <2>1. /\ pc[t] = "end" /\ calling[t] = NoCall /\ calling' = calling /\ user' = user
        /\ pc' = [pc EXCEPT ![t] = "exited"]
    BY <1>6 DEF Exit, At, Goto, user_
  <2>2. pc'[t] = "exited" /\ \A u \in Threads : u # t => pc'[u] = pc[u]
    BY <1>1, <2>1
  <2>3. NoCall.event = "none" /\ NoCall.fn = "NULL"
    BY DEF NoCall, NULL
  <2>4. QED
    BY <2>1, <2>2, <2>3
<1>7. CASE UserHandler(t)
  <2>1. /\ calling'[t] = NoCall /\ pc' = pc /\ user' = user
        /\ \A u \in Threads : u # t => calling'[u] = calling[u]
    BY <1>1, <1>7 DEF UserHandler, user_
  <2>2. NoCall.event = "none" /\ NoCall.fn = "NULL"
    BY DEF NoCall, NULL
  <2>3. QED
    BY <2>1, <2>2
<1>8. CASE BotDisconnect(t)
  <2>1. /\ calling'[t] = [event |-> "onBotDisconnect", fn |-> "startBot"]
        /\ calling[t].fn = "botDisconnect" /\ pc' = pc /\ user' = user
        /\ \A u \in Threads : u # t => calling'[u] = calling[u]
    BY <1>1, <1>8 DEF BotDisconnect, user_
  <2>2. calling[t] # NoCall
    BY <2>1 DEF NoCall, NULL
  <2>3. QED
    BY <2>1, <2>2
<1>9. CASE CreateNext(t)
  <2>1. /\ calling[t].fn = "startBot" /\ calling'[t] = NoCall /\ user' = user
        /\ \A u \in Threads : u # t => calling'[u] = calling[u]
    BY <1>1, <1>9 DEF CreateNext, user_
  <2>2. PICK n \in Threads : pc[n] = "unborn" /\ pc' = [pc EXCEPT ![n] = "start"]
    BY <1>9 DEF CreateNext, NewThread
  <2>3. NoCall.event = "none" /\ NoCall.fn = "NULL"
    BY DEF NoCall, NULL
  <2>4. calling[t] # NoCall /\ pc[t] = "end" /\ n # t
    BY <2>1, <2>2, <2>3
  <2>5. calling[n] = NoCall /\ calling'[n] = NoCall
    BY <2>1, <2>2, <2>4
  <2>6. \A u \in Threads : u # n => ~HasBot(u)' /\ pc'[u] = pc[u]
    BY <1>1, <2>1, <2>2, <2>4
  <2>7. user \notin {"new", "starting"}
    BY <2>4
  <2>8. QED
    BY <2>1, <2>2, <2>3, <2>5, <2>6, <2>7
<1>10. QED
  BY <1>2, <1>3, <1>4, <1>5, <1>6, <1>7, <1>8, <1>9 DEF BotThread

LEMMA OneHolderKept ==
  ASSUME TypeOK, OneHolder, [Next]_vars
  PROVE  OneHolder'
<1>1. ThreadsOK /\ pc \in [Threads -> Labels] /\ calling \in [Threads -> Calls]
  BY DEF TypeOK, ThreadsOK
<1>2. ASSUME UNCHANGED <<pc, calling>>,
             user' \in {"new", "starting"} => user \in {"new", "starting"}
      PROVE  OneHolder'
  BY <1>2 DEF OneHolder, HasBot, InSession
<1>3. CASE User
  <2>1. CASE Create
    <3>1. user = "starting" /\ user' = "started" /\ calling' = calling
      BY <2>1 DEF Create
    <3>2. PICK n \in Threads : pc' = [pc EXCEPT ![n] = "start"]
      BY <2>1 DEF Create, NewThread
    <3>3. \A t \in Threads : t # n => ~HasBot(t)'
      BY <1>1, <3>1, <3>2 DEF OneHolder, HasBot, InSession
    <3>4. \A t \in Threads : calling'[t] = NoCall
      BY <3>1 DEF OneHolder, HasBot
    <3>5. NoCall.event = "none" /\ NoCall.fn = "NULL"
      BY DEF NoCall, NULL
    <3>6. QED
      BY <3>1, <3>3, <3>4, <3>5 DEF OneHolder
  <2>2. CASE Start \/ Stop \/ Join \/ Joined \/ Free \/ StopToFree
    BY <1>2, <2>2 DEF Start, Stop, Join, Joined, Free, StopToFree
  <2>3. CASE \E e \in Watched : \E fn \in Handlers(e) : SetHandler(e, fn)
    BY <1>2, <2>3 DEF SetHandler, user_
  <2>4. QED
    BY <1>3, <2>1, <2>2, <2>3 DEF User
<1>4. CASE Answer \/ Update \/ UNCHANGED vars
  BY <1>2, <1>4 DEF Answer, Update, vars, user_
<1>5. QED
  BY <1>3, <1>4, OneHolderByThread DEF Next

\* The bot is in the hands of at most one thread, whatever the connections, the
\* handlers and the user do: the inductive invariant of OneBotThread.
LEMMA OneHolderHolds == Spec => []OneHolder
<1>1. Init => OneHolder
  BY DEF Init, OneHolder, HasBot, InSession, NoCall, NULL
<1>2. TypeOK /\ OneHolder /\ [Next]_vars => OneHolder'
  BY OneHolderKept
<1>3. QED
  BY <1>1, <1>2, TypeOKHolds, PTL DEF Spec

\* However connections end and handlers start the bot again (botDisconnect of
\* main.c), no two bot threads use the queues and the session.
THEOREM OneBotThreadHolds == Spec => []OneBotThread
<1>1. OneHolder => OneBotThread
  BY DEF OneHolder, HasBot, OneBotThread
<1>2. QED
  BY <1>1, OneHolderHolds, PTL

-----------------------------------------------------------------------------
\* When stopBot returns.

\* What is so while no handler was set: there is one thread at most, the one whose
\* handle stopBot reads.
OneStart ==
  sets = 0 =>
    /\ \A e \in Events : handlers[e] = NULL
    /\ \A t \in Threads : calling[t] = NoCall
    /\ user \in {"new", "starting"} => \A t \in Threads : pc[t] = "unborn"
    /\ user \notin {"new", "starting"} =>
         /\ handle \in Threads /\ pc[handle] # "unborn"
         /\ \A t \in Threads : t # handle => pc[t] = "unborn"
    /\ user \in {"joining", "joining to free"} => joinee = handle
    /\ user \in {"stopped", "stopping to free", "freeing", "joining to free", "freed"}
         /\ found => pc[handle] = "exited"

LEMMA OneStartByThread ==
  ASSUME TypeOK, OneStart, NEW t \in Threads,
         BotThread(t) \/ PollTimeout(t) \/ ConnectionError(t) \/ Lost(t)
  PROVE  OneStart'
<1> SUFFICES ASSUME sets' = 0  PROVE OneStart'
  BY DEF OneStart
<1>1. ThreadsOK /\ pc \in [Threads -> Labels] /\ calling \in [Threads -> Calls]
  BY DEF TypeOK, ThreadsOK
<1>2. UNCHANGED <<handlers, user, found, joinee, sets>>
  BY DEF BotThread, PollTimeout, ConnectionError, Lost, InitThread, Connect, Poll,
         LeaveLoop, Cleanup, FreeManager,
         Exit, Identified, LoginAnswered, OtherAnswered, RoomsListed, UserHandler, BotDisconnect,
         CreateNext, user_
<1>3. calling[t] = NoCall /\ \A e \in Events : handlers[e] = NULL
  BY <1>2 DEF OneStart
<1>4. NoCall.fn = "NULL"
  BY DEF NoCall, NULL
<1>5. calling' = calling
  <2>1. ASSUME NEW e \in Events, Dispatch(t, e)  PROVE calling' = calling
    BY <1>1, <1>3, <2>1 DEF Dispatch
  <2>2. QED
    BY <1>3, <1>4, <2>1
       DEF BotThread, PollTimeout, ConnectionError, Lost, InitThread, Connect, Poll,
         LeaveLoop, Cleanup, FreeManager,
           Exit, Identified, LoginAnswered, OtherAnswered, RoomsListed, UserHandler, BotDisconnect,
           CreateNext, CallOnBotDisconnect, Events
<1>6. /\ pc[t] \notin {"unborn", "exited"} /\ handle' = handle
      /\ pc' = pc \/ \E l \in Labels \ {"unborn"} : pc' = [pc EXCEPT ![t] = l]
  BY <1>3, <1>4
     DEF BotThread, PollTimeout, ConnectionError, Lost, InitThread, Connect, Poll,
         LeaveLoop, Cleanup, FreeManager,
         Exit, Identified, LoginAnswered, OtherAnswered, RoomsListed, UserHandler, BotDisconnect,
         CreateNext, Read, At, Goto, Labels
<1>7. /\ \A u \in Threads : u # t => pc'[u] = pc[u]
      /\ pc'[t] # "unborn"
  BY <1>1, <1>6
<1>8. QED
  BY <1>2, <1>3, <1>5, <1>6, <1>7 DEF OneStart

LEMMA OneStartKept ==
  ASSUME TypeOK, OneStart, [Next]_vars
  PROVE  OneStart'
<1>1. ThreadsOK /\ pc \in [Threads -> Labels] /\ calling \in [Threads -> Calls]
  BY DEF TypeOK, ThreadsOK
<1>2. sets \in Nat
  <2>1. MaxSets \in Nat
    BY SessionAssumption
  <2>2. sets \in 0..MaxSets
    BY DEF TypeOK, FieldsOK
  <2>3. QED
    BY <2>1, <2>2
<1>3. CASE User
  <2>1. CASE Create
    <3>1. /\ user = "starting" /\ user' = "started"
          /\ UNCHANGED <<handlers, calling, found, joinee, sets>>
      BY <2>1 DEF Create
    <3>2. PICK n \in Threads : handle' = n /\ pc' = [pc EXCEPT ![n] = "start"]
      BY <2>1 DEF Create, NewThread, HandleOf
    <3>3. pc'[n] = "start" /\ \A t \in Threads : t # n => pc'[t] = pc[t]
      BY <1>1, <3>2
    <3>4. QED
      BY <3>1, <3>2, <3>3 DEF OneStart
  <2>2. CASE Start
    BY <2>2 DEF Start, OneStart
  <2>3. CASE Stop
    BY <2>3 DEF Stop, OneStart
  <2>4. CASE Join
    BY <2>4 DEF Join, OneStart
  <2>5. CASE Joined
    BY <2>5 DEF Joined, OneStart
  <2>6. CASE Free
    BY <2>6 DEF Free, OneStart
  <2>7. CASE \E e \in Watched : \E fn \in Handlers(e) : SetHandler(e, fn)
    <3>1. sets' = sets + 1
      BY <2>7 DEF SetHandler
    <3>2. sets' # 0
      BY <1>2, <3>1
    <3>3. QED
      BY <3>2 DEF OneStart
  <2>8. CASE StopToFree
    BY <2>8 DEF StopToFree, OneStart
  <2>9. QED
    BY <1>3, <2>1, <2>2, <2>3, <2>4, <2>5, <2>6, <2>7, <2>8 DEF User
<1>4. CASE Answer \/ Update \/ UNCHANGED vars
  BY <1>4 DEF Answer, Update, vars, user_, OneStart
<1>5. QED
  BY <1>3, <1>4, OneStartByThread DEF Next

\* stopBot of a running bot returns when no bot thread is left, if no handler that
\* starts the bot again was set, and so does freeBot.
THEOREM StopEndsThreadHolds == Spec => []StopEndsThread
<1>1. Init => OneStart
  BY DEF Init, OneStart
<1>2. TypeOK /\ OneStart /\ [Next]_vars => OneStart'
  BY OneStartKept
<1>3. OneStart => StopEndsThread
  BY DEF OneStart, StopEndsThread, Alive
<1>4. QED
  BY <1>1, <1>2, <1>3, TypeOKHolds, PTL DEF Spec

-----------------------------------------------------------------------------
\* The session.

\* The room, if any, was joined on this connection: it is the one RoomOf chooses of
\* the list that was answered with.
RoomFacts ==
  \/ magicRoomID = NoRoom /\ joins = <<>>
  \/ \E list \in RoomLists :
       /\ joins = << <<magicRoomID, list>> >> /\ roomName = magicRoomID
       /\ magicRoomID # NoRoom /\ magicRoomID \in ToSet(list)
       /\ ConfigRoom \in ToSet(list) => magicRoomID = ConfigRoom

Connected(t) == pc[t] \in {"loop", "cleanup"}

SessionInv ==
  /\ (\A t \in Threads : ~Connected(t)) => joins = <<>> /\ roomName = NoRoom
  /\ \A t \in Threads :
       /\ pc[t] = "connect" => magicRoomID = NoRoom
       /\ Connected(t) => RoomFacts
       /\ calling[t].event = "onBotLogin" =>
            /\ pc[t] = "loop" /\ loggedIn /\ roomRequested
            /\ "listRooms" \in ToSet(sendQueue)

\* Steps that leave the session alone.
LEMMA SessionUntouched ==
  ASSUME SessionInv,
         UNCHANGED <<magicRoomID, joins, loggedIn, roomRequested, sendQueue>>,
         roomName' = roomName \/ (roomName' = NoRoom /\ \A u \in Threads : ~Connected(u)),
         \A u \in Threads : Connected(u)' <=> Connected(u),
         \A u \in Threads : pc'[u] = "connect" => pc[u] = "connect",
         \A u \in Threads : calling'[u].event = "onBotLogin" =>
                               calling[u].event = "onBotLogin" /\ pc'[u] = pc[u]
  PROVE  SessionInv'
<1>1. \A u \in Threads : Connected(u) => roomName' = roomName
  OBVIOUS
<1>2. QED
  BY <1>1 DEF SessionInv, RoomFacts

\* A handler of another event is not onBotLogin's.
LEMMA OtherEvent ==
  ASSUME ThreadsOK, NEW t \in Threads, NEW e \in Events \ {"onBotLogin"}, Dispatch(t, e)
  PROVE  /\ calling'[t].event # "onBotLogin"
         /\ \A u \in Threads : u # t => calling'[u] = calling[u]
<1>1. /\ \A u \in Threads : u # t => calling'[u] = calling[u]
      /\ calling'[t] = NoCall \/ \E fn \in Handlers(e) \ {NULL} :
                                  calling'[t] = [event |-> e, fn |-> fn]
  BY DispatchFacts
<1>2. NoCall.event = "none"
  BY DEF NoCall
<1>3. \A fn \in Handlers(e) : [event |-> e, fn |-> fn].event = e
  OBVIOUS
<1>4. QED
  BY <1>1, <1>2, <1>3

\* Steps of the thread that has the bot.
LEMMA SessionByHolder ==
  ASSUME OneHolder, NEW t \in Threads, HasBot(t),
         \A u \in Threads : u # t => pc'[u] = pc[u] /\ calling'[u] = calling[u],
         ~Connected(t)' => joins' = <<>> /\ roomName' = NoRoom,
         pc'[t] = "connect" => magicRoomID' = NoRoom,
         Connected(t)' => RoomFacts',
         calling'[t].event = "onBotLogin" =>
            pc'[t] = "loop" /\ loggedIn' /\ roomRequested' /\ "listRooms" \in ToSet(sendQueue')
  PROVE  SessionInv'
<1>1. \A u \in Threads : u # t => ~HasBot(u)
  BY DEF OneHolder
<1>2. NoCall.event = "none"
  BY DEF NoCall
<1>3. \A u \in Threads : u # t =>
        /\ ~Connected(u)' /\ pc'[u] # "connect" /\ calling'[u].event # "onBotLogin"
  BY <1>1, <1>2 DEF HasBot, InSession, Connected
<1>4. QED
  BY <1>3 DEF SessionInv

\* While a thread is not connected no room is joined.
LEMMA NotConnected ==
  ASSUME OneHolder, SessionInv, NEW t \in Threads, HasBot(t), ~Connected(t)
  PROVE  joins = <<>> /\ roomName = NoRoom
BY DEF OneHolder, SessionInv, HasBot, InSession, Connected

LEMMA SessionKept ==
  ASSUME TypeOK, OneHolder, SessionInv, [Next]_vars
  PROVE  SessionInv'
<1>1. /\ ThreadsOK /\ pc \in [Threads -> Labels] /\ calling \in [Threads -> Calls]
      /\ QueuesOK /\ sendQueue \in Seq(Commands)
  BY DEF TypeOK, ThreadsOK, QueuesOK
<1>2. NoCall.event = "none" /\ NoCall.fn = "NULL"
  BY DEF NoCall, NULL
<1>3. ASSUME NEW t \in Threads,
             BotThread(t) \/ PollTimeout(t) \/ ConnectionError(t) \/ Lost(t)
      PROVE  SessionInv'
  <2>1. CASE InitThread(t)
    <3>1. /\ pc[t] = "start" /\ calling[t] = NoCall /\ pc' = [pc EXCEPT ![t] = "connect"]
          /\ magicRoomID' = NoRoom /\ UNCHANGED <<joins, roomName, calling>>
      BY <2>1 DEF InitThread, At, Goto, history
    <3>2. HasBot(t) /\ ~Connected(t)
      BY <3>1 DEF HasBot, InSession, Connected
    <3>3. joins' = <<>> /\ roomName' = NoRoom
      BY <3>1, <3>2, NotConnected
    <3>4. /\ pc'[t] = "connect" /\ \A u \in Threads : u # t => pc'[u] = pc[u]
      BY <1>1, <3>1
    <3>5. ~Connected(t)'
      BY <3>4 DEF Connected
    <3>6. QED
      BY <1>2, <3>1, <3>2, <3>3, <3>4, <3>5, SessionByHolder
  <2>2. CASE Connect(t)
    <3>1. /\ pc[t] = "connect" /\ calling[t] = NoCall
          /\ \E l \in {"loop", "cleanup"} : pc' = [pc EXCEPT ![t] = l]
          /\ \E e \in Events \ {"onBotLogin"} : Dispatch(t, e)
          /\ UNCHANGED <<magicRoomID, joins, roomName>>
      BY <2>2 DEF Connect, At, Goto, history, fields, Events
    <3>2. HasBot(t) /\ ~Connected(t)
      BY <3>1 DEF HasBot, InSession, Connected
    <3>3. joins' = <<>> /\ magicRoomID' = NoRoom
      BY <3>1, <3>2, NotConnected DEF SessionInv
    <3>4. /\ pc'[t] \in {"loop", "cleanup"} /\ \A u \in Threads : u # t => pc'[u] = pc[u]
      BY <1>1, <3>1
    <3>5. /\ calling'[t].event # "onBotLogin"
          /\ \A u \in Threads : u # t => calling'[u] = calling[u]
      BY <1>1, <3>1, OtherEvent
    <3>6. Connected(t)' /\ RoomFacts'
      BY <3>3, <3>4 DEF Connected, RoomFacts
    <3>7. QED
      BY <3>2, <3>4, <3>5, <3>6, SessionByHolder
  <2>3. CASE Poll(t) \/ PollTimeout(t) \/ Lost(t) \/ LeaveLoop(t) \/ OtherAnswered(t)
    <3>1. /\ pc[t] = "loop" /\ calling[t] = NoCall
          /\ pc' = pc \/ pc' = [pc EXCEPT ![t] = "cleanup"]
          /\ UNCHANGED <<calling, magicRoomID, joins, roomName>>
      BY <2>3 DEF Poll, PollTimeout, Lost, LeaveLoop, OtherAnswered, Read, At, Goto, history,
                  fields
    <3>2. HasBot(t) /\ Connected(t)
      BY <3>1 DEF HasBot, InSession, Connected
    <3>3. /\ pc'[t] \in {"loop", "cleanup"} /\ \A u \in Threads : u # t => pc'[u] = pc[u]
      BY <1>1, <3>1
    <3>4. Connected(t)' /\ RoomFacts'
      BY <3>1, <3>2, <3>3 DEF Connected, RoomFacts, SessionInv
    <3>5. QED
      BY <1>2, <3>1, <3>2, <3>3, <3>4, SessionByHolder
  <2>4. CASE ConnectionError(t)
    <3>1. /\ pc[t] = "loop" /\ calling[t] = NoCall /\ pc' = pc
          /\ \E e \in Events \ {"onBotLogin"} : Dispatch(t, e)
          /\ UNCHANGED <<magicRoomID, joins, roomName>>
      BY <2>4 DEF ConnectionError, At, history, fields, Events
    <3>2. HasBot(t) /\ Connected(t)
      BY <3>1 DEF HasBot, InSession, Connected
    <3>3. /\ calling'[t].event # "onBotLogin"
          /\ \A u \in Threads : u # t => calling'[u] = calling[u]
      BY <1>1, <3>1, OtherEvent
    <3>4. Connected(t)' /\ RoomFacts' /\ pc'[t] = "loop"
      BY <3>1, <3>2 DEF Connected, RoomFacts, SessionInv
    <3>5. QED
      BY <3>1, <3>2, <3>3, <3>4, SessionByHolder
  <2>5. CASE Cleanup(t)
    <3>1. /\ pc[t] = "cleanup" /\ calling[t] = NoCall /\ pc' = [pc EXCEPT ![t] = "free"]
          /\ joins' = <<>> /\ roomName' = NoRoom /\ calling' = calling
      BY <2>5 DEF Cleanup, At, Goto
    <3>2. HasBot(t) /\ pc'[t] = "free" /\ \A u \in Threads : u # t => pc'[u] = pc[u]
      BY <1>1, <3>1 DEF HasBot, InSession
    <3>3. ~Connected(t)'
      BY <3>2 DEF Connected
    <3>4. QED
      BY <1>2, <3>1, <3>2, <3>3, SessionByHolder
  <2>6. CASE FreeManager(t)
    <3>1. /\ pc[t] = "free" /\ calling[t] = NoCall /\ pc' = [pc EXCEPT ![t] = "end"]
          /\ Dispatch(t, "onBotDisconnect")
          /\ UNCHANGED <<joins, roomName>>
      BY <2>6 DEF FreeManager, CallOnBotDisconnect, At, Goto, history, fields
    <3>2. HasBot(t) /\ ~Connected(t)
      BY <3>1 DEF HasBot, InSession, Connected
    <3>3. pc'[t] = "end" /\ \A u \in Threads : u # t => pc'[u] = pc[u]
      BY <1>1, <3>1
    <3>4. /\ calling'[t].event # "onBotLogin"
          /\ \A u \in Threads : u # t => calling'[u] = calling[u]
      <4>1. "onBotDisconnect" \in Events
        BY DEF Events
      <4>2. QED
        BY <1>1, <3>1, <4>1, OtherEvent
    <3>5. ~Connected(t)'
      BY <3>3 DEF Connected
    <3>6. joins' = <<>> /\ roomName' = NoRoom
      BY <3>1, <3>2, NotConnected
    <3>7. QED
      BY <3>2, <3>3, <3>4, <3>5, <3>6, SessionByHolder
  <2>7. CASE Identified(t)
    <3>1. /\ pc[t] = "loop" /\ calling[t] = NoCall /\ pc' = pc
          /\ Dispatch(t, "onEventServerIdentifictaion")
          /\ UNCHANGED <<magicRoomID, joins, roomName>>
      BY <2>7 DEF Identified, Read, At, history, fields
    <3>2. HasBot(t) /\ Connected(t) /\ Connected(t)'
      BY <3>1 DEF HasBot, InSession, Connected
    <3>3. /\ calling'[t].event # "onBotLogin"
          /\ \A u \in Threads : u # t => calling'[u] = calling[u]
      <4>1. "onEventServerIdentifictaion" \in Events
        BY DEF Events
      <4>2. QED
        BY <1>1, <3>1, <4>1, OtherEvent
    <3>4. RoomFacts'
      BY <3>1, <3>2 DEF RoomFacts, SessionInv
    <3>5. pc'[t] # "connect"
      BY <3>1
    <3>6. QED
      BY <3>1, <3>2, <3>3, <3>4, <3>5, SessionByHolder
  <2>8. CASE LoginAnswered(t)
    <3>1. /\ pc[t] = "loop" /\ calling[t] = NoCall /\ pc' = pc
          /\ UNCHANGED <<magicRoomID, joins, roomName>>
      BY <2>8 DEF LoginAnswered, Read, At, fields
    <3>2. HasBot(t) /\ Connected(t) /\ Connected(t)'
      BY <3>1 DEF HasBot, InSession, Connected
    <3>3. CASE calling' = calling
      <4>1. RoomFacts' /\ pc'[t] # "connect" /\ calling'[t].event # "onBotLogin"
        BY <1>2, <3>1, <3>2, <3>3 DEF RoomFacts, SessionInv
      <4>2. QED
        BY <3>1, <3>2, <3>3, <4>1, SessionByHolder
    <3>4. CASE /\ Dispatch(t, "onBotLogin") /\ loggedIn' = TRUE /\ roomRequested' = TRUE
               /\ sendQueue' = Append(sendQueue, "listRooms")
      <4>1. "listRooms" \in ToSet(sendQueue')
        BY <1>1, <3>4, AppendSet DEF Commands
      <4>2. "onBotLogin" \in Events
        BY DEF Events
      <4>3. \A u \in Threads : u # t => calling'[u] = calling[u]
        BY <1>1, <3>4, <4>2, DispatchFacts
      <4>4. RoomFacts' /\ pc'[t] = "loop"
        BY <3>1, <3>2 DEF RoomFacts, SessionInv
      <4>5. QED
        BY <3>1, <3>2, <3>4, <4>1, <4>3, <4>4, SessionByHolder
    <3>5. QED
      BY <2>8, <3>3, <3>4 DEF LoginAnswered, AskForRooms
  <2>9. CASE RoomsListed(t)
    <3> DEFINE list == Head(inbox).list
    <3>1. /\ pc[t] = "loop" /\ calling[t] = NoCall /\ pc' = pc
          /\ Dispatch(t, "onEventListRooms") /\ Read(t, "rooms")
      BY <2>9 DEF RoomsListed, Read, At
    <3>2. HasBot(t) /\ Connected(t) /\ Connected(t)'
      BY <3>1 DEF HasBot, InSession, Connected
    <3>3. /\ calling'[t].event # "onBotLogin"
          /\ \A u \in Threads : u # t => calling'[u] = calling[u]
      <4>1. "onEventListRooms" \in Events
        BY DEF Events
      <4>2. QED
        BY <1>1, <3>1, <4>1, OtherEvent
    <3>4. RoomFacts'
      <4>1. CASE ~Joins(list)
        <5>1. UNCHANGED <<magicRoomID, roomName, joins>>
          BY <2>9, <4>1 DEF RoomsListed
        <5>2. QED
          BY <3>2, <5>1 DEF RoomFacts, SessionInv
      <4>2. CASE Joins(list)
        <5>1. magicRoomID = NoRoom /\ RoomFacts
          BY <3>2, <4>2 DEF Joins, SessionInv
        <5>2. joins = <<>>
          BY <5>1 DEF RoomFacts
        <5>3. /\ magicRoomID' = RoomOf(list) /\ roomName' = RoomOf(list)
              /\ joins' = << <<RoomOf(list), list>> >>
          BY <2>9, <4>2, <5>2 DEF RoomsListed
        <5>4. /\ list \in RoomLists /\ RoomOf(list) \in Rooms /\ RoomOf(list) \in ToSet(list)
              /\ ConfigRoom \in ToSet(list) => RoomOf(list) = ConfigRoom
          BY <1>1, <3>1, <4>2, ListFacts
        <5>5. RoomOf(list) # NoRoom
          BY <5>4, SessionAssumption
        <5> HIDE DEF list
        <5>6. QED
          BY <5>3, <5>4, <5>5 DEF RoomFacts
      <4>3. QED
        BY <4>1, <4>2
    <3>5. pc'[t] # "connect"
      BY <3>1
    <3>6. QED
      BY <3>1, <3>2, <3>3, <3>4, <3>5, SessionByHolder
  <2>10. CASE Exit(t)
    <3>1. /\ pc[t] = "end" /\ pc' = [pc EXCEPT ![t] = "exited"]
          /\ UNCHANGED <<calling, fields, history, sendQueue>>
      BY <2>10 DEF Exit, At, Goto, queues
    <3>2. pc'[t] = "exited" /\ calling[t] = NoCall /\ \A u \in Threads : u # t => pc'[u] = pc[u]
      BY <1>1, <2>10, <3>1 DEF Exit, At
    <3>3. /\ UNCHANGED <<magicRoomID, joins, loggedIn, roomRequested, sendQueue>>
          /\ roomName' = roomName
          /\ \A u \in Threads : Connected(u)' <=> Connected(u)
      BY <3>1, <3>2 DEF fields, history, Connected
    <3>4. \A u \in Threads : pc'[u] = "connect" => pc[u] = "connect"
      BY <3>2
    <3>5. \A u \in Threads : calling'[u].event = "onBotLogin" =>
            calling[u].event = "onBotLogin" /\ pc'[u] = pc[u]
      BY <1>2, <3>1, <3>2
    <3>6. QED
      BY <3>3, <3>4, <3>5, SessionUntouched
  <2>11. CASE UserHandler(t)
    <3>1. /\ UNCHANGED <<magicRoomID, joins, loggedIn, roomRequested, sendQueue>>
          /\ UNCHANGED <<pc, roomName>>
          /\ \A u \in Threads : calling'[u] = calling[u] \/ calling'[u] = NoCall
      BY <1>1, <2>11 DEF UserHandler, fields, history, queues
    <3>2. \A u \in Threads : Connected(u)' <=> Connected(u)
      BY <3>1 DEF Connected
    <3>3. \A u \in Threads : calling'[u].event = "onBotLogin" =>
            calling[u].event = "onBotLogin" /\ pc'[u] = pc[u]
      BY <1>2, <3>1
    <3>4. QED
      BY <3>1, <3>2, <3>3, SessionUntouched
  <2>12. CASE BotDisconnect(t)
    <3>1. /\ UNCHANGED <<pc, magicRoomID, joins, loggedIn, roomRequested, sendQueue>>
          /\ calling' = [calling EXCEPT ![t] = [event |-> "onBotDisconnect", fn |-> "startBot"]]
          /\ roomName' = NoRoom /\ calling[t].fn = "botDisconnect"
      BY <2>12 DEF BotDisconnect, StartFields, history, queues
    <3>2. /\ calling'[t].event = "onBotDisconnect"
          /\ \A u \in Threads : u # t => calling'[u] = calling[u]
      BY <1>1, <3>1
    <3>3. HasBot(t) /\ pc[t] = "end"
      BY <1>2, <3>1 DEF HasBot, OneHolder
    <3>4. \A u \in Threads : ~Connected(u) /\ (Connected(u)' <=> Connected(u))
      BY <3>1, <3>3 DEF OneHolder, HasBot, InSession, Connected
    <3>5. QED
      BY <3>1, <3>2, <3>4, SessionUntouched
  <2>13. CASE CreateNext(t)
    <3>1. /\ UNCHANGED <<magicRoomID, joins, loggedIn, roomRequested, sendQueue>>
          /\ roomName' = roomName
          /\ calling' = [calling EXCEPT ![t] = NoCall]
      BY <2>13 DEF CreateNext, fields, history, queues
    <3>2. PICK n \in Threads : pc[n] = "unborn" /\ pc' = [pc EXCEPT ![n] = "start"]
      BY <2>13 DEF CreateNext, NewThread
    <3>3. pc'[n] = "start" /\ \A u \in Threads : u # n => pc'[u] = pc[u]
      BY <1>1, <3>2
    <3>4. \A u \in Threads : Connected(u)' <=> Connected(u)
      BY <3>2, <3>3 DEF Connected
    <3>5. \A u \in Threads : calling'[u].event = "onBotLogin" => calling'[u] = calling[u]
      BY <1>1, <1>2, <3>1
    <3>6. \A u \in Threads : calling[u].event = "onBotLogin" => u # n
      BY <3>2 DEF SessionInv
    <3>7. \A u \in Threads : pc'[u] = "connect" => pc[u] = "connect"
      BY <3>3
    <3>8. \A u \in Threads : calling'[u].event = "onBotLogin" =>
            calling[u].event = "onBotLogin" /\ pc'[u] = pc[u]
      BY <3>3, <3>5, <3>6
    <3>9. QED
      BY <3>1, <3>4, <3>7, <3>8, SessionUntouched
  <2>14. QED
    BY <1>3, <2>1, <2>2, <2>3, <2>4, <2>5, <2>6, <2>7, <2>8, <2>9, <2>10, <2>11, <2>12, <2>13
       DEF BotThread
<1>4. CASE User
  <2>1. CASE Create
    <3>1. /\ UNCHANGED <<magicRoomID, joins, loggedIn, roomRequested, sendQueue>>
          /\ UNCHANGED <<calling, roomName>>
      BY <2>1 DEF Create, fields, history, queues
    <3>2. PICK n \in Threads : pc[n] = "unborn" /\ pc' = [pc EXCEPT ![n] = "start"]
      BY <2>1 DEF Create, NewThread
    <3>3. pc'[n] = "start" /\ \A u \in Threads : u # n => pc'[u] = pc[u]
      BY <1>1, <3>2
    <3>4. \A u \in Threads : Connected(u)' <=> Connected(u)
      BY <3>2, <3>3 DEF Connected
    <3>5. \A u \in Threads : calling[u].event = "onBotLogin" => u # n
      BY <3>2 DEF SessionInv
    <3>6. \A u \in Threads : pc'[u] = "connect" => pc[u] = "connect"
      BY <3>3
    <3>7. \A u \in Threads : calling'[u].event = "onBotLogin" =>
            calling[u].event = "onBotLogin" /\ pc'[u] = pc[u]
      BY <3>1, <3>3, <3>5
    <3>8. QED
      BY <3>1, <3>4, <3>6, <3>7, SessionUntouched
  <2>2. CASE Start
    <3>1. /\ UNCHANGED <<pc, calling, magicRoomID, joins, loggedIn, roomRequested, sendQueue>>
          /\ roomName' = NoRoom /\ user = "new"
      BY <2>2 DEF Start, StartFields, history, queues
    <3>2. \A u \in Threads : ~Connected(u) /\ (Connected(u)' <=> Connected(u))
      BY <3>1 DEF OneHolder, HasBot, InSession, Connected
    <3>3. QED
      BY <3>1, <3>2 DEF SessionInv, RoomFacts
  <2>3. CASE Stop \/ Join \/ Joined \/ Free \/ StopToFree
            \/ \E e \in Watched : \E fn \in Handlers(e) : SetHandler(e, fn)
    <3>1. /\ UNCHANGED <<magicRoomID, joins, loggedIn, roomRequested, sendQueue>>
          /\ UNCHANGED <<pc, calling, roomName>>
      BY <2>3 DEF Stop, Join, Joined, Free, StopToFree, SetHandler, fields, history, queues
    <3>2. QED
      BY <3>1 DEF SessionInv, RoomFacts, Connected
  <2>4. QED
    BY <1>4, <2>1, <2>2, <2>3 DEF User
<1>5. CASE Answer \/ Update \/ UNCHANGED vars
  <2>1. /\ UNCHANGED <<magicRoomID, joins, loggedIn, roomRequested, sendQueue>>
        /\ UNCHANGED <<pc, calling, roomName>>
    BY <1>5 DEF Answer, Update, vars, fields, history, queues
  <2>2. QED
    BY <2>1 DEF SessionInv, RoomFacts, Connected
<1>6. QED
  BY <1>3, <1>4, <1>5 DEF Next

LEMMA SessionHolds == Spec => []SessionInv
<1>1. Init => SessionInv
  BY DEF Init, SessionInv, RoomFacts, Connected, NoCall
<1>2. TypeOK /\ OneHolder /\ SessionInv /\ [Next]_vars => SessionInv'
  BY SessionKept
<1>3. QED
  BY <1>1, <1>2, TypeOKHolds, OneHolderHolds, PTL DEF Spec

\* Whatever lists of rooms the server sends and however often, at most one room is
\* joined on a connection, the configured one when the list has it, and a bot that
\* was started again does not take itself to be in the room of its last connection.
THEOREM RoomJoinedOnceHolds == Spec => []RoomJoinedOnce
<1>1. SessionInv => RoomJoinedOnce
  BY DEF SessionInv, RoomFacts, Connected, RoomJoinedOnce
<1>2. QED
  BY <1>1, SessionHolds, PTL

\* onBotLogin is called with the list of rooms asked for, and onBotDisconnect when
\* the session is gone, however the user changes the handlers meanwhile.
THEOREM HandlersCalledAfterHolds == Spec => []HandlersCalledAfter
<1>1. TypeOK /\ OneHolder /\ SessionInv => HandlersCalledAfter
  <2> SUFFICES ASSUME OneHolder, SessionInv, NEW t \in Threads
               PROVE  /\ calling[t].event = "onBotLogin" =>
                           loggedIn /\ "listRooms" \in ToSet(sendQueue) /\ roomRequested
                      /\ calling[t].event = "onBotDisconnect" => roomName = NoRoom /\ joins = <<>>
    BY DEF HandlersCalledAfter
  <2>1. NoCall.event = "none"
    BY DEF NoCall
  <2>2. calling[t].event = "onBotDisconnect" => HasBot(t) /\ ~Connected(t)
    BY <2>1 DEF OneHolder, HasBot, Connected
  <2>3. QED
    BY <2>2, NotConnected DEF SessionInv
<1>2. QED
  BY <1>1, TypeOKHolds, OneHolderHolds, SessionHolds, PTL
=============================================================================
