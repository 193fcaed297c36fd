------------------------ MODULE CommandPipelineProofs ------------------------
(***************************************************************************)
(* Proofs about CommandPipeline, for every set of clients, every timeout,  *)
(* ping period, ID modulus and rate limit, and every bound.                *)
(***************************************************************************)
EXTENDS CommandPipeline, QueueLemmas

USE ThreadAssumption, TimeAssumption, BoundAssumption

-----------------------------------------------------------------------------
\* A command prepared now is a command.
LEMMA NewCommandType ==
  ASSUME TypeOK, NEW kind \in Kinds, NEW name \in Names \cup {NoName}
  PROVE  NewCommand(kind, name) \in Command
BY DEF TypeOK, NewCommand, Command

LEMMA CountType ==
  ASSUME TypeOK, CountCommand
  PROVE  cmdID' \in 0..ID_MODULUS - 1 /\ issued' \in Nat /\ connection' \in Nat
<1>1. cmdID + 1 \in Nat /\ ID_MODULUS \in Nat \ {0}
  BY DEF TypeOK
<1>2. (cmdID + 1) % ID_MODULUS \in 0..ID_MODULUS - 1
  BY <1>1
<1>3. QED  BY <1>2 DEF TypeOK, CountCommand

LEMMA EndType ==
  ASSUME TypeOK, NEW cmd \in Command, NEW by \in Command, NEW outcome \in Outcomes,
         End(cmd, outcome, by)
  PROVE  finished' \subseteq Ending
BY DEF TypeOK, End, Ending

\* The queues hold commands, and so do the sets that are read from them.
LEMMA QueueType ==
  ASSUME TypeOK
  PROVE  /\ ToSet(sendQueue) \subseteq Command
         /\ Pending \subseteq Command
         /\ Ended \subseteq Command
         /\ \A t \in Threads : held[t] \subseteq Command
         /\ \A i \in DOMAIN callbackQueue : callbackQueue[i] \in Command
<1>1. \A i \in DOMAIN callbackQueue : callbackQueue[i] \in Command
  BY LenProperties, ElementOfSeq DEF TypeOK
<1>2. \A i \in DOMAIN sendQueue : sendQueue[i] \in Command
  BY LenProperties, ElementOfSeq DEF TypeOK
<1>3. QED  BY <1>1, <1>2 DEF TypeOK, ToSet, Pending, Ended, Ending

\* A set of dropped commands.
LEMMA EndAllType ==
  ASSUME TypeOK, NEW S \in SUBSET Command, NEW outcome \in Outcomes, EndAll(S, outcome)
  PROVE  finished' \subseteq Ending
BY DEF TypeOK, EndAll, Ending

\* Every variable keeps its type, whatever the bounds.
THEOREM PipelineTypes == Safety => []TypeOK
<1>1. Init => TypeOK
  <2> SUFFICES ASSUME Init  PROVE TypeOK
    OBVIOUS
  <2>1. <<>> \in Seq(Command)
    BY EmptySeq
  <2>2. 0 \in 0..ID_MODULUS - 1
    BY DEF Init
  <2>3. held \in [Threads -> SUBSET Command] /\ budget \in Nat
    BY DEF Init
  <2>4. now \in Nat /\ maxMessagesPerSecond \in Nat
    BY DEF Init
  <2>5. QED  BY <2>1, <2>2, <2>3, <2>4 DEF Init, TypeOK, BotPc
<1>2. TypeOK /\ [Next]_vars => TypeOK'
  <2> SUFFICES ASSUME TypeOK, [Next]_vars  PROVE TypeOK'
    OBVIOUS
  <2> USE DEF TypeOK
  <2>1. ASSUME NEW t \in Clients, Prepare(t)  PROVE TypeOK'
    <3>1. PICK kind \in {"plain", "game"} :
            held' = [held EXCEPT ![t] =
              {NewCommand(kind, IF kind = "game" THEN GameName[t] ELSE NoName)}]
      BY <2>1 DEF Prepare
    <3>2. NewCommand(kind, IF kind = "game" THEN GameName[t] ELSE NoName) \in Command
      BY NewCommandType DEF Kinds
    <3>3. held' \in [Threads -> SUBSET Command]
      BY <3>1, <3>2 DEF Threads
    <3>4. budget' \in Nat
      BY <2>1 DEF Prepare, Threads
    <3>5. QED  BY <2>1, <3>3, <3>4, CountType DEF Prepare, clock, queues, limiter
  <2>2. ASSUME NEW t \in Clients, Enqueue(t)  PROVE TypeOK'
    <3>1. PICK cmd \in held[t] : sendQueue' = Append(sendQueue, cmd)
      BY <2>2 DEF Enqueue
    <3>2. cmd \in Command
      BY <3>1 DEF Threads
    <3>3. sendQueue' \in Seq(Command)
      BY <3>1, <3>2, AppendSet
    <3>4. held' \in [Threads -> SUBSET Command]
      BY <2>2 DEF Enqueue
    <3>5. QED  BY <2>2, <3>3, <3>4 DEF Enqueue, clock, numbers, limiter
  <2>3. CASE PollRooms
    <3>1. NewCommand("rooms", NoName) \in Command
      BY NewCommandType DEF Kinds
    <3>2. held' \in [Threads -> SUBSET Command]
      BY <2>3, <3>1 DEF PollRooms, Threads
    <3>3. cmdID' \in 0..ID_MODULUS - 1 /\ issued' \in Nat /\ connection' \in Nat
      BY <2>3, CountType DEF PollRooms, numbers
    <3>4. QED  BY <2>3, <3>2, <3>3 DEF PollRooms, clock, queues, limiter, BotPc
  <2>4. CASE BotEnqueue
    <3>1. PICK cmd \in held[BotThread] : sendQueue' = Append(sendQueue, cmd)
      BY <2>4 DEF BotEnqueue
    <3>2. cmd \in Command
      BY <3>1 DEF Threads
    <3>3. sendQueue' \in Seq(Command)
      BY <3>1, <3>2, AppendSet
    <3>4. held' \in [Threads -> SUBSET Command]
      BY <2>4 DEF BotEnqueue
    <3>5. botPc' \in BotPc
      BY <2>4 DEF BotEnqueue, BotPc
    <3>6. QED  BY <2>4, <3>3, <3>4, <3>5 DEF BotEnqueue, clock, numbers, limiter
  <2>5. CASE PollGames
    <3>1. NewCommand("plain", NoName) \in Command
      BY NewCommandType DEF Kinds
    <3>2. held' \in [Threads -> SUBSET Command]
      <4>1. CASE held' = held
        BY <4>1
      <4>2. CASE held' = [held EXCEPT ![BotThread] = {NewCommand("plain", NoName)}]
        BY <3>1, <4>2 DEF Threads
      <4>3. QED  BY <2>5, <4>1, <4>2 DEF PollGames
    <3>a. budget' \in Nat
      BY <2>5 DEF PollGames, Threads
    <3>3. cmdID' \in 0..ID_MODULUS - 1 /\ issued' \in Nat /\ connection' \in Nat
      BY <2>5, CountType DEF PollGames, numbers
    <3>4. QED  BY <2>5, <3>2, <3>a, <3>3 DEF PollGames, queues, limiter, BotPc
  <2>6. CASE PollSend
    <3>1. sendQueue # <<>> =>
            /\ Head(sendQueue) \in Command
            /\ Tail(sendQueue) \in Seq(Command)
            /\ Append(callbackQueue, Head(sendQueue)) \in Seq(Command)
      BY TailSet, AppendSet
    <3>2. sendQueue' \in Seq(Command) /\ callbackQueue' \in Seq(Command)
      BY <2>6, <3>1 DEF PollSend, queues
    <3>3. server' \subseteq ServerMessage
      <4>1. CASE server' = server
        BY <4>1
      <4>2. CASE /\ sendQueue # <<>>
                 /\ server' = server \cup
                      [type: {"response"} \cup (IF Head(sendQueue).kind = "game"
                                                THEN {"joined"} ELSE {}),
                       cmd: {Head(sendQueue)}]
        BY <3>1, <4>2 DEF ServerMessage
      <4>3. QED  BY <2>6, <4>1, <4>2 DEF PollSend
    <3>4. maxMessagesPerSecond' \in Nat /\ sentThisSecond' \in Nat
      <4>1. \/ UNCHANGED sentThisSecond /\ maxMessagesPerSecond' \in {0, maxMessagesPerSecond}
            \/ /\ sentThisSecond' = sentThisSecond + 1
               /\ maxMessagesPerSecond' \in {1, maxMessagesPerSecond + 1}
        BY <2>6 DEF PollSend
      <4>2. QED  BY <4>1
    <3>5. QED  BY <2>6, <3>2, <3>3, <3>4 DEF PollSend, numbers, BotPc
  <2>7. CASE PollTimeout
    <3>1. callbackQueue # <<>> =>
            /\ Head(callbackQueue) \in Command
            /\ Tail(callbackQueue) \in Seq(Command)
            /\ Rotate(callbackQueue) \in Seq(Command)
      BY TailSet, AppendSet DEF Rotate
    <3>2. callbackQueue' \in Seq(Command)
      BY <2>7, <3>1 DEF PollTimeout
    <3>3. finished' \subseteq Ending
      BY <2>7, <3>1, EndType DEF PollTimeout, Execute, Outcomes
    <3>4. lastPingTime' \in Nat
      BY <2>7 DEF PollTimeout, Execute
    <3>5. QED  BY <2>7, <3>2, <3>3, <3>4 DEF PollTimeout, numbers, limiter, BotPc
  <2>8. CASE PollPing
    <3>1. NewCommand("ping", NoName) \in Command
      BY NewCommandType DEF Kinds
    <3>2. sendQueue' \in Seq(Command)
      <4>1. Append(sendQueue, NewCommand("ping", NoName)) \in Seq(Command)
        BY <3>1, AppendSet
      <4>2. QED  BY <2>8, <4>1 DEF PollPing
    <3>3. cmdID' \in 0..ID_MODULUS - 1 /\ issued' \in Nat /\ connection' \in Nat
      BY <2>8, CountType DEF PollPing, numbers
    <3>4. QED  BY <2>8, <3>2, <3>3 DEF PollPing, limiter, BotPc
  <2>9. ASSUME NEW m \in server, HandleResponse(m)  PROVE TypeOK'
    <3>1. m.cmd \in Command
      BY DEF ServerMessage
    <3>2. \A i \in DOMAIN callbackQueue :
            /\ callbackQueue[i] \in Command
            /\ RemoveAt(callbackQueue, i) \in Seq(Command)
            /\ Append(RemoveAt(callbackQueue, i), callbackQueue[i]) \in Seq(Command)
      BY QueueType, RemoveAtFacts, AppendSet
    <3>3. callbackQueue' \in Seq(Command)
      BY <2>9, <3>2 DEF HandleResponse, IsFirst
    <3>4. finished' \subseteq Ending /\ lastPingTime' \in Nat
      BY <2>9, <3>1, <3>2, EndType DEF HandleResponse, Execute, Outcomes, IsFirst
    <3>5. QED  BY <2>9, <3>3, <3>4 DEF HandleResponse, numbers, limiter
  <2>10. ASSUME NEW m \in server, HandleGameJoined(m)  PROVE TypeOK'
    <3>1. m.cmd \in Command
      BY DEF ServerMessage
    <3>2. \A i \in DOMAIN callbackQueue :
            /\ callbackQueue[i] \in Command
            /\ RemoveAt(callbackQueue, i) \in Seq(Command)
      BY QueueType, RemoveAtFacts
    <3>3. callbackQueue' \in Seq(Command)
      BY <2>10, <3>2 DEF HandleGameJoined, IsFirst
    <3>4. finished' \subseteq Ending
      BY <2>10, <3>1, <3>2, EndType DEF HandleGameJoined, Outcomes, IsFirst
    <3>5. QED  BY <2>10, <3>3, <3>4 DEF HandleGameJoined, numbers, limiter, clock
  <2>11. CASE HandleEvent
    <3>1. NewCommand("plain", NoName) \in Command
      BY NewCommandType DEF Kinds
    <3>2. held' \in [Threads -> SUBSET Command]
      BY <2>11, <3>1 DEF HandleEvent, Threads
    <3>a. budget' \in Nat
      BY <2>11 DEF HandleEvent, Threads
    <3>3. cmdID' \in 0..ID_MODULUS - 1 /\ issued' \in Nat /\ connection' \in Nat
      BY <2>11, CountType DEF HandleEvent
    <3>4. QED  BY <2>11, <3>2, <3>a, <3>3 DEF HandleEvent, queues, limiter, clock, BotPc
  <2>12. CASE ConnectionLost
    BY <2>12 DEF ConnectionLost, clock, numbers, queues, limiter, BotPc
  <2>13. CASE FreeQueues
    <3>1. finished' \subseteq Ending
      BY <2>13, QueueType, EndAllType DEF FreeQueues, Outcomes, Pending
    <3>2. sendQueue' \in Seq(Command) /\ callbackQueue' \in Seq(Command)
      BY <2>13, EmptySeq DEF FreeQueues
    <3>3. QED  BY <2>13, <3>1, <3>2 DEF FreeQueues, clock, numbers, limiter, BotPc
  <2>14. CASE ResetQueues
    <3>1. finished' \subseteq Ending
      BY <2>14, QueueType, EndAllType DEF ResetQueues, Outcomes
    <3>2. sendQueue' \in Seq(Command)
      BY <2>14, EmptySeq DEF ResetQueues
    <3>3. QED  BY <2>14, <3>1, <3>2 DEF ResetQueues, clock, numbers, limiter, BotPc
  <2>15. CASE InitThread
    <3>1. finished' \subseteq Ending
      BY <2>15, QueueType, EndAllType DEF InitThread, Outcomes
    <3>2. sendQueue' \in Seq(Command)
      BY <2>15, EmptySeq DEF InitThread
    <3>3. cmdID' \in 0..ID_MODULUS - 1 /\ connection' \in Nat
      BY <2>15 DEF InitThread
    <3>4. QED  BY <2>15, <3>1, <3>2, <3>3 DEF InitThread, clock, limiter, BotPc
  <2>16. CASE Tick
    <3>1. now' \in Nat /\ sentThisSecond' = 0
      BY <2>16 DEF Tick
    <3>2. QED  BY <2>16, <3>1 DEF Tick, numbers, queues
  <2>17. CASE UNCHANGED vars
    BY <2>17 DEF vars, clock, numbers, queues, limiter
  <2>18. QED
    BY <2>1, <2>2, <2>3, <2>4, <2>5, <2>6, <2>7, <2>8, <2>9, <2>10, <2>11, <2>12,
       <2>13, <2>14, <2>15, <2>16, <2>17
    DEF Next, Poll, Restart
<1>3. QED  BY <1>1, <1>2, PTL DEF Safety

-----------------------------------------------------------------------------
(***************************************************************************)
(* The places a command can be in are held, sendQueue, callbackQueue and   *)
(* finished.  Every step does one of seven things to them, defined next;   *)
(* StepEffect shows it action by action, and the invariant and the         *)
(* refinement then follow from the seven effects, without sequences.       *)
(***************************************************************************)
Queued == ToSet(sendQueue)
SameNumbers == UNCHANGED <<cmdID, issued, connection>>
NoRepetition == IsInjective(sendQueue)' /\ IsInjective(callbackQueue)'

IsNew(c) ==
  c \in Command /\ c.conn = connection /\ c.seqNo = issued /\ c.cmdID = cmdID

IssueHeld(t, c) ==
  /\ IsNew(c) /\ CountCommand
  /\ held[t] = {} /\ held' = [held EXCEPT ![t] = {c}]
  /\ Queued' = Queued /\ Pending' = Pending /\ finished' = finished /\ server' = server

IssueQueued(c) ==
  /\ IsNew(c) /\ CountCommand
  /\ held' = held
  /\ Queued' = Queued \cup {c} /\ Pending' = Pending /\ finished' = finished
  /\ server' = server

QueueHeld(t, c) ==
  /\ SameNumbers
  /\ c \in held[t] /\ held' = [held EXCEPT ![t] = {}]
  /\ Queued' = Queued \cup {c} /\ Pending' = Pending /\ finished' = finished
  /\ server' = server

SendQueued(c) ==
  /\ SameNumbers
  /\ held' = held
  /\ c \in Queued /\ Queued' = Queued \ {c} /\ Pending' = Pending \cup {c}
  /\ finished' = finished
  /\ \A m \in server' : m \in server \/ m.cmd = c

EndPending(c, outcome, by) ==
  /\ SameNumbers
  /\ held' = held /\ Queued' = Queued
  /\ c \in Pending /\ Pending' = Pending \ {c}
  /\ outcome \in {"answered", "joined", "timedOut"}
  /\ by \in Known /\ (outcome = "answered" => c.cmdID = by.cmdID)
  /\ End(c, outcome, by)
  /\ server' \subseteq server

DropQueues(outcome) ==
  /\ SameNumbers \/ (cmdID' = 0 /\ issued' = 0 /\ connection' = connection + 1)
  /\ held' = held /\ Queued' = {} /\ Pending' = {}
  /\ outcome \in {"dropped", "leaked"}
  /\ EndAll(Queued \cup Pending, outcome)
  /\ server' \subseteq server

Nothing ==
  /\ SameNumbers
  /\ held' = held /\ Queued' = Queued /\ Pending' = Pending /\ finished' = finished
  /\ server' \subseteq server

Effect ==
  \/ \E t \in Threads, c \in Command : IssueHeld(t, c) \/ QueueHeld(t, c)
  \/ \E c \in Command : IssueQueued(c) \/ SendQueued(c)
  \/ \E c, by \in Command, outcome \in Outcomes : EndPending(c, outcome, by)
  \/ \E outcome \in Outcomes : DropQueues(outcome)
  \/ Nothing

-----------------------------------------------------------------------------
\* Where a known command can be, now and after a step.
LEMMA KnownMember ==
  ASSUME NEW c
  PROVE  /\ c \in Known <=> \/ \E t \in Threads : c \in held[t]
                           \/ c \in Queued \/ c \in Pending \/ c \in Ended
         /\ c \in Known' <=> \/ \E t \in Threads : c \in held'[t]
                            \/ c \in Queued' \/ c \in Pending' \/ c \in Ended'
         /\ c \in Ended <=> \E f \in finished : f.cmd = c
         /\ c \in Ended' <=> \E f \in finished' : f.cmd = c
<1>1. c \in Known <=> \/ \E t \in Threads : c \in held[t]
                     \/ c \in Queued \/ c \in Pending \/ c \in Ended
  BY Zenon DEF Known, Waiting, Queued
<1>2. c \in Known' <=> \/ \E t \in Threads : c \in held'[t]
                      \/ c \in Queued' \/ c \in Pending' \/ c \in Ended'
  BY Zenon DEF Known, Waiting, Queued
<1>3. c \in Ended <=> \E f \in finished : f.cmd = c
  BY Zenon DEF Ended
<1>4. c \in Ended' <=> \E f \in finished' : f.cmd = c
  BY Zenon DEF Ended
<1>5. QED  BY <1>1, <1>2, <1>3, <1>4

\* What a command that ends, or a set of them, adds to Ended.
LEMMA EndedGrows ==
  ASSUME NEW outcome
  PROVE  /\ \A c, by : End(c, outcome, by) => Ended' = Ended \cup {c}
         /\ \A S : EndAll(S, outcome) => Ended' = Ended \cup S
         /\ finished' = finished => Ended' = Ended
<1>1. ASSUME NEW c, NEW by, End(c, outcome, by)  PROVE Ended' = Ended \cup {c}
  <2> DEFINE e == [cmd |-> c, outcome |-> outcome, by |-> by]
  <2>1. e.cmd = c
    OBVIOUS
  <2> HIDE DEF e
  <2>2. finished' = finished \cup {e}
    BY <1>1 DEF End, e
  <2>3. QED  BY <2>1, <2>2, Zenon DEF Ended
<1>2. ASSUME NEW S, EndAll(S, outcome)  PROVE Ended' = Ended \cup S
  <2> DEFINE e(c) == [cmd |-> c, outcome |-> outcome, by |-> c]
  <2>1. \A c : e(c).cmd = c
    OBVIOUS
  <2>2. finished' = finished \cup {e(c) : c \in S}
    BY <1>2 DEF EndAll
  <2> HIDE DEF e
  <2>3. ASSUME NEW x  PROVE x \in Ended' <=> x \in Ended \cup S
    <3>1. \A f : f \in finished' <=> f \in finished \/ \E c \in S : f = e(c)
      BY <2>2, Zenon
    <3>2. x \in Ended' <=> \E f \in finished' : f.cmd = x
      BY KnownMember
    <3>3. x \in Ended <=> \E f \in finished : f.cmd = x
      BY KnownMember
    <3>4. QED  BY <2>1, <3>1, <3>2, <3>3, Zenon
  <2>4. QED  BY <2>3
<1>3. QED  BY <1>1, <1>2 DEF Ended

\* A prepared command has the next number and ID, and is in no place yet.
LEMMA NewCommandIsNew ==
  ASSUME TypeOK, Fresh, NEW kind \in Kinds, NEW name \in Names \cup {NoName}
  PROVE  /\ IsNew(NewCommand(kind, name))
         /\ NewCommand(kind, name) \notin Known
<1>1. NewCommand(kind, name) \in Command
  BY NewCommandType
<1>2. IsNew(NewCommand(kind, name))
  BY <1>1 DEF IsNew, NewCommand
<1>3. NewCommand(kind, name) \notin Known
  BY DEF TypeOK, Fresh, NewCommand
<1>4. QED  BY <1>2, <1>3

LEMMA StepEffect ==
  ASSUME IInv, [Next]_vars
  PROVE  Effect /\ NoRepetition
<1> USE DEF IInv
<1>q. /\ IsInjective(sendQueue) /\ IsInjective(callbackQueue)
      /\ sendQueue \in Seq(Command) /\ callbackQueue \in Seq(Command)
  BY DEF NoCommandTwice, TypeOK
<1>e. ToSet(<<>>) = {} /\ IsInjective(<<>>)
  BY DEF ToSet, IsInjective
<1>1. ASSUME NEW t \in Clients, Prepare(t)  PROVE Effect /\ NoRepetition
  <2>1. PICK kind \in {"plain", "game"} :
          held' = [held EXCEPT ![t] =
            {NewCommand(kind, IF kind = "game" THEN GameName[t] ELSE NoName)}]
    BY <1>1 DEF Prepare
  <2> DEFINE c == NewCommand(kind, IF kind = "game" THEN GameName[t] ELSE NoName)
  <2>2. IsNew(c)
    BY NewCommandIsNew DEF Kinds
  <2>3. /\ UNCHANGED <<sendQueue, callbackQueue, finished, server>>
        /\ CountCommand /\ held[t] = {}
    BY <1>1 DEF Prepare, queues
  <2>4. IssueHeld(t, c) /\ c \in Command /\ t \in Threads
    BY <2>1, <2>2, <2>3 DEF IssueHeld, Queued, Pending, IsNew, Threads
  <2>5. QED  BY <1>q, <2>3, <2>4 DEF Effect, NoRepetition
<1>2. ASSUME NEW t \in Clients, Enqueue(t)  PROVE Effect /\ NoRepetition
  <2>1. PICK c \in held[t] : /\ sendQueue' = Append(sendQueue, c)
                             /\ held' = [held EXCEPT ![t] = {}]
    BY <1>2 DEF Enqueue
  <2>2. t \in Threads /\ c \in Command /\ c \notin Queued
    BY <2>1 DEF Threads, TypeOK, NoCommandTwice, Queued
  <2>3. UNCHANGED <<cmdID, issued, connection, callbackQueue, finished, server>>
    BY <1>2 DEF Enqueue, numbers
  <2>4. ToSet(sendQueue') = Queued \cup {c} /\ IsInjective(sendQueue')
    BY <1>q, <2>1, <2>2, AppendSet DEF Queued
  <2>5. QueueHeld(t, c)
    BY <2>1, <2>3, <2>4 DEF QueueHeld, SameNumbers, Queued, Pending
  <2>6. QED  BY <1>q, <2>2, <2>3, <2>4, <2>5 DEF Effect, NoRepetition
<1>3. CASE PollRooms
  <2>1. UNCHANGED <<sendQueue, callbackQueue, finished, server>>
    BY <1>3 DEF PollRooms, queues
  <2>2. CASE roomRequested
    BY <1>q, <1>3, <2>1, <2>2
    DEF PollRooms, numbers, Effect, Nothing, SameNumbers, Queued, Pending, NoRepetition
  <2>3. CASE ~roomRequested
    <3> DEFINE c == NewCommand("rooms", NoName)
    <3>1. IsNew(c) /\ c \in Command
      BY NewCommandIsNew DEF Kinds, IsNew
    <3>2. CountCommand /\ held[BotThread] = {} /\ held' = [held EXCEPT ![BotThread] = {c}]
      BY <1>3, <2>3 DEF PollRooms, HeldOnce
    <3>3. IssueHeld(BotThread, c)
      BY <2>1, <3>1, <3>2 DEF IssueHeld, Queued, Pending
    <3>4. QED  BY <1>q, <2>1, <3>1, <3>3 DEF Effect, NoRepetition, Threads
  <2>4. QED  BY <2>2, <2>3
<1>4. CASE BotEnqueue
  <2>1. PICK c \in held[BotThread] : /\ sendQueue' = Append(sendQueue, c)
                                     /\ held' = [held EXCEPT ![BotThread] = {}]
    BY <1>4 DEF BotEnqueue
  <2>2. BotThread \in Threads /\ c \in Command /\ c \notin Queued
    BY <2>1 DEF Threads, TypeOK, NoCommandTwice, Queued
  <2>3. UNCHANGED <<cmdID, issued, connection, callbackQueue, finished, server>>
    BY <1>4 DEF BotEnqueue, numbers
  <2>4. ToSet(sendQueue') = Queued \cup {c} /\ IsInjective(sendQueue')
    BY <1>q, <2>1, <2>2, AppendSet DEF Queued
  <2>5. QueueHeld(BotThread, c)
    BY <2>1, <2>3, <2>4 DEF QueueHeld, SameNumbers, Queued, Pending
  <2>6. QED  BY <1>q, <2>2, <2>3, <2>4, <2>5 DEF Effect, NoRepetition
<1>5. CASE PollGames
  <2>1. UNCHANGED <<sendQueue, callbackQueue, finished, server>>
    BY <1>5 DEF PollGames, queues
  <2>2. CASE UNCHANGED <<numbers, held>>
    BY <1>q, <2>1, <2>2
    DEF numbers, Effect, Nothing, SameNumbers, Queued, Pending, NoRepetition
  <2>3. CASE /\ CountCommand
             /\ held' = [held EXCEPT ![BotThread] = {NewCommand("plain", NoName)}]
    <3> DEFINE c == NewCommand("plain", NoName)
    <3>1. IsNew(c) /\ c \in Command
      BY NewCommandIsNew DEF Kinds, IsNew
    <3>2. held[BotThread] = {}
      BY <1>5 DEF PollGames, HeldOnce
    <3>3. IssueHeld(BotThread, c)
      BY <2>1, <2>3, <3>1, <3>2 DEF IssueHeld, Queued, Pending
    <3>4. QED  BY <1>q, <2>1, <3>1, <3>3 DEF Effect, NoRepetition, Threads
  <2>4. QED  BY <1>5, <2>2, <2>3 DEF PollGames
<1>6. CASE PollSend
  <2>1. UNCHANGED <<cmdID, issued, connection, held, finished>>
    BY <1>6 DEF PollSend, numbers
  <2>2. CASE UNCHANGED <<queues, server>>
    BY <1>q, <2>1, <2>2
    DEF queues, Effect, Nothing, SameNumbers, Queued, Pending, NoRepetition
  <2>3. CASE /\ sendQueue # <<>>
             /\ sendQueue' = Tail(sendQueue)
             /\ callbackQueue' = Append(callbackQueue, Head(sendQueue))
             /\ server' = server \cup
                  [type: {"response"} \cup (IF Head(sendQueue).kind = "game"
                                            THEN {"joined"} ELSE {}),
                   cmd: {Head(sendQueue)}]
    <3> DEFINE c == Head(sendQueue)
    <3>1. /\ c \in Command /\ c \in Queued
          /\ Queued' = Queued \ {c} /\ IsInjective(sendQueue')
      BY <1>q, <2>3, TailSet DEF Queued
    <3>2. c \notin Pending
      BY <3>1 DEF NoCommandTwice, Queued
    <3>3. Pending' = Pending \cup {c} /\ IsInjective(callbackQueue')
      BY <1>q, <2>3, <3>1, <3>2, AppendSet DEF Pending
    <3>4. \A m \in server' : m \in server \/ m.cmd = c
      BY <2>3
    <3>5. SendQueued(c)
      BY <2>1, <3>1, <3>3, <3>4 DEF SendQueued, SameNumbers
    <3>6. QED  BY <3>1, <3>3, <3>5 DEF Effect, NoRepetition
  <2>4. QED  BY <1>6, <2>2, <2>3 DEF PollSend
<1>7. CASE PollTimeout
  <2>1. UNCHANGED <<cmdID, issued, connection, held, sendQueue, server>>
    BY <1>7 DEF PollTimeout, numbers
  <2>2. CASE UNCHANGED <<callbackQueue, finished>>
    BY <1>q, <2>1, <2>2
    DEF Effect, Nothing, SameNumbers, Queued, Pending, NoRepetition
  <2>3. CASE callbackQueue # <<>>
    <3> DEFINE c == Head(callbackQueue)
    <3>1. /\ c \in Command /\ c \in Pending /\ c \notin ToSet(Tail(callbackQueue))
          /\ Tail(callbackQueue) \in Seq(Command)
          /\ ToSet(Tail(callbackQueue)) = Pending \ {c}
          /\ IsInjective(Tail(callbackQueue))
      BY <1>q, <2>3, TailSet DEF Pending
    <3>2. CASE callbackQueue' = Tail(callbackQueue) /\ Execute(c, "timedOut", c)
      <4>1. EndPending(c, "timedOut", c)
        BY <2>1, <3>1, <3>2
        DEF EndPending, SameNumbers, Execute, Queued, Pending, Known
      <4>2. QED  BY <1>q, <2>1, <3>1, <3>2, <4>1 DEF Effect, NoRepetition, Outcomes
    <3>3. CASE callbackQueue' = Rotate(callbackQueue) /\ UNCHANGED finished
      <4>1. Pending' = (Pending \ {c}) \cup {c} /\ IsInjective(callbackQueue')
        BY <3>1, <3>3, AppendSet DEF Pending, Rotate
      <4>2. Nothing
        BY <2>1, <3>1, <3>3, <4>1 DEF Nothing, SameNumbers, Queued
      <4>3. QED  BY <1>q, <2>1, <4>1, <4>2 DEF Effect, NoRepetition
    <3>4. QED  BY <1>7, <2>3, <3>2, <3>3 DEF PollTimeout
  <2>4. QED  BY <1>7, <2>2, <2>3 DEF PollTimeout
<1>8. CASE PollPing
  <2>1. UNCHANGED <<held, callbackQueue, finished, server>>
    BY <1>8 DEF PollPing
  <2>2. CASE UNCHANGED <<sendQueue, numbers>>
    BY <1>q, <2>1, <2>2
    DEF numbers, Effect, Nothing, SameNumbers, Queued, Pending, NoRepetition
  <2>3. CASE /\ sendQueue' = Append(sendQueue, NewCommand("ping", NoName))
             /\ CountCommand
    <3> DEFINE c == NewCommand("ping", NoName)
    <3>a. IsNew(c) /\ c \in Command /\ c \notin Known
      BY NewCommandIsNew DEF Kinds, IsNew
    <3>1. IsNew(c) /\ c \in Command /\ c \notin Queued
      BY <3>a, KnownMember
    <3>2. Queued' = Queued \cup {c} /\ IsInjective(sendQueue')
      BY <1>q, <2>3, <3>1, AppendSet DEF Queued
    <3>3. IssueQueued(c)
      BY <2>1, <2>3, <3>1, <3>2 DEF IssueQueued, Pending
    <3>4. QED  BY <1>q, <2>1, <3>1, <3>2, <3>3 DEF Effect, NoRepetition
  <2>4. QED  BY <1>8, <2>2, <2>3 DEF PollPing
<1>9. ASSUME NEW m \in server, HandleResponse(m)  PROVE Effect /\ NoRepetition
  <2>1. UNCHANGED <<cmdID, issued, connection, held, sendQueue>> /\ server' \subseteq server
    BY <1>9 DEF HandleResponse, numbers
  <2>2. CASE UNCHANGED <<callbackQueue, finished>>
    BY <1>q, <2>1, <2>2
    DEF Effect, Nothing, SameNumbers, Queued, Pending, NoRepetition
  <2>3. ASSUME NEW i \in DOMAIN callbackQueue, callbackQueue[i].cmdID = m.cmd.cmdID,
               \/ /\ callbackQueue' = Append(RemoveAt(callbackQueue, i), callbackQueue[i])
                  /\ UNCHANGED finished
               \/ /\ callbackQueue' = RemoveAt(callbackQueue, i)
                  /\ Execute(callbackQueue[i], "answered", m.cmd)
        PROVE  Effect /\ NoRepetition
    <3> DEFINE c == callbackQueue[i]  rest == RemoveAt(callbackQueue, i)
    <3>1. /\ c \in Command /\ c \in Pending /\ rest \in Seq(Command)
          /\ ToSet(rest) = Pending \ {c} /\ IsInjective(rest)
      BY <1>q, QueueType, RemoveAtFacts, RemoveAtSet DEF Pending, ToSet
    <3>2. m.cmd \in Known /\ m.cmd \in Command
      BY DEF ServerKnown, TypeOK, ServerMessage
    <3>3. CASE callbackQueue' = Append(rest, c) /\ UNCHANGED finished
      <4>1. Pending' = (Pending \ {c}) \cup {c} /\ IsInjective(callbackQueue')
        BY <3>1, <3>3, AppendSet DEF Pending
      <4>2. Nothing
        BY <2>1, <3>1, <3>3, <4>1 DEF Nothing, SameNumbers, Queued
      <4>3. QED  BY <1>q, <2>1, <4>1, <4>2 DEF Effect, NoRepetition
    <3>4. CASE callbackQueue' = rest /\ Execute(c, "answered", m.cmd)
      <4>1. Pending' = Pending \ {c} /\ IsInjective(callbackQueue')
        BY <3>1, <3>4 DEF Pending
      <4>2. EndPending(c, "answered", m.cmd)
        BY <2>1, <2>3, <3>1, <3>2, <3>4, <4>1
        DEF EndPending, SameNumbers, Execute, Queued
      <4>3. QED  BY <1>q, <2>1, <3>1, <3>2, <4>1, <4>2 DEF Effect, NoRepetition, Outcomes
    <3>5. QED  BY <2>3, <3>3, <3>4
  <2>4. QED  BY <1>9, <2>2, <2>3 DEF HandleResponse, IsFirst
<1>10. ASSUME NEW m \in server, HandleGameJoined(m)  PROVE Effect /\ NoRepetition
  <2>1. UNCHANGED <<cmdID, issued, connection, held, sendQueue>> /\ server' \subseteq server
    BY <1>10 DEF HandleGameJoined, numbers
  <2>2. CASE UNCHANGED <<callbackQueue, finished>>
    BY <1>q, <2>1, <2>2
    DEF Effect, Nothing, SameNumbers, Queued, Pending, NoRepetition
  <2>3. ASSUME NEW i \in DOMAIN callbackQueue,
               callbackQueue' = RemoveAt(callbackQueue, i),
               End(callbackQueue[i], "joined", m.cmd)
        PROVE  Effect /\ NoRepetition
    <3> DEFINE c == callbackQueue[i]  rest == RemoveAt(callbackQueue, i)
    <3>1. /\ c \in Command /\ c \in Pending /\ rest \in Seq(Command)
          /\ ToSet(rest) = Pending \ {c} /\ IsInjective(rest)
      BY <1>q, QueueType, RemoveAtFacts, RemoveAtSet DEF Pending, ToSet
    <3>2. m.cmd \in Known /\ m.cmd \in Command
      BY DEF ServerKnown, TypeOK, ServerMessage
    <3>3. Pending' = Pending \ {c} /\ IsInjective(callbackQueue')
      BY <2>3, <3>1 DEF Pending
    <3>4. EndPending(c, "joined", m.cmd)
      BY <2>1, <2>3, <3>1, <3>2, <3>3 DEF EndPending, SameNumbers, Queued
    <3>5. QED  BY <1>q, <2>1, <3>1, <3>2, <3>3, <3>4 DEF Effect, NoRepetition, Outcomes
  <2>4. QED  BY <1>10, <2>2, <2>3 DEF HandleGameJoined, IsFirst
<1>11. CASE HandleEvent
  <2> DEFINE c == NewCommand("plain", NoName)
  <2>1. IsNew(c) /\ c \in Command
    BY NewCommandIsNew DEF Kinds, IsNew
  <2>2. /\ UNCHANGED <<sendQueue, callbackQueue, finished, server>> /\ CountCommand
        /\ held[BotThread] = {} /\ held' = [held EXCEPT ![BotThread] = {c}]
    BY <1>11 DEF HandleEvent, queues, HeldOnce
  <2>3. IssueHeld(BotThread, c)
    BY <2>1, <2>2 DEF IssueHeld, Queued, Pending
  <2>4. QED  BY <1>q, <2>1, <2>2, <2>3 DEF Effect, NoRepetition, Threads
<1>12. CASE ConnectionLost
  BY <1>q, <1>12
  DEF ConnectionLost, numbers, queues, Effect, Nothing, SameNumbers, Queued, Pending,
      NoRepetition
<1>13. CASE FreeQueues
  <2>1. DropQueues("dropped")
    BY <1>e, <1>13 DEF FreeQueues, DropQueues, SameNumbers, numbers, Queued, Pending
  <2>2. NoRepetition
    BY <1>e, <1>13 DEF FreeQueues, NoRepetition
  <2>3. QED  BY <2>1, <2>2 DEF Effect, Outcomes
<1>14. CASE ResetQueues
  <2>1. Pending = {} /\ Pending' = {}
    BY <1>e, <1>14 DEF ResetQueues, PendingWhileConnected, Pending
  <2>2. DropQueues("leaked")
    BY <1>e, <1>14, <2>1 DEF ResetQueues, DropQueues, SameNumbers, numbers, Queued
  <2>3. NoRepetition
    BY <1>q, <1>e, <1>14 DEF ResetQueues, NoRepetition
  <2>4. QED  BY <2>2, <2>3 DEF Effect, Outcomes
<1>15. CASE InitThread
  <2>1. Pending = {} /\ Pending' = {}
    BY <1>e, <1>15 DEF InitThread, PendingWhileConnected, Pending
  <2>2. DropQueues("leaked")
    BY <1>e, <1>15, <2>1 DEF InitThread, DropQueues, Queued
  <2>3. NoRepetition
    BY <1>q, <1>e, <1>15 DEF InitThread, NoRepetition
  <2>4. QED  BY <2>2, <2>3 DEF Effect, Outcomes
<1>16. CASE Tick
  BY <1>q, <1>16
  DEF Tick, numbers, queues, Effect, Nothing, SameNumbers, Queued, Pending, NoRepetition
<1>17. CASE UNCHANGED vars
  BY <1>q, <1>17
  DEF vars, numbers, queues, Effect, Nothing, SameNumbers, Queued, Pending, NoRepetition
<1>18. QED
  BY <1>1, <1>2, <1>3, <1>4, <1>5, <1>6, <1>7, <1>8, <1>9, <1>10, <1>11, <1>12, <1>13,
     <1>14, <1>15, <1>16, <1>17
  DEF Next, Poll, Restart

-----------------------------------------------------------------------------
\* What the effects do to the set of known commands.
LEMMA KnownGrows ==
  ASSUME IInv, [Next]_vars
  PROVE  \/ Known' = Known /\ SameNumbers
         \/ \E c \in Command : Known' = Known \cup {c} /\ IsNew(c) /\ CountCommand
         \/ Known' = Known /\ cmdID' = 0 /\ issued' = 0 /\ connection' = connection + 1
<1>1. Effect
  BY StepEffect
<1>2. held \in [Threads -> SUBSET Command]
  BY DEF IInv, TypeOK
<1>3. ASSUME NEW t \in Threads, NEW c \in Command, IssueHeld(t, c)
      PROVE  Known' = Known \cup {c} /\ IsNew(c) /\ CountCommand
  <2>1. \A u \in Threads : held'[u] = IF u = t THEN {c} ELSE held[u]
    BY <1>2, <1>3 DEF IssueHeld
  <2>2. held[t] = {} /\ Queued' = Queued /\ Pending' = Pending /\ Ended' = Ended
    BY <1>3, EndedGrows DEF IssueHeld
  <2>3. ASSUME NEW x  PROVE x \in Known' <=> x \in Known \cup {c}
    BY <2>1, <2>2, KnownMember
  <2>4. QED  BY <1>3, <2>3 DEF IssueHeld
<1>4. ASSUME NEW t \in Threads, NEW c \in Command, QueueHeld(t, c)
      PROVE  Known' = Known /\ SameNumbers
  <2>1. \A u \in Threads : held'[u] = IF u = t THEN {} ELSE held[u]
    BY <1>2, <1>4 DEF QueueHeld
  <2>2. /\ held[t] = {c} /\ Queued' = Queued \cup {c} /\ Pending' = Pending
        /\ Ended' = Ended
    BY <1>4, EndedGrows DEF QueueHeld, IInv, HeldOnce
  <2>3. ASSUME NEW x  PROVE x \in Known' <=> x \in Known
    BY <2>1, <2>2, KnownMember
  <2>4. QED  BY <1>4, <2>3 DEF QueueHeld
<1>5. ASSUME NEW c \in Command, IssueQueued(c)
      PROVE  Known' = Known \cup {c} /\ IsNew(c) /\ CountCommand
  <2>1. /\ held' = held /\ Queued' = Queued \cup {c} /\ Pending' = Pending
        /\ Ended' = Ended
    BY <1>5, EndedGrows DEF IssueQueued
  <2>2. ASSUME NEW x  PROVE x \in Known' <=> x \in Known \cup {c}
    BY <2>1, KnownMember
  <2>3. QED  BY <1>5, <2>2 DEF IssueQueued
<1>6. ASSUME NEW c \in Command, SendQueued(c)
      PROVE  Known' = Known /\ SameNumbers
  <2>1. /\ held' = held /\ c \in Queued /\ Queued' = Queued \ {c}
        /\ Pending' = Pending \cup {c} /\ Ended' = Ended
    BY <1>6, EndedGrows DEF SendQueued
  <2>2. ASSUME NEW x  PROVE x \in Known' <=> x \in Known
    BY <2>1, KnownMember
  <2>3. QED  BY <1>6, <2>2 DEF SendQueued
<1>7. ASSUME NEW c \in Command, NEW by \in Command, NEW outcome \in Outcomes,
             EndPending(c, outcome, by)
      PROVE  Known' = Known /\ SameNumbers
  <2>1. /\ held' = held /\ Queued' = Queued /\ c \in Pending
        /\ Pending' = Pending \ {c} /\ Ended' = Ended \cup {c}
    BY <1>7, EndedGrows DEF EndPending
  <2>2. ASSUME NEW x  PROVE x \in Known' <=> x \in Known
    BY <2>1, KnownMember
  <2>3. QED  BY <1>7, <2>2 DEF EndPending
<1>8. ASSUME NEW outcome \in Outcomes, DropQueues(outcome)
      PROVE  /\ Known' = Known
             /\ \/ SameNumbers
                \/ cmdID' = 0 /\ issued' = 0 /\ connection' = connection + 1
  <2>1. /\ held' = held /\ Queued' = {} /\ Pending' = {}
        /\ Ended' = Ended \cup (Queued \cup Pending)
    BY <1>8, EndedGrows DEF DropQueues
  <2>2. ASSUME NEW x  PROVE x \in Known' <=> x \in Known
    BY <2>1, KnownMember
  <2>3. QED  BY <1>8, <2>2 DEF DropQueues
<1>9. ASSUME Nothing  PROVE Known' = Known /\ SameNumbers
  <2>1. held' = held /\ Queued' = Queued /\ Pending' = Pending /\ Ended' = Ended
    BY <1>9, EndedGrows DEF Nothing
  <2>2. ASSUME NEW x  PROVE x \in Known' <=> x \in Known
    BY <2>1, KnownMember
  <2>3. QED  BY <1>9, <2>2 DEF Nothing
<1>10. QED
  BY <1>1, <1>3, <1>4, <1>5, <1>6, <1>7, <1>8, <1>9 DEF Effect

\* Commands stay new, known by their number, found, and numbered.
LEMMA KnownInvariants ==
  ASSUME IInv, [Next]_vars, TypeOK'
  PROVE  Fresh' /\ KnownById' /\ NoCommandLost'
<1> USE DEF IInv
<1>0. /\ connection \in Nat /\ issued \in Nat
      /\ \A c \in Known : c.conn < connection \/ (c.conn = connection /\ c.seqNo < issued)
      /\ \A c \in Known : c.conn \in Nat /\ c.seqNo \in Nat
  <2>1. Known \subseteq Command
    BY QueueType, KnownMember DEF Queued
  <2>2. QED  BY <2>1 DEF TypeOK, Fresh, Command
<1>1. CASE Known' = Known /\ SameNumbers
  BY <1>1 DEF Fresh, KnownById, NoCommandLost, SameNumbers
<1>2. ASSUME NEW c \in Command, Known' = Known \cup {c}, IsNew(c), CountCommand
      PROVE  Fresh' /\ KnownById' /\ NoCommandLost'
  <2>1. issued' = issued + 1 /\ connection' = connection
    BY <1>2 DEF CountCommand
  <2>2. c.conn = connection /\ c.seqNo = issued
    BY <1>2 DEF IsNew
  <2>3. Fresh'
    BY <1>0, <1>2, <2>1, <2>2 DEF Fresh
  <2>4. KnownById'
    <3>1. \A d \in Known : Id(d) # Id(c)
      BY <1>0, <2>2 DEF Id
    <3>2. QED  BY <1>2, <3>1 DEF KnownById
  <2>5. NoCommandLost'
    BY <1>0, <1>2, <2>1, <2>2 DEF NoCommandLost
  <2>6. QED  BY <2>3, <2>4, <2>5
<1>3. CASE Known' = Known /\ cmdID' = 0 /\ issued' = 0 /\ connection' = connection + 1
  <2>1. Fresh'
    BY <1>0, <1>3 DEF Fresh
  <2>2. KnownById' /\ NoCommandLost'
    BY <1>3 DEF KnownById, NoCommandLost
  <2>3. QED  BY <2>1, <2>2
<1>4. QED  BY <1>1, <1>2, <1>3, KnownGrows
-----------------------------------------------------------------------------
\* IDs count modulo ID_MODULUS, from zero on each connection.
LEMMA Division ==
  ASSUME NEW a \in Nat
  PROVE  \E q \in Nat, r \in 0..ID_MODULUS - 1 :
           a = (ID_MODULUS * q) + r /\ a % ID_MODULUS = r
<1>1. a = ID_MODULUS * (a \div ID_MODULUS) + (a % ID_MODULUS)
  OBVIOUS
<1>2. a % ID_MODULUS \in 0..ID_MODULUS - 1 /\ a \div ID_MODULUS \in Nat
  OBVIOUS
<1>3. QED  BY <1>1, <1>2

LEMMA Remainder ==
  ASSUME NEW q \in Nat, NEW r \in 0..ID_MODULUS - 1
  PROVE  ((ID_MODULUS * q) + r) % ID_MODULUS = r
BY SMTT(30)

LEMMA NextRemainder ==
  ASSUME NEW a \in Nat
  PROVE  ((a % ID_MODULUS) + 1) % ID_MODULUS = (a + 1) % ID_MODULUS
<1>1. PICK q \in Nat, r \in 0..ID_MODULUS - 1 :
        a = (ID_MODULUS * q) + r /\ a % ID_MODULUS = r
  BY Division
<1>2. CASE r + 1 < ID_MODULUS
  <2>1. r + 1 \in 0..ID_MODULUS - 1 /\ a + 1 = (ID_MODULUS * q) + (r + 1)
    BY <1>1, <1>2
  <2>2. (a + 1) % ID_MODULUS = r + 1
    BY <2>1, Remainder
  <2>3. (r + 1) % ID_MODULUS = r + 1
    BY <2>1
  <2>4. QED  BY <1>1, <2>2, <2>3
<1>3. CASE r + 1 = ID_MODULUS
  <2>1. a + 1 = (ID_MODULUS * (q + 1)) + 0
    BY <1>1, <1>3
  <2>2. 0 \in 0..ID_MODULUS - 1 /\ q + 1 \in Nat
    OBVIOUS
  <2>3. (a + 1) % ID_MODULUS = 0
    BY <2>1, <2>2, Remainder
  <2>4. (r + 1) % ID_MODULUS = 0
    BY <1>3
  <2>5. QED  BY <1>1, <2>3, <2>4
<1>4. QED  BY <1>1, <1>2, <1>3

\* Two numbers less than ID_MODULUS apart with the same ID are the same.
LEMMA SameRemainder ==
  ASSUME NEW a \in Nat, NEW b \in Nat, a % ID_MODULUS = b % ID_MODULUS,
         a - b < ID_MODULUS, b - a < ID_MODULUS
  PROVE  a = b
<1>1. PICK q \in Nat, r \in 0..ID_MODULUS - 1 :
        a = (ID_MODULUS * q) + r /\ a % ID_MODULUS = r
  BY Division
<1>2. PICK k \in Nat : b = (ID_MODULUS * k) + r
  BY <1>1, Division
<1>3. ASSUME NEW x \in Nat, NEW y \in Nat, x < y
      PROVE  (ID_MODULUS * y) - (ID_MODULUS * x) >= ID_MODULUS
  <2>1. PICK d \in Nat : y = x + 1 + d
    BY <1>3
  <2>2. ID_MODULUS * y = (ID_MODULUS * x) + ID_MODULUS + (ID_MODULUS * d)
    BY <2>1
  <2>3. ID_MODULUS * d >= 0 /\ ID_MODULUS * d \in Int /\ ID_MODULUS * x \in Int
    OBVIOUS
  <2>4. QED  BY <2>2, <2>3
<1>4. ID_MODULUS * q \in Int /\ ID_MODULUS * k \in Int
  OBVIOUS
<1>5. ~(q < k) /\ ~(k < q)
  BY <1>1, <1>2, <1>3, <1>4
<1>6. QED  BY <1>1, <1>2, <1>5

-----------------------------------------------------------------------------
\* What is new in server and in finished speaks of known commands.
LEMMA NewEndings ==
  ASSUME IInv, [Next]_vars
  PROVE  /\ \A m \in server' : m \in server \/ m.cmd \in Known
         /\ \A f \in finished' :
              \/ f \in finished
              \/ f.by \in Known /\ (f.outcome = "answered" => f.cmd.cmdID = f.by.cmdID)
<1>1. Effect
  BY StepEffect
<1>2. ASSUME NEW c \in Command, SendQueued(c)
      PROVE  \A m \in server' : m \in server \/ m.cmd \in Known
  BY <1>2, KnownMember DEF SendQueued
<1>3. ASSUME NEW c \in Command, NEW by \in Command, NEW outcome \in Outcomes,
             EndPending(c, outcome, by), NEW f \in finished'
      PROVE  \/ f \in finished
             \/ f.by \in Known /\ (f.outcome = "answered" => f.cmd.cmdID = f.by.cmdID)
  BY <1>3 DEF EndPending, End
<1>4. ASSUME NEW outcome \in Outcomes, DropQueues(outcome), NEW f \in finished'
      PROVE  f \in finished \/ (f.by \in Known /\ f.outcome # "answered")
  <2>1. ASSUME f \notin finished  PROVE f.by \in Known /\ f.outcome # "answered"
    <3>1. PICK c \in Queued \cup Pending :
            f = [cmd |-> c, outcome |-> outcome, by |-> c]
      BY <1>4, <2>1 DEF DropQueues, EndAll
    <3>2. f.by = c /\ f.outcome = outcome
      BY <3>1
    <3>3. QED  BY <1>4, <3>1, <3>2, KnownMember DEF DropQueues
  <2>2. QED  BY <2>1
<1>5. QED
  BY <1>1, <1>2, <1>3, <1>4
  DEF Effect, IssueHeld, IssueQueued, QueueHeld, SendQueued, EndPending, DropQueues, Nothing

LEMMA NumberedKept ==
  ASSUME IInv, [Next]_vars
  PROVE  Numbered' /\ ServerKnown'
<1> USE DEF IInv
<1>1. Known \subseteq Known'
  BY KnownGrows
<1>2. ServerKnown'
  BY <1>1, NewEndings DEF ServerKnown
<1>3. cmdID' = issued' % ID_MODULUS
  <2>1. issued \in Nat /\ cmdID = issued % ID_MODULUS
    BY DEF TypeOK, Numbered
  <2>2. CASE SameNumbers
    BY <2>1, <2>2 DEF SameNumbers
  <2>3. CASE CountCommand
    BY <2>1, <2>3, NextRemainder DEF CountCommand
  <2>4. CASE cmdID' = 0 /\ issued' = 0
    BY <2>4
  <2>5. QED  BY <2>2, <2>3, <2>4, KnownGrows
<1>4. \A c \in Known' : c.cmdID = c.seqNo % ID_MODULUS
  BY KnownGrows DEF Numbered, IsNew
<1>5. \A f \in finished' : f.outcome = "answered" => f.cmd.cmdID = f.by.cmdID
  BY NewEndings DEF Numbered
<1>6. QED  BY <1>2, <1>3, <1>4, <1>5 DEF Numbered

-----------------------------------------------------------------------------
\* NoCommandTwice in terms of the places a command can be in.
LEMMA PlacesDisjoint ==
  /\ NoCommandTwice =>
       /\ \A t, u \in Threads : t # u => held[t] \cap held[u] = {}
       /\ \A t \in Threads : held[t] \cap (Queued \cup Pending \cup Ended) = {}
       /\ Queued \cap (Pending \cup Ended) = {} /\ Pending \cap Ended = {}
       /\ \A f, g \in finished : f.cmd = g.cmd => f = g
  /\ /\ \A t, u \in Threads : t # u => held'[t] \cap held'[u] = {}
     /\ \A t \in Threads : held'[t] \cap (Queued' \cup Pending' \cup Ended') = {}
     /\ Queued' \cap (Pending' \cup Ended') = {} /\ Pending' \cap Ended' = {}
     /\ \A f, g \in finished' : f.cmd = g.cmd => f = g
     /\ NoRepetition
     => NoCommandTwice'
BY DEF NoCommandTwice, Queued, NoRepetition

LEMMA NoCommandTwiceKept ==
  ASSUME IInv, [Next]_vars
  PROVE  NoCommandTwice'
<1> USE DEF IInv
<1> DEFINE Places ==
      /\ \A t, u \in Threads : t # u => held'[t] \cap held'[u] = {}
      /\ \A t \in Threads : held'[t] \cap (Queued' \cup Pending' \cup Ended') = {}
      /\ Queued' \cap (Pending' \cup Ended') = {} /\ Pending' \cap Ended' = {}
      /\ \A f, g \in finished' : f.cmd = g.cmd => f = g
<1>1. Effect /\ NoRepetition
  BY StepEffect
<1>2. /\ held \in [Threads -> SUBSET Command]
      /\ \A t, u \in Threads : t # u => held[t] \cap held[u] = {}
      /\ \A t \in Threads : held[t] \cap (Queued \cup Pending \cup Ended) = {}
      /\ Queued \cap (Pending \cup Ended) = {} /\ Pending \cap Ended = {}
      /\ \A f, g \in finished : f.cmd = g.cmd => f = g
  BY PlacesDisjoint DEF TypeOK
<1>3. ASSUME NEW c, IsNew(c)
      PROVE  (\A t \in Threads : c \notin held[t]) /\ c \notin Queued \cup Pending \cup Ended
  <2>1. c \notin Known
    BY <1>3 DEF IsNew, Fresh, TypeOK
  <2>2. QED  BY <2>1, KnownMember
<1>4. ASSUME NEW t \in Threads, NEW c \in Command, IssueHeld(t, c)  PROVE Places
  <2>1. \A u \in Threads : held'[u] = IF u = t THEN {c} ELSE held[u]
    BY <1>2, <1>4 DEF IssueHeld
  <2>2. /\ Queued' = Queued /\ Pending' = Pending /\ Ended' = Ended
        /\ finished' = finished
    BY <1>4, EndedGrows DEF IssueHeld
  <2>3. (\A u \in Threads : c \notin held[u]) /\ c \notin Queued \cup Pending \cup Ended
    BY <1>3, <1>4 DEF IssueHeld
  <2>4. QED  BY <1>2, <2>1, <2>2, <2>3
<1>5. ASSUME NEW t \in Threads, NEW c \in Command, QueueHeld(t, c)  PROVE Places
  <2>1. \A u \in Threads : held'[u] = IF u = t THEN {} ELSE held[u]
    BY <1>2, <1>5 DEF QueueHeld
  <2>2. /\ Queued' = Queued \cup {c} /\ Pending' = Pending /\ Ended' = Ended
        /\ finished' = finished /\ c \in held[t]
    BY <1>5, EndedGrows DEF QueueHeld
  <2>3. QED  BY <1>2, <2>1, <2>2
<1>6. ASSUME NEW c \in Command, IssueQueued(c)  PROVE Places
  <2>1. /\ Queued' = Queued \cup {c} /\ Pending' = Pending /\ Ended' = Ended
        /\ finished' = finished /\ held' = held
    BY <1>6, EndedGrows DEF IssueQueued
  <2>2. (\A u \in Threads : c \notin held[u]) /\ c \notin Queued \cup Pending \cup Ended
    BY <1>3, <1>6 DEF IssueQueued
  <2>3. QED  BY <1>2, <2>1, <2>2
<1>7. ASSUME NEW c \in Command, SendQueued(c)  PROVE Places
  <2>1. /\ Queued' = Queued \ {c} /\ Pending' = Pending \cup {c} /\ Ended' = Ended
        /\ finished' = finished /\ held' = held /\ c \in Queued
    BY <1>7, EndedGrows DEF SendQueued
  <2>2. QED  BY <1>2, <2>1
<1>8. ASSUME NEW c \in Command, NEW by \in Command, NEW outcome \in Outcomes,
             EndPending(c, outcome, by)
      PROVE  Places
  <2>1. /\ Queued' = Queued /\ Pending' = Pending \ {c} /\ Ended' = Ended \cup {c}
        /\ held' = held /\ c \in Pending
    BY <1>8, EndedGrows DEF EndPending
  <2>2. \A f \in finished : f.cmd # c
    BY <1>2, <2>1, KnownMember
  <2>3. \A f, g \in finished' : f.cmd = g.cmd => f = g
    <3> DEFINE e == [cmd |-> c, outcome |-> outcome, by |-> by]
    <3>1. finished' = finished \cup {e} /\ e.cmd = c
      BY <1>8 DEF EndPending, End
    <3> HIDE DEF e
    <3>2. QED  BY <1>2, <2>2, <3>1
  <2>4. QED  BY <1>2, <2>1, <2>3
<1>9. ASSUME NEW outcome \in Outcomes, DropQueues(outcome)  PROVE Places
  <2>1. /\ Queued' = {} /\ Pending' = {} /\ Ended' = Ended \cup (Queued \cup Pending)
        /\ held' = held
    BY <1>9, EndedGrows DEF DropQueues
  <2>2. \A f \in finished : f.cmd \notin Queued \cup Pending
    BY <1>2, KnownMember
  <2>3. \A f, g \in finished' : f.cmd = g.cmd => f = g
    <3>1. finished' = finished \cup
            {[cmd |-> c, outcome |-> outcome, by |-> c] : c \in Queued \cup Pending}
      BY <1>9 DEF DropQueues, EndAll
    <3>2. QED  BY <1>2, <2>2, <3>1
  <2>4. QED  BY <1>2, <2>1, <2>3
<1>10. ASSUME Nothing  PROVE Places
  <2>1. /\ Queued' = Queued /\ Pending' = Pending /\ Ended' = Ended
        /\ finished' = finished /\ held' = held
    BY <1>10, EndedGrows DEF Nothing
  <2>2. QED  BY <1>2, <2>1
<1>11. Places
  BY <1>1, <1>4, <1>5, <1>6, <1>7, <1>8, <1>9, <1>10 DEF Effect
<1>12. QED  BY <1>1, <1>11, PlacesDisjoint

LEMMA HeldOnceKept ==
  ASSUME IInv, [Next]_vars
  PROVE  HeldOnce' /\ PendingWhileConnected'
<1> USE DEF IInv
<1>1. held \in [Threads -> SUBSET Command] /\ BotThread \in Threads
  BY DEF TypeOK, Threads
<1>2. \A t \in Threads : \A c, d \in held'[t] : c = d
  <2>1. \A t \in Threads : \A c, d \in held[t] : c = d
    BY DEF HeldOnce
  <2>2. ASSUME NEW u \in Threads, NEW S, held' = [held EXCEPT ![u] = S],
               \A c, d \in S : c = d
        PROVE  \A t \in Threads : \A c, d \in held'[t] : c = d
    <3>1. \A t \in Threads : held'[t] = IF t = u THEN S ELSE held[t]
      BY <1>1, <2>2
    <3>2. QED  BY <2>1, <2>2, <3>1
  <2>3. ASSUME NEW t \in Threads, NEW c \in Command, IssueHeld(t, c) \/ QueueHeld(t, c)
        PROVE  \/ held' = [held EXCEPT ![t] = {c}]
               \/ held' = [held EXCEPT ![t] = {}]
    BY <2>3 DEF IssueHeld, QueueHeld
  <2>4. ASSUME NEW t \in Threads, NEW c \in Command, IssueHeld(t, c) \/ QueueHeld(t, c)
        PROVE  \A u \in Threads : \A a, b \in held'[u] : a = b
    <3>1. (\A a, b \in {c} : a = b) /\ (\A a, b \in {} : a = b)
      OBVIOUS
    <3>2. CASE held' = [held EXCEPT ![t] = {c}]
      BY <2>2, <3>1, <3>2
    <3>3. CASE held' = [held EXCEPT ![t] = {}]
      BY <2>2, <3>1, <3>3
    <3>4. QED  BY <2>3, <2>4, <3>2, <3>3
  <2>5. CASE held' = held
    BY <2>1, <2>5
  <2>6. QED
    BY <2>4, <2>5, StepEffect
    DEF Effect, IssueQueued, SendQueued, EndPending, DropQueues, Nothing
<1>3. /\ botPc' \notin {"rooms", "leave", "handler"} => held'[BotThread] = {}
      /\ botPc' \in {"reset", "down", "init"} => callbackQueue' = <<>>
  <2>0. /\ botPc \notin {"rooms", "leave", "handler"} => held[BotThread] = {}
        /\ botPc \in {"reset", "down", "init"} => callbackQueue = <<>>
    BY DEF HeldOnce, PendingWhileConnected
  <2>1. ASSUME NEW t \in Clients, Prepare(t) \/ Enqueue(t)
        PROVE  UNCHANGED <<botPc, callbackQueue>> /\ held'[BotThread] = held[BotThread]
    BY <1>1, <2>1 DEF Prepare, Enqueue, queues
  <2>2. ASSUME PollRooms \/ PollGames \/ PollSend \/ PollTimeout \/ PollPing
        PROVE  /\ botPc' \notin {"reset", "down", "init"}
               /\ botPc' \notin {"rooms", "leave"} => held' = held
               /\ botPc' # "handler" /\ botPc \notin {"rooms", "leave", "handler"}
    BY <2>2 DEF PollRooms, PollGames, PollSend, PollTimeout, PollPing
  <2>3. ASSUME BotEnqueue
        PROVE  botPc' \notin {"reset", "down", "init"} /\ held'[BotThread] = {}
    BY <1>1, <2>3 DEF BotEnqueue
  <2>4. ASSUME NEW m \in server, HandleResponse(m) \/ HandleGameJoined(m)
        PROVE  botPc' = "idle" /\ botPc = "idle" /\ held' = held
    BY <2>4 DEF HandleResponse, HandleGameJoined
  <2>5. ASSUME HandleEvent  PROVE botPc' = "handler"
    BY <2>5 DEF HandleEvent
  <2>6. ASSUME ConnectionLost \/ FreeQueues \/ ResetQueues \/ InitThread
        PROVE  /\ held' = held /\ botPc \notin {"rooms", "leave", "handler"}
               /\ botPc' \in {"reset", "down", "init"} => callbackQueue' = <<>>
    BY <2>0, <2>6 DEF ConnectionLost, FreeQueues, ResetQueues, InitThread, queues
  <2>7. ASSUME Tick \/ UNCHANGED vars
        PROVE  UNCHANGED <<botPc, callbackQueue, held>>
    BY <2>7 DEF Tick, vars, queues
  <2>8. QED
    BY <2>0, <2>1, <2>2, <2>3, <2>4, <2>5, <2>6, <2>7 DEF Next, Poll, Restart
<1>4. QED  BY <1>2, <1>3 DEF HeldOnce, PendingWhileConnected

-----------------------------------------------------------------------------
\* The inductive invariant: NoCommandTwice and ResponsesMatch hold only of
\* states where what the threads hold is new, what the server says is about
\* known commands, and IDs count modulo ID_MODULUS on each connection.
THEOREM PipelineInvariant == Safety => []IInv
<1>1. Init /\ TypeOK => IInv
  <2> SUFFICES ASSUME Init, TypeOK  PROVE IInv
    OBVIOUS
  <2>1. ToSet(sendQueue) = {} /\ Pending = {} /\ Ended = {}
    BY DEF Init, ToSet, Pending, Ended
  <2>2. \A t \in Threads : held[t] = {}
    BY DEF Init
  <2>3. Known = {}
    BY <2>1, <2>2, KnownMember DEF Queued
  <2>4. NoCommandTwice
    BY <2>1, <2>2 DEF NoCommandTwice, Init, IsInjective
  <2>5. HeldOnce /\ PendingWhileConnected
    BY <2>2 DEF HeldOnce, PendingWhileConnected, Init, Threads
  <2>6. Numbered
    <3>1. 0 = 0 % ID_MODULUS
      OBVIOUS
    <3>2. QED  BY <2>3, <3>1 DEF Numbered, Init
  <2>7. NoCommandLost /\ Fresh /\ KnownById /\ ServerKnown
    BY <2>3 DEF NoCommandLost, Fresh, KnownById, ServerKnown, Init
  <2>8. QED  BY <2>4, <2>5, <2>6, <2>7 DEF IInv
<1>2. IInv /\ TypeOK' /\ [Next]_vars => IInv'
  BY KnownInvariants, NumberedKept, NoCommandTwiceKept, HeldOnceKept DEF IInv
<1>3. QED  BY <1>1, <1>2, PipelineTypes, PTL DEF Safety

\* NoCommandTwice, for every number of threads and every interleaving: no
\* callback runs twice, and none for a command still in a queue.
THEOREM NoCommandTwiceHolds == Safety => []NoCommandTwice
<1>1. IInv => NoCommandTwice
  BY DEF IInv
<1>2. QED  BY <1>1, PipelineInvariant, PTL

\* NoCommandLost, for every number of threads and every interleaving: every
\* command prepared since the last reset is held, queued, pending or finished.
THEOREM NoCommandLostHolds == Safety => []NoCommandLost
<1>1. IInv => NoCommandLost
  BY DEF IInv
<1>2. QED  BY <1>1, PipelineInvariant, PTL

\* ResponsesMatch, for every ID modulus: a response finishes the command it
\* answers, unless ID_MODULUS commands or a reconnection came in between.
THEOREM ResponsesMatchHolds == Safety => []ResponsesMatch
<1>1. IInv => ResponsesMatch
  <2> SUFFICES ASSUME IInv, NEW f \in finished,
                      f.outcome = "answered", f.cmd.conn = f.by.conn,
                      f.cmd.seqNo - f.by.seqNo < ID_MODULUS,
                      f.by.seqNo - f.cmd.seqNo < ID_MODULUS
               PROVE  f.by = f.cmd
    BY DEF ResponsesMatch
  <2>1. f.cmd \in Known /\ f.by \in Known
    BY KnownMember DEF IInv, ServerKnown
  <2>2. f.cmd.seqNo \in Nat /\ f.by.seqNo \in Nat
    BY DEF IInv, TypeOK, Ending, Command
  <2>3. f.cmd.seqNo % ID_MODULUS = f.by.seqNo % ID_MODULUS
    BY <2>1 DEF IInv, Numbered
  <2>4. f.cmd.seqNo = f.by.seqNo
    BY <2>2, <2>3, SameRemainder
  <2>5. QED  BY <2>1, <2>4 DEF IInv, KnownById, Id
<1>2. QED  BY <1>1, PipelineInvariant, PTL

-----------------------------------------------------------------------------
\* Pings.

\* Every ping is stamped no later than the time that the next one is counted from.
PingsStamped ==
  /\ lastPingTime <= now
  /\ \A c \in Known : c.kind = "ping" => c.timeSent <= lastPingTime

\* The command prepared in a step is the only one that the step makes known.
LEMMA OneIssued ==
  ASSUME IInv, [Next]_vars, CountCommand, NEW kind \in Kinds, NEW name \in Names \cup {NoName},
         NewCommand(kind, name) \in Known'
  PROVE  Known' = Known \cup {NewCommand(kind, name)}
<1>1. issued \in Nat /\ issued' = issued + 1 /\ connection \in Nat /\ connection' = connection
  BY DEF IInv, TypeOK, CountCommand
<1>2. PICK c \in Command : Known' = Known \cup {c}
  BY <1>1, KnownGrows DEF SameNumbers
<1>3. NewCommand(kind, name) \notin Known
  BY NewCommandIsNew DEF IInv
<1>4. QED  BY <1>2, <1>3

\* A command that a thread holds to queue it later is no ping.
LEMMA HeldNoPing ==
  ASSUME IInv, [Next]_vars, CountCommand, NEW t \in Threads, NEW kind \in Kinds \ {"ping"},
         NEW name \in Names \cup {NoName},
         held' = [held EXCEPT ![t] = {NewCommand(kind, name)}]
  PROVE  \A c \in Known' : c \in Known \/ c.kind # "ping"
<1>1. NewCommand(kind, name) \in held'[t]
  BY DEF IInv, TypeOK
<1>2. NewCommand(kind, name) \in Known'
  BY <1>1, KnownMember
<1>3. Known' = Known \cup {NewCommand(kind, name)}
  BY <1>2, OneIssued
<1>4. NewCommand(kind, name).kind # "ping"
  BY DEF NewCommand
<1>5. QED  BY <1>3, <1>4

\* Only sendPing makes a ping, PING_FREQUENCY seconds after the last, and counts
\* the time to the next one from now on.
LEMMA NewPings ==
  ASSUME IInv, [Next]_vars
  PROVE  /\ lastPingTime' = lastPingTime \/ (lastPingTime' = now /\ now' = now)
         /\ now' = now \/ now' = now + 1
         /\ \/ \A c \in Known' : c \in Known \/ c.kind # "ping"
            \/ /\ now - lastPingTime >= PING_FREQUENCY
               /\ lastPingTime' = now /\ now' = now
               /\ \E p \in Command : p.timeSent = now /\ Known' = Known \cup {p}
<1> DEFINE NoPing == \A c \in Known' : c \in Known \/ c.kind # "ping"
<1>1. ASSUME NEW t \in Clients, Prepare(t)  PROVE NoPing
  <2>1. PICK kind \in {"plain", "game"} :
          held' = [held EXCEPT ![t] =
            {NewCommand(kind, IF kind = "game" THEN GameName[t] ELSE NoName)}]
    BY <1>1 DEF Prepare
  <2>2. /\ kind \in Kinds \ {"ping"} /\ CountCommand /\ t \in Threads
        /\ (IF kind = "game" THEN GameName[t] ELSE NoName) \in Names \cup {NoName}
    BY <1>1 DEF Prepare, Kinds, Threads
  <2>3. QED  BY <2>1, <2>2, HeldNoPing
<1>2. ASSUME CountCommand, held' = [held EXCEPT ![BotThread] = {NewCommand("rooms", NoName)}]
      PROVE  NoPing
  BY <1>2, HeldNoPing DEF Kinds, Threads
<1>3. ASSUME CountCommand, held' = [held EXCEPT ![BotThread] = {NewCommand("plain", NoName)}]
      PROVE  NoPing
  BY <1>3, HeldNoPing DEF Kinds, Threads
<1>4. ASSUME issued' = issued \/ InitThread  PROVE NoPing
  <2>1. ~CountCommand
    BY <1>4 DEF CountCommand, InitThread, IInv, TypeOK
  <2>2. Known' = Known
    BY <2>1, KnownGrows
  <2>3. QED  BY <2>2
<1>5. ASSUME PollPing
      PROVE  \/ NoPing
             \/ /\ now - lastPingTime >= PING_FREQUENCY
                /\ lastPingTime' = now /\ now' = now
                /\ \E p \in Command : p.timeSent = now /\ Known' = Known \cup {p}
  <2>1. CASE UNCHANGED <<sendQueue, numbers, lastPingTime>>
    BY <1>4, <1>5, <2>1 DEF numbers, PollPing
  <2>2. CASE /\ now - lastPingTime >= PING_FREQUENCY
             /\ sendQueue' = Append(sendQueue, NewCommand("ping", NoName))
             /\ CountCommand /\ lastPingTime' = now
    <3> DEFINE p == NewCommand("ping", NoName)
    <3>1. p \in Command /\ p.timeSent = now
      BY NewCommandType DEF NewCommand, Kinds, IInv
    <3>2. p \in Known'
      <4>1. p \in ToSet(sendQueue')
        BY <2>2, <3>1, QueueType, AppendSet DEF IInv, TypeOK
      <4>2. QED  BY <4>1, KnownMember DEF Queued
    <3>3. Known' = Known \cup {p}
      BY <2>2, <3>2, OneIssued DEF Kinds
    <3>4. now' = now
      BY <1>5 DEF PollPing
    <3> HIDE DEF p
    <3>5. QED  BY <2>2, <3>1, <3>3, <3>4
  <2>3. QED  BY <1>5, <2>1, <2>2 DEF PollPing
<1>6. /\ lastPingTime' = lastPingTime \/ (lastPingTime' = now /\ now' = now)
      /\ now' = now \/ now' = now + 1
  BY DEF Next, vars, clock, Prepare, Enqueue, Poll, PollRooms, PollGames, PollSend, PollTimeout,
         PollPing, BotEnqueue, HandleResponse, HandleGameJoined, HandleEvent, ConnectionLost,
         Restart, FreeQueues, ResetQueues, InitThread, Tick, Execute
<1>7. \/ \E t \in Clients : Prepare(t)
      \/ CountCommand /\ held' = [held EXCEPT ![BotThread] = {NewCommand("rooms", NoName)}]
      \/ CountCommand /\ held' = [held EXCEPT ![BotThread] = {NewCommand("plain", NoName)}]
      \/ issued' = issued \/ InitThread \/ PollPing
  BY DEF Next, vars, numbers, Enqueue, Poll, PollRooms, PollGames, PollSend, PollTimeout,
         BotEnqueue, HandleResponse, HandleGameJoined, HandleEvent, ConnectionLost,
         Restart, FreeQueues, ResetQueues, Tick
<1>8. QED  BY <1>1, <1>2, <1>3, <1>4, <1>5, <1>6, <1>7

\* Two pings are PING_FREQUENCY seconds apart, however polls, answers, timeouts and
\* reconnections interleave: the time of the last one is never set back.
THEOREM PingsSpacedHolds == Safety => []PingsSpaced
<1>1. Init => PingsStamped /\ PingsSpaced
  <2> SUFFICES ASSUME Init  PROVE PingsStamped /\ PingsSpaced
    OBVIOUS
  <2>1. ToSet(sendQueue) = {} /\ Pending = {} /\ Ended = {}
    BY DEF Init, ToSet, Pending, Ended
  <2>2. Known = {}
    BY <2>1, KnownMember DEF Queued, Init
  <2>3. QED  BY <2>2 DEF PingsStamped, PingsSpaced, Init
<1>2. IInv /\ PingsStamped /\ PingsSpaced /\ [Next]_vars => (PingsStamped /\ PingsSpaced)'
  <2> SUFFICES ASSUME IInv, PingsStamped, PingsSpaced, [Next]_vars
               PROVE  PingsStamped' /\ PingsSpaced'
    OBVIOUS
  <2>1. /\ now \in Nat /\ lastPingTime \in Nat
        /\ \A c \in Known : c.timeSent \in Nat
    <3>1. Known \subseteq Command
      BY QueueType, KnownMember DEF Queued, IInv
    <3>2. QED  BY <3>1 DEF IInv, TypeOK, Command
  <2>2. lastPingTime <= lastPingTime' /\ lastPingTime' <= now'
    BY <2>1, NewPings DEF PingsStamped
  <2>3. CASE \A c \in Known' : c \in Known \/ c.kind # "ping"
    <3>1. PingsStamped'
      BY <2>1, <2>2, <2>3, NewPings DEF PingsStamped
    <3>2. PingsSpaced'
      BY <2>3 DEF PingsSpaced
    <3>3. QED  BY <3>1, <3>2
  <2>4. ASSUME NEW p \in Command, p.timeSent = now, Known' = Known \cup {p},
               now - lastPingTime >= PING_FREQUENCY, lastPingTime' = now, now' = now
        PROVE  PingsStamped' /\ PingsSpaced'
    <3>1. \A c \in Known : c.kind = "ping" =>
            c.timeSent <= now /\ p.timeSent - c.timeSent >= PING_FREQUENCY
      BY <2>1, <2>4 DEF PingsStamped
    <3>2. PingsStamped'
      BY <2>1, <2>4, <3>1 DEF PingsStamped
    <3>3. PingsSpaced'
      BY <2>4, <3>1 DEF PingsSpaced
    <3>4. QED  BY <3>2, <3>3
  <2>5. QED  BY <2>3, <2>4, NewPings
<1>3. QED  BY <1>1, <1>2, PipelineInvariant, PTL DEF Safety

-----------------------------------------------------------------------------
\* The refinement: what each effect is to a service of numbered commands.

done == {<<Id(f.cmd), f.outcome>> : f \in finished}

LEMMA WaitingMember ==
  ASSUME NEW c
  PROVE  /\ c \in Waiting <=> (\E t \in Threads : c \in held[t]) \/ c \in Queued
         /\ c \in Waiting' <=> (\E t \in Threads : c \in held'[t]) \/ c \in Queued'
<1>1. c \in Waiting <=> (\E t \in Threads : c \in held[t]) \/ c \in Queued
  BY Zenon DEF Waiting, Queued
<1>2. c \in Waiting' <=> (\E t \in Threads : c \in held'[t]) \/ c \in Queued'
  BY Zenon DEF Waiting, Queued
<1>3. QED  BY <1>1, <1>2

\* Commands are as many as their numbers.
LEMMA IdsOfSets ==
  ASSUME KnownById, NEW S \in SUBSET Known, NEW D \in SUBSET Known
  PROVE  /\ IdsOf(S \cup D) = IdsOf(S) \cup IdsOf(D)
         /\ IdsOf(S \ D) = IdsOf(S) \ IdsOf(D)
<1>1. \A c, d \in Known : Id(c) = Id(d) => c = d
  BY DEF KnownById
<1>2. QED  BY <1>1, Zenon DEF IdsOf

LEMMA EndingsDone ==
  ASSUME NEW outcome
  PROVE  /\ \A c, by : End(c, outcome, by) => done' = done \cup {<<Id(c), outcome>>}
         /\ \A S : EndAll(S, outcome) => done' = done \cup (IdsOf(S) \X {outcome})
         /\ finished' = finished => done' = done
<1>1. ASSUME NEW c, NEW by, End(c, outcome, by)
      PROVE  done' = done \cup {<<Id(c), outcome>>}
  <2> DEFINE e == [cmd |-> c, outcome |-> outcome, by |-> by]
  <2>1. <<Id(e.cmd), e.outcome>> = <<Id(c), outcome>>
    OBVIOUS
  <2> HIDE DEF e
  <2>2. finished' = finished \cup {e}
    BY <1>1 DEF End, e
  <2>3. QED  BY <2>1, <2>2, Zenon DEF done
<1>2. ASSUME NEW S, EndAll(S, outcome)
      PROVE  done' = done \cup (IdsOf(S) \X {outcome})
  <2> DEFINE e(c) == [cmd |-> c, outcome |-> outcome, by |-> c]
  <2>1. \A c : <<Id(e(c).cmd), e(c).outcome>> = <<Id(c), outcome>>
    OBVIOUS
  <2>2. finished' = finished \cup {e(c) : c \in S}
    BY <1>2 DEF EndAll
  <2>3. IdsOf(S) \X {outcome} = {<<Id(c), outcome>> : c \in S}
    BY DEF IdsOf
  <2> HIDE DEF e
  <2>4. {<<Id(f.cmd), f.outcome>> : f \in {e(c) : c \in S}} = {<<Id(c), outcome>> : c \in S}
    BY <2>1
  <2>5. done' = done \cup {<<Id(f.cmd), f.outcome>> : f \in {e(c) : c \in S}}
    BY <2>2 DEF done
  <2>6. QED  BY <2>3, <2>4, <2>5
<1>3. QED  BY <1>1, <1>2 DEF done

\* The numbers of done commands are the numbers of the ended ones.
LEMMA DoneIds == {d[1] : d \in done} = IdsOf(Ended)
<1>1. {d[1] : d \in done} = {<<Id(f.cmd), f.outcome>>[1] : f \in finished}
  BY DEF done
<1>2. \A f : <<Id(f.cmd), f.outcome>>[1] = Id(f.cmd)
  OBVIOUS
<1>3. {<<Id(f.cmd), f.outcome>>[1] : f \in finished} = {Id(f.cmd) : f \in finished}
  BY <1>2
<1>4. IdsOf(Ended) = {Id(f.cmd) : f \in finished}
  BY DEF IdsOf, Ended
<1>5. QED  BY <1>1, <1>3, <1>4

LEMMA StepService ==
  ASSUME IInv, [Next]_vars
  PROVE  [Service!Next]_(Service!vars)
<1> USE DEF IInv
<1> DEFINE W == IdsOf(Waiting)  P == IdsOf(Pending)
<1>s. /\ Service!Issue <=> \E c \in W' \ (W \cup P \cup {d[1] : d \in done}) :
            W' = W \cup {c} /\ P' = P /\ done' = done
      /\ Service!Send <=> \E c \in W :
            W' = W \ {c} /\ P' = P \cup {c} /\ done' = done
      /\ Service!Finish <=> \E c \in P, outcome \in {"answered", "joined", "timedOut"} :
            P' = P \ {c} /\ done' = done \cup {<<c, outcome>>} /\ W' = W
      /\ Service!Drop <=> \E C \in SUBSET W, outcome \in {"dropped", "leaked"} :
            W' = W \ C /\ P' = {} /\ done' = done \cup ((C \cup P) \X {outcome})
      /\ W' = W /\ P' = P /\ done' = done => UNCHANGED Service!vars
  BY DEF Service!Issue, Service!Send, Service!Finish, Service!Drop, Service!Known,
         Service!vars, done
<1>w. /\ Waiting \subseteq Known /\ Pending \subseteq Known /\ Ended \subseteq Known
      /\ Queued \subseteq Waiting /\ KnownById
  BY KnownMember, WaitingMember DEF Known
<1>h. /\ held \in [Threads -> SUBSET Command]
      /\ \A t \in Threads : held[t] \cap Queued = {}
  BY PlacesDisjoint DEF TypeOK
<1> HIDE DEF W, P
<1>u. \A c : IdsOf({c}) = {Id(c)}
  BY DEF IdsOf
<1>1. ASSUME NEW c, IsNew(c), Waiting' = Waiting \cup {c}, Pending' = Pending,
             finished' = finished
      PROVE  Service!Issue
  <2>1. \A d \in Known : Id(d) # Id(c)
    BY <1>1 DEF IsNew, Fresh, Id, TypeOK
  <2>2. Id(c) \notin W \cup P \cup {d[1] : d \in done}
    BY <1>w, <2>1, DoneIds DEF IdsOf, W, P
  <2>3. W' = W \cup {Id(c)}
    BY <1>1 DEF W, IdsOf
  <2>4. P' = P /\ done' = done
    BY <1>1, EndingsDone DEF P
  <2>5. QED  BY <1>s, <2>2, <2>3, <2>4
<1>2. ASSUME NEW t \in Threads, NEW c \in Command, IssueHeld(t, c)  PROVE Service!Issue
  <2>1. \A u \in Threads : held'[u] = IF u = t THEN {c} ELSE held[u]
    BY <1>h, <1>2 DEF IssueHeld
  <2>2. Waiting' = Waiting \cup {c}
    <3>1. ASSUME NEW x  PROVE x \in Waiting' <=> x \in Waiting \cup {c}
      BY <1>2, <2>1, WaitingMember DEF IssueHeld
    <3>2. QED  BY <3>1
  <2>3. QED  BY <1>1, <1>2, <2>2 DEF IssueHeld
<1>3. ASSUME NEW t \in Threads, NEW c \in Command, QueueHeld(t, c)
      PROVE  UNCHANGED Service!vars
  <2>1. \A u \in Threads : held'[u] = IF u = t THEN {} ELSE held[u]
    BY <1>h, <1>3 DEF QueueHeld
  <2>2. held[t] = {c} /\ Queued' = Queued \cup {c}
    BY <1>3 DEF QueueHeld, HeldOnce
  <2>3. Waiting' = Waiting
    <3>1. ASSUME NEW x  PROVE x \in Waiting' <=> x \in Waiting
      BY <2>1, <2>2, WaitingMember
    <3>2. QED  BY <3>1
  <2>4. W' = W /\ P' = P /\ done' = done
    BY <1>3, <2>3, EndingsDone DEF QueueHeld, W, P
  <2>5. QED  BY <1>s, <2>4
<1>4. ASSUME NEW c \in Command, IssueQueued(c)  PROVE Service!Issue
  <2>1. ASSUME NEW x  PROVE x \in Waiting' <=> x \in Waiting \cup {c}
    BY <1>4, WaitingMember DEF IssueQueued
  <2>2. Waiting' = Waiting \cup {c}
    BY <2>1
  <2>3. QED  BY <1>1, <1>4, <2>2 DEF IssueQueued
<1>5. ASSUME NEW c \in Command, SendQueued(c)  PROVE Service!Send
  <2>1. ASSUME NEW x  PROVE x \in Waiting' <=> x \in Waiting \ {c}
    BY <1>h, <1>5, WaitingMember DEF SendQueued
  <2>2. Waiting' = Waiting \ {c} /\ Pending' = Pending \cup {c} /\ c \in Waiting
    BY <1>5, <1>w, <2>1 DEF SendQueued
  <2>3. W' = W \ {Id(c)} /\ P' = P \cup {Id(c)} /\ Id(c) \in W
    <3>1. {c} \in SUBSET Known
      BY <1>w, <2>2
    <3>2. /\ IdsOf(Waiting \ {c}) = IdsOf(Waiting) \ IdsOf({c})
          /\ IdsOf(Pending \cup {c}) = IdsOf(Pending) \cup IdsOf({c})
      BY <1>w, <3>1, IdsOfSets
    <3>3. Id(c) \in IdsOf(Waiting)
      BY <2>2 DEF IdsOf
    <3>4. QED  BY <1>u, <2>2, <3>2, <3>3 DEF W, P
  <2>4. done' = done
    BY <1>5, EndingsDone DEF SendQueued
  <2>5. QED  BY <1>s, <2>3, <2>4
<1>6. ASSUME NEW c \in Command, NEW by \in Command, NEW outcome \in Outcomes,
             EndPending(c, outcome, by)
      PROVE  Service!Finish
  <2>1. ASSUME NEW x  PROVE x \in Waiting' <=> x \in Waiting
    BY <1>6, WaitingMember DEF EndPending
  <2>2. Waiting' = Waiting /\ Pending' = Pending \ {c} /\ c \in Pending
    BY <1>6, <2>1 DEF EndPending
  <2>3. W' = W /\ P' = P \ {Id(c)} /\ Id(c) \in P
    <3>1. IdsOf(Pending \ {c}) = IdsOf(Pending) \ IdsOf({c})
      BY <1>w, <2>2, IdsOfSets
    <3>2. Id(c) \in IdsOf(Pending)
      BY <2>2 DEF IdsOf
    <3>3. QED  BY <1>u, <2>2, <3>1, <3>2 DEF W, P
  <2>4. done' = done \cup {<<Id(c), outcome>>}
    BY <1>6, EndingsDone DEF EndPending
  <2>5. QED  BY <1>6, <1>s, <2>3, <2>4 DEF EndPending
<1>7. ASSUME NEW outcome \in Outcomes, DropQueues(outcome)  PROVE Service!Drop
  <2>1. ASSUME NEW x  PROVE x \in Waiting' <=> x \in Waiting \ Queued
    BY <1>h, <1>7, WaitingMember DEF DropQueues
  <2>2. Waiting' = Waiting \ Queued /\ Pending' = {}
    BY <1>7, <2>1 DEF DropQueues
  <2>3. W' = W \ IdsOf(Queued) /\ P' = {} /\ IdsOf(Queued) \in SUBSET W
    <3>1. IdsOf(Waiting \ Queued) = IdsOf(Waiting) \ IdsOf(Queued)
      BY <1>w, IdsOfSets
    <3>2. IdsOf({}) = {} /\ IdsOf(Queued) \subseteq IdsOf(Waiting)
      BY <1>w DEF IdsOf
    <3>3. QED  BY <2>2, <3>1, <3>2 DEF W, P
  <2>4. done' = done \cup ((IdsOf(Queued) \cup P) \X {outcome})
    <3>1. IdsOf(Queued \cup Pending) = IdsOf(Queued) \cup IdsOf(Pending)
      BY <1>w, IdsOfSets
    <3>2. done' = done \cup (IdsOf(Queued \cup Pending) \X {outcome})
      BY <1>7, EndingsDone DEF DropQueues
    <3>3. QED  BY <3>1, <3>2 DEF P
  <2>5. QED  BY <1>7, <1>s, <2>3, <2>4 DEF DropQueues
<1>8. ASSUME Nothing  PROVE UNCHANGED Service!vars
  <2>1. ASSUME NEW x  PROVE x \in Waiting' <=> x \in Waiting
    BY <1>8, WaitingMember DEF Nothing
  <2>2. W' = W /\ P' = P /\ done' = done
    BY <1>8, <2>1, EndingsDone DEF Nothing, W, P
  <2>3. QED  BY <1>s, <2>2
<1>9. QED
  BY <1>2, <1>3, <1>4, <1>5, <1>6, <1>7, <1>8, StepEffect DEF Effect, Service!Next

\* ImplementsService: the pipeline of queues, rotations, timeouts and
\* reconnections is a service that sends and ends each command at most once.
THEOREM PipelineImplementsService == Safety => ImplementsService
<1>1. Init => Service!Init
  BY DEF Init, Service!Init, Waiting, Pending, IdsOf, ToSet
<1>2. IInv /\ [Next]_vars => [Service!Next]_(Service!vars)
  BY StepService
<1>3. QED
  BY <1>1, <1>2, PipelineInvariant, PTL DEF Safety, ImplementsService, Service!Spec

=============================================================================
