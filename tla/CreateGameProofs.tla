--------------------------- MODULE CreateGameProofs ---------------------------
(***************************************************************************)
(* Proofs about CreateGame, for every number of connections, creations and *)
(* disconnections: who holds a parameter, whatever times out; that it is   *)
(* freed once and clients are told of their own games until a creation     *)
(* times out that the API thread polls.                                    *)
(***************************************************************************)
EXTENDS CreateGame, TLAPS

USE CreationAssumption

\* Nothing has been allocated.
LEMMA InitOwners == Init => OwnersInv
<1> SUFFICES ASSUME Init  PROVE OwnersInv
  OBVIOUS
<1>1. TypeOK
  <2>1. late \in BOOLEAN
    BY DEF Init
  <2>2. QED
    BY <2>1 DEF Init, TypeOK
<1>2. PointersLive /\ Owned
  BY DEF Init, PointersLive, Owned, Pending
<1>3. Holders
  BY DEF Init, Holders, Polls, Pending, Orphaned
<1>4. PolledParamLive /\ FreesCounted
  BY DEF Init, PolledParamLive, FreesCounted, Polls
<1>5. QED
  BY <1>1, <1>2, <1>3, <1>4 DEF OwnersInv, HoldersInv

\* Types do not depend on the ownership argument.
LEMMA TypesKept ==
  ASSUME TypeOK, [Next]_vars
  PROVE  TypeOK'
<1> USE DEF TypeOK, clientVars
<1>1. ASSUME NEW c \in Conns, NEW p \in Creations, Create(c, p)  PROVE TypeOK'
  BY <1>1 DEF Create, freers
<1>2. ASSUME NEW c \in Conns, PollCreated(c)  PROVE TypeOK'
  <2>1. PICK p \in Creations : Polls(c, p) /\ Free(p)
                               /\ \E ID \in ReadID(p) \ {NoGame} :
                                     answers' = answers \cup {<<p, ID>>}
    BY <1>2 DEF PollCreated
  <2>2. ReadID(p) \subseteq Creations \cup {NoGame}
    BY DEF ReadID
  <2>3. answers' \subseteq Creations \X (Creations \cup {NoGame})
    BY <2>1, <2>2
  <2>4. memory' \in [Creations -> {"none", "live", "freed"}] /\ frees' \in [Creations -> Nat]
    BY <2>1 DEF Free
  <2>5. QED
    BY <1>2, <2>3, <2>4 DEF PollCreated, botVars, freers
<1>3. ASSUME NEW c \in Conns, PollOld(c)  PROVE TypeOK'
  BY <1>3 DEF PollOld, paramVars, botVars, freers
<1>4. ASSUME NEW c \in Conns, Close(c)  PROVE TypeOK'
  <2>1. /\ memory' \in [Creations -> {"none", "live", "freed"}]
        /\ frees' \in [Creations -> Nat]
    <3>1. CASE UNCHANGED <<memory, frees>>
      BY <3>1
    <3>2. CASE Free(param[c])
      <4>1. memory' \in [Creations -> {"none", "live", "freed"}]
        BY <3>2 DEF Free
      <4>2. frees' = [frees EXCEPT ![param[c]] = frees[param[c]] + 1]
        BY <3>2 DEF Free
      <4>3. CASE param[c] \in Creations
        BY <4>1, <4>2, <4>3
      <4>4. CASE param[c] \notin Creations
        BY <4>1, <4>2, <4>4
      <4>5. QED
        BY <4>3, <4>4
    <3>3. QED
      BY <1>4, <3>1, <3>2 DEF Close, paramVars
  <2>2. callbackFn' \in [Creations -> BOOLEAN]
    BY <1>4 DEF Close, paramVars
  <2>3. status' \in [Conns -> {"open", "closing", "closed"}] /\ gameID' = gameID
    BY <1>4 DEF Close, paramVars
  <2>4. QED
    BY <1>4, <2>1, <2>2, <2>3 DEF Close, botVars, freers
<1>5. ASSUME NEW p \in Creations, Send(p)  PROVE TypeOK'
  BY <1>5 DEF Send, connVars, paramVars, freers
<1>6. ASSUME NEW p \in Creations, GameJoined(p)  PROVE TypeOK'
  BY <1>6 DEF GameJoined, GameWithName, connVars
<1>7. ASSUME NEW p \in Creations, Timeout(p)  PROVE TypeOK'
  BY <1>7 DEF Timeout, Free, connVars, freers
<1>8. ASSUME NEW p \in Creations, CallFreer(p) \/ WaitFreer(p)  PROVE TypeOK'
  BY <1>8 DEF CallFreer, WaitFreer, Free, connVars, botVars
<1>9. CASE Disconnect
  BY <1>9 DEF Disconnect, Dropped, connVars, paramVars
<1>10. CASE UNCHANGED vars
  BY <1>10 DEF vars, connVars, paramVars, botVars, freers, clientVars
<1>11. QED
  BY <1>1, <1>2, <1>3, <1>4, <1>5, <1>6, <1>7, <1>8, <1>9, <1>10 DEF Next

\* Every step keeps the holders of a parameter apart, and alive what the bot thread and the
\* detached threads hold.
LEMMA HoldersKept ==
  ASSUME TypeOK, Holders, PointersLive, TypeOK', [Next]_vars
  PROVE  Holders' /\ PointersLive'
<1> DEFINE Kept == Holders' /\ PointersLive'
<1> USE DEF TypeOK, Holders, PointersLive, Polls, Pending, Orphaned
<1>1. ASSUME NEW c \in Conns, NEW p \in Creations, Create(c, p)  PROVE Kept
  <2>1. \A d \in Conns : param'[d] = IF d = c THEN p ELSE param[d]
    BY <1>1 DEF Create
  <2>2. \A d \in Conns : d # c => isGameCreate'[d] = isGameCreate[d]
    BY <1>1 DEF Create
  <2>3. /\ memory' = [memory EXCEPT ![p] = "live"] /\ command' = [command EXCEPT ![p] = "waiting"]
        /\ memory[p] = "none" /\ status' = status
        /\ UNCHANGED <<gameID, callbackFn, callFreers, waitFreers>>
    BY <1>1 DEF Create, freers
  <2>4. /\ Orphaned(p) /\ ~callbackFn[p] /\ gameID[p] = NoGame
        /\ p \notin callFreers \cup waitFreers
    BY <2>3
  <2>5. \A d, e \in Conns : param'[d] = param'[e] /\ param'[d] # NoCreation => d = e
    BY <2>1, <2>4
  <2>6. \A d \in Conns : isGameCreate'[d] => param'[d] # NoCreation
    BY <2>1, <2>2
  <2>7. \A q \in Creations : q # p =>
           /\ memory'[q] = memory[q] /\ command'[q] = command[q]
           /\ Orphaned(q) => Orphaned(q)'
           /\ \A d \in Conns : Polls(d, q)' => Polls(d, q)
    BY <2>1, <2>2, <2>3
  <2>8. memory'[p] = "live" /\ command'[p] = "waiting"
    BY <2>3
  <2>9. PointersLive'
    BY <2>3, <2>4, <2>7, <2>8
  <2>10. QED
    BY <2>3, <2>4, <2>5, <2>6, <2>7, <2>8, <2>9
<1>2. ASSUME NEW c \in Conns, PollCreated(c)  PROVE Kept
  BY <1>2 DEF PollCreated, Free, ReadID, botVars, freers
<1>3. ASSUME NEW c \in Conns, PollOld(c)  PROVE Kept
  BY <1>3 DEF PollOld, paramVars, botVars, freers
<1>4. ASSUME NEW c \in Conns, Close(c)  PROVE Kept
  BY <1>4 DEF Close, Free, ReadID, paramVars, botVars, freers
<1>5. ASSUME NEW p \in Creations, Send(p)  PROVE Kept
  BY <1>5 DEF Send, connVars, paramVars, freers
<1>6. ASSUME NEW g \in Creations, GameJoined(g)  PROVE Kept
  BY <1>6 DEF GameJoined, GameWithName, connVars
<1>7. ASSUME NEW p \in Creations, Timeout(p)  PROVE Kept
  BY <1>7 DEF Timeout, Free, connVars, freers
<1>8. ASSUME NEW p \in Creations, CallFreer(p) \/ WaitFreer(p)  PROVE Kept
  BY <1>8 DEF CallFreer, WaitFreer, Free, connVars, botVars
<1>9. CASE Disconnect
  BY <1>9 DEF Disconnect, Dropped, connVars, paramVars
<1>10. CASE UNCHANGED vars
  BY <1>10 DEF vars, connVars, paramVars, botVars, freers, clientVars
<1>11. QED
  BY <1>1, <1>2, <1>3, <1>4, <1>5, <1>6, <1>7, <1>8, <1>9, <1>10 DEF Next

\* Every step leaves a live parameter to somebody who will free it.
LEMMA OwnedKept ==
  ASSUME HoldersInv, TypeOK', [Next]_vars
  PROVE  Owned'
<1> USE DEF HoldersInv, TypeOK, Holders, Owned, PointersLive, Polls, Pending, Orphaned
<1>1. ASSUME NEW c \in Conns, NEW p \in Creations, Create(c, p)  PROVE Owned'
  BY <1>1 DEF Create, freers
<1>2. ASSUME NEW c \in Conns, PollCreated(c)  PROVE Owned'
  BY <1>2 DEF PollCreated, Free, ReadID, botVars, freers
<1>3. ASSUME NEW c \in Conns, PollOld(c)  PROVE Owned'
  BY <1>3 DEF PollOld, paramVars, botVars, freers
<1>4. ASSUME NEW c \in Conns, Close(c)  PROVE Owned'
  BY <1>4 DEF Close, Free, ReadID, paramVars, botVars, freers
<1>5. ASSUME NEW p \in Creations, Send(p)  PROVE Owned'
  BY <1>5 DEF Send, connVars, paramVars, freers
<1>6. ASSUME NEW g \in Creations, GameJoined(g)  PROVE Owned'
  BY <1>6 DEF GameJoined, GameWithName, connVars
<1>7. ASSUME NEW p \in Creations, Timeout(p)  PROVE Owned'
  BY <1>7 DEF Timeout, Free, connVars, freers
<1>8. ASSUME NEW p \in Creations, CallFreer(p) \/ WaitFreer(p)  PROVE Owned'
  BY <1>8 DEF CallFreer, WaitFreer, Free, connVars, botVars
<1>9. CASE Disconnect
  BY <1>9 DEF Disconnect, Dropped, connVars, paramVars
<1>10. CASE UNCHANGED vars
  BY <1>10 DEF vars, connVars, paramVars, botVars, freers, clientVars
<1>11. QED
  BY <1>1, <1>2, <1>3, <1>4, <1>5, <1>6, <1>7, <1>8, <1>9, <1>10 DEF Next

\* No step takes back that a polled creation timed out.
LEMMA LateKept ==
  ASSUME late, [Next]_vars
  PROVE  late'
BY DEF Next, vars, Create, PollCreated, PollOld, Close, Send, GameJoined, Timeout, CallFreer,
       WaitFreer, Disconnect, botVars

\* Until a creation times out that is polled, who polls a parameter polls a live one, and what
\* is freed is not freed again.
LEMMA FreesKept ==
  ASSUME ~late', OwnersInv, HoldersInv', [Next]_vars
  PROVE  PolledParamLive' /\ FreesCounted'
<1> DEFINE Kept == PolledParamLive' /\ FreesCounted'
<1>0. ~late
  BY LateKept
<1> USE <1>0 DEF OwnersInv, HoldersInv, TypeOK, Holders, PointersLive, PolledParamLive,
                 FreesCounted, Polls, Pending, Orphaned
<1>1. ASSUME NEW c \in Conns, NEW p \in Creations, Create(c, p)  PROVE Kept
  BY <1>1 DEF Create, freers
<1>2. ASSUME NEW c \in Conns, PollCreated(c)  PROVE Kept
  BY <1>2 DEF PollCreated, Free, ReadID, botVars, freers
<1>3. ASSUME NEW c \in Conns, PollOld(c)  PROVE Kept
  BY <1>3 DEF PollOld, paramVars, botVars, freers
<1>4. ASSUME NEW c \in Conns, Close(c)  PROVE Kept
  BY <1>4 DEF Close, Free, ReadID, paramVars, botVars, freers
<1>5. ASSUME NEW p \in Creations, Send(p) \/ GameJoined(p)  PROVE Kept
  <2>1. UNCHANGED <<connVars, memory, frees>>
    BY <1>5 DEF Send, GameJoined, paramVars
  <2>2. QED
    BY <2>1 DEF connVars
<1>6. ASSUME NEW p \in Creations, Timeout(p)  PROVE Kept
  <2>1. \A c \in Conns : ~Polls(c, p)
    BY <1>6 DEF Timeout
  <2>2. memory[p] = "live"
    BY <1>6 DEF Timeout
  <2>3. QED
    BY <1>6, <2>1, <2>2 DEF Timeout, Free, connVars
<1>7. ASSUME NEW p \in Creations, CallFreer(p) \/ WaitFreer(p)  PROVE Kept
  BY <1>7 DEF CallFreer, WaitFreer, Free, connVars, botVars
<1>8. CASE Disconnect \/ UNCHANGED vars
  <2>1. UNCHANGED <<connVars, memory, frees>>
    BY <1>8 DEF Disconnect, vars, paramVars
  <2>2. QED
    BY <2>1 DEF connVars
<1>9. QED
  BY <1>1, <1>2, <1>3, <1>4, <1>5, <1>6, <1>7, <1>8 DEF Next

\* Every step keeps the invariant, whatever times out.
LEMMA HoldersInvKept == HoldersInv /\ [Next]_vars => HoldersInv'
<1>1. SUFFICES ASSUME HoldersInv, [Next]_vars  PROVE HoldersInv'
  OBVIOUS
<1>2. TypeOK /\ Holders /\ PointersLive
  BY <1>1 DEF HoldersInv
<1>3. TypeOK'
  BY <1>1, <1>2, TypesKept
<1>4. Holders' /\ PointersLive'
  BY <1>1, <1>2, <1>3, HoldersKept
<1>5. Owned'
  BY <1>1, <1>3, OwnedKept
<1>6. QED
  BY <1>3, <1>4, <1>5 DEF HoldersInv

\* The inductive invariant of the game creation protocol, whatever times out: who may hold a
\* parameter, that pending commands and detached threads find theirs alive, and that a live
\* one has somebody to free it.
THEOREM HoldersInvariant == Safety => []HoldersInv
<1>1. Init => HoldersInv
  BY InitOwners DEF OwnersInv
<1>2. QED
  BY <1>1, HoldersInvKept, PTL DEF Safety

\* With it, until a creation times out that is polled: that the API thread polls live
\* parameters only, and that each is freed once.
THEOREM OwnersInvariant == Safety => []OwnersInv
<1>1. Init => OwnersInv
  BY InitOwners
<1>2. OwnersInv /\ [Next]_vars => OwnersInv'
  <2> SUFFICES ASSUME OwnersInv, [Next]_vars  PROVE OwnersInv'
    OBVIOUS
  <2>1. HoldersInv'
    BY HoldersInvKept DEF OwnersInv
  <2>2. QED
    BY <2>1, FreesKept DEF OwnersInv
<1>3. QED
  BY <1>1, <1>2, PTL DEF Safety

\* However the API thread, the bot thread and the detached threads interleave, no parameter
\* of a game creation is freed twice (game_struct.c:101), until a creation times out that the
\* API thread polls.
THEOREM FreedOnceHolds == Safety => []FreedOnce
<1>1. OwnersInv => FreedOnce
  <2> SUFFICES ASSUME OwnersInv, ~late, NEW p \in Creations  PROVE frees[p] <= 1
    BY DEF FreedOnce
  <2>1. frees[p] \in {0, 1}
    BY DEF OwnersInv, FreesCounted
  <2>2. QED
    BY <2>1
<1>2. QED
  BY <1>1, OwnersInvariant, PTL

\* The API thread reads no freed parameter (api_server.c:1163), as the comment of
\* sendCreateGameCommand promises, until a creation that it polls times out: nothing else
\* frees a parameter under it.
THEOREM PolledUntilTimeoutHolds == Safety => []PolledUntilTimeout
<1>1. OwnersInv => PolledUntilTimeout
  BY DEF OwnersInv, PolledUntilTimeout
<1>2. QED
  BY <1>1, OwnersInvariant, PTL

\* No parameter is left without somebody to free it, whatever the order in which the
\* client, the server and the connection give up, and whatever times out.
THEOREM LiveHasOwnerHolds == Safety => []LiveHasOwner
<1>1. HoldersInv => LiveHasOwner
  BY DEF HoldersInv, Owned, LiveHasOwner, TypeOK
<1>2. QED
  BY <1>1, HoldersInvariant, PTL

\* Every step joins a game at most once, and tells nobody of a game twice.
LEMMA JoinedOnceKept ==
  ASSUME ~late', OwnersInv, JoinedOnce, [Next]_vars
  PROVE  JoinedOnce'
<1>0. ~late
  BY LateKept
<1> USE <1>0 DEF JoinedOnce, OwnersInv, HoldersInv, TypeOK, Pending, clientVars
<1>1. ASSUME NEW c \in Conns, NEW p \in Creations, Create(c, p)  PROVE JoinedOnce'
  BY <1>1 DEF Create, freers, clientVars, Holders
<1>2. ASSUME NEW c \in Conns, PollCreated(c)  PROVE JoinedOnce'
  <2>0. PICK p \in Creations :
          Polls(c, p) /\ \E ID \in ReadID(p) \ {NoGame} : answers' = answers \cup {<<p, ID>>}
    BY <1>2 DEF PollCreated
  <2>1. PICK ID \in ReadID(p) \ {NoGame} : Polls(c, p) /\ answers' = answers \cup {<<p, ID>>}
    BY <2>0
  <2>2. ID = gameID[p]
    BY <2>1 DEF PolledParamLive, ReadID
  <2>3. UNCHANGED <<gameID, gameName, made, command>>
    BY <1>2 DEF PollCreated, botVars
  <2>4. QED
    BY <2>1, <2>2, <2>3
<1>3. ASSUME NEW c \in Conns, PollOld(c) \/ Close(c)  PROVE JoinedOnce'
  BY <1>3 DEF PollOld, Close, Free, paramVars, botVars, freers
<1>4. ASSUME NEW p \in Creations, Send(p)  PROVE JoinedOnce'
  BY <1>4 DEF Send, connVars, paramVars, freers
<1>5. ASSUME NEW g \in Creations, GameJoined(g)  PROVE JoinedOnce'
  <2>1. CASE GameWithName(g) = {}
    BY <1>5, <2>1 DEF GameJoined, connVars
  <2>2. ASSUME NEW p \in GameWithName(g),
               command' = [command EXCEPT ![p] = "ended"],
               gameID' = [gameID EXCEPT ![p] = g]
        PROVE  JoinedOnce'
    <3>1. p \in Creations /\ command[p] = "sent" /\ gameName[p] = gameName[g] /\ gameID[p] = NoGame
      BY <2>2 DEF GameWithName, Holders
    <3>2. g \in made /\ made' = made \ {g} /\ UNCHANGED clientVars
      BY <1>5 DEF GameJoined
    <3>3. command[g] \in {"sent", "ended"} /\ \A q \in Creations : gameID[q] # g
      BY <3>2, CreationAssumption
    <3>4. \A h \in Creations : command[h] \in {"sent", "ended"} => command'[h] \in {"sent", "ended"}
      BY <2>2
    <3>5. \A q \in Creations : gameID'[q] = IF q = p THEN g ELSE gameID[q]
      BY <2>2
    <3>6. \A a \in answers : a[1] \in Creations /\ a[1] # p
      BY <3>1
    <3>7. QED
      BY <3>1, <3>2, <3>3, <3>4, <3>5, <3>6
  <2>3. QED
    BY <1>5, <2>1, <2>2 DEF GameJoined
<1>6. ASSUME NEW p \in Creations, Timeout(p)  PROVE JoinedOnce'
  BY <1>6 DEF Timeout, Free, connVars, freers, clientVars
<1>7. ASSUME NEW p \in Creations, CallFreer(p) \/ WaitFreer(p)  PROVE JoinedOnce'
  BY <1>7 DEF CallFreer, WaitFreer, Free, connVars, botVars
<1>8. CASE Disconnect
  BY <1>8 DEF Disconnect, Dropped, connVars, paramVars
<1>9. CASE UNCHANGED vars
  BY <1>9 DEF vars, connVars, paramVars, botVars, freers, clientVars
<1>10. QED
  BY <1>1, <1>2, <1>3, <1>4, <1>5, <1>6, <1>7, <1>8, <1>9 DEF Next

\* The bot thread and the detached threads find every parameter they hold alive, although the
\* API thread may read, and free again, one that the timeout of its command has freed.
THEOREM PointersLiveHolds == Safety => []PointersLive
<1>1. HoldersInv => PointersLive
  BY DEF HoldersInv
<1>2. QED
  BY <1>1, HoldersInvariant, PTL

\* Whatever names the games have and in whatever order the server makes them, a
\* client is told of a game of the name it asked for, and no other client is told
\* of the same one, until a polled creation times out.
THEOREM AnswersToldHolds == Safety => []AnswersTold
<1>1. Init => late \/ JoinedOnce
  BY DEF Init, JoinedOnce
<1>2. OwnersInv /\ (late \/ JoinedOnce) /\ [Next]_vars => (late \/ JoinedOnce)'
  BY JoinedOnceKept, LateKept
<1>3. OwnersInv /\ (late \/ JoinedOnce) => AnswersTold
  BY DEF OwnersInv, HoldersInv, TypeOK, JoinedOnce, AnswersTold
<1>4. QED
  BY <1>1, <1>2, <1>3, OwnersInvariant, PTL DEF Safety
=============================================================================
