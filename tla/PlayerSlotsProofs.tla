-------------------------- MODULE PlayerSlotsProofs --------------------------
(***************************************************************************)
(* Proofs about PlayerSlots, for every number of slots, players, names,    *)
(* decks and requests.                                                     *)
(*                                                                         *)
(* Two slots are never one player's because a player is given a slot only  *)
(* when they arrive: an arrival is in the inbox or at work once, nobody    *)
(* who sits has one, and the slot that the loop chose is free until it is  *)
(* taken, unless a request freed the slots.                                *)
(*                                                                         *)
(* What the list of players and the decks have to do with the slots rests  *)
(* on the order of events: a player arrives, loads a deck and leaves, in   *)
(* this order whatever else comes between, and a message starts with an    *)
(* event that makes the copy the others of the message are worked on with. *)
(***************************************************************************)
EXTENDS PlayerSlots, SequenceTheorems, FiniteSetTheorems, WellFoundedInduction, TLAPS

-----------------------------------------------------------------------------
\* The first slot of a set of slots is one of them.
LEMMA LowestFacts ==
  ASSUME NEW S, S \subseteq Slots, S # {}
  PROVE  Lowest(S) \in S
<1>1. S \subseteq Nat
  BY DEF Slots
<1>2. \E s \in S : \A t \in S : ~(<<t, s>> \in OpToRel(<, Nat))
  BY <1>1, NatLessThanWellFounded, WFMin
<1>3. PICK s \in S : \A t \in S : ~(t < s)
  BY <1>1, <1>2 DEF OpToRel
<1>4. \A t \in S : s <= t
  BY <1>1, <1>3
<1>5. QED
  BY <1>3, <1>4 DEF Lowest

-----------------------------------------------------------------------------
\* The invariant.

Message ==
  [first : BOOLEAN, kind : {"join"}, pid : Pids, name : Users, ping : BOOLEAN]
    \cup [first : BOOLEAN, kind : {"leave"}, pid : Pids]
    \cup [first : BOOLEAN, kind : {"deck"}, pid : Pids, deck : Decks]

Types ==
  /\ using \in [Slots -> Pids \cup {NoPid}]
  /\ inbox \in Seq(Message)
  /\ event = NoEvent \/ event \in Message
  /\ seated \in [Pids -> Names \cup {NoName}]
  /\ nextPid \in 1..(MaxPid + 1)
  /\ scan = <<>> \/ scan \in (1..(PlayerCount + 1)) \X (Slots \cup {NoSlot}) \X BOOLEAN

\* Players are numbered in the order they come, and come once.
Numbered ==
  /\ \A i \in 1..Len(inbox) : inbox[i].pid < nextPid
  /\ event.kind # "none" => event.pid < nextPid
  /\ \A s \in Slots : using[s] < nextPid
  /\ \A p \in Pids : InGame(p) => p < nextPid

\* There is one event of a player's arrival, and no slot is theirs until it was
\* dealt with.
ArriveOnce ==
  /\ \A i, j \in 1..Len(inbox) :
       inbox[i].kind = "join" /\ inbox[j].kind = "join" /\ inbox[i].pid = inbox[j].pid => i = j
  /\ \A i \in 1..Len(inbox) : inbox[i].kind = "join" =>
       /\ event.kind = "join" => event.pid # inbox[i].pid
       /\ \A s \in Slots : using[s] # inbox[i].pid
  /\ event.kind = "join" => \A s \in Slots : using[s] # event.pid

\* The loop is about an arrival, and the slot it chose is free.
ChosenFree ==
  scan # <<>> =>
    /\ event.kind = "join"
    /\ scan[2] # NoSlot /\ ~Dangling => using[scan[2]] = NoPid

SlotsInv == Types /\ Numbered /\ ArriveOnce /\ ChosenFree

-----------------------------------------------------------------------------
\* Initially nobody came.
LEMMA InitInv == Init => SlotsInv
<1> SUFFICES ASSUME Init  PROVE SlotsInv
  OBVIOUS
<1> USE SlotsAssumption DEF Init
<1>1. Types
  BY DEF Types, NoPid, NoName
<1>2. Numbered
  BY DEF Numbered, NoEvent, NoPid, InGame
<1>3. ArriveOnce /\ ChosenFree
  BY DEF ArriveOnce, ChosenFree, NoEvent
<1>4. QED
  BY <1>1, <1>2, <1>3 DEF SlotsInv

\* What is known of a message.
LEMMA MessageFacts ==
  ASSUME NEW m \in Message
  PROVE  m.kind \in {"join", "leave", "deck"} /\ m.pid \in Pids
BY DEF Message

\* What the server says is added to the inbox, in a new message or in the last.
LEMMA SaysFacts ==
  ASSUME Types, NEW e \in Message, e.first, Says(e)
  PROVE  /\ \E m \in Message : /\ m.kind = e.kind /\ m.pid = e.pid
                               /\ inbox = <<>> => m.first
                               /\ inbox' = Append(inbox, m)
         /\ UNCHANGED <<using, event, scan, copy, enabled, kicks>>
<1>1. UNCHANGED <<using, event, scan, copy, enabled, kicks>>
  BY DEF Says, slotVars, botVars
<1>2. CASE inbox' = Append(inbox, e)
  BY <1>1, <1>2
<1>3. CASE /\ \E i \in 1..Len(inbox) : inbox[i].first
            /\ inbox' = Append(inbox, [e EXCEPT !.first = FALSE])
  <2>1. /\ [e EXCEPT !.first = FALSE] \in Message
        /\ [e EXCEPT !.first = FALSE].kind = e.kind
        /\ [e EXCEPT !.first = FALSE].pid = e.pid
    BY DEF Message
  <2>2. inbox # <<>>
    BY <1>3
  <2>3. QED
    BY <1>1, <1>3, <2>1, <2>2
<1>4. QED
  BY <1>2, <1>3 DEF Says

\* A new message at the end of the inbox.
LEMMA AppendFacts ==
  ASSUME Types, NEW m \in Message, inbox' = Append(inbox, m)
  PROVE  /\ inbox' \in Seq(Message) /\ Len(inbox) \in Nat /\ Len(inbox') = Len(inbox) + 1
         /\ \A i \in 1..Len(inbox) : inbox'[i] = inbox[i]
         /\ inbox'[Len(inbox) + 1] = m
BY AppendProperties DEF Types

\* A player joins, under a number nobody had.
LEMMA ServerJoinsInv ==
  ASSUME SlotsInv, NEW name \in Users, ServerJoins(name)
  PROVE  SlotsInv'
<1> USE SlotsAssumption
<1>1. nextPid \in Pids /\ nextPid' = nextPid + 1 /\ nextPid' \in 1..(MaxPid + 1)
  BY DEF ServerJoins, SlotsInv, Types, Pids
<1>2. PICK m \in Message : m.kind = "join" /\ m.pid = nextPid /\ inbox' = Append(inbox, m)
  <2> DEFINE e == [first |-> TRUE, kind |-> "join", pid |-> nextPid, name |-> name, ping |-> TRUE]
  <2>1. e \in Message /\ e.first /\ e.kind = "join" /\ e.pid = nextPid
    BY <1>1 DEF Message
  <2>2. Says(e)
    BY DEF ServerJoins
  <2> HIDE DEF e
  <2>3. QED
    BY <2>1, <2>2, SaysFacts DEF SlotsInv
<1>3. UNCHANGED <<using, event, scan, copy, enabled>>
  BY DEF ServerJoins, Says, slotVars, botVars
<1>4. seated' = [seated EXCEPT ![nextPid] = name] /\ name \in Names
  BY DEF ServerJoins
<1>5. /\ inbox' \in Seq(Message) /\ Len(inbox) \in Nat /\ Len(inbox') = Len(inbox) + 1
      /\ \A i \in 1..Len(inbox) : inbox'[i] = inbox[i]
      /\ inbox'[Len(inbox) + 1] = m
  BY <1>2, AppendFacts DEF SlotsInv
<1>6. Types'
  BY <1>1, <1>3, <1>4, <1>5 DEF SlotsInv, Types
<1>7. Numbered'
  <2>1. \A i \in 1..Len(inbox') : inbox'[i].pid < nextPid'
    <3> SUFFICES ASSUME NEW i \in 1..Len(inbox')  PROVE inbox'[i].pid < nextPid'
      OBVIOUS
    <3>1. CASE i = Len(inbox) + 1
      BY <1>1, <1>2, <1>5, <3>1 DEF Pids
    <3>2. CASE i \in 1..Len(inbox)
      <4>1. inbox[i] \in Message /\ inbox[i].pid < nextPid
        BY <3>2 DEF SlotsInv, Types, Numbered
      <4>2. QED
        BY <1>1, <1>5, <3>2, <4>1, MessageFacts DEF Pids
    <3>3. QED
      BY <1>5, <3>1, <3>2
  <2>2. event'.kind # "none" => event'.pid < nextPid'
    <3> SUFFICES ASSUME event.kind # "none"  PROVE event.pid < nextPid'
      BY <1>3
    <3>1. event \in Message /\ event.pid < nextPid
      BY DEF SlotsInv, Types, Numbered, NoEvent
    <3>2. QED
      BY <1>1, <3>1, MessageFacts DEF Pids
  <2>3. \A s \in Slots : using'[s] < nextPid'
    BY <1>1, <1>3 DEF SlotsInv, Types, Numbered, Pids, NoPid
  <2>4. \A p \in Pids : InGame(p)' => p < nextPid'
    BY <1>1, <1>4 DEF SlotsInv, Types, Numbered, Pids, InGame
  <2>5. QED
    BY <2>1, <2>2, <2>3, <2>4 DEF Numbered
<1>8. ArriveOnce'
  <2>1. \A i \in 1..Len(inbox) : inbox[i].pid # nextPid
    <3> SUFFICES ASSUME NEW i \in 1..Len(inbox)  PROVE inbox[i].pid # nextPid
      OBVIOUS
    <3>1. inbox[i] \in Message /\ inbox[i].pid < nextPid
      BY DEF SlotsInv, Types, Numbered
    <3>2. QED
      BY <1>1, <3>1, MessageFacts DEF Pids
  <2>2. \A s \in Slots : using[s] # nextPid
    BY <1>1 DEF SlotsInv, Types, Numbered, Pids, NoPid
  <2>3. event.kind = "join" => event.pid # nextPid
    BY <1>1 DEF SlotsInv, Numbered, Pids
  <2>4. QED
    BY <1>2, <1>3, <1>5, <2>1, <2>2, <2>3 DEF SlotsInv, ArriveOnce
<1>9. ChosenFree'
  BY <1>3 DEF SlotsInv, ChosenFree, Dangling
<1>10. QED
  BY <1>6, <1>7, <1>8, <1>9 DEF SlotsInv

\* Another event of a player who is in the game.
LEMMA ServerSaysInv ==
  ASSUME SlotsInv, NEW m \in Message, m.kind # "join", m.pid < nextPid,
         inbox' = Append(inbox, m), nextPid' = nextPid,
         UNCHANGED <<using, event, scan, copy, enabled>>,
         seated' \in [Pids -> Names \cup {NoName}],
         \A p \in Pids : InGame(p)' => InGame(p)
  PROVE  SlotsInv'
<1>1. /\ inbox' \in Seq(Message) /\ Len(inbox) \in Nat /\ Len(inbox') = Len(inbox) + 1
      /\ \A i \in 1..Len(inbox) : inbox'[i] = inbox[i]
      /\ inbox'[Len(inbox) + 1] = m
  BY AppendFacts DEF SlotsInv
<1>2. Types'
  BY <1>1 DEF SlotsInv, Types
<1>3. Numbered'
  <2>1. \A i \in 1..Len(inbox') : inbox'[i].pid < nextPid
    BY <1>1 DEF SlotsInv, Numbered
  <2>2. QED
    BY <2>1 DEF SlotsInv, Numbered
<1>4. ArriveOnce'
  BY <1>1 DEF SlotsInv, ArriveOnce
<1>5. ChosenFree'
  BY DEF SlotsInv, ChosenFree, Dangling
<1>6. QED
  BY <1>2, <1>3, <1>4, <1>5 DEF SlotsInv

LEMMA ServerLeavesInv ==
  ASSUME SlotsInv, NEW p \in Pids, ServerLeaves(p)
  PROVE  SlotsInv'
<1> DEFINE e == [first |-> TRUE, kind |-> "leave", pid |-> p]
<1>1. e \in Message /\ e.first /\ e.kind = "leave" /\ e.pid = p /\ Says(e)
  BY DEF Message, ServerLeaves
<1>2. p < nextPid /\ nextPid' = nextPid /\ seated' = [seated EXCEPT ![p] = NoName]
  BY DEF ServerLeaves, SlotsInv, Numbered
<1> HIDE DEF e
<1>3. /\ \E m \in Message : m.kind = e.kind /\ m.pid = e.pid /\ inbox' = Append(inbox, m)
      /\ UNCHANGED <<using, event, scan, copy, enabled>>
  BY <1>1, SaysFacts DEF SlotsInv
<1>4. /\ seated' \in [Pids -> Names \cup {NoName}]
      /\ \A q \in Pids : InGame(q)' => InGame(q)
  BY <1>2 DEF SlotsInv, Types, InGame
<1>5. QED
  BY <1>1, <1>2, <1>3, <1>4, ServerSaysInv

LEMMA ServerLoadsInv ==
  ASSUME SlotsInv, NEW p \in Pids, NEW deck \in Decks, ServerLoads(p, deck)
  PROVE  SlotsInv'
<1> DEFINE e == [first |-> TRUE, kind |-> "deck", pid |-> p, deck |-> deck]
<1>1. e \in Message /\ e.first /\ e.kind = "deck" /\ e.pid = p /\ Says(e)
  BY DEF Message, ServerLoads
<1>2. p < nextPid /\ nextPid' = nextPid /\ seated' = seated
  BY DEF ServerLoads, SlotsInv, Numbered
<1> HIDE DEF e
<1>3. /\ \E m \in Message : m.kind = e.kind /\ m.pid = e.pid /\ inbox' = Append(inbox, m)
      /\ UNCHANGED <<using, event, scan, copy, enabled>>
  BY <1>1, SaysFacts DEF SlotsInv
<1>4. /\ seated' \in [Pids -> Names \cup {NoName}]
      /\ \A q \in Pids : InGame(q)' => InGame(q)
  BY <1>2 DEF SlotsInv, Types, InGame
<1>5. QED
  BY <1>1, <1>2, <1>3, <1>4, ServerSaysInv

-----------------------------------------------------------------------------
\* The bot thread takes the next event.
LEMMA ReceiveInv ==
  ASSUME SlotsInv, Receive
  PROVE  SlotsInv'
<1>1. /\ event.kind = "none" /\ inbox # <<>>
      /\ event' = Head(inbox) /\ inbox' = Tail(inbox)
      /\ UNCHANGED <<using, scan, enabled, seated, nextPid>>
  BY DEF Receive, NoEvent, slotVars
<1>2. /\ inbox \in Seq(Message) /\ Len(inbox) \in Nat \ {0}
      /\ event' = inbox[1] /\ inbox[1] \in Message
      /\ inbox' \in Seq(Message) /\ Len(inbox') = Len(inbox) - 1
      /\ \A i \in 1..Len(inbox') : inbox'[i] = inbox[i + 1] /\ i + 1 \in 1..Len(inbox)
  BY <1>1, HeadTailProperties DEF SlotsInv, Types
<1>3. Types'
  BY <1>1, <1>2 DEF SlotsInv, Types
<1>4. Numbered'
  <2>1. event'.pid < nextPid /\ \A i \in 1..Len(inbox') : inbox'[i].pid < nextPid
    BY <1>2 DEF SlotsInv, Numbered
  <2>2. QED
    BY <1>1, <2>1 DEF SlotsInv, Numbered, InGame
<1>5. ArriveOnce'
  <2>1. \A i, j \in 1..Len(inbox') :
          inbox'[i].kind = "join" /\ inbox'[j].kind = "join" /\ inbox'[i].pid = inbox'[j].pid
            => i = j
    BY <1>2 DEF SlotsInv, ArriveOnce
  <2>2. 1 \in 1..Len(inbox) /\ \A i \in 1..Len(inbox') : i + 1 # 1
    BY <1>2
  <2>3. \A i \in 1..Len(inbox') : inbox'[i].kind = "join" /\ event'.kind = "join" =>
          event'.pid # inbox'[i].pid
    BY <1>2, <2>2 DEF SlotsInv, ArriveOnce
  <2>4. \A i \in 1..Len(inbox') : inbox'[i].kind = "join" =>
          \A s \in Slots : using[s] # inbox'[i].pid
    BY <1>2 DEF SlotsInv, ArriveOnce
  <2>5. event'.kind = "join" => \A s \in Slots : using[s] # event'.pid
    BY <1>2, <2>2 DEF SlotsInv, ArriveOnce
  <2>6. QED
    BY <1>1, <2>1, <2>3, <2>4, <2>5 DEF ArriveOnce
<1>6. ChosenFree'
  BY <1>1 DEF SlotsInv, ChosenFree
<1>7. QED
  BY <1>3, <1>4, <1>5, <1>6 DEF SlotsInv

\* An event was dealt with, and who sits is who sat or no longer somebody.
LEMMA DoneInv ==
  ASSUME SlotsInv, event' = NoEvent, UNCHANGED <<inbox, seated, nextPid>>,
         using' \in [Slots -> Pids \cup {NoPid}],
         \A s \in Slots : \/ using'[s] \in {using[s], NoPid}
                          \/ event.kind = "join" /\ using'[s] = event.pid,
         scan' = <<>>
  PROVE  SlotsInv'
<1> USE SlotsAssumption
<1>1. Types'
  BY DEF SlotsInv, Types
<1>2. nextPid > NoPid
  BY DEF SlotsInv, Types, NoPid
<1>3. Numbered'
  <2>1. \A s \in Slots : using'[s] < nextPid
    BY <1>2 DEF SlotsInv, Numbered
  <2>2. event'.kind = "none"
    BY DEF NoEvent
  <2>3. QED
    BY <2>1, <2>2 DEF SlotsInv, Numbered, InGame
<1>4. \A i \in 1..Len(inbox) : inbox[i].pid # NoPid
  BY MessageFacts DEF SlotsInv, Types, Pids, NoPid
<1>5. ArriveOnce'
  BY <1>4 DEF SlotsInv, ArriveOnce, NoEvent
<1>6. ChosenFree'
  BY DEF ChosenFree
<1>7. QED
  BY <1>1, <1>3, <1>5, <1>6 DEF SlotsInv

\* Who is not at work on an arrival is not in the loop either.
LEMMA OutsideLoop ==
  ASSUME SlotsInv, event.kind # "join"
  PROVE  scan = <<>>
BY DEF SlotsInv, ChosenFree

LEMMA LeaveInv ==
  ASSUME SlotsInv, Leave
  PROVE  SlotsInv'
<1>1. /\ event.kind = "leave" /\ event' = NoEvent /\ scan' = scan
      /\ UNCHANGED <<inbox, seated, nextPid>>
      /\ using' = ClearPlayerSlot(event.pid) \/ using' = using
  BY DEF Leave, Done, serverVars
<1>2. /\ using' \in [Slots -> Pids \cup {NoPid}]
      /\ \A s \in Slots : using'[s] \in {using[s], NoPid}
  <2>1. UsedBy(event.pid) # {} => Lowest(UsedBy(event.pid)) \in Slots
    BY LowestFacts DEF UsedBy
  <2>2. QED
    BY <1>1, <2>1 DEF SlotsInv, Types, ClearPlayerSlot
<1>3. scan' = <<>>
  BY <1>1, OutsideLoop
<1>4. QED
  BY <1>1, <1>2, <1>3, DoneInv

LEMMA LoadDeckInv ==
  ASSUME SlotsInv, LoadDeck
  PROVE  SlotsInv'
<1>1. /\ event.kind = "deck" /\ event' = NoEvent
      /\ UNCHANGED <<inbox, seated, nextPid, using, scan>>
  BY DEF LoadDeck, Done, serverVars, slotVars
<1>2. scan' = <<>>
  BY <1>1, OutsideLoop
<1>3. QED
  BY <1>1, <1>2, DoneInv DEF SlotsInv, Types

LEMMA JoinInv ==
  ASSUME SlotsInv, Join
  PROVE  SlotsInv'
<1>1. /\ event.kind = "join" /\ scan = <<>>
      /\ UNCHANGED <<inbox, seated, nextPid, using, enabled, copy>>
      /\ \/ scan' = <<1, NoSlot, FALSE>> /\ event' = event
         \/ event' = NoEvent /\ scan' = scan
  BY DEF Join, Done, serverVars, slotVars
<1>2. CASE scan' = <<1, NoSlot, FALSE>> /\ event' = event
  <2>1. <<1, NoSlot, FALSE>> \in (1..(PlayerCount + 1)) \X (Slots \cup {NoSlot}) \X BOOLEAN
    <3>1. 1 \in 1..(PlayerCount + 1) /\ NoSlot \in Slots \cup {NoSlot} /\ FALSE \in BOOLEAN
      BY SlotsAssumption
    <3>2. QED
      BY <3>1, Zenon
  <2>2. Types' /\ Numbered' /\ ArriveOnce'
    BY <1>1, <1>2, <2>1 DEF SlotsInv, Types, Numbered, ArriveOnce, InGame
  <2>3. ChosenFree'
    BY <1>1, <1>2 DEF ChosenFree
  <2>4. QED
    BY <2>2, <2>3 DEF SlotsInv
<1>3. CASE event' = NoEvent /\ scan' = scan
  BY <1>1, <1>3, DoneInv DEF SlotsInv, Types
<1>4. QED
  BY <1>1, <1>2, <1>3

\* A turn of the loop chooses a slot that is free, if it sees the slots.
LEMMA IsPlayerAllowedInv ==
  ASSUME SlotsInv, IsPlayerAllowed
  PROVE  SlotsInv'
<1>1. /\ scan # <<>> /\ scan[1] <= PlayerCount
      /\ UNCHANGED <<inbox, seated, nextPid, using, enabled, copy, event>>
  BY DEF IsPlayerAllowed, serverVars, slotVars
<1>2. PICK admits \in BOOLEAN, matches \in BOOLEAN :
        /\ ~Dangling => (admits => using[scan[1]] = NoPid)
        /\ scan' = <<scan[1] + 1, IF admits THEN scan[1] ELSE scan[2], matches>>
  BY DEF IsPlayerAllowed, ScanSlot, Free
<1>3. scan[1] \in Slots /\ scan[1] + 1 \in 1..(PlayerCount + 1) /\ scan[2] \in Slots \cup {NoSlot}
  BY <1>1, SlotsAssumption DEF SlotsInv, Types, Slots
<1>4. Types'
  BY <1>1, <1>2, <1>3 DEF SlotsInv, Types
<1>5. Numbered' /\ ArriveOnce'
  BY <1>1 DEF SlotsInv, Numbered, ArriveOnce, InGame
<1>6. ChosenFree'
  <2>1. event.kind = "join"
    BY <1>1 DEF SlotsInv, ChosenFree
  <2>2. scan[2] # NoSlot /\ ~Dangling => using[scan[2]] = NoPid
    BY <1>1 DEF SlotsInv, ChosenFree
  <2>3. ~Dangling' => ~Dangling
    BY <1>1 DEF Dangling
  <2>4. scan'[2] = IF admits THEN scan[1] ELSE scan[2]
    BY <1>2
  <2>5. scan'[2] # NoSlot /\ ~Dangling' => using[scan'[2]] = NoPid
    BY <1>2, <2>2, <2>3, <2>4
  <2>6. QED
    BY <1>1, <2>1, <2>5 DEF ChosenFree
<1>7. QED
  BY <1>4, <1>5, <1>6 DEF SlotsInv

LEMMA TakeSlotInv ==
  ASSUME SlotsInv, TakeSlot
  PROVE  SlotsInv'
<1>1. /\ scan # <<>> /\ scan' = <<>> /\ event' = NoEvent
      /\ UNCHANGED <<inbox, seated, nextPid>>
      /\ \/ using' = using
         \/ scan[2] # NoSlot /\ using' = [using EXCEPT ![scan[2]] = event.pid]
  <2>1. /\ scan # <<>> /\ scan' = <<>> /\ Done
        /\ UNCHANGED <<inbox, seated, nextPid>>
    BY DEF TakeSlot, serverVars
  <2>2. \/ scan[2] # NoSlot /\ using' = IF Dangling THEN using
                                           ELSE [using EXCEPT ![scan[2]] = event.pid]
        \/ UNCHANGED using
    BY Zenon DEF TakeSlot
  <2>3. QED
    BY <2>1, <2>2 DEF Done
<1>2. event.kind = "join" /\ event \in Message /\ event.pid \in Pids
  BY <1>1, MessageFacts DEF SlotsInv, ChosenFree, Types, NoEvent
<1>3. /\ using' \in [Slots -> Pids \cup {NoPid}]
      /\ \A s \in Slots : using'[s] \in {using[s], event.pid}
  BY <1>1, <1>2 DEF SlotsInv, Types
<1>4. QED
  BY <1>1, <1>2, <1>3, DoneInv

\* The requests leave the events alone, and only free the slots.
LEMMA RequestInv ==
  ASSUME SlotsInv, Request
  PROVE  SlotsInv'
<1>1. UNCHANGED <<inbox, seated, nextPid, using, event, scan>>
  BY DEF Request, RenameSlot, KickPlayer, Disable, botVars, serverVars, slotVars
<1>2. ~Dangling' => ~Dangling
  BY DEF Request, RenameSlot, KickPlayer, Disable, botVars, slotVars, Dangling
<1>3. Types' /\ Numbered' /\ ArriveOnce'
  BY <1>1 DEF SlotsInv, Types, Numbered, ArriveOnce, InGame
<1>4. ChosenFree'
  BY <1>1, <1>2 DEF SlotsInv, ChosenFree
<1>5. QED
  BY <1>3, <1>4 DEF SlotsInv

\* What holds of the slots holds always.
THEOREM SlotsInvariant == Spec => []SlotsInv
<1>1. Init => SlotsInv
  BY InitInv
<1>2. SlotsInv /\ [Next]_vars => SlotsInv'
  <2> SUFFICES ASSUME SlotsInv, [Next]_vars  PROVE SlotsInv'
    OBVIOUS
  <2>1. CASE BotStep
    BY <2>1, ReceiveInv, JoinInv, IsPlayerAllowedInv, TakeSlotInv, LeaveInv, LoadDeckInv
    DEF BotStep
  <2>2. CASE Request
    BY <2>2, RequestInv
  <2>3. CASE Server
    BY <2>3, ServerJoinsInv, ServerLeavesInv, ServerLoadsInv DEF Server
  <2>4. CASE UNCHANGED vars
    BY <2>4 DEF vars, slotVars, botVars, serverVars, SlotsInv, Types, Numbered, ArriveOnce,
                ChosenFree, InGame, Dangling
  <2>5. QED
    BY <2>1, <2>2, <2>3, <2>4 DEF Next
<1>3. QED
  BY <1>1, <1>2, PTL DEF Spec

-----------------------------------------------------------------------------
\* The slots implement Seating.

\* Who takes a slot had none, and the slot was free; or a slot is given back.
LEMMA StepOfSeats ==
  ASSUME SlotsInv, [Next]_vars
  PROVE  [Seats!Next]_using
<1> USE DEF Seats!Next, Seats!Sit, Seats!Leave
<1>1. CASE TakeSlot
  <2>1. /\ scan # <<>>
        /\ \/ using' = using
           \/ /\ scan[2] # NoSlot /\ ~Dangling
              /\ using' = [using EXCEPT ![scan[2]] = event.pid]
    BY <1>1 DEF TakeSlot
  <2>2. event.kind = "join" /\ event.pid \in Pids /\ \A s \in Slots : using[s] # event.pid
    BY <2>1, MessageFacts DEF SlotsInv, ChosenFree, Types, NoEvent, ArriveOnce
  <2>3. CASE scan[2] # NoSlot /\ ~Dangling /\ using' = [using EXCEPT ![scan[2]] = event.pid]
    <3>1. scan[2] \in Slots /\ using[scan[2]] = NoPid
      BY <2>1, <2>3 DEF SlotsInv, Types, ChosenFree
    <3>2. QED
      BY <2>2, <2>3, <3>1
  <2>4. QED
    BY <2>1, <2>3
<1>2. CASE Leave
  <2>1. using' = using \/ using' = ClearPlayerSlot(event.pid)
    BY <1>2 DEF Leave
  <2>2. event.pid # NoPid
    BY <1>2, MessageFacts DEF Leave, SlotsInv, Types, NoEvent, Pids, NoPid
  <2>3. CASE UsedBy(event.pid) # {} /\ using' = ClearPlayerSlot(event.pid)
    <3> DEFINE s == Lowest(UsedBy(event.pid))
    <3>1. s \in Slots /\ using[s] = event.pid
      BY <2>3, LowestFacts DEF UsedBy
    <3>2. using' = [using EXCEPT ![s] = NoPid]
      BY <2>3 DEF ClearPlayerSlot
    <3> HIDE DEF s
    <3>3. QED
      BY <2>2, <3>1, <3>2
  <2>4. QED
    BY <2>1, <2>3 DEF ClearPlayerSlot
<1>3. CASE UNCHANGED using
  BY <1>3
<1>4. CASE Receive \/ Join \/ IsPlayerAllowed \/ LoadDeck
  BY <1>4 DEF Receive, Join, IsPlayerAllowed, LoadDeck, slotVars
<1>5. CASE Request
  BY <1>5 DEF Request, RenameSlot, KickPlayer, Disable, slotVars
<1>6. CASE Server
  BY <1>6 DEF Server, ServerJoins, ServerLeaves, ServerLoads, Says, slotVars
<1>7. CASE UNCHANGED vars
  BY <1>7 DEF vars, slotVars
<1>8. QED
  BY <1>1, <1>2, <1>4, <1>5, <1>6, <1>7 DEF Next, BotStep

\* player_deck_info.c seats players as Seating says: nobody is moved or replaced,
\* and who has a slot takes no other.
THEOREM SlotsImplementSeating == Spec => ImplementsSeating
<1>1. Init => Seats!Init
  BY DEF Init, Seats!Init
<1>2. SlotsInv /\ [Next]_vars => [Seats!Next]_using
  BY StepOfSeats
<1>3. QED
  BY <1>1, <1>2, SlotsInvariant, PTL DEF Spec, ImplementsSeating, Seats!Spec

\* No player has two slots.
THEOREM OneSlotEachHolds == Spec => []OneSlotEach
<1>1. Init => OneSlotEach
  BY DEF Init, OneSlotEach
<1>2. SlotsInv /\ OneSlotEach /\ [Next]_vars => OneSlotEach'
  <2> SUFFICES ASSUME SlotsInv, OneSlotEach, [Seats!Next]_using  PROVE OneSlotEach'
    BY StepOfSeats
  <2>1. CASE \E s \in Slots : Seats!Leave(s)
    BY <2>1 DEF Seats!Leave, OneSlotEach, SlotsInv, Types
  <2>2. CASE \E s \in Slots, p \in Pids : Seats!Sit(p, s)
    BY <2>2 DEF Seats!Sit, OneSlotEach, SlotsInv, Types
  <2>3. QED
    BY <2>1, <2>2 DEF Seats!Next, OneSlotEach
<1>3. QED
  BY <1>1, <1>2, SlotsInvariant, PTL DEF Spec

-----------------------------------------------------------------------------
\* Nobody plays unchecked.

\* Who is said to have left is not in the game.
Told ==
  /\ \A i \in 1..Len(inbox) : inbox[i].kind = "leave" => ~InGame(inbox[i].pid)
  /\ event.kind = "leave" => ~InGame(event.pid)

\* While there are slots, the copy of the game that a message is worked on has them.
Copied ==
  enabled => /\ event.kind # "none" => copy.data
             /\ inbox # <<>> => inbox[1].first \/ copy.data

\* What the server does: one more message, which tells of a player who joined,
\* or of one who left.
LEMMA ServerFacts ==
  ASSUME SlotsInv, Server
  PROVE  /\ \E m \in Message :
              /\ inbox = <<>> => m.first
              /\ inbox' = Append(inbox, m)
              /\ \A p \in Pids : InGame(p)' =>
                   InGame(p) \/ (m.kind = "join" /\ m.pid = p /\ p = nextPid)
              /\ m.kind = "leave" => ~InGame(m.pid)'
         /\ UNCHANGED <<using, event, scan, copy, enabled, kicks>>
<1>1. ASSUME NEW e \in Message, e.first, Says(e),
             \A p \in Pids : InGame(p)' =>
               InGame(p) \/ (e.kind = "join" /\ e.pid = p /\ p = nextPid),
             e.kind = "leave" => ~InGame(e.pid)'
      PROVE  /\ \E m \in Message :
                  /\ inbox = <<>> => m.first
                  /\ inbox' = Append(inbox, m)
                  /\ \A p \in Pids : InGame(p)' =>
                       InGame(p) \/ (m.kind = "join" /\ m.pid = p /\ p = nextPid)
                  /\ m.kind = "leave" => ~InGame(m.pid)'
             /\ UNCHANGED <<using, event, scan, copy, enabled, kicks>>
  <2>1. PICK m \in Message : /\ m.kind = e.kind /\ m.pid = e.pid
                             /\ inbox = <<>> => m.first
                             /\ inbox' = Append(inbox, m)
    BY <1>1, SaysFacts DEF SlotsInv
  <2>2. m.kind = "leave" => ~InGame(m.pid)'
    BY <1>1, <2>1
  <2>3. \A p \in Pids : InGame(p)' =>
          InGame(p) \/ (m.kind = "join" /\ m.pid = p /\ p = nextPid)
    BY <1>1, <2>1
  <2>4. UNCHANGED <<using, event, scan, copy, enabled, kicks>>
    BY <1>1, SaysFacts DEF SlotsInv
  <2>5. QED
    BY <2>1, <2>2, <2>3, <2>4
<1>2. ASSUME NEW name \in Users, ServerJoins(name)
      PROVE  \E e \in Message :
               /\ e.first /\ Says(e) /\ e.kind = "join"
               /\ \A p \in Pids : InGame(p)' => InGame(p) \/ (e.pid = p /\ p = nextPid)
  <2> DEFINE e == [first |-> TRUE, kind |-> "join", pid |-> nextPid, name |-> name,
                   ping |-> TRUE]
  <2>1. e \in Message /\ e.first /\ e.kind = "join" /\ e.pid = nextPid /\ Says(e)
    BY <1>2 DEF Message, ServerJoins, SlotsInv, Types, Pids
  <2>2. \A p \in Pids : InGame(p)' => InGame(p) \/ p = nextPid
    BY <1>2 DEF ServerJoins, InGame, SlotsInv, Types
  <2> HIDE DEF e
  <2>3. QED
    BY <2>1, <2>2
<1>3. ASSUME NEW q \in Pids, ServerLeaves(q)
      PROVE  \E e \in Message : /\ e.first /\ Says(e) /\ e.kind = "leave" /\ ~InGame(e.pid)'
                                /\ \A p \in Pids : InGame(p)' => InGame(p)
  <2> DEFINE e == [first |-> TRUE, kind |-> "leave", pid |-> q]
  <2>1. e \in Message /\ e.first /\ e.kind = "leave" /\ e.pid = q /\ Says(e)
    BY <1>3 DEF Message, ServerLeaves
  <2>2. ~InGame(q)' /\ \A p \in Pids : InGame(p)' => InGame(p)
    BY <1>3 DEF ServerLeaves, InGame, SlotsInv, Types
  <2> HIDE DEF e
  <2>3. QED
    BY <2>1, <2>2
<1>4. ASSUME NEW q \in Pids, NEW deck \in Decks, ServerLoads(q, deck)
      PROVE  \E e \in Message : /\ e.first /\ Says(e) /\ e.kind = "deck"
                                /\ \A p \in Pids : InGame(p)' => InGame(p)
  <2> DEFINE e == [first |-> TRUE, kind |-> "deck", pid |-> q, deck |-> deck]
  <2>1. e \in Message /\ e.first /\ e.kind = "deck" /\ Says(e)
    BY <1>4 DEF Message, ServerLoads
  <2>2. \A p \in Pids : InGame(p)' => InGame(p)
    BY <1>4 DEF ServerLoads, InGame
  <2> HIDE DEF e
  <2>3. QED
    BY <2>1, <2>2
<1>5. QED
  BY <1>1, <1>2, <1>3, <1>4 DEF Server

\* What the messages say of players who left is kept by every step.
LEMMA ToldKept ==
  ASSUME SlotsInv, Told, [Next]_vars
  PROVE  Told'
<1>1. CASE Receive
  <2>1. /\ inbox # <<>> /\ event' = Head(inbox) /\ inbox' = Tail(inbox) /\ seated' = seated
    BY <1>1 DEF Receive
  <2>2. inbox \in Seq(Message)
    BY DEF SlotsInv, Types
  <2>3. /\ event' = inbox[1] /\ 1 \in 1..Len(inbox)
        /\ \A i \in 1..Len(inbox') : inbox'[i] = inbox[i + 1] /\ i + 1 \in 1..Len(inbox)
    BY <2>1, <2>2, HeadTailProperties
  <2>4. QED
    BY <2>1, <2>3 DEF Told, InGame
<1>2. CASE BotStep /\ ~Receive
  <2>1. inbox' = inbox /\ seated' = seated /\ (event' = event \/ event' = NoEvent)
    BY <1>2 DEF BotStep, Join, IsPlayerAllowed, TakeSlot, Leave, LoadDeck, Done, serverVars
  <2>2. QED
    BY <2>1 DEF Told, InGame, NoEvent
<1>3. CASE Request
  BY <1>3 DEF Request, RenameSlot, KickPlayer, Disable, botVars, serverVars, Told, InGame
<1>4. CASE Server
  <2>1. PICK m \in Message :
          /\ inbox' = Append(inbox, m)
          /\ \A p \in Pids : InGame(p)' => InGame(p) \/ p = nextPid
          /\ m.kind = "leave" => ~InGame(m.pid)'
    BY <1>4, ServerFacts
  <2>2. event' = event
    BY <1>4, ServerFacts
  <2>3. /\ Len(inbox) \in Nat /\ Len(inbox') = Len(inbox) + 1
        /\ \A i \in 1..Len(inbox) : inbox'[i] = inbox[i]
        /\ inbox'[Len(inbox) + 1] = m
    BY <2>1, AppendFacts DEF SlotsInv
  <2>4. \A i \in 1..Len(inbox) : inbox[i].pid \in Pids /\ inbox[i].pid # nextPid
    <3> SUFFICES ASSUME NEW i \in 1..Len(inbox)
                 PROVE  inbox[i].pid \in Pids /\ inbox[i].pid # nextPid
      OBVIOUS
    <3>1. inbox[i] \in Message /\ inbox[i].pid < nextPid
      BY DEF SlotsInv, Types, Numbered
    <3>2. QED
      BY <3>1, MessageFacts, SlotsAssumption DEF SlotsInv, Types, Pids
  <2>5. event.kind = "leave" => event.pid \in Pids /\ event.pid # nextPid
    BY MessageFacts, SlotsAssumption DEF SlotsInv, Types, Numbered, NoEvent, Pids
  <2>6. QED
    BY <2>1, <2>2, <2>3, <2>4, <2>5 DEF Told
<1>5. CASE UNCHANGED vars
  BY <1>5 DEF vars, botVars, serverVars, Told, InGame
<1>6. QED
  BY <1>1, <1>2, <1>3, <1>4, <1>5 DEF Next

\* While there are slots, a message is worked on with a copy that has them.
LEMMA CopiedKept ==
  ASSUME SlotsInv, Copied, [Next]_vars
  PROVE  Copied'
<1>1. CASE Receive
  <2>1. /\ inbox # <<>> /\ inbox' = Tail(inbox) /\ enabled' = enabled
        /\ copy'.data = IF Head(inbox).first THEN enabled ELSE copy.data
    BY <1>1 DEF Receive, slotVars
  <2>2. Head(inbox) = inbox[1]
    BY <2>1 DEF SlotsInv, Types
  <2>3. enabled => copy'.data
    <3> SUFFICES ASSUME enabled  PROVE copy'.data
      OBVIOUS
    <3>1. CASE inbox[1].first
      BY <2>1, <2>2, <3>1
    <3>2. CASE ~inbox[1].first
      BY <2>1, <2>2, <3>2 DEF Copied
    <3>3. QED
      BY <3>1, <3>2
  <2>4. QED
    BY <2>1, <2>3 DEF Copied
<1>2. CASE BotStep /\ ~Receive
  <2>1. UNCHANGED <<inbox, enabled, copy>> /\ (event' = event \/ event' = NoEvent)
    BY <1>2 DEF BotStep, Join, IsPlayerAllowed, TakeSlot, Leave, LoadDeck, Done, serverVars,
                slotVars
  <2>2. QED
    BY <2>1 DEF Copied, NoEvent
<1>3. CASE Request
  <2>1. UNCHANGED <<inbox, copy, event>> /\ (enabled' => enabled)
    BY <1>3 DEF Request, RenameSlot, KickPlayer, Disable, botVars, serverVars, slotVars
  <2>2. QED
    BY <2>1 DEF Copied
<1>4. CASE Server
  <2>1. /\ \E m \in Message : (inbox = <<>> => m.first) /\ inbox' = Append(inbox, m)
        /\ UNCHANGED <<event, copy, enabled>>
    BY <1>4, ServerFacts
  <2>2. PICK m \in Message : (inbox = <<>> => m.first) /\ inbox' = Append(inbox, m)
    BY <2>1
  <2>3. CASE inbox = <<>>
    BY <2>1, <2>2, <2>3 DEF Copied
  <2>4. CASE inbox # <<>>
    <3>1. inbox'[1] = inbox[1]
      BY <2>2, <2>4 DEF SlotsInv, Types
    <3>2. QED
      BY <2>1, <2>4, <3>1 DEF Copied
  <2>5. QED
    BY <2>3, <2>4
<1>5. CASE UNCHANGED vars
  BY <1>5 DEF vars, slotVars, botVars, serverVars, Copied
<1>6. QED
  BY <1>1, <1>2, <1>3, <1>4, <1>5 DEF Next

\* A step after which every player who was checked, or is being kicked, still is.
LEMMA StillChecked ==
  ASSUME UncheckedKicked, NEW p \in Pids, enabled' => enabled,
         InGame(p)' => InGame(p), Pending("join", p) => Pending("join", p)',
         UsedBy(p) # {} => UsedBy(p)' # {}, p \in kicks => p \in kicks'
  PROVE  enabled' /\ InGame(p)' /\ ~Pending("join", p)' => UsedBy(p)' # {} \/ p \in kicks'
BY Zenon DEF UncheckedKicked

LEMMA CheckedTakeSlot ==
  ASSUME SlotsInv, UncheckedKicked, TakeSlot
  PROVE  UncheckedKicked'
<1> SUFFICES ASSUME enabled, NEW p \in Pids, InGame(p), ~Pending("join", p)'
             PROVE  UsedBy(p)' # {} \/ p \in kicks'
  BY DEF TakeSlot, UncheckedKicked, serverVars, InGame
<1>1. /\ scan # <<>> /\ inbox' = inbox /\ seated' = seated
      /\ \/ /\ scan[2] # NoSlot /\ kicks' = kicks
            /\ using' = [using EXCEPT ![scan[2]] = event.pid]
         \/ using' = using /\ kicks' = kicks \cup {event.pid}
  BY DEF TakeSlot, serverVars, Dangling
<1>2. scan[2] # NoSlot => scan[2] \in Slots /\ using[scan[2]] = NoPid
  BY <1>1 DEF SlotsInv, ChosenFree, Types, Dangling
<1>3. CASE p = event.pid
  BY <1>1, <1>2, <1>3 DEF UsedBy, SlotsInv, Types
<1>4. CASE p # event.pid
  <2>1. ~Pending("join", p)
    BY <1>1, <1>4 DEF Pending
  <2>2. UsedBy(p) # {} \/ p \in kicks
    BY <2>1 DEF UncheckedKicked
  <2>3. UsedBy(p) # {} => UsedBy(p)' # {}
    BY <1>1, <1>2 DEF UsedBy, SlotsInv, Types, Pids, NoPid
  <2>4. QED
    BY <1>1, <2>2, <2>3
<1>5. QED
  BY <1>3, <1>4

LEMMA CheckedLeave ==
  ASSUME SlotsInv, Told, UncheckedKicked, Leave
  PROVE  UncheckedKicked'
<1> SUFFICES ASSUME enabled, NEW p \in Pids, InGame(p), ~Pending("join", p)'
             PROVE  UsedBy(p)' # {} \/ p \in kicks'
  BY DEF Leave, UncheckedKicked, serverVars, InGame
<1>1. /\ event.kind = "leave" /\ inbox' = inbox /\ kicks' = kicks
      /\ using' = ClearPlayerSlot(event.pid) \/ using' = using
  BY DEF Leave, serverVars
<1>2. p # event.pid
  BY <1>1 DEF Told
<1>3. UsedBy(p) # {} \/ p \in kicks
  BY <1>1 DEF UncheckedKicked, Pending
<1>4. UsedBy(p) # {} => UsedBy(p)' # {}
  <2>1. UsedBy(event.pid) # {} =>
          Lowest(UsedBy(event.pid)) \in Slots /\ using[Lowest(UsedBy(event.pid))] = event.pid
    BY LowestFacts DEF UsedBy
  <2>2. \A s \in Slots : using[s] = p => using'[s] = p
    BY <1>1, <1>2, <2>1 DEF ClearPlayerSlot, SlotsInv, Types
  <2>3. QED
    BY <2>2 DEF UsedBy
<1>5. QED
  BY <1>1, <1>3, <1>4

LEMMA CheckedServer ==
  ASSUME SlotsInv, UncheckedKicked, Server
  PROVE  UncheckedKicked'
<1>1. UNCHANGED <<event, using, enabled, kicks>>
  BY ServerFacts
<1>2. PICK m \in Message : /\ inbox' = Append(inbox, m)
                           /\ \A p \in Pids : InGame(p)' =>
                                InGame(p) \/ (m.kind = "join" /\ m.pid = p)
  BY ServerFacts
<1>3. /\ Len(inbox) \in Nat /\ Len(inbox') = Len(inbox) + 1
      /\ \A i \in 1..Len(inbox) : inbox'[i] = inbox[i]
      /\ inbox'[Len(inbox) + 1] = m
  BY <1>2, AppendFacts DEF SlotsInv
<1>4. ASSUME NEW p \in Pids
      PROVE  /\ Pending("join", p) => Pending("join", p)'
             /\ m.kind = "join" /\ m.pid = p => Pending("join", p)'
  BY <1>1, <1>3 DEF Pending
<1>5. \A p \in Pids : UsedBy(p)' = UsedBy(p)
  BY <1>1 DEF UsedBy
<1>6. QED
  BY <1>1, <1>2, <1>4, <1>5 DEF UncheckedKicked

LEMMA CheckedKept ==
  ASSUME SlotsInv, Told, Copied, UncheckedKicked, [Next]_vars
  PROVE  UncheckedKicked'
<1>1. CASE Receive
  <2>1. /\ event.kind = "none" /\ inbox # <<>> /\ event' = Head(inbox) /\ inbox' = Tail(inbox)
        /\ UNCHANGED <<using, enabled, seated, kicks>>
    BY <1>1 DEF Receive, NoEvent, slotVars
  <2>2. ASSUME NEW i \in 1..Len(inbox)
        PROVE  inbox[i] = event' \/ \E j \in 1..Len(inbox') : inbox'[j] = inbox[i]
    <3>1. /\ event' = inbox[1] /\ Len(inbox') = Len(inbox) - 1 /\ Len(inbox) \in Nat
          /\ \A j \in 1..Len(inbox') : inbox'[j] = inbox[j + 1]
      BY <2>1, HeadTailProperties DEF SlotsInv, Types
    <3>2. CASE i = 1
      BY <3>1, <3>2
    <3>3. CASE i # 1
      <4>1. i - 1 \in 1..Len(inbox') /\ (i - 1) + 1 = i
        BY <3>1, <3>3
      <4>2. QED
        BY <3>1, <4>1
    <3>4. QED
      BY <3>2, <3>3
  <2>3. \A p \in Pids : Pending("join", p) => Pending("join", p)'
    BY <2>1, <2>2 DEF Pending
  <2>4. QED
    BY <2>1, <2>3 DEF UncheckedKicked, UsedBy, InGame
<1>2. CASE Join \/ IsPlayerAllowed \/ LoadDeck
  <2>1. UNCHANGED <<using, enabled, seated, kicks, inbox>>
    BY <1>2 DEF Join, IsPlayerAllowed, LoadDeck, serverVars, slotVars
  <2>2. enabled => event' = event \/ event.kind # "join"
    <3>1. CASE Join
      BY <3>1 DEF Join, Copied
    <3>2. CASE IsPlayerAllowed \/ LoadDeck
      BY <3>2 DEF IsPlayerAllowed, LoadDeck
    <3>3. QED
      BY <1>2, <3>1, <3>2
  <2>3. enabled => \A p \in Pids : Pending("join", p) => Pending("join", p)'
    BY <2>1, <2>2 DEF Pending
  <2>4. QED
    BY <2>1, <2>3 DEF UncheckedKicked, UsedBy, InGame
<1>3. CASE TakeSlot
  BY <1>3, CheckedTakeSlot
<1>4. CASE Leave
  BY <1>4, CheckedLeave
<1>5. CASE Request
  <2>1. UNCHANGED <<using, seated, inbox, event>> /\ kicks \subseteq kicks' /\ (enabled' => enabled)
    BY <1>5 DEF Request, RenameSlot, KickPlayer, Disable, botVars, serverVars, slotVars
  <2>2. QED
    BY <2>1 DEF UncheckedKicked, UsedBy, InGame, Pending
<1>6. CASE Server
  BY <1>6, CheckedServer
<1>7. CASE UNCHANGED vars
  BY <1>7 DEF vars, slotVars, botVars, serverVars, UncheckedKicked, UsedBy, InGame, Pending
<1>8. QED
  BY <1>1, <1>2, <1>3, <1>4, <1>5, <1>6, <1>7 DEF Next, BotStep

\* While the deck verification is on, nobody plays who has neither a slot nor a
\* kick coming, once playerJoin was called for them.
THEOREM UncheckedKickedHolds == Spec => []UncheckedKicked
<1>1. Init => Told /\ Copied /\ UncheckedKicked
  BY DEF Init, Told, Copied, UncheckedKicked, InGame, NoEvent
<1>2. SlotsInv /\ Told /\ Copied /\ UncheckedKicked /\ [Next]_vars
        => (Told /\ Copied /\ UncheckedKicked)'
  BY ToldKept, CopiedKept, CheckedKept
<1>3. QED
  BY <1>1, <1>2, SlotsInvariant, PTL DEF Spec

-----------------------------------------------------------------------------
\* The other variables: the slots, the bot thread's list of players, and who was
\* kicked or told of a deck.

SlotTypes ==
  /\ pdi \in [Slots -> SlotType]
  /\ enabled \in BOOLEAN
  /\ players \in [Slots -> [playerID : Pids \cup {NoPid},
                        playerName : Names \cup {NoName, Unknown}]]
  /\ kicks \subseteq Pids \cup {NoPid}
  /\ warned \subseteq Pids \X Decks

\* The slot that a request renames is a slot.
LEMMA RenameTargetFacts ==
  ASSUME NEW old, RenameTarget(old) # NoSlot
  PROVE  RenameTarget(old) \in Slots
<1>1. Exact(old) \subseteq Slots /\ Wild \subseteq Slots
  BY DEF Exact, Wild
<1>2. CASE Exact(old) # {}
  BY <1>1, <1>2, LowestFacts DEF RenameTarget
<1>3. CASE Exact(old) = {} /\ Cardinality(Wild) = 1
  <2>1. Wild # {}
    BY <1>3, FS_EmptySet
  <2>2. QED
    BY <1>1, <1>3, <2>1, LowestFacts DEF RenameTarget
<1>4. QED
  BY <1>2, <1>3 DEF RenameTarget

\* What a message says besides its player.
LEMMA MessageParts ==
  ASSUME NEW m \in Message
  PROVE  /\ m.kind = "join" => m.name \in Names /\ m.name \in Users
         /\ m.kind = "deck" => m.deck \in Decks
BY SlotsAssumption DEF Message

\* The list of players keeps its type.
LEMMA TrackTypes ==
  ASSUME SlotTypes, NEW p \in Pids, NEW name \in Names, NEW ping,
         TrackJoin(p, name, ping) \/ TrackLeave(p) \/ TrackProperties(p)
  PROVE  players' \in
           [Slots -> [playerID : Pids \cup {NoPid}, playerName : Names \cup {NoName, Unknown}]]
<1> DEFINE Entry == [playerID : Pids \cup {NoPid}, playerName : Names \cup {NoName, Unknown}]
<1>1. players \in [Slots -> Entry]
  BY DEF SlotTypes
<1>2. EntryOf(p) # {} => Lowest(EntryOf(p)) \in Slots
  BY LowestFacts DEF EntryOf
<1>3. Vacant # {} => Lowest(Vacant) \in Slots
  BY LowestFacts DEF Vacant
<1>4. CASE TrackJoin(p, name, ping)
  BY <1>1, <1>2, <1>3, <1>4 DEF TrackJoin
<1>5. CASE TrackLeave(p)
  BY <1>1, <1>5 DEF TrackLeave
<1>6. CASE TrackProperties(p)
  BY <1>1, <1>3, <1>6 DEF TrackProperties
<1>7. QED
  BY <1>4, <1>5, <1>6

LEMMA SlotTypesKept ==
  ASSUME SlotsInv, SlotTypes, [Next]_vars
  PROVE  SlotTypes'
<1> DEFINE Entry == [playerID : Pids \cup {NoPid}, playerName : Names \cup {NoName, Unknown}]
<1>1. ASSUME event.kind # "none"  PROVE event \in Message /\ event.pid \in Pids
  BY <1>1, MessageFacts DEF SlotsInv, Types, NoEvent
<1>2. CASE Receive \/ IsPlayerAllowed \/ Server \/ UNCHANGED vars
  <2>1. UNCHANGED <<pdi, enabled, players, kicks, warned>>
    BY <1>2 DEF Receive, IsPlayerAllowed, Server, ServerJoins, ServerLeaves, ServerLoads, Says,
                vars, slotVars, botVars
  <2>2. QED
    BY <2>1 DEF SlotTypes
<1>3. CASE Join
  <2>1. /\ UNCHANGED <<pdi, enabled, kicks, warned>> /\ event.kind = "join"
        /\ TrackJoin(event.pid, event.name, event.ping)
    BY <1>3 DEF Join, slotVars
  <2>2. event.pid \in Pids /\ event.name \in Names
    BY <1>1, <2>1, MessageParts
  <2>3. QED
    BY <2>1, <2>2, TrackTypes DEF SlotTypes
<1>4. CASE TakeSlot
  <2>1. scan # <<>> /\ UNCHANGED <<pdi, enabled, players, warned>>
        /\ kicks' \subseteq kicks \cup {event.pid}
    BY <1>4 DEF TakeSlot
  <2>2. event.pid \in Pids
    BY <1>1, <2>1 DEF SlotsInv, ChosenFree
  <2>3. QED
    BY <2>1, <2>2 DEF SlotTypes
<1>5. CASE Leave
  <2>1. /\ UNCHANGED <<pdi, enabled, kicks, warned>> /\ event.kind = "leave"
        /\ TrackLeave(event.pid)
    BY <1>5 DEF Leave
  <2>2. players' \in [Slots -> Entry]
    <3>1. players \in [Slots -> Entry]
      BY DEF SlotTypes
    <3>2. QED
      BY <2>1, <3>1 DEF TrackLeave
  <2>3. QED
    BY <2>1, <2>2 DEF SlotTypes
<1>6. CASE LoadDeck
  <2>1. /\ UNCHANGED <<pdi, enabled, kicks>> /\ event.kind = "deck"
        /\ TrackProperties(event.pid)
        /\ warned' \subseteq warned \cup {<<event.pid, event.deck>>}
    BY <1>6 DEF LoadDeck, slotVars
  <2>2. event.pid \in Pids /\ event.deck \in Decks
    BY <1>1, <2>1, MessageParts
  <2>3. players' \in [Slots -> Entry]
    <3>1. players \in [Slots -> Entry]
      BY DEF SlotTypes
    <3>2. Vacant # {} => Lowest(Vacant) \in Slots
      BY LowestFacts DEF Vacant
    <3>3. QED
      BY <2>1, <2>2, <3>1, <3>2 DEF TrackProperties
  <2>4. QED
    BY <2>1, <2>2, <2>3 DEF SlotTypes
<1>7. ASSUME NEW old \in Names, NEW new \in Names, RenameSlot(old, new)  PROVE SlotTypes'
  <2>1. /\ UNCHANGED <<enabled, players, kicks, warned>>
        /\ pdi' = [pdi EXCEPT ![RenameTarget(old)].playerName = new]
        /\ RenameTarget(old) \in Slots
    BY <1>7, RenameTargetFacts DEF RenameSlot, botVars
  <2>2. pdi' \in [Slots -> SlotType]
    BY <2>1 DEF SlotTypes, SlotType
  <2>3. QED
    BY <2>1, <2>2 DEF SlotTypes
<1>8. ASSUME NEW name \in Names, KickPlayer(name)  PROVE SlotTypes'
  <2>1. /\ UNCHANGED <<pdi, enabled, players, warned>> /\ Called(name) # {}
        /\ kicks' = kicks \cup {players[Lowest(Called(name))].playerID}
    BY <1>8 DEF KickPlayer, slotVars
  <2>2. Lowest(Called(name)) \in Slots
    BY <2>1, LowestFacts DEF Called
  <2>3. QED
    BY <2>1, <2>2 DEF SlotTypes
<1>9. CASE Disable
  BY <1>9 DEF Disable, botVars, SlotTypes
<1>10. QED
  BY <1>2, <1>3, <1>4, <1>5, <1>6, <1>7, <1>8, <1>9 DEF Next, BotStep, Request

\* A game is created with nobody in its list of players, whatever IDs that holds.
LEMMA InitTypes == Init => SlotTypes
<1> SUFFICES ASSUME Init  PROVE SlotTypes
  OBVIOUS
<1>1. pdi \in [Slots -> SlotType]
  BY Slots0Assumption DEF Init
<1>2. PICK g \in Garbage : players = [i \in Slots |-> [playerID |-> g, playerName |-> NoName]]
  BY DEF Init
<1>3. g \in Pids \cup {NoPid}
  BY SlotsAssumption DEF Pids, NoPid
<1>4. QED
  BY <1>1, <1>2, <1>3 DEF SlotTypes, Init

\* The variables have the values that the code gives them.
THEOREM SlotsTypes == Spec => []TypeOK
<1>1. Init => SlotTypes
  BY InitTypes
<1>2. SlotsInv /\ SlotTypes /\ [Next]_vars => SlotTypes'
  BY SlotTypesKept
<1>3. SlotsInv /\ SlotTypes => TypeOK
  BY DEF SlotsInv, Types, SlotTypes, TypeOK
<1>4. QED
  BY <1>1, <1>2, <1>3, SlotsInvariant, PTL DEF Spec

-----------------------------------------------------------------------------
\* The loop of isPlayerAllowed.

\* A slot that was free for the player all the time is free still; it is behind the
\* loop only if the loop has chosen one.
LoopInv ==
  scan # <<>> =>
    /\ sure \subseteq Slots /\ own \subseteq Slots
    /\ \A s \in sure : Free(s) /\ Admits(s, event.name)
    /\ \A s \in own : Free(s) /\ NameMatches(s, event.name) /\ ~pdi[s].isEmptySlot
    /\ scan[3] => scan[2] # NoSlot
    /\ ~Dangling => /\ \A s \in sure : s < scan[1] => scan[2] # NoSlot
                    /\ \A s \in own : s < scan[1] => scan[3]

\* A turn of the loop: the slot it looks at is chosen if it was free all the time.
LEMMA LoopTurn ==
  ASSUME SlotsInv, LoopInv, IsPlayerAllowed
  PROVE  LoopInv'
<1>1. /\ scan # <<>> /\ scan[1] <= PlayerCount /\ ~scan[3]
      /\ UNCHANGED <<pdi, using, enabled, event, copy, sure, own>>
  BY DEF IsPlayerAllowed, slotVars, history
<1>2. PICK admits \in BOOLEAN, matches \in BOOLEAN :
        /\ ~Dangling => /\ admits = (Free(scan[1]) /\ Admits(scan[1], event.name))
                        /\ matches = (Free(scan[1]) /\ ~pdi[scan[1]].isEmptySlot
                                                    /\ NameMatches(scan[1], event.name))
        /\ matches => admits
        /\ scan' = <<scan[1] + 1, IF admits THEN scan[1] ELSE scan[2], matches>>
  BY DEF IsPlayerAllowed, ScanSlot
<1>3. scan[1] \in Slots /\ scan[1] # NoSlot
  BY <1>1, SlotsAssumption DEF SlotsInv, Types, Slots, NoSlot
<1>4. /\ \A s \in sure : Free(s)' /\ Admits(s, event.name)'
      /\ \A s \in own : Free(s)' /\ NameMatches(s, event.name)' /\ ~pdi'[s].isEmptySlot
      /\ sure' \subseteq Slots /\ own' \subseteq Slots
  BY <1>1 DEF LoopInv, Free, Admits, NameMatches
<1>5. /\ scan'[1] = scan[1] + 1 /\ scan'[3] = matches
      /\ scan'[2] = IF admits THEN scan[1] ELSE scan[2]
  BY <1>2
<1>6. scan'[3] => scan'[2] # NoSlot
  BY <1>2, <1>3, <1>5
<1>7. Dangling' = Dangling
  BY <1>1 DEF Dangling
<1>8. ASSUME ~Dangling, NEW s \in sure, s < scan[1] + 1  PROVE scan'[2] # NoSlot
  <2>1. CASE s = scan[1]
    BY <1>1, <1>2, <1>3, <1>5, <1>8, <2>1 DEF LoopInv
  <2>2. CASE s < scan[1]
    BY <1>1, <1>3, <1>5, <1>8, <2>2 DEF LoopInv
  <2>3. s \in Nat /\ scan[1] \in Nat
    BY <1>1, <1>3 DEF LoopInv, Slots
  <2>4. QED
    BY <1>8, <2>1, <2>2, <2>3
<1>9. ASSUME ~Dangling, NEW s \in own, s < scan[1] + 1  PROVE scan'[3]
  <2>1. CASE s = scan[1]
    BY <1>1, <1>2, <1>5, <1>9, <2>1 DEF LoopInv
  <2>2. CASE s < scan[1]
    BY <1>1, <1>9, <2>2 DEF LoopInv
  <2>3. s \in Nat /\ scan[1] \in Nat
    BY <1>1, <1>3 DEF LoopInv, Slots
  <2>4. QED
    BY <1>9, <2>1, <2>2, <2>3
<1>10. QED
  BY <1>1, <1>4, <1>5, <1>6, <1>7, <1>8, <1>9 DEF LoopInv

LEMMA LoopKept ==
  ASSUME SlotsInv, SlotTypes, LoopInv, [Next]_vars
  PROVE  LoopInv'
<1>1. CASE IsPlayerAllowed
  BY <1>1, LoopTurn
<1>2. CASE Join
  <2>1. CASE scan' = scan
    BY <1>2, <2>1 DEF Join, LoopInv
  <2>2. CASE copy.data
    <3>1. /\ scan' = <<1, NoSlot, FALSE>> /\ UNCHANGED <<pdi, using, event>>
          /\ sure' = {s \in Slots : Free(s) /\ Admits(s, event.name)}
          /\ own' = {s \in Slots : Free(s) /\ NameMatches(s, event.name) /\ ~pdi[s].isEmptySlot}
      BY <1>2, <2>2 DEF Join, slotVars
    <3>2. \A s \in Slots : ~(s < 1)
      BY DEF Slots
    <3>3. scan'[1] = 1 /\ ~scan'[3]
      BY <3>1
    <3>4. \A s \in sure' : Free(s)' /\ Admits(s, event.name)'
      BY <3>1 DEF Free, Admits, NameMatches
    <3>5. \A s \in own' : Free(s)' /\ NameMatches(s, event.name)' /\ ~pdi'[s].isEmptySlot
      BY <3>1 DEF Free, NameMatches
    <3>6. sure' \subseteq Slots /\ own' \subseteq Slots
      BY <3>1
    <3>7. QED
      BY <3>2, <3>3, <3>4, <3>5, <3>6 DEF LoopInv
  <2>3. QED
    BY <1>2, <2>1, <2>2 DEF Join
<1>3. CASE TakeSlot
  BY <1>3 DEF TakeSlot, LoopInv
<1>4. CASE Receive \/ Leave \/ LoadDeck
  <2>1. event.kind # "join" /\ scan' = scan
    BY <1>4 DEF Receive, Leave, LoadDeck, NoEvent
  <2>2. scan' = <<>>
    BY <2>1, OutsideLoop
  <2>3. QED
    BY <2>2 DEF LoopInv
<1>5. ASSUME NEW old \in Names, NEW new \in Names, RenameSlot(old, new)  PROVE LoopInv'
  <2> DEFINE t == RenameTarget(old)
  <2>1. /\ UNCHANGED <<using, enabled, event, copy, scan>>
        /\ pdi' = [pdi EXCEPT ![t].playerName = new]
        /\ sure' = sure \ {t} /\ own' = own \ {t}
    BY <1>5 DEF RenameSlot, botVars
  <2> HIDE DEF t
  <2>2. \A s \in Slots \ {t} : pdi'[s] = pdi[s]
    BY <2>1 DEF SlotTypes
  <2>3. \A s \in Slots \ {t} : /\ Free(s)' <=> Free(s)
                               /\ Admits(s, event.name)' <=> Admits(s, event.name)
                               /\ NameMatches(s, event.name)' <=> NameMatches(s, event.name)
    BY <2>1, <2>2 DEF Free, Admits, NameMatches
  <2>4. Dangling' = Dangling
    BY <2>1 DEF Dangling
  <2>5. QED
    BY <2>1, <2>2, <2>3, <2>4 DEF LoopInv
<1>6. CASE (\E name \in Names : KickPlayer(name)) \/ Disable \/ Server \/ UNCHANGED vars
  <2>1. UNCHANGED <<pdi, using, event, copy, scan, sure, own>> /\ (enabled' => enabled)
    <3>1. CASE (\E name \in Names : KickPlayer(name)) \/ Disable
      BY <3>1 DEF KickPlayer, Disable, slotVars, botVars, history
    <3>2. CASE \E e : Says(e)
      BY <3>2 DEF Says, slotVars, botVars, history
    <3>3. CASE UNCHANGED vars
      BY <3>3 DEF vars, slotVars, botVars, history
    <3>4. QED
      BY <1>6, <3>1, <3>2, <3>3 DEF Server, ServerJoins, ServerLeaves, ServerLoads
  <2>2. ~Dangling' => ~Dangling
    BY <2>1 DEF Dangling
  <2>3. QED
    BY <2>1, <2>2 DEF LoopInv, Free, Admits, NameMatches
<1>7. QED
  BY <1>1, <1>2, <1>3, <1>4, <1>5, <1>6 DEF Next, BotStep, Request

\* Whatever requests rename meanwhile: no player is turned away while a slot that
\* was free for them throughout is left, and none takes another slot than the
\* one with their name.
THEOREM ExpectedSeatedHolds == Spec => []ExpectedSeated
<1>1. Init => SlotTypes /\ LoopInv
  BY InitTypes DEF LoopInv, Init
<1>2. SlotsInv /\ SlotTypes /\ LoopInv /\ [Next]_vars => (SlotTypes /\ LoopInv)'
  BY SlotTypesKept, LoopKept
<1>3. SlotsInv /\ LoopInv => ExpectedSeated
  <2> SUFFICES ASSUME SlotsInv, LoopInv, scan # <<>>, scan[1] > PlayerCount \/ scan[3], ~Dangling
               PROVE  (sure # {} => scan[2] # NoSlot) /\ (own # {} => scan[3])
    BY DEF ExpectedSeated
  <2>1. scan[1] \in Nat /\ PlayerCount \in Nat
    BY SlotsAssumption DEF SlotsInv, Types
  <2>2. scan[1] > PlayerCount => \A s \in Slots : s < scan[1]
    BY <2>1 DEF Slots
  <2>3. QED
    BY <2>2 DEF LoopInv
<1>4. QED
  BY <1>1, <1>2, <1>3, SlotsInvariant, PTL DEF Spec

-----------------------------------------------------------------------------
\* The order of events.

Tells(i, kind, p) == inbox[i].kind = kind /\ inbox[i].pid = p

\* After the first k events in the inbox comes one of this kind about p.
Coming(kind, p, k) == \E i \in (k + 1)..Len(inbox) : Tells(i, kind, p)

\* Once the bot thread has dealt with k of them, p should be in its list of players.
InGameAfter(p, k) == (InGame(p) \/ Coming("leave", p, k)) /\ ~Coming("join", p, k)

\* Event m, which k events of the inbox precede: its player came before, and left or
\* leaves after it; who joins finds room; nothing is said twice.
InOrder(m, k) ==
  /\ ~Coming("join", m.pid, k)
  /\ m.kind \in {"join", "deck"} => InGame(m.pid) \/ Coming("leave", m.pid, k)
  /\ m.kind = "join" =>
       m.ping /\ Cardinality({p \in Pids \ {m.pid} : InGameAfter(p, k)}) < PlayerCount
  /\ m.kind = "leave" => ~InGame(m.pid) /\ ~Coming("leave", m.pid, k)
  /\ m.kind = "deck" => <<m.pid, m.deck>> \in loaded /\ ~Coming("deck", m.pid, k)

Orderly ==
  /\ event.kind # "none" => InOrder(event, 0)
  /\ \A k \in 1..Len(inbox) : InOrder(inbox[k], k)

\* What the server does: it adds m to the inbox, because a player came, left, or
\* loaded a deck.
Sent(m) ==
  /\ inbox' = Append(inbox, m)
  /\ \/ m.first /\ unseen' = unseen
     \/ /\ ~m.first /\ \E i \in 1..Len(inbox) : inbox[i].first
        /\ unseen' = IF JoinedInLast(m.pid) THEN unseen \cup {m.pid} ELSE unseen
  /\ UNCHANGED <<slotVars, botVars, history, renames>>

Arrives(m) ==
  /\ m.kind = "join" /\ m.ping /\ m.pid = nextPid
  /\ Cardinality({p \in Pids : InGame(p)}) < PlayerCount
  /\ \A p \in Pids : InGame(p)' <=> InGame(p) \/ p = nextPid
  /\ nextPid' = nextPid + 1 /\ loaded' = loaded

Departs(m) ==
  /\ m.kind = "leave" /\ InGame(m.pid)
  /\ \A p \in Pids : InGame(p)' <=> InGame(p) /\ p # m.pid
  /\ nextPid' = nextPid /\ loaded' = loaded

Loads(m) ==
  /\ m.kind = "deck" /\ InGame(m.pid)
  /\ \A d \in Decks : <<m.pid, d>> \notin loaded
  /\ \A p \in Pids : InGame(p)' <=> InGame(p)
  /\ nextPid' = nextPid /\ loaded' = loaded \cup {<<m.pid, m.deck>>}

Reports(m) == Sent(m) /\ (Arrives(m) \/ Departs(m) \/ Loads(m))

LEMMA SaysSent ==
  ASSUME NEW e \in Message, e.first, Says(e)
  PROVE  \E m \in Message : /\ Sent(m) /\ m.kind = e.kind /\ m.pid = e.pid
                            /\ m.kind = "join" => m.ping = e.ping
                            /\ m.kind = "deck" => m.deck = e.deck
<1>1. CASE inbox' = Append(inbox, e) /\ UNCHANGED unseen
  BY <1>1 DEF Says, Sent
<1>2. CASE /\ \E i \in 1..Len(inbox) : inbox[i].first
           /\ inbox' = Append(inbox, [e EXCEPT !.first = FALSE])
           /\ unseen' = IF JoinedInLast(e.pid) THEN unseen \cup {e.pid} ELSE unseen
  <2> DEFINE m == [e EXCEPT !.first = FALSE]
  <2>1. /\ m \in Message /\ ~m.first /\ m.kind = e.kind /\ m.pid = e.pid
        /\ m.kind = "join" => m.ping = e.ping
        /\ m.kind = "deck" => m.deck = e.deck
    BY DEF Message
  <2>2. inbox' = Append(inbox, m)
    BY <1>2
  <2> HIDE DEF m
  <2>3. Sent(m)
    BY <1>2, <2>1, <2>2 DEF Says, Sent
  <2>4. QED
    BY <2>1, <2>3
<1>3. QED
  BY <1>1, <1>2 DEF Says

LEMMA ServerReports ==
  ASSUME SlotsInv, Server
  PROVE  \E m \in Message : Reports(m)
<1>1. ASSUME NEW name \in Users, ServerJoins(name)
      PROVE  \E m \in Message : Reports(m)
  <2> DEFINE e == [first |-> TRUE, kind |-> "join", pid |-> nextPid, name |-> name,
                   ping |-> TRUE]
  <2>1. nextPid \in Pids
    BY <1>1 DEF ServerJoins, SlotsInv, Types, Pids
  <2>2. e \in Message /\ e.first /\ e.kind = "join" /\ e.pid = nextPid /\ e.ping /\ Says(e)
    BY <1>1, <2>1 DEF Message, ServerJoins
  <2> HIDE DEF e
  <2>3. PICK m \in Message : Sent(m) /\ m.kind = "join" /\ m.pid = nextPid /\ m.ping
    BY <2>2, SaysSent
  <2>4. name # NoName
    BY SlotsAssumption, Slots0Assumption
  <2>5. Arrives(m)
    BY <1>1, <2>1, <2>3, <2>4 DEF ServerJoins, Arrives, InGame, SlotsInv, Types
  <2>6. QED
    BY <2>3, <2>5 DEF Reports
<1>2. ASSUME NEW q \in Pids, ServerLeaves(q)
      PROVE  \E m \in Message : Reports(m)
  <2> DEFINE e == [first |-> TRUE, kind |-> "leave", pid |-> q]
  <2>1. e \in Message /\ e.first /\ e.kind = "leave" /\ e.pid = q /\ Says(e)
    BY <1>2 DEF Message, ServerLeaves
  <2> HIDE DEF e
  <2>2. PICK m \in Message : Sent(m) /\ m.kind = "leave" /\ m.pid = q
    BY <2>1, SaysSent
  <2>3. Departs(m)
    BY <1>2, <2>2 DEF ServerLeaves, Departs, InGame, SlotsInv, Types
  <2>4. QED
    BY <2>2, <2>3 DEF Reports
<1>3. ASSUME NEW q \in Pids, NEW deck \in Decks, ServerLoads(q, deck)
      PROVE  \E m \in Message : Reports(m)
  <2> DEFINE e == [first |-> TRUE, kind |-> "deck", pid |-> q, deck |-> deck]
  <2>1. e \in Message /\ e.first /\ e.kind = "deck" /\ e.pid = q /\ e.deck = deck /\ Says(e)
    BY <1>3 DEF Message, ServerLoads
  <2> HIDE DEF e
  <2>2. PICK m \in Message : Sent(m) /\ m.kind = "deck" /\ m.pid = q /\ m.deck = deck
    BY <2>1, SaysSent
  <2>3. Loads(m)
    BY <1>3, <2>2 DEF ServerLoads, Loads, InGame
  <2>4. QED
    BY <2>2, <2>3 DEF Reports
<1>4. QED
  BY <1>1, <1>2, <1>3 DEF Server

\* What is to come when an event is added, and when the first one is taken.
LEMMA ComingAppended ==
  ASSUME Types, NEW m \in Message, Sent(m), NEW k \in 0..Len(inbox), NEW kind, NEW p
  PROVE  Coming(kind, p, k)' <=> Coming(kind, p, k) \/ (m.kind = kind /\ m.pid = p)
<1>1. PICK n : n = Len(inbox)
  OBVIOUS
<1>2. /\ n \in Nat /\ Len(inbox') = n + 1
      /\ \A i \in 1..n : inbox'[i] = inbox[i]
      /\ inbox'[n + 1] = m
  BY <1>1, AppendFacts DEF Sent
<1>3. \A i \in (k + 1)..n : i \in (k + 1)..(n + 1) /\ (Tells(i, kind, p)' <=> Tells(i, kind, p))
  BY <1>1, <1>2 DEF Tells
<1>4. n + 1 \in (k + 1)..(n + 1) /\ (Tells(n + 1, kind, p)' <=> m.kind = kind /\ m.pid = p)
  BY <1>1, <1>2 DEF Tells
<1>5. \A i \in (k + 1)..(n + 1) : i \in (k + 1)..n \/ i = n + 1
  BY <1>1, <1>2
<1>6. /\ Coming(kind, p, k)' <=> \E i \in (k + 1)..(n + 1) : Tells(i, kind, p)'
      /\ Coming(kind, p, k) <=> \E i \in (k + 1)..n : Tells(i, kind, p)
  BY <1>1, <1>2 DEF Coming
<1>7. QED
  BY <1>3, <1>4, <1>5, <1>6

\* The first event is taken.
LEMMA TailFacts ==
  ASSUME SlotsInv, Receive
  PROVE  /\ event.kind = "none" /\ event' = inbox[1] /\ inbox[1] \in Message
         /\ Len(inbox) \in Nat \ {0} /\ Len(inbox') = Len(inbox) - 1
         /\ \A i \in 1..Len(inbox') : inbox'[i] = inbox[i + 1] /\ i + 1 \in 1..Len(inbox)
         /\ scan = <<>> /\ scan' = <<>>
         /\ UNCHANGED <<using, pdi, enabled, players, warned, kicks, seated, loaded, unseen,
                        nextPid>>
<1>1. event = NoEvent /\ inbox # <<>> /\ event' = Head(inbox) /\ inbox' = Tail(inbox)
  BY DEF Receive
<1>2. inbox \in Seq(Message)
  BY DEF SlotsInv, Types
<1>3. event.kind = "none"
  BY <1>1 DEF NoEvent
<1>4. /\ event' = inbox[1] /\ inbox[1] \in Message
      /\ Len(inbox) \in Nat \ {0} /\ Len(inbox') = Len(inbox) - 1
      /\ \A i \in 1..Len(inbox') : inbox'[i] = inbox[i + 1] /\ i + 1 \in 1..Len(inbox)
  BY <1>1, <1>2, HeadTailProperties
<1>5. scan = <<>> /\ scan' = <<>>
  BY <1>3, OutsideLoop DEF Receive
<1>6. QED
  BY <1>3, <1>4, <1>5 DEF Receive, slotVars

LEMMA ComingTail ==
  ASSUME SlotsInv, Receive, NEW k \in 0..Len(inbox'), NEW kind, NEW p
  PROVE  Coming(kind, p, k)' <=> Coming(kind, p, k + 1)
<1>1. /\ Len(inbox) \in Nat \ {0} /\ Len(inbox') = Len(inbox) - 1
      /\ \A i \in 1..Len(inbox') : inbox'[i] = inbox[i + 1]
  BY TailFacts
<1>2. ASSUME NEW i \in (k + 1)..Len(inbox')
      PROVE  i + 1 \in (k + 1 + 1)..Len(inbox) /\ (Tells(i, kind, p)' <=> Tells(i + 1, kind, p))
  BY <1>1 DEF Tells
<1>3. ASSUME NEW i \in (k + 1 + 1)..Len(inbox)
      PROVE  i - 1 \in (k + 1)..Len(inbox') /\ (i - 1) + 1 = i
  BY <1>1
<1>4. Coming(kind, p, k)' => Coming(kind, p, k + 1)
  BY <1>2 DEF Coming
<1>5. ASSUME NEW i \in (k + 1 + 1)..Len(inbox), Tells(i, kind, p)
      PROVE  Tells(i - 1, kind, p)'
  BY <1>2, <1>3, <1>5
<1>6. Coming(kind, p, k + 1) => Coming(kind, p, k)'
  BY <1>3, <1>5 DEF Coming
<1>7. QED
  BY <1>4, <1>6

\* The first event and what comes after it.
LEMMA ComingFirst ==
  ASSUME Types, inbox # <<>>, NEW kind, NEW p
  PROVE  Coming(kind, p, 0) <=> Coming(kind, p, 1) \/ Tells(1, kind, p)
<1>1. Len(inbox) \in Nat \ {0}
  BY DEF Types
<1>2. \A i \in (0 + 1)..Len(inbox) : i = 1 \/ i \in (1 + 1)..Len(inbox)
  BY <1>1
<1>3. 1 \in (0 + 1)..Len(inbox) /\ (1 + 1)..Len(inbox) \subseteq (0 + 1)..Len(inbox)
  BY <1>1
<1>4. QED
  BY <1>2, <1>3 DEF Coming

\* Nothing is said of a player who has not come.
LEMMA NobodyNew ==
  ASSUME SlotsInv, NEW k \in 0..Len(inbox), NEW kind, NEW p, p >= nextPid
  PROVE  ~Coming(kind, p, k)
<1>1. ASSUME NEW i \in (k + 1)..Len(inbox), Tells(i, kind, p)  PROVE FALSE
  <2>1. i \in 1..Len(inbox)
    BY DEF SlotsInv, Types
  <2>2. inbox[i].pid < nextPid /\ inbox[i].pid = p
    BY <1>1, <2>1 DEF SlotsInv, Numbered, Tells
  <2>3. p \in Int /\ nextPid \in Int
    BY <2>1, <2>2, MessageFacts DEF SlotsInv, Types, Pids
  <2>4. QED
    BY <2>2, <2>3
<1>2. QED
  BY <1>1 DEF Coming

\* A new message changes who is in the game only after itself.
LEMMA AfterReport ==
  ASSUME SlotsInv, NEW m \in Message, Reports(m), NEW k \in 0..Len(inbox), NEW p \in Pids
  PROVE  InGameAfter(p, k)' <=> InGameAfter(p, k)
<1>1. \A kind : Coming(kind, p, k)' <=> Coming(kind, p, k) \/ (m.kind = kind /\ m.pid = p)
  BY ComingAppended DEF Reports, SlotsInv
<1>2. m.pid \in Pids
  BY MessageFacts
<1>3. CASE Arrives(m)
  <2>1. p = nextPid => ~Coming("leave", p, k) /\ ~InGame(p)
    <3>1. nextPid \in Nat
      BY DEF SlotsInv, Types
    <3>2. p = nextPid => p >= nextPid /\ ~(p < nextPid)
      BY <3>1
    <3>3. QED
      BY <3>2, NobodyNew DEF SlotsInv, Numbered
  <2>2. QED
    BY <1>1, <1>3, <2>1 DEF Arrives, InGameAfter
<1>4. CASE Departs(m)
  BY <1>1, <1>4 DEF Departs, InGameAfter
<1>5. CASE Loads(m)
  BY <1>1, <1>5 DEF Loads, InGameAfter
<1>6. QED
  BY <1>3, <1>4, <1>5 DEF Reports

\* An event that was in order is so still when another one is added.
LEMMA InOrderReport ==
  ASSUME SlotsInv, NEW m \in Message, Reports(m), NEW k \in 0..Len(inbox),
         NEW e \in Message, e.pid < nextPid, InOrder(e, k)
  PROVE  InOrder(e, k)'
<1>1. e.pid \in Pids /\ m.pid \in Pids /\ e.pid # nextPid
  BY MessageFacts DEF SlotsInv, Types, Pids
<1>2. ASSUME NEW kind
      PROVE  Coming(kind, e.pid, k)' <=> Coming(kind, e.pid, k) \/ (m.kind = kind /\ m.pid = e.pid)
  BY ComingAppended DEF Reports, SlotsInv
<1>3. /\ Coming("join", e.pid, k)' <=>
           Coming("join", e.pid, k) \/ (m.kind = "join" /\ m.pid = e.pid)
      /\ Coming("leave", e.pid, k)' <=>
           Coming("leave", e.pid, k) \/ (m.kind = "leave" /\ m.pid = e.pid)
      /\ Coming("deck", e.pid, k)' <=>
           Coming("deck", e.pid, k) \/ (m.kind = "deck" /\ m.pid = e.pid)
  BY <1>2
<1>4. {p \in Pids \ {e.pid} : InGameAfter(p, k)'} = {p \in Pids \ {e.pid} : InGameAfter(p, k)}
  BY AfterReport
<1>5. ~Coming("join", e.pid, k)'
  BY <1>1, <1>3 DEF InOrder, Reports, Arrives, Departs, Loads
<1>6. e.kind \in {"join", "deck"} => InGame(e.pid)' \/ Coming("leave", e.pid, k)'
  BY <1>1, <1>3 DEF InOrder, Reports, Arrives, Departs, Loads
<1>7. e.kind = "join" =>
        e.ping /\ Cardinality({p \in Pids \ {e.pid} : InGameAfter(p, k)'}) < PlayerCount
  BY <1>4 DEF InOrder
<1>8. e.kind = "leave" => ~InGame(e.pid)' /\ ~Coming("leave", e.pid, k)'
  BY <1>1, <1>3 DEF InOrder, Reports, Arrives, Departs, Loads
<1>9. e.kind = "deck" => <<e.pid, e.deck>> \in loaded' /\ ~Coming("deck", e.pid, k)'
  <2>1. e.kind = "deck" => e.deck \in Decks
    BY MessageParts
  <2>2. QED
    BY <1>1, <1>3, <2>1 DEF InOrder, Reports, Arrives, Departs, Loads
<1>10. QED
  BY <1>5, <1>6, <1>7, <1>8, <1>9 DEF InOrder

\* And the one that is added is in order.
LEMMA InOrderNew ==
  ASSUME SlotsInv, NEW m \in Message, Reports(m), NEW n, n = Len(inbox)
  PROVE  InOrder(m, n + 1)'
<1>1. n \in Nat /\ Len(inbox') = n + 1
  BY AppendFacts DEF Reports, Sent, SlotsInv
<1>2. \A kind, p : ~Coming(kind, p, n + 1)'
  BY <1>1 DEF Coming
<1>3. m.pid \in Pids
  BY MessageFacts
<1>4. CASE Arrives(m)
  <2>1. \A p \in Pids \ {m.pid} : InGameAfter(p, n + 1)' <=> InGame(p)
    BY <1>2, <1>4 DEF InGameAfter, Arrives
  <2>2. ~InGame(m.pid)
    BY <1>3, <1>4 DEF Arrives, SlotsInv, Numbered, Types
  <2>3. {p \in Pids \ {m.pid} : InGameAfter(p, n + 1)'} = {p \in Pids : InGame(p)}
    BY <2>1, <2>2
  <2>4. QED
    BY <1>2, <1>3, <1>4, <2>3 DEF Arrives, InOrder
<1>5. CASE Departs(m)
  BY <1>2, <1>3, <1>5 DEF Departs, InOrder
<1>6. CASE Loads(m)
  BY <1>2, <1>3, <1>6 DEF Loads, InOrder
<1>7. QED
  BY <1>4, <1>5, <1>6 DEF Reports

LEMMA OrderlyKept ==
  ASSUME SlotsInv, Orderly, [Next]_vars
  PROVE  Orderly'
<1>1. CASE Receive
  <2>1. ASSUME NEW m, NEW k \in 0..Len(inbox'), InOrder(m, k + 1)
        PROVE  InOrder(m, k)'
    <3>1. \A kind, p : Coming(kind, p, k)' <=> Coming(kind, p, k + 1)
      BY <1>1, ComingTail
    <3>2. seated' = seated /\ loaded' = loaded
      BY <1>1, TailFacts
    <3>3. \A p : InGame(p)' <=> InGame(p)
      BY <3>2 DEF InGame
    <3>4. \A p : InGameAfter(p, k)' <=> InGameAfter(p, k + 1)
      BY <3>1, <3>3 DEF InGameAfter
    <3>5. {p \in Pids \ {m.pid} : InGameAfter(p, k)'}
            = {p \in Pids \ {m.pid} : InGameAfter(p, k + 1)}
      BY <3>4
    <3>6. QED
      BY <2>1, <3>1, <3>2, <3>3, <3>5 DEF InOrder
  <2>2. /\ event' = inbox[1] /\ Len(inbox) \in Nat \ {0} /\ Len(inbox') = Len(inbox) - 1
        /\ \A i \in 1..Len(inbox') : inbox'[i] = inbox[i + 1] /\ i + 1 \in 1..Len(inbox)
    BY <1>1, TailFacts
  <2>3. InOrder(inbox[1], 0 + 1) /\ 0 \in 0..Len(inbox') /\ 1 \in 1..Len(inbox)
    BY <2>2 DEF Orderly
  <2>4. InOrder(event, 0)'
    <3>1. PICK m : m = inbox[1]
      OBVIOUS
    <3>2. InOrder(m, 0)'
      BY <2>1, <2>3, <3>1
    <3>3. QED
      BY <2>2, <3>1, <3>2 DEF InOrder
  <2>5. ASSUME NEW k \in 1..Len(inbox')  PROVE InOrder(inbox[k], k)'
    <3>1. PICK m : m = inbox[k + 1]
      OBVIOUS
    <3>2. InOrder(m, k + 1)
      BY <2>2, <3>1 DEF Orderly
    <3>3. InOrder(m, k)'
      BY <2>1, <3>2
    <3>4. QED
      BY <2>2, <3>1, <3>3 DEF InOrder
  <2>6. QED
    BY <2>4, <2>5 DEF Orderly
<1>2. ASSUME UNCHANGED <<inbox, seated, loaded>>, event' = event \/ event' = NoEvent
      PROVE  Orderly'
  <2>1. \A p : InGame(p)' = InGame(p)
    BY <1>2 DEF InGame
  <2>2. \A kind, p, k : Coming(kind, p, k)' = Coming(kind, p, k)
    BY <1>2 DEF Coming, Tells
  <2>3. \A p, k : InGameAfter(p, k)' = InGameAfter(p, k)
    BY <2>1, <2>2 DEF InGameAfter
  <2>4. ASSUME NEW m, NEW k, InOrder(m, k)  PROVE InOrder(m, k)'
    BY <1>2, <2>1, <2>2, <2>3, <2>4 DEF InOrder
  <2>5. ASSUME event' = event, event.kind # "none"  PROVE InOrder(event, 0)'
    <3>1. PICK m : m = event
      OBVIOUS
    <3>2. InOrder(m, 0)'
      BY <2>4, <2>5, <3>1 DEF Orderly
    <3>3. QED
      BY <2>5, <3>1, <3>2 DEF InOrder
  <2>6. ASSUME NEW k \in 1..Len(inbox')  PROVE InOrder(inbox[k], k)'
    <3>1. PICK m : m = inbox[k]
      OBVIOUS
    <3>2. InOrder(m, k)'
      BY <1>2, <2>4, <3>1 DEF Orderly
    <3>3. QED
      BY <1>2, <3>1, <3>2 DEF InOrder
  <2>7. QED
    BY <1>2, <2>5, <2>6 DEF Orderly, NoEvent
<1>3. CASE Server
  <2>1. PICK m \in Message : Reports(m)
    BY <1>3, ServerReports
  <2>2. /\ Len(inbox) \in Nat /\ Len(inbox') = Len(inbox) + 1
        /\ \A i \in 1..Len(inbox) : inbox'[i] = inbox[i]
        /\ inbox'[Len(inbox) + 1] = m /\ event' = event
    BY <2>1, AppendFacts DEF Reports, Sent, SlotsInv, botVars
  <2>3. ASSUME event.kind # "none"  PROVE InOrder(event, 0)'
    <3>1. PICK e \in Message : e = event /\ e.pid < nextPid /\ InOrder(e, 0)
      BY <2>3 DEF SlotsInv, Types, Numbered, NoEvent, Orderly
    <3>2. InOrder(e, 0)'
      BY <2>1, <2>2, <3>1, InOrderReport
    <3>3. QED
      BY <2>2, <3>1, <3>2 DEF InOrder
  <2>4. ASSUME NEW k \in 1..Len(inbox')  PROVE InOrder(inbox[k], k)'
    <3>1. CASE k = Len(inbox) + 1
      <4>1. PICK n : n = Len(inbox)
        OBVIOUS
      <4>2. InOrder(m, n + 1)'
        BY <2>1, <4>1, InOrderNew
      <4>3. QED
        BY <2>2, <3>1, <4>1, <4>2 DEF InOrder
    <3>2. CASE k \in 1..Len(inbox)
      <4>1. PICK e \in Message : e = inbox[k] /\ e.pid < nextPid /\ InOrder(e, k)
        BY <3>2 DEF SlotsInv, Types, Numbered, Orderly
      <4>2. InOrder(e, k)'
        BY <2>1, <3>2, <4>1, InOrderReport
      <4>3. QED
        BY <2>2, <3>2, <4>1, <4>2 DEF InOrder
    <3>3. QED
      BY <2>2, <3>1, <3>2
  <2>5. QED
    BY <2>2, <2>3, <2>4 DEF Orderly
<1>4. CASE BotStep /\ ~Receive
  BY <1>2, <1>4 DEF BotStep, Join, IsPlayerAllowed, TakeSlot, Leave, LoadDeck, Done, serverVars
<1>5. CASE Request \/ UNCHANGED vars
  BY <1>2, <1>5 DEF Request, RenameSlot, KickPlayer, Disable, botVars, serverVars, vars
<1>6. QED
  BY <1>1, <1>3, <1>4, <1>5 DEF Next

-----------------------------------------------------------------------------
\* The list of players.

Named(i) == players[i].playerName # NoName

\* Who the bot thread was told of, and has not heard the leave of.
Present(p) ==
  \/ event.kind = "leave" /\ event.pid = p
  \/ InGameAfter(p, 0) /\ ~(event.kind = "join" /\ event.pid = p /\ scan = <<>>)

\* Each of them has one entry with a name, and nobody else has.
Entered ==
  /\ \A i \in Slots : Named(i) => players[i].playerID \in Pids
  /\ \A p \in Pids : Present(p) <=> \E i \in Slots : Named(i) /\ players[i].playerID = p
  /\ \A i, j \in Slots :
       Named(i) /\ Named(j) /\ players[i].playerID = players[j].playerID => i = j

\* Who arrives finds an entry without a name.
LEMMA RoomForOne ==
  ASSUME Orderly, Entered, event.kind = "join", scan = <<>>
  PROVE  \E i \in Slots : ~Named(i)
<1> DEFINE P == {p \in Pids \ {event.pid} : InGameAfter(p, 0)}
           f == [i \in Slots |-> players[i].playerID]
<1> SUFFICES ASSUME \A i \in Slots : Named(i)  PROVE FALSE
  OBVIOUS
<1>1. IsFiniteSet(Slots) /\ Cardinality(Slots) = PlayerCount
  BY SlotsAssumption, FS_Interval DEF Slots
<1>2. IsFiniteSet(P)
  <2>1. IsFiniteSet(Pids) /\ P \in SUBSET Pids
    BY SlotsAssumption, FS_Interval DEF Pids
  <2>2. QED
    BY <2>1, FS_Subset
<1>3. Cardinality(P) < PlayerCount
  BY DEF Orderly, InOrder
<1>4. f \in [Slots -> P]
  BY DEF Entered, Present
<1> HIDE DEF P, f
<1>5. \E i, j \in Slots : i # j /\ f[i] = f[j]
  BY <1>1, <1>2, <1>3, <1>4, FS_PigeonHole
<1>6. QED
  BY <1>5 DEF f, Entered

\* Their entry is one that had no name.
LEMMA JoinTracked ==
  ASSUME SlotsInv, SlotTypes, Orderly, Entered, Join
  PROVE  \E i \in Slots :
           /\ ~Named(i)
           /\ players' = [players EXCEPT ![i] = [playerID |-> event.pid, playerName |-> event.name]]
<1>1. event.kind = "join" /\ scan = <<>> /\ TrackJoin(event.pid, event.name, event.ping)
  BY DEF Join
<1>2. event.ping /\ event.pid \in Pids
  BY <1>1, MessageFacts DEF Orderly, InOrder, SlotsInv, Types, NoEvent
<1>3. CASE EntryOf(event.pid) # {}
  <2> DEFINE i == Lowest(EntryOf(event.pid))
  <2>1. i \in Slots /\ players[i].playerID = event.pid
    BY <1>3, LowestFacts DEF EntryOf
  <2>2. players' = [players EXCEPT ![i].playerName = event.name]
    BY <1>1, <1>2, <1>3 DEF TrackJoin
  <2> HIDE DEF i
  <2>3. [players[i] EXCEPT !.playerName = event.name]
          = [playerID |-> event.pid, playerName |-> event.name]
    BY <2>1 DEF SlotTypes
  <2>4. players' = [players EXCEPT ![i] = [playerID |-> event.pid, playerName |-> event.name]]
    BY <2>1, <2>2, <2>3 DEF SlotTypes
  <2>5. ~Present(event.pid)
    BY <1>1 DEF Present
  <2>6. ~Named(i)
    BY <2>1, <2>5 DEF Entered
  <2>7. QED
    BY <2>1, <2>4, <2>6
<1>4. CASE EntryOf(event.pid) = {}
  <2>1. Vacant # {}
    BY <1>1, RoomForOne DEF Vacant, Named
  <2>2. Lowest(Vacant) \in Slots /\ ~Named(Lowest(Vacant))
    BY <2>1, LowestFacts DEF Vacant, Named
  <2>3. QED
    BY <1>1, <1>4, <2>1, <2>2 DEF TrackJoin
<1>5. QED
  BY <1>3, <1>4

LEMMA EnteredJoin ==
  ASSUME SlotsInv, SlotTypes, Orderly, Entered, Join
  PROVE  Entered'
<1>1. /\ event.kind = "join" /\ scan = <<>> /\ UNCHANGED <<inbox, seated>>
      /\ \/ scan' # <<>> /\ event' = event
         \/ event' = NoEvent
  <2>1. <<1, NoSlot, FALSE>> # <<>>
    OBVIOUS
  <2>2. CASE copy.data
    BY <2>1, <2>2 DEF Join, serverVars
  <2>3. CASE ~copy.data
    BY <2>3 DEF Join, Done, serverVars
  <2>4. QED
    BY <2>2, <2>3
<1>2. event \in Message /\ event.pid \in Pids /\ event.name # NoName
  BY <1>1, MessageFacts, MessageParts, Slots0Assumption DEF SlotsInv, Types, NoEvent
<1>3. PICK i \in Slots :
        /\ ~Named(i)
        /\ players' = [players EXCEPT ![i] = [playerID |-> event.pid, playerName |-> event.name]]
  BY JoinTracked
<1>4. \A j \in Slots :
        players'[j] = IF j = i THEN [playerID |-> event.pid, playerName |-> event.name]
                      ELSE players[j]
  BY <1>3 DEF SlotTypes
<1>5. \A j \in Slots : Named(j)' <=> Named(j) \/ j = i
  BY <1>2, <1>4 DEF Named
<1>6. \A p : InGameAfter(p, 0)' <=> InGameAfter(p, 0)
  BY <1>1 DEF InGameAfter, InGame, Coming, Tells
<1>7. InGameAfter(event.pid, 0) /\ ~Present(event.pid)
  BY <1>1 DEF Orderly, InOrder, InGameAfter, Present
<1>8. \A p : Present(p)' <=> Present(p) \/ p = event.pid
  <2>1. CASE scan' # <<>> /\ event' = event
    BY <1>1, <1>6, <1>7, <2>1 DEF Present
  <2>2. CASE event' = NoEvent
    BY <1>1, <1>6, <1>7, <2>2 DEF Present, NoEvent
  <2>3. QED
    BY <1>1, <2>1, <2>2
<1>9. \A j \in Slots : Named(j) => players[j].playerID # event.pid
  BY <1>7 DEF Entered
<1>10. \A j \in Slots : Named(j)' => players'[j].playerID \in Pids
  BY <1>2, <1>4, <1>5 DEF Entered
<1>11. \A p \in Pids : Present(p)' <=> \E j \in Slots : Named(j)' /\ players'[j].playerID = p
  <2> SUFFICES ASSUME NEW p \in Pids
               PROVE  Present(p)' <=> \E j \in Slots : Named(j)' /\ players'[j].playerID = p
    OBVIOUS
  <2>1. CASE p = event.pid
    BY <1>4, <1>5, <1>8, <2>1
  <2>2. CASE p # event.pid
    <3>1. \A j \in Slots :
            Named(j)' /\ players'[j].playerID = p <=> Named(j) /\ players[j].playerID = p
      BY <1>3, <1>4, <1>5, <2>2
    <3>2. QED
      BY <1>8, <2>2, <3>1 DEF Entered
  <2>3. QED
    BY <2>1, <2>2
<1>12. \A j, k \in Slots :
         Named(j)' /\ Named(k)' /\ players'[j].playerID = players'[k].playerID => j = k
  BY <1>4, <1>5, <1>9 DEF Entered
<1>13. QED
  BY <1>10, <1>11, <1>12 DEF Entered

LEMMA EnteredLeave ==
  ASSUME SlotsInv, SlotTypes, Orderly, Entered, Leave
  PROVE  Entered'
<1>1. /\ event.kind = "leave" /\ event' = NoEvent /\ UNCHANGED <<inbox, seated>>
      /\ TrackLeave(event.pid)
  BY DEF Leave, Done, serverVars
<1>2. \A j \in Slots : players'[j] = IF players[j].playerID = event.pid
                                     THEN [players[j] EXCEPT !.playerName = NoName]
                                     ELSE players[j]
  BY <1>1 DEF TrackLeave
<1>3. \A j \in Slots : /\ players'[j].playerID = players[j].playerID
                       /\ Named(j)' <=> Named(j) /\ players[j].playerID # event.pid
  BY <1>2 DEF Named, SlotTypes
<1>4. \A p : InGameAfter(p, 0)' <=> InGameAfter(p, 0)
  BY <1>1 DEF InGameAfter, InGame, Coming, Tells
<1>5. ~InGameAfter(event.pid, 0)
  BY <1>1 DEF Orderly, InOrder, InGameAfter
<1>6. \A p : Present(p)' <=> Present(p) /\ p # event.pid
  BY <1>1, <1>4, <1>5 DEF Present, NoEvent
<1>7. QED
  BY <1>3, <1>6 DEF Entered

\* A player whose properties change has an entry.
LEMMA DeckTracked ==
  ASSUME SlotsInv, Orderly, Entered, event.kind = "deck"
  PROVE  EntryOf(event.pid) # {} /\ \A p : Present(p) <=> InGameAfter(p, 0)
<1>1. event.pid \in Pids
  BY MessageFacts DEF SlotsInv, Types, NoEvent
<1>2. Present(event.pid)
  BY DEF Orderly, InOrder, InGameAfter, Present
<1>3. QED
  BY <1>1, <1>2 DEF Entered, EntryOf, Present

LEMMA EnteredReceive ==
  ASSUME SlotsInv, Orderly, Entered, Receive
  PROVE  Entered'
<1>1. /\ event.kind = "none" /\ event' = inbox[1] /\ inbox[1] \in Message
      /\ Len(inbox) \in Nat \ {0} /\ Len(inbox') = Len(inbox) - 1
      /\ scan' = <<>> /\ UNCHANGED <<players, seated>>
  BY TailFacts
<1>2. inbox # <<>> /\ Types
  BY DEF Receive, SlotsInv
<1>3. ASSUME NEW p
      PROVE  /\ Coming("join", p, 0)' <=> Coming("join", p, 1)
             /\ Coming("leave", p, 0)' <=> Coming("leave", p, 1)
             /\ Coming("join", p, 0) <=> Coming("join", p, 1) \/ Tells(1, "join", p)
             /\ Coming("leave", p, 0) <=> Coming("leave", p, 1) \/ Tells(1, "leave", p)
  <2>1. 0 \in 0..Len(inbox') /\ 0 + 1 = 1
    BY <1>1
  <2>2. \A kind : Coming(kind, p, 0)' <=> Coming(kind, p, 0 + 1)
    BY <2>1, ComingTail
  <2>3. \A kind : Coming(kind, p, 0) <=> Coming(kind, p, 1) \/ Tells(1, kind, p)
    BY <1>2, ComingFirst
  <2>4. QED
    BY <2>1, <2>2, <2>3
<1>4. InOrder(inbox[1], 1) /\ inbox[1].kind \in {"join", "leave", "deck"}
  BY <1>1, MessageFacts DEF Orderly
<1>5. \A p : InGame(p)' <=> InGame(p)
  BY <1>1 DEF InGame
<1>6. ASSUME NEW p  PROVE Present(p)' <=> Present(p)
  <2>1. Present(p) <=> InGameAfter(p, 0)
    BY <1>1 DEF Present
  <2>2. Present(p)' <=> \/ inbox[1].kind = "leave" /\ inbox[1].pid = p
                        \/ InGameAfter(p, 0)' /\ ~(inbox[1].kind = "join" /\ inbox[1].pid = p)
    BY <1>1 DEF Present
  <2>3. CASE inbox[1].pid = p
    BY <1>3, <1>4, <1>5, <2>1, <2>2, <2>3 DEF InGameAfter, InOrder, Tells
  <2>4. CASE inbox[1].pid # p
    BY <1>3, <1>5, <2>1, <2>2, <2>4 DEF InGameAfter, Tells
  <2>5. QED
    BY <2>3, <2>4
<1>7. \A i : Named(i)' <=> Named(i)
  BY <1>1 DEF Named
<1>8. QED
  BY <1>1, <1>6, <1>7 DEF Entered

LEMMA EnteredServer ==
  ASSUME SlotsInv, Entered, Server
  PROVE  Entered'
<1>1. PICK m \in Message : Reports(m)
  BY ServerReports
<1>2. UNCHANGED <<event, scan, players>> /\ 0 \in 0..Len(inbox)
  BY <1>1 DEF Reports, Sent, botVars, SlotsInv, Types
<1>3. \A p \in Pids : InGameAfter(p, 0)' <=> InGameAfter(p, 0)
  BY <1>1, <1>2, AfterReport
<1>4. \A p \in Pids : Present(p)' <=> Present(p)
  BY <1>2, <1>3 DEF Present
<1>5. \A i : Named(i)' <=> Named(i)
  BY <1>2 DEF Named
<1>6. QED
  BY <1>2, <1>4, <1>5 DEF Entered

LEMMA EnteredKept ==
  ASSUME SlotsInv, SlotTypes, Orderly, Entered, [Next]_vars
  PROVE  Entered'
<1>1. ASSUME UNCHANGED <<players, inbox, seated>>, \A p : InGameAfter(p, 0)' <=> InGameAfter(p, 0),
             \A p : Present(p)' <=> Present(p)
      PROVE  Entered'
  <2>1. \A i : Named(i)' <=> Named(i)
    BY <1>1 DEF Named
  <2>2. QED
    BY <1>1, <2>1 DEF Entered
<1>2. ASSUME UNCHANGED <<inbox, seated>>  PROVE \A p : InGameAfter(p, 0)' <=> InGameAfter(p, 0)
  BY <1>2 DEF InGameAfter, InGame, Coming, Tells
<1>3. CASE IsPlayerAllowed \/ TakeSlot
  <2>1. /\ UNCHANGED <<players, inbox, seated>> /\ scan # <<>>
        /\ \/ event' = event /\ scan' # <<>>
           \/ event' = NoEvent
    BY <1>3 DEF IsPlayerAllowed, TakeSlot, ScanSlot, Done, serverVars
  <2>2. event.kind = "join"
    BY <2>1 DEF SlotsInv, ChosenFree
  <2>3. \A p : InGameAfter(p, 0)' <=> InGameAfter(p, 0)
    BY <1>2, <2>1
  <2>4. \A p : Present(p)' <=> Present(p)
    BY <2>1, <2>2, <2>3 DEF Present, NoEvent
  <2>5. QED
    BY <1>1, <2>1, <2>3, <2>4
<1>4. CASE LoadDeck
  <2>1. /\ event.kind = "deck" /\ event' = NoEvent /\ UNCHANGED <<inbox, seated>>
        /\ TrackProperties(event.pid)
    BY <1>4 DEF LoadDeck, Done, serverVars
  <2>2. players' = players /\ \A p : Present(p) <=> InGameAfter(p, 0)
    BY <2>1, DeckTracked DEF TrackProperties
  <2>3. \A p : InGameAfter(p, 0)' <=> InGameAfter(p, 0)
    BY <1>2, <2>1
  <2>4. \A p : Present(p)' <=> Present(p)
    BY <2>1, <2>2, <2>3 DEF Present, NoEvent
  <2>5. QED
    BY <1>1, <2>1, <2>2, <2>3, <2>4
<1>5. CASE Request \/ UNCHANGED vars
  <2>1. UNCHANGED <<players, inbox, seated, event, scan>>
    BY <1>5 DEF Request, RenameSlot, KickPlayer, Disable, botVars, serverVars, vars
  <2>2. \A p : InGameAfter(p, 0)' <=> InGameAfter(p, 0)
    BY <1>2, <2>1
  <2>3. \A p : Present(p)' <=> Present(p)
    BY <2>1, <2>2 DEF Present
  <2>4. QED
    BY <1>1, <2>1, <2>2, <2>3
<1>6. QED
  BY <1>3, <1>4, <1>5, EnteredJoin, EnteredLeave, EnteredReceive, EnteredServer DEF Next, BotStep

-----------------------------------------------------------------------------
\* The copy of the list of players.

InCopy(p) == \E i \in Slots : copy.ids[i] = p

\* Events j + 1 to k of the inbox belong to the message of the event before them.
SameMessage(j, k) == \A i \in (j + 1)..k : ~inbox[i].first

\* Who leaves, or loads a deck, is in the copy, unless they came in the same message.
Seen ==
  /\ event.kind \in {"leave", "deck"} => InCopy(event.pid) \/ event.pid \in unseen
  /\ \A k \in 1..Len(inbox) : inbox[k].kind # "join" /\ SameMessage(0, k)
       => InCopy(inbox[k].pid) \/ inbox[k].pid \in unseen
  /\ \A j, k \in 1..Len(inbox) :
       j < k /\ inbox[k].kind # "join" /\ Tells(j, "join", inbox[k].pid) /\ SameMessage(j, k)
         => inbox[k].pid \in unseen

\* The copy that is made with the first event of a message has the players that the
\* message is about.
LEMMA SeenInMessage ==
  ASSUME SlotsInv, Orderly, Entered, Seen, Receive,
         NEW k \in 1..Len(inbox), inbox[k].kind # "join", SameMessage(1, k),
         NEW p, p = inbox[k].pid
  PROVE  InCopy(p)' \/ p \in unseen
<1>1. /\ event.kind = "none" /\ Len(inbox) \in Nat \ {0}
      /\ copy' = IF inbox[1].first
                 THEN [data |-> enabled, ids |-> [i \in Slots |-> players[i].playerID]]
                 ELSE copy
  <2>1. inbox # <<>> /\ Head(inbox) = inbox[1]
    BY DEF Receive, SlotsInv, Types
  <2>2. QED
    BY <2>1, TailFacts DEF Receive
<1>2. CASE ~inbox[1].first
  <2>1. \A i \in (0 + 1)..k : i = 1 \/ i \in (1 + 1)..k
    OBVIOUS
  <2>2. SameMessage(0, k)
    BY <1>2, <2>1 DEF SameMessage
  <2>3. QED
    BY <1>1, <1>2, <2>2 DEF Seen, InCopy
<1>3. CASE inbox[1].first /\ Coming("join", p, 0)
  <2>1. PICK j \in 1..Len(inbox) : Tells(j, "join", p)
    BY <1>3 DEF Coming
  <2>2. ~Coming("join", p, k)
    BY DEF Orderly, InOrder
  <2>3. j \notin (k + 1)..Len(inbox) /\ j # k
    BY <2>1, <2>2 DEF Coming, Tells
  <2>4. j < k
    BY <1>1, <2>3
  <2>5. \A i \in (j + 1)..k : i \in (1 + 1)..k
    OBVIOUS
  <2>6. SameMessage(j, k)
    BY <2>5 DEF SameMessage
  <2>7. QED
    BY <2>1, <2>4, <2>6 DEF Seen
<1>4. CASE inbox[1].first /\ ~Coming("join", p, 0)
  <2>1. inbox[k] \in Message /\ p \in Pids /\ inbox[k].kind \in {"leave", "deck"}
    BY MessageFacts DEF SlotsInv, Types
  <2>2. k \in (0 + 1)..Len(inbox) /\ \A i \in (k + 1)..Len(inbox) : i \in (0 + 1)..Len(inbox)
    OBVIOUS
  <2>3. InGame(p) \/ Coming("leave", p, 0)
    <3>1. CASE inbox[k].kind = "leave"
      BY <2>2, <3>1 DEF Coming, Tells
    <3>2. CASE inbox[k].kind = "deck"
      <4>1. InGame(p) \/ Coming("leave", p, k)
        BY <3>2 DEF Orderly, InOrder
      <4>2. Coming("leave", p, k) => Coming("leave", p, 0)
        BY <2>2 DEF Coming
      <4>3. QED
        BY <4>1, <4>2
    <3>3. QED
      BY <2>1, <3>1, <3>2
  <2>4. Present(p)
    BY <1>1, <1>4, <2>3 DEF Present, InGameAfter
  <2>5. PICK i \in Slots : players[i].playerID = p
    BY <2>1, <2>4 DEF Entered
  <2>6. copy'.ids[i] = p
    BY <1>1, <1>4, <2>5
  <2>7. QED
    BY <2>6 DEF InCopy
<1>5. QED
  BY <1>2, <1>3, <1>4

LEMMA SeenReceive ==
  ASSUME SlotsInv, Orderly, Entered, Seen, Receive
  PROVE  Seen'
<1>1. /\ event' = inbox[1] /\ Len(inbox) \in Nat \ {0} /\ Len(inbox') = Len(inbox) - 1
      /\ \A i \in 1..Len(inbox') : inbox'[i] = inbox[i + 1] /\ i + 1 \in 1..Len(inbox)
      /\ unseen' = unseen
  BY TailFacts
<1>2. ASSUME NEW j \in 0..Len(inbox'), NEW k \in 1..Len(inbox'), SameMessage(j, k)'
      PROVE  SameMessage(j + 1, k + 1)
  <2> SUFFICES ASSUME NEW i \in (j + 1 + 1)..(k + 1)  PROVE ~inbox[i].first
    BY DEF SameMessage
  <2>1. i - 1 \in (j + 1)..k /\ i - 1 \in 1..Len(inbox') /\ (i - 1) + 1 = i
    BY <1>1
  <2>2. QED
    BY <1>1, <1>2, <2>1 DEF SameMessage
<1>3. ASSUME event'.kind \in {"leave", "deck"}, NEW p, p = event'.pid
      PROVE  InCopy(p)' \/ p \in unseen
  <2>1. 1 \in 1..Len(inbox) /\ (1 + 1)..1 = {}
    BY <1>1
  <2>2. SameMessage(1, 1)
    BY <2>1 DEF SameMessage
  <2>3. QED
    BY <1>1, <1>3, <2>1, <2>2, SeenInMessage
<1>4. ASSUME NEW k \in 1..Len(inbox'), inbox'[k].kind # "join", SameMessage(0, k)',
             NEW p, p = inbox'[k].pid
      PROVE  InCopy(p)' \/ p \in unseen
  <2>1. SameMessage(0 + 1, k + 1)
    BY <1>1, <1>2, <1>4
  <2>2. k + 1 \in 1..Len(inbox) /\ inbox'[k] = inbox[k + 1] /\ 0 + 1 = 1
    BY <1>1
  <2>3. QED
    BY <1>4, <2>1, <2>2, SeenInMessage
<1>5. ASSUME NEW j \in 1..Len(inbox'), NEW k \in 1..Len(inbox'), j < k, inbox'[k].kind # "join",
             inbox'[j].kind = "join", inbox'[j].pid = inbox'[k].pid, SameMessage(j, k)'
      PROVE  inbox'[k].pid \in unseen
  <2>1. SameMessage(j + 1, k + 1)
    BY <1>1, <1>2, <1>5
  <2>2. /\ j + 1 \in 1..Len(inbox) /\ k + 1 \in 1..Len(inbox) /\ j + 1 < k + 1
        /\ inbox'[j] = inbox[j + 1] /\ inbox'[k] = inbox[k + 1]
    BY <1>1, <1>5
  <2>3. QED
    BY <1>5, <2>1, <2>2 DEF Seen, Tells
<1>6. QED
  BY <1>1, <1>3, <1>4, <1>5 DEF Seen, InCopy, Tells

LEMMA SeenServer ==
  ASSUME SlotsInv, Seen, Server
  PROVE  Seen'
<1>1. PICK m \in Message : Sent(m)
  BY ServerReports DEF Reports
<1>2. PICK n : n = Len(inbox)
  OBVIOUS
<1>3. /\ n \in Nat /\ Len(inbox') = n + 1
      /\ \A i \in 1..n : inbox'[i] = inbox[i]
      /\ inbox'[n + 1] = m
  BY <1>1, <1>2, AppendFacts DEF Sent, SlotsInv
<1>4. event' = event /\ copy' = copy /\ unseen \subseteq unseen'
  BY <1>1 DEF Sent, botVars
<1>5. ASSUME NEW j \in 0..n, NEW k \in 1..n, SameMessage(j, k)'  PROVE SameMessage(j, k)
  <2>1. \A i \in (j + 1)..k : i \in 1..n
    BY <1>3
  <2>2. QED
    BY <1>3, <1>5, <2>1 DEF SameMessage
<1>6. ASSUME NEW j \in 0..n, \A i \in (j + 1)..(n + 1) : ~inbox'[i].first
      PROVE  j > 0 /\ (inbox[j].kind = "join" /\ inbox[j].pid = m.pid => m.pid \in unseen')
  <2>1. n + 1 \in (j + 1)..(n + 1) /\ \A i \in (j + 1)..n : i \in (j + 1)..(n + 1) /\ i \in 1..n
    BY <1>3
  <2>2. ~m.first /\ \A i \in (j + 1)..n : ~inbox[i].first
    BY <1>3, <1>6, <2>1
  <2>3. PICK i \in 1..n : inbox[i].first
    BY <1>1, <1>2, <2>2 DEF Sent
  <2>4. j # 0
    BY <2>2, <2>3
  <2>5. ASSUME inbox[j].kind = "join", inbox[j].pid = m.pid  PROVE m.pid \in unseen'
    <3>1. j \in 1..n
      BY <2>4
    <3>2. JoinedInLast(m.pid)
      BY <1>2, <2>2, <2>5, <3>1 DEF JoinedInLast
    <3>3. QED
      BY <1>1, <2>2, <3>2 DEF Sent
  <2>6. QED
    BY <2>4, <2>5
<1>7. ASSUME NEW k \in 1..(n + 1), inbox'[k].kind # "join", SameMessage(0, k)'
      PROVE  (\E i \in Slots : copy.ids[i] = inbox'[k].pid) \/ inbox'[k].pid \in unseen'
  <2>1. CASE k = n + 1
    BY <1>3, <1>6, <1>7, <2>1 DEF SameMessage
  <2>2. CASE k \in 1..n
    <3>1. SameMessage(0, k)
      BY <1>3, <1>5, <1>7, <2>2
    <3>2. QED
      BY <1>2, <1>3, <1>4, <1>7, <2>2, <3>1 DEF Seen, InCopy
  <2>3. QED
    BY <1>3, <2>1, <2>2
<1>8. ASSUME NEW j \in 1..(n + 1), NEW k \in 1..(n + 1), j < k, inbox'[k].kind # "join",
             inbox'[j].kind = "join", inbox'[j].pid = inbox'[k].pid, SameMessage(j, k)'
      PROVE  inbox'[k].pid \in unseen'
  <2>1. j \in 1..n /\ j \in 0..n
    BY <1>3, <1>8
  <2>2. CASE k = n + 1
    BY <1>3, <1>6, <1>8, <2>1, <2>2 DEF SameMessage
  <2>3. CASE k \in 1..n
    <3>1. SameMessage(j, k)
      BY <1>5, <1>8, <2>1, <2>3
    <3>2. QED
      BY <1>2, <1>3, <1>4, <1>8, <2>1, <2>3, <3>1 DEF Seen, Tells
  <2>4. QED
    BY <1>3, <2>2, <2>3
<1>9. event'.kind \in {"leave", "deck"} =>
        (\E i \in Slots : copy'.ids[i] = event'.pid) \/ event'.pid \in unseen'
  BY <1>4 DEF Seen, InCopy
<1>10. QED
  BY <1>3, <1>4, <1>7, <1>8, <1>9 DEF Seen, InCopy, Tells

LEMMA SeenKept ==
  ASSUME SlotsInv, Orderly, Entered, Seen, [Next]_vars
  PROVE  Seen'
<1>1. CASE Receive
  BY <1>1, SeenReceive
<1>2. CASE Server
  BY <1>2, SeenServer
<1>3. ASSUME UNCHANGED <<inbox, copy, unseen>>, event' = event \/ event' = NoEvent  PROVE Seen'
  BY <1>3 DEF Seen, InCopy, SameMessage, Tells, NoEvent
<1>4. CASE BotStep /\ ~Receive
  BY <1>3, <1>4 DEF BotStep, Join, IsPlayerAllowed, TakeSlot, Leave, LoadDeck, Done, serverVars
<1>5. CASE Request \/ UNCHANGED vars
  BY <1>3, <1>5 DEF Request, RenameSlot, KickPlayer, Disable, botVars, serverVars, vars
<1>6. QED
  BY <1>1, <1>2, <1>4, <1>5 DEF Next

\* What the messages say, and what the bot thread has made of them.
EventsInv == SlotsInv /\ SlotTypes /\ Copied /\ Orderly /\ Entered /\ Seen

LEMMA EventsInvariant == Spec => []EventsInv
<1>1. Init => SlotTypes /\ Copied /\ Orderly /\ Entered /\ Seen
  <2> SUFFICES ASSUME Init  PROVE SlotTypes /\ Copied /\ Orderly /\ Entered /\ Seen
    OBVIOUS
  <2>1. /\ inbox = <<>> /\ event.kind = "none"
        /\ \A i \in Slots : ~Named(i)
        /\ \A p \in Pids : ~InGame(p)
    BY DEF Init, NoEvent, Named, InGame
  <2>2. \A p \in Pids : ~Present(p)
    BY <2>1 DEF Present, InGameAfter, Coming
  <2>3. Copied /\ Orderly /\ Seen
    BY <2>1 DEF Copied, Orderly, Seen
  <2>4. Entered
    BY <2>1, <2>2 DEF Entered
  <2>5. QED
    BY <2>3, <2>4, InitTypes
<1>2. SlotsInv /\ SlotTypes /\ Copied /\ Orderly /\ Entered /\ Seen /\ [Next]_vars
        => (SlotTypes /\ Copied /\ Orderly /\ Entered /\ Seen)'
  BY SlotTypesKept, CopiedKept, OrderlyKept, EnteredKept, SeenKept
<1>3. QED
  BY <1>1, <1>2, SlotsInvariant, PTL DEF Spec, EventsInv

\* What the bot thread has not dealt with is what it works on, or is to come.
LEMMA PendingFacts ==
  ASSUME NEW kind, NEW p
  PROVE  Pending(kind, p) <=> (event.kind = kind /\ event.pid = p) \/ Coming(kind, p, 0)
BY DEF Pending, Coming, Tells

\* It is the same when the event at the head of the inbox is taken.
LEMMA PendingReceive ==
  ASSUME SlotsInv, Receive, NEW kind, kind # "none", NEW p
  PROVE  Pending(kind, p)' <=> Pending(kind, p)
<1>1. /\ event.kind = "none" /\ event' = inbox[1] /\ Len(inbox) \in Nat \ {0}
      /\ Len(inbox') = Len(inbox) - 1
  BY TailFacts
<1>2. 0 \in 0..Len(inbox') /\ 0 + 1 = 1
  BY <1>1
<1>3. Coming(kind, p, 0)' <=> Coming(kind, p, 0 + 1)
  BY <1>2, ComingTail
<1>4. inbox # <<>> /\ Types
  BY DEF Receive, SlotsInv
<1>5. Coming(kind, p, 0) <=> Coming(kind, p, 1) \/ Tells(1, kind, p)
  BY <1>4, ComingFirst
<1>6. Pending(kind, p)' <=> (event'.kind = kind /\ event'.pid = p) \/ Coming(kind, p, 0)'
  BY DEF Pending, Coming, Tells
<1>7. QED
  BY <1>1, <1>2, <1>3, <1>5, <1>6, PendingFacts DEF Tells

\* A new message is all that is new.
LEMMA PendingReport ==
  ASSUME SlotsInv, NEW m \in Message, Reports(m), NEW kind, NEW p
  PROVE  Pending(kind, p)' <=> Pending(kind, p) \/ (m.kind = kind /\ m.pid = p)
<1>1. 0 \in 0..Len(inbox) /\ event' = event
  BY DEF Reports, Sent, botVars, SlotsInv, Types
<1>2. Coming(kind, p, 0)' <=> Coming(kind, p, 0) \/ (m.kind = kind /\ m.pid = p)
  BY <1>1, ComingAppended DEF Reports, SlotsInv
<1>3. Pending(kind, p)' <=> (event'.kind = kind /\ event'.pid = p) \/ Coming(kind, p, 0)'
  BY DEF Pending, Coming, Tells
<1>4. QED
  BY <1>1, <1>2, <1>3, PendingFacts

\* The callbacks and the requests leave the inbox alone.
LEMMA InboxLeft ==
  ASSUME (BotStep /\ ~Receive) \/ Request \/ UNCHANGED vars
  PROVE  /\ UNCHANGED <<inbox, seated, unseen, loaded, nextPid>>
         /\ event' = event \/ event' = NoEvent
<1>1. CASE BotStep /\ ~Receive
  BY <1>1 DEF BotStep, Join, IsPlayerAllowed, TakeSlot, Leave, LoadDeck, Done, serverVars
<1>2. CASE Request \/ UNCHANGED vars
  BY <1>2 DEF Request, RenameSlot, KickPlayer, Disable, botVars, serverVars, vars
<1>3. QED
  BY <1>1, <1>2

-----------------------------------------------------------------------------
\* Slots are given back.

\* playerLeave: the player's slot, the only one, is cleared.
LEMMA FollowLeave ==
  ASSUME EventsInv, OneSlotEach, SlotsFollowPlayers, Leave
  PROVE  SlotsFollowPlayers'
<1> SUFFICES ASSUME enabled', NEW s \in Slots, NEW p, p = using'[s], p # NoPid
             PROVE  InGame(p)' \/ Pending("leave", p)' \/ p \in unseen'
  BY DEF SlotsFollowPlayers
<1>1. /\ event.kind = "leave" /\ enabled /\ copy.data
      /\ UNCHANGED <<inbox, seated, unseen>> /\ event' = NoEvent
      /\ using' = IF InCopy(event.pid) THEN ClearPlayerSlot(event.pid) ELSE using
  BY DEF Leave, Done, serverVars, Dangling, EventsInv, Copied, InCopy
<1>2. using \in [Slots -> Pids \cup {NoPid}]
  BY DEF EventsInv, SlotsInv, Types
<1>3. UsedBy(event.pid) # {} => Lowest(UsedBy(event.pid)) \in Slots
                                /\ using[Lowest(UsedBy(event.pid))] = event.pid
  BY LowestFacts DEF UsedBy
<1>4. using[s] = p
  BY <1>1, <1>2, <1>3 DEF ClearPlayerSlot
<1>5. CASE p = event.pid
  <2>1. ~InCopy(event.pid)
    <3> SUFFICES ASSUME InCopy(event.pid)  PROVE FALSE
      OBVIOUS
    <3>1. UsedBy(event.pid) # {}
      BY <1>4, <1>5 DEF UsedBy
    <3>2. s = Lowest(UsedBy(event.pid))
      BY <1>3, <1>4, <1>5, <3>1 DEF OneSlotEach
    <3>3. using' = [using EXCEPT ![s] = NoPid]
      BY <1>1, <3>1, <3>2 DEF ClearPlayerSlot
    <3>4. QED
      BY <1>2, <3>3
  <2>2. QED
    BY <1>1, <1>5, <2>1 DEF EventsInv, Seen
<1>6. CASE p # event.pid
  <2>1. InGame(p) \/ Pending("leave", p) \/ p \in unseen
    BY <1>1, <1>4 DEF SlotsFollowPlayers
  <2>2. Pending("leave", p) => Pending("leave", p)'
    BY <1>1, <1>6 DEF Pending
  <2>3. QED
    BY <1>1, <2>1, <2>2 DEF InGame
<1>7. QED
  BY <1>5, <1>6

\* Who is given a slot is in the game, or leaves later.
LEMMA FollowTakeSlot ==
  ASSUME EventsInv, SlotsFollowPlayers, TakeSlot
  PROVE  SlotsFollowPlayers'
<1> SUFFICES ASSUME enabled', NEW s \in Slots, NEW p, p = using'[s], p # NoPid
             PROVE  InGame(p)' \/ Pending("leave", p)' \/ p \in unseen'
  BY DEF SlotsFollowPlayers
<1>1. /\ scan # <<>> /\ enabled /\ UNCHANGED <<inbox, seated, unseen>>
      /\ using' = using \/ using' = [using EXCEPT ![scan[2]] = event.pid]
  BY DEF TakeSlot, serverVars
<1>2. event.kind = "join"
  BY <1>1 DEF EventsInv, SlotsInv, ChosenFree
<1>3. \A q : Pending("leave", q) => Pending("leave", q)'
  BY <1>1, <1>2 DEF Pending
<1>4. p = event.pid \/ p = using[s]
  BY <1>1 DEF EventsInv, SlotsInv, Types
<1>5. CASE p = event.pid
  <2>1. InGame(p) \/ Coming("leave", p, 0)
    BY <1>2, <1>5 DEF EventsInv, Orderly, InOrder
  <2>2. Coming("leave", p, 0) => Pending("leave", p)
    BY PendingFacts
  <2>3. QED
    BY <1>1, <1>3, <2>1, <2>2 DEF InGame
<1>6. CASE p = using[s]
  BY <1>1, <1>3, <1>6 DEF SlotsFollowPlayers, InGame
<1>7. QED
  BY <1>4, <1>5, <1>6

LEMMA FollowKept ==
  ASSUME EventsInv, OneSlotEach, SlotsFollowPlayers, [Next]_vars
  PROVE  SlotsFollowPlayers'
<1>1. ASSUME using' = using, enabled' => enabled, unseen \subseteq unseen',
             \A p \in Pids : InGame(p) => InGame(p)' \/ Pending("leave", p)',
             \A p \in Pids : Pending("leave", p) => Pending("leave", p)'
      PROVE  SlotsFollowPlayers'
  <2>1. \A s \in Slots : using[s] \in Pids \cup {NoPid}
    BY DEF EventsInv, SlotsInv, Types
  <2>2. QED
    BY <1>1, <2>1 DEF SlotsFollowPlayers
<1>2. CASE Receive
  <2>1. UNCHANGED <<using, enabled, unseen, seated>>
    BY <1>2 DEF Receive, slotVars
  <2>2. \A p \in Pids : Pending("leave", p)' <=> Pending("leave", p)
    BY <1>2, PendingReceive DEF EventsInv
  <2>3. QED
    BY <1>1, <2>1, <2>2 DEF InGame
<1>3. CASE Join \/ IsPlayerAllowed \/ LoadDeck \/ Request \/ UNCHANGED vars
  <2>1. UNCHANGED <<using, inbox, seated, unseen>> /\ (enabled' => enabled)
    <3>1. CASE Join \/ IsPlayerAllowed \/ LoadDeck
      <4>1. CASE Join
        BY <4>1 DEF Join, slotVars, serverVars
      <4>2. CASE IsPlayerAllowed
        BY <4>2 DEF IsPlayerAllowed, slotVars, serverVars
      <4>3. CASE LoadDeck
        BY <4>3 DEF LoadDeck, slotVars, serverVars
      <4>4. QED
        BY <3>1, <4>1, <4>2, <4>3
    <3>2. CASE Request \/ UNCHANGED vars
      BY <3>2 DEF Request, RenameSlot, KickPlayer, Disable, slotVars, botVars, serverVars, vars
    <3>3. QED
      BY <1>3, <3>1, <3>2
  <2>2. event' = event \/ event.kind # "leave"
    <3>1. CASE Join \/ LoadDeck
      BY <3>1 DEF Join, LoadDeck
    <3>2. CASE IsPlayerAllowed \/ Request \/ UNCHANGED vars
      BY <3>2 DEF IsPlayerAllowed, Request, RenameSlot, KickPlayer, Disable, botVars, vars
    <3>3. QED
      BY <1>3, <3>1, <3>2
  <2>3. \A p : Pending("leave", p) => Pending("leave", p)'
    BY <2>1, <2>2 DEF Pending
  <2>4. QED
    BY <1>1, <2>1, <2>3 DEF InGame
<1>4. CASE TakeSlot
  BY <1>4, FollowTakeSlot
<1>5. CASE Leave
  BY <1>5, FollowLeave
<1>6. CASE Server
  <2>1. PICK m \in Message : Reports(m)
    BY <1>6, ServerReports DEF EventsInv
  <2>2. \A p : Pending("leave", p)' <=> Pending("leave", p) \/ (m.kind = "leave" /\ m.pid = p)
    BY <2>1, PendingReport DEF EventsInv
  <2>3. \A p \in Pids : InGame(p) => InGame(p)' \/ (m.kind = "leave" /\ m.pid = p)
    BY <2>1 DEF Reports, Arrives, Departs, Loads
  <2>4. using' = using /\ enabled' = enabled /\ unseen \subseteq unseen'
    BY <2>1 DEF Reports, Sent, slotVars
  <2>5. QED
    BY <1>1, <2>2, <2>3, <2>4
<1>7. QED
  BY <1>2, <1>3, <1>4, <1>5, <1>6 DEF Next, BotStep

\* While the deck verification is on, a slot is given back once its player left,
\* however messages and requests interleave, except that of a player who came and went
\* in one message.
THEOREM SlotsFollowPlayersHolds == Spec => []SlotsFollowPlayers
<1>1. Init => SlotsFollowPlayers
  BY DEF Init, SlotsFollowPlayers
<1>2. EventsInv /\ OneSlotEach /\ SlotsFollowPlayers /\ [Next]_vars => SlotsFollowPlayers'
  BY FollowKept
<1>3. QED
  BY <1>1, <1>2, EventsInvariant, OneSlotEachHolds, PTL DEF Spec

-----------------------------------------------------------------------------
\* Decks are checked.

\* A player loads one deck; it is to be dealt with while they are to come, and nobody
\* is told of a deck before it was dealt with.
Loaded ==
  /\ \A p \in Pids, d, e \in Decks : <<p, d>> \in loaded /\ <<p, e>> \in loaded => d = e
  /\ \A p \in Pids, d \in Decks : <<p, d>> \in loaded =>
       p < nextPid /\ (Pending("join", p) => Pending("deck", p))
  /\ \A p \in Pids, d \in Decks : <<p, d>> \in warned =>
       <<p, d>> \in loaded /\ ~Pending("deck", p)

\* "*" is the only deck of a slot that lists it, whatever its name becomes.
AnyDeckOnly ==
  \A s \in Slots : AnyDeck \in pdi[s].deckHash => pdi[s].deckHash = {AnyDeck}

\* What the deck check does to a player who has a slot.
LEMMA DeckStep ==
  ASSUME EventsInv, OneSlotEach, AnyDeckOnly, enabled, LoadDeck
  PROVE  /\ event.kind = "deck" /\ event.pid \in Pids /\ event.deck \in Decks
         /\ <<event.pid, event.deck>> \in loaded
         /\ \A kind \in {"join", "deck"} : \A p : Pending(kind, p)' <=>
              Pending(kind, p) /\ ~(kind = "deck" /\ p = event.pid)
         /\ warned \subseteq warned' /\ warned' \subseteq warned \cup {<<event.pid, event.deck>>}
         /\ \A s \in Slots : using[s] = event.pid /\ event.pid \notin unseen =>
              warned' = IF pdi[s].deckHash \cap {AnyDeck, event.deck} = {}
                        THEN warned \cup {<<event.pid, event.deck>>} ELSE warned
<1>1. /\ event.kind = "deck" /\ copy.data /\ ~Dangling /\ UNCHANGED inbox /\ event' = NoEvent
  BY DEF LoadDeck, Done, serverVars, Dangling, EventsInv, Copied
<1>2. event \in Message /\ event.pid \in Pids /\ event.deck \in Decks
  BY <1>1, MessageFacts, MessageParts DEF EventsInv, SlotsInv, Types, NoEvent
<1>3. <<event.pid, event.deck>> \in loaded /\ ~Coming("deck", event.pid, 0)
  BY <1>1 DEF EventsInv, Orderly, InOrder
<1>4. ASSUME NEW kind \in {"join", "deck"}, NEW p
      PROVE  Pending(kind, p)' <=> Pending(kind, p) /\ ~(kind = "deck" /\ p = event.pid)
  <2>1. Pending(kind, p)' <=> Coming(kind, p, 0)
    BY <1>1 DEF Pending, Coming, Tells, NoEvent
  <2>2. QED
    BY <1>1, <1>3, <2>1, PendingFacts
<1>5. PICK allowed \in BOOLEAN, s \in Slots \cup {NoSlot} :
        /\ IF UsedBy(event.pid) = {} THEN s = NoSlot
           ELSE s = Lowest(UsedBy(event.pid)) /\ allowed = DeckAllowed(s, event.deck)
        /\ warned' = IF s # NoSlot /\ ~allowed /\ InCopy(event.pid)
                     THEN warned \cup {<<event.pid, event.deck>>} ELSE warned
  BY <1>1 DEF LoadDeck, InCopy
<1>6. ASSUME NEW t \in Slots, using[t] = event.pid, event.pid \notin unseen
      PROVE  warned' = IF pdi[t].deckHash \cap {AnyDeck, event.deck} = {}
                       THEN warned \cup {<<event.pid, event.deck>>} ELSE warned
  <2>1. t \in UsedBy(event.pid) /\ UsedBy(event.pid) \subseteq Slots
    BY <1>6 DEF UsedBy
  <2>2. Lowest(UsedBy(event.pid)) \in UsedBy(event.pid)
    BY <2>1, LowestFacts
  <2>3. s = t /\ allowed = DeckAllowed(t, event.deck)
    BY <1>2, <1>5, <1>6, <2>1, <2>2 DEF UsedBy, OneSlotEach, Pids, NoPid
  <2>4. t # NoSlot /\ InCopy(event.pid)
    BY <1>1, <1>6 DEF EventsInv, Seen, Slots, NoSlot
  <2>5. DeckAllowed(t, event.deck) <=> pdi[t].deckHash \cap {AnyDeck, event.deck} # {}
    BY DEF DeckAllowed, AnyDeckOnly
  <2>6. QED
    BY <1>5, <2>3, <2>4, <2>5
<1>7. warned \subseteq warned' /\ warned' \subseteq warned \cup {<<event.pid, event.deck>>}
  BY <1>5
<1>8. QED
  BY <1>1, <1>2, <1>3, <1>4, <1>6, <1>7

LEMMA LoadedKept ==
  ASSUME EventsInv, OneSlotEach, AnyDeckOnly, Loaded, [Next]_vars
  PROVE  Loaded'
<1>1. ASSUME UNCHANGED <<loaded, nextPid, warned>>,
             \A p \in Pids : /\ Pending("join", p)' => Pending("join", p)
                             /\ Pending("deck", p)' <=> Pending("deck", p)
      PROVE  Loaded'
  BY <1>1 DEF Loaded
<1>2. CASE Receive
  BY <1>1, <1>2, PendingReceive, TailFacts DEF EventsInv
<1>3. CASE (BotStep /\ ~Receive /\ ~LoadDeck) \/ Request \/ UNCHANGED vars
  <2>1. UNCHANGED <<inbox, loaded, nextPid>> /\ (event' = event \/ event' = NoEvent)
    BY <1>3, InboxLeft
  <2>2. warned' = warned
    BY <1>3 DEF BotStep, Join, IsPlayerAllowed, TakeSlot, Leave, Request, RenameSlot,
                KickPlayer, Disable, botVars, vars
  <2>3. event' = event \/ event.kind # "deck"
    <3>1. CASE Join \/ Leave
      BY <3>1 DEF Join, Leave
    <3>2. CASE TakeSlot
      BY <3>2 DEF TakeSlot, EventsInv, SlotsInv, ChosenFree
    <3>3. CASE IsPlayerAllowed \/ Request \/ UNCHANGED vars
      BY <3>3 DEF IsPlayerAllowed, Request, RenameSlot, KickPlayer, Disable, botVars, vars
    <3>4. QED
      BY <1>3, <3>1, <3>2, <3>3 DEF BotStep
  <2>4. \A p : /\ Pending("join", p)' => Pending("join", p)
               /\ Pending("deck", p)' <=> Pending("deck", p)
    BY <2>1, <2>3 DEF Pending, NoEvent
  <2>5. QED
    BY <1>1, <2>1, <2>2, <2>4
<1>4. CASE LoadDeck
  <2>1. /\ event.kind = "deck" /\ event.pid \in Pids /\ event.deck \in Decks
        /\ <<event.pid, event.deck>> \in loaded /\ UNCHANGED <<loaded, nextPid>>
        /\ warned' \in {warned, warned \cup {<<event.pid, event.deck>>}}
    <3>1. /\ event.kind = "deck" /\ UNCHANGED <<loaded, nextPid>>
          /\ warned' \in {warned, warned \cup {<<event.pid, event.deck>>}}
      BY <1>4 DEF LoadDeck, serverVars
    <3>2. event \in Message
      BY <3>1 DEF EventsInv, SlotsInv, Types, NoEvent
    <3>3. QED
      BY <3>1, <3>2, MessageFacts, MessageParts DEF EventsInv, Orderly, InOrder
  <2>2. inbox' = inbox /\ event' = NoEvent
    BY <1>4 DEF LoadDeck, Done, serverVars
  <2>3. ~Coming("deck", event.pid, 0) /\ ~Coming("join", event.pid, 0)
    BY <2>1 DEF EventsInv, Orderly, InOrder
  <2>4. \A kind \in {"join", "deck"} : \A p :
          Pending(kind, p)' <=> Pending(kind, p) /\ ~(kind = "deck" /\ p = event.pid)
    <3> SUFFICES ASSUME NEW kind \in {"join", "deck"}, NEW p
                 PROVE  Pending(kind, p)' <=>
                          Pending(kind, p) /\ ~(kind = "deck" /\ p = event.pid)
      OBVIOUS
    <3>1. Pending(kind, p)' <=> Coming(kind, p, 0)
      BY <2>2 DEF Pending, Coming, Tells, NoEvent
    <3>2. QED
      BY <2>1, <2>3, <3>1, PendingFacts
  <2>5. ~Pending("join", event.pid)
    BY <2>1, <2>3, PendingFacts
  <2>6. QED
    BY <2>1, <2>4, <2>5 DEF Loaded
<1>5. CASE Server
  <2>1. PICK m \in Message : Reports(m)
    BY <1>5, ServerReports DEF EventsInv
  <2>2. \A kind, p : Pending(kind, p)' <=> Pending(kind, p) \/ (m.kind = kind /\ m.pid = p)
    BY <2>1, PendingReport DEF EventsInv
  <2>3. warned' = warned /\ m.pid \in Pids /\ nextPid \in Nat
    BY <2>1, MessageFacts DEF Reports, Sent, botVars, EventsInv, SlotsInv, Types
  <2>4. CASE Arrives(m)
    <3>1. \A p \in Pids, d \in Decks : <<p, d>> \in loaded => p # nextPid
      BY <2>3 DEF Loaded
    <3>2. \A p \in Pids : p < nextPid => p < nextPid + 1
      BY <2>3 DEF Pids
    <3>3. QED
      BY <2>2, <2>3, <2>4, <3>1, <3>2 DEF Loaded, Arrives
  <2>5. CASE Departs(m)
    BY <2>2, <2>3, <2>5 DEF Loaded, Departs
  <2>6. CASE Loads(m)
    <3>1. m.pid < nextPid /\ m.deck \in Decks
      BY <2>1, <2>3, <2>6, MessageParts DEF Loads, EventsInv, SlotsInv, Numbered
    <3>2. /\ loaded' = loaded \cup {<<m.pid, m.deck>>} /\ nextPid' = nextPid
          /\ \A d \in Decks : <<m.pid, d>> \notin loaded
      BY <2>6 DEF Loads
    <3>3. \A p \in Pids : /\ Pending("join", p)' <=> Pending("join", p)
                          /\ Pending("deck", p)' <=> Pending("deck", p) \/ p = m.pid
      BY <2>2, <2>6 DEF Loads
    <3>4. \A p \in Pids, d \in Decks :
            <<p, d>> \in loaded' <=> <<p, d>> \in loaded \/ (p = m.pid /\ d = m.deck)
      BY <3>2
    <3>5. QED
      BY <2>3, <3>1, <3>2, <3>3, <3>4 DEF Loaded
  <2>7. QED
    BY <2>1, <2>4, <2>5, <2>6 DEF Reports
<1>6. QED
  BY <1>2, <1>3, <1>4, <1>5 DEF Next, BotStep

LEMMA AnyDeckOnlyKept ==
  ASSUME EventsInv, AnyDeckOnly, [Next]_vars
  PROVE  AnyDeckOnly' /\ \A s \in Slots : pdi'[s].deckHash = pdi[s].deckHash
<1>1. ASSUME NEW old \in Names, NEW new \in Names, RenameSlot(old, new)
      PROVE  \A s \in Slots : pdi'[s].deckHash = pdi[s].deckHash
  BY <1>1 DEF RenameSlot, EventsInv, SlotTypes, SlotType
<1>2. ASSUME pdi' # pdi
      PROVE  \E old, new \in Names : RenameSlot(old, new)
  <2>1. ~BotStep
    BY <1>2 DEF BotStep, Receive, Join, IsPlayerAllowed, TakeSlot, Leave, LoadDeck, slotVars
  <2>2. ~Server
    <3>1. \A e : ~Says(e)
      BY <1>2 DEF Says, slotVars
    <3>2. QED
      BY <3>1 DEF Server, ServerJoins, ServerLeaves, ServerLoads
  <2>3. QED
    BY <1>2, <2>1, <2>2 DEF Next, Request, KickPlayer, Disable, slotVars, vars
<1>3. \A s \in Slots : pdi'[s].deckHash = pdi[s].deckHash
  BY <1>1, <1>2
<1>4. QED
  BY <1>3 DEF AnyDeckOnly

LEMMA DeckCheckedKept ==
  ASSUME EventsInv, SlotsInv', OneSlotEach, AnyDeckOnly, Loaded, DeckChecked, [Next]_vars
  PROVE  DeckChecked'
<1> SUFFICES ASSUME enabled', NEW s \in Slots, NEW d \in Decks, NEW p \in Pids, p = using'[s],
                    p \notin unseen', <<p, d>> \in loaded', ~Pending("deck", p)'
             PROVE  <<p, d>> \in warned' <=> pdi'[s].deckHash \cap {AnyDeck, d} = {}
  BY DEF DeckChecked, SlotsInv, Types
<1>1. pdi'[s].deckHash = pdi[s].deckHash
  BY AnyDeckOnlyKept
<1>2. ASSUME enabled, using[s] = p, p \notin unseen, <<p, d>> \in loaded, ~Pending("deck", p),
             <<p, d>> \in warned' <=> <<p, d>> \in warned
      PROVE  <<p, d>> \in warned' <=> pdi'[s].deckHash \cap {AnyDeck, d} = {}
  <2>1. p # NoPid
    BY DEF Pids, NoPid
  <2>2. QED
    BY <1>1, <1>2, <2>1 DEF DeckChecked
<1>3. CASE Receive
  <2>1. UNCHANGED <<using, enabled, unseen, loaded, warned>>
    BY <1>3 DEF Receive, slotVars
  <2>2. Pending("deck", p)' <=> Pending("deck", p)
    BY <1>3, PendingReceive DEF EventsInv
  <2>3. QED
    BY <1>2, <2>1, <2>2
<1>4. CASE Join \/ IsPlayerAllowed \/ Request \/ UNCHANGED vars
  <2>1. UNCHANGED <<using, warned, inbox, loaded, unseen>> /\ (enabled' => enabled)
    <3>1. CASE Join
      BY <3>1 DEF Join, slotVars, serverVars
    <3>2. CASE IsPlayerAllowed
      BY <3>2 DEF IsPlayerAllowed, slotVars, serverVars
    <3>3. CASE Request
      BY <3>3 DEF Request, RenameSlot, KickPlayer, Disable, slotVars, botVars, serverVars
    <3>4. CASE UNCHANGED vars
      BY <3>4 DEF vars, slotVars, botVars, serverVars
    <3>5. QED
      BY <1>4, <3>1, <3>2, <3>3, <3>4
  <2>2. event' = event \/ event.kind # "deck"
    <3>1. CASE Join
      BY <3>1 DEF Join
    <3>2. CASE IsPlayerAllowed \/ Request \/ UNCHANGED vars
      BY <3>2 DEF IsPlayerAllowed, Request, RenameSlot, KickPlayer, Disable, botVars, vars
    <3>3. QED
      BY <1>4, <3>1, <3>2
  <2>3. Pending("deck", p) => Pending("deck", p)'
    BY <2>1, <2>2 DEF Pending
  <2>4. QED
    BY <1>2, <2>1, <2>3
<1>5. CASE TakeSlot
  <2>1. /\ scan # <<>> /\ UNCHANGED <<inbox, loaded, unseen, warned, enabled>>
        /\ using' = using \/ using' = [using EXCEPT ![scan[2]] = event.pid]
    BY <1>5 DEF TakeSlot, serverVars
  <2>2. event.kind = "join"
    BY <2>1 DEF EventsInv, SlotsInv, ChosenFree
  <2>3. ~Pending("deck", p)
    BY <2>1, <2>2 DEF Pending
  <2>4. p # event.pid
    BY <2>1, <2>2, <2>3 DEF Loaded, Pending
  <2>5. using[s] = p
    BY <2>1, <2>4 DEF EventsInv, SlotsInv, Types
  <2>6. QED
    BY <1>2, <2>1, <2>3, <2>5
<1>6. CASE Leave
  <2>1. /\ event.kind = "leave" /\ UNCHANGED <<inbox, loaded, unseen, warned, enabled>>
        /\ using' = using \/ using' = ClearPlayerSlot(event.pid)
    BY <1>6 DEF Leave, serverVars
  <2>2. ~Pending("deck", p)
    BY <2>1 DEF Pending
  <2>3. UsedBy(event.pid) # {} => Lowest(UsedBy(event.pid)) \in Slots
    BY LowestFacts DEF UsedBy
  <2>4. using[s] = p
    BY <2>1, <2>3 DEF ClearPlayerSlot, EventsInv, SlotsInv, Types, Pids, NoPid
  <2>5. QED
    BY <1>2, <2>1, <2>2, <2>4
<1>7. CASE LoadDeck
  <2>1. UNCHANGED <<using, enabled, unseen, loaded>> /\ enabled
    BY <1>7 DEF LoadDeck, slotVars, serverVars
  <2>2. /\ event.pid \in Pids /\ event.deck \in Decks /\ event.kind = "deck"
        /\ <<event.pid, event.deck>> \in loaded
        /\ Pending("deck", p)' <=> Pending("deck", p) /\ p # event.pid
        /\ warned \subseteq warned' /\ warned' \subseteq warned \cup {<<event.pid, event.deck>>}
        /\ using[s] = event.pid /\ event.pid \notin unseen =>
             warned' = IF pdi[s].deckHash \cap {AnyDeck, event.deck} = {}
                       THEN warned \cup {<<event.pid, event.deck>>} ELSE warned
    BY <1>7, <2>1, DeckStep
  <2>3. CASE p = event.pid
    <3>1. d = event.deck
      BY <2>1, <2>2, <2>3 DEF Loaded
    <3>2. <<p, d>> \notin warned
      BY <2>2, <2>3 DEF Loaded, Pending
    <3>3. warned' = IF pdi[s].deckHash \cap {AnyDeck, d} = {}
                    THEN warned \cup {<<p, d>>} ELSE warned
      BY <2>1, <2>2, <2>3, <3>1
    <3>4. QED
      BY <1>1, <3>2, <3>3
  <2>4. CASE p # event.pid
    <3>1. <<p, d>> \in warned' <=> <<p, d>> \in warned
      BY <2>2, <2>4
    <3>2. QED
      BY <1>2, <2>1, <2>2, <2>4, <3>1
  <2>5. QED
    BY <2>3, <2>4
<1>8. CASE Server
  <2>1. PICK m \in Message : Reports(m)
    BY <1>8, ServerReports DEF EventsInv
  <2>2. Pending("deck", p)' <=> Pending("deck", p) \/ (m.kind = "deck" /\ m.pid = p)
    BY <2>1, PendingReport DEF EventsInv
  <2>3. UNCHANGED <<using, enabled, warned>> /\ p \notin unseen
    BY <2>1 DEF Reports, Sent, slotVars, botVars
  <2>4. <<p, d>> \in loaded
    BY <2>1, <2>2 DEF Reports, Arrives, Departs, Loads
  <2>5. QED
    BY <1>2, <2>2, <2>3, <2>4
<1>9. QED
  BY <1>3, <1>4, <1>5, <1>6, <1>7, <1>8 DEF Next, BotStep

\* While the deck verification is on, a player is told of the deck they loaded if,
\* and only if, their slot does not list it, however messages and requests
\* interleave, except a player who came and went in one message.
THEOREM DeckCheckedHolds == Spec => []DeckChecked
<1>1. Init => AnyDeckOnly /\ Loaded /\ DeckChecked
  BY AnyDeckAlone DEF Init, AnyDeckOnly, Loaded, DeckChecked
<1>2. EventsInv /\ EventsInv' /\ OneSlotEach /\ AnyDeckOnly /\ Loaded /\ DeckChecked
        /\ [Next]_vars => (AnyDeckOnly /\ Loaded /\ DeckChecked)'
  BY AnyDeckOnlyKept, LoadedKept, DeckCheckedKept DEF EventsInv
<1>3. QED
  BY <1>1, <1>2, EventsInvariant, OneSlotEachHolds, PTL DEF Spec
=============================================================================
