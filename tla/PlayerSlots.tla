------------------------------ MODULE PlayerSlots ------------------------------
(***************************************************************************)
(* The slots of a game with player deck verification: who may sit where,   *)
(* and with which decks.  player_deck_info.c, playerJoin, playerLeave and  *)
(* playerPropertyChange of main.c, the player list of game_struct.c as     *)
(* handleGameEvent edits it, and the requests of api_server.c that rename  *)
(* a slot, switch the verification off, or kick a player.                  *)
(*                                                                         *)
(* The bot thread calls its callbacks on a copy of the game, made once per *)
(* message, which shares the array of slots (gameDataPtr) with the game;   *)
(* the callbacks hold no mutex, so that a request of the API thread may    *)
(* come between any two of their looks at a slot.  One game; its players   *)
(* that neither watch nor judge.                                           *)
(***************************************************************************)
EXTENDS Integers, Sequences, FiniteSets

CONSTANTS
  PlayerCount,   \* g.playerCount
  Names, Star,   \* names that slots and players may have, and "*"
  Users,         \* the names of the players who join
  Lower,         \* a name in lower case
  Decks, AnyDeck,   \* deck hashes, and "*"
  Slots0,        \* the slots a game may be created with
  Garbage,       \* what the IDs of playerArr may hold before they are set
  MaxPid,        \* bound: players who ever join
  MaxInbox,      \* bound: events on their way from the server
  MaxRenames     \* bound: requests that rename a slot

ASSUME SlotsAssumption ==
  /\ PlayerCount \in Nat /\ MaxPid \in Nat /\ MaxInbox \in Nat /\ MaxRenames \in Nat
  /\ Star \in Names /\ Users \subseteq Names /\ Garbage \subseteq 0..MaxPid
  /\ AnyDeck \notin Decks /\ Lower \in [Names -> Names]

Slots == 1..PlayerCount
Pids  == 1..MaxPid
NoPid == 0        \* playerUsingSlot = -1
NoName == "NULL"  \* playerName = NULL, no such player yet
NoSlot == 0       \* index = -1
Unknown == "Uknown player."

SlotType ==
  [playerName : Names, isEmptySlot : BOOLEAN, deckHash : SUBSET (Decks \cup {AnyDeck})]

ASSUME Slots0Assumption == 
  Slots0 \subseteq [Slots -> SlotType] /\ Names \cap {NoName, Unknown} = {}

\* "*" is the only deck of a slot that lists it: a request gives hashes of eight
\* letters, and the slots that it says nothing of have "*" alone (api_server.c).
ASSUME AnyDeckAlone ==
  \A slots \in Slots0 : \A s \in Slots :
    AnyDeck \in slots[s].deckHash => slots[s].deckHash = {AnyDeck}

VARIABLES
  pdi,       \* the slots: name, isEmptySlot, decks
  using,     \* playerUsingSlot of each slot
  enabled,   \* gameDataPtr # NULL in the list's game; when it becomes NULL, pdi is freed
  players,   \* playerArr: ID and name of each entry
  inbox,     \* events from the server; "first" begins a message
  event,     \* the event the bot thread works on, or NoEvent
  copy,      \* the copy of the game made at the start of the message
  scan,      \* the locals of isPlayerAllowed
  kicks,     \* players for whom a kick command was queued
  warned,    \* players told of a deck that is not expected, and the deck
  seated,    \* the server's view: the name of each player in the game
  nextPid,   \* the server's next player ID
  loaded,    \* the decks that players loaded
  renames,   \* bound: renames so far
  sure,      \* history: slots that were free for the player all through the scan
  own,       \* history: of these, the slots with the player's name
  unseen     \* history: players who left, or loaded a deck, in the message they came in

slotVars   == <<pdi, using, enabled>>
botVars    == <<players, event, copy, scan, kicks, warned>>
serverVars == <<inbox, seated, nextPid, loaded, unseen>>
history    == <<sure, own>>
vars == <<slotVars, botVars, serverVars, history, renames>>

NoEvent == [kind |-> "none"]

-----------------------------------------------------------------------------
\* player_deck_info.c

Free(s) == using[s] = NoPid

\* The names match in lower case.
NameMatches(s, name) == Lower[pdi[s].playerName] = Lower[name]

\* May a player of this name take slot s, if it is free?
Admits(s, name) ==
  pdi[s].isEmptySlot \/ NameMatches(s, name) \/ pdi[s].playerName = Star

UsedBy(p) == {s \in Slots : using[s] = p}

Lowest(S) == CHOOSE s \in S : \A t \in S : s <= t

ClearNothing(p) == using   \* mutant: the player's array index is compared, not the ID

\* clearPlayerSlot, first slot only.
ClearPlayerSlot(p) ==
  IF UsedBy(p) = {} THEN using ELSE [using EXCEPT ![Lowest(UsedBy(p))] = NoPid]

DeckAllowedExactly(s, deck) == deck \in pdi[s].deckHash   \* mutant: "*" is a deck

\* isPlayerDeckAllowed for the player in slot s.
DeckAllowed(s, deck) == pdi[s].deckHash = {AnyDeck} \/ deck \in pdi[s].deckHash

\* The callbacks read the slots through the copy, which keeps the pointer when
\* a request frees what it points to.
Dangling == copy.data /\ ~enabled

-----------------------------------------------------------------------------
\* The bot thread: handleGameEvent and the callbacks of main.c.

\* The next event; the first of a message makes the copy of the game.
Receive ==
  /\ event = NoEvent /\ inbox # <<>>
  /\ event' = Head(inbox)
  /\ inbox' = Tail(inbox)
  /\ copy' = IF Head(inbox).first
             THEN [data |-> enabled, ids |-> [i \in Slots |-> players[i].playerID]]
             ELSE copy
  /\ UNCHANGED <<slotVars, players, scan, kicks, warned, seated, nextPid, loaded, unseen,
                 history, renames>>

EntryOf(p) == {i \in Slots : players[i].playerID = p}
Vacant == {i \in Slots : players[i].playerName = NoName}

\* A player is found by ID, in whatever entry; otherwise addPlayer takes the
\* first entry without a name, if there is one.
TrackJoin(p, name, hasPing) ==
  players' =
    IF EntryOf(p) # {}
    THEN IF hasPing THEN [players EXCEPT ![Lowest(EntryOf(p))].playerName = name] ELSE players
    ELSE IF Vacant # {}
    THEN [players EXCEPT ![Lowest(Vacant)] = [playerID |-> p, playerName |-> name]]
    ELSE players

\* removePlayer.
TrackLeave(p) ==
  players' = [i \in Slots |->
    IF players[i].playerID = p THEN [players[i] EXCEPT !.playerName = NoName] ELSE players[i]]

\* A player whose properties change and who has no entry gets one, under a
\* name that is not theirs.
TrackProperties(p) ==
  players' =
    IF EntryOf(p) = {} /\ Vacant # {}
    THEN [players EXCEPT ![Lowest(Vacant)] = [playerID |-> p, playerName |-> Unknown]]
    ELSE players

Done == event' = NoEvent

\* Event_Join: the list of players, then playerJoin, which goes on to look
\* for a slot when the copy has slots.
Join ==
  /\ event.kind = "join" /\ scan = <<>>
  /\ TrackJoin(event.pid, event.name, event.ping)
  /\ IF copy.data
     THEN /\ scan' = <<1, NoSlot, FALSE>>
          /\ sure' = {s \in Slots : Free(s) /\ Admits(s, event.name)}
          /\ own' = {s \in Slots : Free(s) /\ NameMatches(s, event.name)
                                   /\ ~pdi[s].isEmptySlot}
          /\ UNCHANGED event
     ELSE Done /\ UNCHANGED <<scan, history>>
  /\ UNCHANGED <<slotVars, copy, kicks, warned, serverVars, renames>>

ScanLast(i, index, admits, matches) ==   \* mutant: goes on after the match
  scan' = <<i + 1, IF admits THEN i ELSE index, FALSE>>

ScanOffByOne(i, index, admits, matches) ==   \* mutant: the slot after
  scan' = <<i + 1, IF admits THEN i + 1 ELSE index, matches>>

\* What one turn of the loop of isPlayerAllowed does with slot i.
ScanSlot(i, index, admits, matches) ==
  scan' = <<i + 1, IF admits THEN i ELSE index, matches>>

AllowedIfUsed ==   \* mutant: playerUsingSlot is not looked at
  /\ scan # <<>> /\ scan[1] <= PlayerCount /\ ~scan[3]
  /\ \E admits, matches \in BOOLEAN :
       /\ LET s == scan[1] IN
          ~Dangling => /\ admits = Admits(s, event.name)
                       /\ matches = (~pdi[s].isEmptySlot /\ NameMatches(s, event.name))
       /\ matches => admits
       /\ ScanSlot(scan[1], scan[2], admits, matches)
  /\ UNCHANGED <<slotVars, players, event, copy, kicks, warned, serverVars, history, renames>>

TakeEach ==   \* mutant: the slot is taken in the loop
  /\ scan # <<>> /\ scan[1] <= PlayerCount /\ ~scan[3]
  /\ LET s == scan[1] IN
       /\ ScanSlot(s, scan[2], Free(s) /\ Admits(s, event.name), Free(s)
                    /\ NameMatches(s, event.name))
       /\ using' = IF Free(s) /\ Admits(s, event.name)
                   THEN [using EXCEPT ![s] = event.pid] ELSE using
  /\ UNCHANGED <<pdi, enabled, players, event, copy, kicks, warned, serverVars, history,
                 renames>>

\* A turn of the loop; freed slots may look like anything.
IsPlayerAllowed ==
  /\ scan # <<>> /\ scan[1] <= PlayerCount /\ ~scan[3]
  /\ \E admits, matches \in BOOLEAN :
       /\ LET s == scan[1] IN
          ~Dangling => /\ admits = (Free(s) /\ Admits(s, event.name))
                       /\ matches = (Free(s) /\ ~pdi[s].isEmptySlot
                                             /\ NameMatches(s, event.name))
       /\ matches => admits
       /\ ScanSlot(scan[1], scan[2], admits, matches)
  /\ UNCHANGED <<slotVars, players, event, copy, kicks, warned, serverVars, history, renames>>

\* The end of the loop: the slot is taken, or the player is told why, and
\* kicked.
TakeSlot ==
  /\ scan # <<>> /\ (scan[1] > PlayerCount \/ scan[3])
  /\ \/ /\ scan[2] # NoSlot
        /\ using' = IF Dangling THEN using ELSE [using EXCEPT ![scan[2]] = event.pid]
        /\ UNCHANGED kicks
     \/ /\ scan[2] = NoSlot
        /\ kicks' = kicks \cup {event.pid}
        /\ UNCHANGED using
  /\ scan' = <<>> /\ sure' = {} /\ own' = {}
  /\ Done
  /\ UNCHANGED <<pdi, enabled, players, copy, warned, serverVars, renames>>

\* Event_Leave: playerLeave, on the players of the copy, then removePlayer.
Leave ==
  /\ event.kind = "leave"
  /\ using' = IF /\ copy.data /\ ~Dangling
                 /\ \E i \in Slots : copy.ids[i] = event.pid
              THEN ClearPlayerSlot(event.pid) ELSE using
  /\ TrackLeave(event.pid)
  /\ Done
  /\ UNCHANGED <<pdi, enabled, copy, scan, kicks, warned, serverVars, history, renames>>

\* Event_PlayerPropertiesChanged: playerPropertyChange.  Of a player without a
\* slot isPlayerDeckAllowed reads what is before the array; the result is not
\* used then.
LoadDeck ==
  /\ event.kind = "deck"
  /\ \E allowed \in BOOLEAN, s \in Slots \cup {NoSlot} :
       /\ ~Dangling =>
            IF UsedBy(event.pid) = {} THEN s = NoSlot
            ELSE s = Lowest(UsedBy(event.pid)) /\ allowed = DeckAllowed(s, event.deck)
       /\ warned' =
            IF /\ copy.data /\ s # NoSlot /\ ~allowed
               /\ \E i \in Slots : copy.ids[i] = event.pid
            THEN warned \cup {<<event.pid, event.deck>>} ELSE warned
  /\ TrackProperties(event.pid)
  /\ Done
  /\ UNCHANGED <<slotVars, copy, scan, kicks, serverVars, history, renames>>

BotStep == Receive \/ Join \/ IsPlayerAllowed \/ TakeSlot \/ Leave \/ LoadDeck

-----------------------------------------------------------------------------
\* The API thread, under the mutex of the list.

\* serverUpdatePlayerInfo: the first slot of that name, unless two slots called
\* "*" come before it; or else the only "*".
Reached(s, old) ==
  Cardinality({t \in Slots : t < s /\ pdi[t].playerName = Star /\ Star # old}) < 2
Exact(old) == {s \in Slots : pdi[s].playerName = old /\ Reached(s, old)}
Wild == {s \in Slots : pdi[s].playerName = Star}

RenameTarget(old) ==
  IF Exact(old) # {} THEN Lowest(Exact(old))
  ELSE IF Cardinality(Wild) = 1 THEN Lowest(Wild) ELSE NoSlot

RenameSlot(old, new) ==
  /\ enabled /\ renames < MaxRenames
  /\ RenameTarget(old) # NoSlot
  /\ pdi' = [pdi EXCEPT ![RenameTarget(old)].playerName = new]
  /\ sure' = sure \ {RenameTarget(old)}
  /\ own' = own \ {RenameTarget(old)}
  /\ renames' = renames + 1
  /\ UNCHANGED <<using, enabled, botVars, serverVars>>

\* serverDisablePlayerDeckVerififcation frees the slots.
Disable ==
  /\ enabled
  /\ enabled' = FALSE
  /\ UNCHANGED <<pdi, using, botVars, serverVars, history, renames>>

\* serverKickPlayerCommand: the first player of that name.
Called(name) == {i \in Slots : players[i].playerName = name}
KickPlayer(name) ==
  /\ Called(name) # {}
  /\ kicks' = kicks \cup {players[Lowest(Called(name))].playerID}
  /\ UNCHANGED <<slotVars, players, event, copy, scan, warned, serverVars, history, renames>>

Request ==
  \/ \E old, new \in Names : RenameSlot(old, new)
  \/ \E name \in Names : KickPlayer(name)
  \/ Disable

-----------------------------------------------------------------------------
\* The server: a player ID is given once; an event may come in one message with
\* the one before it.

InGame(p) == seated[p] # NoName

\* Did p join in the message that is last in inbox?
JoinedInLast(p) ==
  \E i \in 1..Len(inbox) :
    /\ inbox[i].kind = "join" /\ inbox[i].pid = p
    /\ \A j \in (i + 1)..Len(inbox) : ~inbox[j].first

Says(e) ==
  /\ Len(inbox) < MaxInbox
  /\ \/ /\ inbox' = Append(inbox, e)
        /\ UNCHANGED unseen
     \/ /\ \E i \in 1..Len(inbox) : inbox[i].first
        /\ inbox' = Append(inbox, [e EXCEPT !.first = FALSE])
        /\ unseen' = IF JoinedInLast(e.pid) THEN unseen \cup {e.pid} ELSE unseen
  /\ UNCHANGED <<slotVars, botVars, history, renames>>

ServerJoins(name) ==
  /\ nextPid <= MaxPid
  /\ Cardinality({p \in Pids : InGame(p)}) < PlayerCount
  /\ \A p \in Pids : seated[p] # name
  /\ seated' = [seated EXCEPT ![nextPid] = name]
  /\ nextPid' = nextPid + 1
  /\ Says([first |-> TRUE, kind |-> "join", pid |-> nextPid, name |-> name, ping |-> TRUE])
  /\ UNCHANGED loaded

\* The player leaves, or the server obeys a kick.
ServerLeaves(p) ==
  /\ InGame(p)
  /\ seated' = [seated EXCEPT ![p] = NoName]
  /\ Says([first |-> TRUE, kind |-> "leave", pid |-> p])
  /\ UNCHANGED <<nextPid, loaded>>

ServerLoads(p, deck) ==
  /\ InGame(p) /\ \A d \in Decks : <<p, d>> \notin loaded   \* bound: one deck each
  /\ loaded' = loaded \cup {<<p, deck>>}
  /\ Says([first |-> TRUE, kind |-> "deck", pid |-> p, deck |-> deck])
  /\ UNCHANGED <<nextPid, seated>>

Server ==
  \/ \E name \in Users : ServerJoins(name)
  \/ \E p \in Pids : ServerLeaves(p) \/ \E deck \in Decks : ServerLoads(p, deck)

-----------------------------------------------------------------------------
\* createGame leaves the IDs of playerArr as malloc returns them.
Init ==
  /\ pdi \in Slots0
  /\ using = [s \in Slots |-> NoPid]
  /\ enabled = TRUE
  /\ \E g \in Garbage : players = [i \in Slots |-> [playerID |-> g, playerName |-> NoName]]
  /\ inbox = <<>> /\ event = NoEvent
  /\ copy = [data |-> FALSE, ids |-> [i \in Slots |-> NoPid]]
  /\ scan = <<>> /\ kicks = {} /\ warned = {}
  /\ seated = [p \in Pids |-> NoName]
  /\ nextPid = 1 /\ loaded = {} /\ renames = 0
  /\ sure = {} /\ own = {} /\ unseen = {}

Next == BotStep \/ Request \/ Server

Spec == Init /\ [][Next]_vars

-----------------------------------------------------------------------------
\* Properties.

TypeOK ==
  /\ pdi \in [Slots -> SlotType]
  /\ using \in [Slots -> Pids \cup {NoPid}]
  /\ enabled \in BOOLEAN
  /\ players \in [Slots -> [playerID : Pids \cup {NoPid},
                             playerName : Names \cup {NoName, Unknown}]]
  /\ scan = <<>> \/ scan \in (1..(PlayerCount + 1)) \X (Slots \cup {NoSlot}) \X BOOLEAN
  /\ kicks \subseteq Pids \cup {NoPid}
  /\ warned \subseteq Pids \X Decks
  /\ seated \in [Pids -> Names \cup {NoName}]
  /\ nextPid \in 1..(MaxPid + 1)

\* An event about p that the bot thread has not dealt with yet.
Pending(kind, p) ==
  \/ event.kind = kind /\ event.pid = p
  \/ \E i \in 1..Len(inbox) : inbox[i].kind = kind /\ inbox[i].pid = p

\* Players sit and leave: Seating.
Seats == INSTANCE Seating WITH Seat <- Slots, Player <- Pids, Nobody <- NoPid, owner <- using

\* The requests and the callbacks together do what Seating promises.
ImplementsSeating == Seats!Spec

\* No player takes two slots: who joins is given one, and gives it back.
OneSlotEach == \A s, t \in Slots : using[s] = using[t] /\ using[s] # NoPid => s = t

\* Nobody plays who was not checked: while the verification is on, a player whose
\* arrival was dealt with has a slot or is being kicked, whatever requests did
\* to the slots meanwhile.
UncheckedKicked ==
  enabled => \A p \in Pids : InGame(p) /\ ~Pending("join", p) => UsedBy(p) # {} \/ p \in kicks

\* A slot is given back when its player leaves; not so that of a player who came and
\* went in one message: the callback does not know that they were there, since the copy
\* of the players is made once per message (main.c:222).  Players who loaded a deck in
\* the message they came in are left out with them (unseen).
SlotsFollowPlayers ==
  enabled => \A s \in Slots : LET p == using[s] IN
    p # NoPid => InGame(p) \/ Pending("leave", p) \/ p \in unseen

\* A player is not kicked while a slot that was free for them all the time the loop
\* ran is left, and takes the slot with their name before any other.
ExpectedSeated ==
  scan # <<>> /\ (scan[1] > PlayerCount \/ scan[3]) /\ ~Dangling =>
    /\ sure # {} => scan[2] # NoSlot
    /\ own # {} => scan[3]

\* A player is told of the decks they loaded that their slot does not list, and of
\* no other; it does not speak of those who loaded it, or left, in the message they
\* came in, who are not in the copy that the callback looks at (main.c:222).
DeckChecked ==
  enabled => \A s \in Slots : \A d \in Decks : LET p == using[s] IN
    p # NoPid /\ p \notin unseen /\ <<p, d>> \in loaded /\ ~Pending("deck", p) =>
      (<<p, d>> \in warned <=> pdi[s].deckHash \cap {AnyDeck, d} = {})
=============================================================================
