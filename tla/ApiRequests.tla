------------------------------ MODULE ApiRequests ------------------------------
(***************************************************************************)
(* What the API server makes of a request (api_server.c): eventHandler     *)
(* finds the endpoint, the endpoint reads the body line by line, checks    *)
(* what it read, and answers; a game creation builds the slots of the game *)
(* from the player names and deck hashes of the body.                      *)
(*                                                                         *)
(* A line is what tb_readProperty makes of it: the property in lower case, *)
(* its length, the value, the length of the value and its number; of text  *)
(* only the prefixes of the properties' names are told apart.  What an     *)
(* accepted request does to the game is PlayerSlots, GameList and          *)
(* CreateGame.  The client sends any of Lines, in any order.               *)
(***************************************************************************)
EXTENDS Integers, SequencesExt

CONSTANTS
  Lines,          \* the lines a body is made of
  PrefixesOf,     \* of the name of a property, the names that are a prefix of it
  Token,          \* config.authToken
  MaxPlayers,     \* MAX_PLAYERS
  MaxDecks,       \* MAX_DECKS
  NameLength,     \* PLAYER_NAME_LENGTH
  HashLength,     \* DECK_HASH_LENGTH
  MaxEntries      \* bound: names and hashes of a body

ASSUME RequestAssumption ==
  /\ \A l \in Lines : {l.propLen, l.valueLen} \subseteq Nat /\ l.num \in Int
  /\ MaxPlayers \in Nat /\ MaxDecks \in Nat \ {0, 1} /\ MaxEntries \in Nat

Endpoints ==
  {"creategame", "updateplayerinfo", "disableplayerdeckverification", "kickplayer", "endgame"}
StaticPaths == {"favicon", "version"}   \* answered whatever the length of the body
Paths == Endpoints \cup StaticPaths \cup {"checkauthkey", "page", "unknown"}

Unread == "NULL"   \* a text that was not read, a column that was not written
NoAnswer == "none"

VARIABLES
  path,        \* of the request, or "none" when no request is being served
  longBody,    \* the body is longer than MAX_MSG_LENGTH_BYTES
  read,        \* what was read: a value of each property
  names,       \* playerNameBuffers, up to playerNames
  deckCount,   \* of each player name
  rows,        \* deckHashBuffers, by row and column
  deckHashes,  \* the counter
  answer,      \* what was answered
  slots,       \* the slots that a game is created with
  overrun,     \* a hash was written behind deckHashBuffers
  entries,     \* a bound: names and hashes sent so far
  listed,      \* history: the names sent, and the hashes that followed each
  tidy,        \* history: every hash had the length of one
  lastToken    \* history: the last line that is the token's

body == <<read, names, deckCount, rows, deckHashes, overrun>>
said == <<entries, listed, tidy, lastToken>>
requestVars == <<path, longBody, body, answer, slots, said>>

\* The properties an endpoint compares by prefix, in the order of its tests.
Texts(p) ==
  CASE p = "creategame" -> <<"authtoken", "gamename", "password", "playername", "deckhash">>
    [] p = "kickplayer" -> <<"authtoken", "target">>
    [] p = "updateplayerinfo" -> <<"authtoken", "oldplayername", "newplayername">>
    [] p = "disableplayerdeckverification" -> <<"authtoken">>
    [] p = "endgame" -> <<"authtoken", "gameid">>

\* The numbers it compares in full, and how long they may be.  onlyregistered
\* stands for the five options that are read like it.
Numbers(p) ==
  IF p = "creategame" THEN {"playercount", "onlyregistered", "playerdeckverification"}
  ELSE IF p = "endgame" THEN {} ELSE {"gameid"}
Digits(p) == IF p \in {"creategame", "kickplayer"} THEN 9 ELSE 7

Properties ==
  {"authtoken", "gamename", "password", "target", "oldplayername", "newplayername", "gameid",
   "playercount", "onlyregistered", "playerdeckverification"}
Numeric == {"gameid", "playercount", "onlyregistered", "playerdeckverification"}

\* No other name begins like "authtoken".
ASSUME TokenApart == PrefixesOf["authtoken"] \cap (PrefixesOf["gameid"] \cup Numeric) = {}

Nothing ==
  [p \in Properties |-> IF p = "playerdeckverification" THEN 0 ELSE IF p \in Numeric THEN -1
                        ELSE Unread]

NoRows == [r \in 1..MaxPlayers |-> [c \in 1..(MaxDecks - 1) |-> Unread]]

\* tb_readProperty: a name of two letters or more, and a value.
IsProperty(l) == l.propLen > 1 /\ l.valueLen > 0

\* Which test a line passes: the first text it is a prefix of, or a number.
Branch(p, l) ==
  LET hits == {i \in DOMAIN Texts(p) : l.prop \in PrefixesOf[Texts(p)[i]]} IN
  IF hits # {} THEN Texts(p)[CHOOSE i \in hits : \A j \in hits : i <= j]
  ELSE IF l.prop \in Numbers(p) /\ l.valueLen <= Digits(p) THEN l.prop
  ELSE "none"

Value(l) == IF l.prop \in PrefixesOf["gameid"] \cup Numeric THEN l.num ELSE l.value

-----------------------------------------------------------------------------
\* eventHandler: a request arrives.
Serve(p) ==
  /\ path = "none"
  /\ path' = p
  /\ longBody' \in BOOLEAN
  /\ read' = Nothing /\ names' = <<>> /\ deckCount' = <<>> /\ deckHashes' = 0
  /\ rows' = NoRows /\ overrun' = FALSE
  /\ answer' = NoAnswer /\ slots' = <<>>
  /\ entries' = 0 /\ listed' = <<>> /\ tidy' = TRUE /\ lastToken' = Unread

Answer(a) == answer' = a /\ path' = "none"

\* The pages, and the limit on the length of a body, which comes after them.
AnswerPage ==
  /\ path \notin Endpoints \cup {"none"}
  /\ \/ path \in StaticPaths /\ Answer("200")
     \/ path \notin StaticPaths /\ longBody /\ Answer("413")
     \/ path = "page" /\ ~longBody /\ Answer("200")
     \/ path = "unknown" /\ ~longBody /\ Answer("404")
     \/ /\ path = "checkauthkey" /\ ~longBody
        /\ \E b \in {Token, "other"}, ends \in BOOLEAN :   \* what follows the body
             Answer(IF b = Token /\ ends THEN "valid=1" ELSE "valid=0")
  /\ UNCHANGED <<longBody, body, slots, said>>

RefuseLong ==
  /\ path \in Endpoints /\ longBody
  /\ Answer("413")
  /\ UNCHANGED <<longBody, body, slots, said>>

-----------------------------------------------------------------------------
\* A line of the body.

Reading == path \in Endpoints /\ ~longBody

Fits(l) == l.valueLen < NameLength
HasRoomForOneMore == Len(names) <= MaxPlayers   \* mutant
HasRoom == Len(names) < MaxPlayers

ReadName(l) ==
  /\ IF HasRoom /\ Fits(l)
     THEN names' = Append(names, l.value) /\ deckCount' = Append(deckCount, 0)
     ELSE UNCHANGED <<names, deckCount>>
  /\ UNCHANGED <<read, rows, deckHashes, overrun>>

CountEachHash(hashes, count) == hashes + 1   \* mutant: the braces of the test are lost

\* The first hash of a player begins a row, whether it is stored or not.
CountHash(hashes, count) == IF count = 0 THEN hashes + 1 ELSE hashes

IsHash(l) == l.valueLen + 1 = HashLength

\* A hash is written to the row that was begun last, which need not be the row of
\* the player: a bad hash begins one too.  Nothing keeps it inside the buffer.
ReadHash(l) ==
  /\ IF names = <<>> THEN UNCHANGED <<deckCount, rows, deckHashes, overrun>>
     ELSE LET n == Len(names) IN
          /\ deckHashes' = CountHash(deckHashes, deckCount[n])
          /\ IF deckCount[n] < MaxDecks - 1 /\ IsHash(l)
             THEN /\ deckCount' = [deckCount EXCEPT ![n] = @ + 1]
                  /\ IF deckHashes' <= MaxPlayers
                     THEN /\ rows' = [rows EXCEPT ![deckHashes'][deckCount'[n]] = l.value]
                          /\ UNCHANGED overrun
                     ELSE overrun' = TRUE /\ UNCHANGED rows
             ELSE UNCHANGED <<deckCount, rows, overrun>>
  /\ UNCHANGED <<read, names>>

KeepFirst(b, l) == IF read[b] = Nothing[b] THEN Value(l) ELSE read[b]   \* mutant

\* A property that is read again replaces what was read.
Replace(b, l) == Value(l)

ReadField(b, l) ==
  /\ read' = [read EXCEPT ![b] = Replace(b, l)]
  /\ UNCHANGED <<names, deckCount, rows, deckHashes, overrun>>

\* What the client says, for the properties.
Entry(b) == b \in {"playername", "deckhash"}
Say(b, l) ==
  /\ entries' = IF Entry(b) THEN entries + 1 ELSE entries
  /\ listed' =
       IF b = "playername" /\ Fits(l) THEN Append(listed, [name |-> l.value, decks |-> <<>>])
       ELSE IF b = "deckhash" /\ listed # <<>> /\ IsHash(l)
       THEN Front(listed) \o <<[Last(listed) EXCEPT !.decks = Append(@, l.value)]>>
       ELSE listed
  /\ tidy' = (tidy /\ (b = "deckhash" => IsHash(l)))
  /\ lastToken' = IF b = "authtoken" THEN l.value ELSE lastToken

ReadLine(l) ==
  /\ Reading /\ IsProperty(l)
  /\ LET b == Branch(path, l) IN
     /\ b # "none"
     /\ Entry(b) => entries < MaxEntries
     /\ CASE b = "playername" -> ReadName(l)
          [] b = "deckhash" -> ReadHash(l)
          [] OTHER -> ReadField(b, l)
     /\ Say(b, l)
  /\ UNCHANGED <<path, longBody, answer, slots>>

\* Any other line changes nothing.
SkipLine(l) ==
  /\ Reading /\ (~IsProperty(l) \/ Branch(path, l) = "none")
  /\ UNCHANGED requestVars

-----------------------------------------------------------------------------
\* The end of the body.

CreateValid ==
  /\ {read["authtoken"], read["gamename"], read["password"]} \cap {Unread} = {}
  /\ read["playercount"] > 0 /\ read["onlyregistered"] # -1
  /\ read["playerdeckverification"] # 0 =>
       Len(names) <= read["playercount"] /\ deckHashes = Len(names)
         /\ read["playercount"] <= MaxPlayers

Valid ==
  CASE path = "creategame" -> CreateValid
    [] OTHER ->
       \A p \in ToSet(Texts(path)) \cup Numbers(path) : read[p] # Nothing[p]

AnyToken(token) == token # Unread   \* mutant: the token is not compared

Authorised(token) == token = Token

\* The slots: the names in order, with the rows in order.
SlotsRead ==
  [i \in DOMAIN names |-> [name |-> names[i], decks |-> SubSeq(rows[i], 1, deckCount[i])]]

\* A slot that no name was sent for is called "*"; initPlayerDeckInfo takes the
\* letters of a literal for the address of its deck, and reads what is there.
EmptySlots == {<<>>} \cup {<<[name |-> "*", decks |-> <<d>>]>> : d \in {"*", "garbage"}}

\* gameData of the new game; only empty slots are undefined.
Create ==
  IF read["playerdeckverification"] = 0
  THEN slots' = <<>> /\ Answer("creating")
  ELSE IF read["playercount"] = Len(names)
  THEN slots' = SlotsRead /\ Answer("creating")
  ELSE \/ Answer("crash") /\ UNCHANGED slots
       \/ /\ Answer("creating")
          /\ \E e \in EmptySlots : slots' = SlotsRead \o e

\* What the list has under the game ID decides what an accepted request does.
Games == {"none", "plain", "verified"}

Kick == \E game \in Games :
  \/ game # "none" /\ Answer("success")
  \/ Answer("error not found")   \* no such game, or no such player

DisableVerification == \E game \in Games :
  Answer(CASE game = "verified" -> "success"
           [] game = "plain" -> "already disabled"
           [] game = "none" -> "error game not found")

\* The last two answers are not those of api_help.html:160-165, which has them
\* the other way round.
UpdatePlayerInfo == \E game \in Games :
  \/ /\ game = "verified"
     /\ \E a \in {"success", "success but occupied", "error player not found"} : Answer(a)
  \/ game = "plain" /\ Answer("error game not found")
  \/ game = "none" /\ Answer("not enabled")

EndGame == \E game \in Games : Answer(IF game = "none" THEN "error not found" ELSE "success")

Obey ==
  \/ path = "creategame" /\ Create
  \/ /\ \/ path = "kickplayer" /\ Kick
        \/ path = "disableplayerdeckverification" /\ DisableVerification
        \/ path = "updateplayerinfo" /\ UpdatePlayerInfo
        \/ path = "endgame" /\ EndGame
     /\ UNCHANGED slots

\* What was written behind the buffer may be what the rest of the endpoint reads.
Undefined ==
  /\ \E a \in {"404", "401", "creating", "crash"} : Answer(a)
  /\ UNCHANGED slots

Finish ==
  /\ Reading
  /\ IF overrun THEN Undefined
     ELSE IF Valid /\ Authorised(read["authtoken"]) THEN Obey
     ELSE /\ Answer(IF Valid THEN "401" ELSE "404")
          /\ UNCHANGED slots
  /\ UNCHANGED <<longBody, body, said>>

RequestInit ==
  /\ path = "none" /\ longBody = FALSE
  /\ read = Nothing /\ names = <<>> /\ deckCount = <<>> /\ deckHashes = 0
  /\ rows = NoRows /\ overrun = FALSE
  /\ answer = NoAnswer /\ slots = <<>>
  /\ entries = 0 /\ listed = <<>> /\ tidy = TRUE /\ lastToken = Unread

RequestNext ==
  \/ \E p \in Paths : Serve(p)
  \/ AnswerPage \/ RefuseLong
  \/ \E l \in Lines : ReadLine(l) \/ SkipLine(l)
  \/ Finish

-----------------------------------------------------------------------------
\* Properties.

Accepted == answer \in {"creating", "crash", "success", "already disabled", "error not found",
                        "error game not found", "not enabled", "success but occupied",
                        "error player not found"}

RequestTypeOK ==
  /\ path \in Paths \cup {"none"}
  /\ DOMAIN read = Properties
  /\ Len(names) <= MaxPlayers /\ Len(deckCount) = Len(names)
  /\ \A i \in DOMAIN deckCount : deckCount[i] \in 0..(MaxDecks - 1)
  /\ deckHashes \in 0..entries /\ entries \in 0..MaxEntries

\* Nothing is done for a client whose last word on the token was another one, nor
\* for a body that is too long, however the lines were abbreviated and repeated
\* (api_help.html:64); of a body that wrote behind the rows nothing is said.
OnlyAuthorised == Accepted /\ ~overrun => lastToken = Token /\ ~longBody

\* A game is created with its slots checked, of no more names than there is room for.
CreatedChecked == answer = "creating" /\ slots # <<>> /\ ~overrun /\ Len(listed) <= MaxPlayers

\* It has the players that were sent, in that order, each with the decks that came
\* after them (api_help.html:97), if every hash had 8 characters.  A bad hash is not
\* ignored, as api_help.html:92 has it, but moves those behind it to other rows; and
\* of the 10 decks of api_help.html:103 the code keeps the first MAX_DECKS - 1.  A
\* name that is too long counts as not sent.
FirstDecks(p) ==
  IF Len(p.decks) < MaxDecks THEN p ELSE [p EXCEPT !.decks = SubSeq(@, 1, MaxDecks - 1)]
AsSent == SubSeq(slots, 1, Len(listed)) = [i \in DOMAIN listed |-> FirstDecks(listed[i])]
SlotsAsListed == CreatedChecked /\ tidy => AsSent
=============================================================================
