------------------------------ MODULE ReplayNames ------------------------------
(***************************************************************************)
(* The name of a replay's file and the page behind it.  getReplayFileName  *)
(* (bot.c) makes a path below the replay folder of the game's description, *)
(* which any user of the API chooses, and its ID; eventHandler             *)
(* (api_server.c) routes a request for that path and reads the ID back out *)
(* of it, to answer with the status of a running game or with the file.    *)
(*                                                                         *)
(* A name is a sequence of characters; "bad" stands for an unprintable one *)
(* and an escape like "%3F" is one element.  Here a description is typed   *)
(* character by character and any game of that description may be asked    *)
(* for, whichever games run, by the link as it was told or escaped.        *)
(***************************************************************************)
EXTENDS Integers, SequencesExt

CONSTANTS
  Characters,     \* of a description
  MaxDescription, \* bound: its length
  GameIDs,        \* IDs of games
  ReplayFolder,   \* config.replayFolder
  BufferLength    \* BUFFER_LENGTH

\* What a client writes for a character that has a meaning in a request line.
Reserved == {"?", "%", " "}
EscapeOf(c) == CASE c = "?" -> "%3F" [] c = "%" -> "%25" [] c = " " -> "%20"
Escapes == {"%3F", "%25", "%20"}

ClimbsAt(s, i) == SubSeq(s, i, i + 2) = <<".", ".", "/">>

\* No "../" and no slash at the beginning, nor after a slash.
Straight(s) ==
  \A i \in DOMAIN s :
    i = 1 \/ s[i - 1] = "/" => s[i] # "/" /\ ~(i + 2 <= Len(s) /\ ClimbsAt(s, i))

ASSUME NamesAssumption ==
  /\ MaxDescription \in Nat /\ GameIDs \subseteq Nat /\ BufferLength \in Nat
  /\ ReplayFolder \in Seq(ToSet(ReplayFolder))

\* The replay folder is below the working directory, and needs no escapes: mg_match
\* compares the link before it is decoded.
ASSUME FolderAssumption ==
  Straight(ReplayFolder \o <<"/">>) /\ ToSet(ReplayFolder) \cap Reserved = {}

\* Left out: the "*", since matching a link that has one may never end (mg_match takes
\* it for that of the pattern, mongoose.c:3906), and the "\", which mg_http_serve_dir
\* takes for a slash.
ASSUME CharacterAssumption ==
  ({"*", "\\"} \cup Escapes) \cap (Characters \cup ToSet(ReplayFolder)) = {}

VARIABLES
  description,    \* of the game, as it was sent
  page            \* the last answer, with what was asked for and the games running

namesVars == <<description, page>>

DigitChars == <<"0", "1", "2", "3", "4", "5", "6", "7", "8", "9">>
Figures == ToSet(DigitChars)
Figure(c) == (CHOOSE i \in 1..10 : DigitChars[i] = c) - 1
NoPage == [kind |-> "none"]

-----------------------------------------------------------------------------
\* getReplayFileName.

CleanUp(d) == [i \in DOMAIN d |-> IF d[i] = "bad" THEN "?" ELSE d[i]]

\* The characters of s from i on replaced by as many underscores as n.
Blank(s, i, n) == SubSeq(s, 1, i - 1) \o [k \in 1..n |-> "_"] \o SubSeq(s, i + n, Len(s))

DoubledAt(s, i) == i < Len(s) /\ s[i] = "/" /\ s[i + 1] = "/"

\* A bug: the length is taken for the index of the last character.
NeutralBefore(s, i) ==
  CASE i + 2 < Len(s) /\ ClimbsAt(s, i) -> Blank(s, i, 3)
    [] DoubledAt(s, i) -> Blank(s, i + 1, 1)
    [] OTHER -> s

\* One turn of the loop that takes "../" and "//" out of the name.
NeutralAt(s, i) ==
  CASE i + 2 <= Len(s) /\ ClimbsAt(s, i) -> Blank(s, i, 3)
    [] DoubledAt(s, i) -> Blank(s, i + 1, 1)
    [] OTHER -> s

Relative(s) == IF s # <<>> /\ s[1] = "/" THEN Blank(s, 1, 1) ELSE s

Neutral(d) ==
  LET after[i \in 0..Len(d)] == IF i = 0 THEN CleanUp(d) ELSE NeutralAt(after[i - 1], i)
  IN after[Len(d)]

PathName(d) == Relative(Neutral(d))

\* The folders it makes when it is given the replay folder: one at each slash.
Folders(d) ==
  {SubSeq(PathName(d), 1, i - 1) : i \in {j \in DOMAIN d : PathName(d)[j] = "/"}}

Decimal[n \in Nat] ==
  IF n < 10 THEN <<DigitChars[n + 1]>> ELSE Append(Decimal[n \div 10], DigitChars[(n % 10) + 1])

WholeName(d, id) ==
  (IF Folders(d) = {} THEN <<"r", "e", "p", "l", "a", "y", "-">> ELSE <<>>)
    \o PathName(d) \o <<"-">> \o Decimal[id] \o <<".", "c", "o", "r">>

\* snprintf into n bytes.
Cut(s, n) == IF Len(s) < n THEN s ELSE SubSeq(s, 1, n - 1)

FileName(d, id) == Cut(WholeName(d, id), BufferLength)
Path(d, id) == ReplayFolder \o <<"/">> \o FileName(d, id)

\* saveReplay: the file that is opened.
StoredPath(d, id) == Cut(Path(d, id), BufferLength)

\* The link that serverCreateGameCommand's client is told, after "gameid=", the ID and
\* a line "replayName=", and asks for later.
HeadLength(id) == 19 + Len(Decimal[id])
Link(d, id) == <<"/">> \o Cut(Path(d, id), BufferLength - HeadLength(id))

Escaped(uri) == [i \in DOMAIN uri |-> IF uri[i] \in Reserved THEN EscapeOf(uri[i]) ELSE uri[i]]

-----------------------------------------------------------------------------
\* mg_http_parse: the URI ends at a space, or where the query begins.
Received(uri) ==
  LET ends == {i \in DOMAIN uri : uri[i] \in {" ", "?"}} IN
  IF ends = {} THEN uri ELSE SubSeq(uri, 1, Min(ends) - 1)

\* mg_http_match_uri: mg_match walks the text s and the pattern p; a * stands
\* for characters other than a slash, and only the last * seen is tried again.

Match(s, p) ==
  LET from[x \in (1..Len(p) + 1) \X (1..Len(p) + 1) \X (1..Len(s) + 1) \X (0..Len(s) + 2)] ==
        LET i == x[1]  ni == x[2]  j == x[3]  nj == x[4] IN
        IF i > Len(p) /\ j > Len(s) THEN TRUE
        ELSE IF i <= Len(p) /\ j <= Len(s) /\ p[i] = s[j] THEN from[<<i + 1, ni, j + 1, nj>>]
        ELSE IF i <= Len(p) /\ p[i] = "*" THEN from[<<i + 1, i, j, j + 1>>]
        ELSE IF nj \in 1..Len(s) + 1 /\ (j > Len(s) \/ s[j] # "/") THEN from[<<ni, ni, nj, nj>>]
        ELSE FALSE
  IN from[<<1, 1, 1, 0>>]

\* startServer: the pattern /folder/**/*
Wildcard == <<"/">> \o ReplayFolder \o <<"/", "*", "*", "/", "*">>

Routed(uri) == Match(uri, Wildcard)

-----------------------------------------------------------------------------
\* The automaton that reads the ID of the game: - digits . c o r, at the end.

\* A bug: the ID starts at its last digit.
ReadLate(uri, a, i) ==
  LET c == uri[i] IN
  CASE c = "-" -> [a EXCEPT !.state = 1]
    [] c \in Figures /\ a.state \in {1, 2} -> [a EXCEPT !.state = 2, !.from = i]
    [] c = "." /\ a.state = 2 -> [a EXCEPT !.state = 3, !.to = i - 1]
    [] <<c, a.state>> \in {<<"c", 3>>, <<"o", 4>>, <<"r", 5>>} -> [a EXCEPT !.state = @ + 1]
    [] OTHER -> [a EXCEPT !.state = 0]

ReadAt(uri, a, i) ==
  LET c == uri[i] IN
  CASE c = "-" -> [a EXCEPT !.state = 1]
    [] c \in Figures /\ a.state = 1 -> [a EXCEPT !.state = 2, !.from = i]
    [] c \in Figures /\ a.state = 2 -> a
    [] c = "." /\ a.state = 2 -> [a EXCEPT !.state = 3, !.to = i - 1]
    [] <<c, a.state>> \in {<<"c", 3>>, <<"o", 4>>, <<"r", 5>>} -> [a EXCEPT !.state = @ + 1]
    [] OTHER -> [a EXCEPT !.state = 0]

Automaton(uri) ==
  LET after[i \in 0..Len(uri)] ==
        IF i = 0 THEN [state |-> 0, from |-> 0, to |-> 0] ELSE ReadAt(uri, after[i - 1], i)
  IN after[Len(uri)]

\* atoi of a copy without a terminator: the dot that follows the digits ends it.
IDOf(uri, a) ==
  LET value[i \in 0..a.to + 1] ==
        IF i < a.from THEN 0
        ELSE IF uri[i] = "." THEN value[i - 1] ELSE 10 * value[i - 1] + Figure(uri[i])
  IN value[a.to + 1]

-----------------------------------------------------------------------------
\* mg_http_serve_dir.

Decoded(uri) ==
  [i \in DOMAIN uri |->
     IF uri[i] \in Escapes THEN CHOOSE c \in Reserved : EscapeOf(c) = uri[i] ELSE uri[i]]

Separators == {"/", "\\"}

ParentAt(s, i) == i + 2 <= Len(s) /\ s[i] = "." /\ s[i + 1] = "." /\ s[i + 2] \in Separators

\* One character of remove_double_dots: after a separator it drops separators and "..".
KeepAt(s, a, i) ==
  LET after == a.kept # <<>> /\ Last(a.kept) \in Separators IN
  CASE a.skip > 0 -> [a EXCEPT !.skip = @ - 1]
    [] a.skip = 0 /\ after /\ s[i] \in Separators -> a
    [] a.skip = 0 /\ after /\ ParentAt(s, i) -> [a EXCEPT !.skip = 1]
    [] OTHER -> [a EXCEPT !.kept = Append(@, s[i])]

RemoveDots(s) ==
  LET turn[i \in 0..Len(s)] ==
        IF i = 0 THEN [kept |-> <<>>, skip |-> 0] ELSE KeepAt(s, turn[i - 1], i)
  IN turn[Len(s)].kept

\* One slash at the end, of which no more than one is left.
Trim(s) == IF Len(s) > 0 /\ s[Len(s)] = "/" THEN SubSeq(s, 1, Len(s) - 1) ELSE s

\* A "%" that begins no escape of a client's takes the next two characters with it, or
\* ends the path: the file, if there is one, is another.
Elsewhere == <<"elsewhere">>

Served(uri) ==
  IF "%" \in ToSet(uri) THEN Elsewhere
  ELSE Trim(RemoveDots(<<".", "/">> \o Decoded(uri)))

-----------------------------------------------------------------------------
\* eventHandler: the answer to a request for a replay.
PageOf(asked, running) ==
  LET uri == Received(asked)
      a == Automaton(uri) IN
  CASE ~Routed(uri) -> [kind |-> "404"]
    [] Routed(uri) /\ a.state = 6 /\ IDOf(uri, a) \in running ->
         [kind |-> "status", game |-> IDOf(uri, a)]
    [] OTHER -> [kind |-> "file", path |-> Served(uri)]

-----------------------------------------------------------------------------
NamesInit == description = <<>> /\ page = NoPage

Type(c) ==
  /\ Len(description) < MaxDescription
  /\ description' = Append(description, c)
  /\ page' = NoPage

Visit(id, running, escaped) ==
  /\ LET link == Link(description, id) IN
     page' = [asked |-> id, running |-> running, escaped |-> escaped, kind |-> "answer",
              answer |-> PageOf(IF escaped THEN Escaped(link) ELSE link, running)]
  /\ UNCHANGED description

NamesNext ==
  \/ \E c \in Characters : Type(c)
  \/ \E id \in GameIDs, running \in SUBSET GameIDs, escaped \in BOOLEAN :
       Visit(id, running, escaped)

-----------------------------------------------------------------------------
\* Properties.

NamesTypeOK ==
  /\ description \in SeqOf(Characters, MaxDescription)
  /\ page.kind \in {"none", "answer"}

\* The path between two slashes, or before the first and after the last.
Components(s) ==
  LET ends == {0, Len(s) + 1} \cup {i \in DOMAIN s : s[i] = "/"}
      Follow(i, j) == i < j /\ \A k \in ends : k <= i \/ k >= j
  IN {SubSeq(s, e[1] + 1, e[2] - 1) : e \in {e \in ends \X ends : Follow(e[1], e[2])}}

\* bot.c:390-415: whatever the description, the file is below the replay folder, and
\* every folder on its path has been made before it is opened, if the name is not cut.
FilesBelowFolder ==
  \A id \in GameIDs : Len(WholeName(description, id)) < BufferLength =>
    LET f == FileName(description, id) IN
    /\ f[1] # "/" /\ Components(f) \cap {<<>>, <<".", ".">>} = {}
    /\ {SubSeq(f, 1, i - 1) : i \in {j \in DOMAIN f : f[j] = "/"}} \subseteq Folders(description)

\* The answer to the client is not cut, and so neither are the link and the path.
AnswerFits(d, id) ==
  HeadLength(id) + Len(ReplayFolder) + 1 + Len(WholeName(d, id)) < BufferLength

Visited == page.kind = "answer" /\ AnswerFits(description, page.asked)

\* The status of the game asked for as long as it runs, its file afterwards.
OwnPage ==
  IF page.asked \in page.running THEN [kind |-> "status", game |-> page.asked]
  ELSE [kind |-> "file", path |-> <<".", "/">> \o StoredPath(description, page.asked)]

\* The link of a game in one folder leads to the status of that game, never of another,
\* and to the very file that its replay was saved in, if the client escapes what it was
\* told, or there is nothing to escape: the URL that creategame returns is not escaped
\* (api_help.html:204), and is cut at a "?" that cleanUpStringInput wrote.  Of other games,
\* without a folder or in nested ones, the link is a 404, since * stops at a slash, although
\* api_help.html:198-200 tells of their replays.
LinkLeadsToGame ==
  Visited /\ (page.escaped \/ ToSet(Link(description, page.asked)) \cap Reserved = {}) =>
    page.answer = IF Cardinality(Folders(description)) # 1 THEN [kind |-> "404"] ELSE OwnPage
=============================================================================
