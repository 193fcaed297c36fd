----------------------------- MODULE InputsProofs -----------------------------
(***************************************************************************)
(* Proofs about what the program makes of what it is given: ApiRequests,   *)
(* ConfigReader, ChatCommands and ReplayFiles, for every set of lines,     *)
(* values, messages, replays and files, and every limit; and about Inputs, *)
(* which runs these and ReplayNames.  (What ReplayNames itself promises is *)
(* proved in ReplayNamesProofs.)                                           *)
(***************************************************************************)
EXTENDS Inputs, SequenceTheorems, FiniteSetTheorems, TLAPS

RequestSpec == RequestInit /\ [][RequestNext]_requestVars
ConfigSpec  == ConfigInit /\ [][ConfigNext]_configVars
ChatSpec    == ChatInit /\ [][ChatNext]_chatVars
FilesSpec   == FilesInit /\ [][FilesNext]_filesVars

-----------------------------------------------------------------------------
\* Requests: the token.

\* While a request is served nothing is answered, and the token that will be compared
\* is the last one that was sent.
TokenInv ==
  /\ DOMAIN read = Properties
  /\ path # "none" => answer = NoAnswer /\ read["authtoken"] = lastToken

\* A line that is read for a property other than a name or a hash.
LEMMA ReadLineFacts ==
  ASSUME NEW l \in Lines, ReadLine(l)
  PROVE  \E b : /\ b = Branch(path, l) /\ Say(b, l) /\ IsProperty(l)
                /\ \/ b = "playername" /\ ReadName(l)
                   \/ b = "deckhash" /\ ReadHash(l)
                   \/ b \notin {"playername", "deckhash"} /\ ReadField(b, l)
                /\ path \in Endpoints /\ ~longBody /\ UNCHANGED <<path, longBody, answer, slots>>
<1> DEFINE b == Branch(path, l)
<1>1. /\ Reading /\ IsProperty(l) /\ Say(b, l) /\ UNCHANGED <<path, longBody, answer, slots>>
      /\ CASE b = "playername" -> ReadName(l)
           [] b = "deckhash" -> ReadHash(l)
           [] OTHER -> ReadField(b, l)
  BY DEF ReadLine
<1> HIDE DEF b
<1>2. \/ b = "playername" /\ ReadName(l)
      \/ b = "deckhash" /\ ReadHash(l)
      \/ b \notin {"playername", "deckhash"} /\ ReadField(b, l)
  BY <1>1
<1>3. QED
  BY <1>1, <1>2 DEF b, Reading

\* Endpoints know up to five texts.
LEMMA TextsFacts ==
  ASSUME path \in Endpoints
  PROVE  \E n \in {1, 2, 3, 5} : DOMAIN Texts(path) = 1..n
<1>1. CASE path = "creategame"
  <2>1. Texts(path) = <<"authtoken", "gamename", "password", "playername", "deckhash">>
    BY <1>1 DEF Texts
  <2>2. DOMAIN Texts(path) = 1..5
    BY <2>1
  <2>3. QED
    BY <2>2
<1>2. CASE path = "kickplayer"
  <2>1. Texts(path) = <<"authtoken", "target">>
    BY <1>2 DEF Texts
  <2>2. DOMAIN Texts(path) = 1..2
    BY <2>1
  <2>3. QED
    BY <2>2
<1>3. CASE path = "updateplayerinfo"
  <2>1. Texts(path) = <<"authtoken", "oldplayername", "newplayername">>
    BY <1>3 DEF Texts
  <2>2. DOMAIN Texts(path) = 1..3
    BY <2>1
  <2>3. QED
    BY <2>2
<1>4. CASE path = "disableplayerdeckverification"
  <2>1. Texts(path) = <<"authtoken">>
    BY <1>4 DEF Texts
  <2>2. DOMAIN Texts(path) = 1..1
    BY <2>1
  <2>3. QED
    BY <2>2
<1>5. CASE path = "endgame"
  <2>1. Texts(path) = <<"authtoken", "gameid">>
    BY <1>5 DEF Texts
  <2>2. DOMAIN Texts(path) = 1..2
    BY <2>1
  <2>3. QED
    BY <2>2
<1>6. QED
  BY <1>1, <1>2, <1>3, <1>4, <1>5 DEF Endpoints

\* Which line is the token's: one whose property is a prefix of its name.
LEMMA TokenBranch ==
  ASSUME path \in Endpoints, NEW l \in Lines, Branch(path, l) = "authtoken"
  PROVE  l.prop \in PrefixesOf["authtoken"]
<1> DEFINE T == Texts(path)
           hits == {i \in DOMAIN T : l.prop \in PrefixesOf[T[i]]}
<1>1. CASE hits # {}
  <2> DEFINE i == CHOOSE i \in hits : \A j \in hits : i <= j
  <2>1. \E n \in hits : \A j \in hits : n <= j
    <3>1. PICK n \in {1, 2, 3, 5} : DOMAIN T = 1..n
      BY TextsFacts
    <3>2. QED
      BY <1>1, <3>1
  <2>2. i \in hits
    BY <2>1
  <2>3. T[i] = "authtoken"
    BY <1>1 DEF Branch
  <2>4. QED
    BY <2>2, <2>3
<1>2. CASE hits = {}
  <2>1. Branch(path, l) = IF l.prop \in Numbers(path) /\ l.valueLen <= Digits(path) THEN l.prop
                          ELSE "none"
    BY <1>2 DEF Branch
  <2>2. "authtoken" \notin Numbers(path)
    BY DEF Numbers
  <2>3. QED
    BY <2>1, <2>2
<1>3. QED
  BY <1>1, <1>2

\* Every step of a request keeps the token that will be compared the last one sent.
LEMMA TokenKept ==
  ASSUME TokenInv, OnlyAuthorised, [RequestNext]_requestVars
  PROVE  TokenInv' /\ OnlyAuthorised'
<1>1. ASSUME NEW p \in Paths, Serve(p)  PROVE TokenInv' /\ OnlyAuthorised'
  <2>1. answer' = NoAnswer /\ lastToken' = Unread /\ read' = Nothing
    BY <1>1 DEF Serve
  <2>2. DOMAIN Nothing = Properties /\ Nothing["authtoken"] = Unread
    BY DEF Nothing, Properties, Numeric
  <2>3. QED
    BY <2>1, <2>2 DEF TokenInv, OnlyAuthorised, Accepted, NoAnswer
<1>2. CASE AnswerPage \/ RefuseLong
  <2>1. /\ path' = "none" /\ UNCHANGED read
        /\ answer' \in {"200", "413", "404", "valid=1", "valid=0"}
    BY <1>2 DEF AnswerPage, RefuseLong, Answer, body
  <2>2. QED
    BY <2>1 DEF TokenInv, OnlyAuthorised, Accepted
<1>3. ASSUME NEW l \in Lines, ReadLine(l)  PROVE TokenInv' /\ OnlyAuthorised'
  <2>1. PICK b : /\ b = Branch(path, l) /\ Say(b, l)
                 /\ \/ b = "playername" /\ ReadName(l)
                    \/ b = "deckhash" /\ ReadHash(l)
                    \/ b \notin {"playername", "deckhash"} /\ ReadField(b, l)
                 /\ path \in Endpoints /\ UNCHANGED <<path, longBody, answer, slots>>
    BY <1>3, ReadLineFacts
  <2>2. path # "none" /\ answer = NoAnswer /\ read["authtoken"] = lastToken
    BY <2>1 DEF TokenInv, Endpoints
  <2>3. lastToken' = IF b = "authtoken" THEN l.value ELSE lastToken
    BY <2>1 DEF Say
  <2>4. DOMAIN read' = Properties /\ read'["authtoken"] = lastToken'
    <3>1. CASE b \in {"playername", "deckhash"}
      BY <2>1, <2>2, <2>3, <3>1 DEF ReadName, ReadHash, TokenInv
    <3>2. CASE b \notin {"playername", "deckhash"}
      <4>1. read' = [read EXCEPT ![b] = Value(l)]
        BY <2>1, <3>2 DEF ReadField, Replace
      <4>2. b = "authtoken" => Value(l) = l.value
        BY <2>1, TokenBranch, TokenApart DEF Value
      <4>3. "authtoken" \in Properties
        BY DEF Properties
      <4>4. QED
        BY <2>2, <2>3, <4>1, <4>2, <4>3 DEF TokenInv
    <3>3. QED
      BY <3>1, <3>2
  <2>5. QED
    BY <2>1, <2>2, <2>4 DEF TokenInv, OnlyAuthorised, Accepted, NoAnswer
<1>4. CASE Finish
  <2>1. /\ path # "none" /\ ~longBody /\ UNCHANGED <<longBody, read, lastToken>>
        /\ path' = "none"
        /\ overrun' = overrun
        /\ overrun \/ answer' \in {"401", "404"} \/ read["authtoken"] = Token
    BY <1>4 DEF Finish, Undefined, Reading, Endpoints, body, said, Authorised, Obey, Create, Kick,
                DisableVerification, UpdatePlayerInfo, EndGame, Answer
  <2>2. QED
    BY <2>1 DEF TokenInv, OnlyAuthorised, Accepted
<1>5. CASE (\E l \in Lines : SkipLine(l)) \/ UNCHANGED requestVars
  <2>1. UNCHANGED <<path, longBody, read, answer, lastToken, overrun>>
    BY <1>5 DEF SkipLine, requestVars, body, said
  <2>2. QED
    BY <2>1 DEF TokenInv, OnlyAuthorised, Accepted
<1>6. QED
  BY <1>1, <1>2, <1>3, <1>4, <1>5 DEF RequestNext

\* The token, and what it guards, in every behaviour of a request.
LEMMA TokenInvariant == RequestSpec => [](TokenInv /\ OnlyAuthorised)
<1>1. RequestInit => TokenInv /\ OnlyAuthorised
  BY DEF RequestInit, TokenInv, OnlyAuthorised, Accepted, NoAnswer, Nothing
<1>2. TokenInv /\ OnlyAuthorised /\ [RequestNext]_requestVars => (TokenInv /\ OnlyAuthorised)'
  BY TokenKept
<1>3. QED
  BY <1>1, <1>2, PTL DEF RequestSpec

\* Nothing is done for a client whose last word on the token was another one, nor for a
\* body that is too long, whatever lines the body has, in whatever order, as long as no
\* hash is written behind the rows.
THEOREM OnlyAuthorisedHolds == RequestSpec => []OnlyAuthorised
BY TokenInvariant, PTL

-----------------------------------------------------------------------------
\* Requests: the slots of a new game.

Said == {l.value : l \in Lines} \cup {Unread}
Entries == [name : Said, decks : Seq(Said)]

BodyTypes ==
  /\ names \in Seq(Said) /\ Len(names) <= MaxPlayers
  /\ deckCount \in Seq(0..(MaxDecks - 1)) /\ Len(deckCount) = Len(names)
  /\ rows \in [1..MaxPlayers -> [1..(MaxDecks - 1) -> Said]]
  /\ deckHashes \in Nat
  /\ listed \in Seq(Entries)

\* Row i has the hashes that followed name i, and there are some.
InRow(i) ==
  deckCount[i] > 0 /\ \A c \in 1..deckCount[i] : rows[i][c] = listed[i].decks[c]

\* How many of the hashes of a player are kept.
Kept(p) == IF Len(p.decks) < MaxDecks THEN Len(p.decks) ELSE MaxDecks - 1

\* The names are those listed, with as many hashes as are kept; the rows are theirs when
\* there are as many rows as names, or one less and the last name has no hash yet.
AsListed ==
  /\ Len(listed) = Len(names)
  /\ \A i \in 1..Len(names) : listed[i].name = names[i] /\ Kept(listed[i]) = deckCount[i]
  /\ deckHashes <= Len(names)
  /\ deckHashes = Len(names) => \A i \in 1..Len(names) : InRow(i)
  /\ deckHashes = Len(names) - 1 /\ deckCount[Len(names)] = 0
       => \A i \in 1..(Len(names) - 1) : InRow(i)

\* Every hash had 8 characters, and there is room for the names.
Followed == tidy /\ Len(listed) <= MaxPlayers

\* The last of a sequence replaced.
LEMMA ReplaceLast ==
  ASSUME NEW S, NEW s \in Seq(S), s # <<>>, NEW e \in S
  PROVE  /\ Front(s) \o <<e>> \in Seq(S) /\ Len(Front(s) \o <<e>>) = Len(s)
         /\ \A i \in 1..Len(s) : (Front(s) \o <<e>>)[i] = IF i = Len(s) THEN e ELSE s[i]
<1>1. Len(s) \in Nat \ {0} /\ \A i \in 1..Len(s) : s[i] \in S
  BY EmptySeq, ElementOfSeq
<1>2. PICK n \in Nat : Len(s) = n + 1
  BY <1>1
<1>3. /\ SubSeq(s, 1, n) \in Seq(S) /\ Len(SubSeq(s, 1, n)) = n
      /\ \A i \in 1..n : SubSeq(s, 1, n)[i] = s[i]
  <2>1. \A i \in 1..n : s[i] \in S
    BY <1>1, <1>2
  <2>2. /\ SubSeq(s, 1, n) \in Seq(S)
        /\ Len(SubSeq(s, 1, n)) = IF 1 <= n THEN n - 1 + 1 ELSE 0
        /\ \A i \in 1..(n - 1 + 1) : SubSeq(s, 1, n)[i] = s[1 + i - 1]
    BY <1>2, <2>1, SubSeqProperties
  <2>3. QED
    BY <1>2, <2>2
<1>4. Front(s) = SubSeq(s, 1, n)
  BY <1>1, <1>2 DEF Front
<1>5. <<e>> \in Seq(S) /\ Len(<<e>>) = 1 /\ <<e>>[1] = e
  OBVIOUS
<1>6. QED
  <2> DEFINE a == Front(s)
  <2>1. a \in Seq(S) /\ Len(a) = n /\ \A i \in 1..n : a[i] = s[i]
    BY <1>3, <1>4
  <2> HIDE DEF a
  <2>2. /\ a \o <<e>> \in Seq(S) /\ Len(a \o <<e>>) = n + 1
        /\ \A i \in 1..(n + 1) : (a \o <<e>>)[i] = IF i <= n THEN a[i] ELSE <<e>>[i - n]
    BY <1>5, <2>1, ConcatProperties
  <2>3. \A i \in 1..(n + 1) : (a \o <<e>>)[i] = IF i = n + 1 THEN e ELSE s[i]
    BY <1>2, <1>5, <2>1, <2>2
  <2>4. QED
    BY <1>2, <2>2, <2>3 DEF a

\* Nothing was read that the slots are made of.
LEMMA SameBody ==
  ASSUME BodyTypes, Followed => AsListed,
         UNCHANGED <<names, deckCount, rows, deckHashes, listed>>, tidy' => tidy
  PROVE  BodyTypes' /\ (Followed' => AsListed')
<1>1. BodyTypes'
  BY DEF BodyTypes
<1>2. ASSUME AsListed  PROVE AsListed'
  BY <1>2 DEF AsListed, InRow
<1>3. Followed' => Followed
  BY DEF Followed
<1>4. QED
  BY <1>1, <1>2, <1>3

\* One name more.
LEMMA NameRead ==
  ASSUME BodyTypes, Followed => AsListed, NEW l \in Lines, ReadName(l), Say("playername", l)
  PROVE  BodyTypes' /\ (Followed' => AsListed')
<1> DEFINE e == [name |-> l.value, decks |-> <<>>]
<1>1. /\ listed' = IF Fits(l) THEN Append(listed, e) ELSE listed
      /\ UNCHANGED <<rows, deckHashes>> /\ (tidy' => tidy)
  BY DEF Say, ReadName
<1>2. l.value \in Said /\ e \in Entries /\ e.name = l.value /\ e.decks = <<>>
  BY DEF Said, Entries
<1> HIDE DEF e
<1>3. Fits(l) => /\ listed' \in Seq(Entries) /\ Len(listed') = Len(listed) + 1
                 /\ \A i \in 1..Len(listed) : listed'[i] = listed[i]
                 /\ listed'[Len(listed) + 1] = e
  BY <1>1, <1>2, AppendProperties DEF BodyTypes
<1>4. CASE ~Fits(l)
  <2>1. UNCHANGED <<names, deckCount, rows, deckHashes, listed>>
    BY <1>1, <1>4 DEF ReadName
  <2>2. QED
    BY <1>1, <2>1, SameBody
<1>5. CASE Fits(l) /\ ~HasRoom
  <2>1. UNCHANGED <<names, deckCount, rows, deckHashes>>
    BY <1>1, <1>5 DEF ReadName
  <2>2. BodyTypes'
    BY <1>3, <1>5, <2>1 DEF BodyTypes
  <2>3. Len(listed) \in Nat /\ Len(names) \in Nat /\ MaxPlayers \in Nat
    BY RequestAssumption, LenProperties DEF BodyTypes
  <2>4. ASSUME Followed'  PROVE FALSE
    <3>1. tidy /\ Len(listed) + 1 <= MaxPlayers
      BY <1>1, <1>3, <1>5, <2>4 DEF Followed
    <3>2. Len(listed) = Len(names)
      BY <2>3, <3>1 DEF Followed, AsListed
    <3>3. QED
      BY <1>5, <2>3, <3>1, <3>2 DEF HasRoom
  <2>5. QED
    BY <2>2, <2>4
<1>6. CASE Fits(l) /\ HasRoom
  <2>1. /\ names' = Append(names, l.value) /\ deckCount' = Append(deckCount, 0)
        /\ Len(names) < MaxPlayers
    BY <1>6 DEF ReadName, HasRoom
  <2>2. 0 \in 0..(MaxDecks - 1) /\ Len(names) \in Nat
    BY RequestAssumption, LenProperties DEF BodyTypes
  <2>3. PICK n \in Nat : n = Len(names) /\ n = Len(deckCount)
    BY <2>2 DEF BodyTypes
  <2>4. /\ names' \in Seq(Said) /\ Len(names') = n + 1
        /\ \A i \in 1..n : names'[i] = names[i]
        /\ names'[n + 1] = l.value
    BY <1>2, <2>1, <2>3, AppendProperties DEF BodyTypes
  <2>5. /\ deckCount' \in Seq(0..(MaxDecks - 1)) /\ Len(deckCount') = n + 1
        /\ \A i \in 1..n : deckCount'[i] = deckCount[i]
        /\ deckCount'[n + 1] = 0
    BY <2>1, <2>2, <2>3, AppendProperties DEF BodyTypes
  <2>6. BodyTypes'
    BY <1>1, <1>3, <1>6, <2>1, <2>3, <2>4, <2>5, RequestAssumption DEF BodyTypes
  <2>7. ASSUME AsListed  PROVE AsListed'
    <3>1. Len(listed) = n /\ Len(listed') = n + 1 /\ listed'[n + 1] = e
          /\ \A i \in 1..n : listed'[i] = listed[i]
      BY <1>3, <1>6, <2>3, <2>7 DEF AsListed
    <3>2. \A i \in 1..n : InRow(i)' <=> InRow(i)
      BY <1>1, <2>5, <3>1 DEF InRow
    <3>3. /\ \A i \in 1..n : listed[i].name = names[i] /\ Kept(listed[i]) = deckCount[i]
          /\ deckHashes \in Nat /\ deckHashes <= n
          /\ deckHashes = n => \A i \in 1..n : InRow(i)
      BY <2>3, <2>7 DEF AsListed, BodyTypes
    <3>4. \A i \in 1..(n + 1) :
            listed'[i].name = names'[i] /\ Kept(listed'[i]) = deckCount'[i]
      <4>1. \A i \in 1..(n + 1) : i \in 1..n \/ i = n + 1
        OBVIOUS
      <4>2. Kept(e) = 0
        BY <1>2, RequestAssumption DEF Kept
      <4>3. QED
        BY <1>2, <2>4, <2>5, <3>1, <3>3, <4>1, <4>2
    <3>5. deckHashes' = deckHashes /\ deckHashes # n + 1 /\ (n + 1) - 1 = n
      BY <1>1, <3>3
    <3>6. QED
      BY <2>4, <3>1, <3>2, <3>3, <3>4, <3>5 DEF AsListed
  <2>8. Followed' => Followed
    <3>1. Len(listed) \in Nat /\ Len(listed') = Len(listed) + 1 /\ MaxPlayers \in Nat
      BY <1>3, <1>6, RequestAssumption, LenProperties DEF BodyTypes
    <3>2. QED
      BY <1>1, <3>1 DEF Followed
  <2>9. QED
    BY <2>6, <2>7, <2>8
<1>7. QED
  BY <1>4, <1>5, <1>6

\* One hash more.
LEMMA HashRead ==
  ASSUME BodyTypes, Followed => AsListed, NEW l \in Lines, ReadHash(l), Say("deckhash", l)
  PROVE  BodyTypes' /\ (Followed' => AsListed')
<1> DEFINE v == l.value
           e == [Last(listed) EXCEPT !.decks = Append(@, v)]
           more == listed # <<>> /\ IsHash(l)
<1>1. /\ listed' = IF more THEN Front(listed) \o <<e>> ELSE listed
      /\ tidy' = (tidy /\ IsHash(l)) /\ names' = names
  BY DEF Say, ReadHash
<1>2. v \in Said
  BY DEF Said
<1>3. ASSUME listed # <<>>
      PROVE  /\ e \in Entries /\ e.name = Last(listed).name
             /\ Len(e.decks) = Len(Last(listed).decks) + 1
             /\ \A c \in 1..Len(Last(listed).decks) : e.decks[c] = Last(listed).decks[c]
             /\ e.decks[Len(Last(listed).decks) + 1] = v
  <2>1. Len(listed) \in 1..Len(listed)
    BY <1>3, EmptySeq DEF BodyTypes
  <2>2. Last(listed) \in Entries
    BY <2>1, ElementOfSeq DEF BodyTypes, Last
  <2>3. e = [name |-> Last(listed).name, decks |-> Append(Last(listed).decks, v)]
    BY <2>2 DEF Entries
  <2>4. Last(listed).decks \in Seq(Said) /\ Last(listed).name \in Said
    BY <2>2 DEF Entries
  <2> HIDE DEF e, v
  <2>5. QED
    BY <1>2, <2>3, <2>4, AppendProperties DEF Entries
<1>4. /\ listed' \in Seq(Entries) /\ Len(listed') = Len(listed)
      /\ more => \A i \in 1..Len(listed) : listed'[i] = IF i = Len(listed) THEN e ELSE listed[i]
  <2>1. CASE more
    <3>1. e \in Entries /\ listed # <<>>
      BY <1>3, <2>1
    <3> HIDE DEF e
    <3>2. QED
      BY <1>1, <2>1, <3>1, ReplaceLast DEF BodyTypes
  <2>2. CASE ~more
    BY <1>1, <2>2 DEF BodyTypes
  <2>3. QED
    BY <2>1, <2>2
<1> HIDE DEF e, v
<1>0. Followed' => Followed
  BY <1>1, <1>4 DEF Followed
<1>5. CASE names = <<>>
  <2>1. UNCHANGED <<names, deckCount, rows, deckHashes>>
    BY <1>1, <1>5 DEF ReadHash
  <2>2. Followed => listed = <<>>
    BY <1>5, EmptySeq DEF AsListed, BodyTypes
  <2>3. Followed' => listed' = listed
    BY <1>0, <1>1, <2>2
  <2>4. BodyTypes'
    BY <1>4, <2>1 DEF BodyTypes
  <2>5. ASSUME Followed'  PROVE AsListed'
    <3>1. AsListed /\ listed' = listed
      BY <1>0, <2>3, <2>5
    <3>2. QED
      BY <2>1, <3>1 DEF AsListed, InRow
  <2>6. QED
    BY <2>4, <2>5
<1>6. CASE names # <<>>
  <2>1. PICK n \in Nat \ {0} : n = Len(names) /\ n = Len(deckCount)
    BY <1>6, EmptySeq DEF BodyTypes
  <2>2. PICK d \in Nat : d = deckHashes
    BY DEF BodyTypes
  <2>3. PICK c \in 0..(MaxDecks - 1) : c = deckCount[n]
    <3>1. n \in 1..Len(deckCount) /\ deckCount \in Seq(0..(MaxDecks - 1))
      BY <2>1 DEF BodyTypes
    <3>2. deckCount[n] \in 0..(MaxDecks - 1)
      BY <3>1, ElementOfSeq
    <3>3. QED
      BY <3>2
  <2>4. /\ deckHashes' = IF c = 0 THEN d + 1 ELSE d
        /\ IF c < MaxDecks - 1 /\ IsHash(l)
           THEN /\ deckCount' = [deckCount EXCEPT ![n] = c + 1]
                /\ IF deckHashes' <= MaxPlayers
                   THEN rows' = [rows EXCEPT ![deckHashes'][deckCount'[n]] = v]
                   ELSE rows' = rows
           ELSE UNCHANGED <<deckCount, rows>>
    BY <1>6, <2>1, <2>2, <2>3 DEF ReadHash, CountHash, v
  <2>5. MaxDecks \in Nat \ {0, 1} /\ MaxPlayers \in Nat
    BY RequestAssumption
  <2>6. /\ deckCount \in [1..n -> 0..(MaxDecks - 1)]
        /\ rows \in [1..MaxPlayers -> [1..(MaxDecks - 1) -> Said]]
        /\ n <= MaxPlayers
    BY <2>1, LenProperties DEF BodyTypes
  <2>7. CASE c < MaxDecks - 1 /\ IsHash(l)
    <3>1. /\ deckCount' = [deckCount EXCEPT ![n] = c + 1]
          /\ c + 1 \in 0..(MaxDecks - 1) /\ n \in 1..Len(deckCount)
      BY <2>1, <2>3, <2>4, <2>5, <2>7
    <3>2. /\ deckCount' \in Seq(0..(MaxDecks - 1)) /\ Len(deckCount') = n
          /\ \A i \in 1..n : deckCount'[i] = IF i = n THEN c + 1 ELSE deckCount[i]
      BY <2>1, <3>1, ExceptSeq DEF BodyTypes
    <3>3. /\ deckHashes' \in Nat
          /\ IF deckHashes' <= MaxPlayers THEN rows' = [rows EXCEPT ![deckHashes'][c + 1] = v]
             ELSE rows' = rows
      <4>1. n \in 1..n
        BY <2>1
      <4>2. deckCount'[n] = c + 1
        BY <3>2, <4>1
      <4>3. IF deckHashes' <= MaxPlayers
            THEN rows' = [rows EXCEPT ![deckHashes'][deckCount'[n]] = v]
            ELSE rows' = rows
        BY <2>4, <2>7
      <4>4. deckHashes' \in Nat
        BY <2>2, <2>4
      <4>5. QED
        BY <4>2, <4>3, <4>4
    <3>4. /\ rows' \in [1..MaxPlayers -> [1..(MaxDecks - 1) -> Said]]
          /\ \A i \in 1..MaxPlayers : i # deckHashes' => rows'[i] = rows[i]
          /\ \A i \in 1..MaxPlayers, k \in 1..(MaxDecks - 1) :
               i = deckHashes' => rows'[i][k] = IF k = c + 1 THEN v ELSE rows[i][k]
      <4>1. CASE deckHashes' <= MaxPlayers
        <5>1. CASE deckHashes' \in 1..MaxPlayers
          <6>1. rows' = [rows EXCEPT ![deckHashes'] = [rows[deckHashes'] EXCEPT ![c + 1] = v]]
            BY <3>3, <4>1
          <6> DEFINE row == [rows[deckHashes'] EXCEPT ![c + 1] = v]
          <6>2. /\ row \in [1..(MaxDecks - 1) -> Said]
                /\ \A k \in 1..(MaxDecks - 1) :
                     row[k] = IF k = c + 1 THEN v ELSE rows[deckHashes'][k]
            BY <1>2, <2>6, <5>1
          <6>3. rows' = [rows EXCEPT ![deckHashes'] = row]
            BY <6>1
          <6> HIDE DEF row
          <6>4. QED
            BY <2>6, <5>1, <6>2, <6>3
        <5>2. CASE deckHashes' \notin 1..MaxPlayers
          <6>1. rows' = rows
            BY <2>6, <3>3, <4>1, <5>2
          <6>2. QED
            BY <2>6, <5>2, <6>1
        <5>3. QED
          BY <5>1, <5>2
      <4>2. CASE ~(deckHashes' <= MaxPlayers)
        <5>1. \A i \in 1..MaxPlayers : i # deckHashes'
          BY <2>5, <3>3, <4>2
        <5>2. QED
          BY <2>6, <3>3, <4>2, <5>1
      <4>3. QED
        BY <4>1, <4>2
    <3>5. BodyTypes'
      BY <1>1, <1>4, <2>1, <3>2, <3>3, <3>4 DEF BodyTypes
    <3>6. ASSUME Followed'  PROVE AsListed'
      <4>1. /\ Len(listed) = n
            /\ \A i \in 1..n : listed[i].name = names[i] /\ Kept(listed[i]) = deckCount[i]
            /\ d <= n
            /\ d = n => \A i \in 1..n : InRow(i)
            /\ d = n - 1 /\ c = 0 => \A i \in 1..(n - 1) : InRow(i)
        BY <1>0, <2>1, <2>2, <2>3, <3>6 DEF AsListed
      <4>2. Last(listed) = listed[n] /\ listed # <<>> /\ Len(listed[n].decks) = c /\ more
        <5>1. Kept(listed[n]) = c
          BY <2>1, <2>3, <4>1
        <5>2. Len(listed[n].decks) = c
          BY <2>3, <2>5, <2>7, <5>1 DEF Kept
        <5>3. QED
          BY <2>1, <2>7, <4>1, <5>2 DEF Last
      <4>3. /\ e.name = listed[n].name /\ Len(e.decks) = c + 1
            /\ \A k \in 1..c : e.decks[k] = listed[n].decks[k]
            /\ e.decks[c + 1] = v
        BY <1>3, <4>2
      <4>4. \A i \in 1..n : listed'[i] = IF i = n THEN e ELSE listed[i]
        BY <1>4, <4>1, <4>2
      <4>5. \A i \in 1..n : listed'[i].name = names[i] /\ Kept(listed'[i]) = deckCount'[i]
        <5>1. Kept(e) = c + 1
          BY <2>3, <2>5, <2>7, <4>3 DEF Kept
        <5>2. QED
          BY <3>2, <4>1, <4>3, <4>4, <5>1
      <4>6. c = 0 => d # n
        <5>1. ASSUME d = n  PROVE c > 0
          <6>1. n \in 1..n
            BY <2>1
          <6>2. InRow(n)
            BY <4>1, <5>1, <6>1
          <6>3. QED
            BY <2>3, <6>2 DEF InRow
        <5>2. QED
          BY <5>1
      <4>7. deckHashes' <= n /\ deckCount'[n] # 0
        BY <2>1, <2>3, <2>4, <3>2, <4>1, <4>6
      <4>8. ASSUME deckHashes' = n, NEW i \in 1..n  PROVE InRow(i)'
        <5>1. /\ c = 0 => \A j \in 1..(n - 1) : InRow(j)
              /\ c # 0 => \A j \in 1..n : InRow(j)
          BY <2>4, <4>1, <4>8
        <5>2. CASE i # n
          <6>1. i \in 1..(n - 1) /\ i \in 1..MaxPlayers /\ InRow(i)
            BY <2>5, <2>6, <5>1, <5>2
          <6>2. rows'[i] = rows[i] /\ deckCount'[i] = deckCount[i] /\ listed'[i] = listed[i]
            BY <3>2, <3>4, <4>4, <4>8, <5>2, <6>1
          <6>3. QED
            BY <6>1, <6>2 DEF InRow
        <5>3. CASE i = n
          <6>1. n \in 1..MaxPlayers /\ c + 1 \in 1..(MaxDecks - 1)
            BY <2>1, <2>3, <2>5, <2>6, <2>7
          <6>2. \A k \in 1..(c + 1) : k \in 1..(MaxDecks - 1) /\ (k \in 1..c \/ k = c + 1)
            BY <2>3, <2>5, <6>1
          <6>3. \A k \in 1..c : rows[n][k] = listed[n].decks[k]
            <7>1. CASE c = 0
              BY <7>1
            <7>2. CASE c # 0
              BY <2>1, <2>3, <5>1, <7>2 DEF InRow
            <7>3. QED
              BY <7>1, <7>2
          <6>4. \A k \in 1..(c + 1) : rows'[n][k] = e.decks[k]
            BY <3>4, <4>3, <4>8, <6>1, <6>2, <6>3
          <6>5. deckCount'[n] = c + 1 /\ listed'[n] = e /\ c + 1 > 0
            BY <2>1, <2>3, <3>2, <4>4
          <6>6. QED
            BY <5>3, <6>4, <6>5 DEF InRow
        <5>4. QED
          BY <5>2, <5>3
      <4>9. QED
        BY <1>1, <1>4, <2>1, <4>1, <4>5, <4>7, <4>8 DEF AsListed
    <3>7. QED
      BY <3>5, <3>6
  <2>8. CASE ~(c < MaxDecks - 1 /\ IsHash(l))
    <3>1. UNCHANGED <<deckCount, rows>> /\ deckHashes' \in Nat
      BY <2>4, <2>8
    <3>2. BodyTypes'
      BY <1>1, <1>4, <3>1 DEF BodyTypes
    <3>3. ASSUME Followed'  PROVE AsListed'
      <4>1. IsHash(l) /\ c = MaxDecks - 1 /\ c # 0 /\ deckHashes' = deckHashes
        <5>1. IsHash(l)
          BY <1>1, <3>3 DEF Followed
        <5>2. c = MaxDecks - 1
          BY <2>3, <2>5, <2>8, <5>1
        <5>3. c # 0
          BY <2>5, <5>2
        <5>4. QED
          BY <2>2, <2>4, <5>1, <5>2, <5>3
      <4>2. AsListed /\ Len(listed) = n /\ Len(listed') = n /\ Kept(listed[n]) = c
        <5>1. AsListed /\ n \in 1..n
          BY <1>0, <2>1, <3>3
        <5>2. QED
          BY <1>4, <2>1, <2>3, <5>1 DEF AsListed
      <4>3. more /\ Last(listed) = listed[n]
        BY <2>1, <4>1, <4>2 DEF Last
      <4>4. listed[n].decks \in Seq(Said) /\ Len(listed[n].decks) \in Nat
        <5>1. listed[n] \in Entries
          BY <2>1, <4>2, ElementOfSeq DEF BodyTypes
        <5>2. listed[n].decks \in Seq(Said)
          BY <5>1 DEF Entries
        <5>3. QED
          BY <5>2, LenProperties
      <4>5. c <= Len(listed[n].decks)
        BY <2>3, <2>5, <4>2, <4>4 DEF Kept
      <4>6. /\ e.name = listed[n].name /\ Kept(e) = c
            /\ \A k \in 1..c : e.decks[k] = listed[n].decks[k]
        <5>1. Len(e.decks) = Len(listed[n].decks) + 1
          BY <1>3, <4>3
        <5>2. Kept(e) = MaxDecks - 1
          BY <2>5, <4>1, <4>4, <4>5, <5>1 DEF Kept
        <5>3. \A k \in 1..c : k \in 1..Len(listed[n].decks)
          BY <2>3, <4>4, <4>5
        <5>4. QED
          BY <1>3, <4>1, <4>3, <5>2, <5>3
      <4>7. \A i \in 1..n : listed'[i] = IF i = n THEN e ELSE listed[i]
        BY <1>4, <4>2, <4>3
      <4>8. \A i \in 1..n : listed'[i].name = names[i] /\ Kept(listed'[i]) = deckCount[i]
        BY <2>1, <2>3, <4>2, <4>6, <4>7 DEF AsListed
      <4>9. ASSUME NEW i \in 1..n, InRow(i)  PROVE InRow(i)'
        <5>1. CASE i = n
          BY <2>3, <3>1, <4>6, <4>7, <4>9, <5>1 DEF InRow
        <5>2. CASE i # n
          BY <3>1, <4>7, <4>9, <5>2 DEF InRow
        <5>3. QED
          BY <5>1, <5>2
      <4>10. UNCHANGED <<names, deckCount, deckHashes>> /\ deckCount[n] # 0
        BY <1>1, <2>3, <3>1, <4>1
      <4>11. QED
        BY <2>1, <4>2, <4>8, <4>9, <4>10 DEF AsListed
    <3>4. QED
      BY <3>2, <3>3
  <2>9. QED
    BY <2>7, <2>8
<1>7. QED
  BY <1>5, <1>6

\* Nothing was read yet.
LEMMA NothingListed ==
  /\ names = <<>> /\ deckCount = <<>> /\ deckHashes = 0 /\ rows = NoRows /\ listed = <<>>
       => BodyTypes /\ AsListed
  /\ names' = <<>> /\ deckCount' = <<>> /\ deckHashes' = 0 /\ rows' = NoRows /\ listed' = <<>>
       => BodyTypes' /\ AsListed'
<1>1. NoRows \in [1..MaxPlayers -> [1..(MaxDecks - 1) -> Said]]
  BY DEF NoRows, Said
<1>2. /\ <<>> \in Seq(Said) /\ <<>> \in Seq(0..(MaxDecks - 1)) /\ <<>> \in Seq(Entries)
      /\ Len(<<>>) = 0 /\ 0 <= MaxPlayers
  BY RequestAssumption
<1>3. \A n : n \in 1..0 => FALSE
  OBVIOUS
<1>4. ASSUME names = <<>>, deckCount = <<>>, deckHashes = 0, rows = NoRows, listed = <<>>
      PROVE  BodyTypes /\ AsListed
  <2>1. BodyTypes
    BY <1>1, <1>2, <1>4 DEF BodyTypes
  <2>2. Len(names) = 0 /\ Len(listed) = 0 /\ deckHashes # Len(names) - 1
    BY <1>2, <1>4
  <2>3. QED
    BY <1>3, <1>4, <2>1, <2>2 DEF AsListed
<1>5. ASSUME names' = <<>>, deckCount' = <<>>, deckHashes' = 0, rows' = NoRows, listed' = <<>>
      PROVE  BodyTypes' /\ AsListed'
  <2>1. BodyTypes'
    BY <1>1, <1>2, <1>5 DEF BodyTypes
  <2>2. Len(names') = 0 /\ Len(listed') = 0 /\ deckHashes' # Len(names') - 1
    BY <1>2, <1>5
  <2>3. QED
    BY <1>3, <1>5, <2>1, <2>2 DEF AsListed
<1>6. QED
  BY <1>4, <1>5

\* A step that does not read leaves what was read.
LEMMA BodyUnchanged ==
  ASSUME BodyTypes, Followed => AsListed, UNCHANGED <<body, said>>
  PROVE  BodyTypes' /\ (Followed' => AsListed')
<1>1. UNCHANGED <<names, deckCount, rows, deckHashes, listed, tidy>>
  BY DEF body, said
<1>2. QED
  BY <1>1, SameBody

\* A line that is neither a name nor a hash.
LEMMA OtherRead ==
  ASSUME BodyTypes, Followed => AsListed, NEW l, NEW b, b \notin {"playername", "deckhash"},
         ReadField(b, l), Say(b, l)
  PROVE  BodyTypes' /\ (Followed' => AsListed')
<1>1. UNCHANGED <<names, deckCount, rows, deckHashes, listed>> /\ (tidy' => tidy)
  BY DEF ReadField, Say
<1>2. QED
  BY <1>1, SameBody

\* A player with the hashes that are kept.
LEMMA FirstFacts ==
  ASSUME NEW p \in Entries, NEW c \in Nat, Kept(p) = c
  PROVE  /\ FirstDecks(p) \in Entries /\ FirstDecks(p).name = p.name
         /\ Len(FirstDecks(p).decks) = c
         /\ \A k \in 1..c : FirstDecks(p).decks[k] = p.decks[k]
<1>1. p = [name |-> p.name, decks |-> p.decks] /\ p.name \in Said /\ p.decks \in Seq(Said)
  BY DEF Entries
<1>2. PICK m \in Nat : m = Len(p.decks)
  BY <1>1, LenProperties
<1>3. PICK d \in Nat \ {0, 1} : d = MaxDecks
  BY RequestAssumption
<1>4. CASE m < d
  BY <1>1, <1>2, <1>3, <1>4 DEF FirstDecks, Kept
<1>5. CASE ~(m < d)
  <2> DEFINE t == SubSeq(p.decks, 1, d - 1)
  <2>1. c = d - 1
    BY <1>2, <1>3, <1>5 DEF Kept
  <2>2. \A k \in 1..c : k \in 1..m
    BY <1>3, <1>5, <2>1
  <2>3. \A k \in 1..c : p.decks[k] \in Said
    BY <1>1, <1>2, <2>2, ElementOfSeq
  <2>4. /\ SubSeq(p.decks, 1, c) \in Seq(Said)
        /\ Len(SubSeq(p.decks, 1, c)) = IF 1 <= c THEN c - 1 + 1 ELSE 0
        /\ \A k \in 1..(c - 1 + 1) : SubSeq(p.decks, 1, c)[k] = p.decks[1 + k - 1]
    BY <2>3, SubSeqProperties
  <2>5. t \in Seq(Said) /\ Len(t) = c /\ \A k \in 1..c : t[k] = p.decks[k]
    BY <2>1, <2>4
  <2>6. FirstDecks(p) = [p EXCEPT !.decks = t]
    BY <1>2, <1>3, <1>5 DEF FirstDecks
  <2> HIDE DEF t
  <2>7. FirstDecks(p) = [name |-> p.name, decks |-> t]
    BY <1>1, <2>6
  <2>8. QED
    BY <1>1, <2>5, <2>7 DEF Entries
<1>6. QED
  BY <1>4, <1>5

Sent == [i \in DOMAIN listed |-> FirstDecks(listed[i])]

\* With a row for each name the slots are the players that were listed, each with the
\* hashes that are kept.
LEMMA RowsListed ==
  ASSUME BodyTypes, AsListed, deckHashes = Len(names)
  PROVE  SlotsRead = Sent /\ Sent \in Seq(Entries) /\ Len(Sent) = Len(listed)
<1> DEFINE deck(i) == SubSeq(rows[i], 1, deckCount[i])
           slot(i) == [name |-> names[i], decks |-> deck(i)]
<1>1. PICK n \in Nat : n = Len(names) /\ n = Len(deckCount) /\ n = Len(listed) /\ n <= MaxPlayers
  BY LenProperties DEF BodyTypes, AsListed
<1>2. DOMAIN names = 1..n /\ DOMAIN listed = 1..n
  <2>1. names \in Seq(Said) /\ listed \in Seq(Entries)
    BY DEF BodyTypes
  <2>2. QED
    BY <1>1, <2>1, LenProperties
<1>3. ASSUME NEW i \in 1..n  PROVE slot(i) = FirstDecks(listed[i]) /\ slot(i) \in Entries
  <2>1. listed[i].name = names[i] /\ Kept(listed[i]) = deckCount[i] /\ InRow(i)
    BY <1>1 DEF AsListed
  <2>2. listed[i] \in Entries /\ deckCount[i] \in 0..(MaxDecks - 1) /\ i \in 1..MaxPlayers
    <3>1. i \in 1..Len(listed) /\ i \in 1..Len(deckCount) /\ i \in 1..MaxPlayers
      BY <1>1, RequestAssumption
    <3>2. QED
      BY <3>1, ElementOfSeq DEF BodyTypes
  <2>3. PICK c \in 0..(MaxDecks - 1) : c = deckCount[i]
    BY <2>2
  <2>4. c \in Nat /\ MaxDecks \in Nat
    BY RequestAssumption
  <2>5. \A k \in 1..c : rows[i][k] \in Said
    <3>1. rows[i] \in [1..(MaxDecks - 1) -> Said]
      BY <2>2 DEF BodyTypes
    <3>2. \A k \in 1..c : k \in 1..(MaxDecks - 1)
      BY <2>4
    <3>3. QED
      BY <3>1, <3>2
  <2>6. /\ SubSeq(rows[i], 1, c) \in Seq(Said)
        /\ Len(SubSeq(rows[i], 1, c)) = IF 1 <= c THEN c - 1 + 1 ELSE 0
        /\ \A k \in 1..(c - 1 + 1) : SubSeq(rows[i], 1, c)[k] = rows[i][1 + k - 1]
    BY <2>4, <2>5, SubSeqProperties
  <2> DEFINE s == SubSeq(rows[i], 1, c)
             f == FirstDecks(listed[i])
  <2>7. Len(s) = c /\ \A k \in 1..c : s[k] = rows[i][k]
    BY <2>4, <2>6
  <2>8. /\ f \in Entries /\ f.name = listed[i].name /\ Len(f.decks) = c
        /\ \A k \in 1..c : f.decks[k] = listed[i].decks[k]
    <3>1. Kept(listed[i]) = c
      BY <2>1, <2>3
    <3>2. QED
      BY <2>2, <2>4, <3>1, FirstFacts
  <2>9. s = f.decks
    <3>1. s \in Seq(Said)
      BY <2>6
    <3> HIDE DEF s, f
    <3>2. f.decks \in Seq(Said)
      BY <2>8 DEF Entries
    <3>3. \A k \in 1..Len(s) : s[k] = f.decks[k]
      BY <2>1, <2>3, <2>7, <2>8 DEF InRow
    <3>4. QED
      BY <2>7, <2>8, <3>1, <3>2, <3>3, SeqEqual
  <2>10. slot(i) = [name |-> f.name, decks |-> f.decks]
    BY <2>1, <2>3, <2>8, <2>9
  <2> HIDE DEF f
  <2>11. f = [name |-> f.name, decks |-> f.decks]
    BY <2>8 DEF Entries
  <2> HIDE DEF slot
  <2>12. slot(i) = f
    BY <2>10, <2>11
  <2>13. QED
    BY <2>8, <2>12 DEF f
<1>4. SlotsRead = [i \in 1..n |-> slot(i)]
  BY <1>2 DEF SlotsRead
<1> HIDE DEF slot
<1>5. Sent = [i \in 1..n |-> FirstDecks(listed[i])]
  BY <1>2 DEF Sent
<1>6. Sent = [i \in 1..n |-> slot(i)]
  BY <1>3, <1>5
<1>7. [i \in 1..n |-> slot(i)] \in Seq(Entries)
  BY <1>3, IsASeq
<1>8. Len([i \in 1..n |-> slot(i)]) = n
  BY <1>7, LenProperties
<1>9. QED
  BY <1>1, <1>4, <1>6, <1>7, <1>8

\* What comes after the players does not matter.
LEMMA ListedThenEmpty ==
  ASSUME NEW list \in Seq(Entries), NEW e \in EmptySlots
  PROVE  SubSeq(list \o e, 1, Len(list)) = list
<1> DEFINE AnyWord == Said \cup {"*", "garbage"}
           All == [name : AnyWord, decks : Seq(AnyWord)]
<1>1. list \in Seq(All)
  <2>1. Len(list) \in Nat /\ DOMAIN list = 1..Len(list)
    BY LenProperties
  <2>2. ASSUME NEW i \in 1..Len(list)  PROVE list[i] \in All
    <3>1. list[i] \in Entries
      BY ElementOfSeq
    <3>2. list[i].decks \in Seq(AnyWord)
      <4>1. list[i].decks \in Seq(Said)
        BY <3>1 DEF Entries
      <4>2. Said \subseteq AnyWord
        OBVIOUS
      <4> HIDE DEF AnyWord
      <4>3. QED
        BY <4>1, <4>2
    <3>3. list[i].name \in AnyWord
      BY <3>1 DEF Entries
    <3>4. list[i] = [name |-> list[i].name, decks |-> list[i].decks]
      BY <3>1 DEF Entries
    <3> HIDE DEF AnyWord
    <3>5. QED
      BY <3>2, <3>3, <3>4
  <2> HIDE DEF All
  <2>3. list = [i \in 1..Len(list) |-> list[i]]
    BY <2>1
  <2>4. QED
    BY <2>1, <2>2, <2>3, IsASeq
<1>2. e \in Seq(All)
  <2>1. \A d \in {"*", "garbage"} : [name |-> "*", decks |-> <<d>>] \in All
    OBVIOUS
  <2>2. CASE e = <<>>
    BY <2>2
  <2>3. CASE e # <<>>
    <3>1. PICK d \in {"*", "garbage"} : e = <<[name |-> "*", decks |-> <<d>>]>>
      BY <2>3 DEF EmptySlots
    <3>2. PICK x \in All : e = <<x>>
      BY <2>1, <3>1
    <3> HIDE DEF All
    <3>3. QED
      BY <3>2
  <2>4. QED
    BY <2>2, <2>3
<1>3. CASE Len(list) = 0
  <2>1. list = <<>>
    BY <1>3, EmptySeq
  <2>2. SubSeq(list \o e, 1, 0) = <<>>
    BY SubSeqEmpty
  <2>3. QED
    BY <1>3, <2>1, <2>2
<1>4. CASE Len(list) # 0
  <2>1. Len(list) \in Nat
    BY LenProperties
  <2>2. 1 \in 1..Len(list) /\ Len(list) \in 1..Len(list)
    BY <1>4, <2>1
  <2> HIDE DEF All
  <2>3. SubSeq(list \o e, 1, Len(list)) = SubSeq(list, 1, Len(list))
    BY <1>1, <1>2, <2>2, SubSeqOfConcat1
  <2>4. SubSeq(list, 1, Len(list)) = list
    BY <1>1, SubSeqFull
  <2>5. QED
    BY <2>3, <2>4
<1>5. QED
  BY <1>3, <1>4

\* A game is created: from a body in which every name has its row.
LEMMA CreatedAsListed ==
  ASSUME BodyTypes, Followed => AsListed, CreateValid, Create, UNCHANGED <<body, said>>
  PROVE  SlotsAsListed'
<1>1. SUFFICES ASSUME answer' = "creating", slots' # <<>>, tidy, Len(listed) <= MaxPlayers
               PROVE  SubSeq(slots', 1, Len(listed)) = Sent
  BY DEF SlotsAsListed, CreatedChecked, AsSent, Sent, said, FirstDecks
<1>2. CASE read["playerdeckverification"] = 0
  BY <1>1, <1>2 DEF Create
<1>3. CASE read["playerdeckverification"] # 0
  <2>1. SlotsRead = Sent /\ Sent \in Seq(Entries) /\ Len(Sent) = Len(listed)
    BY <1>1, <1>3, RowsListed DEF CreateValid, Followed
  <2>2. \/ slots' = Sent
        \/ \E e \in EmptySlots : slots' = Sent \o e
    BY <1>1, <1>3, <2>1 DEF Create, Answer
  <2>3. CASE slots' = Sent
    BY <2>1, <2>3, SubSeqFull
  <2>4. CASE \E e \in EmptySlots : slots' = Sent \o e
    BY <2>1, <2>4, ListedThenEmpty
  <2>5. QED
    BY <2>2, <2>3, <2>4
<1>4. QED
  BY <1>2, <1>3

ListedInv == BodyTypes /\ (Followed => AsListed) /\ SlotsAsListed

\* Every step of a request keeps its slots as they were listed.
LEMMA ListedKept ==
  ASSUME TokenInv, ListedInv, [RequestNext]_requestVars
  PROVE  ListedInv'
<1>0. BodyTypes /\ (Followed => AsListed) /\ SlotsAsListed
  BY DEF ListedInv
<1>1. ASSUME NEW p \in Paths, Serve(p)  PROVE ListedInv'
  <2>1. /\ names' = <<>> /\ deckCount' = <<>> /\ deckHashes' = 0 /\ rows' = NoRows
        /\ listed' = <<>> /\ answer' = NoAnswer
    BY <1>1 DEF Serve
  <2>2. QED
    BY <2>1, NothingListed DEF ListedInv, SlotsAsListed, CreatedChecked, NoAnswer
<1>2. CASE AnswerPage \/ RefuseLong
  <2>1. UNCHANGED <<body, said>> /\ answer' \in {"200", "413", "404", "valid=1", "valid=0"}
    BY <1>2 DEF AnswerPage, RefuseLong, Answer
  <2>2. QED
    BY <1>0, <2>1, BodyUnchanged DEF ListedInv, SlotsAsListed, CreatedChecked
<1>3. ASSUME NEW l \in Lines, ReadLine(l)  PROVE ListedInv'
  <2>1. PICK b : /\ Say(b, l)
                 /\ \/ b = "playername" /\ ReadName(l)
                    \/ b = "deckhash" /\ ReadHash(l)
                    \/ b \notin {"playername", "deckhash"} /\ ReadField(b, l)
                 /\ path \in Endpoints /\ UNCHANGED answer
    BY <1>3, ReadLineFacts
  <2>2. answer' = NoAnswer
    BY <2>1 DEF TokenInv, Endpoints
  <2>3. BodyTypes' /\ (Followed' => AsListed')
    BY <1>0, <2>1, NameRead, HashRead, OtherRead
  <2>4. QED
    BY <2>2, <2>3 DEF ListedInv, SlotsAsListed, CreatedChecked, NoAnswer
<1>4. CASE Finish
  <2>1. UNCHANGED <<body, said>>
    BY <1>4 DEF Finish
  <2>2. \/ overrun
        \/ answer' # "creating"
        \/ CreateValid /\ Create
    <3>1. \/ overrun
          \/ Valid /\ Obey
          \/ answer' \in {"401", "404"}
      BY <1>4 DEF Finish, Answer
    <3>2. ASSUME path # "creategame", Obey  PROVE answer' # "creating"
      <4>1. Kick => answer' \in {"success", "error not found"}
        BY DEF Kick, Answer
      <4>2. DisableVerification =>
              answer' \in {"success", "already disabled", "error game not found"}
        <5>1. ASSUME NEW game \in Games,
                     Answer(CASE game = "verified" -> "success"
                              [] game = "plain" -> "already disabled"
                              [] game = "none" -> "error game not found")
              PROVE  answer' \in {"success", "already disabled", "error game not found"}
          <6>1. game = "verified" \/ game = "plain" \/ game = "none"
            BY DEF Games
          <6>2. answer' = CASE game = "verified" -> "success"
                            [] game = "plain" -> "already disabled"
                            [] game = "none" -> "error game not found"
            BY <5>1 DEF Answer
          <6>3. QED
            BY <6>1, <6>2
        <5>2. QED
          BY <5>1 DEF DisableVerification
      <4>3. UpdatePlayerInfo => answer' # "creating"
        BY DEF UpdatePlayerInfo, Answer
      <4>4. EndGame => answer' # "creating"
        BY DEF EndGame, Answer
      <4>5. QED
        BY <3>2, <4>1, <4>2, <4>3, <4>4 DEF Obey
    <3>3. ASSUME path = "creategame", Valid, Obey  PROVE CreateValid /\ Create
      BY <3>3 DEF Obey, Valid
    <3>4. QED
      BY <3>1, <3>2, <3>3
  <2>3. SlotsAsListed'
    <3>1. CASE overrun \/ answer' # "creating"
      BY <2>1, <3>1 DEF SlotsAsListed, CreatedChecked, body
    <3>2. CASE CreateValid /\ Create
      BY <1>0, <2>1, <3>2, CreatedAsListed
    <3>3. QED
      BY <2>2, <3>1, <3>2
  <2>4. QED
    BY <1>0, <2>1, <2>3, BodyUnchanged DEF ListedInv
<1>5. CASE (\E l \in Lines : SkipLine(l)) \/ UNCHANGED requestVars
  <2>1. UNCHANGED <<body, said>> /\ UNCHANGED <<answer, slots>>
    BY <1>5 DEF SkipLine, requestVars
  <2>2. SlotsAsListed'
    BY <1>0, <2>1 DEF SlotsAsListed, CreatedChecked, AsSent, FirstDecks, body, said
  <2>3. QED
    BY <1>0, <2>1, <2>2, BodyUnchanged DEF ListedInv
<1>6. QED
  BY <1>1, <1>2, <1>3, <1>4, <1>5 DEF RequestNext

\* The invariant of the slots, with the types of what a body has been read into.
LEMMA ListedInvariant == RequestSpec => []ListedInv
<1>1. RequestInit => ListedInv
  BY NothingListed DEF RequestInit, ListedInv, SlotsAsListed, CreatedChecked, NoAnswer
<1>2. TokenInv /\ ListedInv /\ [RequestNext]_requestVars => ListedInv'
  BY ListedKept
<1>3. QED
  BY <1>1, <1>2, TokenInvariant, PTL DEF RequestSpec

\* A game that is created with its slots checked, of a body with no more names than there
\* is room for and hashes that all have 8 characters, has the players that were sent, in
\* that order, each with the first MAX_DECKS - 1 of the decks that came after them.
THEOREM SlotsAsListedHolds == RequestSpec => []SlotsAsListed
<1>1. ListedInv => SlotsAsListed
  BY DEF ListedInv
<1>2. QED
  BY <1>1, ListedInvariant, PTL
-----------------------------------------------------------------------------
\* The configuration file.

\* A rate limit of 0 is remembered.
ConfigInv ==
  /\ DOMAIN config = Strings /\ DOMAIN lastValue = Strings \cup {"ratelimit"}
  /\ zero \in BOOLEAN /\ (rate = 0 => zero)

\* One line more was read.
LEMMA PropertyKept ==
  ASSUME ConfigInv, LastLineUsed, NEW p, NEW v, ReadProperty(p, v)
  PROVE  ConfigInv' /\ LastLineUsed'
<1>1. /\ config' = IF p \in Strings THEN [config EXCEPT ![p] = NewValue(p, v)] ELSE config
      /\ rate' = IF p = "ratelimit" THEN NewRate(v) ELSE rate
      /\ lastValue' = IF p \in DOMAIN lastValue THEN [lastValue EXCEPT ![p] = v] ELSE lastValue
      /\ zero' = (zero \/ (p = "ratelimit" /\ Atoi[v] = 0))
  BY DEF ReadProperty
<1>2. "ratelimit" \notin Strings
  BY DEF Strings
<1>3. DOMAIN config' = Strings /\ DOMAIN lastValue' = Strings \cup {"ratelimit"}
  BY <1>1 DEF ConfigInv
<1>4. zero' \in BOOLEAN /\ (rate' = 0 => zero')
  BY <1>1 DEF ConfigInv, NewRate
<1>5. ASSUME NEW q \in Strings, lastValue'[q] # Unset
      PROVE  config'[q] = NewValue(q, lastValue'[q])
  <2>1. CASE q = p
    BY <1>1, <1>5, <2>1 DEF ConfigInv
  <2>2. CASE q # p
    <3>1. config'[q] = config[q] /\ lastValue'[q] = lastValue[q]
      BY <1>1, <2>2 DEF ConfigInv
    <3>2. QED
      BY <1>5, <3>1 DEF LastLineUsed, NewValue
  <2>3. QED
    BY <2>1, <2>2
<1>6. ASSUME lastValue'["ratelimit"] # Unset, ~zero'
      PROVE  rate' = Atoi[lastValue'["ratelimit"]]
  <2>1. CASE p = "ratelimit"
    BY <1>1, <1>6, <2>1 DEF ConfigInv, NewRate
  <2>2. CASE p # "ratelimit"
    <3>1. lastValue'["ratelimit"] = lastValue["ratelimit"] /\ rate' = rate /\ ~zero
      BY <1>1, <1>6, <2>2 DEF ConfigInv
    <3>2. QED
      BY <1>6, <3>1 DEF LastLineUsed
  <2>3. QED
    BY <2>1, <2>2
<1>7. QED
  BY <1>3, <1>4, <1>5, <1>6 DEF ConfigInv, LastLineUsed, NewValue

\* The last line of a property is the one that is used, in the file that the program
\* made and in any that the operator writes.
THEOREM LastLineUsedHolds == ConfigSpec => []LastLineUsed
<1>1. ConfigInit => ConfigInv /\ LastLineUsed
  <2> SUFFICES ASSUME ConfigInit  PROVE ConfigInv /\ LastLineUsed
    OBVIOUS
  <2>1. /\ DOMAIN config = Strings /\ DOMAIN lastValue = Strings \cup {"ratelimit"}
        /\ \A p \in Strings \cup {"ratelimit"} : lastValue[p] = Unset
        /\ rate # 0 /\ zero = FALSE
    BY DEF ConfigInit, EmptyConfig
  <2>2. QED
    BY <2>1 DEF ConfigInv, LastLineUsed
<1>2. ConfigInv /\ LastLineUsed /\ [ConfigNext]_configVars => (ConfigInv /\ LastLineUsed)'
  <2> SUFFICES ASSUME ConfigInv, LastLineUsed, [ConfigNext]_configVars
               PROVE  ConfigInv' /\ LastLineUsed'
    OBVIOUS
  <2>1. CASE Boot
    <3>1. /\ DOMAIN config' = Strings /\ DOMAIN lastValue' = Strings \cup {"ratelimit"}
          /\ \A p \in Strings \cup {"ratelimit"} : lastValue'[p] = Unset
          /\ rate' # 0 /\ zero' = FALSE
      BY <2>1 DEF Boot, EmptyConfig
    <3>2. QED
      BY <3>1 DEF ConfigInv, LastLineUsed
  <2>2. CASE ReadWritten \/ ReadMade
    <3>1. \E p, v : ReadProperty(p, v)
      BY <2>2 DEF ReadWritten, ReadMade
    <3>2. QED
      BY <3>1, PropertyKept
  <2>3. CASE EndOfFile \/ Check \/ Operator \/ UNCHANGED configVars
    <3>1. UNCHANGED <<config, rate, lastValue, zero>>
      BY <2>3 DEF EndOfFile, Check, Operator, configVars
    <3>2. QED
      BY <3>1 DEF ConfigInv, LastLineUsed
  <2>4. QED
    BY <2>1, <2>2, <2>3 DEF ConfigNext
<1>3. QED
  BY <1>1, <1>2, PTL DEF ConfigSpec

-----------------------------------------------------------------------------
\* Replays: each is asked for or being saved once.

ReplayCommand == [replay : Replays, pending : BOOLEAN]
Saver == [at : {"check", "open", "write", "end"}, pos : 0..Blocks]

AskTypes ==
  /\ announced \subseteq Replays
  /\ asked \in Seq(ReplayCommand) /\ \A n \in Asks : asked[n].replay \in announced
  /\ savers \in Seq(Saver) /\ Len(savers) = Len(asked)

Busy(n) == Pending(n) \/ At(n) # "end"
Done(r) == r \in forgotten \/ FileOf[r] \in Existing

\* A replay is asked for or being saved by one command, which is not both; a replay that
\* is neither is done with; a thread that writes has made its file.
AskInv ==
  /\ \A n \in Asks : ~(Pending(n) /\ At(n) # "end")
  /\ \A m, n \in Asks : asked[m].replay = asked[n].replay /\ Busy(m) /\ Busy(n) => m = n
  /\ \A r \in announced : Done(r) \/ \E n \in Asks : asked[n].replay = r /\ Busy(n)
  /\ \A n \in Asks : At(n) = "write" => File(n) \in Existing

\* The commands as functions.
LEMMA AskFacts ==
  ASSUME AskTypes
  PROVE  /\ Len(asked) \in Nat /\ Asks = 1..Len(asked) /\ DOMAIN savers = Asks
         /\ \A n \in Asks : /\ asked[n] \in ReplayCommand /\ savers[n] \in Saver
                            /\ asked[n].replay \in announced /\ Pending(n) \in BOOLEAN
<1>1. /\ asked \in Seq(ReplayCommand) /\ savers \in Seq(Saver)
      /\ Len(savers) = Len(asked)
  BY DEF AskTypes
<1>2. Len(asked) \in Nat /\ Asks = 1..Len(asked) /\ DOMAIN savers = Asks
  BY <1>1, LenProperties DEF Asks
<1>3. ASSUME NEW n \in Asks  PROVE asked[n] \in ReplayCommand /\ savers[n] \in Saver
  BY <1>1, <1>2, ElementOfSeq
<1>4. QED
  BY <1>2, <1>3 DEF AskTypes, ReplayCommand, Pending

\* The command is taken from the queue.
LEMMA TakenFacts ==
  ASSUME AskTypes, NEW n \in Asks
  PROVE  /\ Taken(n) \in Seq(ReplayCommand) /\ Len(Taken(n)) = Len(asked)
         /\ \A m \in Asks : /\ Taken(n)[m].replay = asked[m].replay
                            /\ Taken(n)[m].pending = IF m = n THEN FALSE ELSE asked[m].pending
<1> DEFINE c == [replay |-> asked[n].replay, pending |-> FALSE]
<1>1. asked \in Seq(ReplayCommand) /\ n \in 1..Len(asked) /\ Asks = 1..Len(asked)
  BY AskFacts DEF AskTypes
<1>2. asked[n] \in ReplayCommand
  BY AskFacts
<1>3. c \in ReplayCommand /\ c = [asked[n] EXCEPT !.pending = FALSE]
  <2>1. asked[n].replay \in Replays
    BY <1>2 DEF ReplayCommand
  <2>2. c \in ReplayCommand
    BY <2>1 DEF ReplayCommand
  <2>3. ASSUME NEW p
        PROVE  [asked[n] EXCEPT !.pending = p] = [replay |-> asked[n].replay, pending |-> p]
    BY <1>2 DEF ReplayCommand
  <2>4. c = [asked[n] EXCEPT !.pending = FALSE]
    BY <2>3
  <2>5. QED
    BY <2>2, <2>4
<1>4. Taken(n) = [asked EXCEPT ![n] = c]
  BY <1>3 DEF Taken
<1>5. c.replay = asked[n].replay /\ c.pending = FALSE
  OBVIOUS
<1> HIDE DEF c
<1>6. /\ Taken(n) \in Seq(ReplayCommand) /\ Len(Taken(n)) = Len(asked)
      /\ \A m \in 1..Len(asked) : Taken(n)[m] = IF m = n THEN c ELSE asked[m]
  BY <1>1, <1>3, <1>4, ExceptSeq
<1>7. QED
  BY <1>1, <1>5, <1>6

\* A thread goes on.
LEMMA SaverMoved ==
  ASSUME AskTypes, NEW n \in Asks, NEW s \in Saver, savers' = [savers EXCEPT ![n] = s]
  PROVE  /\ savers' \in Seq(Saver) /\ Len(savers') = Len(asked)
         /\ \A m \in Asks : savers'[m] = IF m = n THEN s ELSE savers[m]
<1>1. savers \in Seq(Saver) /\ n \in 1..Len(savers) /\ Asks = 1..Len(savers)
      /\ Len(savers) = Len(asked)
  BY AskFacts DEF AskTypes
<1>2. QED
  BY <1>1, ExceptSeq

\* A thread goes on from where it has written to.
LEMMA SaverAt ==
  ASSUME AskTypes, NEW n \in Asks, NEW a \in {"check", "open", "write", "end"},
         savers' = [savers EXCEPT ![n].at = a]
  PROVE  /\ savers' \in Seq(Saver) /\ Len(savers') = Len(asked)
         /\ \A m \in Asks : savers'[m].at = (IF m = n THEN a ELSE savers[m].at)
                            /\ savers'[m].pos = savers[m].pos
<1> DEFINE s == [at |-> a, pos |-> savers[n].pos]
<1>1. savers[n] \in Saver
  BY AskFacts
<1>2. s \in Saver /\ s = [savers[n] EXCEPT !.at = a] /\ s.at = a /\ s.pos = savers[n].pos
  BY <1>1 DEF Saver
<1>3. savers' = [savers EXCEPT ![n] = s]
  BY <1>2
<1>4. s \in Saver
  BY <1>2
<1> HIDE DEF s
<1>5. /\ savers' \in Seq(Saver) /\ Len(savers') = Len(asked)
      /\ \A m \in Asks : savers'[m] = IF m = n THEN s ELSE savers[m]
  BY <1>3, <1>4, SaverMoved
<1>6. QED
  BY <1>2, <1>5

Asking(list) == [i \in DOMAIN list |-> [replay |-> list[i], pending |-> TRUE]]
Idle(list) == [i \in DOMAIN list |-> Ended]

\* A list of replays is asked for: the new commands are pending.
LEMMA AskedMore ==
  ASSUME AskTypes, NEW c \in Seq(ReplayCommand), Len(c) = Len(asked), NEW list \in Seq(Replays),
         asked' = c \o Asking(list), savers' = savers \o Idle(list), NEW N, N = Len(asked)
  PROVE  /\ asked' \in Seq(ReplayCommand) /\ Len(asked') = N + Len(list) /\ Len(list) \in Nat
         /\ \A n \in 1..N : asked'[n] = c[n]
         /\ \A i \in 1..Len(list) : asked'[N + i].replay = list[i] /\ asked'[N + i].pending
         /\ savers' \in Seq(Saver) /\ Len(savers') = N + Len(list)
         /\ \A n \in 1..N : savers'[n] = savers[n]
         /\ \A i \in 1..Len(list) : savers'[N + i] = Ended
<1> DEFINE K == Len(list)
           new == Asking(list)
           idle == Idle(list)
<1>1. K \in Nat /\ DOMAIN list = 1..K /\ N \in Nat /\ \A i \in 1..K : list[i] \in Replays
  BY LenProperties, ElementOfSeq, AskFacts
<1>2. asked' = c \o new /\ savers' = savers \o idle
  OBVIOUS
<1>3. /\ new \in Seq(ReplayCommand) /\ Len(new) = K
      /\ \A i \in 1..K : new[i].replay = list[i] /\ new[i].pending
  <2>1. \A i \in 1..K : [replay |-> list[i], pending |-> TRUE] \in ReplayCommand
    BY <1>1 DEF ReplayCommand
  <2>2. new = [i \in 1..K |-> [replay |-> list[i], pending |-> TRUE]]
    BY <1>1 DEF Asking
  <2> HIDE DEF K
  <2>3. new \in Seq(ReplayCommand) /\ Len(new) = K
    BY <1>1, <2>1, <2>2
  <2>4. ASSUME NEW i \in 1..K  PROVE new[i].replay = list[i] /\ new[i].pending
    <3>1. new[i] = [replay |-> list[i], pending |-> TRUE]
      BY <2>2
    <3>2. QED
      BY <3>1
  <2>5. QED
    BY <2>3, <2>4
<1>4. /\ idle \in Seq(Saver) /\ Len(idle) = K /\ \A i \in 1..K : idle[i] = Ended
  <2>1. Ended \in Saver
    BY ReplaysAssumption DEF Ended, Saver
  <2>2. idle = [i \in 1..K |-> Ended]
    BY <1>1 DEF Idle
  <2> HIDE DEF K
  <2>3. QED
    BY <1>1, <2>1, <2>2
<1>5. savers \in Seq(Saver) /\ Len(savers) = N
  BY DEF AskTypes
<1> HIDE DEF new, idle, K
<1>6. /\ c \o new \in Seq(ReplayCommand) /\ Len(c \o new) = N + K
      /\ \A i \in 1..(N + K) : (c \o new)[i] = IF i <= N THEN c[i] ELSE new[i - N]
  <2>1. Len(c) = N /\ Len(new) = K
    BY <1>3
  <2>2. c \in Seq(ReplayCommand) /\ new \in Seq(ReplayCommand)
    BY <1>3
  <2>3. /\ c \o new \in Seq(ReplayCommand) /\ Len(c \o new) = Len(c) + Len(new)
        /\ \A i \in 1..(Len(c) + Len(new)) :
             (c \o new)[i] = IF i <= Len(c) THEN c[i] ELSE new[i - Len(c)]
    BY <2>2, ConcatProperties
  <2>4. QED
    BY <2>1, <2>3
<1>7. /\ savers \o idle \in Seq(Saver) /\ Len(savers \o idle) = N + K
      /\ \A i \in 1..(N + K) : (savers \o idle)[i] = IF i <= N THEN savers[i] ELSE idle[i - N]
  <2>1. /\ savers \o idle \in Seq(Saver) /\ Len(savers \o idle) = Len(savers) + Len(idle)
        /\ \A i \in 1..(Len(savers) + Len(idle)) :
             (savers \o idle)[i] = IF i <= Len(savers) THEN savers[i] ELSE idle[i - Len(savers)]
    BY <1>4, <1>5, ConcatProperties
  <2>2. QED
    BY <1>4, <1>5, <2>1
<1>8. /\ \A n \in 1..N : n \in 1..(N + K) /\ n <= N
      /\ \A i \in 1..K : N + i \in 1..(N + K) /\ ~(N + i <= N) /\ (N + i) - N = i
  BY <1>1
<1>9. /\ asked' \in Seq(ReplayCommand) /\ Len(asked') = N + K
      /\ \A n \in 1..N : asked'[n] = c[n]
      /\ \A i \in 1..K : asked'[N + i] = new[i]
  BY <1>2, <1>6, <1>8
<1>10. /\ savers' \in Seq(Saver) /\ Len(savers') = N + K
       /\ \A n \in 1..N : savers'[n] = savers[n]
       /\ \A i \in 1..K : savers'[N + i] = idle[i]
  BY <1>2, <1>7, <1>8
<1>11. \A i \in 1..K : asked'[N + i].replay = list[i] /\ asked'[N + i].pending
  BY <1>3, <1>9
<1>12. \A i \in 1..K : savers'[N + i] = Ended
  BY <1>4, <1>10
<1>13. QED
  BY <1>1, <1>9, <1>10, <1>11, <1>12 DEF K

\* The sequence made of a finite set has each of its members once.
LEMMA SetToSeqFacts ==
  ASSUME NEW S, IsFiniteSet(S)
  PROVE  /\ SetToSeq(S) \in Seq(S)
         /\ \A i, j \in 1..Len(SetToSeq(S)) : SetToSeq(S)[i] = SetToSeq(S)[j] => i = j
         /\ \A x \in S : \E i \in 1..Len(SetToSeq(S)) : SetToSeq(S)[i] = x
<1> DEFINE s == SetToSeq(S)
           I == 1..Cardinality(S)
<1>1. Cardinality(S) \in Nat /\ ExistsBijection(I, S)
  BY FS_CardinalityType
<1>2. \E f \in [I -> S] : IsInjective(f)
  BY <1>1 DEF ExistsBijection, Bijection, Injection
<1>3. s \in [I -> S] /\ IsInjective(s)
  BY <1>2 DEF SetToSeq
<1> HIDE DEF s
<1>4. s \in Injection(I, S)
  BY <1>3 DEF Injection
<1>5. Cardinality(I) = Cardinality(S)
  BY <1>1, FS_Interval
<1>6. s \in Surjection(I, S)
  BY <1>4, <1>5, FS_Injection
<1>7. s \in Seq(S) /\ Len(s) = Cardinality(S)
  BY <1>1, <1>3
<1>8. \A i, j \in I : s[i] = s[j] => i = j
  BY <1>3 DEF IsInjective
<1>9. \A x \in S : \E i \in I : s[i] = x
  BY <1>6 DEF Surjection
<1>10. QED
  BY <1>7, <1>8, <1>9 DEF s

\* A step that asks for nothing: a command that is no longer busy has settled its replay.
LEMMA Settled ==
  ASSUME AskTypes, AskInv, AskTypes', announced' = announced, Len(asked') = Len(asked),
         \A n \in Asks : asked'[n].replay = asked[n].replay,
         \A n \in Asks : Busy(n)' => Busy(n),
         \A n \in Asks : ~(Pending(n) /\ At(n) # "end")',
         \A n \in Asks : At(n)' = "write" => At(n) = "write" \/ (File(n) \in Existing)',
         \A r \in announced : Done(r) => Done(r)',
         Existing \subseteq Existing',
         \A n \in Asks : Busy(n) => Busy(n)' \/ (Done(asked[n].replay))'
  PROVE  AskInv'
<1>1. Asks' = Asks
  <2>1. asked \in Seq(ReplayCommand) /\ asked' \in Seq(ReplayCommand)
    BY DEF AskTypes
  <2>2. QED
    BY <2>1, LenProperties DEF Asks
<1>2. \A m, n \in Asks : asked'[m].replay = asked'[n].replay /\ Busy(m)' /\ Busy(n)' => m = n
  BY DEF AskInv
<1>3. ASSUME NEW r \in announced, ~Done(r)'
      PROVE  \E n \in Asks : asked'[n].replay = r /\ Busy(n)'
  <2>1. PICK n \in Asks : asked[n].replay = r /\ Busy(n)
    BY <1>3 DEF AskInv
  <2>2. asked'[n].replay = r
    BY <2>1
  <2>3. QED
    BY <1>3, <2>1, <2>2 DEF Done
<1>4. ASSUME NEW n \in Asks, At(n)' = "write"  PROVE (File(n) \in Existing)'
  <2>1. FileOf[asked'[n].replay] = FileOf[asked[n].replay]
    OBVIOUS
  <2>2. QED
    BY <1>4, <2>1 DEF AskInv, File
<1>5. QED
  BY <1>1, <1>2, <1>3, <1>4 DEF AskInv

\* A step that changes no command, thread or file.
LEMMA AskUnchanged ==
  ASSUME AskTypes, AskInv, UNCHANGED <<announced, asked, savers, forgotten>>, Existing' = Existing
  PROVE  AskTypes' /\ AskInv'
<1>1. AskTypes'
  BY DEF AskTypes, Asks
<1>2. Asks' = Asks /\ \A n \in Asks : /\ Pending(n)' = Pending(n) /\ At(n)' = At(n)
                                      /\ File(n)' = File(n) /\ (Busy(n)' <=> Busy(n))
  BY DEF Asks, Pending, At, File, Busy
<1>3. \A r : Done(r)' <=> Done(r)
  BY DEF Done
<1>4. QED
  BY <1>1, <1>2, <1>3 DEF AskInv

\* The replays of a match are asked for.
LEMMA ReplayReadyKept ==
  ASSUME AskTypes, AskInv, NEW f, ReplayReady(f)
  PROVE  AskTypes' /\ AskInv'
<1> DEFINE new == {r \in Replays \ announced : FileOf[r] = f}
           list == SetToSeq(new)
           K == Len(list)
<1>1. PICK N \in Nat : N = Len(asked) /\ Asks = 1..N
  BY AskFacts
<1>2. /\ announced' = announced \cup new /\ Ask(asked, list)
      /\ UNCHANGED <<files, forgotten>>
  BY DEF ReplayReady, histories
<1>3. IsFiniteSet(new)
  BY ReplaysAssumption, FS_Subset
<1>4. /\ list \in Seq(new)
      /\ \A i, j \in 1..K : list[i] = list[j] => i = j
      /\ \A x \in new : \E i \in 1..K : list[i] = x
  <2> HIDE DEF new
  <2>1. QED
    BY <1>3, SetToSeqFacts
<1>5. new \cap announced = {} /\ new \subseteq Replays
  OBVIOUS
<1> HIDE DEF new, list
<1>6. \A i \in 1..K : list[i] \in new
  BY <1>4, ElementOfSeq
<1>7. list \in Seq(Replays) /\ asked \in Seq(ReplayCommand)
  BY <1>4, <1>5 DEF AskTypes
<1>8. /\ asked' \in Seq(ReplayCommand) /\ Len(asked') = N + K /\ K \in Nat
      /\ \A n \in 1..N : asked'[n] = asked[n]
      /\ \A i \in 1..K : asked'[N + i].replay = list[i] /\ asked'[N + i].pending
      /\ savers' \in Seq(Saver) /\ Len(savers') = N + K
      /\ \A n \in 1..N : savers'[n] = savers[n]
      /\ \A i \in 1..K : savers'[N + i] = Ended
  <2>1. asked' = asked \o Asking(list) /\ savers' = savers \o Idle(list)
    BY <1>2 DEF Ask, Asking, Idle
  <2>2. QED
    BY <1>1, <1>7, <2>1, AskedMore, ZenonT(90)
<1>9. Asks' = 1..(N + K)
  BY <1>8, LenProperties DEF Asks
<1>10. \A n \in 1..(N + K) : n \in 1..N \/ \E i \in 1..K : n = N + i
  <2>1. ASSUME NEW n \in 1..(N + K), n \notin 1..N  PROVE n - N \in 1..K /\ n = N + (n - N)
    BY <1>8, <2>1
  <2>2. QED
    BY <2>1
<1>11. \A n \in 1..N : /\ Pending(n)' = Pending(n) /\ At(n)' = At(n) /\ File(n)' = File(n)
                       /\ (Busy(n)' <=> Busy(n)) /\ asked'[n].replay \in announced
  <2>1. ASSUME NEW n \in 1..N
        PROVE  Pending(n)' = Pending(n) /\ At(n)' = At(n) /\ File(n)' = File(n)
    BY <1>8 DEF Pending, At, File
  <2>2. ASSUME NEW n \in 1..N  PROVE asked'[n].replay \in announced
    BY <1>1, <1>8, AskFacts
  <2>3. QED
    BY <2>1, <2>2 DEF Busy
<1>12. \A i \in 1..K : /\ Pending(N + i)' /\ At(N + i)' = "end" /\ Busy(N + i)'
                       /\ asked'[N + i].replay \in new
  <2>1. ASSUME NEW i \in 1..K
        PROVE  /\ Pending(N + i)' /\ At(N + i)' = "end" /\ asked'[N + i].replay \in new
    BY <1>6, <1>8 DEF Pending, At, Ended
  <2>2. QED
    BY <2>1 DEF Busy
<1>13. AskTypes'
  <2>1. asked' \in Seq(ReplayCommand) /\ savers' \in Seq(Saver) /\ Len(savers') = Len(asked')
        /\ announced' \subseteq Replays
    BY <1>2, <1>5, <1>8 DEF AskTypes
  <2>2. \A n \in 1..(N + K) : asked'[n].replay \in announced'
    BY <1>2, <1>10, <1>11, <1>12
  <2>3. QED
    BY <1>9, <2>1, <2>2 DEF AskTypes
<1>14. ASSUME NEW n \in 1..(N + K)
       PROVE  /\ ~(Pending(n) /\ At(n) # "end")'
              /\ At(n)' = "write" => (File(n) \in Existing)'
  <2>1. CASE n \in 1..N
    <3>1. Existing' = Existing
      BY <1>2 DEF Existing
    <3>2. QED
      BY <1>1, <1>11, <2>1, <3>1 DEF AskInv
  <2>2. CASE \E i \in 1..K : n = N + i
    BY <1>12, <2>2
  <2>3. QED
    BY <1>10, <2>1, <2>2
<1>15. ASSUME NEW m \in 1..(N + K), NEW n \in 1..(N + K),
              asked'[m].replay = asked'[n].replay, Busy(m)', Busy(n)'
       PROVE  m = n
  <2>1. CASE m \in 1..N /\ n \in 1..N
    <3>1. asked'[m].replay = asked[m].replay /\ asked'[n].replay = asked[n].replay
      BY <1>8, <2>1
    <3>2. asked[m].replay = asked[n].replay /\ Busy(m) /\ Busy(n)
      BY <1>11, <1>15, <2>1, <3>1
    <3>3. m \in Asks /\ n \in Asks
      BY <1>1, <2>1
    <3>4. QED
      BY <3>2, <3>3 DEF AskInv
  <2>2. CASE m \notin 1..N /\ n \notin 1..N
    <3>1. PICK i \in 1..K, j \in 1..K : m = N + i /\ n = N + j
      BY <1>10, <2>2
    <3>2. list[i] = list[j]
      BY <1>8, <1>15, <3>1
    <3>3. QED
      BY <1>4, <3>1, <3>2
  <2>3. ASSUME NEW x \in 1..N, NEW y \in 1..(N + K), y \notin 1..N
        PROVE  asked'[x].replay # asked'[y].replay
    <3>1. PICK i \in 1..K : y = N + i
      BY <1>10, <2>3
    <3>2. QED
      BY <1>5, <1>11, <1>12, <3>1
  <2>4. QED
    BY <1>15, <2>1, <2>2, <2>3
<1>16. ASSUME NEW r \in announced', ~Done(r)'
       PROVE  \E n \in 1..(N + K) : asked'[n].replay = r /\ Busy(n)'
  <2>1. CASE r \in announced
    <3>1. ~Done(r)
      BY <1>2, <1>16 DEF Done, Existing
    <3>2. PICK n \in 1..N : asked[n].replay = r /\ Busy(n)
      BY <1>1, <2>1, <3>1 DEF AskInv
    <3>3. n \in 1..(N + K) /\ asked'[n].replay = r /\ Busy(n)'
      BY <1>8, <1>11, <3>2
    <3>4. QED
      BY <3>3
  <2>2. CASE r \in new
    <3>1. PICK i \in 1..K : list[i] = r
      BY <1>4, <2>2
    <3>2. N + i \in 1..(N + K) /\ asked'[N + i].replay = r /\ Busy(N + i)'
      BY <1>8, <1>12, <3>1
    <3>3. QED
      BY <3>2
  <2>3. QED
    BY <1>2, <1>16, <2>1, <2>2
<1>17. QED
  BY <1>9, <1>13, <1>14, <1>15, <1>16 DEF AskInv

\* A command is taken from the queue and its replay is asked for again.
LEMMA RetryKept ==
  ASSUME AskTypes, AskInv, NEW k \in Asks, Pending(k), Ask(Taken(k), AskedAgain(k)),
         UNCHANGED <<announced, files, forgotten>>
  PROVE  AskTypes' /\ AskInv'
<1> DEFINE list == <<asked[k].replay>>
           r == asked[k].replay
<1>1. PICK N \in Nat : N = Len(asked) /\ Asks = 1..N
  BY AskFacts
<1>2. /\ r \in announced /\ AskedAgain(k) = list
      /\ Len(list) = 1 /\ list[1] = r /\ list \in Seq(Replays)
  <2>1. r \in announced /\ r \in Replays
    BY AskFacts DEF AskTypes
  <2>2. QED
    BY <2>1 DEF AskedAgain
<1>3. /\ asked' \in Seq(ReplayCommand) /\ Len(asked') = N + 1
      /\ \A n \in 1..N : asked'[n] = Taken(k)[n]
      /\ asked'[N + 1].replay = r /\ asked'[N + 1].pending
      /\ savers' \in Seq(Saver) /\ Len(savers') = N + 1
      /\ \A n \in 1..N : savers'[n] = savers[n]
      /\ savers'[N + 1] = Ended
  <2>1. /\ Taken(k) \in Seq(ReplayCommand) /\ list \in Seq(Replays)
        /\ Len(Taken(k)) = Len(asked)
        /\ asked' = Taken(k) \o Asking(list) /\ savers' = savers \o Idle(list)
    BY <1>2, TakenFacts DEF Ask, Asking, Idle
  <2>2. 1 \in 1..1
    OBVIOUS
  <2>3. Len(list) = 1 /\ list[1] = r
    BY <1>2
  <2> HIDE DEF list
  <2>4. /\ asked' \in Seq(ReplayCommand) /\ Len(asked') = N + Len(list)
        /\ \A n \in 1..N : asked'[n] = Taken(k)[n]
        /\ \A i \in 1..Len(list) : asked'[N + i].replay = list[i] /\ asked'[N + i].pending
        /\ savers' \in Seq(Saver) /\ Len(savers') = N + Len(list)
        /\ \A n \in 1..N : savers'[n] = savers[n]
        /\ \A i \in 1..Len(list) : savers'[N + i] = Ended
    BY <1>1, <2>1, AskedMore, ZenonT(90)
  <2>5. QED
    BY <2>2, <2>3, <2>4
<1>4. Asks' = 1..(N + 1) /\ \A n \in 1..(N + 1) : n \in 1..N \/ n = N + 1
  BY <1>3, LenProperties DEF Asks
<1>5. Existing' = Existing /\ \A x : Done(x)' <=> Done(x)
  BY DEF Existing, Done
<1>6. \A n \in 1..N : /\ asked'[n].replay = asked[n].replay /\ At(n)' = At(n) /\ File(n)' = File(n)
                      /\ Pending(n)' <=> n # k /\ Pending(n)
                      /\ Busy(n)' => Busy(n) /\ n # k
                      /\ Busy(n) /\ n # k => Busy(n)'
  <2>1. ASSUME NEW n \in 1..N
        PROVE  /\ asked'[n].replay = asked[n].replay /\ At(n)' = At(n)
               /\ asked'[n].pending <=> n # k /\ asked[n].pending
    <3>1. n \in Asks /\ asked'[n] = Taken(k)[n] /\ savers'[n] = savers[n]
      BY <1>1, <1>3
    <3>2. /\ Taken(k)[n].replay = asked[n].replay
          /\ Taken(k)[n].pending = IF n = k THEN FALSE ELSE asked[n].pending
      BY <3>1, TakenFacts
    <3>3. QED
      BY <3>1, <3>2 DEF At
  <2>2. At(k) = "end"
    BY DEF AskInv
  <2>3. QED
    BY <1>1, <2>1, <2>2 DEF Pending, Busy, File
<1>7. Pending(N + 1)' /\ At(N + 1)' = "end" /\ Busy(N + 1)' /\ asked'[N + 1].replay = r
  BY <1>3 DEF Pending, At, Busy, Ended
<1>8. AskTypes'
  <2>1. \A n \in 1..(N + 1) : asked'[n].replay \in announced
    BY <1>1, <1>2, <1>4, <1>6, <1>7, AskFacts
  <2>2. QED
    BY <1>3, <1>4, <2>1 DEF AskTypes
<1>9. \A n \in 1..N : asked[n].replay = r /\ Busy(n) => n = k
  BY <1>1 DEF AskInv, Busy
<1>10. \A m, n \in 1..(N + 1) :
         asked'[m].replay = asked'[n].replay /\ Busy(m)' /\ Busy(n)' => m = n
  <2>1. \A m, n \in 1..N : asked'[m].replay = asked'[n].replay /\ Busy(m)' /\ Busy(n)' => m = n
    BY <1>1, <1>6 DEF AskInv
  <2>2. \A n \in 1..N : ~(asked'[n].replay = r /\ Busy(n)')
    BY <1>6, <1>9
  <2>3. QED
    BY <1>4, <1>7, <2>1, <2>2
<1>11. ASSUME NEW x \in announced, ~Done(x)
       PROVE  \E n \in 1..(N + 1) : asked'[n].replay = x /\ Busy(n)'
  <2>1. PICK n \in 1..N : asked[n].replay = x /\ Busy(n)
    BY <1>1, <1>11 DEF AskInv
  <2>2. CASE n = k
    BY <1>7, <2>1, <2>2
  <2>3. CASE n # k
    <3>1. n \in 1..(N + 1) /\ asked'[n].replay = x /\ Busy(n)'
      BY <1>6, <2>1, <2>3
    <3>2. QED
      BY <3>1
  <2>4. QED
    BY <2>2, <2>3
<1>12. \A n \in 1..(N + 1) : /\ ~(Pending(n) /\ At(n) # "end")'
                             /\ At(n)' = "write" => (File(n) \in Existing)'
  <2>1. \A n \in 1..N : /\ ~(Pending(n) /\ At(n) # "end")'
                        /\ At(n)' = "write" => (File(n) \in Existing)'
    BY <1>1, <1>5, <1>6 DEF AskInv
  <2>2. QED
    BY <1>4, <1>7, <2>1
<1>13. QED
  BY <1>8, <1>4, <1>5, <1>10, <1>11, <1>12 DEF AskInv

\* A command is answered with the replay: a thread is started, or is not.
LEMMA AnsweredKept ==
  ASSUME AskTypes, AskInv, NEW k \in Asks, Pending(k), asked' = Taken(k),
         UNCHANGED <<announced, files>>,
         \/ savers' = [savers EXCEPT ![k].at = "check"] /\ UNCHANGED forgotten
         \/ UNCHANGED savers /\ forgotten' = forgotten \cup {asked[k].replay}
  PROVE  AskTypes' /\ AskInv'
<1>1. /\ asked' \in Seq(ReplayCommand) /\ Len(asked') = Len(asked)
      /\ \A m \in Asks : /\ asked'[m].replay = asked[m].replay
                         /\ asked'[m].pending = IF m = k THEN FALSE ELSE asked[m].pending
  BY TakenFacts
<1>2. /\ savers' \in Seq(Saver) /\ Len(savers') = Len(asked)
      /\ \A m \in Asks \ {k} : savers'[m].at = savers[m].at
      /\ \/ savers'[k].at = "check"
         \/ (savers'[k].at = savers[k].at /\ asked[k].replay \in forgotten')
  <2>1. CASE savers' = [savers EXCEPT ![k].at = "check"]
    <3>1. "check" \in {"check", "open", "write", "end"}
      OBVIOUS
    <3>2. /\ savers' \in Seq(Saver) /\ Len(savers') = Len(asked)
          /\ \A m \in Asks : savers'[m].at = (IF m = k THEN "check" ELSE savers[m].at)
                             /\ savers'[m].pos = savers[m].pos
      BY <2>1, <3>1, SaverAt
    <3>3. QED
      BY <3>2
  <2>2. CASE UNCHANGED savers /\ forgotten' = forgotten \cup {asked[k].replay}
    BY <2>2 DEF AskTypes
  <2>3. QED
    BY <2>1, <2>2
<1>3. Asks' = Asks
  BY <1>1, AskFacts, LenProperties DEF Asks
<1>4. AskTypes'
  BY <1>1, <1>2, <1>3 DEF AskTypes
<1>5. At(k) = "end" /\ Busy(k)
  BY DEF AskInv, Busy
<1>6. \A m \in Asks : /\ Pending(m)' <=> m # k /\ Pending(m)
                      /\ m # k => At(m)' = At(m)
  BY <1>1, <1>2 DEF Pending, At
<1>7. ~Pending(k)' /\ (At(k)' = "check" \/ (At(k)' = "end" /\ asked[k].replay \in forgotten'))
  BY <1>2, <1>5, <1>6 DEF At
<1>8. \A m \in Asks : /\ ~(Pending(m) /\ At(m) # "end")' /\ (Busy(m)' => Busy(m))
                      /\ At(m)' = "write" => At(m) = "write"
                      /\ Busy(m) => Busy(m)' \/ asked'[m].replay \in forgotten'
  <2>1. ASSUME NEW m \in Asks, m # k
        PROVE  /\ ~(Pending(m) /\ At(m) # "end")' /\ (Busy(m)' <=> Busy(m)) /\ At(m)' = At(m)
    BY <1>6, <2>1 DEF AskInv, Busy
  <2>2. Busy(k)' \/ asked'[k].replay \in forgotten'
    BY <1>1, <1>7 DEF Busy
  <2>3. QED
    BY <1>5, <1>7, <2>1, <2>2
<1>9. \A r : Done(r) => Done(r)'
  BY DEF Done, Existing
<1>10. \A m \in Asks : Busy(m) => Busy(m)' \/ Done(asked[m].replay)'
  BY <1>8 DEF Done
<1>11. Existing \subseteq Existing'
  BY DEF Existing
<1>12. QED
  BY <1>1, <1>4, <1>8, <1>9, <1>10, <1>11, Settled

\* A thread goes on, or ends: with its game's file there, or its replay forgotten.
LEMMA ThreadKept ==
  ASSUME AskTypes, AskInv, NEW k \in Asks, At(k) # "end", UNCHANGED <<announced, asked>>,
         savers' \in Seq(Saver), Len(savers') = Len(asked),
         \A m \in Asks \ {k} : savers'[m].at = savers[m].at,
         Existing \subseteq Existing', forgotten \subseteq forgotten',
         savers'[k].at = "end" => Done(asked[k].replay)',
         savers'[k].at = "write" => File(k) \in Existing'
  PROVE  AskTypes' /\ AskInv'
<1>1. Asks' = Asks /\ AskTypes'
  BY DEF AskTypes, Asks
<1>2. Busy(k) /\ ~Pending(k)
  BY DEF AskInv, Busy
<1>3. \A m \in Asks : /\ Pending(m)' = Pending(m) /\ File(m)' = File(m)
                      /\ m # k => At(m)' = At(m)
  BY DEF Pending, At, File
<1>4. \A m \in Asks : m # k => (Busy(m)' <=> Busy(m)) /\ ~(Pending(m) /\ At(m) # "end")'
  BY <1>3 DEF AskInv, Busy
<1>5. ~Pending(k)' /\ (Busy(k)' \/ Done(asked[k].replay)')
  BY <1>2, <1>3 DEF Busy, At
<1>6. \A r : Done(r) => Done(r)'
  BY DEF Done
<1>7. \A m \in Asks : At(m)' = "write" => At(m) = "write" \/ (File(m) \in Existing)'
  BY <1>3 DEF At
<1>8. \A m \in Asks : /\ ~(Pending(m) /\ At(m) # "end")' /\ (Busy(m)' => Busy(m))
                      /\ Busy(m) => Busy(m)' \/ Done(asked[m].replay)'
  BY <1>2, <1>4, <1>5
<1>9. QED
  BY <1>1, <1>6, <1>7, <1>8, Settled

\* The commands and the threads are dropped together.
LEMMA DroppedFacts ==
  ASSUME AskTypes, asked' = [n \in Asks |-> [asked[n] EXCEPT !.pending = FALSE]]
  PROVE  /\ asked' \in Seq(ReplayCommand) /\ Len(asked') = Len(asked) /\ Asks' = Asks
         /\ \A n \in Asks : asked'[n].replay = asked[n].replay /\ asked'[n].pending = FALSE
<1>1. PICK N \in Nat : N = Len(asked) /\ Asks = 1..N
  BY AskFacts
<1> DEFINE c(n) == [replay |-> asked[n].replay, pending |-> FALSE]
<1>2. ASSUME NEW n \in Asks
      PROVE  /\ c(n) \in ReplayCommand /\ [asked[n] EXCEPT !.pending = FALSE] = c(n)
             /\ c(n).replay = asked[n].replay /\ c(n).pending = FALSE
  <2>1. asked[n] \in ReplayCommand
    BY AskFacts
  <2>2. ASSUME NEW p
        PROVE  [asked[n] EXCEPT !.pending = p] = [replay |-> asked[n].replay, pending |-> p]
    BY <2>1 DEF ReplayCommand
  <2>3. [asked[n] EXCEPT !.pending = FALSE] = c(n)
    BY <2>2
  <2>4. c(n) \in ReplayCommand
    BY <2>1 DEF ReplayCommand
  <2>5. QED
    BY <2>3, <2>4
<1> HIDE DEF c
<1>3. asked' = [n \in 1..N |-> c(n)]
  BY <1>1, <1>2
<1>4. asked' \in Seq(ReplayCommand) /\ Len(asked') = N
  <2>1. asked' \in [1..N -> ReplayCommand]
    BY <1>1, <1>2, <1>3
  <2>2. QED
    BY <2>1
<1>5. Asks' = Asks
  BY <1>1, <1>3 DEF Asks
<1>6. QED
  BY <1>1, <1>2, <1>3, <1>4, <1>5

\* The connection is lost: the commands are forgotten, the threads go on.
LEMMA DisconnectKept ==
  ASSUME AskTypes, AskInv, Disconnect
  PROVE  AskTypes' /\ AskInv'
<1>1. /\ asked' = [n \in Asks |-> [asked[n] EXCEPT !.pending = FALSE]]
      /\ UNCHANGED <<announced, savers, files>>
      /\ forgotten' = forgotten \cup {asked[n].replay : n \in {m \in Asks : Pending(m)}}
  BY DEF Disconnect
<1>2. /\ asked' \in Seq(ReplayCommand) /\ Len(asked') = Len(asked) /\ Asks' = Asks
      /\ \A n \in Asks : asked'[n].replay = asked[n].replay /\ asked'[n].pending = FALSE
  BY <1>1, DroppedFacts
<1>3. AskTypes'
  <2>1. announced' \subseteq Replays /\ savers' \in Seq(Saver) /\ Len(savers') = Len(asked')
    BY <1>1, <1>2 DEF AskTypes
  <2>2. \A n \in Asks' : asked'[n].replay \in announced'
    BY <1>1, <1>2, AskFacts
  <2>3. QED
    BY <1>2, <2>1, <2>2 DEF AskTypes
<1>4. \A n \in Asks : ~Pending(n)' /\ At(n)' = At(n)
  BY <1>1, <1>2 DEF Pending, At
<1>5. \A n \in Asks : Pending(n) => Done(asked[n].replay)'
  <2>1. \A n \in Asks : Pending(n) => asked[n].replay \in forgotten'
    BY <1>1
  <2>2. QED
    BY <1>2, <2>1 DEF Done
<1>6. Existing' = Existing /\ \A r : Done(r) => Done(r)'
  BY <1>1 DEF Existing, Done
<1>7. \A n \in Asks : (Busy(n)' => Busy(n)) /\ (Busy(n) => Busy(n)' \/ Done(asked[n].replay)')
  BY <1>4, <1>5 DEF Busy
<1>8. QED
  BY <1>1, <1>2, <1>3, <1>4, <1>6, <1>7, Settled

\* The process ends: the commands and the threads are forgotten.
LEMMA CrashKept ==
  ASSUME AskTypes, AskInv, Crash
  PROVE  AskTypes' /\ AskInv'
<1>1. /\ asked' = [n \in Asks |-> [asked[n] EXCEPT !.pending = FALSE]]
      /\ savers' = [n \in Asks |-> Ended] /\ UNCHANGED <<announced, files>>
      /\ forgotten' = forgotten \cup
           {asked[n].replay : n \in {m \in Asks : Pending(m) \/ At(m) # "end"}}
  BY DEF Crash
<1>2. /\ asked' \in Seq(ReplayCommand) /\ Len(asked') = Len(asked) /\ Asks' = Asks
      /\ \A n \in Asks : asked'[n].replay = asked[n].replay /\ asked'[n].pending = FALSE
  BY <1>1, DroppedFacts
<1>3. savers' \in Seq(Saver) /\ Len(savers') = Len(asked)
  <2>1. Ended \in Saver
    BY ReplaysAssumption DEF Ended, Saver
  <2>2. Len(asked) \in Nat /\ Asks = 1..Len(asked)
    BY AskFacts
  <2>3. QED
    BY <1>1, <2>1, <2>2
<1>4. AskTypes'
  <2>1. announced' \subseteq Replays /\ Len(savers') = Len(asked')
    BY <1>1, <1>2, <1>3 DEF AskTypes
  <2>2. \A n \in Asks' : asked'[n].replay \in announced'
    BY <1>1, <1>2, AskFacts
  <2>3. QED
    BY <1>2, <1>3, <2>1, <2>2 DEF AskTypes
<1>5. \A n \in Asks : ~Pending(n)' /\ At(n)' = "end"
  BY <1>1, <1>2 DEF Pending, At, Ended
<1>6. \A n \in Asks : Busy(n) => Done(asked[n].replay)'
  <2>1. \A n \in Asks : Busy(n) => asked[n].replay \in forgotten'
    BY <1>1 DEF Busy
  <2>2. QED
    BY <1>2, <2>1 DEF Done
<1>7. Existing' = Existing /\ \A r : Done(r) => Done(r)'
  BY <1>1 DEF Existing, Done
<1>8. QED
  BY <1>1, <1>2, <1>4, <1>5, <1>6, <1>7, Settled DEF Busy

\* Existing after fopen, and after a block is written.
LEMMA FilesAfter ==
  ASSUME NEW n \in Asks
  PROVE  /\ Open(n) => /\ Existing' = Existing \cup {File(n)}
                       /\ files'[File(n)] = <<>>
                       /\ \A f \in Existing \ {File(n)} : files'[f] = files[f]
         /\ Write(n) => Existing' = Existing
  BY DEF Open, Write, Existing

\* What the threads do keeps the account of the replays.
LEMMA SavingKept ==
  ASSUME AskTypes, AskInv, NEW n \in Asks,
         CheckFile(n) \/ Open(n) \/ Fail(n) \/ Write(n) \/ Close(n)
  PROVE  AskTypes' /\ AskInv'
<1>1. UNCHANGED <<announced, asked>> /\ At(n) # "end" /\ forgotten \subseteq forgotten'
  BY DEF CheckFile, Open, Fail, Write, Close, histories
<1>2. Existing \subseteq Existing'
  BY FilesAfter DEF CheckFile, Fail, Close, Existing
<1>3. File(n) = FileOf[asked[n].replay]
  BY DEF File
<1>4. CASE CheckFile(n)
  <2>1. PICK a \in {"end", "open"} : /\ savers' = [savers EXCEPT ![n].at = a]
                                     /\ a = "end" => File(n) \in Existing
    <3>1. CASE Exists(n)
      BY <1>4, <3>1 DEF CheckFile, Exists
    <3>2. CASE ~Exists(n)
      BY <1>4, <3>2 DEF CheckFile
    <3>3. QED
      BY <3>1, <3>2
  <2>2. /\ savers' \in Seq(Saver) /\ Len(savers') = Len(asked)
        /\ \A m \in Asks : savers'[m].at = (IF m = n THEN a ELSE savers[m].at)
                           /\ savers'[m].pos = savers[m].pos
    <3>1. a \in {"check", "open", "write", "end"}
      OBVIOUS
    <3>2. QED
      BY <2>1, <3>1, SaverAt
  <2>3. savers'[n].at = "end" => Done(asked[n].replay)'
    BY <1>1, <1>2, <1>3, <2>1, <2>2 DEF Done
  <2>4. QED
    BY <1>1, <1>2, <2>2, <2>3, ThreadKept
<1>5. CASE Open(n)
  <2>1. "write" \in {"check", "open", "write", "end"} /\ savers' = [savers EXCEPT ![n].at = "write"]
    BY <1>5 DEF Open
  <2>2. /\ savers' \in Seq(Saver) /\ Len(savers') = Len(asked)
        /\ \A m \in Asks : savers'[m].at = (IF m = n THEN "write" ELSE savers[m].at)
                           /\ savers'[m].pos = savers[m].pos
    BY <2>1, SaverAt
  <2>3. File(n) \in Existing'
    BY <1>5, FilesAfter
  <2>4. QED
    BY <1>1, <1>2, <2>2, <2>3, ThreadKept
<1>6. Ended \in Saver /\ Ended.at = "end"
  BY ReplaysAssumption DEF Ended, Saver
<1>7. CASE Fail(n) \/ Close(n)
  <2>1. savers' = [savers EXCEPT ![n] = Ended]
    BY <1>7 DEF Fail, Close
  <2>2. /\ savers' \in Seq(Saver) /\ Len(savers') = Len(asked)
        /\ \A m \in Asks : savers'[m] = IF m = n THEN Ended ELSE savers[m]
    BY <1>6, <2>1, SaverMoved
  <2>3. asked[n].replay \in forgotten' \/ File(n) \in Existing'
    BY <1>2, <1>7 DEF Fail, Close, AskInv
  <2>4. Done(asked[n].replay)'
    BY <1>1, <1>3, <2>3 DEF Done
  <2>5. QED
    BY <1>1, <1>2, <1>6, <2>2, <2>4, ThreadKept
<1>8. CASE Write(n)
  <2> DEFINE s == [at |-> savers[n].at, pos |-> savers[n].pos + 1]
  <2>1. savers[n] \in Saver /\ savers[n].at = "write" /\ savers[n].pos + 1 <= Blocks
    BY <1>8, AskFacts DEF Write, At
  <2>2. s \in Saver /\ s.at = "write"
    BY <2>1, ReplaysAssumption DEF Saver
  <2>3. savers' = [savers EXCEPT ![n] = s]
    <3>1. [savers[n] EXCEPT !.pos = savers[n].pos + 1] = s
      BY <2>1 DEF Saver
    <3>2. QED
      BY <1>8, <3>1 DEF Write
  <2> HIDE DEF s
  <2>4. /\ savers' \in Seq(Saver) /\ Len(savers') = Len(asked)
        /\ \A m \in Asks : savers'[m] = IF m = n THEN s ELSE savers[m]
    BY <2>2, <2>3, SaverMoved
  <2>5. File(n) \in Existing'
    BY <1>2, <1>8 DEF Write, AskInv
  <2>6. QED
    BY <1>1, <1>2, <2>2, <2>4, <2>5, ThreadKept
<1>9. QED
  BY <1>4, <1>5, <1>7, <1>8

\* Every step keeps the account of the replays.
LEMMA AskKept ==
  ASSUME AskTypes, AskInv, [FilesNext]_filesVars
  PROVE  AskTypes' /\ AskInv'
<1>1. CASE UNCHANGED filesVars
  BY <1>1, AskUnchanged DEF filesVars, histories, Existing
<1>2. ASSUME NEW f \in FileNames, ReplayReady(f)  PROVE AskTypes' /\ AskInv'
  BY <1>2, ReplayReadyKept
<1>3. ASSUME NEW n \in Asks, Send(n)  PROVE AskTypes' /\ AskInv'
  BY <1>3, AskUnchanged DEF Send, histories, Existing
<1>4. ASSUME NEW n \in Asks, Response(n)  PROVE AskTypes' /\ AskInv'
  <2>1. UNCHANGED <<announced, files>>
    BY <1>4 DEF Response
  <2>2. CASE ~Pending(n) /\ UNCHANGED <<asked, savers, forgotten>>
    BY <2>1, <2>2, AskUnchanged DEF Existing
  <2>3. CASE Pending(n) /\ Ask(Taken(n), AskedAgain(n)) /\ UNCHANGED forgotten
    BY <2>1, <2>3, RetryKept
  <2>4. ASSUME Pending(n), asked' = Taken(n),
               \/ savers' = [savers EXCEPT ![n].at = "check"] /\ UNCHANGED forgotten
               \/ UNCHANGED savers /\ forgotten' = forgotten \cup {asked[n].replay}
        PROVE  AskTypes' /\ AskInv'
    BY <2>1, <2>4, AnsweredKept
  <2>5. QED
    BY <1>4, <2>2, <2>3, <2>4 DEF Response
<1>5. ASSUME NEW n \in Asks, TimeOut(n)  PROVE AskTypes' /\ AskInv'
  BY <1>5, RetryKept DEF TimeOut, histories
<1>6. ASSUME NEW n \in Asks, CheckFile(n) \/ Open(n) \/ Fail(n) \/ Write(n) \/ Close(n)
      PROVE  AskTypes' /\ AskInv'
  BY <1>6, SavingKept
<1>7. CASE Disconnect
  BY <1>7, DisconnectKept
<1>8. CASE Crash
  BY <1>8, CrashKept
<1>9. QED
  BY <1>1, <1>2, <1>3, <1>4, <1>5, <1>6, <1>7, <1>8 DEF FilesNext

\* The account of the replays, in every behaviour.
LEMMA AskInvariant == FilesSpec => [](AskTypes /\ AskInv)
<1>1. FilesInit => AskTypes /\ AskInv
  <2>1. SUFFICES ASSUME FilesInit  PROVE AskTypes /\ AskInv
    OBVIOUS
  <2>2. announced = {} /\ asked = <<>> /\ savers = <<>> /\ Asks = {}
    <3>1. announced = {} /\ asked = <<>> /\ savers = <<>>
      BY <2>1 DEF FilesInit
    <3>2. DOMAIN <<>> = {}
      OBVIOUS
    <3>3. QED
      BY <3>1, <3>2 DEF Asks
  <2>3. <<>> \in Seq(ReplayCommand) /\ <<>> \in Seq(Saver)
    OBVIOUS
  <2>4. QED
    BY <2>2, <2>3 DEF AskTypes, AskInv
<1>2. AskTypes /\ AskInv /\ [FilesNext]_filesVars => (AskTypes /\ AskInv)'
  BY AskKept
<1>3. QED
  BY <1>1, <1>2, PTL DEF FilesSpec

\* Retries and late answers neither drop a replay nor save it twice: each that was announced
\* is asked for or being saved, once, until its game has a file, or it was dropped with the
\* connection, or its thread failed.
THEOREM ReplaysAccountedHolds == FilesSpec => []ReplaysAccounted
<1>1. ASSUME AskTypes, AskInv  PROVE ReplaysAccounted
  <2>1. SUFFICES ASSUME NEW r \in announced
                 PROVE  LET mine == {n \in Asks : asked[n].replay = r}
                            busy == Cardinality({n \in mine : Pending(n)})
                                      + Cardinality({n \in mine : At(n) # "end"})
                        IN busy <= 1 /\ (busy = 0 => r \in forgotten \/ FileOf[r] \in Existing)
    BY DEF ReplaysAccounted
  <2> DEFINE mine == {n \in Asks : asked[n].replay = r}
             P == {n \in mine : Pending(n)}
             Q == {n \in mine : At(n) # "end"}
  <2>2. \A m, n \in P \cup Q : m = n
    BY <1>1 DEF AskInv, Busy
  <2>3. P \cap Q = {}
    BY <1>1 DEF AskInv
  <2>4. P = {} /\ Q = {} => r \in forgotten \/ FileOf[r] \in Existing
    BY <1>1 DEF AskInv, Busy, Done
  <2>5. \/ P = {} /\ Q = {}
        \/ \E n : P = {n} /\ Q = {}
        \/ \E n : P = {} /\ Q = {n}
    <3> HIDE DEF P, Q
    <3>1. CASE P = {} /\ Q = {}
      BY <3>1
    <3>2. CASE P # {}
      <4>1. PICK n : n \in P
        BY <3>2
      <4>2. P = {n} /\ Q = {}
        BY <2>2, <2>3, <4>1
      <4>3. QED
        BY <4>2
    <3>3. CASE Q # {}
      <4>1. PICK n : n \in Q
        BY <3>3
      <4>2. P = {} /\ Q = {n}
        BY <2>2, <2>3, <4>1
      <4>3. QED
        BY <4>2
    <3>4. QED
      BY <3>1, <3>2, <3>3
  <2> HIDE DEF P, Q
  <2>6. Cardinality({}) = 0 /\ \A n : Cardinality({n}) = 1
    BY FS_EmptySet, FS_Singleton
  <2>7. /\ Cardinality(P) + Cardinality(Q) <= 1
        /\ Cardinality(P) + Cardinality(Q) = 0 => P = {} /\ Q = {}
    <3>1. CASE P = {} /\ Q = {}
      BY <2>6, <3>1
    <3>2. CASE \E n : P = {n} /\ Q = {}
      <4>1. Cardinality(P) = 1 /\ Cardinality(Q) = 0
        BY <2>6, <3>2
      <4>2. QED
        BY <4>1
    <3>3. CASE \E n : P = {} /\ Q = {n}
      <4>1. Cardinality(P) = 0 /\ Cardinality(Q) = 1
        BY <2>6, <3>3
      <4>2. QED
        BY <4>1
    <3>4. QED
      BY <2>5, <3>1, <3>2, <3>3
  <2>8. QED
    BY <2>4, <2>7 DEF P, Q
<1>2. QED
  BY <1>1, AskInvariant, PTL

-----------------------------------------------------------------------------
\* Replays: a file is its maker's.

Block == Replays \cup {"hole"}
Making(n, f) == At(n) \in {"open", "write"} /\ File(n) = f

FileTypes ==
  /\ Existing \subseteq FileNames /\ DOMAIN first = Existing
  /\ \A f \in Existing : files[f] \in Seq(Block)
  /\ \A n \in Asks : At(n) # "write" => savers[n].pos = 0

\* A file that no two threads were about to make has one maker at most, which has not found
\* it there; its blocks are those that the maker has written, all of them when nobody is
\* making it and no crash has cut it short.
OneMaker(f) ==
  /\ \A m, n \in Asks : Making(m, f) /\ Making(n, f) => m = n
  /\ \A n \in Asks : Making(n, f) /\ At(n) = "open" => f \notin Existing
  /\ \A n \in Asks : Making(n, f) /\ At(n) = "write" =>
       first[f] = asked[n].replay /\ Len(files[f]) = savers[n].pos
  /\ f \in Existing => \A k \in 1..Len(files[f]) : files[f][k] = first[f]
  /\ f \in Existing \ cut => Len(files[f]) = Blocks \/ \E n \in Asks : Making(n, f)

FileInv == FileTypes /\ \A f \in FileNames \ raced : OneMaker(f)

\* A step in which no thread starts to make a file, and one stops writing only if it has
\* written all or is cut short.
LEMMA QuietKept ==
  ASSUME FileInv, UNCHANGED <<files, first>>, raced \subseteq raced', cut \subseteq cut',
         \A n \in Asks' :
           \/ n \in Asks /\ savers'[n] = savers[n] /\ asked'[n].replay = asked[n].replay
           \/ savers'[n].at \in {"end", "check"} /\ savers'[n].pos = 0,
         \A n \in Asks : At(n) = "write" =>
           \/ n \in Asks' /\ savers'[n] = savers[n] /\ asked'[n].replay = asked[n].replay
           \/ File(n) \in cut' \/ savers[n].pos = Blocks
  PROVE  FileInv'
<1>1. Existing' = Existing /\ FileTypes
  BY DEF Existing, FileInv
<1>2. FileTypes'
  <2>1. \A n \in Asks' : At(n)' # "write" => savers'[n].pos = 0
    BY <1>1 DEF FileTypes, At
  <2>2. QED
    BY <1>1, <2>1 DEF FileTypes
<1>3. ASSUME NEW f \in FileNames, f \notin raced'  PROVE OneMaker(f)'
  <2>1. OneMaker(f)
    BY <1>3 DEF FileInv
  <2>2. ASSUME NEW n \in Asks', Making(n, f)'
        PROVE  /\ n \in Asks /\ Making(n, f) /\ savers'[n] = savers[n] /\ At(n)' = At(n)
               /\ asked'[n].replay = asked[n].replay
    <3>1. savers'[n].at \in {"open", "write"} /\ File(n)' = f
      BY <2>2 DEF Making, At
    <3>2. n \in Asks /\ savers'[n] = savers[n] /\ asked'[n].replay = asked[n].replay
      BY <3>1
    <3>3. QED
      BY <3>1, <3>2 DEF Making, At, File
  <2>3. ASSUME NEW n \in Asks, At(n) = "write", File(n) = f, f \notin cut', savers[n].pos # Blocks
        PROVE  n \in Asks' /\ Making(n, f)'
    <3>1. n \in Asks' /\ savers'[n] = savers[n] /\ asked'[n].replay = asked[n].replay
      BY <2>3
    <3>2. QED
      BY <2>3, <3>1 DEF Making, At, File
  <2>4. /\ \A m, n \in Asks' : Making(m, f)' /\ Making(n, f)' => m = n
        /\ \A n \in Asks' : Making(n, f)' /\ At(n)' = "open" => f \notin Existing'
    BY <1>1, <2>1, <2>2 DEF OneMaker
  <2>5. \A n \in Asks' : Making(n, f)' /\ At(n)' = "write" =>
          first'[f] = asked'[n].replay /\ Len(files'[f]) = savers'[n].pos
    <3>1. SUFFICES ASSUME NEW n \in Asks', Making(n, f)', At(n)' = "write"
                   PROVE  first'[f] = asked'[n].replay /\ Len(files'[f]) = savers'[n].pos
      OBVIOUS
    <3>2. n \in Asks /\ Making(n, f) /\ At(n) = "write"
      BY <2>2, <3>1
    <3>3. first[f] = asked[n].replay /\ Len(files[f]) = savers[n].pos
      BY <2>1, <3>2 DEF OneMaker
    <3>4. QED
      BY <2>2, <3>1, <3>3
  <2>6. f \in Existing' => \A k \in 1..Len(files'[f]) : files'[f][k] = first'[f]
    BY <1>1, <2>1 DEF OneMaker
  <2>7. ASSUME f \in Existing' \ cut', Len(files'[f]) # Blocks
        PROVE  \E n \in Asks' : Making(n, f)'
    <3>1. PICK n \in Asks : Making(n, f)
      BY <1>1, <2>1, <2>7 DEF OneMaker
    <3>2. At(n) = "write" /\ File(n) = f
      BY <1>1, <2>1, <2>7, <3>1 DEF OneMaker, Making
    <3>3. savers[n].pos # Blocks
      BY <2>1, <2>7, <3>1, <3>2 DEF OneMaker
    <3>4. QED
      BY <2>3, <2>7, <3>2, <3>3
  <2>8. QED
    BY <2>4, <2>5, <2>6, <2>7 DEF OneMaker
<1>4. QED
  BY <1>2, <1>3 DEF FileInv

\* Commands that are added start no thread.
LEMMA AddedQuiet ==
  ASSUME AskTypes, FileInv, NEW c \in Seq(ReplayCommand), Len(c) = Len(asked),
         \A n \in Asks : c[n].replay = asked[n].replay, NEW list \in Seq(Replays),
         asked' = c \o Asking(list), savers' = savers \o Idle(list),
         UNCHANGED <<files, first, raced, cut>>
  PROVE  FileInv'
<1> DEFINE K == Len(list)
<1>1. PICK N \in Nat : N = Len(asked) /\ Asks = 1..N
  BY AskFacts
<1>2. /\ asked' \in Seq(ReplayCommand) /\ Len(asked') = N + K /\ K \in Nat
      /\ \A n \in 1..N : asked'[n] = c[n]
      /\ \A n \in 1..N : savers'[n] = savers[n]
      /\ \A i \in 1..K : savers'[N + i] = Ended
  BY <1>1, AskedMore, ZenonT(30)
<1>3. Asks' = 1..(N + K)
  BY <1>2, LenProperties DEF Asks
<1>4. \A n \in 1..N : n \in 1..(N + K)
  BY <1>2
<1>5. \A n \in Asks : n \in Asks' /\ savers'[n] = savers[n] /\ asked'[n].replay = asked[n].replay
  BY <1>1, <1>2, <1>3, <1>4
<1>6. \A n \in Asks' : n \in Asks \/ (savers'[n].at \in {"end", "check"} /\ savers'[n].pos = 0)
  <2>1. ASSUME NEW n \in 1..(N + K), n \notin 1..N  PROVE n - N \in 1..K /\ n = N + (n - N)
    BY <1>2, <2>1
  <2>2. ASSUME NEW n \in 1..(N + K), n \notin 1..N  PROVE savers'[n] = Ended
    BY <1>2, <2>1, <2>2
  <2>3. Ended.at = "end" /\ Ended.pos = 0
    BY DEF Ended
  <2>4. QED
    BY <1>1, <1>3, <2>2, <2>3
<1>7. QED
  BY <1>5, <1>6, QuietKept

\* A thread finds no file of its game.
LEMMA CheckFileOwns ==
  ASSUME AskTypes, AskInv, FileInv, NEW n \in Asks, CheckFile(n), ~Exists(n)
  PROVE  FileInv'
<1>1. /\ At(n) = "check" /\ savers' = [savers EXCEPT ![n].at = "open"] /\ File(n) \notin Existing
      /\ raced' = IF \E m \in Asks : At(m) = "open" /\ File(m) = File(n)
                  THEN raced \cup {File(n)} ELSE raced
      /\ UNCHANGED <<asked, files, first, cut>>
  BY DEF CheckFile, Exists
<1>2. \A m \in Asks : savers'[m].at = (IF m = n THEN "open" ELSE savers[m].at)
                      /\ savers'[m].pos = savers[m].pos
  <2>1. "open" \in {"check", "open", "write", "end"}
    OBVIOUS
  <2>2. QED
    BY <1>1, <2>1, SaverAt
<1>3. Asks' = Asks /\ Existing' = Existing /\ \A m : File(m)' = File(m)
  BY <1>1 DEF Asks, Existing, File
<1>4. \A m \in Asks : At(m)' = IF m = n THEN "open" ELSE At(m)
  BY <1>2 DEF At
<1>5. FileTypes'
  BY <1>1, <1>2, <1>3, <1>4 DEF FileInv, FileTypes
<1>6. ASSUME NEW f \in FileNames, f \notin raced'  PROVE OneMaker(f)'
  <2>1. OneMaker(f)
    BY <1>1, <1>6 DEF FileInv
  <2>2. CASE f # File(n)
    <3>1. \A m \in Asks : Making(m, f)' <=> Making(m, f)
      BY <1>3, <1>4, <2>2 DEF Making
    <3>2. \A m \in Asks : Making(m, f) => m # n
      BY <2>2 DEF Making
    <3>3. QED
      BY <1>1, <1>2, <1>3, <1>4, <2>1, <3>1, <3>2 DEF OneMaker
  <2>3. CASE f = File(n)
    <3>1. \A m \in Asks : ~Making(m, f)
      <4>1. ASSUME NEW m \in Asks, At(m) = "open"  PROVE File(m) # f
        BY <1>1, <1>6, <2>3, <4>1
      <4>2. ASSUME NEW m \in Asks, At(m) = "write"  PROVE File(m) # f
        BY <1>1, <2>3, <4>2 DEF AskInv
      <4>3. QED
        BY <4>1, <4>2 DEF Making
    <3>2. \A m \in Asks : Making(m, f)' => m = n
      BY <1>3, <1>4, <3>1 DEF Making
    <3>3. f \notin Existing' /\ At(n)' = "open"
      BY <1>1, <1>3, <1>4, <2>3
    <3>4. QED
      BY <1>3, <3>2, <3>3 DEF OneMaker
  <2>4. QED
    BY <2>2, <2>3
<1>7. QED
  BY <1>5, <1>6 DEF FileInv

\* The file is made.
LEMMA OpenOwns ==
  ASSUME AskTypes, AskInv, FileInv, NEW n \in Asks, Open(n)
  PROVE  FileInv'
<1> DEFINE g == File(n)
           r == asked[n].replay
<1>1. /\ At(n) = "open" /\ savers' = [savers EXCEPT ![n].at = "write"]
      /\ files' = [f \in Existing \cup {g} |-> IF f = g THEN <<>> ELSE files[f]]
      /\ first' = [f \in Existing \cup {g} |-> IF f \in Existing THEN first[f] ELSE r]
      /\ UNCHANGED <<asked, raced, cut>>
  BY DEF Open
<1>2. \A m \in Asks : savers'[m].at = (IF m = n THEN "write" ELSE savers[m].at)
                      /\ savers'[m].pos = savers[m].pos
  <2>1. "write" \in {"check", "open", "write", "end"}
    OBVIOUS
  <2>2. QED
    BY <1>1, <2>1, SaverAt
<1>3. Asks' = Asks /\ Existing' = Existing \cup {g} /\ \A m : File(m)' = File(m)
  BY <1>1 DEF Asks, Existing, File
<1>4. \A m \in Asks : At(m)' = IF m = n THEN "write" ELSE At(m)
  BY <1>2 DEF At
<1>5. g \in FileNames /\ savers[n].pos = 0
  <2>1. r \in Replays
    BY AskFacts DEF AskTypes
  <2>2. QED
    BY <1>1, <2>1 DEF File, FileNames, FileInv, FileTypes
<1>6. FileTypes'
  <2>1. \A f \in Existing' : files'[f] \in Seq(Block)
    <3>1. <<>> \in Seq(Block)
      OBVIOUS
    <3>2. QED
      BY <1>1, <1>3, <3>1 DEF FileInv, FileTypes
  <2>2. \A m \in Asks : At(m)' # "write" => savers'[m].pos = 0
    BY <1>2, <1>4 DEF FileInv, FileTypes
  <2>3. Existing' \subseteq FileNames /\ DOMAIN first' = Existing'
    BY <1>1, <1>3, <1>5 DEF FileInv, FileTypes
  <2>4. QED
    BY <1>3, <2>1, <2>2, <2>3 DEF FileTypes
<1>7. ASSUME NEW f \in FileNames, f \notin raced'  PROVE OneMaker(f)'
  <2>1. OneMaker(f)
    BY <1>1, <1>7 DEF FileInv
  <2>2. CASE f # g
    <3>1. \A m \in Asks : Making(m, f)' <=> Making(m, f)
      BY <1>3, <1>4, <2>2 DEF Making
    <3>2. \A m \in Asks : Making(m, f) => m # n
      BY <2>2 DEF Making
    <3>3. \A m \in Asks : Making(m, f) /\ At(m) = "write" => f \in Existing
      BY DEF Making, AskInv
    <3>4. /\ f \in Existing' <=> f \in Existing
          /\ f \in Existing => files'[f] = files[f] /\ first'[f] = first[f]
      BY <1>1, <1>3, <2>2
    <3>5. QED
      BY <1>1, <1>2, <1>3, <1>4, <2>1, <3>1, <3>2, <3>3, <3>4 DEF OneMaker
  <2>3. CASE f = g
    <3>1. Making(n, f)
      BY <1>1, <2>3 DEF Making
    <3>2. f \notin Existing /\ \A m \in Asks : Making(m, f) => m = n
      BY <1>1, <2>1, <3>1 DEF OneMaker
    <3>3. \A m \in Asks : Making(m, f)' <=> m = n
      BY <1>3, <1>4, <2>3, <3>1, <3>2 DEF Making
    <3>4. files'[f] = <<>> /\ first'[f] = r /\ Len(<<>>) = 0 /\ savers'[n].pos = 0
      BY <1>1, <1>2, <1>5, <2>3, <3>2
    <3>5. \A k \in 1..0 : FALSE
      OBVIOUS
    <3>6. QED
      BY <1>1, <1>3, <1>4, <3>3, <3>4, <3>5 DEF OneMaker
  <2>4. QED
    BY <2>2, <2>3
<1>8. QED
  BY <1>6, <1>7 DEF FileInv

\* What a file has after the block that follows pos is written.
Written(old, pos, r) ==
  [k \in 1..(pos + 1) |-> IF k = pos + 1 THEN r ELSE IF k \in DOMAIN old THEN old[k] ELSE "hole"]
    \o SubSeq(old, pos + 2, Len(old))

\* A file of pos blocks has one more after the write, and those before it stay.
LEMMA WrittenFacts ==
  ASSUME NEW old \in Seq(Block), NEW pos \in Nat, NEW r \in Replays
  PROVE  /\ Written(old, pos, r) \in Seq(Block)
         /\ Len(old) = pos => /\ Len(Written(old, pos, r)) = pos + 1
                              /\ \A k \in 1..pos : Written(old, pos, r)[k] = old[k]
                              /\ Written(old, pos, r)[pos + 1] = r
<1> DEFINE start == [k \in 1..(pos + 1) |->
                      IF k = pos + 1 THEN r ELSE IF k \in DOMAIN old THEN old[k] ELSE "hole"]
           after == SubSeq(old, pos + 2, Len(old))
<1>1. Len(old) \in Nat /\ DOMAIN old = 1..Len(old) /\ \A k \in 1..Len(old) : old[k] \in Block
  BY LenProperties, ElementOfSeq
<1>2. r \in Block /\ "hole" \in Block
  BY DEF Block
<1>3. start \in Seq(Block) /\ Len(start) = pos + 1
  <2>1. start \in [1..(pos + 1) -> Block]
    BY <1>1, <1>2
  <2> HIDE DEF start
  <2>2. QED
    BY <2>1
<1>4. after \in Seq(Block)
  <2>1. pos + 2 \in Int /\ Len(old) \in Int /\ \A k \in (pos + 2)..Len(old) : k \in 1..Len(old)
    BY <1>1
  <2>2. QED
    BY <1>1, <2>1, SubSeqProperties
<1>5. start \o after \in Seq(Block)
  <2> HIDE DEF start, after
  <2>1. QED
    BY <1>3, <1>4, ConcatProperties
<1>6. ASSUME Len(old) = pos
      PROVE  start \o after = start /\ (\A k \in 1..pos : start[k] = old[k]) /\ start[pos + 1] = r
  <2>1. after = <<>>
    BY <1>6, SubSeqEmpty
  <2>2. start \o after = start
    <3> HIDE DEF start, after
    <3>1. QED
      BY <1>3, <2>1, ConcatEmptySeq
  <2>3. \A k \in 1..pos : k \in 1..(pos + 1) /\ k # pos + 1 /\ k \in DOMAIN old
    BY <1>1, <1>6
  <2>4. QED
    BY <2>2, <2>3
<1> HIDE DEF start, after
<1>7. Written(old, pos, r) = start \o after
  BY DEF Written, start, after
<1>8. QED
  BY <1>3, <1>5, <1>6, <1>7

\* A block is written.
LEMMA WriteOwns ==
  ASSUME AskTypes, AskInv, FileInv, NEW n \in Asks, Write(n)
  PROVE  FileInv'
<1> DEFINE g == File(n)
           r == asked[n].replay
           p == savers[n].pos
           w == Written(files[g], p, r)
<1>1. g \in Existing /\ files[g] \in Seq(Block) /\ p \in Nat /\ r \in Replays /\ At(n) = "write"
  <2>1. savers[n] \in Saver /\ r \in Replays
    BY AskFacts DEF AskTypes
  <2>2. At(n) = "write"
    BY DEF Write
  <2>3. p \in Nat
    BY <2>1, ReplaysAssumption DEF Saver
  <2>4. g \in Existing
    BY <2>2 DEF AskInv
  <2>5. QED
    BY <2>1, <2>2, <2>3, <2>4 DEF FileInv, FileTypes
<1>2. /\ savers' = [savers EXCEPT ![n].pos = p + 1] /\ files' = [files EXCEPT ![g] = w]
      /\ UNCHANGED <<asked, first, raced, cut>>
  <2>1. (p + 1) + 1 = p + 2
    BY <1>1
  <2>2. w = [k \in 1..(p + 1) |-> IF k = p + 1 THEN r
                                  ELSE IF k \in DOMAIN files[g] THEN files[g][k] ELSE "hole"]
              \o SubSeq(files[g], p + 2, Len(files[g]))
    BY DEF Written
  <2>3. QED
    BY <2>1, <2>2 DEF Write, histories
<1>3. /\ w \in Seq(Block)
      /\ Len(files[g]) = p => /\ Len(w) = p + 1 /\ w[p + 1] = r
                              /\ \A k \in 1..p : w[k] = files[g][k]
  <2> DEFINE old == files[g]
  <2>1. old \in Seq(Block) /\ p \in Nat /\ r \in Replays
    BY <1>1
  <2> HIDE DEF old, p, r
  <2>2. /\ Written(old, p, r) \in Seq(Block)
        /\ Len(old) = p => /\ Len(Written(old, p, r)) = p + 1
                           /\ \A k \in 1..p : Written(old, p, r)[k] = old[k]
                           /\ Written(old, p, r)[p + 1] = r
    BY <2>1, WrittenFacts
  <2>3. w = Written(old, p, r)
    BY DEF old, p, r
  <2> HIDE DEF w
  <2>4. QED
    BY <2>2, <2>3 DEF old
<1> HIDE DEF w
<1>4. \A m \in Asks : /\ savers'[m].at = savers[m].at
                      /\ savers'[m].pos = IF m = n THEN p + 1 ELSE savers[m].pos
  <2> DEFINE s == [at |-> savers[n].at, pos |-> p + 1]
  <2>1. savers[n] \in Saver /\ savers \in Seq(Saver) /\ DOMAIN savers = Asks
    BY AskFacts DEF AskTypes
  <2>2. [savers[n] EXCEPT !.pos = p + 1] = s
    BY <2>1 DEF Saver
  <2>3. savers' = [savers EXCEPT ![n] = s]
    BY <1>2, <2>2
  <2>4. s.at = savers[n].at /\ s.pos = p + 1
    OBVIOUS
  <2> HIDE DEF s
  <2>5. \A m \in Asks : savers'[m] = IF m = n THEN s ELSE savers[m]
    BY <2>1, <2>3
  <2>6. QED
    BY <2>4, <2>5
<1>5. Asks' = Asks /\ Existing' = Existing /\ \A m : File(m)' = File(m)
  BY <1>2 DEF Asks, Existing, File
<1>6. /\ \A m \in Asks : At(m)' = At(m)
      /\ \A m \in Asks : \A f : Making(m, f)' <=> Making(m, f)
  BY <1>4, <1>5 DEF At, Making
<1>7. \A f \in Existing : files'[f] = IF f = g THEN w ELSE files[f]
  BY <1>2 DEF Existing
<1>8. FileTypes'
  <2>1. \A m \in Asks : At(m)' # "write" => savers'[m].pos = 0
    BY <1>1, <1>4, <1>6 DEF FileInv, FileTypes
  <2>2. \A f \in Existing : files'[f] \in Seq(Block)
    BY <1>3, <1>7 DEF FileInv, FileTypes
  <2>3. QED
    BY <1>2, <1>5, <2>1, <2>2 DEF FileInv, FileTypes
<1>9. ASSUME NEW f \in FileNames, f \notin raced'  PROVE OneMaker(f)'
  <2>1. OneMaker(f)
    BY <1>2, <1>9 DEF FileInv
  <2>2. CASE f # g
    <3>1. \A m \in Asks : Making(m, f) => m # n
      BY <2>2 DEF Making
    <3>2. \A m \in Asks : Making(m, f) /\ At(m) = "write" => f \in Existing
      BY DEF Making, AskInv
    <3>3. QED
      BY <1>2, <1>4, <1>5, <1>6, <1>7, <2>1, <2>2, <3>1, <3>2 DEF OneMaker
  <2>3. CASE f = g
    <3>1. Making(n, f)
      BY <1>1, <2>3 DEF Making
    <3>2. /\ first[f] = r /\ Len(files[f]) = p
          /\ \A m \in Asks : Making(m, f) => m = n
          /\ \A k \in 1..p : files[f][k] = first[f]
      BY <1>1, <2>1, <2>3, <3>1 DEF OneMaker
    <3>3. files'[f] = w /\ first'[f] = r /\ Len(w) = p + 1
      BY <1>1, <1>2, <1>3, <1>7, <2>3, <3>2
    <3>4. \A k \in 1..(p + 1) : w[k] = r
      <4>1. \A k \in 1..(p + 1) : k \in 1..p \/ k = p + 1
        BY <1>1
      <4>2. QED
        BY <1>3, <2>3, <3>2, <4>1
    <3>5. \A m \in Asks' : Making(m, f)' <=> m = n
      BY <1>5, <1>6, <3>1, <3>2
    <3>6. At(n)' = "write" /\ savers'[n].pos = p + 1 /\ asked'[n].replay = r
      BY <1>1, <1>2, <1>4, <1>6
    <3>7. \A k \in 1..Len(files'[f]) : files'[f][k] = first'[f]
      BY <3>3, <3>4
    <3>8. n \in Asks' /\ Making(n, f)'
      BY <1>5, <3>5
    <3>9. QED
      BY <3>3, <3>5, <3>6, <3>7, <3>8 DEF OneMaker
  <2>4. QED
    BY <2>2, <2>3
<1>10. QED
  BY <1>8, <1>9 DEF FileInv

\* Commands change; the threads go on as they were, but for one that is started.
LEMMA SameThreads ==
  ASSUME AskTypes, FileInv, UNCHANGED <<files, first, raced, cut>>, Asks' = Asks,
         \A n \in Asks : asked'[n].replay = asked[n].replay,
         \/ UNCHANGED savers
         \/ \E k \in Asks, a \in {"end", "check"} :
              savers' = [savers EXCEPT ![k].at = a] /\ At(k) \in {"end", "check"}
  PROVE  FileInv'
<1>1. CASE UNCHANGED savers
  BY <1>1, QuietKept
<1>2. ASSUME NEW k \in Asks, NEW a \in {"end", "check"}, savers' = [savers EXCEPT ![k].at = a],
             At(k) \in {"end", "check"}
      PROVE  FileInv'
  <2>1. a \in {"check", "open", "write", "end"}
    OBVIOUS
  <2>2. \A m \in Asks : savers'[m].at = (IF m = k THEN a ELSE savers[m].at)
                        /\ savers'[m].pos = savers[m].pos
    BY <1>2, <2>1, SaverAt, ZenonT(90)
  <2>3. savers'[k].at \in {"end", "check"} /\ savers'[k].pos = 0
    BY <1>2, <2>2 DEF FileInv, FileTypes
  <2>4. \A m \in Asks : m # k => savers'[m] = savers[m]
    BY <1>2
  <2>5. QED
    BY <1>2, <2>3, <2>4, QuietKept
<1>3. QED
  BY <1>1, <1>2

\* A thread ends before it has begun to write, or after its last block.
LEMMA ThreadEnds ==
  ASSUME AskTypes, FileInv, NEW k \in Asks, UNCHANGED <<asked, files, first, raced, cut>>,
         savers' = [savers EXCEPT ![k] = Ended], At(k) = "write" => savers[k].pos = Blocks
  PROVE  FileInv'
<1>1. Ended \in Saver /\ Ended.at = "end" /\ Ended.pos = 0
  BY ReplaysAssumption DEF Ended, Saver
<1>2. \A m \in Asks : savers'[m] = IF m = k THEN Ended ELSE savers[m]
  BY <1>1, SaverMoved
<1>3. Asks' = Asks
  BY DEF Asks
<1>4. QED
  BY <1>1, <1>2, <1>3, QuietKept

\* A replay is asked for again.
LEMMA RetryQuiet ==
  ASSUME AskTypes, FileInv, NEW k \in Asks, Ask(Taken(k), AskedAgain(k)),
         UNCHANGED <<files, first, raced, cut>>
  PROVE  FileInv'
<1> DEFINE list == <<asked[k].replay>>
<1>1. list \in Seq(Replays) /\ AskedAgain(k) = list
  <2>1. asked[k].replay \in Replays
    BY AskFacts DEF AskTypes
  <2>2. QED
    BY <2>1 DEF AskedAgain
<1>2. asked' = Taken(k) \o Asking(list) /\ savers' = savers \o Idle(list)
  BY <1>1 DEF Ask, Asking, Idle
<1> HIDE DEF list
<1>3. QED
  BY <1>1, <1>2, TakenFacts, AddedQuiet

\* The replays of a match are asked for.
LEMMA ReplayReadyQuiet ==
  ASSUME AskTypes, FileInv, NEW f, ReplayReady(f)
  PROVE  FileInv'
<1> DEFINE new == {r \in Replays \ announced : FileOf[r] = f}
           list == SetToSeq(new)
<1>1. Ask(asked, list) /\ UNCHANGED <<files, first, raced, cut>>
  BY DEF ReplayReady, histories
<1>2. list \in Seq(new) /\ new \subseteq Replays
  <2>1. IsFiniteSet(new) /\ new \subseteq Replays
    BY ReplaysAssumption, FS_Subset
  <2> HIDE DEF new
  <2>2. QED
    BY <2>1, SetToSeqFacts
<1> HIDE DEF new, list
<1>3. list \in Seq(Replays)
  BY <1>2
<1>4. asked' = asked \o Asking(list) /\ savers' = savers \o Idle(list)
  BY <1>1 DEF Ask, Asking, Idle
<1>5. asked \in Seq(ReplayCommand)
  BY DEF AskTypes
<1>6. QED
  BY <1>1, <1>3, <1>4, <1>5, AddedQuiet

\* Every step keeps the files their makers'.
LEMMA FileKept ==
  ASSUME AskTypes, AskInv, FileInv, [FilesNext]_filesVars
  PROVE  FileInv'
<1>1. CASE UNCHANGED filesVars
  BY <1>1, SameThreads DEF filesVars, histories, Asks
<1>2. ASSUME NEW f \in FileNames, ReplayReady(f)  PROVE FileInv'
  BY <1>2, ReplayReadyQuiet
<1>3. ASSUME NEW n \in Asks, Send(n)  PROVE FileInv'
  BY <1>3, SameThreads DEF Send, histories, Asks
<1>4. ASSUME NEW n \in Asks, Response(n)  PROVE FileInv'
  <2>1. UNCHANGED <<files, first, raced, cut>>
    BY <1>4 DEF Response
  <2>2. CASE UNCHANGED <<asked, savers>>
    BY <2>1, <2>2, SameThreads DEF Asks
  <2>3. CASE Ask(Taken(n), AskedAgain(n))
    BY <2>1, <2>3, RetryQuiet
  <2>4. ASSUME Pending(n), asked' = Taken(n),
               savers' = [savers EXCEPT ![n].at = "check"] \/ UNCHANGED savers
        PROVE  FileInv'
    <3>1. /\ asked' \in Seq(ReplayCommand) /\ Len(asked') = Len(asked)
          /\ \A m \in Asks : asked'[m].replay = asked[m].replay
      BY <2>4, TakenFacts
    <3>2. Asks' = Asks
      BY <3>1, AskFacts, LenProperties DEF Asks
    <3>3. At(n) = "end"
      BY <2>4 DEF AskInv
    <3>4. QED
      BY <2>1, <2>4, <3>1, <3>2, <3>3, SameThreads
  <2>5. QED
    BY <1>4, <2>2, <2>3, <2>4 DEF Response
<1>5. ASSUME NEW n \in Asks, TimeOut(n)  PROVE FileInv'
  BY <1>5, RetryQuiet DEF TimeOut, histories
<1>6. ASSUME NEW n \in Asks, CheckFile(n)  PROVE FileInv'
  <2>1. CASE ~Exists(n)
    BY <1>6, <2>1, CheckFileOwns
  <2>2. CASE Exists(n)
    <3>1. /\ At(n) = "check" /\ savers' = [savers EXCEPT ![n].at = "end"]
          /\ UNCHANGED <<asked, files, first, cut>> /\ raced \subseteq raced'
      BY <1>6, <2>2 DEF CheckFile
    <3>2. \A m \in Asks : savers'[m].at = (IF m = n THEN "end" ELSE savers[m].at)
                          /\ savers'[m].pos = savers[m].pos
      <4>1. "end" \in {"check", "open", "write", "end"}
        OBVIOUS
      <4>2. QED
        BY <3>1, <4>1, SaverAt
    <3>3. savers'[n].at = "end" /\ savers'[n].pos = 0
      BY <3>1, <3>2 DEF FileInv, FileTypes
    <3>4. Asks' = Asks /\ \A m \in Asks : m # n => savers'[m] = savers[m]
      BY <3>1 DEF Asks
    <3>5. QED
      BY <3>1, <3>3, <3>4, QuietKept
  <2>3. QED
    BY <2>1, <2>2
<1>7. ASSUME NEW n \in Asks, Open(n)  PROVE FileInv'
  BY <1>7, OpenOwns
<1>8. ASSUME NEW n \in Asks, Fail(n)  PROVE FileInv'
  BY <1>8, ThreadEnds DEF Fail
<1>9. ASSUME NEW n \in Asks, Write(n)  PROVE FileInv'
  BY <1>9, WriteOwns
<1>10. ASSUME NEW n \in Asks, Close(n)  PROVE FileInv'
  BY <1>10, ThreadEnds DEF Close, histories
<1>11. CASE Disconnect
  <2>1. UNCHANGED <<savers, files, first, raced, cut>> /\ Asks' = Asks
        /\ \A n \in Asks : asked'[n].replay = asked[n].replay
    BY <1>11, DroppedFacts DEF Disconnect
  <2>2. QED
    BY <2>1, SameThreads
<1>12. CASE Crash
  <2>1. /\ UNCHANGED <<files, first, raced>> /\ savers' = [n \in Asks |-> Ended] /\ Asks' = Asks
        /\ cut' = cut \cup {File(n) : n \in {m \in Asks : At(m) = "write"}}
    BY <1>12, DroppedFacts DEF Crash
  <2>2. \A n \in Asks : savers'[n].at = "end" /\ savers'[n].pos = 0
    BY <2>1 DEF Ended
  <2>3. \A n \in Asks : At(n) = "write" => File(n) \in cut'
    BY <2>1
  <2>4. QED
    BY <2>1, <2>2, <2>3, QuietKept
<1>13. QED
  BY <1>1, <1>2, <1>3, <1>4, <1>5, <1>6, <1>7, <1>8, <1>9, <1>10, <1>11, <1>12 DEF FilesNext

\* The files and their makers, in every behaviour.
LEMMA FileInvariant == FilesSpec => []FileInv
<1>1. FilesInit => FileInv
  <2>1. SUFFICES ASSUME FilesInit  PROVE FileInv
    OBVIOUS
  <2>2. asked = <<>> /\ files = <<>> /\ first = <<>>
    BY <2>1 DEF FilesInit
  <2>3. DOMAIN <<>> = {}
    OBVIOUS
  <2>4. Asks = {} /\ Existing = {} /\ DOMAIN first = {}
    BY <2>2, <2>3 DEF Asks, Existing
  <2>5. QED
    BY <2>4 DEF FileInv, FileTypes, OneMaker
<1>2. AskTypes /\ AskInv /\ FileInv /\ [FilesNext]_filesVars => FileInv'
  BY FileKept
<1>3. QED
  BY <1>1, <1>2, AskInvariant, PTL DEF FilesSpec

\* A file holds the whole replay of the thread that made it, unless that thread was cut short
\* by a crash or another asked whether the file exists before this one had opened it.
THEOREM FileHoldsFirstHolds == FilesSpec => []FileHoldsFirst
<1>1. ASSUME FileInv  PROVE FileHoldsFirst
  <2>1. SUFFICES ASSUME NEW f \in Existing \ (raced \cup cut)
                 PROVE  /\ \A k \in DOMAIN files[f] : files[f][k] = first[f]
                        /\ \/ Len(files[f]) = Blocks
                           \/ \E n \in Asks : At(n) = "write" /\ File(n) = f
    BY DEF FileHoldsFirst
  <2>2. OneMaker(f) /\ files[f] \in Seq(Block)
    BY <1>1 DEF FileInv, FileTypes
  <2>3. DOMAIN files[f] = 1..Len(files[f])
    BY <2>2, LenProperties
  <2>4. \A n \in Asks : Making(n, f) => At(n) = "write" /\ File(n) = f
    BY <2>2 DEF OneMaker, Making
  <2>5. QED
    BY <2>2, <2>3, <2>4 DEF OneMaker
<1>2. QED
  BY <1>1, FileInvariant, PTL

-----------------------------------------------------------------------------
\* Chat: questions and their answers.

\* A set of one member, or of none, as a sequence.
LEMMA ShortSeq ==
  ASSUME NEW a
  PROVE  SetToSeq({a}) = <<a>> /\ SetToSeq({}) = <<>>
<1>1. SetToSeq({a}) = <<a>>
  <2> DEFINE s == SetToSeq({a})
  <2>1. /\ s \in Seq({a})
        /\ \A i, j \in 1..Len(s) : s[i] = s[j] => i = j
        /\ \E i \in 1..Len(s) : s[i] = a
    <3>1. IsFiniteSet({a})
      BY FS_Singleton
    <3>2. QED
      BY <3>1, SetToSeqFacts
  <2> HIDE DEF s
  <2>2. Len(s) \in Nat /\ \A i \in 1..Len(s) : s[i] = a
    BY <2>1, ElementOfSeq, LenProperties
  <2>3. Len(s) = 1
    <3>1. Len(s) \in Nat
      BY <2>2
    <3>2. Len(s) >= 1
      BY <2>1, <3>1
    <3>3. ~(1 \in 1..Len(s) /\ 2 \in 1..Len(s))
      BY <2>1, <2>2
    <3>4. \A n \in Nat : n >= 1 /\ ~(1 \in 1..n /\ 2 \in 1..n) => n = 1
      OBVIOUS
    <3>5. QED
      BY <3>1, <3>2, <3>3, <3>4
  <2>4. QED
    <3>1. 1 \in 1..Len(s)
      BY <2>3
    <3>2. s = <<a>>
      BY <2>1, <2>2, <2>3, <3>1
    <3>3. QED
      BY <3>2 DEF s
<1>2. SetToSeq({}) = <<>>
  <2> DEFINE s == SetToSeq({})
  <2>1. s \in Seq({})
    <3>1. IsFiniteSet({})
      BY FS_EmptySet
    <3>2. QED
      BY <3>1, SetToSeqFacts
  <2> HIDE DEF s
  <2>2. Len(s) \in Nat /\ \A i \in 1..Len(s) : s[i] \in {}
    BY <2>1, ElementOfSeq, LenProperties
  <2>3. Len(s) = 0
    BY <2>2
  <2>4. QED
    BY <2>1, <2>3, EmptySeq DEF s
<1>3. QED
  BY <1>1, <1>2

\* What the handlers make of a message: at most one answer, which is to the message.
OneAnswer(e) ==
  \/ Exec(e) = <<>>
  \/ \E i \in 1..3 : /\ Exec(e) = <<AnswerOf(i, e)>> /\ AnswerTo(AnswerOf(i, e), e)
                     /\ e.channel \in {"room", "user"}
                     /\ e.channel = "room" => AnswerOf(i, e).command = "help"

\* No message has two answers; a question in private has one, and what is no question none.
LEMMA ExecFacts ==
  ASSUME NEW e
  PROVE  /\ OneAnswer(e)
         /\ Private(e) /\ e.message.text \in DOMAIN Begins => Exec(e) # <<>>
         /\ ~e.message.prefix => Exec(e) = <<>>
<1> DEFINE H == Hits(e.message)
           M == Matches(e.message)
           J == {j \in M : e.channel \in Commands[j].channels}
           S == {AnswerOf(i, e) : i \in J}
<1>1. /\ DOMAIN Commands = 1..3
      /\ Commands[1] = Command("discord", {"user"})
      /\ Commands[2] = Command("github", {"user"})
      /\ Commands[3] = Command("help", {"room", "user"})
  BY DEF Commands
<1>2. \A i \in 1..3 : /\ i \in H <=> e.message.prefix /\ Commands[i].name \in Begins[e.message.text]
                      /\ "user" \in Commands[i].channels
                      /\ "room" \in Commands[i].channels => Commands[i].name = "help"
  BY <1>1 DEF Hits, Command
<1>3. H \subseteq 1..3 /\ (~e.message.prefix => H = {})
  BY <1>1 DEF Hits
<1>4. M = {i \in H : \A j \in H : i <= j}
  BY DEF Matches
<1>5. Exec(e) = SetToSeq(S)
  BY DEF Exec
<1> HIDE DEF H, M
<1>6. CASE J = {}
  <2>1. Exec(e) = <<>>
    <3>1. S = {}
      BY <1>6
    <3>2. QED
      BY <1>5, <3>1, ShortSeq
  <2>2. ASSUME Private(e), e.message.text \in DOMAIN Begins  PROVE FALSE
    <3>1. e.channel = "user" /\ e.message.prefix /\ Begins[e.message.text] # {}
      BY <2>2 DEF Private
    <3>2. Begins[e.message.text] \subseteq {Commands[i].name : i \in 1..3}
      BY <1>1, <2>2, BeginsAssumption
    <3>3. PICK i \in 1..3 : i \in H
      BY <1>2, <3>1, <3>2
    <3>4. PICK k \in H : \A j \in H : k <= j
      BY <1>3, <3>3
    <3>5. k \in J
      BY <1>2, <1>3, <1>4, <3>1, <3>4
    <3>6. QED
      BY <1>6, <3>5
  <2>3. QED
    BY <2>1, <2>2 DEF OneAnswer
<1>7. ASSUME NEW i \in J
      PROVE  OneAnswer(e) /\ Exec(e) = <<AnswerOf(i, e)>> /\ e.message.prefix
  <2>1. i \in H /\ i \in 1..3 /\ e.channel \in Commands[i].channels /\ e.message.prefix
    BY <1>3, <1>4
  <2>2. \A j \in J : j = i
    BY <1>3, <1>4
  <2> HIDE DEF J
  <2>3. J = {i}
    BY <2>2
  <2>4. S = {AnswerOf(i, e)}
    BY <2>3
  <2>5. Exec(e) = <<AnswerOf(i, e)>>
    BY <1>5, <2>4, ShortSeq
  <2>6. AnswerTo(AnswerOf(i, e), e)
    BY <1>2, <2>1 DEF AnswerTo, AnswerOf
  <2>7. e.channel = "room" => AnswerOf(i, e).command = "help"
    BY <1>2, <2>1 DEF AnswerOf
  <2>8. e.channel \in {"room", "user"}
    BY <1>1, <2>1 DEF Command
  <2>9. QED
    BY <2>1, <2>5, <2>6, <2>7, <2>8 DEF OneAnswer
<1> HIDE DEF J, S
<1>8. \A a : <<a>> # <<>>
  OBVIOUS
<1>9. CASE J # {}
  <2>1. PICK i : i \in J
    BY <1>9
  <2>2. Exec(e) # <<>>
    BY <1>7, <1>8, <2>1
  <2>3. QED
    BY <1>7, <2>1, <2>2
<1>10. QED
  BY <1>6, <1>9

Events == [channel : Channels, sender : Senders \cup {"bot"}, message : Messages \cup {HelpMessage}]
AnswersGiven == {AnswerOf(i, e) : i \in 1..3, e \in {e \in Events : e.channel \in {"room", "user"}}}

\* What the bot hears itself say: as many lines as it said in the room, none of them
\* a command.
LEMMA EchoFacts ==
  ASSUME NEW out, Len(out) \in Nat, DOMAIN out = 1..Len(out)
  PROVE  /\ Echo(out) \in Seq(Events)
         /\ out = <<>> => Echo(out) = <<>>
         /\ \A i \in 1..Len(Echo(out)) : Exec(Echo(out)[i]) = <<>>
<1> DEFINE n == Cardinality({k \in DOMAIN out : out[k].channel = "room"})
           e == [channel |-> "room", sender |-> "bot", message |-> HelpMessage]
<1>1. n \in Nat
  <2>1. IsFiniteSet(1..Len(out))
    BY FS_Interval
  <2>2. IsFiniteSet({k \in DOMAIN out : out[k].channel = "room"})
    BY <2>1, FS_Subset
  <2>3. QED
    BY <2>2, FS_CardinalityType
<1>2. Echo(out) = [i \in 1..n |-> e]
  BY DEF Echo
<1>3. out = <<>> => n = 0
  <2>1. SUFFICES ASSUME out = <<>>  PROVE n = 0
    OBVIOUS
  <2>2. {k \in DOMAIN out : out[k].channel = "room"} = {}
    BY <2>1
  <2>3. QED
    BY <2>2, FS_EmptySet
<1>4. e \in Events
  BY DEF Events, Channels
<1>5. Exec(e) = <<>>
  <2>1. ~e.message.prefix
    BY DEF HelpMessage
  <2> HIDE DEF e
  <2>2. QED
    BY <2>1, ExecFacts
<1> HIDE DEF n, e
<1>6. Echo(out) \in Seq(Events) /\ Len(Echo(out)) = n
  BY <1>1, <1>2, <1>4
<1>7. n = 0 => Echo(out) = <<>>
  BY <1>6, EmptySeq
<1>8. \A i \in 1..n : Exec(Echo(out)[i]) = <<>>
  BY <1>2, <1>5
<1>9. QED
  BY <1>3, <1>6, <1>7, <1>8

\* The answers a, then the events s that will be answered: each is to a question of q, in
\* the order of the questions, and no question that is answered is without one.
Places(a, s) == 1..Len(a) \cup {p \in Len(a) + 1..Len(a) + Len(s) : Exec(s[p - Len(a)]) # <<>>}

About(a, s, q, h) ==
  /\ h \in [Places(a, s) -> 1..Len(q)]
  /\ \A x, y \in Places(a, s) : x < y => h[x] < h[y]
  /\ \A x \in 1..Len(a) : Exec(q[h[x]]) = <<a[x]>>
  /\ \A x \in Places(a, s) : x > Len(a) => q[h[x]] = s[x - Len(a)]
  /\ \A k \in 1..Len(q) : Exec(q[k]) # <<>> => \E x \in Places(a, s) : h[x] = k

\* A user says something.
LEMMA TellAbout ==
  ASSUME NEW a, Len(a) \in Nat, NEW s \in Seq(Events), NEW q \in Seq(Events), NEW e \in Events,
         NEW h, About(a, s, q, h)
  PROVE  \E g : About(a, Append(s, e), Append(q, e), g)
<1> DEFINE N == Len(a)
           S == Len(s)
           K == Len(q)
           t == Append(s, e)
           r == Append(q, e)
           P == Places(a, s)
           R == Places(a, t)
           g == [x \in R |-> IF x \in P THEN h[x] ELSE K + 1]
<1>1. /\ N \in Nat /\ S \in Nat /\ K \in Nat
      /\ Len(t) = S + 1 /\ \A j \in 1..S : t[j] = s[j]
      /\ t[S + 1] = e
      /\ Len(r) = K + 1 /\ \A k \in 1..K : r[k] = q[k]
      /\ r[K + 1] = e
  BY AppendProperties, LenProperties
<1>2. /\ P = 1..N \cup {x \in N + 1..N + S : Exec(s[x - N]) # <<>>}
      /\ R = 1..N \cup {x \in N + 1..N + (S + 1) : Exec(t[x - N]) # <<>>}
  BY <1>1 DEF Places
<1>3. /\ h \in [P -> 1..K]
      /\ \A x, y \in P : x < y => h[x] < h[y]
      /\ \A x \in 1..N : Exec(q[h[x]]) = <<a[x]>>
      /\ \A x \in P : x > N => q[h[x]] = s[x - N]
      /\ \A k \in 1..K : Exec(q[k]) # <<>> => \E x \in P : h[x] = k
  BY DEF About
<1> HIDE DEF N, S, K, t, r, P, R
<1>4. /\ P \subseteq R /\ \A x \in P : x \in 1..N + S
      /\ \A x \in R : x \notin P => x = N + (S + 1) /\ Exec(e) # <<>>
      /\ Exec(e) # <<>> => N + (S + 1) \in R /\ N + (S + 1) \notin P
  <2>1. \A x \in N + 1..N + S : x - N \in 1..S /\ x \in N + 1..N + (S + 1)
    BY <1>1
  <2>2. \A x \in N + 1..N + (S + 1) : x \in N + 1..N + S \/ x = N + (S + 1)
    BY <1>1
  <2>3. /\ N + (S + 1) - N = S + 1 /\ N + (S + 1) \in N + 1..N + (S + 1)
        /\ N + (S + 1) \notin 1..N + S /\ 1..N \subseteq 1..N + S
        /\ N + 1..N + S \subseteq 1..N + S
    BY <1>1
  <2>4. \A x \in N + 1..N + S : t[x - N] = s[x - N]
    BY <1>1, <2>1
  <2>5. P \subseteq R
    BY <1>2, <2>1, <2>4
  <2>6. \A x \in P : x \in 1..N + S
    BY <1>2, <2>3
  <2>7. \A x \in R : x \notin P => x = N + (S + 1) /\ Exec(e) # <<>>
    BY <1>1, <1>2, <2>2, <2>3, <2>4
  <2>8. Exec(e) # <<>> => N + (S + 1) \in R /\ N + (S + 1) \notin P
    BY <1>1, <1>2, <2>3, <2>6, SMTT(30)
  <2>9. QED
    BY <2>5, <2>6, <2>7, <2>8
<1>5. \A x \in P : g[x] = h[x] /\ h[x] \in 1..K
  BY <1>3, <1>4
<1>6. \A x \in R : x \notin P => g[x] = K + 1
  OBVIOUS
<1> HIDE DEF g
<1>7. g \in [R -> 1..K + 1]
  <2>1. \A x \in R : g[x] \in 1..K + 1
    BY <1>1, <1>5, <1>6
  <2>2. QED
    BY <2>1 DEF g
<1>8. ASSUME NEW x \in R, NEW y \in R, x < y
      PROVE  g[x] < g[y]
  <2>1. x \in P
    <3>1. SUFFICES ASSUME x \notin P PROVE FALSE
      OBVIOUS
    <3>2. x = N + (S + 1) /\ (y \in 1..N + S \/ y = N + (S + 1))
      BY <1>4, <3>1
    <3>3. QED
      BY <1>1, <1>8, <3>2
  <2>2. CASE y \in P
    BY <1>3, <1>5, <1>8, <2>1, <2>2
  <2>3. CASE y \notin P
    BY <1>1, <1>5, <1>6, <2>1, <2>3
  <2>4. QED
    BY <2>2, <2>3
<1>9. ASSUME NEW x \in 1..N
      PROVE  Exec(r[g[x]]) = <<a[x]>>
  <2>1. x \in P
    BY <1>2
  <2>2. QED
    BY <1>1, <1>3, <1>5, <2>1
<1>10. ASSUME NEW x \in R, x > N
       PROVE  r[g[x]] = t[x - N]
  <2>1. CASE x \in P
    <3>1. x - N \in 1..S
      BY <1>1, <1>4, <1>10, <2>1
    <3>2. QED
      BY <1>1, <1>3, <1>5, <1>10, <2>1, <3>1
  <2>2. CASE x \notin P
    <3>1. x = N + (S + 1) /\ x - N = S + 1
      BY <1>1, <1>4, <2>2
    <3>2. QED
      BY <1>1, <1>6, <2>2, <3>1
  <2>3. QED
    BY <2>1, <2>2
<1>11. ASSUME NEW k \in 1..K + 1, Exec(r[k]) # <<>>
       PROVE  \E x \in R : g[x] = k
  <2>1. CASE k \in 1..K
    BY <1>1, <1>3, <1>4, <1>5, <1>11, <2>1
  <2>2. CASE k = K + 1
    BY <1>1, <1>4, <1>6, <1>11, <2>2
  <2>3. QED
    BY <1>1, <2>1, <2>2
<1>12. About(a, t, r, g)
  BY <1>1, <1>7, <1>8, <1>9, <1>10, <1>11 DEF About, N, R
<1>13. QED
  BY <1>12 DEF t, r

\* The bot hears an event and answers it, or does not.
LEMMA HearAbout ==
  ASSUME NEW a, Len(a) \in Nat, NEW s \in Seq(Events), s # <<>>, NEW q, Len(q) \in Nat,
         NEW b, NEW c \in Seq(Events), \A i \in 1..Len(c) : Exec(c[i]) = <<>>,
         NEW h, About(a, s, q, h),
         \/ Exec(s[1]) = <<>> /\ b = a /\ c = <<>>
         \/ Exec(s[1]) # <<>> /\ Len(b) = Len(a) + 1 /\ Exec(s[1]) = <<b[Len(a) + 1]>>
              /\ \A i \in 1..Len(a) : b[i] = a[i]
  PROVE  \E g : About(b, Tail(s) \o c, q, g)
<1> DEFINE N == Len(a)
           S == Len(s)
           K == Len(q)
           C == Len(c)
           t == Tail(s) \o c
           P == Places(a, s)
           R == Places(b, t)
<1>1. /\ N \in Nat /\ S \in Nat \ {0} /\ K \in Nat /\ C \in Nat
      /\ Len(t) = S - 1 + C /\ t \in Seq(Events)
      /\ \A j \in 1..S - 1 : t[j] = s[j + 1]
      /\ \A j \in S..S - 1 + C : Exec(t[j]) = <<>>
  <2>1. S \in Nat \ {0} /\ C \in Nat
    BY EmptySeq, LenProperties
  <2>2. Tail(s) \in Seq(Events) /\ Len(Tail(s)) = S - 1 /\ \A j \in 1..S - 1 : Tail(s)[j] = s[j + 1]
    BY HeadTailProperties
  <2>3. /\ t \in Seq(Events) /\ Len(t) = S - 1 + C
        /\ \A j \in 1..S - 1 + C : t[j] = IF j <= S - 1 THEN Tail(s)[j] ELSE c[j - (S - 1)]
    BY <2>2, ConcatProperties
  <2>4. \A j \in 1..S - 1 : t[j] = s[j + 1]
    BY <2>1, <2>2, <2>3
  <2>5. ASSUME NEW j \in S..S - 1 + C
        PROVE  Exec(t[j]) = <<>>
    <3>1. j \in 1..S - 1 + C /\ ~(j <= S - 1) /\ j - (S - 1) \in 1..C
      BY <2>1, <2>5
    <3>2. t[j] = c[j - (S - 1)]
      BY <2>3, <3>1
    <3>3. QED
      BY <3>1, <3>2
  <2> HIDE DEF S, C, t
  <2>6. QED
    BY <2>1, <2>3, <2>4, <2>5 DEF N, K
<1>2. P = 1..N \cup {x \in N + 1..N + S : Exec(s[x - N]) # <<>>}
  BY DEF Places
<1>3. /\ h \in [P -> 1..K]
      /\ \A x, y \in P : x < y => h[x] < h[y]
      /\ \A x \in 1..N : Exec(q[h[x]]) = <<a[x]>>
      /\ \A x \in P : x > N => q[h[x]] = s[x - N]
      /\ \A k \in 1..K : Exec(q[k]) # <<>> => \E x \in P : h[x] = k
  BY DEF About
<1> HIDE DEF N, S, K, C, P
<1>4. CASE Exec(s[1]) = <<>> /\ b = a /\ c = <<>>
  <2> DEFINE g == [x \in R |-> IF x <= N THEN h[x] ELSE h[x + 1]]
  <2>1. C = 0
    BY <1>4 DEF C
  <2>2. R = 1..N \cup {x \in N + 1..N + (S - 1) : Exec(t[x - N]) # <<>>}
    BY <1>1, <1>4, <2>1 DEF Places, N
  <2> HIDE DEF R, t
  <2>3. \A x \in N + 1..N + (S - 1) : /\ x - N \in 1..S - 1 /\ (x - N) + 1 = (x + 1) - N
                                      /\ x + 1 \in N + 1..N + S
    BY <1>1
  <2>4. \A x \in R : x > N => x + 1 \in P /\ t[x - N] = s[(x + 1) - N]
    <3>1. TAKE x \in R
    <3>2. HAVE x > N
    <3>3. x \in N + 1..N + (S - 1) /\ Exec(t[x - N]) # <<>>
      BY <1>1, <2>2, <3>2
    <3>4. t[x - N] = s[(x - N) + 1] /\ x + 1 \in N + 1..N + S /\ (x - N) + 1 = (x + 1) - N
      BY <1>1, <2>3, <3>3
    <3>5. QED
      BY <1>2, <3>3, <3>4
  <2>5. \A x \in P : x > N => x - 1 \in R /\ x - 1 > N /\ (x - 1) + 1 = x
    <3>1. TAKE x \in P
    <3>2. HAVE x > N
    <3>3. x \in N + 1..N + S /\ Exec(s[x - N]) # <<>>
      BY <1>1, <1>2, <3>2
    <3>4. x # N + 1
      <4>1. (N + 1) - N = 1
        BY <1>1
      <4>2. QED
        BY <1>4, <3>3, <4>1
    <3>5. x - 1 \in N + 1..N + (S - 1) /\ (x - 1) - N \in 1..S - 1 /\ ((x - 1) - N) + 1 = x - N
          /\ (x - 1) + 1 = x /\ x - 1 > N
      BY <1>1, <3>3, <3>4
    <3>6. Exec(t[(x - 1) - N]) # <<>>
      BY <1>1, <3>3, <3>5
    <3>7. QED
      BY <2>2, <3>5, <3>6
  <2>6. \A x \in R : x \in Nat /\ (x <= N => x \in 1..N /\ x \in P)
    BY <1>1, <1>2, <2>2
  <2>7. \A x \in R : g[x] = (IF x <= N THEN h[x] ELSE h[x + 1]) /\ g[x] \in 1..K
    BY <1>1, <1>3, <2>4, <2>6
  <2>8. g \in [R -> 1..K]
    BY <2>7
  <2> HIDE DEF g
  <2>9. ASSUME NEW x \in R, NEW y \in R, x < y
        PROVE  g[x] < g[y]
    <3>1. CASE y <= N
      <4>1. x <= N /\ x \in P /\ y \in P
        BY <1>1, <2>6, <2>9, <3>1
      <4>2. QED
        BY <1>3, <2>7, <2>9, <3>1, <4>1
    <3>2. CASE x <= N /\ y > N
      <4>1. x \in P /\ y + 1 \in P /\ x < y + 1 /\ ~(y <= N)
        BY <1>1, <2>4, <2>6, <2>9, <3>2, SMTT(30)
      <4>2. QED
        BY <1>3, <2>7, <3>2, <4>1
    <3>3. CASE x > N /\ y > N
      <4>1. x + 1 \in P /\ y + 1 \in P /\ x + 1 < y + 1 /\ ~(x <= N) /\ ~(y <= N)
        <5>1. x + 1 \in P /\ y + 1 \in P /\ x \in Nat /\ y \in Nat
          BY <2>4, <2>6, <3>3
        <5>2. x + 1 < y + 1 /\ ~(x <= N) /\ ~(y <= N)
          BY <1>1, <2>9, <3>3, <5>1
        <5>3. QED
          BY <5>1, <5>2
      <4>2. QED
        BY <1>3, <2>7, <4>1
    <3>4. QED
      BY <1>1, <2>6, <2>9, <3>1, <3>2, <3>3
  <2>10. ASSUME NEW x \in 1..N
         PROVE  Exec(q[g[x]]) = <<b[x]>>
    <3>1. x \in R /\ x <= N
      BY <1>1, <2>2
    <3>2. g[x] = h[x]
      BY <2>7, <3>1
    <3>3. QED
      BY <1>3, <1>4, <3>2
  <2>11. ASSUME NEW x \in R, x > N
         PROVE  q[g[x]] = t[x - N]
    <3>1. x + 1 \in P /\ x + 1 > N /\ ~(x <= N) /\ t[x - N] = s[(x + 1) - N]
      <4>1. x + 1 \in P /\ t[x - N] = s[(x + 1) - N] /\ x \in Nat
        BY <2>4, <2>6, <2>11
      <4>2. x + 1 > N /\ ~(x <= N)
        BY <1>1, <2>11, <4>1
      <4>3. QED
        BY <4>1, <4>2
    <3>2. QED
      BY <1>3, <2>7, <3>1
  <2>12. ASSUME NEW k \in 1..K, Exec(q[k]) # <<>>
         PROVE  \E x \in R : g[x] = k
    <3>1. PICK x \in P : h[x] = k
      BY <1>3, <2>12
    <3>2. CASE x \in 1..N
      <4>1. x \in R /\ x <= N
        BY <1>1, <2>2, <3>2
      <4>2. QED
        BY <2>7, <3>1, <4>1
    <3>3. CASE x > N
      <4>1. x - 1 \in R /\ ~(x - 1 <= N) /\ (x - 1) + 1 = x
        BY <1>1, <2>5, <2>6, <3>3
      <4>2. QED
        BY <2>7, <3>1, <4>1
    <3>4. QED
      BY <1>1, <1>2, <3>2, <3>3
  <2>13. About(b, t, q, g)
    BY <1>4, <2>8, <2>9, <2>10, <2>11, <2>12 DEF About, R, N, K
  <2>14. QED
    BY <2>13 DEF t
<1>5. CASE Exec(s[1]) # <<>> /\ Len(b) = N + 1 /\ Exec(s[1]) = <<b[N + 1]>>
             /\ \A i \in 1..N : b[i] = a[i]
  <2>1. R = 1..N + 1 \cup {x \in (N + 1) + 1..(N + 1) + (S - 1 + C) : Exec(t[x - (N + 1)]) # <<>>}
    BY <1>1, <1>5 DEF Places
  <2> HIDE DEF R, t
  <2>2. (N + 1) - N = 1 /\ N + 1 \in N + 1..N + S
    BY <1>1
  <2>3. N + 1 \in P
    BY <1>2, <1>5, <2>2
  <2>4. ASSUME NEW x \in (N + 1) + 1..(N + 1) + (S - 1 + C)
        PROVE  /\ x \in N + 2..N + S => x - (N + 1) \in 1..S - 1 /\ (x - (N + 1)) + 1 = x - N
               /\ x \notin N + 2..N + S => x - (N + 1) \in S..S - 1 + C
               /\ x > N + 1
    BY <1>1
  <2>5. ASSUME NEW x \in N + 2..N + S
        PROVE  /\ x \in (N + 1) + 1..(N + 1) + (S - 1 + C) /\ x \in N + 1..N + S
               /\ t[x - (N + 1)] = s[x - N]
    <3>1. x \in (N + 1) + 1..(N + 1) + (S - 1 + C) /\ x \in N + 1..N + S
      BY <1>1
    <3>2. QED
      BY <1>1, <2>4, <3>1
  <2>6. \A x \in R : x \in P /\ (x > N + 1 => t[x - (N + 1)] = s[x - N])
    <3>1. TAKE x \in R
    <3>2. CASE x \in 1..N + 1
      BY <1>1, <1>2, <2>3, <3>2
    <3>3. CASE x \notin 1..N + 1
      <4>1. x \in (N + 1) + 1..(N + 1) + (S - 1 + C) /\ Exec(t[x - (N + 1)]) # <<>>
        BY <2>1, <3>3
      <4>2. x \in N + 2..N + S
        BY <1>1, <2>4, <4>1
      <4>3. QED
        BY <1>2, <2>5, <4>1, <4>2
    <3>4. QED
      BY <3>2, <3>3
  <2>7. \A x \in P : x \in R
    <3>1. TAKE x \in P
    <3>2. x \in 1..N + 1 \/ (x \in N + 2..N + S /\ Exec(s[x - N]) # <<>>)
      <4>1. N + 1..N + S \subseteq {N + 1} \cup N + 2..N + S /\ N + 1 \in 1..N + 1
            /\ 1..N \subseteq 1..N + 1
        BY <1>1
      <4>2. QED
        BY <1>2, <4>1
    <3>3. QED
      BY <2>1, <2>5, <3>2
  <2>8. R = P
    BY <2>6, <2>7
  <2>9. ASSUME NEW x \in 1..N + 1
        PROVE  Exec(q[h[x]]) = <<b[x]>>
    <3>1. CASE x \in 1..N
      BY <1>3, <1>5, <3>1
    <3>2. CASE x = N + 1
      <4>1. q[h[N + 1]] = s[1]
        <5>1. N + 1 > N
          BY <1>1
        <5>2. q[h[N + 1]] = s[(N + 1) - N]
          BY <1>3, <2>3, <5>1
        <5>3. QED
          BY <2>2, <5>2
      <4>2. QED
        BY <1>5, <3>2, <4>1
    <3>3. QED
      BY <1>1, <3>1, <3>2
  <2>10. ASSUME NEW x \in R, x > N + 1
         PROVE  q[h[x]] = t[x - (N + 1)]
    <3>1. x \in P /\ x > N
      <4>1. x \in P /\ x \in Nat
        BY <1>1, <1>2, <2>8
      <4>2. QED
        BY <1>1, <2>10, <4>1
    <3>2. QED
      BY <1>3, <2>6, <2>10, <3>1
  <2>11. About(b, t, q, h)
    BY <1>3, <1>5, <2>8, <2>9, <2>10 DEF About, R, K
  <2>12. QED
    BY <2>11 DEF t
<1>6. QED
  BY <1>4, <1>5 DEF N

\* Every answer and every event that will be answered belongs to a question.
ChatInv ==
  /\ heard \in Seq(Events) /\ questions \in Seq(Events) /\ answers \in Seq(AnswersGiven)
  /\ \E h : About(answers, heard, questions, h)

\* What is said to the bot becomes a question.
LEMMA TellKept ==
  ASSUME ChatInv, NEW c \in Channels, NEW u \in Senders, NEW m \in Messages, Tell(c, u, m)
  PROVE  ChatInv'
<1> DEFINE e == [channel |-> c, sender |-> u, message |-> m]
<1>1. e \in Events
  BY DEF Events
<1>2. heard' = Append(heard, e) /\ questions' = Append(questions, e) /\ answers' = answers
  BY DEF Tell
<1> HIDE DEF e
<1>3. /\ heard \in Seq(Events) /\ questions \in Seq(Events) /\ answers \in Seq(AnswersGiven)
      /\ Len(answers) \in Nat
  BY LenProperties DEF ChatInv
<1>4. PICK h : About(answers, heard, questions, h)
  BY DEF ChatInv
<1>5. \E g : About(answers, Append(heard, e), Append(questions, e), g)
  BY <1>1, <1>3, <1>4, TellAbout
<1>6. Append(heard, e) \in Seq(Events) /\ Append(questions, e) \in Seq(Events)
  BY <1>1, <1>3, AppendProperties
<1>7. QED
  BY <1>2, <1>3, <1>5, <1>6 DEF ChatInv

\* What the bot hears is answered, or is nothing to answer.
LEMMA HearKept ==
  ASSUME ChatInv, Hear
  PROVE  ChatInv'
<1> DEFINE e == heard[1]
           x == Exec(e)
           c == Echo(x)
           b == answers \o x
           N == Len(answers)
<1>1. /\ heard \in Seq(Events) /\ questions \in Seq(Events) /\ answers \in Seq(AnswersGiven)
      /\ N \in Nat /\ Len(questions) \in Nat
  BY LenProperties DEF ChatInv
<1>2. /\ heard # <<>> /\ answers' = b /\ heard' = Tail(heard) \o c /\ questions' = questions
      /\ e \in Events
  <2>1. heard # <<>> /\ Head(heard) = e /\ e \in Events
    <3>1. heard # <<>>
      BY DEF Hear
    <3>2. Head(heard) = e
      BY <1>1, <3>1, HeadTailProperties
    <3>3. e \in Events
      BY <1>1, <3>1, HeadTailProperties
    <3>4. QED
      BY <3>1, <3>2, <3>3
  <2>2. QED
    BY <2>1 DEF Hear
<1>3. PICK h : About(answers, heard, questions, h)
  BY DEF ChatInv
<1> HIDE DEF e, c, b
<1>4. /\ x \in Seq(AnswersGiven)
      /\ \/ x = <<>> /\ Len(x) = 0
         \/ x # <<>> /\ Len(x) = 1 /\ x = <<x[1]>>
  <2>1. OneAnswer(e)
    BY ExecFacts
  <2>2. CASE x = <<>>
    BY <2>2
  <2>3. CASE \E i \in 1..3 : x = <<AnswerOf(i, e)>> /\ e.channel \in {"room", "user"}
    <3>1. PICK i \in 1..3 : x = <<AnswerOf(i, e)>> /\ e.channel \in {"room", "user"}
      BY <2>3
    <3>2. AnswerOf(i, e) \in AnswersGiven
      BY <1>2, <3>1 DEF AnswersGiven
    <3> HIDE DEF x
    <3>3. QED
      BY <3>1, <3>2
  <2>4. QED
    BY <2>1, <2>2, <2>3 DEF OneAnswer
<1>5. /\ c \in Seq(Events) /\ (x = <<>> => c = <<>>)
      /\ \A i \in 1..Len(c) : Exec(c[i]) = <<>>
  <2>1. Len(x) \in Nat /\ DOMAIN x = 1..Len(x)
    BY <1>4, LenProperties
  <2>2. QED
    BY <2>1, EchoFacts DEF c
<1>6. b \in Seq(AnswersGiven) /\ Tail(heard) \o c \in Seq(Events)
  <2>1. Tail(heard) \in Seq(Events)
    BY <1>1, <1>2, HeadTailProperties
  <2>2. QED
    BY <1>1, <1>4, <1>5, <2>1, ConcatProperties DEF b
<1>7. \/ Exec(heard[1]) = <<>> /\ b = answers /\ c = <<>>
      \/ Exec(heard[1]) # <<>> /\ Len(b) = N + 1 /\ Exec(heard[1]) = <<b[N + 1]>>
           /\ \A i \in 1..N : b[i] = answers[i]
  <2>1. CASE x = <<>>
    <3>1. b = answers
      BY <1>1, <2>1, ConcatEmptySeq DEF b
    <3>2. QED
      BY <1>5, <2>1, <3>1 DEF e
  <2>2. CASE x # <<>> /\ Len(x) = 1 /\ x = <<x[1]>>
    <3> HIDE DEF x
    <3>1. Len(b) = N + 1 /\ \A i \in 1..N + 1 : b[i] = IF i <= N THEN answers[i] ELSE x[i - N]
      BY <1>1, <1>4, <2>2, ConcatProperties, ZenonT(30) DEF b
    <3>2. b[N + 1] = x[1] /\ \A i \in 1..N : b[i] = answers[i]
      <4>1. /\ N + 1 \in 1..N + 1 /\ ~(N + 1 <= N) /\ (N + 1) - N = 1
            /\ \A i \in 1..N : i \in 1..N + 1 /\ i <= N
        BY <1>1
      <4> HIDE DEF N
      <4>2. QED
        BY <3>1, <4>1
    <3>3. QED
      BY <2>2, <3>1, <3>2 DEF x, e
  <2>3. QED
    BY <1>4, <2>1, <2>2
<1>8. \E g : About(b, Tail(heard) \o c, questions, g)
  BY <1>1, <1>2, <1>3, <1>5, <1>7, HearAbout
<1>9. QED
  BY <1>1, <1>2, <1>6, <1>8 DEF ChatInv

\* The answers and their questions, in every behaviour.
LEMMA ChatInvariant == ChatSpec => []ChatInv
<1>1. ChatInit => ChatInv
  <2>1. SUFFICES ASSUME ChatInit PROVE ChatInv
    OBVIOUS
  <2>2. heard = <<>> /\ answers = <<>> /\ questions = <<>>
    BY <2>1 DEF ChatInit
  <2>3. Places(answers, heard) = {}
    BY <2>2 DEF Places
  <2>4. About(answers, heard, questions, [x \in {} |-> 0])
    BY <2>2, <2>3 DEF About
  <2>5. QED
    BY <2>2, <2>4 DEF ChatInv
<1>2. ChatInv /\ [ChatNext]_chatVars => ChatInv'
  <2>1. SUFFICES ASSUME ChatInv, [ChatNext]_chatVars  PROVE ChatInv'
    OBVIOUS
  <2>2. CASE Hear
    BY <2>1, <2>2, HearKept
  <2>3. ASSUME NEW c \in Channels, NEW u \in Senders, NEW m \in Messages, Tell(c, u, m)
        PROVE  ChatInv'
    BY <2>1, <2>3, TellKept
  <2>4. CASE UNCHANGED chatVars
    BY <2>1, <2>4 DEF chatVars, ChatInv
  <2>5. QED
    BY <2>1, <2>2, <2>3, <2>4 DEF ChatNext
<1>3. QED
  BY <1>1, <1>2, PTL DEF ChatSpec

\* Whatever is said, in whatever order it is heard, the answers are to different questions
\* in the order of these, and none that was asked in private is left without one.
THEOREM AnswersToQuestionsHolds == ChatSpec => []AnswersToQuestions
<1>1. ASSUME ChatInv
      PROVE  AnswersToQuestions
  <2> DEFINE N == Len(answers)
             K == Len(questions)
  <2>1. /\ heard \in Seq(Events) /\ questions \in Seq(Events) /\ N \in Nat /\ K \in Nat
        /\ DOMAIN answers = 1..N /\ DOMAIN questions = 1..K
    BY <1>1, LenProperties DEF ChatInv
  <2>2. PICK h : About(answers, heard, questions, h)
    BY <1>1 DEF ChatInv
  <2> DEFINE P == Places(answers, heard)
  <2>3. /\ h \in [P -> 1..K]
        /\ \A x, y \in P : x < y => h[x] < h[y]
        /\ \A x \in 1..N : Exec(questions[h[x]]) = <<answers[x]>>
        /\ \A k \in 1..K : Exec(questions[k]) # <<>> => \E x \in P : h[x] = k
    BY <2>2 DEF About
  <2>4. 1..N \subseteq P /\ (heard = <<>> => P \subseteq 1..N)
    BY <2>1 DEF Places
  <2> HIDE DEF N, K, P
  <2>5. ASSUME NEW i \in 1..N
        PROVE  /\ AnswerTo(answers[i], questions[h[i]])
               /\ answers[i].channel = "room" => answers[i].command = "help"
    <3> DEFINE q == questions[h[i]]
    <3>1. Exec(q) = <<answers[i]>>
      BY <2>3
    <3> HIDE DEF q
    <3>2. OneAnswer(q) /\ <<answers[i]>> # <<>>
      BY ExecFacts
    <3>3. PICK j \in 1..3 : /\ Exec(q) = <<AnswerOf(j, q)>> /\ AnswerTo(AnswerOf(j, q), q)
                            /\ q.channel = "room" => AnswerOf(j, q).command = "help"
      BY <3>1, <3>2 DEF OneAnswer
    <3>4. answers[i] = AnswerOf(j, q)
      BY <3>1, <3>3
    <3>5. AnswerOf(j, q).channel = q.channel
      BY DEF AnswerOf
    <3>6. QED
      BY <3>3, <3>4, <3>5 DEF q
  <2> DEFINE about == [i \in 1..N |-> h[i]]
  <2>6. about \in [1..N -> 1..K] /\ \A i \in 1..N : about[i] = h[i]
    BY <2>3, <2>4
  <2> HIDE DEF about
  <2>7. \A i, j \in 1..N : i < j => about[i] < about[j]
    BY <2>3, <2>4, <2>6
  <2>8. \A i \in 1..N : AnswerTo(answers[i], questions[about[i]])
    BY <2>5, <2>6
  <2>9. ASSUME heard = <<>>, NEW k \in 1..K, Private(questions[k])
        PROVE  \E i \in 1..N : about[i] = k
    <3>1. questions[k] \in Events
      BY <2>1, <2>9, ElementOfSeq DEF K
    <3>2. questions[k].message.text \in DOMAIN Begins
      <4>1. questions[k].message \in Messages \cup {HelpMessage}
        BY <3>1 DEF Events
      <4>2. HelpMessage.text = "help"
        BY DEF HelpMessage
      <4>3. QED
        BY <4>1, <4>2, ChatAssumption
    <3>3. Exec(questions[k]) # <<>>
      BY <2>9, <3>2, ExecFacts
    <3>4. QED
      BY <2>3, <2>4, <2>6, <2>9, <3>3
  <2>10. \A i \in DOMAIN answers : answers[i].channel = "room" => answers[i].command = "help"
    BY <2>1, <2>5
  <2>11. about \in [DOMAIN answers -> DOMAIN questions]
    BY <2>1, <2>6
  <2>12. /\ \A i, j \in DOMAIN answers : i < j => about[i] < about[j]
         /\ \A i \in DOMAIN answers : AnswerTo(answers[i], questions[about[i]])
    BY <2>1, <2>7, <2>8
  <2>13. heard = <<>> => \A k \in DOMAIN questions :
           Private(questions[k]) => \E i \in DOMAIN answers : about[i] = k
    BY <2>1, <2>9
  <2>14. QED
    BY <2>10, <2>11, <2>12, <2>13 DEF AnswersToQuestions
<1>2. QED
  BY <1>1, ChatInvariant, PTL

-----------------------------------------------------------------------------
\* Types, and the composition.

RequestLimits ==
  /\ path \in Paths \cup {"none"}
  /\ deckHashes \in 0..entries /\ entries \in 0..MaxEntries

\* The path is one there is, and no more rows are begun than names and hashes were sent.
LEMMA RequestTypes == RequestSpec => []RequestTypeOK
<1>1. RequestInit => RequestLimits
  BY RequestAssumption DEF RequestInit, RequestLimits
<1>2. RequestLimits /\ BodyTypes /\ [RequestNext]_requestVars => RequestLimits'
  <2>1. SUFFICES ASSUME RequestLimits, BodyTypes, [RequestNext]_requestVars
                 PROVE  RequestLimits'
    OBVIOUS
  <2>2. ASSUME NEW p \in Paths, Serve(p)  PROVE RequestLimits'
    BY <2>2, RequestAssumption DEF Serve, RequestLimits
  <2>3. CASE AnswerPage \/ RefuseLong \/ Finish
    <3>1. UNCHANGED <<deckHashes, entries>>
      BY <2>3 DEF AnswerPage, RefuseLong, Finish, body, said
    <3>2. path' = "none"
      <4>1. AnswerPage \/ RefuseLong => path' = "none"
        BY DEF AnswerPage, RefuseLong, Answer
      <4>2. Obey => path' = "none"
        <5>1. Create => path' = "none"
          BY DEF Create, Answer
        <5>2. Kick \/ DisableVerification \/ UpdatePlayerInfo \/ EndGame => path' = "none"
          BY DEF Kick, DisableVerification, UpdatePlayerInfo, EndGame, Answer
        <5>3. QED
          BY <5>1, <5>2 DEF Obey
      <4>3. Finish => path' = "none"
        BY <4>2 DEF Finish, Undefined, Answer
      <4>4. QED
        BY <2>3, <4>1, <4>3
    <3>3. QED
      BY <2>1, <3>1, <3>2 DEF RequestLimits
  <2>4. ASSUME NEW l \in Lines, ReadLine(l)  PROVE RequestLimits'
    <3>1. PICK b : /\ \/ b = "playername" /\ ReadName(l)
                      \/ b = "deckhash" /\ ReadHash(l)
                      \/ b \notin {"playername", "deckhash"} /\ ReadField(b, l)
                   /\ b = Branch(path, l) /\ Say(b, l) /\ UNCHANGED path
      BY <2>4, ReadLineFacts
    <3>2. Entry(b) => entries < MaxEntries
      BY <2>4, <3>1 DEF ReadLine
    <3>3. /\ entries' = IF Entry(b) THEN entries + 1 ELSE entries
          /\ deckHashes' = deckHashes \/ (Entry(b) /\ deckHashes' = deckHashes + 1)
      BY <3>1 DEF ReadName, ReadHash, ReadField, Say, Entry, CountHash
    <3>4. QED
      BY <2>1, <3>1, <3>2, <3>3, RequestAssumption DEF RequestLimits
  <2>5. CASE (\E l \in Lines : SkipLine(l)) \/ UNCHANGED requestVars
    <3>1. UNCHANGED <<path, deckHashes, entries>>
      BY <2>5 DEF SkipLine, requestVars, body, said
    <3>2. QED
      BY <2>1, <3>1 DEF RequestLimits
  <2>6. QED
    BY <2>1, <2>2, <2>3, <2>4, <2>5 DEF RequestNext
<1>3. TokenInv /\ BodyTypes /\ RequestLimits => RequestTypeOK
  <2>1. SUFFICES ASSUME TokenInv, BodyTypes, RequestLimits
                 PROVE  RequestTypeOK
    OBVIOUS
  <2>2. \A i \in DOMAIN deckCount : deckCount[i] \in 0..(MaxDecks - 1)
    BY <2>1, ElementOfSeq, LenProperties DEF BodyTypes
  <2>3. QED
    BY <2>1, <2>2 DEF TokenInv, BodyTypes, RequestLimits, RequestTypeOK
<1>4. ListedInv => BodyTypes
  BY DEF ListedInv
<1>5. QED
  BY <1>1, <1>2, <1>3, <1>4, TokenInvariant, ListedInvariant, PTL DEF RequestSpec

\* What was read, what is still to be read, and the strings of the configuration are values.
ConfigValues ==
  /\ ConfigTypeOK
  /\ rest = NoLine \/ rest.value \in DOMAIN Atoi
  /\ left \in Seq(ToSet(Made))

\* The lines of the file that is made have values.
LEMMA MadeFacts ==
  /\ Made \in Seq(ToSet(Made)) /\ \A m \in ToSet(Made) : m[2] \in DOMAIN Atoi
<1> DEFINE M == Made
<1>1. M \in Seq(ToSet(M))
  <2>1. M = [i \in 1..12 |-> M[i]]
    BY DEF Made
  <2>2. DOMAIN M = 1..12 /\ Len(M) = 12
    BY DEF Made
  <2> HIDE DEF M
  <2>3. \A i \in 1..12 : M[i] \in ToSet(M)
    BY <2>2 DEF ToSet
  <2>4. QED
    BY <2>1, <2>3
<1>2. ASSUME NEW m \in ToSet(Made)  PROVE m[2] \in DOMAIN Atoi
  <2>1. PICK i \in DOMAIN Made : m = Made[i]
    BY DEF ToSet
  <2>2. Made[i][2] \in DOMAIN Atoi
    BY ValuesAssumption
  <2>3. QED
    BY <2>1, <2>2
<1>3. QED
  BY <1>1, <1>2

\* A property is read: the configuration has values still.
LEMMA PropertyTyped ==
  ASSUME ConfigTypeOK, NEW p, NEW v \in DOMAIN Atoi, ReadProperty(p, v)
  PROVE  /\ DOMAIN config' = Strings
         /\ \A q \in Strings : config'[q] = Unset \/ config'[q] \in DOMAIN Atoi
         /\ rate' \in {-1} \cup {Atoi[w] : w \in DOMAIN Atoi}
<1>1. /\ config' = IF p \in Strings THEN [config EXCEPT ![p] = NewValue(p, v)] ELSE config
      /\ rate' = IF p = "ratelimit" THEN NewRate(v) ELSE rate
  BY DEF ReadProperty
<1>2. NewValue(p, v) \in DOMAIN Atoi
  BY ValuesAssumption DEF NewValue
<1>3. NewRate(v) \in {-1} \cup {Atoi[w] : w \in DOMAIN Atoi}
  BY DEF NewRate, ConfigTypeOK
<1>4. QED
  BY <1>1, <1>2, <1>3 DEF ConfigTypeOK

\* The variables of ConfigReader have the values it names.
LEMMA ConfigTypes == ConfigSpec => []ConfigTypeOK
<1>1. ConfigInit => ConfigValues
  <2>1. SUFFICES ASSUME ConfigInit  PROVE ConfigValues
    OBVIOUS
  <2>2. ConfigTypeOK
    BY <2>1, ConfigAssumption DEF ConfigInit, ConfigTypeOK, EmptyConfig
  <2>3. rest = NoLine /\ left = <<>>
    BY <2>1 DEF ConfigInit
  <2>4. QED
    BY <2>2, <2>3 DEF ConfigValues
<1>2. ConfigValues /\ [ConfigNext]_configVars => ConfigValues'
  <2>1. SUFFICES ASSUME ConfigValues, [ConfigNext]_configVars  PROVE ConfigValues'
    OBVIOUS
  <2>2. CASE Boot
    <3>1. boot' \in 0..MaxBoots
      BY <2>1, <2>2, ConfigAssumption DEF Boot, ConfigValues, ConfigTypeOK
    <3>2. /\ phase' \in {"reading", "checking"} /\ rest' = NoLine
          /\ config' = EmptyConfig /\ rate' = -1
      BY <2>2 DEF Boot
    <3>3. left' = <<>> \/ left' = Made
      BY <2>2 DEF Boot
    <3>4. left' \in Seq(ToSet(Made))
      <4>1. <<>> \in Seq(ToSet(Made))
        OBVIOUS
      <4>2. QED
        BY <3>3, <4>1, MadeFacts
    <3>5. ConfigTypeOK'
      BY <3>1, <3>2 DEF ConfigTypeOK, EmptyConfig
    <3>6. QED
      BY <3>2, <3>4, <3>5 DEF ConfigValues
  <2>3. CASE ReadWritten
    <3>1. PICK p, v : /\ v \in DOMAIN Atoi /\ ReadProperty(p, v)
                      /\ rest' = NoLine \/ rest'.value \in DOMAIN Atoi
      <4>1. CASE rest # NoLine
        <5>1. rest' = NoLine /\ ReadProperty(rest.prop, rest.value)
          BY <2>3, <4>1 DEF ReadWritten
        <5>2. rest.value \in DOMAIN Atoi
          BY <2>1, <4>1 DEF ConfigValues
        <5>3. QED
          BY <5>1, <5>2
      <4>2. CASE rest = NoLine
        <5>1. PICK l \in FileLines : rest' = l.rest /\ ReadProperty(l.prop, l.value)
          BY <2>3, <4>2 DEF ReadWritten
        <5>2. l.value \in DOMAIN Atoi /\ (rest' = NoLine \/ rest'.value \in DOMAIN Atoi)
          BY <5>1, ConfigAssumption, ValuesAssumption
        <5>3. QED
          BY <5>1, <5>2
      <4>3. QED
        BY <4>1, <4>2
    <3>2. UNCHANGED <<boot, phase, left>>
      BY <2>3 DEF ReadWritten
    <3>3. ConfigTypeOK'
      BY <2>1, <3>1, <3>2, PropertyTyped DEF ConfigValues, ConfigTypeOK
    <3>4. QED
      BY <2>1, <3>1, <3>2, <3>3 DEF ConfigValues
  <2>4. CASE ReadMade
    <3>1. left # <<>> /\ left' = Tail(left) /\ ReadProperty(Head(left)[1], Head(left)[2])
          /\ UNCHANGED <<boot, phase, rest>>
      BY <2>4 DEF ReadMade
    <3>2. Head(left) \in ToSet(Made) /\ Tail(left) \in Seq(ToSet(Made))
      BY <2>1, <3>1, HeadTailProperties DEF ConfigValues
    <3>3. Head(left)[2] \in DOMAIN Atoi
      BY <3>2, MadeFacts
    <3>4. ConfigTypeOK'
      BY <2>1, <3>1, <3>3, PropertyTyped DEF ConfigValues, ConfigTypeOK
    <3>5. QED
      BY <2>1, <3>1, <3>2, <3>4 DEF ConfigValues
  <2>5. CASE EndOfFile \/ Check \/ Operator \/ UNCHANGED configVars
    <3>1. UNCHANGED <<boot, config, rate, left, rest>>
          /\ phase' \in {phase, "checking", "running", "off"}
      BY <2>5 DEF EndOfFile, Check, Operator, configVars
    <3>2. QED
      BY <2>1, <3>1 DEF ConfigValues, ConfigTypeOK
  <2>6. QED
    BY <2>1, <2>2, <2>3, <2>4, <2>5 DEF ConfigNext
<1>3. ConfigValues => ConfigTypeOK
  BY DEF ConfigValues
<1>4. QED
  BY <1>1, <1>2, <1>3, PTL DEF ConfigSpec

\* The variables of ChatCommands have the values it names.
LEMMA ChatTypes == ChatSpec => []ChatTypeOK
<1>1. ASSUME ChatInv
      PROVE  ChatTypeOK
  <2>1. ASSUME NEW i \in DOMAIN heard  PROVE heard[i].channel \in Channels
    <3>1. heard[i] \in Events
      BY <1>1, <2>1, ElementOfSeq, LenProperties DEF ChatInv
    <3>2. QED
      BY <3>1 DEF Events
  <2>2. ASSUME NEW i \in DOMAIN answers  PROVE answers[i].channel \in {"room", "user"}
    <3>1. answers[i] \in AnswersGiven
      BY <1>1, <2>2, ElementOfSeq, LenProperties DEF ChatInv
    <3>2. QED
      BY <3>1 DEF AnswersGiven, AnswerOf
  <2>3. QED
    BY <2>1, <2>2 DEF ChatTypeOK
<1>2. QED
  BY <1>1, ChatInvariant, PTL

\* What the types of the commands and of the files leave open.
FilesLimits ==
  /\ forgotten \subseteq announced
  /\ Len(asked) <= MaxCommands /\ onTheWay \subseteq Asks
  /\ raced \cup cut \subseteq FileNames /\ losses \in 0..MaxLosses

\* The file of a command is one of the files there may be.
LEMMA FileNamed ==
  ASSUME AskTypes, NEW n \in Asks
  PROVE  asked[n].replay \in announced /\ File(n) \in FileNames
<1>1. asked[n].replay \in announced /\ announced \subseteq Replays
  BY DEF AskTypes
<1>2. QED
  BY <1>1 DEF File, FileNames

\* No more commands are made than are counted, and the earlier ones stay.
LEMMA AskLimited ==
  ASSUME AskTypes, NEW c \in Seq(ReplayCommand), Len(c) = Len(asked),
         NEW list \in Seq(Replays), Ask(c, list)
  PROVE  Len(asked') <= MaxCommands /\ Asks \subseteq Asks'
<1>1. PICK N \in Nat : N = Len(asked) /\ Asks = 1..N
  BY AskFacts
<1>2. asked' = c \o Asking(list) /\ savers' = savers \o Idle(list) /\ N + Len(list) <= MaxCommands
  BY <1>1 DEF Ask, Asking, Idle
<1>3. asked' \in Seq(ReplayCommand) /\ Len(asked') = N + Len(list) /\ Len(list) \in Nat
  BY <1>1, <1>2, AskedMore
<1>4. Asks' = 1..(N + Len(list))
  BY <1>3, LenProperties DEF Asks
<1>5. QED
  BY <1>1, <1>2, <1>3, <1>4

\* A step that leaves the commands as many as they were.
LEMMA SameAsks ==
  ASSUME AskTypes, FilesLimits, asked' \in Seq(ReplayCommand), Len(asked') = Len(asked),
         announced' = announced, forgotten' \subseteq announced, onTheWay' \subseteq onTheWay,
         raced' \cup cut' \subseteq FileNames, losses' \in 0..MaxLosses
  PROVE  FilesLimits'
<1>1. Asks' = Asks
  BY AskFacts, LenProperties DEF Asks
<1>2. QED
  BY <1>1 DEF FilesLimits

\* A command is taken and its replay is asked for again.
LEMMA RetryLimited ==
  ASSUME AskTypes, FilesLimits, NEW n \in Asks, Ask(Taken(n), AskedAgain(n)),
         onTheWay' \subseteq onTheWay,
         UNCHANGED <<announced, losses, histories>>
  PROVE  FilesLimits'
<1>1. Taken(n) \in Seq(ReplayCommand) /\ Len(Taken(n)) = Len(asked)
  BY TakenFacts
<1>2. asked[n].replay \in Replays
  BY FileNamed DEF AskTypes
<1>3. AskedAgain(n) \in Seq(Replays)
  BY <1>2 DEF AskedAgain
<1>4. Len(asked') <= MaxCommands /\ Asks \subseteq Asks'
  BY <1>1, <1>3, AskLimited
<1>5. QED
  BY <1>4 DEF FilesLimits, histories

\* Every step keeps within the limits.
LEMMA LimitsKept == AskTypes /\ FilesLimits /\ [FilesNext]_filesVars => FilesLimits'
<1>1. SUFFICES ASSUME AskTypes, FilesLimits, [FilesNext]_filesVars
               PROVE  FilesLimits'
  OBVIOUS
<1>2. asked \in Seq(ReplayCommand)
  BY <1>1 DEF AskTypes
<1>3. ASSUME NEW f, ReplayReady(f)  PROVE FilesLimits'
  <2> DEFINE new == {r \in Replays \ announced : FileOf[r] = f}
  <2>1. /\ announced' = announced \cup new /\ Ask(asked, SetToSeq(new))
        /\ UNCHANGED <<onTheWay, losses, histories>>
    BY <1>3 DEF ReplayReady
  <2>2. IsFiniteSet(new) /\ new \subseteq Replays
    BY ReplaysAssumption, FS_Subset
  <2> HIDE DEF new
  <2>3. SetToSeq(new) \in Seq(new)
    BY <2>2, SetToSeqFacts
  <2>4. SetToSeq(new) \in Seq(Replays)
    BY <2>2, <2>3
  <2>5. Len(asked') <= MaxCommands /\ Asks \subseteq Asks'
    BY <1>1, <1>2, <2>1, <2>4, AskLimited
  <2>6. QED
    BY <1>1, <2>1, <2>5 DEF FilesLimits, histories
<1>4. ASSUME NEW n \in Asks, Send(n)  PROVE FilesLimits'
  <2>1. /\ onTheWay' = onTheWay \cup {n}
        /\ UNCHANGED <<announced, asked, losses, histories>>
    BY <1>4 DEF Send
  <2>2. QED
    BY <1>1, <2>1 DEF FilesLimits, histories, Asks
<1>5. ASSUME NEW n \in Asks, Response(n)  PROVE FilesLimits'
  <2>1. onTheWay' \subseteq onTheWay /\ UNCHANGED <<announced, losses, raced, cut, first>>
    BY <1>5 DEF Response
  <2>2. CASE Ask(Taken(n), AskedAgain(n)) /\ UNCHANGED forgotten
    <3>1. UNCHANGED histories
      BY <2>1, <2>2 DEF histories
    <3>2. QED
      BY <1>1, <2>1, <2>2, <3>1, RetryLimited
  <2>3. CASE /\ asked' \in {asked, Taken(n)}
             /\ forgotten' \in {forgotten, forgotten \cup {asked[n].replay}}
    <3>1. asked' \in Seq(ReplayCommand) /\ Len(asked') = Len(asked)
      <4>1. Taken(n) \in Seq(ReplayCommand) /\ Len(Taken(n)) = Len(asked)
        BY <1>1, TakenFacts
      <4>2. asked' = asked \/ asked' = Taken(n)
        BY <2>3
      <4>3. QED
        BY <1>2, <4>1, <4>2
    <3>2. forgotten' \subseteq announced
      BY <1>1, <2>3, FileNamed DEF FilesLimits
    <3>3. raced' \cup cut' \subseteq FileNames /\ losses' \in 0..MaxLosses
      BY <1>1, <2>1 DEF FilesLimits
    <3>4. QED
      BY <1>1, <2>1, <3>1, <3>2, <3>3, SameAsks
  <2>4. QED
    BY <1>5, <2>2, <2>3 DEF Response
<1>6. ASSUME NEW n \in Asks, TimeOut(n)  PROVE FilesLimits'
  <2>1. /\ Ask(Taken(n), AskedAgain(n)) /\ onTheWay' = onTheWay
        /\ UNCHANGED <<announced, losses, histories>>
    BY <1>6 DEF TimeOut
  <2>2. QED
    BY <1>1, <2>1, RetryLimited
<1>7. ASSUME NEW n \in Asks, CheckFile(n) \/ Open(n) \/ Fail(n) \/ Write(n) \/ Close(n)
      PROVE  FilesLimits'
  <2>1. /\ UNCHANGED <<announced, asked, onTheWay, losses, cut>>
        /\ raced' \in {raced, raced \cup {File(n)}}
        /\ forgotten' \in {forgotten, forgotten \cup {asked[n].replay}}
    BY <1>7 DEF CheckFile, Open, Fail, Write, Close, histories
  <2>2. raced' \cup cut' \subseteq FileNames /\ forgotten' \subseteq announced
    BY <1>1, <2>1, FileNamed DEF FilesLimits
  <2>3. losses' \in 0..MaxLosses
    BY <1>1, <2>1 DEF FilesLimits
  <2>4. QED
    BY <1>1, <1>2, <2>1, <2>2, <2>3, SameAsks
<1>8. CASE Disconnect \/ Crash
  <2>1. /\ asked' = [n \in Asks |-> [asked[n] EXCEPT !.pending = FALSE]]
        /\ announced' = announced /\ raced' = raced /\ onTheWay' = {}
        /\ losses < MaxLosses /\ losses' = losses + 1
    BY <1>8 DEF Disconnect, Crash
  <2>2. \A r \in forgotten' : r \in forgotten \/ \E n \in Asks : r = asked[n].replay
    BY <1>8 DEF Disconnect, Crash
  <2>3. \A f \in cut' : f \in cut \/ \E n \in Asks : f = File(n)
    BY <1>8 DEF Disconnect, Crash
  <2>4. asked' \in Seq(ReplayCommand) /\ Len(asked') = Len(asked)
    BY <1>1, <2>1, DroppedFacts
  <2>5. forgotten' \subseteq announced /\ raced' \cup cut' \subseteq FileNames
    BY <1>1, <2>1, <2>2, <2>3, FileNamed DEF FilesLimits
  <2>6. losses' \in 0..MaxLosses
    BY <1>1, <2>1, ReplaysAssumption DEF FilesLimits
  <2>7. QED
    BY <1>1, <2>1, <2>4, <2>5, <2>6, SameAsks
<1>9. CASE UNCHANGED filesVars
  BY <1>1, <1>9 DEF filesVars, histories, FilesLimits, Asks
<1>10. QED
  BY <1>1, <1>3, <1>4, <1>5, <1>6, <1>7, <1>8, <1>9 DEF FilesNext

\* The variables of ReplayFiles have the values it names.
LEMMA FilesTypes == FilesSpec => []FilesTypeOK
<1>1. FilesInit => FilesLimits
  <2>1. SUFFICES ASSUME FilesInit  PROVE FilesLimits
    OBVIOUS
  <2>2. /\ asked = <<>> /\ onTheWay = {} /\ losses = 0
        /\ forgotten = {} /\ raced = {} /\ cut = {}
    BY <2>1 DEF FilesInit
  <2>3. QED
    BY <2>2, ReplaysAssumption DEF FilesLimits
<1>2. AskTypes /\ FilesLimits /\ [FilesNext]_filesVars => FilesLimits'
  BY LimitsKept
<1>3. AskTypes /\ FileInv /\ FilesLimits => FilesTypeOK
  <2>1. SUFFICES ASSUME AskTypes, FileTypes, FilesLimits  PROVE FilesTypeOK
    BY DEF FileInv
  <2>2. \A n \in Asks : /\ asked[n] \in [replay : announced, pending : BOOLEAN]
                        /\ savers[n] \in [at : {"check", "open", "write", "end"}, pos : 0..Blocks]
    <3>1. ASSUME NEW n \in Asks
          PROVE  asked[n] \in ReplayCommand /\ asked[n].replay \in announced /\ savers[n] \in Saver
      BY <2>1, AskFacts
    <3>2. QED
      BY <3>1 DEF ReplayCommand, Saver
  <2>3. announced \subseteq Replays /\ DOMAIN savers = Asks
    BY <2>1, AskFacts DEF AskTypes
  <2>4. QED
    BY <2>1, <2>2, <2>3 DEF FileTypes, FilesLimits, FilesTypeOK
<1>4. QED
  BY <1>1, <1>2, <1>3, AskInvariant, FileInvariant, PTL DEF FilesSpec

NamesSpec == NamesInit /\ [][NamesNext]_namesVars

\* A description is of the characters there are, and no longer than it may be.
LEMMA NamesTypes == NamesSpec => []NamesTypeOK
<1>1. NamesInit => NamesTypeOK
  <2>1. SUFFICES ASSUME NamesInit  PROVE NamesTypeOK
    OBVIOUS
  <2>2. description = <<>> /\ page.kind = "none"
    BY <2>1 DEF NamesInit, NoPage
  <2>3. <<>> \in [1..0 -> Characters] /\ 0 \in 0..MaxDescription
    BY NamesAssumption
  <2>4. QED
    BY <2>2, <2>3 DEF NamesTypeOK, SeqOf
<1>2. NamesTypeOK /\ [NamesNext]_namesVars => NamesTypeOK'
  <2>1. SUFFICES ASSUME NamesTypeOK, [NamesNext]_namesVars  PROVE NamesTypeOK'
    OBVIOUS
  <2>2. ASSUME NEW c \in Characters, Type(c)  PROVE NamesTypeOK'
    <3>1. PICK m \in 0..MaxDescription : description \in [1..m -> Characters]
      BY <2>1 DEF NamesTypeOK, SeqOf
    <3>2. m \in Nat /\ description \in Seq(Characters) /\ Len(description) = m
      BY <3>1, NamesAssumption
    <3>3. m < MaxDescription /\ description' = Append(description, c) /\ page' = NoPage
      BY <2>2, <3>2 DEF Type
    <3>4. description' \in [1..(m + 1) -> Characters]
      <4>1. description' \in Seq(Characters) /\ Len(description') = m + 1
        BY <3>2, <3>3, AppendProperties
      <4>2. QED
        BY <4>1, LenProperties
    <3>5. m + 1 \in 0..MaxDescription
      BY <3>1, <3>3, NamesAssumption
    <3>6. QED
      BY <3>3, <3>4, <3>5 DEF NamesTypeOK, SeqOf, NoPage
  <2>3. ASSUME NEW id, NEW running, NEW escaped, Visit(id, running, escaped)
        PROVE  NamesTypeOK'
    <3>1. description' = description /\ page'.kind = "answer"
      BY <2>3 DEF Visit
    <3>2. QED
      BY <2>1, <3>1 DEF NamesTypeOK
  <2>4. CASE UNCHANGED namesVars
    BY <2>1, <2>4 DEF namesVars, NamesTypeOK
  <2>5. QED
    BY <2>1, <2>2, <2>3, <2>4 DEF NamesNext
<1>3. QED
  BY <1>1, <1>2, PTL DEF NamesSpec

\* A behaviour of Inputs is one of each part, in which the others rest.
LEMMA EachPart == Spec => RequestSpec /\ ConfigSpec /\ ChatSpec /\ NamesSpec /\ FilesSpec
<1>1. Init => RequestInit /\ ConfigInit /\ ChatInit /\ NamesInit /\ FilesInit
  BY DEF Init
<1>2. [Next]_vars => /\ [RequestNext]_requestVars /\ [ConfigNext]_configVars
                     /\ [ChatNext]_chatVars /\ [NamesNext]_namesVars /\ [FilesNext]_filesVars
  BY DEF Next, vars
<1>3. QED
  BY <1>1, <1>2, PTL DEF Spec, RequestSpec, ConfigSpec, ChatSpec, NamesSpec, FilesSpec

\* The variables of every part of Inputs have the values their modules name.
THEOREM InputsTypes == Spec => []InputsTypeOK
<1>1. RequestTypeOK /\ ConfigTypeOK /\ ChatTypeOK /\ NamesTypeOK /\ FilesTypeOK => InputsTypeOK
  BY DEF InputsTypeOK
<1>2. QED
  BY <1>1, EachPart, RequestTypes, ConfigTypes, ChatTypes, NamesTypes, FilesTypes, PTL

\* What the runs of Inputs check of each part holds of every behaviour of Inputs.
THEOREM InputsCorrect ==
  Spec => [](/\ OnlyAuthorised /\ SlotsAsListed /\ LastLineUsed /\ AnswersToQuestions
             /\ ReplaysAccounted /\ FileHoldsFirst)
<1>1. QED
  BY EachPart, OnlyAuthorisedHolds, SlotsAsListedHolds, LastLineUsedHolds,
     AnswersToQuestionsHolds, ReplaysAccountedHolds, FileHoldsFirstHolds, PTL
=============================================================================
