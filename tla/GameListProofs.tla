---------------------------- MODULE GameListProofs ----------------------------
(***************************************************************************)
(* Proofs about GameList, for every set of games, of messages on their way *)
(* and of connections that are lost: its programs and b->mutex; then which *)
(* structs are alive, and that the bot thread uses no other.               *)
(*                                                                         *)
(* A thread's program is data, so what is proved first is a property of    *)
(* programs that survives when they are joined and when a step is taken    *)
(* off: every unlock of b->mutex has its lock before it, and no step that  *)
(* puts others in its place comes between the two.                         *)
(***************************************************************************)
EXTENDS GameList, SequenceTheorems, TLAPS

-----------------------------------------------------------------------------
\* Steps and programs.

Mutexes == {"b", "gl"}

\* Steps that are no lookup, and steps.
Plain(W) == [do : {"lock", "unlock"}, on : Mutexes] \cup [do : W]
Steps(W) == Plain(W) \cup [do : {"find"}, found : Seq(Plain(W)), missing : Seq(Plain(W))]

\* What the steps of each program do.
BotWords == {"scan", "use", "start", "stop", "leave", "add", "remove", "read", "events"}
EndWords == {"freeAll", "reset", "init"}
ApiWords == IF "end" \in Requests THEN {"use", "remove"} ELSE {"use"}
Words == BotWords \cup EndWords

\* What the steps of a poll do, those of a timeout and those of a change of state.
PollWords == {"scan", "read"}
TimedOutWords == {"use", "remove"}
ChangeWords == {"use", "leave"}

\* Steps after which b->mutex is free: they unlock it, or others take their place.
Wide(s) == s.do \in {"find", "scan", "read", "start", "stop", "events"}
Shut(s) == s = Unlock("b") \/ Wide(s)

\* A program that begins and ends with b->mutex free, and takes it in sections.
Closed(p) ==
  /\ \A i \in 1..Len(p) : p[i] = Lock("b") =>
       \E j \in (i + 1)..Len(p) :
         p[j] = Unlock("b") /\ \A k \in (i + 1)..(j - 1) : p[k] # Lock("b")
  /\ \A i, j \in 1..Len(p) : i < j /\ Shut(p[i]) /\ p[j] = Unlock("b") =>
       \E k \in (i + 1)..(j - 1) : p[k] = Lock("b")

Opens(p) ==
  \A j \in 1..Len(p) : p[j] = Unlock("b") => \E k \in 1..(j - 1) : p[k] = Lock("b")

Free(p) == Closed(p) /\ Opens(p)

\* A program that begins with b->mutex held.
Held(p) ==
  /\ Closed(p)
  /\ \E j \in 1..Len(p) : p[j] = Unlock("b") /\ \A k \in 1..(j - 1) : p[k] # Lock("b")

\* What may take the place of a lookup is such a program too.
Branches(p) ==
  \A i \in 1..Len(p) : p[i].do = "find" => Free(p[i].found) /\ Free(p[i].missing)

\* Where a program's steps are.
LEMMA StepFacts ==
  ASSUME NEW W \in SUBSET Words, NEW s \in Steps(W)
  PROVE  /\ s.do \in W \cup {"lock", "unlock", "find"}
         /\ s.do = "lock" => s.on \in Mutexes /\ s = Lock(s.on)
         /\ s.do = "unlock" => s.on \in Mutexes /\ s = Unlock(s.on)
         /\ s.do = "find" => s.found \in Seq(Plain(W)) /\ s.missing \in Seq(Plain(W))
<1>1. CASE s \in [do : {"lock", "unlock"}, on : Mutexes]
  BY <1>1 DEF Lock, Unlock
<1>2. CASE s \in [do : W]
  BY <1>2 DEF Words, BotWords, EndWords
<1>3. CASE s \in [do : {"find"}, found : Seq(Plain(W)), missing : Seq(Plain(W))]
  BY <1>3
<1>4. QED
  BY <1>1, <1>2, <1>3 DEF Steps, Plain

\* Every plain step is a step.
LEMMA PlainSeq ==
  ASSUME NEW W, NEW p \in Seq(Plain(W))
  PROVE  p \in Seq(Steps(W))
BY DEF Steps

\* Where the steps of two programs after one another are.
LEMMA JoinFacts ==
  ASSUME NEW S, NEW p \in Seq(S), NEW q \in Seq(S)
  PROVE  /\ p \o q \in Seq(S) /\ Len(p) \in Nat /\ Len(q) \in Nat
         /\ Len(p \o q) = Len(p) + Len(q)
         /\ \A i \in 1..Len(p) : (p \o q)[i] = p[i]
         /\ \A i \in 1..Len(q) : (p \o q)[Len(p) + i] = q[i]
BY ConcatProperties

\* Two programs after one another are a program.
LEMMA FreeJoin ==
  ASSUME NEW S, NEW p \in Seq(S), NEW q \in Seq(S), Free(p), Free(q)
  PROVE  Free(p \o q)
<1> DEFINE r == p \o q
<1>1. /\ Len(p) \in Nat /\ Len(q) \in Nat /\ Len(r) = Len(p) + Len(q)
      /\ \A i \in 1..Len(p) : r[i] = p[i]
      /\ \A i \in 1..Len(q) : r[Len(p) + i] = q[i]
  BY JoinFacts
<1> HIDE DEF r
<1>2. \A i \in 1..Len(r) : i \in 1..Len(p) \/ (i - Len(p) \in 1..Len(q) /\ i > Len(p))
  BY <1>1
<1>3. ASSUME NEW i \in 1..Len(r), r[i] = Lock("b")
      PROVE  \E j \in (i + 1)..Len(r) :
               r[j] = Unlock("b") /\ \A k \in (i + 1)..(j - 1) : r[k] # Lock("b")
  <2>1. CASE i \in 1..Len(p)
    <3>1. PICK j \in (i + 1)..Len(p) :
            p[j] = Unlock("b") /\ \A k \in (i + 1)..(j - 1) : p[k] # Lock("b")
      BY <1>1, <1>3, <2>1 DEF Free, Closed
    <3>2. j \in (i + 1)..Len(r) /\ r[j] = Unlock("b")
      BY <1>1, <2>1, <3>1
    <3>3. ASSUME NEW k \in (i + 1)..(j - 1)  PROVE r[k] # Lock("b")
      <4>1. k \in 1..Len(p) /\ p[k] # Lock("b")
        BY <1>1, <2>1, <3>1
      <4>2. QED
        BY <1>1, <4>1
    <3>4. QED
      BY <3>2, <3>3
  <2>2. CASE i - Len(p) \in 1..Len(q) /\ i > Len(p)
    <3> DEFINE h == i - Len(p)
    <3>1. q[h] = Lock("b")
      BY <1>1, <1>3, <2>2
    <3>2. PICK j \in (h + 1)..Len(q) :
            q[j] = Unlock("b") /\ \A k \in (h + 1)..(j - 1) : q[k] # Lock("b")
      BY <2>2, <3>1 DEF Free, Closed
    <3>3. Len(p) + j \in (i + 1)..Len(r) /\ r[Len(p) + j] = Unlock("b")
      BY <1>1, <2>2, <3>2
    <3>4. ASSUME NEW k \in (i + 1)..(Len(p) + j - 1)  PROVE r[k] # Lock("b")
      <4>1. k - Len(p) \in (h + 1)..(j - 1) /\ k - Len(p) \in 1..Len(q)
        BY <1>1, <2>2, <3>2
      <4>2. r[Len(p) + (k - Len(p))] = q[k - Len(p)]
        BY <1>1, <4>1
      <4>3. Len(p) + (k - Len(p)) = k
        BY <1>1
      <4>4. QED
        BY <3>2, <4>1, <4>2, <4>3
    <3>5. QED
      BY <3>3, <3>4
  <2>3. QED
    BY <1>2, <2>1, <2>2
<1>4. ASSUME NEW j \in 1..Len(r), r[j] = Unlock("b"), NEW i \in 0..(j - 1),
             i = 0 \/ Shut(r[i])
      PROVE  \E k \in (i + 1)..(j - 1) : r[k] = Lock("b")
  <2>1. CASE j \in 1..Len(p)
    <3>1. p[j] = Unlock("b") /\ (i = 0 \/ (i \in 1..Len(p) /\ Shut(p[i])))
      BY <1>1, <1>4, <2>1
    <3>2. PICK k \in (i + 1)..(j - 1) : p[k] = Lock("b")
      BY <2>1, <3>1, <1>1 DEF Free, Closed, Opens
    <3>3. QED
      BY <1>1, <2>1, <3>2
  <2>2. CASE j - Len(p) \in 1..Len(q) /\ j > Len(p)
    <3> DEFINE h == j - Len(p)
    <3>1. q[h] = Unlock("b")
      BY <1>1, <1>4, <2>2
    <3>2. CASE i <= Len(p)
      <4>1. PICK k \in 1..(h - 1) : q[k] = Lock("b")
        BY <2>2, <3>1 DEF Free, Opens
      <4>2. Len(p) + k \in (i + 1)..(j - 1) /\ r[Len(p) + k] = Lock("b")
        BY <1>1, <2>2, <3>2, <4>1
      <4>3. QED
        BY <4>2
    <3>3. CASE i > Len(p)
      <4> DEFINE l == i - Len(p)
      <4>1. l \in 1..Len(q) /\ l < h /\ i = Len(p) + l
        BY <1>1, <2>2, <3>3
      <4>2. Shut(q[l])
        BY <1>1, <1>4, <3>3, <4>1
      <4>3. PICK k \in (l + 1)..(h - 1) : q[k] = Lock("b")
        BY <2>2, <3>1, <4>1, <4>2 DEF Free, Closed
      <4>4. Len(p) + k \in (i + 1)..(j - 1) /\ r[Len(p) + k] = Lock("b")
        BY <1>1, <2>2, <4>1, <4>3
      <4>5. QED
        BY <4>4
    <3>4. QED
      BY <1>1, <3>2, <3>3
  <2>3. QED
    BY <1>2, <2>1, <2>2
<1>5. Closed(r)
  BY <1>1, <1>3, <1>4 DEF Closed
<1>6. Opens(r)
  <2>1. ASSUME NEW j \in 1..Len(r), r[j] = Unlock("b")
        PROVE  \E k \in 1..(j - 1) : r[k] = Lock("b")
    <3>1. 0 \in 0..(j - 1) /\ 0 + 1 = 1
      BY <1>1
    <3>2. QED
      BY <1>4, <2>1, <3>1
  <2>2. QED
    BY <2>1 DEF Opens
<1>7. QED
  BY <1>5, <1>6 DEF Free, r

\* The branches of two programs after one another are closed when theirs are.
LEMMA BranchesJoin ==
  ASSUME NEW S, NEW p \in Seq(S), NEW q \in Seq(S), Branches(p), Branches(q)
  PROVE  Branches(p \o q)
<1>1. ASSUME NEW i \in 1..Len(p \o q)
      PROVE  \/ i \in 1..Len(p) /\ (p \o q)[i] = p[i]
             \/ i - Len(p) \in 1..Len(q) /\ (p \o q)[i] = q[i - Len(p)]
  BY JoinFacts
<1>2. QED
  BY <1>1 DEF Branches

-----------------------------------------------------------------------------
\* The operations of both threads are such programs.

PlainProgram(p, W) == p \in Seq(Plain(W)) /\ Free(p)
Program(p, W) == p \in Seq(Steps(W)) /\ Free(p) /\ Branches(p)

\* Steps outside every section of b->mutex are a program.
LEMMA PlainIsProgram ==
  ASSUME NEW W \in SUBSET Words, NEW p, PlainProgram(p, W)
  PROVE  Program(p, W)
<1>1. p \in Seq(Steps(W))
  BY PlainSeq DEF PlainProgram
<1>2. ASSUME NEW i \in 1..Len(p)  PROVE p[i].do # "find"
  <2>1. p[i] \in Plain(W)
    BY DEF PlainProgram
  <2>2. QED
    BY <2>1 DEF Plain, Words, BotWords, EndWords
<1>3. QED
  BY <1>1, <1>2 DEF PlainProgram, Program, Branches

\* Two such rows of steps after one another are one.
LEMMA PlainJoin ==
  ASSUME NEW W, NEW p, NEW q, PlainProgram(p, W), PlainProgram(q, W)
  PROVE  PlainProgram(p \o q, W)
BY FreeJoin, JoinFacts DEF PlainProgram

\* Two programs after one another are a program, over the steps of both.
LEMMA ProgramJoin ==
  ASSUME NEW W, NEW p, NEW q, Program(p, W), Program(q, W)
  PROVE  Program(p \o q, W)
BY FreeJoin, BranchesJoin, JoinFacts DEF Program

\* Steps that leave b->mutex alone, and its sections.
LEMMA Basics ==
  ASSUME NEW W
  PROVE  /\ PlainProgram(<<>>, W)
         /\ PlainProgram(Section("b"), W)
         /\ PlainProgram(<<Lock("gl")>>, W)
         /\ PlainProgram(<<Unlock("gl")>>, W)
         /\ \A w \in W : PlainProgram(<<Do(w)>>, W)
<1>1. Lock("b") # Unlock("b") /\ \A w : Do(w) # Unlock("b")
  BY DEF Lock, Unlock, Do
<1>2. /\ Lock("gl") # Unlock("b") /\ Lock("gl") # Lock("b")
      /\ Unlock("gl") # Unlock("b") /\ Unlock("gl") # Lock("b")
      /\ \A w : Do(w) # Lock("b")
  BY DEF Lock, Unlock, Do
<1>3. /\ {Lock("b"), Unlock("b"), Lock("gl"), Unlock("gl")} \subseteq Plain(W)
      /\ \A w \in W : Do(w) \in Plain(W)
  BY DEF Plain, Lock, Unlock, Do, Mutexes
<1>4. PlainProgram(<<>>, W)
  BY DEF PlainProgram, Free, Closed, Opens
<1>5. ASSUME NEW s \in Plain(W), s # Lock("b"), s # Unlock("b")
      PROVE  PlainProgram(<<s>>, W)
  <2> DEFINE p == <<s>>
  <2>1. p \in Seq(Plain(W)) /\ \A i \in 1..Len(p) : p[i] = s
    OBVIOUS
  <2> HIDE DEF p
  <2>2. Opens(p) /\ Closed(p)
    BY <1>5, <2>1 DEF Opens, Closed
  <2>3. QED
    BY <2>1, <2>2 DEF PlainProgram, Free, p
<1>6. PlainProgram(Section("b"), W)
  <2> DEFINE p == <<Lock("b"), Unlock("b")>>
  <2>1. p \in Seq(Plain(W)) /\ Len(p) = 2 /\ p[1] = Lock("b") /\ p[2] = Unlock("b")
    BY <1>3
  <2>2. Wide(p[1]) = FALSE /\ ~Wide(p[2])
    BY <2>1 DEF Wide, Lock, Unlock
  <2> HIDE DEF p
  <2>3. Opens(p)
    BY <1>1, <2>1 DEF Opens
  <2>4. Closed(p)
    BY <1>1, <2>1, <2>2 DEF Closed, Shut
  <2>5. QED
    BY <2>1, <2>3, <2>4 DEF PlainProgram, Free, Section, p
<1>7. PlainProgram(<<Lock("gl")>>, W) /\ PlainProgram(<<Unlock("gl")>>, W)
  <2>1. Lock("gl") \in Plain(W) /\ Unlock("gl") \in Plain(W)
    BY <1>3
  <2>2. QED
    BY <1>2, <1>5, <2>1, Zenon
<1>8. \A w \in W : PlainProgram(<<Do(w)>>, W)
  BY <1>1, <1>2, <1>3, <1>5, Zenon
<1>9. QED
  BY <1>4, <1>6, <1>7, <1>8, Zenon

\* Programs that are written out.
LEMMA Written ==
  ASSUME NEW W \in SUBSET Words
  PROVE  /\ "remove" \in W => PlainProgram(RemoveGame, W)
         /\ "add" \in W => PlainProgram(AddGame, W)
         /\ "use" \in W => PlainProgram(EditPlayers, W)
         /\ "use" \in W => PlainProgram(<<Unlock("gl"), Do("use")>>, W)
         /\ "use" \in W => PlainProgram(<<Do("use"), Unlock("gl")>>, W)
         /\ "events" \in W => PlainProgram(<<Unlock("gl"), Do("events")>>, W)
         /\ \A newSecond \in BOOLEAN : "scan" \in W => PlainProgram(PollGames(newSecond), W)
<1>1. ASSUME NEW a, NEW b, PlainProgram(<<a>>, W), PlainProgram(<<b>>, W)
      PROVE  PlainProgram(<<a, b>>, W)
  <2>1. <<a>> \o <<b>> = <<a, b>>
    <3>1. <<a>> \in Seq({a, b}) /\ <<b>> \in Seq({a, b}) /\ <<a, b>> \in Seq({a, b})
      OBVIOUS
    <3>2. <<a>> \o <<b>> \in Seq({a, b}) /\ Len(<<a>> \o <<b>>) = 2
      BY <3>1
    <3>3. \A i \in 1..2 : (<<a>> \o <<b>>)[i] = <<a, b>>[i]
      BY <3>1
    <3>4. QED
      BY <3>1, <3>2, <3>3, SeqEqual
  <2>2. QED
    BY <1>1, <2>1, PlainJoin
<1>2. ASSUME NEW a, NEW b, NEW c,
             PlainProgram(<<a>>, W), PlainProgram(<<b>>, W), PlainProgram(<<c>>, W)
      PROVE  PlainProgram(<<a, b, c>>, W)
  <2>1. <<a, b>> \o <<c>> = <<a, b, c>>
    <3>1. /\ <<a, b>> \in Seq({a, b, c}) /\ <<c>> \in Seq({a, b, c})
          /\ <<a, b, c>> \in Seq({a, b, c})
      OBVIOUS
    <3>2. <<a, b>> \o <<c>> \in Seq({a, b, c}) /\ Len(<<a, b>> \o <<c>>) = 3
      BY <3>1
    <3>3. \A i \in 1..3 : (<<a, b>> \o <<c>>)[i] = <<a, b, c>>[i]
      BY <3>1
    <3>4. QED
      BY <3>1, <3>2, <3>3, SeqEqual
  <2>2. QED
    BY <1>1, <1>2, <2>1, PlainJoin
<1>3. "remove" \in W => PlainProgram(RemoveGame, W)
  BY <1>2, Basics, Zenon DEF RemoveGame
<1>4. "add" \in W => PlainProgram(AddGame, W)
  BY <1>2, Basics, Zenon DEF AddGame
<1>5. "use" \in W => PlainProgram(EditPlayers, W)
  BY <1>2, Basics, Zenon DEF EditPlayers
<1>6. /\ "use" \in W => PlainProgram(<<Unlock("gl"), Do("use")>>, W)
      /\ "use" \in W => PlainProgram(<<Do("use"), Unlock("gl")>>, W)
      /\ "events" \in W => PlainProgram(<<Unlock("gl"), Do("events")>>, W)
  BY <1>1, Basics, Zenon
<1>7. ASSUME "scan" \in W
      PROVE  PlainProgram(<<Lock("b"), Lock("gl"), Unlock("b"), Do("scan"), Unlock("gl")>>, W)
  <2> DEFINE p == <<Lock("b"), Lock("gl"), Unlock("b"), Do("scan"), Unlock("gl")>>
  <2>1. {Lock("b"), Unlock("b"), Lock("gl"), Unlock("gl"), Do("scan")} \subseteq Plain(W)
    BY <1>7 DEF Plain, Lock, Unlock, Do, Mutexes
  <2>2. /\ p \in Seq(Plain(W)) /\ Len(p) = 5
        /\ p[1] = Lock("b") /\ p[2] = Lock("gl") /\ p[3] = Unlock("b") /\ p[4] = Do("scan")
        /\ p[5] = Unlock("gl")
    BY <2>1
  <2> HIDE DEF p
  <2>3. /\ \A i \in 1..Len(p) : p[i] = Lock("b") <=> i = 1
        /\ \A i \in 1..Len(p) : p[i] = Unlock("b") <=> i = 3
        /\ ~Shut(p[2])
    BY <2>2 DEF Lock, Unlock, Do, Shut, Wide
  <2>4. ~Shut(p[1])
    BY <2>2 DEF Lock, Unlock, Do, Shut, Wide
  <2>5. Opens(p) /\ Closed(p)
    BY <2>2, <2>3, <2>4 DEF Opens, Closed
  <2>6. QED
    BY <2>2, <2>5 DEF PlainProgram, Free, p
<1>8. \A newSecond \in BOOLEAN : "scan" \in W => PlainProgram(PollGames(newSecond), W)
  BY <1>7, Basics, Zenon DEF PollGames
<1>9. QED
  BY <1>3, <1>4, <1>5, <1>6, <1>8

\* A lookup of a program.
LEMMA FindProgram ==
  ASSUME NEW W \in SUBSET Words, NEW f, NEW m, PlainProgram(f, W), PlainProgram(m, W)
  PROVE  Program(<<Lock("gl"), Find(f, m)>>, W)
<1> DEFINE p == <<Lock("gl"), Find(f, m)>>
<1>1. Lock("gl") \in Steps(W) /\ Find(f, m) \in Steps(W)
  BY DEF Lock, Find, Steps, Plain, Mutexes, PlainProgram
<1>2. p \in Seq(Steps(W)) /\ Len(p) = 2 /\ p[1] = Lock("gl") /\ p[2] = Find(f, m)
  BY <1>1
<1> HIDE DEF p
<1>3. \A i \in 1..Len(p) : p[i] # Lock("b") /\ p[i] # Unlock("b")
  BY <1>2 DEF Lock, Unlock, Find
<1>4. Free(p)
  BY <1>3 DEF Free, Closed, Opens
<1>5. Branches(p)
  BY <1>2 DEF Branches, Lock, Find, PlainProgram
<1>6. QED
  BY <1>2, <1>4, <1>5 DEF Program, p

\* MG_EV_POLL opens and closes every section of b->mutex that it takes.
LEMMA PollProgram ==
  ASSUME NEW newSecond \in BOOLEAN, NEW pingDue \in BOOLEAN
  PROVE  PlainProgram(Poll(newSecond, pingDue), PollWords)
<1>1. PollWords \in SUBSET Words /\ "scan" \in PollWords /\ "read" \in PollWords
  BY DEF Words, BotWords, PollWords
<1>2. PlainProgram(PollGames(newSecond), PollWords)
  BY <1>1, Written
<1>3. PlainProgram(PollPing(pingDue), PollWords)
  BY Basics, PlainJoin DEF PollPing, PrepCmd
<1>4. PlainProgram(CheckRunning, PollWords) /\ PlainProgram(<<Do("read")>>, PollWords)
  BY <1>1, Basics DEF CheckRunning
<1>5. QED
  BY <1>2, <1>3, <1>4, Basics, PlainJoin DEF Poll

\* So does what the poll does about a game that timed out,
LEMMA TimedOutProgram == PlainProgram(TimedOut, TimedOutWords)
<1> DEFINE W == TimedOutWords
<1>1. W \in SUBSET Words /\ {"use", "remove"} \subseteq W
  BY DEF Words, BotWords, TimedOutWords
<1> HIDE DEF W
<1>2. PlainProgram(<<Unlock("gl"), Do("use")>>, W) /\ PlainProgram(RemoveGame, W)
  BY <1>1, Written
<1>3. PlainProgram(TimedOut, W)
  BY <1>2, Basics, PlainJoin DEF TimedOut, PrepCmd
<1>4. QED
  BY <1>3 DEF W

\* what a game that starts or stops calls for,
LEMMA ChangeProgram ==
  /\ PlainProgram(Section("b") \o OnGameEnd, ChangeWords)
  /\ PlainProgram(Section("b") \o <<Do("use")>>, ChangeWords)
<1>1. PlainProgram(<<Do("use")>>, ChangeWords) /\ PlainProgram(<<Do("leave")>>, ChangeWords)
  BY Basics DEF ChangeWords
<1>2. PlainProgram(OnGameEnd, ChangeWords)
  BY <1>1, Basics, PlainJoin DEF OnGameEnd, PrepCmd
<1>3. QED
  BY <1>1, <1>2, Basics, PlainJoin

Kinds == {"joined", "left", "events"}

\* every event of a game,
LEMMA EventProgram ==
  ASSUME NEW kind \in EventKinds
  PROVE  /\ PlainProgram(GameEvent(kind), BotWords)
         /\ PlainProgram(GameEvent(kind) \o <<Do("events")>>, BotWords)
<1>1. /\ BotWords \in SUBSET Words
      /\ {"use", "remove", "start", "stop", "events"} \subseteq BotWords
  BY DEF Words, BotWords
<1>2. PlainProgram(RemoveGame, BotWords) /\ PlainProgram(EditPlayers, BotWords)
  BY <1>1, Written
<1>3. /\ PlainProgram(<<Do("start")>>, BotWords) /\ PlainProgram(<<Do("stop")>>, BotWords)
      /\ PlainProgram(<<Do("events")>>, BotWords)
  BY <1>1, Basics
<1>4. PlainProgram(Section("b"), BotWords)
  BY Basics
<1>5. PlainProgram(<<Do("start")>> \o Section("b"), BotWords)
  BY <1>3, <1>4, PlainJoin
<1>6. PlainProgram(<<Do("stop")>> \o Section("b"), BotWords)
  BY <1>3, <1>4, PlainJoin
<1>7. PlainProgram(EditPlayers \o EditPlayers \o Section("b"), BotWords)
  BY <1>2, <1>4, PlainJoin
<1>8. PlainProgram(Section("b") \o EditPlayers, BotWords)
  BY <1>2, <1>4, PlainJoin
<1>9. PlainProgram(GameClosed, BotWords)
  BY <1>2, <1>4, PlainJoin DEF GameClosed
<1>10. PlainProgram(GameEvent(kind), BotWords)
  BY <1>5, <1>6, <1>7, <1>8, <1>9 DEF GameEvent, EventKinds
<1>11. QED
  BY <1>3, <1>10, PlainJoin

\* every message of the server,
LEMMA ReceiveProgram ==
  ASSUME NEW kind \in Kinds
  PROVE  Program(Receive(kind), BotWords)
<1>1. /\ BotWords \in SUBSET Words
      /\ {"remove", "add", "events"} \subseteq BotWords
  BY DEF Words, BotWords
<1>2. /\ PlainProgram(RemoveGame, BotWords) /\ PlainProgram(AddGame, BotWords)
      /\ PlainProgram(<<Unlock("gl"), Do("events")>>, BotWords)
  BY <1>1, Written
<1>3. PlainProgram(<<Unlock("gl")>>, BotWords) /\ PlainProgram(CheckRunning, BotWords)
  BY Basics DEF CheckRunning
<1>4. Program(AddGame, BotWords) /\ Program(CheckRunning, BotWords)
  BY <1>1, <1>2, <1>3, PlainIsProgram
<1>5. Program(<<Lock("gl"), Find(<<Unlock("gl")>> \o RemoveGame, <<Unlock("gl")>>)>>, BotWords)
  BY <1>1, <1>2, <1>3, PlainJoin, FindProgram
<1>6. Program(<<Lock("gl"), Find(<<Unlock("gl"), Do("events")>>, <<Unlock("gl")>>)>>, BotWords)
  BY <1>1, <1>2, <1>3, FindProgram
<1>7. CASE kind = "joined"
  <2>1. Receive(kind) = AddGame \o CheckRunning
    BY <1>7 DEF Receive
  <2>2. QED
    BY <1>4, <2>1, ProgramJoin
<1>8. CASE kind = "left"
  <2>1. Receive(kind) = <<Lock("gl"), Find(<<Unlock("gl")>> \o RemoveGame, <<Unlock("gl")>>)>>
                          \o CheckRunning
    BY <1>8 DEF Receive
  <2>2. QED
    BY <1>4, <1>5, <2>1, ProgramJoin
<1>9. CASE kind = "events"
  <2>1. Receive(kind) = <<Lock("gl"), Find(<<Unlock("gl"), Do("events")>>, <<Unlock("gl")>>)>>
                          \o CheckRunning
    BY <1>9 DEF Receive
  <2>2. QED
    BY <1>4, <1>6, <2>1, ProgramJoin
<1>10. QED
  BY <1>7, <1>8, <1>9 DEF Kinds

\* every request of the API,
LEMMA RequestProgram ==
  ASSUME NEW kind \in Requests
  PROVE  Program(Request(kind), ApiWords)
<1>1. /\ ApiWords \in SUBSET Words /\ "use" \in ApiWords
      /\ "end" \in Requests => "remove" \in ApiWords
  BY DEF Words, BotWords, ApiWords
<1>2. /\ PlainProgram(<<Do("use"), Unlock("gl")>>, ApiWords)
      /\ PlainProgram(<<Unlock("gl")>>, ApiWords) /\ PlainProgram(PrepCmd, ApiWords)
      /\ PlainProgram(<<>>, ApiWords)
      /\ "end" \in Requests => PlainProgram(RemoveGame, ApiWords)
  BY <1>1, Basics, Written DEF PrepCmd
<1>3. Program(LookAtGame, ApiWords)
  BY <1>1, <1>2, FindProgram DEF LookAtGame
<1>4. Program(KickPlayer, ApiWords)
  BY <1>1, <1>2, FindProgram, PlainJoin DEF KickPlayer
<1>5. CASE kind = "end"
  <2>1. PlainProgram(PrepCmd \o <<Unlock("gl")>> \o RemoveGame, ApiWords)
    BY <1>2, <1>5, PlainJoin
  <2>2. Program(EndGame, ApiWords)
    BY <1>1, <1>2, <2>1, FindProgram DEF EndGame
  <2>3. QED
    BY <1>5, <2>2 DEF Request
<1>6. CASE kind # "end"
  BY <1>3, <1>4, <1>6, GameListAssumption DEF Request
<1>7. QED
  BY <1>5, <1>6

\* and the end of botThread.
LEMMA EndThreadProgram == PlainProgram(EndThread, EndWords)
<1> DEFINE W == EndWords
           p == <<Lock("b"), Lock("gl"), Do("freeAll"), Unlock("gl"), Do("reset"), Unlock("b")>>
           q == <<Lock("b"), Do("init"), Unlock("b")>>
<1>1. /\ {Lock("b"), Unlock("b"), Lock("gl"), Unlock("gl")} \subseteq Plain(W)
      /\ {Do("freeAll"), Do("reset"), Do("init")} \subseteq Plain(W)
  BY DEF Plain, Lock, Unlock, Do, Mutexes, EndWords
<1>2. PlainProgram(p, W)
  <2>1. /\ p \in Seq(Plain(W)) /\ Len(p) = 6
        /\ p[1] = Lock("b") /\ p[2] = Lock("gl") /\ p[3] = Do("freeAll") /\ p[4] = Unlock("gl")
        /\ p[5] = Do("reset") /\ p[6] = Unlock("b")
    BY <1>1
  <2> HIDE DEF p
  <2>2. /\ \A i \in 1..Len(p) : p[i] = Lock("b") <=> i = 1
        /\ \A i \in 1..Len(p) : p[i] = Unlock("b") <=> i = 6
        /\ \A i \in 1..5 : ~Shut(p[i])
    BY <2>1 DEF Lock, Unlock, Do, Shut, Wide
  <2>3. Opens(p) /\ Closed(p)
    BY <2>1, <2>2 DEF Opens, Closed
  <2>4. QED
    BY <2>1, <2>3 DEF PlainProgram, Free
<1>3. PlainProgram(q, W)
  <2>1. /\ q \in Seq(Plain(W)) /\ Len(q) = 3
        /\ q[1] = Lock("b") /\ q[2] = Do("init") /\ q[3] = Unlock("b")
    BY <1>1
  <2> HIDE DEF q
  <2>2. /\ \A i \in 1..Len(q) : q[i] = Lock("b") <=> i = 1
        /\ \A i \in 1..Len(q) : q[i] = Unlock("b") <=> i = 3
        /\ \A i \in 1..2 : ~Shut(q[i])
    BY <2>1 DEF Lock, Unlock, Do, Shut, Wide
  <2>3. Opens(q) /\ Closed(q)
    BY <2>1, <2>2 DEF Opens, Closed
  <2>4. QED
    BY <2>1, <2>3 DEF PlainProgram, Free
<1>4. PlainProgram(p \o Section("b") \o q, W)
  <2> HIDE DEF p, q, W
  <2>1. QED
    BY <1>2, <1>3, Basics, PlainJoin
<1>5. QED
  BY <1>4 DEF EndThread

\* A program over some steps is one over more.
LEMMA MoreWords ==
  ASSUME NEW V, NEW W, V \subseteq W, NEW p, Program(p, V)
  PROVE  Program(p, W)
<1>1. Plain(V) \subseteq Plain(W)
  BY DEF Plain
<1>2. Seq(Plain(V)) \subseteq Seq(Plain(W))
  BY <1>1
<1>3. Steps(V) \subseteq Steps(W)
  BY <1>1, <1>2 DEF Steps
<1>4. Seq(Steps(V)) \subseteq Seq(Steps(W))
  BY <1>3
<1>5. QED
  BY <1>4 DEF Program

-----------------------------------------------------------------------------
\* b->mutex.

\* What is left of a program when its first step is taken.
LEMMA TailFacts ==
  ASSUME NEW S, NEW p \in Seq(S), p # <<>>
  PROVE  /\ Head(p) = p[1] /\ Head(p) \in S /\ Tail(p) \in Seq(S)
         /\ Len(p) \in Nat \ {0} /\ Len(Tail(p)) = Len(p) - 1
         /\ \A i \in 1..Len(Tail(p)) : Tail(p)[i] = p[i + 1]
BY HeadTailProperties

\* A program whose first step is outside every section stays a program.
LEMMA TailProgram ==
  ASSUME NEW S, NEW p \in Seq(S), p # <<>>
  PROVE  /\ Free(p) => Head(p) # Unlock("b")
         /\ Free(p) /\ Head(p) # Lock("b") => Free(Tail(p))
         /\ Free(p) /\ Head(p) = Lock("b") => Held(Tail(p))
         /\ Held(p) => ~Wide(Head(p)) /\ Head(p) # Lock("b")
         /\ Held(p) /\ Head(p) # Unlock("b") => Held(Tail(p))
         /\ Held(p) /\ Head(p) = Unlock("b") => Free(Tail(p))
         /\ Branches(p) => Branches(Tail(p))
<1> DEFINE q == Tail(p)
<1>1. /\ Head(p) = p[1] /\ Len(p) \in Nat \ {0} /\ Len(q) = Len(p) - 1
      /\ \A i \in 1..Len(q) : q[i] = p[i + 1]
  BY TailFacts
<1> HIDE DEF q
<1>2. \A i \in 2..Len(p) : i - 1 \in 1..Len(q) /\ q[i - 1] = p[i]
  BY <1>1
<1>3. Closed(p) => Closed(q)
  <2> SUFFICES ASSUME Closed(p)  PROVE Closed(q)
    OBVIOUS
  <2>1. ASSUME NEW i \in 1..Len(q), q[i] = Lock("b")
        PROVE  \E j \in (i + 1)..Len(q) :
                 q[j] = Unlock("b") /\ \A k \in (i + 1)..(j - 1) : q[k] # Lock("b")
    <3>1. i + 1 \in 1..Len(p) /\ p[i + 1] = Lock("b")
      BY <1>1, <2>1
    <3>2. PICK j \in (i + 2)..Len(p) :
            p[j] = Unlock("b") /\ \A k \in (i + 2)..(j - 1) : p[k] # Lock("b")
      BY <3>1 DEF Closed
    <3>3. j - 1 \in (i + 1)..Len(q) /\ q[j - 1] = Unlock("b")
      BY <1>1, <1>2, <3>2
    <3>4. ASSUME NEW k \in (i + 1)..((j - 1) - 1)  PROVE q[k] # Lock("b")
      <4>1. k + 1 \in (i + 2)..(j - 1) /\ k \in 1..Len(q)
        BY <1>1, <3>2
      <4>2. QED
        BY <1>1, <3>2, <4>1
    <3>5. QED
      BY <3>3, <3>4
  <2>2. ASSUME NEW i \in 1..Len(q), NEW j \in 1..Len(q), i < j, Shut(q[i]), q[j] = Unlock("b")
        PROVE  \E k \in (i + 1)..(j - 1) : q[k] = Lock("b")
    <3>1. /\ i + 1 \in 1..Len(p) /\ j + 1 \in 1..Len(p) /\ i + 1 < j + 1
          /\ Shut(p[i + 1]) /\ p[j + 1] = Unlock("b")
      BY <1>1, <2>2
    <3>2. PICK k \in (i + 2)..j : p[k] = Lock("b")
      BY <3>1 DEF Closed
    <3>3. k - 1 \in (i + 1)..(j - 1) /\ q[k - 1] = Lock("b")
      BY <1>1, <1>2, <3>2
    <3>4. QED
      BY <3>3
  <2>3. QED
    BY <2>1, <2>2 DEF Closed
<1>4. ASSUME Free(p)  PROVE Head(p) # Unlock("b")
  BY <1>1, <1>4 DEF Free, Opens
<1>5. ASSUME Free(p), Head(p) # Lock("b")  PROVE Free(q)
  <2>1. ASSUME NEW j \in 1..Len(q), q[j] = Unlock("b")
        PROVE  \E k \in 1..(j - 1) : q[k] = Lock("b")
    <3>1. j + 1 \in 1..Len(p) /\ p[j + 1] = Unlock("b")
      BY <1>1, <2>1
    <3>2. PICK k \in 1..j : p[k] = Lock("b")
      BY <1>5, <3>1 DEF Free, Opens
    <3>3. k - 1 \in 1..(j - 1) /\ q[k - 1] = Lock("b")
      BY <1>1, <1>2, <1>5, <3>1, <3>2
    <3>4. QED
      BY <3>3
  <2>2. QED
    BY <1>3, <1>5, <2>1 DEF Free, Opens
<1>6. ASSUME Free(p), Head(p) = Lock("b")  PROVE Held(q)
  <2>1. PICK j \in 2..Len(p) : p[j] = Unlock("b") /\ \A k \in 2..(j - 1) : p[k] # Lock("b")
    BY <1>1, <1>6 DEF Free, Closed
  <2>2. j - 1 \in 1..Len(q) /\ q[j - 1] = Unlock("b")
    BY <1>1, <1>2, <2>1
  <2>3. ASSUME NEW k \in 1..((j - 1) - 1)  PROVE q[k] # Lock("b")
    <3>1. k + 1 \in 2..(j - 1) /\ k \in 1..Len(q)
      BY <1>1, <2>1
    <3>2. QED
      BY <1>1, <2>1, <3>1
  <2>4. QED
    BY <1>3, <1>6, <2>2, <2>3 DEF Free, Held
<1>7. ASSUME Held(p)  PROVE ~Wide(Head(p)) /\ Head(p) # Lock("b")
  <2>1. PICK j \in 1..Len(p) : p[j] = Unlock("b") /\ \A k \in 1..(j - 1) : p[k] # Lock("b")
    BY <1>7 DEF Held
  <2>2. CASE j = 1
    BY <1>1, <2>1, <2>2 DEF Wide, Lock, Unlock
  <2>3. CASE j > 1
    <3>1. p[1] # Lock("b")
      BY <2>1, <2>3
    <3>2. ASSUME Wide(p[1])  PROVE FALSE
      <4>1. 1 \in 1..Len(p) /\ 1 < j /\ Shut(p[1])
        BY <1>1, <2>3, <3>2 DEF Shut
      <4>2. PICK k \in 2..(j - 1) : p[k] = Lock("b")
        BY <1>7, <2>1, <4>1 DEF Held, Closed
      <4>3. QED
        BY <2>1, <4>2
    <3>3. QED
      BY <1>1, <3>1, <3>2
  <2>4. QED
    BY <2>1, <2>2, <2>3
<1>8. ASSUME Held(p), Head(p) # Unlock("b")  PROVE Held(q)
  <2>1. PICK j \in 1..Len(p) : p[j] = Unlock("b") /\ \A k \in 1..(j - 1) : p[k] # Lock("b")
    BY <1>8 DEF Held
  <2>2. j - 1 \in 1..Len(q) /\ q[j - 1] = Unlock("b")
    BY <1>1, <1>2, <1>8, <2>1
  <2>3. ASSUME NEW k \in 1..((j - 1) - 1)  PROVE q[k] # Lock("b")
    <3>1. k + 1 \in 1..(j - 1) /\ k \in 1..Len(q)
      BY <1>1, <2>1
    <3>2. QED
      BY <1>1, <2>1, <3>1
  <2>4. QED
    BY <1>3, <1>8, <2>2, <2>3 DEF Held
<1>9. ASSUME Held(p), Head(p) = Unlock("b")  PROVE Free(q)
  <2>1. ASSUME NEW j \in 1..Len(q), q[j] = Unlock("b")
        PROVE  \E k \in 1..(j - 1) : q[k] = Lock("b")
    <3>1. /\ j + 1 \in 1..Len(p) /\ p[j + 1] = Unlock("b") /\ 1 \in 1..Len(p) /\ 1 < j + 1
          /\ Shut(p[1])
      BY <1>1, <1>9, <2>1 DEF Shut
    <3>2. PICK k \in 2..j : p[k] = Lock("b")
      BY <1>9, <3>1 DEF Held, Closed
    <3>3. k - 1 \in 1..(j - 1) /\ q[k - 1] = Lock("b")
      BY <1>1, <1>2, <3>1, <3>2
    <3>4. QED
      BY <3>3
  <2>2. QED
    BY <1>3, <1>9, <2>1 DEF Free, Held, Opens
<1>10. Branches(p) => Branches(q)
  BY <1>1 DEF Branches
<1>11. QED
  BY <1>4, <1>5, <1>6, <1>7, <1>8, <1>9, <1>10 DEF q

\* The words of a thread's programs.
Kits(t) == IF t = Api THEN {ApiWords} ELSE {BotWords, EndWords}

Message == [kind : Kinds, game : Games, events : Seq(EventKinds)]

\* Who holds b->mutex is in a section of it, and nobody else is.
ProgramsOK ==
  /\ holder \in [Mutexes -> Threads \cup {Nobody}]
  /\ inbox \in Seq(Message)
  /\ events \in [Threads -> Seq(EventKinds)]
  /\ DOMAIN prog = Threads
  /\ \A t \in Threads :
       /\ \E W \in Kits(t) : prog[t] \in Seq(Steps(W))
       /\ Branches(prog[t])
       /\ holder["b"] = t => Held(prog[t])
       /\ holder["b"] # t => Free(prog[t])

\* The steps the operations of each thread are made of.
LEMMA KitFacts ==
  ASSUME NEW t \in Threads, NEW W \in Kits(t)
  PROVE  W \in SUBSET Words
BY DEF Kits, ApiWords, Words, BotWords, EndWords

\* A thread takes a step: it is replaced by others only if it is wide.
LEMMA Moves ==
  ASSUME ProgramsOK, NEW t \in Threads, prog[t] # <<>>,
         NEW W \in Kits(t), prog[t] \in Seq(Steps(W)),
         NEW steps, Program(steps, W), GoOn(t, steps),
         steps = <<>> \/ Wide(Next1(t)),
         holder' \in [Mutexes -> Threads \cup {Nobody}], inbox' \in Seq(Message),
         events' \in [Threads -> Seq(EventKinds)],
         \/ /\ Next1(t) # Lock("b") /\ Next1(t) # Unlock("b")
            /\ holder'["b"] = holder["b"]
         \/ Next1(t) = Lock("b") /\ holder["b"] = Nobody /\ holder'["b"] = t
         \/ Next1(t) = Unlock("b") /\ holder'["b"] = Nobody
  PROVE  ProgramsOK'
<1> DEFINE p == prog[t]
           q == Tail(prog[t])
<1>1. /\ prog'[t] = steps \o q /\ DOMAIN prog' = Threads
      /\ \A u \in Threads : u # t => prog'[u] = prog[u]
  BY DEF GoOn, Rest, ProgramsOK
<1>2. /\ Free(p) => Head(p) # Unlock("b")
      /\ Free(p) /\ Head(p) # Lock("b") => Free(q)
      /\ Free(p) /\ Head(p) = Lock("b") => Held(q)
      /\ Held(p) => ~Wide(Head(p)) /\ Head(p) # Lock("b")
      /\ Held(p) /\ Head(p) # Unlock("b") => Held(q)
      /\ Held(p) /\ Head(p) = Unlock("b") => Free(q)
      /\ Branches(q)
      /\ q \in Seq(Steps(W))
  BY TailProgram, TailFacts DEF ProgramsOK
<1>3. /\ holder["b"] = t => Held(p)
      /\ holder["b"] # t => Free(p)
      /\ t # Nobody
  BY GameListAssumption DEF ProgramsOK, Threads
<1> HIDE DEF p, q
<1>4. steps \in Seq(Steps(W)) /\ Free(steps) /\ Branches(steps)
  BY DEF Program
<1>5. prog'[t] \in Seq(Steps(W)) /\ Branches(prog'[t])
  BY <1>1, <1>2, <1>4, JoinFacts, BranchesJoin
<1>6. steps = <<>> => prog'[t] = q
  BY <1>1, <1>2, ConcatEmptySeq
<1>7. Free(q) => Free(prog'[t])
  BY <1>1, <1>2, <1>4, FreeJoin
<1>8. Next1(t) = Head(p)
  BY DEF Next1, p
<1>9. /\ holder'["b"] = t => Held(prog'[t])
      /\ holder'["b"] # t => Free(prog'[t])
  <2>1. CASE Head(p) # Lock("b") /\ Head(p) # Unlock("b") /\ holder'["b"] = holder["b"]
    <3>1. CASE holder["b"] = t
      BY <1>2, <1>3, <1>6, <1>8, <2>1, <3>1
    <3>2. CASE holder["b"] # t
      BY <1>2, <1>3, <1>7, <2>1, <3>2
    <3>3. QED
      BY <3>1, <3>2
  <2>2. CASE Head(p) = Lock("b") /\ holder["b"] = Nobody /\ holder'["b"] = t
    <3>1. Held(q) /\ steps = <<>>
      BY <1>2, <1>3, <1>8, <2>2 DEF Wide, Lock
    <3>2. QED
      BY <1>6, <2>2, <3>1
  <2>3. CASE Head(p) = Unlock("b") /\ holder'["b"] = Nobody
    BY <1>2, <1>3, <1>7, <2>3
  <2>4. QED
    BY <1>8, <2>1, <2>2, <2>3
<1>10. ASSUME NEW u \in Threads, u # t
       PROVE  /\ holder'["b"] = u => Held(prog'[u])
              /\ holder'["b"] # u => Free(prog'[u])
  <2>1. holder["b"] = u => holder'["b"] = u
    BY <1>2, <1>3, <1>8, <1>10, GameListAssumption DEF Threads
  <2>2. holder'["b"] = u => holder["b"] = u
    BY <1>10, GameListAssumption DEF Threads
  <2>3. QED
    BY <1>1, <1>10, <2>1, <2>2 DEF ProgramsOK
<1>11. ASSUME NEW u \in Threads
       PROVE  /\ \E V \in Kits(u) : prog'[u] \in Seq(Steps(V))
              /\ Branches(prog'[u])
  BY <1>1, <1>5 DEF ProgramsOK
<1>12. QED
  BY <1>1, <1>9, <1>10, <1>11 DEF ProgramsOK

\* What a thread's next step is.
LEMMA NextFacts ==
  ASSUME ProgramsOK, NEW t \in Threads, NEW what, Takes(t, what)
  PROVE  /\ prog[t] # <<>> /\ Next1(t).do = what
         /\ \E W \in Kits(t) :
              /\ prog[t] \in Seq(Steps(W)) /\ what \in W \cup {"lock", "unlock", "find"}
              /\ what = "find" =>
                   Program(Next1(t).found, W) /\ Program(Next1(t).missing, W)
         /\ what = "lock" => Next1(t).on \in Mutexes /\ Next1(t) = Lock(Next1(t).on)
         /\ what = "unlock" => Next1(t).on \in Mutexes /\ Next1(t) = Unlock(Next1(t).on)
<1>1. PICK W \in Kits(t) : prog[t] \in Seq(Steps(W))
  BY DEF ProgramsOK
<1>2. prog[t] # <<>> /\ Next1(t).do = what
  BY DEF Takes
<1>3. Next1(t) = prog[t][1] /\ Next1(t) \in Steps(W) /\ 1 \in 1..Len(prog[t])
  BY <1>1, <1>2, TailFacts DEF Next1
<1>4. W \in SUBSET Words
  BY KitFacts
<1>5. /\ what \in W \cup {"lock", "unlock", "find"}
      /\ what = "lock" => Next1(t).on \in Mutexes /\ Next1(t) = Lock(Next1(t).on)
      /\ what = "unlock" => Next1(t).on \in Mutexes /\ Next1(t) = Unlock(Next1(t).on)
      /\ what = "find" =>
           Next1(t).found \in Seq(Plain(W)) /\ Next1(t).missing \in Seq(Plain(W))
  BY <1>2, <1>3, <1>4, StepFacts
<1>6. what = "find" => Free(Next1(t).found) /\ Free(Next1(t).missing)
  BY <1>2, <1>3 DEF ProgramsOK, Branches
<1>7. what = "find" => Program(Next1(t).found, W) /\ Program(Next1(t).missing, W)
  BY <1>4, <1>5, <1>6, PlainIsProgram DEF PlainProgram
<1>8. QED
  BY <1>1, <1>2, <1>5, <1>7

\* Steps that neither lock nor unlock b->mutex and put nothing in their place.
LEMMA SimpleStep ==
  ASSUME ProgramsOK, NEW t \in Threads, NEW what, Takes(t, what), what \notin {"lock", "unlock"},
         GoOn(t, <<>>), UNCHANGED <<inbox, events>>,
         holder' \in [Mutexes -> Threads \cup {Nobody}], holder'["b"] = holder["b"]
  PROVE  ProgramsOK'
<1>1. PICK W \in Kits(t) : prog[t] \in Seq(Steps(W))
  BY NextFacts
<1>2. prog[t] # <<>> /\ Next1(t).do = what
  BY NextFacts
<1>3. Next1(t) # Lock("b") /\ Next1(t) # Unlock("b")
  BY <1>2 DEF Lock, Unlock
<1>4. Program(<<>>, W)
  BY KitFacts, Basics, PlainIsProgram
<1>5. inbox' \in Seq(Message) /\ events' \in [Threads -> Seq(EventKinds)]
  BY DEF ProgramsOK
<1>6. QED
  BY <1>1, <1>2, <1>3, <1>4, <1>5, Moves

\* Steps that others take the place of.
LEMMA WideStep ==
  ASSUME ProgramsOK, NEW t \in Threads, NEW what, Takes(t, what),
         what \in {"find", "scan", "read", "start", "stop", "events"},
         NEW W \in Kits(t), prog[t] \in Seq(Steps(W)),
         NEW steps, Program(steps, W), GoOn(t, steps),
         UNCHANGED holder, inbox' \in Seq(Message), events' \in [Threads -> Seq(EventKinds)]
  PROVE  ProgramsOK'
<1>1. prog[t] # <<>> /\ Next1(t).do = what
  BY NextFacts
<1>2. Wide(Next1(t)) /\ Next1(t) # Lock("b") /\ Next1(t) # Unlock("b")
  BY <1>1 DEF Wide, Lock, Unlock
<1>3. holder' \in [Mutexes -> Threads \cup {Nobody}] /\ holder'["b"] = holder["b"]
  BY DEF ProgramsOK
<1>4. QED
  BY <1>1, <1>2, <1>3, Moves

\* A lock that is granted.
LEMMA AcquirePrograms ==
  ASSUME ProgramsOK, NEW t \in Threads, Acquire(t)
  PROVE  ProgramsOK'
<1>1. /\ Takes(t, "lock") /\ holder[Next1(t).on] = Nobody
      /\ holder' = [holder EXCEPT ![Next1(t).on] = t] /\ GoOn(t, <<>>)
      /\ inbox' = inbox /\ events' = events
  BY DEF Acquire, serverVars, loopVars
<1>2. PICK W \in Kits(t) : prog[t] \in Seq(Steps(W))
  BY <1>1, NextFacts
<1>3. /\ prog[t] # <<>> /\ Next1(t).on \in Mutexes /\ Next1(t) = Lock(Next1(t).on)
  BY <1>1, NextFacts
<1>4. Program(<<>>, W)
  BY KitFacts, Basics, PlainIsProgram
<1>5. /\ holder' \in [Mutexes -> Threads \cup {Nobody}] /\ inbox' \in Seq(Message)
      /\ events' \in [Threads -> Seq(EventKinds)]
  BY <1>1, <1>3 DEF ProgramsOK
<1>6. CASE Next1(t).on = "b"
  <2>1. Next1(t) = Lock("b") /\ holder["b"] = Nobody /\ holder'["b"] = t
    BY <1>1, <1>3, <1>6 DEF ProgramsOK
  <2>2. QED
    BY <1>1, <1>2, <1>3, <1>4, <1>5, <2>1, Moves
<1>7. CASE Next1(t).on = "gl"
  <2>1. Next1(t) # Lock("b") /\ Next1(t) # Unlock("b") /\ holder'["b"] = holder["b"]
    BY <1>1, <1>3, <1>7 DEF ProgramsOK, Lock, Unlock
  <2>2. QED
    BY <1>1, <1>2, <1>3, <1>4, <1>5, <2>1, Moves
<1>8. QED
  BY <1>3, <1>6, <1>7 DEF Mutexes

\* An unlock.
LEMMA ReleasePrograms ==
  ASSUME ProgramsOK, NEW t \in Threads, Release(t)
  PROVE  ProgramsOK'
<1>1. /\ Takes(t, "unlock")
      /\ holder' = [holder EXCEPT ![Next1(t).on] = Nobody] /\ GoOn(t, <<>>)
      /\ inbox' = inbox /\ events' = events
  BY DEF Release, serverVars, loopVars
<1>2. PICK W \in Kits(t) : prog[t] \in Seq(Steps(W))
  BY <1>1, NextFacts
<1>3. /\ prog[t] # <<>> /\ Next1(t).on \in Mutexes /\ Next1(t) = Unlock(Next1(t).on)
  BY <1>1, NextFacts
<1>4. Program(<<>>, W)
  BY KitFacts, Basics, PlainIsProgram
<1>5. /\ holder' \in [Mutexes -> Threads \cup {Nobody}] /\ inbox' \in Seq(Message)
      /\ events' \in [Threads -> Seq(EventKinds)]
  BY <1>1, <1>3 DEF ProgramsOK
<1>6. CASE Next1(t).on = "b"
  <2>1. Next1(t) = Unlock("b") /\ holder'["b"] = Nobody
    BY <1>1, <1>3, <1>6 DEF ProgramsOK
  <2>2. QED
    BY <1>1, <1>2, <1>3, <1>4, <1>5, <2>1, Moves
<1>7. CASE Next1(t).on = "gl"
  <2>1. Next1(t) # Lock("b") /\ Next1(t) # Unlock("b") /\ holder'["b"] = holder["b"]
    BY <1>1, <1>3, <1>7 DEF ProgramsOK, Lock, Unlock
  <2>2. QED
    BY <1>1, <1>2, <1>3, <1>4, <1>5, <2>1, Moves
<1>8. QED
  BY <1>3, <1>6, <1>7 DEF Mutexes

\* A lookup, the loop of a poll, a change of state, a message and its events.
LEMMA WideActions ==
  ASSUME ProgramsOK, NEW t \in Threads,
         FindGame(t) \/ Scan(t) \/ ChangeState(t) \/ Read(t) \/ NextEvent(t)
  PROVE  ProgramsOK'
<1>1. ASSUME NEW V, V \in Kits(t)
      PROVE  Program(<<>>, V)
  BY <1>1, KitFacts, Basics, PlainIsProgram
<1>2. inbox \in Seq(Message) /\ events \in [Threads -> Seq(EventKinds)]
  BY DEF ProgramsOK
<1>3. ASSUME NEW what \in {"scan", "read", "start", "stop", "events"}, Takes(t, what)
      PROVE  t # Api /\ BotWords \in Kits(t) /\ prog[t] \in Seq(Steps(BotWords))
  <2>1. PICK W \in Kits(t) : prog[t] \in Seq(Steps(W)) /\ what \in W \cup {"lock", "unlock", "find"}
    BY <1>3, NextFacts
  <2>2. QED
    BY <2>1 DEF Kits, ApiWords, EndWords
<1>4. CASE FindGame(t)
  <2>1. Takes(t, "find") /\ UNCHANGED <<holder, inbox, events>>
    BY <1>4 DEF FindGame, serverVars, loopVars
  <2>2. PICK W \in Kits(t) :
          /\ prog[t] \in Seq(Steps(W))
          /\ Program(Next1(t).found, W) /\ Program(Next1(t).missing, W)
    BY <2>1, NextFacts
  <2>3. GoOn(t, Next1(t).found) \/ GoOn(t, Next1(t).missing)
    BY <1>4 DEF FindGame
  <2>4. QED
    BY <1>2, <2>1, <2>2, <2>3, WideStep
<1>5. CASE Scan(t)
  <2>1. Takes(t, "scan") /\ UNCHANGED <<holder, inbox, events>>
    BY <1>5 DEF Scan, serverVars, loopVars
  <2>2. GoOn(t, TimedOut) \/ GoOn(t, <<>>)
    BY <1>5 DEF Scan
  <2>3. Program(TimedOut, BotWords)
    <3>1. Program(TimedOut, TimedOutWords)
      BY TimedOutProgram, PlainIsProgram DEF TimedOutWords, Words, BotWords
    <3>2. QED
      BY <3>1, MoreWords DEF TimedOutWords, BotWords
  <2>4. QED
    BY <1>1, <1>2, <1>3, <2>1, <2>2, <2>3, WideStep
<1>6. CASE ChangeState(t)
  <2>1. PICK what \in {"start", "stop"} : Takes(t, what)
    BY <1>6 DEF ChangeState
  <2>2. UNCHANGED <<holder, inbox, events>>
    BY <1>6 DEF ChangeState, serverVars, loopVars
  <2>3. \/ GoOn(t, Section("b") \o OnGameEnd) \/ GoOn(t, Section("b") \o <<Do("use")>>)
        \/ GoOn(t, <<>>)
    BY <1>6 DEF ChangeState
  <2>4. ASSUME NEW p, PlainProgram(p, ChangeWords)  PROVE Program(p, BotWords)
    <3>1. Program(p, ChangeWords)
      BY <2>4, PlainIsProgram DEF ChangeWords, Words, BotWords
    <3>2. QED
      BY <3>1, MoreWords DEF ChangeWords, BotWords
  <2>5. QED
    BY <1>1, <1>2, <1>3, <2>1, <2>2, <2>3, <2>4, ChangeProgram, WideStep
<1>7. CASE Read(t)
  <2>1. Takes(t, "read") /\ holder' = holder
    BY <1>7 DEF Read
  <2>2. CASE GoOn(t, <<>>) /\ inbox' = inbox /\ events' = events
    BY <1>1, <1>2, <1>3, <2>1, <2>2, WideStep
  <2>3. CASE /\ inbox # <<>> /\ inbox' = Tail(inbox) /\ GoOn(t, Receive(Head(inbox).kind))
             /\ events' = [events EXCEPT ![t] = Head(inbox).events]
    <3>1. /\ Head(inbox) \in Message /\ inbox' \in Seq(Message)
          /\ events' \in [Threads -> Seq(EventKinds)]
      <4>1. Head(inbox) \in Message /\ inbox' \in Seq(Message)
        BY <1>2, <2>3, TailFacts
      <4>2. QED
        BY <1>2, <2>3, <4>1 DEF Message
    <3>2. Program(Receive(Head(inbox).kind), BotWords)
      BY <3>1, ReceiveProgram DEF Message
    <3>3. QED
      BY <1>3, <2>1, <2>3, <3>1, <3>2, WideStep
  <2>4. QED
    BY <1>7, <2>2, <2>3 DEF Read
<1>8. CASE NextEvent(t)
  <2>1. Takes(t, "events") /\ UNCHANGED <<holder, inbox>>
    BY <1>8 DEF NextEvent, serverVars
  <2>2. CASE GoOn(t, <<>>) /\ events' = events
    BY <1>1, <1>2, <1>3, <2>1, <2>2, WideStep
  <2>3. CASE /\ events[t] # <<>> /\ events' = [events EXCEPT ![t] = Tail(@)]
             /\ GoOn(t, GameEvent(Head(events[t])) \o <<Do("events")>>)
    <3>1. events[t] \in Seq(EventKinds)
      BY <1>2
    <3>2. Head(events[t]) \in EventKinds /\ Tail(events[t]) \in Seq(EventKinds)
      BY <2>3, <3>1, TailFacts
    <3>3. events' \in [Threads -> Seq(EventKinds)]
      BY <1>2, <2>3, <3>2
    <3>4. Program(GameEvent(Head(events[t])) \o <<Do("events")>>, BotWords)
      BY <3>2, EventProgram, PlainIsProgram DEF Words
    <3>5. QED
      BY <1>2, <1>3, <2>1, <2>3, <3>3, <3>4, WideStep
  <2>4. QED
    BY <1>8, <2>2, <2>3 DEF NextEvent, loopVars
<1>9. QED
  BY <1>4, <1>5, <1>6, <1>7, <1>8

\* Every step of a thread.
LEMMA StepPrograms ==
  ASSUME ProgramsOK, NEW t \in Threads, Step(t)
  PROVE  ProgramsOK'
<1>1. CASE Use(t)
  BY <1>1, SimpleStep DEF Use, serverVars, loopVars, ProgramsOK
<1>2. CASE Leave(t)
  BY <1>2, SimpleStep DEF Leave, serverVars, loopVars, ProgramsOK
<1>3. CASE Add(t)
  BY <1>3, SimpleStep DEF Add, serverVars, loopVars, ProgramsOK
<1>4. CASE Remove(t)
  BY <1>4, SimpleStep DEF Remove, serverVars, loopVars, ProgramsOK
<1>5. CASE FreeAll(t)
  BY <1>5, SimpleStep DEF FreeAll, serverVars, loopVars, ProgramsOK
<1>6. CASE Reset(t)
  BY <1>6, SimpleStep DEF Reset, serverVars, loopVars, ProgramsOK
<1>7. CASE InitGameList(t)
  <2>1. /\ holder' \in [Mutexes -> Threads \cup {Nobody}] /\ holder'["b"] = holder["b"]
        /\ Takes(t, "init") /\ GoOn(t, <<>>) /\ inbox' = inbox /\ events' = events
    BY <1>7 DEF InitGameList, serverVars, loopVars, ProgramsOK, Mutexes
  <2>2. QED
    BY <2>1, SimpleStep
<1>8. QED
  BY <1>1, <1>2, <1>3, <1>4, <1>5, <1>6, <1>7, AcquirePrograms, ReleasePrograms, WideActions
  DEF Step

\* An operation begins when the one before it is at its end, outside every section.
LEMMA BeginPrograms ==
  ASSUME ProgramsOK, NEW t \in Threads, NEW steps, NEW g, Begin(t, steps, g),
         NEW W \in Kits(t), Program(steps, W), inbox' \in Seq(Message)
  PROVE  ProgramsOK'
<1>1. prog[t] = <<>> /\ prog' = [prog EXCEPT ![t] = steps] /\ holder' = holder
  BY DEF Begin
<1>2. ~Held(prog[t])
  BY <1>1 DEF Held
<1>3. holder["b"] # t
  BY <1>2 DEF ProgramsOK
<1>4. steps \in Seq(Steps(W)) /\ Free(steps) /\ Branches(steps)
  BY DEF Program
<1>5. events' \in [Threads -> Seq(EventKinds)]
  BY DEF Begin, ProgramsOK
<1>6. QED
  BY <1>1, <1>3, <1>4, <1>5 DEF ProgramsOK

\* The server speaks: a message more, or one that is longer.
LEMMA SaysMessages ==
  ASSUME inbox \in Seq(Message), ServerSays
  PROVE  /\ inbox' \in Seq(Message)
         /\ UNCHANGED <<holder, prog, id, ref, loopVars, listed, memory, started, disconnects>>
         /\ \/ Len(inbox) < MaxInbox /\ Len(inbox') = Len(inbox) + 1
            \/ Len(inbox') = Len(inbox)
<1>1. PICK g \in Games :
        \/ \E kind \in Kinds : Says(kind, g)
        \/ \E event \in EventKinds : Tells(event, g) \/ TellsMore(event, g)
  BY DEF ServerSays, ServerMakes, ServerStarts, ServerStops, ServerMovesPlayers,
         ServerCloses, ServerTellsMore, ServerLetsLeave, Kinds, EventKinds
<1>2. UNCHANGED <<holder, prog, id, ref, loopVars, listed, memory, started, disconnects>>
  BY <1>1 DEF Says, Tells, TellsMore, threadVars, loopVars, listVars
<1>3. ASSUME NEW m \in Message, inbox' = Append(inbox, m)
      PROVE  inbox' \in Seq(Message) /\ Len(inbox') = Len(inbox) + 1
  BY <1>3, AppendProperties
<1>4. CASE \E kind \in Kinds : Says(kind, g)
  <2>1. PICK kind \in Kinds :
          /\ Len(inbox) < MaxInbox
          /\ inbox' = Append(inbox, [kind |-> kind, game |-> g, events |-> <<>>])
    BY <1>4 DEF Says
  <2>2. [kind |-> kind, game |-> g, events |-> <<>>] \in Message
    BY DEF Message
  <2>3. QED
    BY <1>2, <1>3, <2>1, <2>2
<1>5. ASSUME NEW event \in EventKinds, TellsMore(event, g)
      PROVE  inbox' \in Seq(Message) /\ Len(inbox') = Len(inbox)
  <2> DEFINE m == inbox[Len(inbox)]
             n == [m EXCEPT !.events = Append(@, event)]
  <2>1. inbox # <<>> /\ inbox' = [inbox EXCEPT ![Len(inbox)].events = Append(@, event)]
    BY <1>5 DEF TellsMore
  <2>2. Len(inbox) \in 1..Len(inbox) /\ m \in Message
    BY <2>1, TailFacts
  <2>3. n \in Message
    <3>1. Append(m.events, event) \in Seq(EventKinds)
      BY <2>2, AppendProperties DEF Message
    <3>2. QED
      BY <2>2, <3>1 DEF Message
  <2>4. inbox' = [inbox EXCEPT ![Len(inbox)] = n]
    BY <2>1
  <2> HIDE DEF n
  <2>5. QED
    BY <2>2, <2>3, <2>4, ExceptSeq
<1>6. ASSUME NEW event \in EventKinds, Tells(event, g), ~TellsMore(event, g)
      PROVE  /\ inbox' \in Seq(Message)
             /\ Len(inbox) < MaxInbox /\ Len(inbox') = Len(inbox) + 1
  <2>1. /\ Len(inbox) < MaxInbox
        /\ inbox' = Append(inbox, [kind |-> "events", game |-> g, events |-> <<event>>])
    BY <1>6 DEF Tells
  <2>2. [kind |-> "events", game |-> g, events |-> <<event>>] \in Message
    BY DEF Message, Kinds
  <2>3. QED
    BY <1>3, <2>1, <2>2
<1>7. QED
  BY <1>1, <1>2, <1>4, <1>5, <1>6

\* ProgramsOK is inductive.
LEMMA NextPrograms ==
  ASSUME ProgramsOK, [Next]_vars
  PROVE  ProgramsOK'
<1>1. CASE \E t \in Threads : Step(t)
  BY <1>1, StepPrograms
<1>2. CASE BeginPoll
  <2>1. PICK newSecond \in BOOLEAN, pingDue \in BOOLEAN :
          Begin(Bot, Poll(newSecond, pingDue), NoGame)
    BY <1>2 DEF BeginPoll
  <2>2. Program(Poll(newSecond, pingDue), BotWords)
    <3>1. Program(Poll(newSecond, pingDue), PollWords)
      BY PollProgram, PlainIsProgram DEF PollWords, Words, BotWords
    <3>2. QED
      BY <3>1, MoreWords DEF PollWords, BotWords
  <2>3. Bot \in Threads /\ BotWords \in Kits(Bot) /\ inbox' \in Seq(Message)
    BY <1>2, GameListAssumption DEF Threads, Kits, BeginPoll, serverVars, ProgramsOK
  <2>4. QED
    BY <2>1, <2>2, <2>3, BeginPrograms
<1>3. CASE BeginRequest
  <2>1. PICK kind \in Requests, g \in Games : Begin(Api, Request(kind), g)
    BY <1>3 DEF BeginRequest
  <2>2. Api \in Threads /\ ApiWords \in Kits(Api) /\ inbox' \in Seq(Message)
    BY <1>3 DEF Threads, Kits, BeginRequest, serverVars, ProgramsOK
  <2>3. QED
    BY <2>1, <2>2, RequestProgram, BeginPrograms
<1>4. CASE Disconnect
  <2>1. Begin(Bot, EndThread, NoGame) /\ inbox' = <<>>
    BY <1>4 DEF Disconnect
  <2>2. Bot \in Threads /\ EndWords \in Kits(Bot) /\ inbox' \in Seq(Message)
    BY <2>1, GameListAssumption DEF Threads, Kits
  <2>3. Program(EndThread, EndWords)
    BY EndThreadProgram, PlainIsProgram DEF Words
  <2>4. QED
    BY <2>1, <2>2, <2>3, BeginPrograms
<1>5. CASE ServerSays
  BY <1>5, SaysMessages DEF ProgramsOK, loopVars
<1>6. CASE UNCHANGED vars
  BY <1>6 DEF vars, threadVars, loopVars, serverVars, ProgramsOK
<1>7. QED
  BY <1>1, <1>2, <1>3, <1>4, <1>5, <1>6 DEF Next

\* No program has begun.
LEMMA InitPrograms ==
  ASSUME Init
  PROVE  ProgramsOK
<1>1. /\ holder \in [Mutexes -> Threads \cup {Nobody}] /\ holder["b"] = Nobody
      /\ inbox \in Seq(Message) /\ DOMAIN prog = Threads
      /\ events \in [Threads -> Seq(EventKinds)]
  BY DEF Init, Mutexes
<1>2. ASSUME NEW t \in Threads
      PROVE  /\ \E W \in Kits(t) : prog[t] \in Seq(Steps(W))
             /\ Branches(prog[t]) /\ Free(prog[t]) /\ holder["b"] # t
  <2>1. prog[t] = <<>>
    BY DEF Init
  <2>2. \E W \in Kits(t) : prog[t] \in Seq(Steps(W))
    BY <2>1 DEF Kits
  <2>3. Branches(prog[t]) /\ Free(prog[t])
    BY <2>1 DEF Branches, Free, Closed, Opens
  <2>4. QED
    BY <1>1, <2>2, <2>3, GameListAssumption DEF Threads
<1>3. QED
  BY <1>1, <1>2 DEF ProgramsOK

\* b->mutex is held by whoever works under it, whatever the poll and EndGame do to
\* the mutex of the list.
THEOREM BotMutexExclusiveHolds == Safety => []BotMutexExclusive
<1>1. Init => ProgramsOK
  BY InitPrograms
<1>2. ProgramsOK /\ [Next]_vars => ProgramsOK'
  BY NextPrograms
<1>3. ProgramsOK => BotMutexExclusive
  <2> SUFFICES ASSUME ProgramsOK, NEW t \in Threads, InSection(t, "b"), holder["b"] # t
               PROVE  FALSE
    BY DEF BotMutexExclusive
  <2>1. Free(prog[t])
    BY DEF ProgramsOK
  <2>2. QED
    BY <2>1 DEF InSection, Free, Opens
<1>4. QED
  BY <1>1, <1>2, <1>3, PTL DEF Safety

-----------------------------------------------------------------------------
\* What programs do.

Has(p, what) == \E i \in 1..Len(p) : p[i].do = what

\* Steps that use id, and steps that use ref.
IdWords  == {"find", "add", "leave", "start", "stop", "events"}
UseWords == {"use", "start", "stop", "events"}

Uses(p) == \E what \in UseWords : Has(p, what)

\* botThread frees the games, then resets the list, then inits it.
EndsInOrder(p) ==
  \A i, j \in 1..Len(p) : i < j =>
    /\ p[j].do = "freeAll" => p[i].do \notin EndWords
    /\ p[j].do = "reset" => p[i].do \notin {"reset", "init"}

\* Steps after which ref is of another game or of none that is in the list.
ForgetWords == {"find", "scan", "read", "remove"}

\* What a program uses it uses before it forgets it.
UsesFirst(p) == \A i, j \in 1..Len(p) : i < j /\ p[i].do \in ForgetWords => p[j].do \notin UseWords

\* A lookup that finds a game uses it, one that finds none does not.
FindsFirst(p) ==
  \A i \in 1..Len(p) : p[i].do = "find" => UsesFirst(p[i].found) /\ ~Uses(p[i].missing)

-----------------------------------------------------------------------------
\* The invariants.

Live == {g \in Games : memory[g] = "live"}

\* The bot thread serves a session, or ends one.
Serving == prog[Bot] \in Seq(Steps(BotWords))
Ending  == prog[Bot] \in Seq(Plain(EndWords)) /\ EndsInOrder(prog[Bot])

\* The list and the memory of its games as botThread ends.
Phases ==
  LET p == prog[Bot] IN
  /\ Has(p, "freeAll") => Has(p, "reset")
  /\ Has(p, "freeAll") \/ ~Has(p, "reset") => listed = Live
  /\ Has(p, "reset") /\ ~Has(p, "freeAll") => Live = {}
  /\ Has(p, "init") /\ ~Has(p, "reset") => listed = {}

ListOK ==
  /\ TypeOK
  /\ Serving \/ Ending
  /\ (\E what \in IdWords : Has(prog[Bot], what)) => id[Bot] \in Games
  /\ Phases

\* The pointer is of a game that the bot thread found and has not forgotten.
PointerOK ==
  /\ UsesFirst(prog[Bot]) /\ FindsFirst(prog[Bot])
  /\ Uses(prog[Bot]) => ref[Bot] \in listed

\* It is until a GameClosed is dealt with.
PointerOrClosed == closed[Bot] \/ PointerOK

-----------------------------------------------------------------------------
\* Lemmas about programs.

\* What two programs after one another do, one or the other does.
LEMMA HasJoin ==
  ASSUME NEW S, NEW p \in Seq(S), NEW q \in Seq(S), NEW what
  PROVE  Has(p \o q, what) <=> Has(p, what) \/ Has(q, what)
<1> DEFINE r == p \o q
<1>1. /\ Len(p) \in Nat /\ Len(q) \in Nat /\ Len(r) = Len(p) + Len(q)
      /\ \A i \in 1..Len(p) : r[i] = p[i]
      /\ \A i \in 1..Len(q) : r[Len(p) + i] = q[i]
  BY JoinFacts
<1> HIDE DEF r
<1>2. ASSUME NEW i \in 1..Len(r), r[i].do = what
      PROVE  Has(p, what) \/ Has(q, what)
  <2>1. CASE i <= Len(p)
    BY <1>1, <1>2, <2>1 DEF Has
  <2>2. CASE i > Len(p)
    <3>1. i - Len(p) \in 1..Len(q) /\ Len(p) + (i - Len(p)) = i
      BY <1>1, <2>2
    <3>2. q[i - Len(p)] = r[i]
      BY <1>1, <3>1
    <3>3. QED
      BY <1>2, <3>1, <3>2 DEF Has
  <2>3. QED
    BY <1>1, <2>1, <2>2
<1>3. ASSUME NEW i \in 1..Len(p), p[i].do = what  PROVE Has(r, what)
  BY <1>1, <1>3 DEF Has
<1>4. ASSUME NEW i \in 1..Len(q), q[i].do = what  PROVE Has(r, what)
  <2>1. Len(p) + i \in 1..Len(r) /\ r[Len(p) + i] = q[i]
    BY <1>1
  <2>2. QED
    BY <1>4, <2>1 DEF Has
<1>5. QED
  BY <1>2, <1>3, <1>4 DEF Has, r

\* What is left to do when the first step is taken.
LEMMA HasTail ==
  ASSUME NEW S, NEW p \in Seq(S), p # <<>>
  PROVE  \A what : Has(p, what) <=> Head(p).do = what \/ Has(Tail(p), what)
<1> SUFFICES ASSUME NEW what
             PROVE  Has(p, what) <=> Head(p).do = what \/ Has(Tail(p), what)
  OBVIOUS
<1> DEFINE q == Tail(p)
<1>1. /\ Head(p) = p[1] /\ Len(p) \in Nat \ {0} /\ Len(q) = Len(p) - 1
      /\ \A i \in 1..Len(q) : q[i] = p[i + 1]
  BY TailFacts
<1> HIDE DEF q
<1>2. ASSUME NEW i \in 1..Len(p), p[i].do = what  PROVE Head(p).do = what \/ Has(q, what)
  <2>1. CASE i = 1
    BY <1>1, <1>2, <2>1
  <2>2. CASE i # 1
    <3>1. i - 1 \in 1..Len(q) /\ q[i - 1] = p[i]
      BY <1>1, <2>2
    <3>2. QED
      BY <1>2, <3>1 DEF Has
  <2>3. QED
    BY <2>1, <2>2
<1>3. ASSUME NEW i \in 1..Len(q), q[i].do = what  PROVE Has(p, what)
  <2>1. i + 1 \in 1..Len(p) /\ p[i + 1].do = what
    BY <1>1, <1>3
  <2>2. QED
    BY <2>1 DEF Has
<1>4. Head(p).do = what => Has(p, what)
  BY <1>1 DEF Has
<1>5. QED
  BY <1>2, <1>3, <1>4 DEF Has, q

\* A program does what its steps do.
LEMMA HasWords ==
  ASSUME NEW W \in SUBSET Words, NEW p \in Seq(Steps(W)), NEW what, Has(p, what)
  PROVE  /\ what \in W \cup {"lock", "unlock", "find"}
         /\ p \in Seq(Plain(W)) => what \in W \cup {"lock", "unlock"}
<1>1. PICK i \in 1..Len(p) : p[i].do = what
  BY DEF Has
<1>2. p[i] \in Steps(W)
  OBVIOUS
<1>3. what \in W \cup {"lock", "unlock", "find"}
  BY <1>1, <1>2, StepFacts
<1>4. p \in Seq(Plain(W)) => p[i] \in Plain(W)
  OBVIOUS
<1>5. p[i] \in Plain(W) => what \in W \cup {"lock", "unlock"}
  BY <1>1 DEF Plain
<1>6. QED
  BY <1>3, <1>4, <1>5

\* What comes after the first step comes in the same order.
LEMMA TailOrder ==
  ASSUME NEW S, NEW p \in Seq(S), p # <<>>
  PROVE  /\ EndsInOrder(p) => EndsInOrder(Tail(p))
         /\ EndsInOrder(p) /\ Head(p).do \in EndWords => ~Has(Tail(p), "freeAll")
         /\ EndsInOrder(p) /\ Head(p).do \in {"reset", "init"} => ~Has(Tail(p), "reset")
         /\ UsesFirst(p) => UsesFirst(Tail(p))
         /\ UsesFirst(p) /\ Head(p).do \in ForgetWords => ~Uses(Tail(p))
         /\ FindsFirst(p) => FindsFirst(Tail(p))
<1> DEFINE q == Tail(p)
<1>1. /\ Head(p) = p[1] /\ Len(p) \in Nat \ {0} /\ Len(q) = Len(p) - 1
      /\ \A i \in 1..Len(q) : q[i] = p[i + 1]
  BY TailFacts
<1> HIDE DEF q
<1>2. \A i \in 1..Len(q) : i + 1 \in 1..Len(p) /\ 1 < i + 1 /\ q[i] = p[i + 1]
  BY <1>1
<1>3. \A i, j \in 1..Len(q) : i < j => i + 1 < j + 1
  BY <1>1
<1>4. 1 \in 1..Len(p)
  BY <1>1
<1>5. EndsInOrder(p) => EndsInOrder(q)
  BY <1>2, <1>3 DEF EndsInOrder
<1>6. EndsInOrder(p) /\ Head(p).do \in EndWords => ~Has(q, "freeAll")
  BY <1>1, <1>2, <1>4 DEF EndsInOrder, Has
<1>7. EndsInOrder(p) /\ Head(p).do \in {"reset", "init"} => ~Has(q, "reset")
  BY <1>1, <1>2, <1>4 DEF EndsInOrder, Has
<1>8. UsesFirst(p) => UsesFirst(q)
  BY <1>2, <1>3 DEF UsesFirst
<1>9. UsesFirst(p) /\ Head(p).do \in ForgetWords => ~Uses(q)
  BY <1>1, <1>2, <1>4 DEF UsesFirst, Uses, Has
<1>10. FindsFirst(p) => FindsFirst(q)
  BY <1>2 DEF FindsFirst
<1>11. QED
  BY <1>5, <1>6, <1>7, <1>8, <1>9, <1>10 DEF q

-----------------------------------------------------------------------------
\* Which games are alive.

\* The end of botThread frees the games before it resets the list and inits it after.
LEMMA EndThreadInOrder ==
  /\ EndThread \in Seq(Plain(EndWords)) /\ EndsInOrder(EndThread)
  /\ Has(EndThread, "freeAll") /\ Has(EndThread, "reset")
<1> DEFINE p == <<Lock("b"), Lock("gl"), Do("freeAll"), Unlock("gl"), Do("reset"), Unlock("b")>>
           s == Section("b")
           q == <<Lock("b"), Do("init"), Unlock("b")>>
           S == Plain(EndWords)
<1>1. p \in Seq(S) /\ s \in Seq(S) /\ q \in Seq(S)
  BY DEF Plain, Lock, Unlock, Do, Section, EndWords, Mutexes
<1>2. /\ Len(p) = 6 /\ Len(s) = 2 /\ Len(q) = 3
      /\ p[3].do = "freeAll" /\ p[5].do = "reset" /\ q[2].do = "init"
      /\ \A i \in {1, 2, 4, 6} : p[i].do \in {"lock", "unlock"}
      /\ \A i \in {1, 2} : s[i].do \in {"lock", "unlock"}
      /\ \A i \in {1, 3} : q[i].do \in {"lock", "unlock"}
  BY DEF Lock, Unlock, Do, Section
<1>3. EndThread = (p \o s) \o q
  BY DEF EndThread
<1> HIDE DEF p, s, q, S
<1>4. PICK r : r = p \o s
  OBVIOUS
<1>5. PICK e : e = r \o q
  OBVIOUS
<1>6. /\ r \in Seq(S) /\ Len(r) = 8
      /\ \A i \in 1..6 : r[i] = p[i]
      /\ \A i \in 1..2 : r[6 + i] = s[i]
  <2>1. /\ r \in Seq(S) /\ Len(r) = Len(p) + Len(s)
        /\ \A i \in 1..Len(p) : r[i] = p[i]
        /\ \A i \in 1..Len(s) : r[Len(p) + i] = s[i]
    BY <1>1, <1>4, JoinFacts
  <2>2. QED
    BY <1>2, <2>1
<1>7. /\ e \in Seq(S) /\ Len(e) = 11
      /\ \A i \in 1..8 : e[i] = r[i]
      /\ \A i \in 1..3 : e[8 + i] = q[i]
  <2>1. /\ e \in Seq(S) /\ Len(e) = Len(r) + Len(q)
        /\ \A i \in 1..Len(r) : e[i] = r[i]
        /\ \A i \in 1..Len(q) : e[Len(r) + i] = q[i]
    <3>1. q \in Seq(S) /\ r \in Seq(S)
      BY <1>1, <1>6
    <3>2. QED
      BY <1>5, <3>1, JoinFacts
  <2>2. QED
    BY <1>2, <1>6, <2>1
<1>8. /\ e[3].do = "freeAll" /\ e[5].do = "reset" /\ e[8 + 2].do = "init"
      /\ \A i \in {1, 2, 4, 6} : e[i].do \in {"lock", "unlock"}
      /\ \A i \in {1, 2} : e[6 + i].do \in {"lock", "unlock"}
      /\ \A i \in {1, 3} : e[8 + i].do \in {"lock", "unlock"}
  BY <1>2, <1>6, <1>7
<1>9. \A i \in 1..11 : /\ e[i].do \in EndWords => i \in {3, 5, 10}
                       /\ e[i].do = "freeAll" => i = 3
                       /\ e[i].do = "reset" => i = 5
  BY <1>8 DEF EndWords
<1>10. /\ EndsInOrder(e) /\ Has(e, "freeAll") /\ Has(e, "reset")
  <2>1. ASSUME NEW i \in 1..11, NEW j \in 1..11, i < j
        PROVE  /\ e[j].do = "freeAll" => e[i].do \notin EndWords
               /\ e[j].do = "reset" => e[i].do \notin {"reset", "init"}
    BY <1>8, <1>9, <2>1 DEF EndWords
  <2>2. QED
    BY <1>7, <1>8, <2>1 DEF EndsInOrder, Has
<1>11. QED
  BY <1>3, <1>7, <1>10, <1>4, <1>5 DEF S

\* Programs that need no game.
LEMMA NoIdWords ==
  ASSUME NEW W \in SUBSET Words, W \cap IdWords = {}, NEW p \in Seq(Plain(W)), NEW what \in IdWords
  PROVE  ~Has(p, what)
BY PlainSeq, HasWords DEF IdWords

\* What the next step does, the program does; the bot thread only does so while it
\* serves a session.
LEMMA BotTakes ==
  ASSUME ProgramsOK, ListOK, NEW what, Takes(Bot, what)
  PROVE  /\ prog[Bot] # <<>> /\ Next1(Bot).do = what /\ Takes(Bot, Next1(Bot).do)
         /\ Has(prog[Bot], what)
         /\ what \in BotWords \cup {"find"} => Serving
         /\ what \in IdWords => id[Bot] \in Games
<1>1. prog[Bot] # <<>> /\ Next1(Bot).do = what
  BY DEF Takes
<1>2. PICK S : prog[Bot] \in Seq(S)
  BY DEF ListOK, Serving, Ending
<1>3. Has(prog[Bot], what)
  BY <1>1, <1>2, HasTail DEF Next1
<1>4. what \in BotWords \cup {"find"} => Serving
  <2>1. EndWords \in SUBSET Words
    BY DEF Words
  <2>2. Ending => what \in EndWords \cup {"lock", "unlock"}
    BY <1>3, <2>1, HasWords, PlainSeq DEF Ending
  <2>3. QED
    BY <2>2 DEF ListOK, BotWords, EndWords
<1>5. QED
  BY <1>1, <1>3, <1>4 DEF Takes, ListOK

\* What takes the place of a step of the bot thread works on a game of its own.
BotGoesOnWith(steps) ==
  /\ GoOn(Bot, steps)
  /\ steps = <<>> \/ (Serving /\ steps \in Seq(Steps(BotWords)))
  /\ (\E what \in IdWords : Has(steps, what)) => id'[Bot] \in Games

\* A step of the bot thread.
LEMMA BotGoesOn ==
  ASSUME ProgramsOK, ListOK, Step(Bot)
  PROVE  /\ prog[Bot] # <<>>
         /\ id' = id \/ id'[Bot] \in Games
         /\ \E steps : BotGoesOnWith(steps)
<1>1. Bot \in Threads /\ BotWords \in SUBSET Words
  BY DEF Threads, Words
<1>2. ASSUME GoOn(Bot, <<>>), id' = id, NEW what, Takes(Bot, what)
      PROVE  prog[Bot] # <<>> /\ \E steps : BotGoesOnWith(steps)
  <2>1. \A w : ~Has(<<>>, w)
    BY DEF Has
  <2>2. BotGoesOnWith(<<>>)
    BY <1>2, <2>1 DEF BotGoesOnWith
  <2>3. QED
    BY <1>2, <2>2, BotTakes
<1>3. CASE FindGame(Bot)
  <2>1. Takes(Bot, "find") /\ id' = id
    BY <1>3 DEF FindGame
  <2>2. PICK steps \in {Next1(Bot).found, Next1(Bot).missing} : GoOn(Bot, steps)
    BY <1>3 DEF FindGame
  <2>3. Serving /\ id[Bot] \in Games /\ prog[Bot] # <<>>
    BY <2>1, BotTakes DEF IdWords
  <2>4. Next1(Bot) \in Steps(BotWords) /\ Next1(Bot).do = "find"
    BY <2>1, <2>3, TailFacts DEF Serving, Next1, Takes
  <2>5. steps \in Seq(Steps(BotWords))
    BY <1>1, <2>4, StepFacts, PlainSeq
  <2>6. QED
    BY <2>1, <2>2, <2>3, <2>5 DEF BotGoesOnWith
<1>4. CASE Scan(Bot)
  <2>1. Takes(Bot, "scan") /\ id' = id /\ (GoOn(Bot, TimedOut) \/ GoOn(Bot, <<>>))
    BY <1>4 DEF Scan
  <2>2. Serving /\ prog[Bot] # <<>>
    BY <2>1, BotTakes DEF BotWords
  <2>3. TimedOut \in Seq(Steps(BotWords)) /\ \A what \in IdWords : ~Has(TimedOut, what)
    <3>1. /\ TimedOut \in Seq(Plain(TimedOutWords)) /\ TimedOutWords \in SUBSET Words
          /\ TimedOutWords \cap IdWords = {} /\ Plain(TimedOutWords) \subseteq Steps(BotWords)
      BY TimedOutProgram DEF PlainProgram, TimedOutWords, Words, BotWords, IdWords, Steps, Plain
    <3>2. QED
      BY <3>1, NoIdWords
  <2>4. CASE GoOn(Bot, TimedOut)
    BY <2>1, <2>2, <2>3, <2>4 DEF BotGoesOnWith
  <2>5. QED
    BY <1>2, <2>1, <2>4
<1>5. CASE ChangeState(Bot)
  <2>1. PICK what \in {"start", "stop"} : Takes(Bot, what)
    BY <1>5 DEF ChangeState
  <2>2. /\ id' = id
        /\ \/ GoOn(Bot, Section("b") \o OnGameEnd) \/ GoOn(Bot, Section("b") \o <<Do("use")>>)
           \/ GoOn(Bot, <<>>)
    BY <1>5 DEF ChangeState
  <2>3. Serving /\ prog[Bot] # <<>> /\ id[Bot] \in Games
    BY <2>1, BotTakes DEF BotWords, IdWords
  <2>4. /\ Section("b") \o OnGameEnd \in Seq(Steps(BotWords))
        /\ Section("b") \o <<Do("use")>> \in Seq(Steps(BotWords))
    <3>1. Plain(ChangeWords) \subseteq Steps(BotWords)
      BY DEF ChangeWords, BotWords, Steps, Plain
    <3>2. QED
      BY <3>1, ChangeProgram DEF PlainProgram
  <2>5. ASSUME NEW steps \in Seq(Steps(BotWords)), GoOn(Bot, steps)
        PROVE  \E s : BotGoesOnWith(s)
    BY <2>2, <2>3, <2>5 DEF BotGoesOnWith
  <2>6. QED
    BY <1>2, <2>1, <2>2, <2>3, <2>4, <2>5
<1>6. CASE Read(Bot)
  <2>1. Takes(Bot, "read")
    BY <1>6 DEF Read
  <2>2. Serving /\ prog[Bot] # <<>>
    BY <2>1, BotTakes DEF BotWords
  <2>3. CASE GoOn(Bot, <<>>) /\ id' = id
    BY <1>2, <2>1, <2>3
  <2>4. CASE /\ inbox # <<>> /\ id' = [id EXCEPT ![Bot] = Head(inbox).game]
             /\ GoOn(Bot, Receive(Head(inbox).kind))
    <3>1. Head(inbox) \in Message
      BY <2>4, TailFacts DEF ProgramsOK
    <3>2. id'[Bot] \in Games
      BY <1>1, <2>4, <3>1 DEF Message, ListOK, TypeOK
    <3>3. Receive(Head(inbox).kind) \in Seq(Steps(BotWords))
      BY <3>1, ReceiveProgram DEF Message, Program
    <3>4. QED
      BY <2>2, <2>4, <3>2, <3>3 DEF BotGoesOnWith
  <2>5. QED
    BY <1>6, <2>3, <2>4 DEF Read
<1>7. CASE \/ Acquire(Bot) \/ Release(Bot) \/ Use(Bot) \/ Leave(Bot) \/ Add(Bot)
           \/ Remove(Bot) \/ FreeAll(Bot) \/ Reset(Bot) \/ InitGameList(Bot)
  <2>1. GoOn(Bot, <<>>) /\ id' = id /\ \E what : Takes(Bot, what)
    BY <1>7 DEF Acquire, Release, Use, Leave, Add, Remove, FreeAll, Reset, InitGameList
  <2>2. QED
    BY <1>2, <2>1
<1>8. CASE NextEvent(Bot)
  <2>1. Takes(Bot, "events") /\ id' = id
    BY <1>8 DEF NextEvent
  <2>2. Serving /\ prog[Bot] # <<>> /\ id[Bot] \in Games
    BY <2>1, BotTakes DEF BotWords, IdWords
  <2>3. CASE GoOn(Bot, <<>>)
    BY <1>2, <2>1, <2>3
  <2>4. CASE events[Bot] # <<>> /\ GoOn(Bot, GameEvent(Head(events[Bot])) \o <<Do("events")>>)
    <3>1. Head(events[Bot]) \in EventKinds
      <4>1. events[Bot] \in Seq(EventKinds)
        BY <1>1 DEF ListOK, TypeOK
      <4>2. QED
        BY <2>4, <4>1, TailFacts
    <3>2. GameEvent(Head(events[Bot])) \o <<Do("events")>> \in Seq(Steps(BotWords))
      BY <1>1, <3>1, EventProgram, PlainSeq DEF PlainProgram
    <3>3. QED
      BY <2>1, <2>2, <2>4, <3>2 DEF BotGoesOnWith
  <2>5. QED
    BY <1>8, <2>3, <2>4 DEF NextEvent
<1>9. QED
  BY <1>3, <1>4, <1>5, <1>6, <1>7, <1>8 DEF Step

\* The bot thread goes on serving the session, or ending it.
LEMMA BotPrograms ==
  ASSUME ProgramsOK, ListOK, Step(Bot)
  PROVE  /\ Serving' \/ (Ending' /\ Ending /\ GoOn(Bot, <<>>))
         /\ Serving => Serving'
         /\ GoOn(Bot, <<>>) => prog'[Bot] = Tail(prog[Bot])
         /\ ((\E what \in IdWords : Has(prog[Bot], what)) => id[Bot] \in Games)'
<1> DEFINE p == prog[Bot]
           q == Tail(prog[Bot])
<1>1. prog[Bot] # <<>> /\ (id' = id \/ id'[Bot] \in Games)
  BY BotGoesOn
<1>2. PICK steps : BotGoesOnWith(steps)
  BY BotGoesOn
<1>3. prog'[Bot] = steps \o q
  BY <1>2 DEF BotGoesOnWith, GoOn, Rest, ProgramsOK, Threads
<1>4. ASSUME NEW S, p \in Seq(S)
      PROVE  q \in Seq(S) /\ <<>> \o q = q /\ \A what : Has(q, what) => Has(p, what)
  <2>1. q \in Seq(S)
    BY <1>1, <1>4, TailFacts
  <2>2. <<>> \o q = q
    BY <2>1, ConcatEmptySeq
  <2>3. QED
    BY <1>1, <1>4, <2>1, <2>2, HasTail
<1>5. GoOn(Bot, <<>>) => prog'[Bot] = q
  <2>1. GoOn(Bot, <<>>) => prog'[Bot] = <<>> \o q
    BY DEF GoOn, Rest, ProgramsOK, Threads
  <2>2. <<>> \o q = q
    BY <1>4 DEF ListOK, Serving, Ending
  <2>3. QED
    BY <2>1, <2>2
<1>6. CASE steps = <<>>
  <2>1. prog'[Bot] = q /\ GoOn(Bot, <<>>)
    BY <1>2, <1>5, <1>6 DEF BotGoesOnWith
  <2>2. \A what : Has(q, what) => Has(p, what)
    BY <1>4 DEF ListOK, Serving, Ending
  <2>3. Serving => Serving'
    BY <1>4, <2>1 DEF Serving
  <2>4. Ending => Ending'
    <3>1. Ending => EndsInOrder(q)
      BY <1>1, TailOrder DEF Ending
    <3>2. QED
      BY <1>4, <2>1, <3>1 DEF Ending
  <2>5. ((\E what \in IdWords : Has(prog[Bot], what)) => id[Bot] \in Games)'
    <3>1. ASSUME NEW what \in IdWords, Has(q, what)  PROVE id'[Bot] \in Games
      BY <1>1, <2>2, <3>1 DEF ListOK
    <3>2. QED
      BY <2>1, <3>1
  <2>6. QED
    BY <1>5, <2>1, <2>3, <2>4, <2>5 DEF ListOK
<1>7. CASE Serving /\ steps \in Seq(Steps(BotWords))
  <2>1. q \in Seq(Steps(BotWords)) /\ \A what : Has(q, what) => Has(p, what)
    BY <1>4, <1>7 DEF Serving
  <2>2. Serving'
    BY <1>3, <1>7, <2>1, JoinFacts DEF Serving
  <2>3. \A what : Has(prog'[Bot], what) <=> Has(steps, what) \/ Has(q, what)
    <3>1. steps \in Seq(Steps(BotWords)) /\ q \in Seq(Steps(BotWords))
      BY <1>7, <2>1
    <3> HIDE DEF q
    <3>2. QED
      BY <1>3, <3>1, HasJoin
  <2>4. ((\E what \in IdWords : Has(prog[Bot], what)) => id[Bot] \in Games)'
    <3>1. ASSUME NEW what \in IdWords, Has(prog'[Bot], what)  PROVE id'[Bot] \in Games
      <4>1. CASE Has(steps, what)
        BY <1>2, <3>1, <4>1 DEF BotGoesOnWith
      <4>2. CASE Has(q, what)
        BY <1>1, <2>1, <3>1, <4>2 DEF ListOK
      <4>3. QED
        BY <2>3, <3>1, <4>1, <4>2
    <3>2. QED
      BY <3>1
  <2>5. QED
    BY <1>5, <2>2, <2>4
<1>8. QED
  BY <1>2, <1>6, <1>7 DEF BotGoesOnWith

\* While a session is served nothing ends.
LEMMA ServingEndsNothing ==
  ASSUME NEW p \in Seq(Steps(BotWords)), NEW what \in EndWords
  PROVE  ~Has(p, what)
<1>1. BotWords \in SUBSET Words
  BY DEF Words
<1>2. QED
  BY <1>1, HasWords DEF EndWords, BotWords

\* The memory of games after a step of the bot thread.
LEMMA BotPhases ==
  ASSUME ProgramsOK, ListOK, Step(Bot)
  PROVE  Phases'
<1> DEFINE p == prog[Bot]
           r == prog'[Bot]
<1>1. /\ Serving' \/ (Ending' /\ Ending /\ GoOn(Bot, <<>>))
      /\ Serving => Serving'
      /\ GoOn(Bot, <<>>) => prog'[Bot] = Tail(prog[Bot])
  BY BotPrograms
<1>2. /\ listed \subseteq Games /\ memory \in [Games -> {"none", "live", "freed"}] /\ Phases
  BY DEF ListOK, TypeOK
<1>3. prog[Bot] # <<>>
  BY BotGoesOn
<1>4. ASSUME Ending, Ending', GoOn(Bot, <<>>)
      PROVE  /\ \A what : Has(p, what) <=> Next1(Bot).do = what \/ Has(r, what)
             /\ Next1(Bot).do \in EndWords => ~Has(r, "freeAll")
             /\ Next1(Bot).do \in {"reset", "init"} => ~Has(r, "reset")
  <2>1. r = Tail(p) /\ p \in Seq(Plain(EndWords)) /\ EndsInOrder(p)
    BY <1>1, <1>4 DEF Ending
  <2>2. QED
    BY <1>3, <2>1, HasTail, TailOrder DEF Next1
<1>5. ASSUME listed' = Live', Serving'  PROVE Phases'
  <2>1. \A what \in EndWords : ~Has(r, what)
    BY <1>5, ServingEndsNothing DEF Serving
  <2>2. QED
    BY <1>5, <2>1 DEF Phases, EndWords
<1>6. Serving => listed = Live
  <2>1. Serving => ~Has(p, "reset")
    BY ServingEndsNothing DEF Serving, EndWords
  <2>2. QED
    BY <1>2, <2>1 DEF Phases
<1>7. CASE Add(Bot)
  <2>1. /\ Takes(Bot, "add") /\ listed' = listed \cup {id[Bot]}
        /\ memory' = [memory EXCEPT ![id[Bot]] = "live"]
    BY <1>7 DEF Add
  <2>2. Serving /\ id[Bot] \in Games
    BY <2>1, BotTakes DEF BotWords, IdWords
  <2>3. listed' = Live'
    BY <1>2, <1>6, <2>1, <2>2 DEF Live
  <2>4. QED
    BY <1>1, <1>5, <2>2, <2>3
<1>8. CASE Remove(Bot)
  <2>1. Takes(Bot, "remove")
    BY <1>8 DEF Remove
  <2>2. Serving
    BY <2>1, BotTakes DEF BotWords
  <2>3. listed' = Live'
    BY <1>2, <1>6, <1>8, <2>2 DEF Live, Remove
  <2>4. QED
    BY <1>1, <1>5, <2>2, <2>3
<1>9. CASE FreeAll(Bot) \/ Reset(Bot) \/ InitGameList(Bot)
  <2>1. GoOn(Bot, <<>>) /\ \E what \in EndWords : Takes(Bot, what)
    BY <1>9 DEF FreeAll, Reset, InitGameList, EndWords
  <2>2. PICK what \in EndWords : Takes(Bot, what) /\ Next1(Bot).do = what
    BY <2>1 DEF Takes
  <2>3. ~Serving
    BY <2>2, BotTakes, ServingEndsNothing DEF Serving
  <2>4. Ending
    BY <2>3 DEF ListOK
  <2>5. CASE Serving'
    <3>1. \A w \in EndWords : ~Has(r, w)
      BY <2>5, ServingEndsNothing DEF Serving
    <3>2. \A w : Has(p, w) <=> Next1(Bot).do = w \/ Has(r, w)
      BY <1>1, <1>3, <2>1, <2>4, HasTail DEF Next1, Ending
    <3>3. listed' = Live'
      BY <1>2, <1>9, <2>2, <3>1, <3>2
      DEF FreeAll, Reset, InitGameList, Takes, Live, Phases, EndWords
    <3>4. QED
      BY <1>5, <2>5, <3>3
  <2>6. CASE Ending'
    <3>1. CASE FreeAll(Bot)
      BY <1>2, <1>4, <2>1, <2>4, <2>6, <3>1 DEF FreeAll, Takes, Live, Phases, EndWords
    <3>2. CASE Reset(Bot)
      BY <1>2, <1>4, <2>1, <2>4, <2>6, <3>2 DEF Reset, Takes, Live, Phases, EndWords
    <3>3. CASE InitGameList(Bot)
      BY <1>2, <1>4, <2>1, <2>4, <2>6, <3>3 DEF InitGameList, Takes, Live, Phases, EndWords
    <3>4. QED
      BY <1>9, <3>1, <3>2, <3>3
  <2>7. QED
    BY <1>1, <2>5, <2>6
<1>10. CASE UNCHANGED <<listed, memory>> /\ (\E what : Takes(Bot, what) /\ what \notin EndWords)
  <2>1. PICK what : Takes(Bot, what) /\ Next1(Bot).do = what /\ what \notin EndWords
    BY <1>10 DEF Takes
  <2>2. Live' = Live
    BY <1>10 DEF Live
  <2>3. CASE Serving
    BY <1>1, <1>5, <1>6, <1>10, <2>2, <2>3
  <2>4. CASE ~Serving
    <3>1. Ending /\ GoOn(Bot, <<>>)
      <4>1. Ending
        BY <2>4 DEF ListOK
      <4>2. PICK steps : BotGoesOnWith(steps)
        BY BotGoesOn
      <4>3. QED
        BY <2>4, <4>1, <4>2 DEF BotGoesOnWith
    <3>2. \A w \in EndWords : Has(r, w) <=> Has(p, w)
      BY <1>1, <1>3, <2>1, <3>1, HasTail DEF Next1, Ending
    <3>3. QED
      BY <1>2, <1>10, <2>2, <3>2 DEF Phases, EndWords
  <2>5. QED
    BY <2>3, <2>4
<1>11. CASE \/ Acquire(Bot) \/ Release(Bot) \/ FindGame(Bot) \/ Scan(Bot) \/ Use(Bot)
            \/ ChangeState(Bot) \/ Leave(Bot) \/ Read(Bot) \/ NextEvent(Bot)
  <2>1. UNCHANGED <<listed, memory>>
    BY <1>11
    DEF Acquire, Release, FindGame, Scan, Use, ChangeState, Leave, Read, NextEvent, listVars
  <2>2. \E what : Takes(Bot, what) /\ what \notin EndWords
    BY <1>11
    DEF Acquire, Release, FindGame, Scan, Use, ChangeState, Leave, Read, NextEvent, EndWords
  <2>3. QED
    BY <1>10, <2>1, <2>2
<1>12. QED
  BY <1>7, <1>8, <1>9, <1>11 DEF Step

\* What the API thread does.
LEMMA ApiTakes ==
  ASSUME ProgramsOK, NEW what, Takes(Api, what)
  PROVE  what \in ApiWords \cup {"lock", "unlock", "find"}
<1>1. Api \in Threads
  BY DEF Threads
<1>2. QED
  BY <1>1, NextFacts DEF Kits

\* What a step of the API thread may be.
LEMMA ApiSteps ==
  ASSUME ProgramsOK, ListOK, Step(Api)
  PROVE  /\ prog'[Bot] = prog[Bot] /\ id'[Bot] = id[Bot] /\ ref'[Bot] = ref[Bot]
         /\ closed' = closed
         /\ \/ Acquire(Api) \/ Release(Api) \/ FindGame(Api) \/ Use(Api)
            \/ Remove(Api) /\ "end" \in Requests
<1>1. \A what : Takes(Api, what) => what \in {"use", "remove", "lock", "unlock", "find"}
  BY ApiTakes DEF ApiWords
<1>2. Takes(Api, "remove") => "end" \in Requests
  BY ApiTakes DEF ApiWords
<1>3. ~Scan(Api) /\ ~ChangeState(Api) /\ ~Leave(Api) /\ ~Add(Api)
  BY <1>1 DEF Scan, ChangeState, Leave, Add
<1>4. ~FreeAll(Api) /\ ~Reset(Api) /\ ~InitGameList(Api) /\ ~Read(Api) /\ ~NextEvent(Api)
  BY <1>1 DEF FreeAll, Reset, InitGameList, Read, NextEvent
<1>5. Remove(Api) => "end" \in Requests
  BY <1>2 DEF Remove
<1>6. \/ Acquire(Api) \/ Release(Api) \/ FindGame(Api) \/ Use(Api)
      \/ Remove(Api) /\ "end" \in Requests
  BY <1>3, <1>4, <1>5 DEF Step
<1>7. \E steps : GoOn(Api, steps)
  BY <1>6 DEF Acquire, Release, FindGame, Use, Remove
<1>8. /\ id' = id /\ closed' = closed
      /\ ref' = ref \/ \E g : ref' = [ref EXCEPT ![Api] = g]
  BY <1>6 DEF Acquire, Release, FindGame, Use, Remove, loopVars
<1>9. DOMAIN prog = Threads /\ DOMAIN ref = Threads /\ Bot \in Threads /\ Bot # Api
  BY GameListAssumption DEF ProgramsOK, ListOK, TypeOK, Threads
<1>10. QED
  BY <1>6, <1>7, <1>8, <1>9 DEF GoOn

\* It leaves the list and the memory in step.
LEMMA ApiList ==
  ASSUME ProgramsOK, ListOK, Step(Api)
  PROVE  Phases'
<1>1. /\ prog'[Bot] = prog[Bot]
      /\ \/ Acquire(Api) \/ Release(Api) \/ FindGame(Api) \/ Use(Api)
         \/ Remove(Api) /\ "end" \in Requests
  BY ApiSteps
<1>2. /\ listed \subseteq Games /\ memory \in [Games -> {"none", "live", "freed"}] /\ Phases
  BY DEF ListOK, TypeOK
<1>3. CASE UNCHANGED <<listed, memory>>
  BY <1>1, <1>2, <1>3 DEF Phases, Live
<1>4. CASE Remove(Api) /\ ref[Api] \in listed
  <2>1. listed' = listed \ {ref[Api]} /\ Live' = Live \ {ref[Api]}
    BY <1>2, <1>4 DEF Remove, Live
  <2>2. QED
    BY <1>1, <1>2, <2>1 DEF Phases
<1>5. QED
  BY <1>1, <1>3, <1>4 DEF Acquire, Release, FindGame, Use, Remove, listVars

\* Types.
LEMMA StepTypes ==
  ASSUME ProgramsOK, ListOK, NEW t \in Threads, Step(t)
  PROVE  TypeOK'
<1>1. TypeOK /\ holder' \in [{"b", "gl"} -> Threads \cup {Nobody}]
  BY StepPrograms DEF ListOK, ProgramsOK, Mutexes
<1>2. \A what \in IdWords : Takes(t, what) => what = "find" \/ id[t] \in Games
  <2>1. CASE t = Bot
    BY <2>1, BotTakes
  <2>2. CASE t = Api
    BY <2>2, ApiTakes DEF ApiWords, IdWords
  <2>3. QED
    BY <2>1, <2>2 DEF Threads
<1>3. CASE Acquire(t) \/ Release(t) \/ Use(t)
  BY <1>1, <1>3 DEF Acquire, Release, Use, TypeOK, listVars, loopVars, serverVars
<1>4. CASE FindGame(t)
  BY <1>1, <1>4 DEF FindGame, TypeOK, listVars, loopVars, serverVars
<1>5. CASE Scan(t)
  BY <1>1, <1>5 DEF Scan, TypeOK, listVars, loopVars, serverVars
<1>6. CASE ChangeState(t)
  BY <1>1, <1>6 DEF ChangeState, TypeOK, loopVars, serverVars
<1>7. CASE Leave(t)
  <2>1. id[t] \in Games
    BY <1>2, <1>7 DEF Leave, IdWords
  <2>2. QED
    BY <1>1, <1>7, <2>1 DEF Leave, TypeOK, loopVars, serverVars
<1>8. CASE Add(t)
  <2>1. id[t] \in Games
    BY <1>2, <1>8 DEF Add, IdWords
  <2>2. QED
    BY <1>1, <1>8, <2>1 DEF Add, TypeOK, loopVars, serverVars
<1>9. CASE Remove(t)
  BY <1>1, <1>9 DEF Remove, TypeOK, loopVars, serverVars
<1>10. CASE FreeAll(t) \/ Reset(t)
  BY <1>1, <1>10 DEF FreeAll, Reset, TypeOK, loopVars, serverVars
<1>11. CASE InitGameList(t)
  BY <1>1, <1>11 DEF InitGameList, TypeOK, loopVars, serverVars
<1>12. CASE Read(t)
  <2>1. inbox \in Seq(Message)
    BY DEF ProgramsOK
  <2>2. ASSUME inbox # <<>>
        PROVE  Head(inbox) \in Message /\ Len(inbox) \in Nat /\ Len(Tail(inbox)) = Len(inbox) - 1
    BY <2>1, <2>2, TailFacts
  <2>3. Len(inbox') <= MaxInbox
    BY <1>1, <1>12, <2>2, GameListAssumption DEF Read, TypeOK
  <2>4. id' \in [Threads -> Games \cup {NoGame}]
    BY <1>1, <1>12, <2>2 DEF Read, TypeOK, Message
  <2>5. events' \in [Threads -> Seq(EventKinds)]
    BY <1>1, <1>12, <2>2 DEF Read, TypeOK, Message
  <2>6. QED
    BY <1>1, <1>12, <2>3, <2>4, <2>5 DEF Read, TypeOK, listVars
<1>13. CASE NextEvent(t)
  <2>1. events[t] \in Seq(EventKinds) /\ closed[t] \in BOOLEAN
    BY <1>1 DEF TypeOK
  <2>2. events[t] # <<>> => Tail(events[t]) \in Seq(EventKinds)
    BY <2>1, TailFacts
  <2>3. events' \in [Threads -> Seq(EventKinds)]
    BY <1>1, <1>13, <2>2 DEF NextEvent, TypeOK, loopVars
  <2>4. closed' \in [Threads -> BOOLEAN]
    <3>1. \A b : (closed[t] \/ b) \in BOOLEAN
      BY <2>1
    <3>2. QED
      BY <1>1, <1>13, <3>1 DEF NextEvent, TypeOK, loopVars
  <2>5. QED
    BY <1>1, <1>13, <2>3, <2>4 DEF NextEvent, TypeOK, listVars, serverVars
<1>14. QED
  BY <1>3, <1>4, <1>5, <1>6, <1>7, <1>8, <1>9, <1>10, <1>11, <1>12, <1>13 DEF Step

\* An operation begins with no events of a message.
LEMMA BeginTypes ==
  ASSUME TypeOK, NEW t, NEW p, NEW g \in Games \cup {NoGame}, Begin(t, p, g)
  PROVE  /\ id' \in [Threads -> Games \cup {NoGame}] /\ ref' \in [Threads -> Games \cup {NoGame}]
         /\ events' \in [Threads -> Seq(EventKinds)] /\ closed' \in [Threads -> BOOLEAN]
         /\ UNCHANGED <<holder, listed, memory, started, leaves>>
<1>1. /\ id' \in [Threads -> Games \cup {NoGame}] /\ ref' \in [Threads -> Games \cup {NoGame}]
      /\ UNCHANGED <<holder, listed, memory, started, leaves>>
  BY DEF Begin, TypeOK, listVars
<1>2. events' \in [Threads -> Seq(EventKinds)]
  <2>1. <<>> \in Seq(EventKinds)
    OBVIOUS
  <2>2. QED
    BY <2>1 DEF Begin, TypeOK
<1>3. closed' \in [Threads -> BOOLEAN]
  <2>1. FALSE \in BOOLEAN
    OBVIOUS
  <2>2. QED
    BY <2>1 DEF Begin, TypeOK
<1>4. QED
  BY <1>1, <1>2, <1>3

\* An operation of the bot thread begins.
LEMMA BeginList ==
  ASSUME ProgramsOK, ListOK, NEW W, NEW p \in Seq(Plain(W)), Begin(Bot, p, NoGame),
         W = PollWords \/ (W = EndWords /\ p = EndThread), UNCHANGED <<leaves, started>>
  PROVE  /\ (Serving \/ Ending)' /\ Phases'
         /\ \A what \in IdWords : ~Has(prog'[Bot], what)
<1>1. /\ prog[Bot] = <<>> /\ prog'[Bot] = p /\ UNCHANGED <<listed, memory>>
  BY DEF Begin, ProgramsOK, Threads, listVars
<1>2. listed = Live /\ Live' = Live
  <2>1. \A what : ~Has(prog[Bot], what)
    BY <1>1 DEF Has
  <2>2. QED
    BY <1>1, <2>1 DEF ListOK, Phases, Live
<1>3. W \in SUBSET Words /\ W \cap IdWords = {}
  BY DEF PollWords, EndWords, Words, BotWords, IdWords
<1>4. \A what \in IdWords : ~Has(p, what)
  BY <1>3, NoIdWords
<1>5. CASE W = PollWords
  <2>1. Plain(W) \subseteq Steps(BotWords)
    BY <1>5 DEF PollWords, BotWords, Steps, Plain
  <2>2. p \in Seq(Steps(BotWords))
    BY <2>1
  <2>3. Serving' /\ \A what \in EndWords : ~Has(p, what)
    BY <1>1, <2>2, ServingEndsNothing DEF Serving
  <2>4. Phases'
    BY <1>1, <1>2, <2>3 DEF Phases, EndWords
  <2>5. QED
    BY <1>1, <1>4, <2>3, <2>4
<1>6. CASE W = EndWords /\ p = EndThread
  <2>1. Ending'
    BY <1>1, <1>6, EndThreadInOrder DEF Ending
  <2>2. Phases'
    BY <1>1, <1>2, <1>6, EndThreadInOrder DEF Phases
  <2>3. QED
    BY <1>1, <1>4, <2>1, <2>2
<1>7. QED
  BY <1>5, <1>6

\* The server speaks: neither the list nor the bot thread changes.
LEMMA SaysList ==
  ASSUME ProgramsOK, ListOK, ServerSays
  PROVE  TypeOK' /\ UNCHANGED <<prog, id, ref, loopVars, listed, memory>>
<1>1. /\ UNCHANGED <<holder, prog, id, ref, loopVars, listed, memory, started, disconnects>>
      /\ \/ Len(inbox) < MaxInbox /\ Len(inbox') = Len(inbox) + 1
         \/ Len(inbox') = Len(inbox)
  BY SaysMessages DEF ProgramsOK
<1>2. Len(inbox') <= MaxInbox
  <2>1. inbox \in Seq(Message) /\ Len(inbox) <= MaxInbox
    BY DEF ProgramsOK, ListOK, TypeOK
  <2>2. Len(inbox) \in Nat
    BY <2>1
  <2>3. QED
    BY <1>1, <2>1, <2>2, GameListAssumption
<1>3. server' \in [Games -> {"none", "waiting", "playing", "closed"}] /\ leaves' \subseteq Games
  BY DEF ServerSays, ListOK, TypeOK, ServerMakes, ServerStarts, ServerStops, ServerMovesPlayers,
         ServerCloses, ServerTellsMore, ServerLetsLeave, Tells, TellsMore, listVars
<1>4. QED
  BY <1>1, <1>2, <1>3 DEF ListOK, TypeOK, loopVars

\* ListOK is inductive.
LEMMA NextList ==
  ASSUME ProgramsOK, ListOK, [Next]_vars
  PROVE  ListOK'
<1>1. CASE Step(Bot)
  <2>1. Bot \in Threads
    BY DEF Threads
  <2>2. QED
    BY <1>1, <2>1, StepTypes, BotPrograms, BotPhases DEF ListOK
<1>2. CASE Step(Api)
  <2>1. TypeOK'
    BY <1>2, StepTypes DEF Threads
  <2>2. prog'[Bot] = prog[Bot] /\ id'[Bot] = id[Bot]
    BY <1>2, ApiSteps
  <2>3. (Serving \/ Ending)'
    BY <2>2 DEF ListOK, Serving, Ending
  <2>4. QED
    BY <1>2, <2>1, <2>2, <2>3, ApiList DEF ListOK
<1>3. CASE BeginPoll
  <2>1. PICK newSecond \in BOOLEAN, pingDue \in BOOLEAN :
          Begin(Bot, Poll(newSecond, pingDue), NoGame)
    BY <1>3 DEF BeginPoll
  <2>2. Poll(newSecond, pingDue) \in Seq(Plain(PollWords))
    BY PollProgram DEF PlainProgram
  <2>3. TypeOK'
    <3>1. TypeOK /\ UNCHANGED <<inbox, server, disconnects>>
      BY <1>3 DEF BeginPoll, ListOK, serverVars
    <3>2. QED
      BY <2>1, <3>1, BeginTypes DEF TypeOK
  <2>4. UNCHANGED <<leaves, started>>
    BY <2>1 DEF Begin, listVars
  <2>5. QED
    BY <2>1, <2>2, <2>3, <2>4, BeginList DEF ListOK
<1>4. CASE Disconnect
  <2>1. Begin(Bot, EndThread, NoGame)
    BY <1>4 DEF Disconnect
  <2>2. TypeOK'
    <3>1. TypeOK /\ inbox' = <<>> /\ disconnects' \in 0..MaxDisconnects
      BY <1>4, GameListAssumption DEF Disconnect, ListOK, TypeOK
    <3>2. server' \in [Games -> {"none", "waiting", "playing", "closed"}]
      BY <1>4 DEF Disconnect
    <3>3. Len(inbox') <= MaxInbox
      BY <3>1, GameListAssumption
    <3>4. QED
      BY <2>1, <3>1, <3>2, <3>3, BeginTypes DEF TypeOK
  <2>3. UNCHANGED <<leaves, started>>
    BY <2>1 DEF Begin, listVars
  <2>4. QED
    BY <2>1, <2>2, <2>3, EndThreadInOrder, BeginList DEF ListOK
<1>5. CASE BeginRequest
  <2>1. PICK kind \in Requests, g \in Games : Begin(Api, Request(kind), g)
    BY <1>5 DEF BeginRequest
  <2>2. TypeOK'
    <3>1. TypeOK /\ UNCHANGED <<inbox, server, disconnects>>
      BY <1>5 DEF BeginRequest, ListOK, serverVars
    <3>2. QED
      BY <2>1, <3>1, BeginTypes DEF TypeOK
  <2>3. DOMAIN prog = Threads /\ DOMAIN id = Threads /\ Bot \in Threads /\ Bot # Api
    BY GameListAssumption DEF ProgramsOK, ListOK, TypeOK, Threads
  <2>4. prog'[Bot] = prog[Bot] /\ id'[Bot] = id[Bot] /\ UNCHANGED <<listed, memory>>
    BY <2>1, <2>3 DEF Begin, listVars
  <2>5. QED
    BY <2>2, <2>4 DEF ListOK, Serving, Ending, Phases, Live
<1>6. CASE ServerSays
  BY <1>6, SaysList DEF ListOK, Serving, Ending, Phases, Live
<1>7. CASE UNCHANGED vars
  BY <1>7
  DEF vars, threadVars, loopVars, listVars, serverVars,
      ListOK, TypeOK, Serving, Ending, Phases, Live
<1>8. QED
  BY <1>1, <1>2, <1>3, <1>4, <1>5, <1>6, <1>7 DEF Next, Threads

\* There is no game yet.
LEMMA InitMemory ==
  ASSUME Init
  PROVE  ListOK /\ PointerOK
<1>1. prog[Bot] = <<>>
  BY DEF Init, Threads
<1>2. \A what : ~Has(prog[Bot], what)
  BY <1>1 DEF Has
<1>3. TypeOK
  BY GameListAssumption DEF Init, TypeOK
<1>4. Serving
  BY <1>1 DEF Serving
<1>5. Phases
  BY <1>2 DEF Phases, Live, Init
<1>6. PointerOK
  BY <1>1, <1>2 DEF PointerOK, Uses, UsesFirst, FindsFirst
<1>7. QED
  BY <1>2, <1>3, <1>4, <1>5, <1>6 DEF ListOK

\* The games of the list are alive and no others are, save while botThread ends:
\* whatever is added, removed, looked up, timed out, closed and left meanwhile.
THEOREM ListedLiveHolds == Safety => []ListedLive
<1>1. Init => ListOK
  BY InitMemory
<1>2. ProgramsOK /\ ListOK /\ [Next]_vars => ListOK'
  BY NextList
<1>3. Init => ProgramsOK
  BY InitPrograms
<1>4. ProgramsOK /\ [Next]_vars => ProgramsOK'
  BY NextPrograms
<1>5. ListOK => ListedLive
  <2> SUFFICES ASSUME ListOK, \A i \in 1..Len(prog[Bot]) : prog[Bot][i].do # "reset"
               PROVE  listed = {g \in Games : memory[g] = "live"}
    BY DEF ListOK, ListedLive
  <2>1. ~Has(prog[Bot], "reset")
    BY DEF Has
  <2>2. QED
    BY <2>1 DEF ListOK, Phases, Live
<1>6. QED
  BY <1>1, <1>2, <1>3, <1>4, <1>5, PTL DEF Safety

-----------------------------------------------------------------------------
\* The pointer of the bot thread.

\* Programs after one another use what they use before they forget it.
LEMMA OrderlyJoin ==
  ASSUME NEW S, NEW p \in Seq(S), NEW q \in Seq(S),
         UsesFirst(p), UsesFirst(q), FindsFirst(p), FindsFirst(q),
         ~Uses(q) \/ \A what \in ForgetWords : ~Has(p, what)
  PROVE  UsesFirst(p \o q) /\ FindsFirst(p \o q)
<1> DEFINE r == p \o q
<1>1. /\ Len(p) \in Nat /\ Len(q) \in Nat /\ Len(r) = Len(p) + Len(q)
      /\ \A i \in 1..Len(p) : r[i] = p[i]
      /\ \A i \in 1..Len(q) : r[Len(p) + i] = q[i]
  BY JoinFacts
<1> HIDE DEF r
<1>2. ASSUME NEW i \in 1..Len(r)
      PROVE  \/ i \in 1..Len(p) /\ r[i] = p[i]
             \/ i > Len(p) /\ i - Len(p) \in 1..Len(q) /\ r[i] = q[i - Len(p)]
  <2>1. CASE i <= Len(p)
    BY <1>1, <2>1
  <2>2. CASE i > Len(p)
    <3>1. i - Len(p) \in 1..Len(q) /\ Len(p) + (i - Len(p)) = i
      BY <1>1, <2>2
    <3>2. QED
      BY <1>1, <2>2, <3>1
  <2>3. QED
    BY <1>1, <2>1, <2>2
<1>3. FindsFirst(r)
  BY <1>2 DEF FindsFirst
<1>4. ASSUME NEW i \in 1..Len(r), NEW j \in 1..Len(r), i < j, r[i].do \in ForgetWords,
             r[j].do \in UseWords
      PROVE  FALSE
  <2>1. CASE j \in 1..Len(p) /\ r[j] = p[j]
    <3>1. i \in 1..Len(p) /\ r[i] = p[i]
      BY <1>1, <1>4, <2>1
    <3>2. QED
      BY <1>4, <2>1, <3>1 DEF UsesFirst
  <2>2. CASE j > Len(p) /\ j - Len(p) \in 1..Len(q) /\ r[j] = q[j - Len(p)]
    <3>1. Uses(q)
      BY <1>4, <2>2 DEF Uses, Has
    <3>2. CASE i \in 1..Len(p) /\ r[i] = p[i]
      BY <1>4, <3>1, <3>2 DEF Has
    <3>3. CASE i > Len(p) /\ i - Len(p) \in 1..Len(q) /\ r[i] = q[i - Len(p)]
      <4>1. i - Len(p) < j - Len(p)
        BY <1>1, <1>4, <2>2, <3>3
      <4>2. QED
        BY <1>4, <2>2, <3>3, <4>1 DEF UsesFirst
    <3>4. QED
      BY <1>2, <3>2, <3>3
  <2>3. QED
    BY <1>2, <2>1, <2>2
<1>5. UsesFirst(r)
  BY <1>4 DEF UsesFirst
<1>6. QED
  BY <1>3, <1>5 DEF r

\* Steps that forget nothing, or use nothing, are in order.
LEMMA OrderlyPlain ==
  ASSUME NEW W \in SUBSET Words, NEW p \in Seq(Plain(W)),
         W \cap ForgetWords = {} \/ W \cap UseWords = {}
  PROVE  /\ UsesFirst(p) /\ FindsFirst(p)
         /\ W \cap ForgetWords = {} => \A what \in ForgetWords : ~Has(p, what)
         /\ W \cap UseWords = {} => ~Uses(p)
<1>1. ASSUME NEW i \in 1..Len(p)  PROVE p[i].do \in W \cup {"lock", "unlock"}
  <2>1. p[i] \in Plain(W)
    OBVIOUS
  <2>2. QED
    BY <2>1 DEF Plain
<1>2. {"lock", "unlock"} \cap ForgetWords = {} /\ {"lock", "unlock"} \cap UseWords = {}
  BY DEF ForgetWords, UseWords
<1>3. UsesFirst(p)
  BY <1>1, <1>2 DEF UsesFirst
<1>4. FindsFirst(p)
  BY <1>1 DEF FindsFirst, Words, BotWords, EndWords
<1>5. W \cap ForgetWords = {} => \A what \in ForgetWords : ~Has(p, what)
  BY <1>1, <1>2 DEF Has
<1>6. W \cap UseWords = {} => ~Uses(p)
  BY <1>1, <1>2 DEF Uses, Has
<1>7. QED
  BY <1>3, <1>4, <1>5, <1>6

\* A lookup that leads to such steps.
LEMMA OrderlyFind ==
  ASSUME NEW f, NEW m, UsesFirst(f), ~Uses(m)
  PROVE  LET p == <<Lock("gl"), Find(f, m)>> IN UsesFirst(p) /\ FindsFirst(p) /\ ~Uses(p)
<1> DEFINE p == <<Lock("gl"), Find(f, m)>>
<1>1. /\ Len(p) = 2 /\ p[1].do = "lock" /\ p[2].do = "find"
      /\ p[2].found = f /\ p[2].missing = m
  BY DEF Lock, Find
<1> HIDE DEF p
<1>2. \A i \in 1..Len(p) : p[i].do \notin UseWords /\ (p[i].do = "find" => i = 2)
  BY <1>1 DEF UseWords
<1>3. UsesFirst(p) /\ ~Uses(p)
  BY <1>2 DEF UsesFirst, Uses, Has
<1>4. FindsFirst(p)
  BY <1>1, <1>2 DEF FindsFirst
<1>5. QED
  BY <1>3, <1>4 DEF p

\* A message is about the game that is looked up, and its pointer is used before
\* the game is removed.
LEMMA ReceiveOrderly ==
  ASSUME NEW kind \in Kinds
  PROVE  UsesFirst(Receive(kind)) /\ FindsFirst(Receive(kind)) /\ ~Uses(Receive(kind))
<1> DEFINE Orderly(p) == UsesFirst(p) /\ FindsFirst(p) /\ ~Uses(p)
<1>1. /\ UseWords \in SUBSET Words /\ {"remove"} \in SUBSET Words /\ {"add"} \in SUBSET Words
      /\ UseWords \cap ForgetWords = {}
      /\ {"remove"} \cap UseWords = {} /\ {"add"} \cap UseWords = {}
  BY DEF UseWords, ForgetWords, Words, BotWords
<1>2. \A W : /\ PlainProgram(<<Unlock("gl")>>, W) /\ PlainProgram(Section("b"), W)
             /\ PlainProgram(CheckRunning, W)
  BY Basics DEF CheckRunning
<1>3. ASSUME NEW p, PlainProgram(p, UseWords) \/ PlainProgram(p, {"remove"})
      PROVE  Orderly(<<Lock("gl"), Find(p, <<Unlock("gl")>>)>>)
  <2>1. UsesFirst(p)
    BY <1>1, <1>3, OrderlyPlain DEF PlainProgram
  <2>2. ~Uses(<<Unlock("gl")>>)
    BY <1>1, <1>2, OrderlyPlain DEF PlainProgram
  <2>3. QED
    BY <2>1, <2>2, OrderlyFind
<1>4. ASSUME NEW p \in Seq(Steps(BotWords)), Orderly(p)
      PROVE  Orderly(p \o CheckRunning)
  <2>1. CheckRunning \in Seq(Steps(BotWords))
    BY <1>2, PlainSeq DEF PlainProgram
  <2>2. Orderly(CheckRunning)
    BY <1>1, <1>2, OrderlyPlain DEF PlainProgram
  <2>3. UsesFirst(p \o CheckRunning) /\ FindsFirst(p \o CheckRunning)
    BY <1>4, <2>1, <2>2, OrderlyJoin
  <2>4. ~Uses(p \o CheckRunning)
    <3>1. \A what : Has(p \o CheckRunning, what) <=> Has(p, what) \/ Has(CheckRunning, what)
      BY <2>1, HasJoin
    <3>2. QED
      BY <1>4, <2>2, <3>1 DEF Uses
  <2>5. QED
    BY <2>3, <2>4
<1>5. BotWords \in SUBSET Words /\ {"remove", "add"} \cup UseWords \subseteq BotWords
  BY DEF Words, BotWords, UseWords
<1>6. PlainProgram(RemoveGame, {"remove"}) /\ PlainProgram(EditPlayers, UseWords)
  BY <1>1, Written DEF UseWords
<1>7. CASE kind = "joined"
  <2>1. PlainProgram(AddGame, {"add"}) /\ PlainProgram(AddGame, BotWords)
    BY <1>1, <1>5, Written
  <2>2. Orderly(AddGame) /\ AddGame \in Seq(Steps(BotWords))
    BY <1>1, <2>1, OrderlyPlain, PlainSeq DEF PlainProgram
  <2>3. Receive(kind) = AddGame \o CheckRunning
    BY <1>7 DEF Receive
  <2>4. QED
    BY <1>4, <2>2, <2>3
<1>8. ASSUME NEW p, PlainProgram(p, UseWords) \/ PlainProgram(p, {"remove"}),
             Receive(kind) = <<Lock("gl"), Find(p, <<Unlock("gl")>>)>> \o CheckRunning
      PROVE  Orderly(Receive(kind))
  <2>1. <<Lock("gl"), Find(p, <<Unlock("gl")>>)>> \in Seq(Steps(BotWords))
    <3>1. p \in Seq(Plain(BotWords)) /\ <<Unlock("gl")>> \in Seq(Plain(BotWords))
      <4>1. Plain(UseWords) \subseteq Plain(BotWords) /\ Plain({"remove"}) \subseteq Plain(BotWords)
        BY <1>5 DEF Plain
      <4>2. QED
        BY <1>2, <1>8, <4>1 DEF PlainProgram
    <3>2. Lock("gl") \in Steps(BotWords) /\ Find(p, <<Unlock("gl")>>) \in Steps(BotWords)
      BY <3>1 DEF Lock, Find, Steps, Plain, Mutexes
    <3>3. QED
      BY <3>2
  <2>2. QED
    BY <1>3, <1>4, <1>8, <2>1
<1>9. CASE kind = "left"
  <2>1. PlainProgram(<<Unlock("gl")>> \o RemoveGame, {"remove"})
    BY <1>2, <1>6, PlainJoin
  <2>2. QED
    BY <1>8, <1>9, <2>1 DEF Receive
<1>10. CASE kind = "events"
  <2>1. PlainProgram(<<Unlock("gl"), Do("events")>>, UseWords)
    BY <1>1, Written DEF UseWords
  <2>2. QED
    BY <1>8, <1>10, <2>1 DEF Receive
<1>11. QED
  BY <1>7, <1>9, <1>10 DEF Kinds

\* An event that is no GameClosed forgets no game, and the loop goes on.
LEMMA EventOrderly ==
  ASSUME NEW kind \in EventKinds \ {"closed"}
  PROVE  LET p == GameEvent(kind) \o <<Do("events")>> IN
         UsesFirst(p) /\ FindsFirst(p) /\ \A what \in ForgetWords : ~Has(p, what)
<1> DEFINE p == GameEvent(kind) \o <<Do("events")>>
<1>1. UseWords \in SUBSET Words /\ UseWords \cap ForgetWords = {}
  BY DEF UseWords, ForgetWords, Words, BotWords
<1>2. PlainProgram(Section("b"), UseWords) /\ PlainProgram(EditPlayers, UseWords)
  BY <1>1, Basics, Written DEF UseWords
<1>3. /\ PlainProgram(<<Do("start")>>, UseWords) /\ PlainProgram(<<Do("stop")>>, UseWords)
      /\ PlainProgram(<<Do("events")>>, UseWords)
  BY Basics DEF UseWords
<1>4. /\ PlainProgram(<<Do("start")>> \o Section("b"), UseWords)
      /\ PlainProgram(<<Do("stop")>> \o Section("b"), UseWords)
      /\ PlainProgram(EditPlayers \o EditPlayers \o Section("b"), UseWords)
      /\ PlainProgram(Section("b") \o EditPlayers, UseWords)
  BY <1>2, <1>3, PlainJoin
<1>5. PlainProgram(GameEvent(kind), UseWords)
  BY <1>4 DEF GameEvent, EventKinds
<1>6. PlainProgram(p, UseWords)
  BY <1>3, <1>5, PlainJoin
<1>7. QED
  BY <1>1, <1>6, OrderlyPlain DEF PlainProgram

\* The node of a game that timed out is read before the game is removed.
LEMMA TimedOutOrderly == UsesFirst(TimedOut) /\ FindsFirst(TimedOut)
<1> DEFINE p == PrepCmd \o <<Unlock("gl"), Do("use")>>
<1>1. /\ {"use"} \in SUBSET Words /\ {"remove"} \in SUBSET Words
      /\ {"use"} \cap ForgetWords = {} /\ {"remove"} \cap UseWords = {}
  BY DEF Words, BotWords, UseWords, ForgetWords
<1>2. PlainProgram(p, {"use"}) /\ PlainProgram(RemoveGame, {"remove"})
  BY <1>1, Basics, Written, PlainJoin DEF PrepCmd
<1>3. TimedOut = p \o RemoveGame
  BY DEF TimedOut
<1> HIDE DEF p
<1>4. /\ UsesFirst(p) /\ FindsFirst(p)
      /\ UsesFirst(RemoveGame) /\ FindsFirst(RemoveGame) /\ ~Uses(RemoveGame)
  BY <1>1, <1>2, OrderlyPlain DEF PlainProgram
<1>5. p \in Seq(Plain(TimedOutWords)) /\ RemoveGame \in Seq(Plain(TimedOutWords))
  <2>1. /\ Plain({"use"}) \subseteq Plain(TimedOutWords)
        /\ Plain({"remove"}) \subseteq Plain(TimedOutWords)
    BY DEF Plain, TimedOutWords
  <2>2. QED
    BY <1>2, <2>1 DEF PlainProgram
<1>6. QED
  BY <1>3, <1>4, <1>5, OrderlyJoin

\* What the bot thread goes on with.
LEMMA PointerAfter ==
  ASSUME ProgramsOK, ListOK, PointerOK, prog[Bot] # <<>>,
         NEW S, prog[Bot] \in Seq(S), NEW steps \in Seq(S), GoOn(Bot, steps),
         UsesFirst(steps), FindsFirst(steps),
         \/ ~Uses(Tail(prog[Bot]))
         \/ \A what \in ForgetWords : ~Has(steps, what),
         Uses(steps) \/ Uses(Tail(prog[Bot])) => ref'[Bot] \in listed'
  PROVE  PointerOK'
<1> DEFINE q == Tail(prog[Bot])
<1>1. prog'[Bot] = steps \o q
  BY DEF GoOn, Rest, ProgramsOK, Threads
<1>2. q \in Seq(S) /\ UsesFirst(q) /\ FindsFirst(q)
  BY TailFacts, TailOrder DEF PointerOK
<1>3. Uses(steps) \/ Uses(q) => ref'[Bot] \in listed'
  OBVIOUS
<1> HIDE DEF q
<1>4. UsesFirst(steps \o q) /\ FindsFirst(steps \o q)
  BY <1>2, OrderlyJoin DEF q
<1>5. \A what : Has(steps \o q, what) <=> Has(steps, what) \/ Has(q, what)
  BY <1>2, HasJoin
<1>6. Uses(steps \o q) => Uses(steps) \/ Uses(q)
  BY <1>5 DEF Uses
<1>7. QED
  BY <1>1, <1>3, <1>4, <1>6 DEF PointerOK

\* The bot thread takes a step, outside the loop over events.
LEMMA BotPointer ==
  ASSUME ProgramsOK, ListOK, PointerOK, Step(Bot), ~NextEvent(Bot)
  PROVE  PointerOK'
<1> DEFINE q == Tail(prog[Bot])
<1>1. PICK S : prog[Bot] \in Seq(S)
  BY DEF ListOK, Serving, Ending
<1>2. prog[Bot] # <<>>
  BY BotGoesOn
<1>3. /\ Uses(q) => ref[Bot] \in listed
      /\ Next1(Bot).do \in ForgetWords => ~Uses(q)
  <2>1. \A what : Has(q, what) => Has(prog[Bot], what)
    BY <1>1, <1>2, HasTail
  <2>2. Uses(q) => Uses(prog[Bot])
    BY <2>1 DEF Uses
  <2>3. QED
    BY <1>1, <1>2, <2>2, TailOrder DEF PointerOK, Next1
<1>4. /\ UsesFirst(<<>>) /\ FindsFirst(<<>>) /\ ~Uses(<<>>)
      /\ \A what \in ForgetWords : ~Has(<<>>, what)
  BY DEF UsesFirst, FindsFirst, Uses, Has
<1>5. ASSUME GoOn(Bot, <<>>), Uses(q) => ref'[Bot] \in listed'
      PROVE  PointerOK'
  <2>1. <<>> \in Seq(S)
    OBVIOUS
  <2>2. Uses(<<>>) \/ Uses(Tail(prog[Bot])) => ref'[Bot] \in listed'
    BY <1>4, <1>5
  <2> HIDE DEF q
  <2>3. QED
    BY <1>1, <1>2, <1>4, <1>5, <2>1, <2>2, PointerAfter
<1>6. ref \in [Threads -> Games \cup {NoGame}] /\ Bot \in Threads
  BY DEF ListOK, TypeOK, Threads
<1>7. CASE FindGame(Bot)
  <2>1. Takes(Bot, "find") /\ Next1(Bot).do = "find" /\ ~Uses(q)
    BY <1>3, <1>7 DEF FindGame, Takes, ForgetWords
  <2>2. Serving
    BY <2>1, BotTakes
  <2>3. PICK W \in Kits(Bot) : Program(Next1(Bot).found, W) /\ Program(Next1(Bot).missing, W)
    BY <1>6, <2>1, NextFacts
  <2>4. Next1(Bot) = prog[Bot][1] /\ 1 \in 1..Len(prog[Bot]) /\ Next1(Bot) \in Steps(BotWords)
    BY <1>2, <2>2, TailFacts DEF Next1, Serving
  <2>5. /\ Next1(Bot).found \in Seq(Plain(BotWords)) /\ Next1(Bot).missing \in Seq(Plain(BotWords))
        /\ BotWords \in SUBSET Words
    BY <2>1, <2>4, StepFacts DEF Words
  <2>6. UsesFirst(Next1(Bot).found) /\ ~Uses(Next1(Bot).missing)
    BY <2>1, <2>4 DEF PointerOK, FindsFirst
  <2>7. \A p : p \in Seq(Plain(BotWords)) => FindsFirst(p) /\ p \in Seq(Steps(BotWords))
    <3>1. ASSUME NEW p \in Seq(Plain(BotWords)), NEW i \in 1..Len(p)  PROVE p[i].do # "find"
      <4>1. p[i] \in Plain(BotWords)
        OBVIOUS
      <4>2. QED
        BY <4>1 DEF Plain, BotWords
    <3>2. QED
      BY <3>1, PlainSeq DEF FindsFirst
  <2>8. UsesFirst(Next1(Bot).missing)
    BY <2>6 DEF UsesFirst, Uses, Has
  <2>9. CASE id[Bot] \in listed /\ ref' = [ref EXCEPT ![Bot] = id[Bot]]
             /\ GoOn(Bot, Next1(Bot).found)
    <3>1. ref'[Bot] \in listed'
      BY <1>6, <1>7, <2>9 DEF FindGame, listVars
    <3>2. QED
      BY <1>2, <2>1, <2>2, <2>5, <2>6, <2>7, <2>9, <3>1, PointerAfter DEF Serving
  <2>10. CASE GoOn(Bot, Next1(Bot).missing)
    BY <1>2, <2>1, <2>2, <2>5, <2>6, <2>7, <2>8, <2>10, PointerAfter DEF Serving
  <2>11. QED
    BY <1>7, <2>9, <2>10 DEF FindGame
<1>8. CASE Scan(Bot)
  <2>1. Takes(Bot, "scan") /\ ~Uses(q) /\ listed' = listed
    BY <1>3, <1>8 DEF Scan, Takes, ForgetWords, listVars
  <2>2. Serving
    BY <2>1, BotTakes DEF BotWords
  <2>3. CASE GoOn(Bot, <<>>)
    BY <1>5, <2>1, <2>3
  <2>4. CASE GoOn(Bot, TimedOut) /\ \E g \in listed : ref' = [ref EXCEPT ![Bot] = g]
    <3>1. ref'[Bot] \in listed'
      BY <1>6, <2>1, <2>4
    <3>2. TimedOut \in Seq(Steps(BotWords))
      <4>1. Plain(TimedOutWords) \subseteq Steps(BotWords)
        BY DEF TimedOutWords, BotWords, Steps, Plain
      <4>2. QED
        BY <4>1, TimedOutProgram DEF PlainProgram
    <3>3. QED
      BY <1>2, <2>1, <2>2, <2>4, <3>1, <3>2, TimedOutOrderly, PointerAfter DEF Serving
  <2>5. QED
    BY <1>8, <2>3, <2>4 DEF Scan
<1>9. CASE ChangeState(Bot)
  <2>1. PICK what \in {"start", "stop"} : Takes(Bot, what)
    BY <1>9 DEF ChangeState
  <2>2. Serving /\ Has(prog[Bot], what)
    BY <2>1, BotTakes DEF BotWords
  <2>3. ref'[Bot] \in listed'
    BY <1>9, <2>2 DEF ChangeState, PointerOK, Uses, UseWords
  <2>4. ASSUME NEW p, PlainProgram(p, ChangeWords), GoOn(Bot, p)
        PROVE  PointerOK'
    <3>1. ChangeWords \in SUBSET Words /\ ChangeWords \cap ForgetWords = {}
      BY DEF ChangeWords, Words, BotWords, ForgetWords
    <3>2. /\ UsesFirst(p) /\ FindsFirst(p) /\ \A w \in ForgetWords : ~Has(p, w)
      BY <2>4, <3>1, OrderlyPlain DEF PlainProgram
    <3>3. p \in Seq(Steps(BotWords))
      <4>1. Plain(ChangeWords) \subseteq Steps(BotWords)
        BY DEF ChangeWords, BotWords, Steps, Plain
      <4>2. QED
        BY <2>4, <4>1 DEF PlainProgram
    <3>4. QED
      BY <1>2, <2>2, <2>3, <2>4, <3>2, <3>3, PointerAfter DEF Serving
  <2>5. CASE GoOn(Bot, <<>>)
    BY <1>5, <2>3, <2>5
  <2>6. QED
    BY <1>9, <2>4, <2>5, ChangeProgram DEF ChangeState
<1>10. CASE Read(Bot)
  <2>1. Takes(Bot, "read") /\ ~Uses(q)
    BY <1>3, <1>10 DEF Read, Takes, ForgetWords
  <2>2. Serving
    BY <2>1, BotTakes DEF BotWords
  <2>3. CASE GoOn(Bot, <<>>)
    BY <1>5, <2>1, <2>3
  <2>4. CASE inbox # <<>> /\ GoOn(Bot, Receive(Head(inbox).kind))
    <3>1. Head(inbox).kind \in Kinds
      <4>1. inbox \in Seq(Message)
        BY DEF ProgramsOK
      <4>2. Head(inbox) \in Message
        BY <2>4, <4>1, TailFacts
      <4>3. QED
        BY <4>2 DEF Message
    <3>2. Receive(Head(inbox).kind) \in Seq(Steps(BotWords))
      BY <3>1, ReceiveProgram DEF Program
    <3>3. QED
      BY <1>2, <2>1, <2>2, <2>4, <3>1, <3>2, ReceiveOrderly, PointerAfter DEF Serving
  <2>5. QED
    BY <1>10, <2>3, <2>4 DEF Read
<1>11. CASE Remove(Bot)
  <2>1. ~Uses(q) /\ GoOn(Bot, <<>>)
    BY <1>3, <1>11 DEF Remove, Takes, ForgetWords
  <2>2. QED
    BY <1>5, <2>1
<1>12. CASE FreeAll(Bot) \/ Reset(Bot) \/ InitGameList(Bot)
  <2>1. GoOn(Bot, <<>>) /\ \E what \in EndWords : Takes(Bot, what)
    BY <1>12 DEF FreeAll, Reset, InitGameList, EndWords
  <2>2. Ending
    BY <2>1, BotTakes, ServingEndsNothing DEF Serving, ListOK
  <2>3. ~Uses(q)
    <3>1. q \in Seq(Plain(EndWords)) /\ EndWords \in SUBSET Words /\ EndWords \cap UseWords = {}
      BY <1>2, <2>2, TailFacts DEF Ending, Words, EndWords, UseWords
    <3>2. QED
      BY <3>1, OrderlyPlain
  <2>4. QED
    BY <1>5, <2>1, <2>3
<1>13. CASE Acquire(Bot) \/ Release(Bot) \/ Use(Bot) \/ Leave(Bot) \/ Add(Bot)
  <2>1. GoOn(Bot, <<>>) /\ ref' = ref /\ listed \subseteq listed'
    BY <1>13 DEF Acquire, Release, Use, Leave, Add, listVars
  <2>2. QED
    BY <1>3, <1>5, <2>1
<1>14. QED
  BY <1>7, <1>8, <1>9, <1>10, <1>11, <1>12, <1>13 DEF Step

\* The bot thread takes the next event of its message.
LEMMA EventPointer ==
  ASSUME ProgramsOK, ListOK, PointerOK, NextEvent(Bot)
  PROVE  PointerOrClosed'
<1>1. /\ Takes(Bot, "events") /\ ref' = ref /\ listed' = listed
      /\ closed \in [Threads -> BOOLEAN] /\ Bot \in Threads
  BY DEF NextEvent, listVars, ListOK, TypeOK, Threads
<1>2. prog[Bot] # <<>> /\ Serving /\ Has(prog[Bot], "events")
  BY <1>1, BotTakes DEF BotWords
<1>3. ref'[Bot] \in listed'
  BY <1>1, <1>2 DEF PointerOK, Uses, UseWords
<1>4. ASSUME NEW p \in Seq(Steps(BotWords)), GoOn(Bot, p), UsesFirst(p), FindsFirst(p),
             \A what \in ForgetWords : ~Has(p, what)
      PROVE  PointerOrClosed'
  <2>1. PointerOK'
    BY <1>2, <1>3, <1>4, PointerAfter DEF Serving
  <2>2. QED
    BY <2>1 DEF PointerOrClosed
<1>5. CASE GoOn(Bot, <<>>)
  <2>1. <<>> \in Seq(Steps(BotWords)) /\ Len(<<>>) = 0
    OBVIOUS
  <2>2. UsesFirst(<<>>) /\ FindsFirst(<<>>) /\ \A what \in ForgetWords : ~Has(<<>>, what)
    BY <2>1 DEF UsesFirst, FindsFirst, Has
  <2>3. QED
    BY <1>4, <1>5, <2>1, <2>2
<1>6. ASSUME NEW kind \in EventKinds, GoOn(Bot, GameEvent(kind) \o <<Do("events")>>),
             closed' = [closed EXCEPT ![Bot] = @ \/ kind = "closed"]
      PROVE  PointerOrClosed'
  <2>1. CASE kind = "closed"
    <3>1. closed'[Bot]
      BY <1>1, <1>6, <2>1
    <3>2. QED
      BY <3>1 DEF PointerOrClosed
  <2>2. CASE kind # "closed"
    <3> DEFINE p == GameEvent(kind) \o <<Do("events")>>
    <3>1. UsesFirst(p) /\ FindsFirst(p) /\ \A what \in ForgetWords : ~Has(p, what)
      BY <2>2, EventOrderly
    <3>2. p \in Seq(Steps(BotWords))
      BY EventProgram, PlainSeq DEF PlainProgram
    <3>3. GoOn(Bot, p)
      BY <1>6
    <3> HIDE DEF p
    <3>4. QED
      BY <1>4, <3>1, <3>2, <3>3
  <2>3. QED
    BY <2>1, <2>2
<1>7. ASSUME events[Bot] # <<>>  PROVE Head(events[Bot]) \in EventKinds
  <2>1. events[Bot] \in Seq(EventKinds)
    BY <1>1 DEF ListOK, TypeOK
  <2>2. QED
    BY <1>7, <2>1, TailFacts
<1>8. QED
  BY <1>5, <1>6, <1>7 DEF NextEvent

\* A GameClosed is remembered until the operation ends.
LEMMA BotClosed ==
  ASSUME ProgramsOK, ListOK, Step(Bot), closed[Bot]
  PROVE  closed'[Bot]
<1>1. Bot \in Threads /\ DOMAIN closed = Threads
  BY DEF ListOK, TypeOK, Threads
<1>2. CASE NextEvent(Bot)
  BY <1>1, <1>2 DEF NextEvent, loopVars
<1>3. CASE closed' = closed
  BY <1>3
<1>4. QED
  BY <1>2, <1>3 DEF Step, Acquire, Release, FindGame, Scan, Use, ChangeState, Leave, Add, Remove,
                    FreeAll, Reset, InitGameList, Read, loopVars

\* PointerOrClosed is inductive when no request removes a game.
LEMMA NextPointer ==
  ASSUME "end" \notin Requests, ProgramsOK, ListOK, PointerOrClosed, [Next]_vars
  PROVE  PointerOrClosed'
<1>1. CASE Step(Bot)
  BY <1>1, BotPointer, EventPointer, BotClosed DEF PointerOrClosed
<1>2. CASE Step(Api)
  <2>1. /\ prog'[Bot] = prog[Bot] /\ ref'[Bot] = ref[Bot] /\ closed' = closed
        /\ Acquire(Api) \/ Release(Api) \/ FindGame(Api) \/ Use(Api)
    BY <1>2, ApiSteps
  <2>2. listed' = listed
    BY <2>1 DEF Acquire, Release, FindGame, Use, listVars
  <2>3. QED
    BY <2>1, <2>2 DEF PointerOrClosed, PointerOK
<1>3. ASSUME NEW W, W = PollWords \/ W = EndWords, NEW p \in Seq(Plain(W)), Begin(Bot, p, NoGame)
      PROVE  PointerOrClosed'
  <2>1. prog'[Bot] = p
    BY <1>3 DEF Begin, ProgramsOK, Threads
  <2>2. W \in SUBSET Words /\ W \cap UseWords = {}
    BY <1>3 DEF PollWords, EndWords, Words, BotWords, UseWords
  <2>3. QED
    BY <2>1, <2>2, OrderlyPlain DEF PointerOrClosed, PointerOK
<1>4. CASE BeginPoll
  <2>1. PICK newSecond \in BOOLEAN, pingDue \in BOOLEAN :
          Begin(Bot, Poll(newSecond, pingDue), NoGame)
    BY <1>4 DEF BeginPoll
  <2>2. QED
    BY <1>3, <2>1, PollProgram DEF PlainProgram
<1>5. CASE Disconnect
  BY <1>3, <1>5, EndThreadInOrder DEF Disconnect
<1>6. CASE BeginRequest
  <2>1. PICK kind \in Requests, g \in Games : Begin(Api, Request(kind), g)
    BY <1>6 DEF BeginRequest
  <2>2. /\ DOMAIN prog = Threads /\ DOMAIN ref = Threads /\ DOMAIN closed = Threads
        /\ Bot \in Threads /\ Bot # Api
    BY GameListAssumption DEF ProgramsOK, ListOK, TypeOK, Threads
  <2>3. /\ prog'[Bot] = prog[Bot] /\ ref'[Bot] = ref[Bot] /\ closed'[Bot] = closed[Bot]
        /\ listed' = listed
    BY <2>1, <2>2 DEF Begin, listVars
  <2>4. QED
    BY <2>3 DEF PointerOrClosed, PointerOK
<1>7. CASE ServerSays
  BY <1>7, SaysList DEF PointerOrClosed, PointerOK, loopVars
<1>8. CASE UNCHANGED vars
  BY <1>8 DEF vars, threadVars, loopVars, listVars, PointerOrClosed, PointerOK
<1>9. QED
  BY <1>1, <1>2, <1>4, <1>5, <1>6, <1>7, <1>8 DEF Next, Threads

\* The game that the bot thread found, and works on after it released the mutex of
\* the list, is alive until it has dealt with a GameClosed of the container, if no
\* request removes games: of any games, containers and losses.
THEOREM BotPointerLiveHolds ==
  ASSUME "end" \notin Requests
  PROVE  Safety => []BotPointerLive
<1>1. Init => ProgramsOK /\ ListOK /\ PointerOrClosed
  BY InitPrograms, InitMemory DEF PointerOrClosed
<1>2. ProgramsOK /\ ListOK /\ PointerOrClosed /\ [Next]_vars
        => (ProgramsOK /\ ListOK /\ PointerOrClosed)'
  BY NextPrograms, NextList, NextPointer
<1>3. ProgramsOK /\ ListOK /\ PointerOrClosed => BotPointerLive
  <2> SUFFICES ASSUME ProgramsOK, ListOK, PointerOrClosed, UsesPointer, ~closed[Bot]
               PROVE  memory[ref[Bot]] = "live"
    BY DEF BotPointerLive
  <2>1. Takes(Bot, Next1(Bot).do) /\ Next1(Bot).do \in UseWords
    BY DEF UsesPointer, Takes, UseWords
  <2>2. Has(prog[Bot], Next1(Bot).do) /\ Serving
    BY <2>1, BotTakes DEF UseWords, BotWords
  <2>3. ref[Bot] \in listed
    BY <2>1, <2>2 DEF PointerOrClosed, PointerOK, Uses
  <2>4. listed = Live
    <3>1. ~Has(prog[Bot], "reset")
      BY <2>2, ServingEndsNothing DEF Serving, EndWords
    <3>2. QED
      BY <3>1 DEF ListOK, Phases
  <2>5. QED
    BY <2>3, <2>4 DEF Live
<1>4. QED
  BY <1>1, <1>2, <1>3, PTL DEF Safety

=============================================================================
