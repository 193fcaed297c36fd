----------------------------- MODULE ChatCommands -----------------------------
(***************************************************************************)
(* The commands of commands.c: what the bot answers to messages in its     *)
(* room, in games and to itself.  A message is whether it begins with the  *)
(* prefix, and the text after it; of a text only the names of commands     *)
(* that it is a prefix of are known.                                       *)
(*                                                                         *)
(* The handlers run on the bot thread and queue an answer.  The server     *)
(* delivers messages, and the bot's answers in the room to everybody, the  *)
(* bot included.                                                           *)
(***************************************************************************)
EXTENDS Integers, SequencesExt

CONSTANTS
  Messages,       \* what users say: [prefix, text]
  Begins,         \* of a text, the names of commands it is a prefix of
  Senders,        \* users
  MaxSaid         \* bound: messages of users

ASSUME ChatAssumption ==
  /\ \A m \in Messages : m.prefix \in BOOLEAN /\ m.text \in DOMAIN Begins
  /\ "help" \in DOMAIN Begins
  /\ MaxSaid \in Nat

Channels == {"room", "game", "user"}

VARIABLES
  heard,          \* events on their way to the bot
  answers,        \* what was queued: command, channel, to whom
  questions       \* history: the messages of users

chatVars == <<heard, answers, questions>>

Command(name, channels) == [name |-> name, channels |-> channels]

\* COMMAND_DISCORD, COMMAND_GITHUB, COMMAND_HELP, and the handlers they have.
Commands ==
  << Command("discord", {"user"}), Command("github", {"user"}), Command("help", {"room", "user"}) >>

\* Of a text nothing but the names of commands is compared.
ASSUME BeginsAssumption ==
  \A t \in DOMAIN Begins : Begins[t] \subseteq {Commands[i].name : i \in DOMAIN Commands}

HelpWithPrefix == [prefix |-> TRUE, text |-> "help"]   \* mutant: begins with a usage line

\* The help message begins with a word, not with the prefix.
HelpMessage == [prefix |-> FALSE, text |-> "help"]

Hits(m) == {i \in DOMAIN Commands : m.prefix /\ Commands[i].name \in Begins[m.text]}

EachMatch(m) == Hits(m)   \* mutant: no break after the match

\* The first command that the text is a prefix of, whatever the channel.
Matches(m) == {i \in Hits(m) : \A j \in Hits(m) : i <= j}

\* userMsgDiscordLink and the like answer who asked, roomMsgHelp the room.
AnswerOf(i, e) ==
  [command |-> Commands[i].name, channel |-> e.channel,
   to |-> IF e.channel = "user" THEN e.sender ELSE "room"]

\* execGameSayCommand, execRoomSayCommand, execUserMsgCommand: a handler that the
\* first match does not have is not looked for in another.
Exec(e) ==
  SetToSeq({AnswerOf(i, e) : i \in {j \in Matches(e.message) : e.channel \in Commands[j].channels}})

\* What the bot says in the room is delivered to the bot.
Echo(out) ==
  [i \in 1..Cardinality({k \in DOMAIN out : out[k].channel = "room"}) |->
     [channel |-> "room", sender |-> "bot", message |-> HelpMessage]]

Hear ==
  /\ heard # <<>>
  /\ answers' = answers \o Exec(Head(heard))
  /\ heard' = Tail(heard) \o Echo(Exec(Head(heard)))
  /\ UNCHANGED questions

\* A user says something.
Tell(c, u, m) ==
  /\ Len(questions) < MaxSaid
  /\ LET e == [channel |-> c, sender |-> u, message |-> m] IN
       heard' = Append(heard, e) /\ questions' = Append(questions, e)
  /\ UNCHANGED answers

ChatInit == heard = <<>> /\ answers = <<>> /\ questions = <<>>

ChatNext ==
  \/ Hear
  \/ \E c \in Channels, u \in Senders, m \in Messages : Tell(c, u, m)

-----------------------------------------------------------------------------
\* Properties.

ChatTypeOK ==
  /\ \A i \in DOMAIN heard : heard[i].channel \in Channels
  /\ \A i \in DOMAIN answers : answers[i].channel \in {"room", "user"}

\* An answer to a question: where it was asked, and in private to who asked.
AnswerTo(a, q) ==
  /\ q.message.prefix /\ a.command \in Begins[q.message.text]
  /\ a.channel = q.channel /\ a.to = IF q.channel = "user" THEN q.sender ELSE "room"

\* Users who ask in private.
Private(q) == q.channel = "user" /\ q.message.prefix /\ Begins[q.message.text] # {}

\* The bot answers users' questions in the order they were asked, none of them twice,
\* although it hears itself, and leaves none without an answer that was asked in private;
\* only help is given in the room ("PMs only", commands.c:29-32).
AnswersToQuestions ==
  /\ \A i \in DOMAIN answers : answers[i].channel = "room" => answers[i].command = "help"
  /\ \E about \in [DOMAIN answers -> DOMAIN questions] :
       /\ \A i, j \in DOMAIN answers : i < j => about[i] < about[j]
       /\ \A i \in DOMAIN answers : AnswerTo(answers[i], questions[about[i]])
       /\ heard = <<>> => \A k \in DOMAIN questions :
            Private(questions[k]) => \E i \in DOMAIN answers : about[i] = k
=============================================================================
