------------------------------ MODULE ReplayFiles ------------------------------
(***************************************************************************)
(* Downloading and saving replays (bot.c).  When the server has the        *)
(* replays of a match the bot thread asks for each of them; a replay that  *)
(* fails to arrive is asked for again; one that arrives is saved by a      *)
(* thread of its own in the file of its game, unless the file exists.      *)
(*                                                                         *)
(* The replays of a match are of one game, so they share the file's name   *)
(* (ReplayNames); their threads run side by side.  The queues are those of *)
(* CommandPipeline, here a set of commands: they may be answered, answered *)
(* late, time out, or be dropped with the connection.                      *)
(***************************************************************************)
EXTENDS Integers, SequencesExt

CONSTANTS
  Replays,      \* IDs of replays
  FileOf,       \* the file that the game of a replay has
  Blocks,       \* what a file is written in
  MaxCommands,  \* bound: commands that ask for a replay
  MaxLosses     \* bound: connections lost and processes ended

ASSUME ReplaysAssumption ==
  /\ IsFiniteSet(Replays) /\ Replays \subseteq DOMAIN FileOf
  /\ Blocks \in Nat \ {0} /\ MaxCommands \in Nat /\ MaxLosses \in Nat

VARIABLES
  announced,   \* replays the server has said it has
  asked,       \* per command its replay, and whether it is pending
  onTheWay,    \* commands the server has received and will answer
  savers,      \* per command answered, its saveReplay: where it is
  files,       \* the contents of the files that exist, in blocks
  losses,      \* a bound
  forgotten,   \* history: replays whose command or thread was lost
  first,       \* history: the replay whose thread made each file
  raced,       \* history: files that two threads were about to make at once
  cut          \* history: files whose thread a crash stopped

histories == <<forgotten, first, raced, cut>>
filesVars == <<announced, asked, onTheWay, savers, files, losses, histories>>

Asks == DOMAIN asked
Pending(n) == asked[n].pending
Ended == [at |-> "end", pos |-> 0]
At(n) == savers[n].at
File(n) == FileOf[asked[n].replay]
FileNames == {FileOf[r] : r \in Replays}
Existing == DOMAIN files

\* cmdForCMDId, and the timeout's deq: the command leaves callbackQueue.
Taken(n) == [asked EXCEPT ![n].pending = FALSE]

\* Command_ReplayDownload: prepared and queued for each replay of a list.
Ask(commands, list) ==
  /\ Len(commands) + Len(list) <= MaxCommands
  /\ asked' = commands \o [i \in DOMAIN list |-> [replay |-> list[i], pending |-> TRUE]]
  /\ savers' = savers \o [i \in DOMAIN list |-> Ended]

-----------------------------------------------------------------------------
\* The bot thread.

\* replayReady: every replay of the match is asked for.
ReplayReady(f) ==
  LET new == {r \in Replays \ announced : FileOf[r] = f} IN
  /\ new # {}
  /\ announced' = announced \cup new
  /\ Ask(asked, SetToSeq(new))
  /\ UNCHANGED <<onTheWay, files, losses, histories>>

Send(n) ==
  /\ Pending(n) /\ n \notin onTheWay
  /\ onTheWay' = onTheWay \cup {n}
  /\ UNCHANGED <<announced, asked, savers, files, losses, histories>>

\* A bug: a replay that failed to arrive is reported and not asked for again.
AskedAnew(n) == <<>>

\* onReplayDownloadResponse without a replay: ask for it again.
AskedAgain(n) == <<asked[n].replay>>

\* The server answers in the end, perhaps with an error; of a command that has
\* timed out the answer finds nothing.
Response(n) ==
  /\ n \in onTheWay
  /\ onTheWay' = onTheWay \ {n}
  /\ \/ ~Pending(n) /\ UNCHANGED <<asked, savers, forgotten>>
     \/ Pending(n) /\ Ask(Taken(n), AskedAgain(n)) /\ UNCHANGED forgotten
     \/ /\ Pending(n)
        /\ asked' = Taken(n)
        /\ \/ savers' = [savers EXCEPT ![n].at = "check"] /\ UNCHANGED forgotten
           \/ /\ UNCHANGED savers                  \* pthread_create failed
              /\ forgotten' = forgotten \cup {asked[n].replay}
  /\ UNCHANGED <<announced, files, losses, first, raced, cut>>

\* The response is late: onReplayDownloadResponse is called with NULL.
TimeOut(n) ==
  /\ Pending(n) /\ n \in onTheWay
  /\ Ask(Taken(n), AskedAgain(n))
  /\ UNCHANGED <<announced, onTheWay, files, losses, histories>>

\* botThread frees both queues and calls no callback.
Disconnect ==
  /\ losses < MaxLosses
  /\ losses' = losses + 1
  /\ onTheWay' = {}
  /\ asked' = [n \in Asks |-> [asked[n] EXCEPT !.pending = FALSE]]
  /\ forgotten' = forgotten \cup {asked[n].replay : n \in {m \in Asks : Pending(m)}}
  /\ UNCHANGED <<announced, savers, files, first, raced, cut>>

-----------------------------------------------------------------------------
\* threadSaveReplay, one for each replay that arrived.

\* A bug: the file is opened for writing whether it exists or not.
ExistsNever(n) == FALSE

Exists(n) == File(n) \in Existing   \* access

CheckFile(n) ==
  /\ At(n) = "check"
  /\ savers' = [savers EXCEPT ![n].at = IF Exists(n) THEN "end" ELSE "open"]
  /\ raced' = IF \E m \in Asks : At(m) = "open" /\ File(m) = File(n)
              THEN raced \cup {File(n)} ELSE raced
  /\ UNCHANGED <<announced, asked, onTheWay, files, losses, forgotten, first, cut>>

\* fopen "wb+" makes the file or empties it.
Open(n) ==
  /\ At(n) = "open"
  /\ savers' = [savers EXCEPT ![n].at = "write"]
  /\ files' = [f \in Existing \cup {File(n)} |-> IF f = File(n) THEN <<>> ELSE files[f]]
  /\ first' = [f \in Existing \cup {File(n)} |->
                IF f \in Existing THEN first[f] ELSE asked[n].replay]
  /\ UNCHANGED <<announced, asked, onTheWay, losses, forgotten, raced, cut>>

\* The replay cannot be parsed, or the file cannot be opened.
Fail(n) ==
  /\ At(n) \in {"check", "open"}
  /\ savers' = [savers EXCEPT ![n] = Ended]
  /\ forgotten' = forgotten \cup {asked[n].replay}
  /\ UNCHANGED <<announced, asked, onTheWay, files, losses, first, raced, cut>>

\* A block goes where this thread has got to, not to the end of the file.
Write(n) ==
  LET next == savers[n].pos + 1
      old == files[File(n)]
      new == [k \in 1..next |-> IF k = next THEN asked[n].replay
                                ELSE IF k \in DOMAIN old THEN old[k] ELSE "hole"]
  IN
  /\ At(n) = "write" /\ next <= Blocks
  /\ savers' = [savers EXCEPT ![n].pos = next]
  /\ files' = [files EXCEPT ![File(n)] = new \o SubSeq(old, next + 1, Len(old))]
  /\ UNCHANGED <<announced, asked, onTheWay, losses, histories>>

Close(n) ==
  /\ At(n) = "write" /\ savers[n].pos = Blocks
  /\ savers' = [savers EXCEPT ![n] = Ended]
  /\ UNCHANGED <<announced, asked, onTheWay, files, losses, histories>>

\* The process ends and is started again: the files are what is left.
Crash ==
  /\ losses < MaxLosses
  /\ losses' = losses + 1
  /\ onTheWay' = {}
  /\ asked' = [n \in Asks |-> [asked[n] EXCEPT !.pending = FALSE]]
  /\ savers' = [n \in Asks |-> Ended]
  /\ forgotten' = forgotten \cup
       {asked[n].replay : n \in {m \in Asks : Pending(m) \/ At(m) # "end"}}
  /\ cut' = cut \cup {File(n) : n \in {m \in Asks : At(m) = "write"}}
  /\ UNCHANGED <<announced, files, first, raced>>

FilesInit ==
  /\ announced = {} /\ asked = <<>> /\ onTheWay = {} /\ savers = <<>>
  /\ files = <<>> /\ losses = 0
  /\ forgotten = {} /\ first = <<>> /\ raced = {} /\ cut = {}

FilesNext ==
  \/ \E f \in FileNames : ReplayReady(f)
  \/ \E n \in Asks :
       \/ Send(n) \/ Response(n) \/ TimeOut(n)
       \/ CheckFile(n) \/ Open(n) \/ Fail(n) \/ Write(n) \/ Close(n)
  \/ Disconnect \/ Crash

-----------------------------------------------------------------------------
\* Properties.

FilesTypeOK ==
  /\ announced \subseteq Replays /\ forgotten \subseteq announced
  /\ Len(asked) <= MaxCommands /\ onTheWay \subseteq Asks
  /\ \A n \in Asks : asked[n] \in [replay : announced, pending : BOOLEAN]
  /\ DOMAIN savers = Asks
  /\ \A n \in Asks : savers[n] \in [at : {"check", "open", "write", "end"}, pos : 0..Blocks]
  /\ Existing \subseteq FileNames /\ DOMAIN first = Existing
  /\ raced \cup cut \subseteq FileNames /\ losses \in 0..MaxLosses

\* Retries and late answers neither drop a replay nor save it twice: one that
\* was announced is asked for or being saved, once, until its game has a file,
\* it was dropped with the connection or its thread failed (bot.c:804-833).
ReplaysAccounted ==
  \A r \in announced :
    LET mine == {n \in Asks : asked[n].replay = r}
        busy == Cardinality({n \in mine : Pending(n)})
                  + Cardinality({n \in mine : At(n) # "end"})
    IN busy <= 1 /\ (busy = 0 => r \in forgotten \/ FileOf[r] \in Existing)

\* bot.c:653, "it was not overwritten": a file holds the whole replay of the
\* thread that made it, unless that thread was cut short by a crash or another
\* asked whether the file exists before this one had opened it.
FileHoldsFirst ==
  \A f \in Existing \ (raced \cup cut) :
    /\ \A k \in DOMAIN files[f] : files[f][k] = first[f]
    /\ \/ Len(files[f]) = Blocks
       \/ \E n \in Asks : At(n) = "write" /\ File(n) = f
=============================================================================
