----------------------------- MODULE ConfigReader -----------------------------
(***************************************************************************)
(* config.conf: readConf and makeNewFile of bot_conf.c, and the checks of  *)
(* main.c before it starts the bot.  A program that finds no file makes    *)
(* one and ends; an operator edits it, or writes one, and starts the       *)
(* program again.                                                          *)
(*                                                                         *)
(* A line is a property and a value, and what fgets leaves of it for the   *)
(* next read when it is longer than the buffer; comments and lines without *)
(* a name are lines with no property.                                      *)
(***************************************************************************)
EXTENDS Integers, SequencesExt

CONSTANTS
  FileLines,      \* the lines an operator writes: [prop, value, rest]
  Files,          \* names of files that the operator may put in place
  Atoi,           \* the number in a value, 0 if there is none
  Stripped,       \* a value without the slashes at its end
  MaxBoots        \* bound: starts of the program

ASSUME ConfigAssumption ==
  /\ MaxBoots \in Nat
  /\ \A l \in FileLines : l.value \in DOMAIN Atoi /\ l.value \in DOMAIN Stripped

Strings ==
  {"username", "password", "roomName", "serveraddress", "authtoken", "replayFolder", "clientID",
   "certfile", "certkeyfile", "bindAddr", "externURL"}
Unset == "NULL"
NoLine == [prop |-> "none"]

VARIABLES
  boot,        \* how often the program was started
  phase,       \* of the program: "off", "reading", "checking", "running"
  status,      \* what readConf returned
  file,        \* config.conf: "none", "made" by the program, "written" by the operator
  readable,    \* files that exist and can be read
  config,      \* the strings of struct Config
  rate,        \* maxMessagesPerSecond
  left,        \* lines of a file made by the program that were not read yet
  rest,        \* what fgets left of a long line
  reported,    \* what the program said when it ended
  lastValue,   \* history: of each property, the value it was given last
  zero         \* history: a rate limit of 0 was read

configVars ==
  <<boot, phase, status, file, readable, config, rate, left, rest, reported, lastValue, zero>>

\* INIT_CONFIG.
EmptyConfig == [p \in Strings |-> Unset]

-----------------------------------------------------------------------------
\* makeNewFile writes these lines, with a token of its own making.
Made == <<
  <<"username", "changeme">>, <<"password", "changeme">>, <<"serveraddress", "changeme">>,
  <<"roomName", "Magic">>, <<"replayFolder", "changeme">>, <<"ratelimit", "5">>,
  <<"authtoken", "changeme">>, <<"certfile", "server.pem">>, <<"certkeyfile", "server.pem">>,
  <<"bindAddr", "changeme">>, <<"clientID", "changeme">>, <<"externURL", "changeme">> >>

\* What any line gives a property, and what is left of it, is a value.
ASSUME ValuesAssumption ==
  /\ {Made[i][2] : i \in DOMAIN Made} \subseteq DOMAIN Atoi
  /\ \A l \in FileLines : l.rest = NoLine \/ l.rest.value \in DOMAIN Atoi
  /\ \A v \in DOMAIN Atoi : Stripped[v] \in DOMAIN Atoi

\* main begins with readConf.
Boot ==
  /\ phase = "off" /\ boot < MaxBoots
  /\ boot' = boot + 1
  /\ config' = EmptyConfig /\ rate' = -1
  /\ rest' = NoLine /\ reported' = "nothing"
  /\ lastValue' = [p \in Strings \cup {"ratelimit"} |-> Unset] /\ zero' = FALSE
  /\ IF file = "none"
     THEN /\ phase' = "checking" /\ status' = -1
          /\ file' \in {"none", "made"}    \* the folder may not be writable
          /\ left' = <<>>
     ELSE \/ /\ phase' = "reading" /\ status' = 1
             /\ left' = IF file = "made" THEN Made ELSE <<>>
             /\ UNCHANGED file
          \/ /\ phase' = "checking" /\ status' = 0   \* it cannot be read
             /\ left' = <<>>
             /\ UNCHANGED file
  /\ UNCHANGED readable

KeepValue(p, v) == IF config[p] = Unset THEN v ELSE config[p]   \* mutant: the first line is used

\* A string replaces the one that was there; a folder loses its last slashes.
NewValue(p, v) == IF p = "replayFolder" THEN Stripped[v] ELSE v

\* The test is for the limit that was read before.
NewRate(v) == IF rate = 0 THEN rate ELSE Atoi[v]

\* readProperty.
ReadProperty(p, v) ==
  /\ config' = IF p \in Strings THEN [config EXCEPT ![p] = NewValue(p, v)] ELSE config
  /\ rate' = IF p = "ratelimit" THEN NewRate(v) ELSE rate
  /\ lastValue' = IF p \in DOMAIN lastValue THEN [lastValue EXCEPT ![p] = v] ELSE lastValue
  /\ zero' = (zero \/ (p = "ratelimit" /\ Atoi[v] = 0))

\* A read of fgets on a file that the operator wrote: a line, or the rest of one.
ReadWritten ==
  /\ phase = "reading" /\ file = "written"
  /\ IF rest # NoLine
     THEN rest' = NoLine /\ ReadProperty(rest.prop, rest.value)
     ELSE \E l \in FileLines : rest' = l.rest /\ ReadProperty(l.prop, l.value)
  /\ UNCHANGED <<boot, phase, status, file, readable, left, reported>>

\* The same on the file that the program made.
ReadMade ==
  /\ phase = "reading" /\ file = "made"
  /\ left # <<>>
  /\ left' = Tail(left)
  /\ ReadProperty(Head(left)[1], Head(left)[2])
  /\ UNCHANGED <<boot, phase, status, file, readable, rest, reported>>

EndOfFile ==
  /\ phase = "reading" /\ left = <<>> /\ rest = NoLine
  /\ phase' = "checking"
  /\ UNCHANGED <<boot, status, file, readable, config, rate, left, rest, reported, lastValue, zero>>

-----------------------------------------------------------------------------
\* main.c.

ValidConfig ==
  /\ \A p \in Strings : config[p] # Unset
  /\ {config["certfile"], config["certkeyfile"]} \subseteq readable
  /\ rate > 0

\* A status of -1 is true as well: the checks are made on a config that nothing was
\* read into, and what main.c:520 has to say of a new file is never said.
Check ==
  /\ phase = "checking"
  /\ IF status # 0 /\ ValidConfig THEN phase' = "running" /\ UNCHANGED reported
     ELSE /\ phase' = "off"
          /\ reported' = IF status # 0 THEN "missing properties" ELSE "error reading"
  /\ UNCHANGED <<boot, status, file, readable, config, rate, left, rest, lastValue, zero>>

\* The operator, while the program is off.
Operator ==
  /\ phase = "off" /\ boot < MaxBoots
  /\ \/ file' = "written" /\ file' # file /\ UNCHANGED readable
     \/ \E f \in Files \ readable : readable' = readable \cup {f} /\ UNCHANGED file
  /\ UNCHANGED <<boot, phase, status, config, rate, left, rest, reported, lastValue, zero>>

ConfigInit ==
  /\ boot = 0 /\ phase = "off" /\ status = 0 /\ file = "none" /\ readable = {}
  /\ config = EmptyConfig /\ rate = -1 /\ left = <<>> /\ rest = NoLine
  /\ reported = "nothing" /\ zero = FALSE
  /\ lastValue = [p \in Strings \cup {"ratelimit"} |-> Unset]

ConfigNext ==
  Boot \/ ReadWritten \/ ReadMade \/ EndOfFile \/ Check \/ Operator

-----------------------------------------------------------------------------
\* Properties.

ConfigTypeOK ==
  /\ boot \in 0..MaxBoots
  /\ phase \in {"off", "reading", "checking", "running"}
  /\ DOMAIN config = Strings
  /\ \A p \in Strings : config[p] = Unset \/ config[p] \in DOMAIN Atoi
  /\ rate \in {-1} \cup {Atoi[v] : v \in DOMAIN Atoi}

\* README.md:70, "the last line of the tag is used": of every property, and of the rate
\* limit unless an earlier line set it to 0 (bot_conf.c:84).
LastLineUsed ==
  /\ \A p \in Strings : lastValue[p] # Unset => 
       config[p] = (IF p = "replayFolder" THEN Stripped[lastValue[p]] ELSE lastValue[p])
  /\ lastValue["ratelimit"] # Unset /\ ~zero => rate = Atoi[lastValue["ratelimit"]]
=============================================================================
