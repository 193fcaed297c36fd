------------------------------- MODULE MCInputs -------------------------------
(***************************************************************************)
(* What Inputs is checked with: bodies of requests, configuration files,   *)
(* chat messages, and the files of replays.                                *)
(***************************************************************************)
EXTENDS Inputs

-----------------------------------------------------------------------------
\* Bodies of requests: every property, the values that are told apart, numbers
\* up to a tenth digit, names and hashes that are too long or "*".
Line(prop, value, len, num) ==
  [prop |-> prop, propLen |-> 5, value |-> value, valueLen |-> len, num |-> num]
BodyLines ==
  { Line("authtoken", "token", 5, 0), Line("au", "other", 5, 0), Line("gamename", "g", 1, 0),
    Line("password", "p", 1, 0), Line("playercount", "1", 1, 1), Line("playercount", "2", 1, 2),
    Line("playercount", "3", 1, 3), Line("playercount", "1000000001", 10, 1000000001),
    Line("onlyregistered", "1", 1, 1), Line("playerdeckverification", "1", 1, 1),
    Line("pl", "ann", 3, 0), Line("playername", "long", 300, 0),
    Line("deckhash", "deck1", 8, 0), Line("deckhash", "deck2", 8, 0), Line("deckhash", "*", 1, 0),
    Line("gameid", "7", 1, 7), Line("target", "ann", 3, 0), Line("oldplayername", "ann", 3, 0),
    Line("newplayername", "bob", 3, 0),
    [Line("p", "x", 1, 0) EXCEPT !.propLen = 1], Line("authtoken", "", 0, 0) }

\* The names of properties that appear in BodyLines and are a prefix of one.
NamePrefixes ==
  [p \in Properties \cup {"playername", "deckhash"} |->
     CASE p = "authtoken" -> {"au", p}
       [] p = "playername" -> {"pl", p}
       [] p \in {"playercount", "playerdeckverification"} -> {"pl", p}
       [] OTHER -> {p}]

-----------------------------------------------------------------------------
\* Configuration files: each property, with a second value where it matters,
\* and one line that is longer than the buffer fgets reads into.
Written(p, v) == [prop |-> p, value |-> v, rest |-> NoLine]
ConfigLines ==
  {Written(p, "v") : p \in Strings \ {"certfile", "certkeyfile"}}
    \cup {Written(p, "server.pem") : p \in {"certfile", "certkeyfile"}}
    \cup {Written("replayFolder", "v//"), Written("ratelimit", "5"), Written("ratelimit", "0")}
    \cup {[prop |-> "#", value |-> "v", rest |-> [prop |-> "username", value |-> "w"]]}
Values == {"v", "w", "v//", "server.pem", "5", "0", "changeme", "Magic"}
AtoiOf == [v \in Values |-> IF v = "5" THEN 5 ELSE 0]
WithoutSlashes == [v \in Values |-> IF v = "v//" THEN "v" ELSE v]

\* Chat: the start of every command, of one, a whole one, and one too long.
Starts ==
  [t \in {"", "h", "help", "github", "helpme"} |->
     CASE t = "" -> {"discord", "github", "help"}
       [] t \in {"h", "help"} -> {"help"}
       [] t = "github" -> {"github"}
       [] t = "helpme" -> {}]
ChatMessages == [prefix : {TRUE}, text : DOMAIN Starts] \cup {[prefix |-> FALSE, text |-> "help"]}

\* The replay folder, and two replays of one match beside one of another.
FolderName == <<"f">>
MatchFiles == [r \in Replays |-> IF r = "r3" THEN "f2" ELSE "f1"]
=============================================================================
