---------------------------- MODULE CommandService ----------------------------
(***************************************************************************)
(* What the bot promises about a command, without queues, IDs, clocks or   *)
(* threads: it is sent at most once, it ends at most once, only a sent     *)
(* command can be answered, joined or timed out, and the end of the        *)
(* connection drops what is left.                                          *)
(***************************************************************************)
VARIABLES
  waiting,   \* commands issued and not sent
  sent,      \* commands sent and not ended
  done       \* <<command, outcome>> of each ended command

vars == <<waiting, sent, done>>

Known == waiting \cup sent \cup {d[1] : d \in done}

Issue == \E c \in waiting' \ Known :
  /\ waiting' = waiting \cup {c}
  /\ UNCHANGED <<sent, done>>

Send == \E c \in waiting :
  /\ waiting' = waiting \ {c}
  /\ sent' = sent \cup {c}
  /\ UNCHANGED done

Finish == \E c \in sent, outcome \in {"answered", "joined", "timedOut"} :
  /\ sent' = sent \ {c}
  /\ done' = done \cup {<<c, outcome>>}
  /\ UNCHANGED waiting

\* The connection ends: every sent command, and the waiting ones it finds.
Drop == \E C \in SUBSET waiting, outcome \in {"dropped", "leaked"} :
  /\ waiting' = waiting \ C
  /\ sent' = {}
  /\ done' = done \cup ((C \cup sent) \X {outcome})

Init == waiting = {} /\ sent = {} /\ done = {}
Next == Issue \/ Send \/ Finish \/ Drop
Spec == Init /\ [][Next]_vars
=============================================================================
