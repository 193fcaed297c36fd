-------------------------------- MODULE Seating --------------------------------
(***************************************************************************)
(* What the slots of a game promise: a player who has no seat takes a free *)
(* one and keeps it until it is given back; nobody is moved or replaced.   *)
(***************************************************************************)
CONSTANTS Seat, Player, Nobody

VARIABLE owner

Init == owner = [s \in Seat |-> Nobody]

Sit(p, s) ==
  /\ owner[s] = Nobody
  /\ \A t \in Seat : owner[t] # p
  /\ owner' = [owner EXCEPT ![s] = p]

Leave(s) ==
  /\ owner[s] # Nobody
  /\ owner' = [owner EXCEPT ![s] = Nobody]

Next == \E s \in Seat : Leave(s) \/ \E p \in Player : Sit(p, s)

Spec == Init /\ [][Next]_owner
=============================================================================
