------------------------------- MODULE Homes -------------------------------
(***************************************************************************)
(* Where the server's clients are, whatever else happens to them: each     *)
(* enters the waiting room once, may move on to a game room once, and      *)
(* leaves for good.  Nobody is in two rooms, comes back, or changes rooms. *)
(*                                                                         *)
(* GameServer keeps this with its handlers as steps, and ServerThreads     *)
(* with the two threads' accesses as steps, as long as these do not meet.  *)
(***************************************************************************)
CONSTANT Ids  \* the connections' ids

VARIABLES
  entered,  \* the clients that have come so far
  waiting,  \* those in the waiting room
  seated    \* those in a game room

Init == entered = {} /\ waiting = {} /\ seated = {}

Enter(c) ==
  /\ c \notin entered
  /\ entered' = entered \cup {c}
  /\ waiting' = waiting \cup {c}
  /\ UNCHANGED seated

Move(c) ==
  /\ c \in waiting
  /\ waiting' = waiting \ {c}
  /\ seated' = seated \cup {c}
  /\ UNCHANGED entered

Leave(c) ==
  /\ c \in waiting \cup seated
  /\ waiting' = waiting \ {c}
  /\ seated' = seated \ {c}
  /\ UNCHANGED entered

Next == \E c \in Ids : Enter(c) \/ Move(c) \/ Leave(c)

Spec == Init /\ [][Next]_<<entered, waiting, seated>>
=============================================================================
