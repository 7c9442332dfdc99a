----------------------------- MODULE MCPixelnary -----------------------------
(* Pixelnary with a few players, for TLC. *)
EXTENDS Pixelnary

(***************************************************************************)
(* A game under way: player 0 has created room 0 and draws in it, players  *)
(* up to Seated have joined, all others wait with the menu on their        *)
(* screen, and every message has been handled and read.  A run that starts *)
(* here spends its messages on the game, not on getting into it.           *)
(***************************************************************************)
CONSTANT Seated

Ids(from, to) == [i \in 1 .. (to - from) |-> from + i - 1]

StartedInit ==
  /\ \E w \in Words :
       /\ waitingRoom = [clients |-> Ids(Seated, MaxConnections), second |-> {},
                         currentDrawer |-> 0, word |-> w, drawCommands |-> <<>>]
       /\ rooms = <<[clients |-> Ids(0, Seated), second |-> {0},
                     currentDrawer |-> 0, word |-> w, drawCommands |-> <<>>]>>
       /\ game = [c \in ConnIds |->
                    IF c >= Seated THEN [NewGame EXCEPT !.screen = "menu"]
                    ELSE [screen |-> "room", room |-> 0, joining |-> NoRoom,
                          drawer |-> c = 0, word |-> IF c = 0 THEN w ELSE NoWord,
                          is_guessing |-> c # 0, canvas |-> <<>>]]
  /\ numConnections = MaxConnections
  /\ open = ConnIds
  /\ roomCapacity = 1
  /\ incoming = <<>>
  /\ outgoing = [c \in ConnIds |-> <<>>]
  /\ received = 0
  /\ serverState = "running"

StartedSpec == StartedInit /\ [][GameNext]_gameVars
=============================================================================
