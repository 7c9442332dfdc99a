------------------------------ MODULE Channels ------------------------------
(***************************************************************************)
(* What the server may rely on when it sends: each connection opens once,  *)
(* delivers what was sent to it one message at a time, in the order of     *)
(* sending, and is closed once.  Nothing is sent to a connection that is   *)
(* not open, and what a closed connection has not delivered is lost.       *)
(*                                                                         *)
(* GameServer keeps this promise in its outgoing queues; Connection shows  *)
(* that the chain of asynchronous writes behind such a queue keeps it too. *)
(***************************************************************************)
EXTENDS SequencesExt

CONSTANT Ids  \* the connections' ids

VARIABLES
  opened,    \* the connections that have been opened so far
  open,      \* those that are open
  outgoing   \* per connection, the messages it has yet to deliver

Nothing == [c \in Ids |-> <<>>]

Init ==
  /\ opened \subseteq Ids
  /\ open = opened
  /\ outgoing = Nothing

Idle(c) ==
  /\ c \in opened' <=> c \in opened
  /\ c \in open' <=> c \in open
  /\ outgoing'[c] = outgoing[c]

\* The first messages may be sent as the connection opens.
Open(c) ==
  /\ c \notin opened
  /\ c \in opened'
  /\ c \in open'

Send(c) ==
  /\ c \in opened /\ c \in opened'
  /\ c \in open /\ c \in open'
  /\ \E k \in 1 .. Len(outgoing'[c]) :
       outgoing[c] = SubSeq(outgoing'[c], 1, Len(outgoing'[c]) - k)

Deliver(c) ==
  /\ c \in opened /\ c \in opened'
  /\ c \in open /\ c \in open'
  /\ outgoing[c] # <<>>
  /\ outgoing'[c] = Tail(outgoing[c])

Close(c) ==
  /\ c \in opened /\ c \in opened'
  /\ c \in open
  /\ c \notin open'
  /\ outgoing'[c] = <<>>

\* A step may touch several connections, as a broadcast does, but each of
\* them in one way.
Next ==
  /\ opened' \subseteq Ids
  /\ DOMAIN outgoing' = Ids
  /\ \A c \in Ids : Idle(c) \/ Open(c) \/ Send(c) \/ Deliver(c) \/ Close(c)

Spec == Init /\ [][Next]_<<opened, open, outgoing>>
=============================================================================
