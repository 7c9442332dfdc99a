---------------------------- MODULE MCGameServer ----------------------------
(* GameServer on a few connections, for TLC. *)
EXTENDS GameServer

\* No action reads the outgoing queues but the one that empties them, so a
\* property that does not mention them may be checked without them.
WithoutOutgoing == <<numConnections, open, waitingRoom, rooms, roomCapacity,
                     incoming, received, serverState>>
=============================================================================
