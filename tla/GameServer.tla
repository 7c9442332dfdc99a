----------------------------- MODULE GameServer -----------------------------
(***************************************************************************)
(* The game server (server/src/Server.cpp with Room.cpp, Connection.cpp    *)
(* and Main.cpp).  Two threads share its state without a lock:             *)
(*                                                                         *)
(*   io thread    m_context.run(): accepts connections, reads messages     *)
(*                into m_incomingMessageQueue, writes the outgoing queues, *)
(*                and calls OnDisconnect when a connection fails;          *)
(*   main thread  while (!stop) HandleMessages(): handles the front of     *)
(*                m_incomingMessageQueue and then pops it.                 *)
(*                                                                         *)
(* Here one handler is one step; the two threads interleave between        *)
(* handlers, and while the main thread spins in JoinRoom.  Players send    *)
(* what the frontend can send, with the id the server told them.           *)
(***************************************************************************)
EXTENDS Room

CONSTANTS
  MaxConnections,  \* bound: connections accepted in a behavior
  MaxReceived,     \* bound: messages read from players in a behavior
  MaxPending,      \* bound: messages that wait for the main thread at a time
  IdRange,         \* width of Header::client_id (256 in the code)
  RoomRange,       \* width of Header::room (65536 in the code)
  Words,           \* m_words
  Guesses,         \* what players type; the words are among it
  Commands         \* draw commands

ASSUME BoundsAssumption ==
  MaxConnections \in Nat /\ MaxReceived \in Nat /\ MaxPending \in Nat
ASSUME WidthsAssumption == IdRange \in Nat \ {0} /\ RoomRange \in Nat \ {0}
ASSUME WordsAssumption == Words # {} /\ Words \subseteq Guesses

ConnIds == 0 .. (MaxConnections - 1)

VARIABLES
  numConnections,  \* m_numConnections: the next connection's id
  open,            \* ids whose socket is open
  waitingRoom,     \* m_waitingRoom
  rooms,           \* m_rooms; room number r is rooms[r + 1]
  roomCapacity,    \* m_rooms.capacity()
  incoming,        \* m_incomingMessageQueue
  outgoing,        \* per connection, m_outgoingMessageQueue
  received,        \* messages read so far, counted against MaxReceived
  serverState      \* "running", "spinning" in MoveFromWaitingRoomToRoom,
                   \* or dead: "uncaught" exception, "overrun" of a vector

vars == <<numConnections, open, waitingRoom, rooms, roomCapacity, incoming,
          outgoing, received, serverState>>

Alive == serverState \in {"running", "spinning"}

RoomExists(r) == r < Len(rooms)

GameRoom(r) == rooms[r + 1]

Init ==
  /\ numConnections = 0
  /\ open = {}
  /\ \E w \in Words : waitingRoom = EmptyRoom(w)
  /\ rooms = <<>>
  /\ roomCapacity = 0
  /\ incoming = <<>>
  /\ outgoing = [c \in ConnIds |-> <<>>]
  /\ received = 0
  /\ serverState = "running"

-----------------------------------------------------------------------------
(* The io thread *)

\* The accept handler and OnConnect: the new client waits, and is told its
\* id, of which the header has room for the low bits only.
AcceptConnection ==
  /\ Alive
  /\ numConnections < MaxConnections
  /\ numConnections' = numConnections + 1
  /\ open' = open \cup {numConnections}
  /\ waitingRoom' = AddClient(waitingRoom, numConnections)
  /\ outgoing' = [outgoing EXCEPT ![numConnections] =
                    <<SetClientId(numConnections % IdRange)>>]
  /\ UNCHANGED <<rooms, roomCapacity, incoming, received, serverState>>

\* The peer was gone before the handler asked for its address, which throws;
\* nobody catches it in the io thread.
AcceptAlreadyReset ==
  /\ Alive
  /\ numConnections < MaxConnections
  /\ serverState' = "uncaught"
  /\ UNCHANGED <<numConnections, open, waitingRoom, rooms, roomCapacity,
                 incoming, outgoing, received>>

WireId(c) == c % IdRange

\* What the player behind connection c may send.
PlayerMessages(c) ==
  LET From(type) == [type : {type}, client_id : {WireId(c)}]
      InRoom(type) == [type : {type}, client_id : {WireId(c)},
                       room : 0 .. (RoomRange - 1)]
  IN  From("CreateRoom") \cup InRoom("JoinRoom") \cup InRoom("CanvasPacket")
      \cup [type : {"DrawCommand"}, client_id : {WireId(c)},
            room : 0 .. (RoomRange - 1), command : Commands]
      \cup [type : {"GuessPacket"}, client_id : {WireId(c)},
            room : 0 .. (RoomRange - 1), guess : Guesses]

\* The payload is complete: AsyncReceivePayload queues the message.
Arrive(c, m) ==
  /\ Alive
  /\ c \in open
  /\ received < MaxReceived
  /\ Len(incoming) < MaxPending
  /\ received' = received + 1
  /\ incoming' = Append(incoming, m)
  /\ UNCHANGED <<numConnections, open, waitingRoom, rooms, roomCapacity,
                 outgoing, serverState>>

\* The write chain has sent the front message.
Sent(c) ==
  /\ Alive
  /\ outgoing[c] # <<>>
  /\ outgoing' = [outgoing EXCEPT ![c] = Tail(@)]
  /\ UNCHANGED <<numConnections, open, waitingRoom, rooms, roomCapacity,
                 incoming, received, serverState>>

\* A read or a write of connection c failed: Disconnect and OnDisconnect.
\* The queue goes with the connection.
Disconnect(c) ==
  /\ Alive
  /\ c \in open
  /\ open' = open \ {c}
  /\ UNCHANGED <<numConnections, roomCapacity, incoming, received, serverState>>
  /\ \/ /\ c \in Members(waitingRoom)
        /\ ~LeavingOverruns(waitingRoom, c)
        /\ \E w \in Words :
             /\ waitingRoom' = RemoveClient(waitingRoom, c, w)
             /\ outgoing' = [Post(outgoing, RemoveClientPosts(waitingRoom, c, w))
                               EXCEPT ![c] = <<>>]
        /\ UNCHANGED rooms
     \/ \E i \in DOMAIN rooms :
          /\ c \in Members(rooms[i])
          /\ ~LeavingOverruns(rooms[i], c)
          /\ \E w \in Words :
               /\ rooms' = [rooms EXCEPT ![i] = RemoveClient(@, c, w)]
               /\ outgoing' = [Post(outgoing, RemoveClientPosts(rooms[i], c, w))
                                 EXCEPT ![c] = <<>>]
          /\ UNCHANGED waitingRoom

\* The same, when NewRound runs off the end of m_clients.  The process is
\* gone; what it had changed by then does not matter.
DisconnectOverruns(c) ==
  /\ Alive
  /\ c \in open
  /\ \E room \in Range(rooms) \cup {waitingRoom} :
       c \in Members(room) /\ LeavingOverruns(room, c)
  /\ serverState' = "overrun"
  /\ UNCHANGED <<numConnections, open, waitingRoom, rooms, roomCapacity,
                 incoming, outgoing, received>>

-----------------------------------------------------------------------------
(* The main thread: one action per case of HandleMessages *)

FrontIs(type) ==
  /\ incoming # <<>>
  /\ Head(incoming).type = type

Handling_NoPop(type) ==
  /\ serverState = "running"
  /\ FrontIs(type)
  /\ UNCHANGED <<incoming, numConnections, open, received>>

\* HandleMessages takes the front message and pops it when it is done.
Handling(type) ==
  /\ serverState = "running"
  /\ FrontIs(type)
  /\ incoming' = Tail(incoming)
  /\ UNCHANGED <<numConnections, open, received>>

DropMessage == UNCHANGED <<waitingRoom, rooms, roomCapacity, outgoing, serverState>>

JoinFrontClient_CanvasFirst(m) ==
  LET joined == AddClient(GameRoom(m.room), m.client_id)
  IN  /\ waitingRoom' = MoveOut(waitingRoom, m.client_id)
      /\ rooms' = [rooms EXCEPT ![m.room + 1] = joined]
      /\ outgoing' = [outgoing EXCEPT ![m.client_id] =
                        @ \o <<Canvas(joined), SetDrawer(joined, m.client_id)>>]
      /\ UNCHANGED roomCapacity

\* MoveFromWaitingRoomToRoom, and the two replies.
JoinFrontClient(m) ==
  LET joined == AddClient(GameRoom(m.room), m.client_id)
  IN  /\ waitingRoom' = MoveOut(waitingRoom, m.client_id)
      /\ rooms' = [rooms EXCEPT ![m.room + 1] = joined]
      /\ outgoing' = [outgoing EXCEPT ![m.client_id] =
                        @ \o <<SetDrawer(joined, m.client_id), Canvas(joined)>>]
      /\ UNCHANGED roomCapacity

IsFrontOfWaitingRoom(id) ==
  waitingRoom.clients # <<>> /\ Head(waitingRoom.clients) = id

HandleJoinRoom ==
  /\ Handling("JoinRoom")
  /\ LET m == Head(incoming)
     IN  \/ /\ ~(m.client_id \in Members(waitingRoom) /\ RoomExists(m.room))
            /\ DropMessage
         \/ /\ RoomExists(m.room)
            /\ IsFrontOfWaitingRoom(m.client_id)
            /\ JoinFrontClient(m)
            /\ UNCHANGED serverState

\* The search for the client never advances its iterator: unless the client
\* is the first that waits, the main thread compares the first for ever.
JoinRoomSpins ==
  /\ serverState = "running"
  /\ FrontIs("JoinRoom")
  /\ Head(incoming).client_id \in Members(waitingRoom)
  /\ RoomExists(Head(incoming).room)
  /\ ~IsFrontOfWaitingRoom(Head(incoming).client_id)
  /\ serverState' = "spinning"
  /\ UNCHANGED <<numConnections, open, waitingRoom, rooms, roomCapacity,
                 incoming, outgoing, received>>

\* The io thread has removed whoever waited in front of the client, and the
\* search finds it in the first slot; or it has removed everybody, and a
\* build that evaluates end() again sees that there is nobody to find.
SpinEnds ==
  /\ serverState = "spinning"
  /\ serverState' = "running"
  /\ incoming' = Tail(incoming)
  /\ UNCHANGED <<numConnections, open, received>>
  /\ \/ /\ IsFrontOfWaitingRoom(Head(incoming).client_id)
        /\ JoinFrontClient(Head(incoming))
     \/ /\ waitingRoom.clients = <<>>
        /\ UNCHANGED <<waitingRoom, rooms, roomCapacity, outgoing>>

Grow_KeepsCapacity ==
  /\ \E w \in Words : rooms' = Append(rooms, EmptyRoom(w))
  /\ UNCHANGED roomCapacity

\* m_rooms.emplace_back(): a full vector moves its rooms to twice the space.
Grow ==
  IF Len(rooms) = roomCapacity
  THEN /\ roomCapacity' = IF roomCapacity = 0 THEN 1 ELSE 2 * roomCapacity
       /\ \E w \in Words :
            rooms' = Append([i \in DOMAIN rooms |-> Relocated(rooms[i])],
                            EmptyRoom(w))
  ELSE /\ roomCapacity' = roomCapacity
       /\ \E w \in Words : rooms' = Append(rooms, EmptyRoom(w))

HandleCreateRoom_Silent ==
  /\ Handling("CreateRoom")
  /\ Grow
  /\ UNCHANGED <<waitingRoom, outgoing, serverState>>

\* The room is there before the client is looked up: no client, no reply.
HandleCreateRoom ==
  /\ Handling("CreateRoom")
  /\ Grow
  /\ LET id == Head(incoming).client_id
     IN  outgoing' = IF id \in Members(waitingRoom)
                     THEN [outgoing EXCEPT ![id] =
                             Append(@, SetRoomId(Len(rooms) % RoomRange))]
                     ELSE outgoing
  /\ UNCHANGED <<waitingRoom, serverState>>

\* Neither the drawer nor the membership of the sender is looked at.
HandleDrawCommand ==
  /\ Handling("DrawCommand")
  /\ LET m == Head(incoming)
     IN  \/ ~RoomExists(m.room) /\ DropMessage
         \/ /\ RoomExists(m.room)
            /\ rooms' = [rooms EXCEPT ![m.room + 1] = AddDrawCommand(@, m.command)]
            /\ outgoing' = Post(outgoing, BroadcastExcept(GameRoom(m.room),
                                            Drawing(m.command), m.client_id))
            /\ UNCHANGED <<waitingRoom, roomCapacity, serverState>>

\* The drawer's guess is refused; of a sender that is not in the room,
\* CheckWord finds nobody to judge.
MayGuess(id, r) ==
  /\ RoomExists(r)
  /\ id # GameRoom(r).currentDrawer
  /\ id \in Members(GameRoom(r))

HandleGuessPacket ==
  /\ Handling("GuessPacket")
  /\ LET m    == Head(incoming)
         id   == m.client_id
         room == GameRoom(m.room)
     IN  \/ ~MayGuess(id, m.room) /\ DropMessage
         \/ /\ MayGuess(id, m.room)
            /\ ~GuessOverruns(room, m.guess, id)
            /\ \E w \in Words :
                 /\ rooms' = [rooms EXCEPT ![m.room + 1] =
                                CheckWord(@, m.guess, id, w)]
                 /\ outgoing' = Post(outgoing,
                                     CheckWordPosts(room, m.guess, id, w))
            /\ UNCHANGED <<waitingRoom, roomCapacity, serverState>>
         \/ /\ MayGuess(id, m.room)
            /\ GuessOverruns(room, m.guess, id)
            /\ serverState' = "overrun"
            /\ UNCHANGED <<waitingRoom, rooms, roomCapacity, outgoing>>

\* A CanvasPacket from a player means "clear".
HandleCanvasPacket ==
  /\ Handling("CanvasPacket")
  /\ LET m == Head(incoming)
     IN  \/ ~RoomExists(m.room) /\ DropMessage
         \/ /\ RoomExists(m.room)
            /\ rooms' = [rooms EXCEPT ![m.room + 1] = ClearCanvas(@)]
            /\ LET room == GameRoom(m.room)
               IN  outgoing' = Post(outgoing,
                                    Broadcast(room, Canvas(ClearCanvas(room))))
            /\ UNCHANGED <<waitingRoom, roomCapacity, serverState>>

-----------------------------------------------------------------------------

HandleMessages ==
  \/ HandleJoinRoom
  \/ JoinRoomSpins
  \/ HandleCreateRoom
  \/ HandleDrawCommand
  \/ HandleGuessPacket
  \/ HandleCanvasPacket

Network ==
  \/ AcceptConnection
  \/ AcceptAlreadyReset
  \/ \E c \in ConnIds :
       \/ \E m \in PlayerMessages(c) : Arrive(c, m)
       \/ Sent(c)
       \/ Disconnect(c)
       \/ DisconnectOverruns(c)

Next == HandleMessages \/ SpinEnds \/ Network

\* The main thread's loop never stops by itself; the network owes nothing.
Spec == Init /\ [][Next]_vars /\ WF_vars(HandleMessages)

-----------------------------------------------------------------------------
(* Properties *)

RoomType == RoomRecords(ConnIds, Words, Commands)

PlayerMessage == UNION {PlayerMessages(c) : c \in ConnIds}

ServerMessage ==
  [type : {"SetClientId"}, client_id : 0 .. (IdRange - 1)]
  \cup [type : {"SetRoomId"}, room : 0 .. (RoomRange - 1)]
  \cup [type : {"SetDrawer"}, isDrawer : {TRUE}, word : Words]
  \cup [type : {"SetDrawer"}, isDrawer : {FALSE}]
  \cup [type : {"CanvasPacket"}, commands : Seq(Commands)]
  \cup [type : {"DrawCommand"}, command : Commands]
  \cup [type : {"CorrectGuess"}, client_id : 0 .. (IdRange - 1)]
  \cup [type : {"GuessPacket"}, client_id : 0 .. (IdRange - 1), guess : Guesses]

\* Every variable has its type, the vector never exceeds its capacity, and
\* the main thread spins only in the handler of a JoinRoom.
TypeOK ==
  /\ numConnections \in 0 .. MaxConnections
  /\ open \subseteq 0 .. (numConnections - 1)
  /\ waitingRoom \in RoomType
  /\ rooms \in Seq(RoomType)
  /\ roomCapacity \in Nat
  /\ Len(rooms) <= roomCapacity
  /\ incoming \in Seq(PlayerMessage)
  /\ outgoing \in [ConnIds -> Seq(ServerMessage)]
  /\ received \in 0 .. MaxReceived
  /\ serverState \in {"running", "spinning", "uncaught", "overrun"}
  /\ serverState = "spinning" =>
       FrontIs("JoinRoom") /\ RoomExists(Head(incoming).room)

AllRooms == Range(rooms) \cup {waitingRoom}

\* Every open connection is in exactly one room, once; a room holds nobody
\* else.  MoveClient, RemoveClient and AddClient must agree for that.
OneHome ==
  /\ \A c \in open :
       \/ /\ c \in Members(waitingRoom)
          /\ \A i \in DOMAIN rooms : c \notin Members(rooms[i])
       \/ /\ c \notin Members(waitingRoom)
          /\ \E i \in DOMAIN rooms :
               \A j \in DOMAIN rooms : c \in Members(rooms[j]) <=> i = j
  /\ \A room \in AllRooms :
       Members(room) \subseteq open /\ IsInjective(room.clients)

\* m_currentDrawer of a room that no growth of m_rooms has moved: the rooms
\* of the upper half of the capacity.
NeverMoved(i) == i \in DOMAIN rooms /\ i > roomCapacity \div 2

\* In a room that was never moved the drawer is one of the clients whenever
\* there are clients, whoever leaves, joins, or wins: NewRound finds it.
DrawerIsMember ==
  \A i \in DOMAIN rooms : NeverMoved(i) => ~SearchOverruns(rooms[i])

\* Losing a connection that still waits never sends NewRound off the end,
\* though MoveClient leaves the waiting room without a drawer.
WaitingRoomNeverOverruns ==
  \A c \in Members(waitingRoom) : ~LeavingOverruns(waitingRoom, c)

\* The server dies in NewRound only after m_rooms has grown with a room in it.
OverrunNeedsGrowth == serverState = "overrun" => roomCapacity >= 2

\* No round is left over: as long as somebody can guess, somebody has yet to
\* guess right.  CheckWord and RemoveClient decide this separately.
RoundEndsWhenAllGuessed ==
  \A i \in DOMAIN rooms :
    NeverMoved(i) /\ Guessers(rooms[i]) # {} => ~AllCorrect(rooms[i])

(***************************************************************************)
(* What the server asks of the connections' outgoing queues: it sends only *)
(* to connections that are open, whatever rooms they are in, and each of   *)
(* them delivers in order.  Connection shows such a queue from the inside. *)
(***************************************************************************)
Channel == INSTANCE Channels WITH
  Ids <- ConnIds,
  opened <- 0 .. (numConnections - 1)

\* The outgoing queues are the channels that Connection implements.
KeepsChannels == Channel!Spec

(***************************************************************************)
(* Where the clients are, for the threads of ServerThreads to agree with.  *)
(***************************************************************************)
Home == INSTANCE Homes WITH
  Ids <- ConnIds,
  entered <- 0 .. (numConnections - 1),
  waiting <- Members(waitingRoom),
  seated <- UNION {Members(room) : room \in Range(rooms)}

\* Clients come, move on and leave as in Homes: nobody comes back, is in two
\* rooms, or changes rooms.
KeepsHomes == Home!Spec

\* "was not found in the waiting room" (Server.cpp): the search for a client
\* that joins comes to an end, with or without the client.
SearchEnds == serverState # "spinning"

\* The main thread empties its queue, unless it spins or the server dies.
QueueIsEmptied ==
  (serverState = "running" /\ incoming # <<>>)
    ~> (incoming = <<>> \/ serverState # "running")
=============================================================================
