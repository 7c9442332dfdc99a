-------------------------- MODULE GameServerProofs --------------------------
(***************************************************************************)
(* The safety properties of GameServer and the two specifications that it  *)
(* implements, for any number of connections, messages and words and any   *)
(* width of the header's fields.                                           *)
(***************************************************************************)
EXTENDS GameServer, RoomProofs

(***************************************************************************)
(* The inductive invariant.  Homes says of the member sets what OneHome    *)
(* says of the connections; LivelyRooms holds DrawerIsMember and           *)
(* RoundEndsWhenAllGuessed together, since each needs the other: a         *)
(* newcomer is a guesser only because the drawer is somebody else, and     *)
(* NewRound has a drawer only because it finds one.                        *)
(***************************************************************************)

Homes ==
  /\ Members(waitingRoom) \subseteq open
  /\ \A i \in DOMAIN rooms : Members(rooms[i]) \subseteq open
  /\ \A c \in open :
       c \in Members(waitingRoom) \/ \E i \in DOMAIN rooms : c \in Members(rooms[i])
  /\ \A i \in DOMAIN rooms : Members(rooms[i]) \cap Members(waitingRoom) = {}
  /\ \A i, j \in DOMAIN rooms :
       i # j => Members(rooms[i]) \cap Members(rooms[j]) = {}

SoundRooms ==
  /\ Sound(waitingRoom)
  /\ \A i \in DOMAIN rooms : Sound(rooms[i])

LivelyRooms == \A i \in DOMAIN rooms : NeverMoved(i) => Lively(rooms[i])

IInv ==
  /\ TypeOK
  /\ Homes
  /\ SoundRooms
  /\ LivelyRooms
  /\ Quiet(waitingRoom)
  /\ OverrunNeedsGrowth

(***************************************************************************)
(* Messages                                                                *)
(***************************************************************************)

\* What HandleMessages reads from a message of each type.
LEMMA PlayerMessageFields ==
  ASSUME NEW m \in PlayerMessage
  PROVE  /\ m.client_id \in 0 .. (IdRange - 1)
         /\ m.type # "CreateRoom" => m.room \in 0 .. (RoomRange - 1)
         /\ m.type = "DrawCommand" => m.command \in Commands
         /\ m.type = "GuessPacket" => m.guess \in Guesses
<1>1. PICK c \in ConnIds : m \in PlayerMessages(c)
  BY DEF PlayerMessage
<1>2. WireId(c) \in 0 .. (IdRange - 1)
  BY WidthsAssumption, BoundsAssumption DEF WireId, ConnIds
<1>3. QED
  BY <1>1, <1>2 DEF PlayerMessages

\* What a room posts is a message.
LEMMA RoomMessages ==
  ASSUME NEW room \in RoomType, NEW id
  PROVE  SetDrawer(room, id) \in ServerMessage /\ Canvas(room) \in ServerMessage
<1>1. Canvas(room) \in [type : {"CanvasPacket"}, commands : Seq(Commands)]
  BY DEF Canvas, RoomType, RoomRecords
<1>2. CASE id = room.currentDrawer
  <2>1. SetDrawer(room, id) \in [type : {"SetDrawer"}, isDrawer : {TRUE}, word : Words]
    BY <1>2 DEF SetDrawer, RoomType, RoomRecords
  <2>2. QED
    BY <1>1, <2>1 DEF ServerMessage
<1>3. CASE id # room.currentDrawer
  <2>1. SetDrawer(room, id) \in [type : {"SetDrawer"}, isDrawer : {FALSE}]
    BY <1>3 DEF SetDrawer
  <2>2. QED
    BY <1>1, <2>1 DEF ServerMessage
<1>4. QED
  BY <1>2, <1>3

\* Promoting a drawer posts messages to the members.
LEMMA PromotionPosts ==
  ASSUME NEW room \in RoomType
  PROVE  PromoteDrawerPosts(room) \in [Members(room) -> Seq(ServerMessage)]
BY RoomMessages, PromoteDrawerPostsType DEF RoomType

\* So does removing a client ...
LEMMA LeavingPosts ==
  ASSUME NEW room \in RoomType, Sound(room), NEW id \in Members(room),
         NEW w \in Words, ~LeavingOverruns(room, id)
  PROVE  RemoveClientPosts(room, id, w)
           \in [Members(room) \ {id} -> Seq(ServerMessage)]
<1> DEFINE left == AfterLeaving(room, id)
           done == RemoveClient(room, id, w)
           others == Members(room) \ {id}
           first(c) == IF DrawerLeaves(room, id)
                       THEN PromoteDrawerPosts(left)[c] ELSE <<>>
           then(c) == IF LeavingEndsRound(room, id)
                      THEN PromoteDrawerPosts(done)[c] ELSE <<>>
<1>1. left \in RoomType /\ Members(left) = others
  BY AfterLeavingFacts DEF RoomType
<1>2. done \in RoomType /\ Members(done) = others
  BY RemoveClientFacts DEF RoomType
<1> HIDE DEF left, done, others
<1>3. /\ PromoteDrawerPosts(left) \in [others -> Seq(ServerMessage)]
      /\ PromoteDrawerPosts(done) \in [others -> Seq(ServerMessage)]
  BY <1>1, <1>2, PromotionPosts
<1>4. ASSUME NEW c \in others
      PROVE  first(c) \o then(c) \in Seq(ServerMessage)
  <2>1. first(c) \in Seq(ServerMessage)
    BY <1>3, <1>4
  <2>2. then(c) \in Seq(ServerMessage)
    BY <1>3, <1>4
  <2> HIDE DEF first, then
  <2>3. QED
    BY <2>1, <2>2, ConcatProperties
<1>5. RemoveClientPosts(room, id, w) = [c \in others |-> first(c) \o then(c)]
  BY DEF RemoveClientPosts, left, done, others
<1> HIDE DEF first, then
<1>6. QED
  BY <1>4, <1>5 DEF others

\* ... and checking a guess.
LEMMA GuessPosts ==
  ASSUME NEW room \in RoomType, Sound(room), NEW id \in Members(room),
         id \in 0 .. (IdRange - 1), NEW guess \in Guesses, NEW w \in Words,
         ~GuessOverruns(room, guess, id)
  PROVE  CheckWordPosts(room, guess, id, w)
           \in [Members(room) -> Seq(ServerMessage)]
<1> DEFINE done == CheckWord(room, guess, id, w)
           answer == IF guess = room.word THEN CorrectGuess(id)
                      ELSE WrongGuess(id, guess)
           then(c) == IF GuessEndsRound(room, guess, id)
                      THEN PromoteDrawerPosts(done)[c] ELSE <<>>
<1>1. done \in RoomType /\ Members(done) = Members(room)
  BY CheckWordFacts DEF RoomType
<1>2. answer \in ServerMessage
  BY DEF CorrectGuess, WrongGuess, ServerMessage
<1> HIDE DEF done, answer
<1>3. PromoteDrawerPosts(done) \in [Members(room) -> Seq(ServerMessage)]
  BY <1>1, PromotionPosts
<1>4. ASSUME NEW c \in Members(room)
      PROVE  <<answer>> \o then(c) \in Seq(ServerMessage)
  <2>1. then(c) \in Seq(ServerMessage)
    BY <1>3, <1>4
  <2>2. <<answer>> \in Seq(ServerMessage)
    BY <1>2
  <2> HIDE DEF then
  <2>3. QED
    BY <2>1, <2>2, ConcatProperties
<1>5. CheckWordPosts(room, guess, id, w) = [c \in Members(room) |-> <<answer>> \o then(c)]
  BY DEF CheckWordPosts, done, answer
<1> HIDE DEF then
<1>6. QED
  BY <1>4, <1>5

(***************************************************************************)
(* What a step does to the rooms                                           *)
(***************************************************************************)

\* One room is replaced by a sound one that is lively if the room was.
LEMMA ReplaceRoom ==
  ASSUME IInv, NEW i \in DOMAIN rooms, NEW room \in RoomType, Sound(room),
         Lively(rooms[i]) => Lively(room),
         rooms' = [rooms EXCEPT ![i] = room], roomCapacity' = roomCapacity
  PROVE  /\ rooms' \in Seq(RoomType)
         /\ Len(rooms') = Len(rooms)
         /\ DOMAIN rooms' = DOMAIN rooms
         /\ \A j \in DOMAIN rooms :
              /\ rooms'[j] = IF j = i THEN room ELSE rooms[j]
              /\ Sound(rooms'[j])
         /\ LivelyRooms'
<1>1. rooms \in Seq(RoomType) /\ DOMAIN rooms = 1 .. Len(rooms)
  BY DEF IInv, TypeOK
<1>2. /\ rooms' \in Seq(RoomType)
      /\ Len(rooms') = Len(rooms)
      /\ \A j \in DOMAIN rooms : rooms'[j] = IF j = i THEN room ELSE rooms[j]
  BY <1>1
<1>3. DOMAIN rooms' = DOMAIN rooms
  BY <1>1, <1>2
<1>4. \A j \in DOMAIN rooms : Sound(rooms'[j])
  BY <1>2 DEF IInv, SoundRooms
<1>5. LivelyRooms'
  BY <1>2, <1>3 DEF IInv, LivelyRooms, NeverMoved
<1>6. QED
  BY <1>2, <1>3, <1>4, <1>5

\* A handler that keeps the members of the room it works on keeps everything
\* the invariant says of rooms.
LEMMA RoomStep ==
  ASSUME IInv, NEW i \in DOMAIN rooms, NEW room \in RoomType, Sound(room),
         Lively(rooms[i]) => Lively(room), Members(room) = Members(rooms[i]),
         rooms' = [rooms EXCEPT ![i] = room],
         UNCHANGED <<open, waitingRoom, roomCapacity>>
  PROVE  /\ rooms' \in Seq(RoomType)
         /\ Len(rooms') = Len(rooms)
         /\ Homes' /\ SoundRooms' /\ LivelyRooms' /\ Quiet(waitingRoom)'
<1>1. /\ rooms' \in Seq(RoomType) /\ Len(rooms') = Len(rooms)
      /\ DOMAIN rooms' = DOMAIN rooms
      /\ \A j \in DOMAIN rooms :
           /\ rooms'[j] = IF j = i THEN room ELSE rooms[j]
           /\ Sound(rooms'[j])
      /\ LivelyRooms'
  BY ReplaceRoom
<1>2. \A j \in DOMAIN rooms : Members(rooms'[j]) = Members(rooms[j])
  BY <1>1
<1>3. Homes'
  BY <1>1, <1>2 DEF IInv, Homes
<1>4. SoundRooms' /\ Quiet(waitingRoom)'
  BY <1>1, <1>2 DEF IInv, SoundRooms
<1>5. QED
  BY <1>1, <1>3, <1>4

\* A step that leaves rooms, capacity and connections alone keeps what the
\* invariant says of them.
LEMMA RoomsUnchanged ==
  ASSUME IInv, UNCHANGED <<open, waitingRoom, rooms, roomCapacity>>
  PROVE  Homes' /\ SoundRooms' /\ LivelyRooms' /\ Quiet(waitingRoom)'
<1>1. Homes'
  BY DEF IInv, Homes
<1>2. SoundRooms' /\ LivelyRooms'
  BY DEF IInv, SoundRooms, LivelyRooms, NeverMoved
<1>3. Quiet(waitingRoom)'
  BY DEF IInv
<1>4. QED
  BY <1>1, <1>2, <1>3

\* Taking the front message leaves a queue of messages, and tells what the
\* front message is.
LEMMA TakingFront ==
  ASSUME TypeOK, NEW type, FrontIs(type)
  PROVE  /\ Head(incoming) \in PlayerMessage
         /\ Head(incoming).type = type
         /\ Tail(incoming) \in Seq(PlayerMessage)
BY HeadTailProperties DEF TypeOK, FrontIs

\* Rooms are numbered from zero.
LEMMA GameRoomFacts ==
  ASSUME IInv, NEW r \in Nat, RoomExists(r)
  PROVE  r + 1 \in DOMAIN rooms /\ GameRoom(r) = rooms[r + 1] /\ GameRoom(r) \in RoomType
         /\ Sound(GameRoom(r))
<1>1. rooms \in Seq(RoomType) /\ DOMAIN rooms = 1 .. Len(rooms) /\ Len(rooms) \in Nat
  BY DEF IInv, TypeOK
<1>2. r + 1 \in DOMAIN rooms
  BY <1>1 DEF RoomExists
<1>3. QED
  BY <1>1, <1>2 DEF GameRoom, IInv, SoundRooms

(***************************************************************************)
(* Initially                                                               *)
(***************************************************************************)

\* Nobody is connected and there is no room.
LEMMA InitIInv == Init => IInv
<1> SUFFICES ASSUME Init PROVE IInv
  OBVIOUS
<1>1. PICK w \in Words : waitingRoom = EmptyRoom(w)
  BY DEF Init
<1>2. /\ waitingRoom \in RoomType /\ Sound(waitingRoom)
      /\ Members(waitingRoom) = {} /\ waitingRoom.second = {}
  BY <1>1, EmptyRoomFacts DEF RoomType
<1>3. /\ rooms \in Seq(RoomType) /\ Len(rooms) = 0 /\ DOMAIN rooms = {}
  BY DEF Init
<1>4. TypeOK
  BY <1>2, <1>3, BoundsAssumption DEF Init, TypeOK
<1>5. QED
  BY <1>2, <1>3, <1>4 DEF Init, IInv, Homes, SoundRooms, LivelyRooms, Quiet,
                          OverrunNeedsGrowth

(***************************************************************************)
(* The io thread                                                           *)
(***************************************************************************)

\* The id is new, so the client that gets it is in no room yet.
LEMMA AcceptConnectionKeeps == IInv /\ AcceptConnection => IInv'
<1> SUFFICES ASSUME IInv, AcceptConnection PROVE IInv'
  OBVIOUS
<1> DEFINE id == numConnections
           room == AddClient(waitingRoom, id)
<1>1. /\ id \in Nat /\ id \in ConnIds
      /\ open \subseteq 0 .. (id - 1) /\ id \notin open
  BY BoundsAssumption DEF IInv, TypeOK, AcceptConnection, ConnIds
<1>2. /\ waitingRoom \in RoomType /\ Sound(waitingRoom) /\ Quiet(waitingRoom)
      /\ id \notin Members(waitingRoom)
      /\ \A i \in DOMAIN rooms : id \notin Members(rooms[i])
  BY <1>1 DEF IInv, TypeOK, SoundRooms, Homes
<1>3. /\ room \in RoomType /\ Sound(room) /\ Quiet(room)
      /\ Members(room) = Members(waitingRoom) \cup {id}
  BY <1>1, <1>2, AddClientFacts, AddClientKeeps DEF RoomType
<1> HIDE DEF room
<1>4. /\ waitingRoom' = room /\ open' = open \cup {id} /\ numConnections' = id + 1
      /\ UNCHANGED <<rooms, roomCapacity, incoming, received, serverState>>
  BY DEF AcceptConnection, room
<1>5. outgoing' \in [ConnIds -> Seq(ServerMessage)]
  <2>1. id % IdRange \in 0 .. (IdRange - 1)
    BY <1>1, WidthsAssumption
  <2>2. SetClientId(id % IdRange) \in ServerMessage
    BY <2>1 DEF SetClientId, ServerMessage
  <2>3. <<SetClientId(id % IdRange)>> \in Seq(ServerMessage)
    BY <2>2
  <2>4. QED
    BY <1>1, <2>3 DEF AcceptConnection, IInv, TypeOK
<1>6. TypeOK'
  <2>1. /\ (numConnections \in 0 .. MaxConnections)'
        /\ (open \subseteq 0 .. (numConnections - 1))'
    BY <1>1, <1>4, BoundsAssumption DEF AcceptConnection
  <2>2. QED
    BY <1>3, <1>4, <1>5, <2>1 DEF IInv, TypeOK, FrontIs, RoomExists
<1>7. Homes'
  BY <1>2, <1>3, <1>4 DEF IInv, Homes
<1>8. SoundRooms' /\ LivelyRooms' /\ Quiet(waitingRoom)'
  BY <1>3, <1>4 DEF IInv, SoundRooms, LivelyRooms, NeverMoved
<1>9. OverrunNeedsGrowth'
  BY <1>4 DEF IInv, OverrunNeedsGrowth
<1>10. QED
  BY <1>6, <1>7, <1>8, <1>9 DEF IInv

\* The io thread dies with everything as it was.
LEMMA AcceptAlreadyResetKeeps == IInv /\ AcceptAlreadyReset => IInv'
<1> SUFFICES ASSUME IInv, AcceptAlreadyReset PROVE IInv'
  OBVIOUS
<1>1. /\ serverState' = "uncaught"
      /\ UNCHANGED <<numConnections, open, waitingRoom, rooms, roomCapacity,
                     incoming, outgoing, received>>
  BY DEF AcceptAlreadyReset
<1>2. TypeOK'
  BY <1>1 DEF IInv, TypeOK
<1>3. OverrunNeedsGrowth'
  BY <1>1 DEF OverrunNeedsGrowth
<1>4. QED
  BY <1>1, <1>2, <1>3, RoomsUnchanged DEF IInv

\* A message of a player goes to the end of the queue.
LEMMA ArriveKeeps ==
  ASSUME IInv, NEW c \in ConnIds, NEW m \in PlayerMessages(c), Arrive(c, m)
  PROVE  IInv'
<1>1. /\ incoming' = Append(incoming, m) /\ received' = received + 1
      /\ UNCHANGED <<numConnections, open, waitingRoom, rooms, roomCapacity,
                     outgoing, serverState>>
  BY DEF Arrive
<1>2. /\ incoming' \in Seq(PlayerMessage)
      /\ incoming # <<>> => incoming' # <<>> /\ Head(incoming') = Head(incoming)
  <2>1. incoming \in Seq(PlayerMessage) /\ m \in PlayerMessage
    BY DEF IInv, TypeOK, PlayerMessage
  <2>2. QED
    BY <1>1, <2>1, AppendProperties
<1>3. received' \in 0 .. MaxReceived
  BY <1>1, BoundsAssumption DEF IInv, TypeOK, Arrive
<1>4. TypeOK'
  BY <1>1, <1>2, <1>3 DEF IInv, TypeOK, FrontIs, RoomExists
<1>5. OverrunNeedsGrowth'
  BY <1>1 DEF IInv, OverrunNeedsGrowth
<1>6. QED
  BY <1>1, <1>4, <1>5, RoomsUnchanged DEF IInv

\* A message leaves the front of an outgoing queue.
LEMMA SentKeeps ==
  ASSUME IInv, NEW c \in ConnIds, Sent(c)
  PROVE  IInv'
<1>1. /\ outgoing' = [outgoing EXCEPT ![c] = Tail(@)]
      /\ outgoing[c] # <<>>
      /\ UNCHANGED <<numConnections, open, waitingRoom, rooms, roomCapacity,
                     incoming, received, serverState>>
  BY DEF Sent
<1>2. outgoing' \in [ConnIds -> Seq(ServerMessage)]
  <2>1. Tail(outgoing[c]) \in Seq(ServerMessage)
    BY <1>1, HeadTailProperties DEF IInv, TypeOK
  <2>2. QED
    BY <1>1, <2>1 DEF IInv, TypeOK
<1>3. TypeOK'
  BY <1>1, <1>2 DEF IInv, TypeOK, FrontIs, RoomExists
<1>4. OverrunNeedsGrowth'
  BY <1>1 DEF IInv, OverrunNeedsGrowth
<1>5. QED
  BY <1>1, <1>3, <1>4, RoomsUnchanged DEF IInv

\* A connection is closed, and its client leaves the one room it is in.
LEMMA DisconnectKeeps ==
  ASSUME IInv, NEW c \in ConnIds, Disconnect(c)
  PROVE  IInv'
<1>1. /\ open' = open \ {c}
      /\ UNCHANGED <<numConnections, roomCapacity, incoming, received, serverState>>
  BY DEF Disconnect
<1>2. ASSUME /\ waitingRoom' \in RoomType
             /\ rooms' \in Seq(RoomType) /\ Len(rooms') = Len(rooms)
             /\ outgoing' \in [ConnIds -> Seq(ServerMessage)],
             Homes', SoundRooms', LivelyRooms', Quiet(waitingRoom)'
      PROVE  IInv'
  <2>1. TypeOK'
    <3>1. (open \subseteq 0 .. (numConnections - 1))'
      BY <1>1 DEF IInv, TypeOK
    <3>2. QED
      BY <1>1, <1>2, <3>1 DEF IInv, TypeOK, FrontIs, RoomExists
  <2>2. OverrunNeedsGrowth'
    BY <1>1 DEF IInv, OverrunNeedsGrowth
  <2>3. QED
    BY <1>2, <2>1, <2>2 DEF IInv
<1>3. ASSUME NEW room \in RoomType, Sound(room), c \in Members(room),
             ~LeavingOverruns(room, c), NEW w \in Words,
             outgoing' = [Post(outgoing, RemoveClientPosts(room, c, w))
                            EXCEPT ![c] = <<>>]
      PROVE  outgoing' \in [ConnIds -> Seq(ServerMessage)]
  <2>1. Post(outgoing, RemoveClientPosts(room, c, w)) \in [ConnIds -> Seq(ServerMessage)]
    BY <1>3, LeavingPosts, PostType DEF IInv, TypeOK
  <2>2. QED
    BY <1>3, <2>1
<1>4. CASE /\ c \in Members(waitingRoom)
           /\ ~LeavingOverruns(waitingRoom, c)
           /\ \E w \in Words :
                /\ waitingRoom' = RemoveClient(waitingRoom, c, w)
                /\ outgoing' = [Post(outgoing, RemoveClientPosts(waitingRoom, c, w))
                                  EXCEPT ![c] = <<>>]
           /\ UNCHANGED rooms
  <2>1. PICK w \in Words :
          /\ waitingRoom' = RemoveClient(waitingRoom, c, w)
          /\ outgoing' = [Post(outgoing, RemoveClientPosts(waitingRoom, c, w))
                            EXCEPT ![c] = <<>>]
    BY <1>4
  <2>2. waitingRoom \in RoomType /\ Sound(waitingRoom) /\ Quiet(waitingRoom)
    BY DEF IInv, TypeOK, SoundRooms
  <2>3. /\ waitingRoom' \in RoomType /\ Sound(waitingRoom') /\ Quiet(waitingRoom')
        /\ Members(waitingRoom') = Members(waitingRoom) \ {c}
    BY <1>4, <2>1, <2>2, RemoveClientFacts DEF RoomType
  <2>4. outgoing' \in [ConnIds -> Seq(ServerMessage)]
    BY <1>3, <1>4, <2>1, <2>2
  <2>5. Homes'
    BY <1>1, <1>4, <2>3 DEF IInv, Homes
  <2>6. SoundRooms' /\ LivelyRooms'
    BY <1>1, <1>4, <2>3 DEF IInv, SoundRooms, LivelyRooms, NeverMoved
  <2>7. QED
    BY <1>2, <1>4, <2>3, <2>4, <2>5, <2>6 DEF IInv, TypeOK
<1>5. ASSUME NEW i \in DOMAIN rooms,
             c \in Members(rooms[i]), ~LeavingOverruns(rooms[i], c),
             NEW w \in Words,
             rooms' = [rooms EXCEPT ![i] = RemoveClient(@, c, w)],
             outgoing' = [Post(outgoing, RemoveClientPosts(rooms[i], c, w))
                            EXCEPT ![c] = <<>>],
             UNCHANGED waitingRoom
      PROVE  IInv'
  <2> DEFINE room == RemoveClient(rooms[i], c, w)
  <2>1. rooms[i] \in RoomType /\ Sound(rooms[i])
    BY DEF IInv, TypeOK, SoundRooms
  <2>2. /\ room \in RoomType /\ Sound(room)
        /\ Members(room) = Members(rooms[i]) \ {c}
        /\ Lively(rooms[i]) => Lively(room)
    BY <1>5, <2>1, RemoveClientFacts DEF RoomType
  <2>3. outgoing' \in [ConnIds -> Seq(ServerMessage)]
    BY <1>3, <1>5, <2>1
  <2> HIDE DEF room
  <2>4. /\ rooms' \in Seq(RoomType) /\ Len(rooms') = Len(rooms)
        /\ DOMAIN rooms' = DOMAIN rooms
        /\ \A j \in DOMAIN rooms :
             /\ rooms'[j] = IF j = i THEN room ELSE rooms[j]
             /\ Sound(rooms'[j])
        /\ LivelyRooms'
    <3>1. rooms' = [rooms EXCEPT ![i] = room]
      BY <1>5 DEF room
    <3>2. QED
      BY <1>1, <2>2, <3>1, ReplaceRoom
  <2>5. \A j \in DOMAIN rooms : Members(rooms'[j]) = Members(rooms[j]) \ {c}
    BY <1>5, <2>2, <2>4 DEF IInv, Homes
  <2>6. c \notin Members(waitingRoom)
    BY <1>5 DEF IInv, Homes
  <2>7. Homes'
    BY <1>1, <1>5, <2>4, <2>5, <2>6 DEF IInv, Homes
  <2>8. SoundRooms' /\ Quiet(waitingRoom)' /\ waitingRoom' \in RoomType
    BY <1>5, <2>4, <2>5 DEF IInv, SoundRooms, TypeOK
  <2>9. QED
    BY <1>2, <2>3, <2>4, <2>7, <2>8
<1>6. QED
  BY <1>4, <1>5 DEF Disconnect

\* Only a room that growth has moved can lose its drawer, and then the
\* capacity has been doubled.
LEMMA OnlyMovedOverruns ==
  ASSUME IInv, NEW i \in DOMAIN rooms, ~Lively(rooms[i])
  PROVE  roomCapacity >= 2
<1>1. ~(i > roomCapacity \div 2)
  BY DEF IInv, LivelyRooms, NeverMoved
<1>2. i \in Nat /\ i >= 1 /\ roomCapacity \in Nat
  BY DEF IInv, TypeOK
<1>3. QED
  BY <1>1, <1>2

\* The process dies in NewRound, and only after growth.
LEMMA DisconnectOverrunsKeeps ==
  ASSUME IInv, NEW c \in ConnIds, DisconnectOverruns(c)
  PROVE  IInv'
<1>1. /\ serverState' = "overrun"
      /\ UNCHANGED <<numConnections, open, waitingRoom, rooms, roomCapacity,
                     incoming, outgoing, received>>
  BY DEF DisconnectOverruns
<1>2. TypeOK'
  BY <1>1 DEF IInv, TypeOK
<1>3. roomCapacity >= 2
  <2>1. PICK room \in Range(rooms) \cup {waitingRoom} :
          c \in Members(room) /\ LeavingOverruns(room, c)
    BY DEF DisconnectOverruns
  <2>2. PICK w : w \in Words
    BY WordsAssumption
  <2>3. CASE room = waitingRoom
    <3>1. waitingRoom \in RoomType /\ Sound(waitingRoom) /\ Quiet(waitingRoom)
      BY DEF IInv, TypeOK, SoundRooms
    <3>2. ~LeavingOverruns(waitingRoom, c)
      BY <2>1, <2>2, <2>3, <3>1, RemoveClientFacts DEF RoomType
    <3>3. QED
      BY <2>1, <2>3, <3>2
  <2>4. CASE room \in Range(rooms)
    <3>1. PICK i \in DOMAIN rooms : room = rooms[i]
      BY <2>4 DEF Range
    <3>2. rooms[i] \in RoomType /\ Sound(rooms[i])
      BY DEF IInv, TypeOK, SoundRooms
    <3>3. ~Lively(rooms[i])
      BY <2>1, <2>2, <3>1, <3>2, RemoveClientFacts DEF RoomType
    <3>4. QED
      BY <3>3, OnlyMovedOverruns
  <2>5. QED
    BY <2>1, <2>3, <2>4
<1>4. OverrunNeedsGrowth'
  BY <1>1, <1>3 DEF OverrunNeedsGrowth
<1>5. QED
  BY <1>1, <1>2, <1>4, RoomsUnchanged DEF IInv

(***************************************************************************)
(* The main thread                                                         *)
(***************************************************************************)

\* What a handler has to show once it has taken the front message.
LEMMA HandlerKeeps ==
  ASSUME IInv, incoming # <<>>, incoming' = Tail(incoming),
         UNCHANGED <<numConnections, open, received>>,
         serverState' \in {"running", "overrun"},
         roomCapacity' \in Nat, serverState' = "overrun" => roomCapacity' >= 2,
         rooms' \in Seq(RoomType), Len(rooms') <= roomCapacity',
         waitingRoom' \in RoomType, outgoing' \in [ConnIds -> Seq(ServerMessage)],
         Homes', SoundRooms', LivelyRooms', Quiet(waitingRoom)'
  PROVE  IInv'
<1>1. incoming' \in Seq(PlayerMessage)
  BY HeadTailProperties DEF IInv, TypeOK
<1>2. (open \subseteq 0 .. (numConnections - 1))'
  BY DEF IInv, TypeOK
<1>3. TypeOK'
  BY <1>1, <1>2 DEF IInv, TypeOK
<1>4. OverrunNeedsGrowth'
  BY DEF OverrunNeedsGrowth
<1>5. QED
  BY <1>3, <1>4 DEF IInv

\* A dropped message changes nothing else.
LEMMA DropKeeps ==
  ASSUME IInv, NEW type, Handling(type), DropMessage
  PROVE  IInv'
<1>1. Homes' /\ SoundRooms' /\ LivelyRooms' /\ Quiet(waitingRoom)'
  BY RoomsUnchanged DEF Handling, DropMessage
<1>2. QED
  BY <1>1, HandlerKeeps DEF Handling, DropMessage, FrontIs, IInv, TypeOK

\* The client that moves was in the waiting room only, so the room it gets
\* into has nobody twice; its id came out of a header.
LEMMA JoinKeeps ==
  ASSUME IInv, FrontIs("JoinRoom"), RoomExists(Head(incoming).room),
         IsFrontOfWaitingRoom(Head(incoming).client_id),
         JoinFrontClient(Head(incoming)), incoming' = Tail(incoming),
         UNCHANGED <<numConnections, open, received>>, serverState' = "running"
  PROVE  IInv'
<1> DEFINE m == Head(incoming)
           id == m.client_id
           i == m.room + 1
           joined == AddClient(rooms[i], id)
           left == MoveOut(waitingRoom, id)
<1>1. /\ m \in PlayerMessage /\ m.type = "JoinRoom"
      /\ id \in 0 .. (IdRange - 1) /\ m.room \in Nat
  BY TakingFront, PlayerMessageFields, WidthsAssumption DEF IInv
<1>2. /\ i \in DOMAIN rooms /\ GameRoom(m.room) = rooms[i]
      /\ rooms[i] \in RoomType /\ Sound(rooms[i])
  BY <1>1, GameRoomFacts
<1>3. waitingRoom \in RoomType /\ Sound(waitingRoom) /\ Quiet(waitingRoom)
  BY DEF IInv, TypeOK, SoundRooms
<1>4. id \in Members(waitingRoom) /\ id \in ConnIds
  BY <1>3, MembersOfClients DEF IsFrontOfWaitingRoom, RoomType
<1>5. id \notin Members(rooms[i])
  BY <1>2, <1>4 DEF IInv, Homes
<1>6. /\ joined \in RoomType /\ Sound(joined)
      /\ Members(joined) = Members(rooms[i]) \cup {id}
      /\ Lively(rooms[i]) => Lively(joined)
  BY <1>2, <1>4, <1>5, AddClientFacts, AddClientKeeps DEF RoomType
<1>7. /\ left \in RoomType /\ Sound(left) /\ Quiet(left)
      /\ Members(left) = Members(waitingRoom) \ {id}
  <2>1. /\ left \in RoomType /\ Sound(left)
        /\ Members(left) = Members(waitingRoom) \ {id}
        /\ left.second = waitingRoom.second \ {id}
        /\ left.currentDrawer = IF waitingRoom.currentDrawer = id THEN 0
                                ELSE waitingRoom.currentDrawer
    BY <1>3, <1>4, MoveOutFacts DEF RoomType
  <2>2. Quiet(left)
    BY <1>3, <2>1 DEF Quiet
  <2>3. QED
    BY <2>1, <2>2
<1>8. /\ waitingRoom' = left
      /\ rooms' = [rooms EXCEPT ![i] = joined]
      /\ outgoing' = [outgoing EXCEPT ![id] =
                        @ \o <<SetDrawer(joined, id), Canvas(joined)>>]
      /\ roomCapacity' = roomCapacity
  BY <1>2 DEF JoinFrontClient
<1> HIDE DEF m, id, i, joined, left
<1>9. outgoing' \in [ConnIds -> Seq(ServerMessage)]
  <2>1. <<SetDrawer(joined, id), Canvas(joined)>> \in Seq(ServerMessage)
    BY <1>6, RoomMessages
  <2>2. outgoing[id] \o <<SetDrawer(joined, id), Canvas(joined)>> \in Seq(ServerMessage)
    BY <1>4, <2>1, ConcatProperties DEF IInv, TypeOK
  <2>3. QED
    BY <1>8, <2>2 DEF IInv, TypeOK
<1>10. /\ rooms' \in Seq(RoomType) /\ Len(rooms') = Len(rooms)
       /\ DOMAIN rooms' = DOMAIN rooms
       /\ \A j \in DOMAIN rooms :
            /\ rooms'[j] = IF j = i THEN joined ELSE rooms[j]
            /\ Sound(rooms'[j])
       /\ LivelyRooms'
  BY <1>2, <1>6, <1>8, ReplaceRoom
<1>11. \A j \in DOMAIN rooms :
         Members(rooms'[j]) = IF j = i THEN Members(rooms[j]) \cup {id}
                              ELSE Members(rooms[j])
  BY <1>6, <1>10
<1>12. Homes'
  <2>1. \A j \in DOMAIN rooms : id \notin Members(rooms[j])
    BY <1>4 DEF IInv, Homes
  <2>2. id \in open
    BY <1>4 DEF IInv, Homes
  <2>3. open' = open
    OBVIOUS
  <2>4. Homes
    BY DEF IInv
  <2>5. Members(waitingRoom') = Members(waitingRoom) \ {id}
    BY <1>7, <1>8
  <2>6. Members(waitingRoom') \subseteq open
    BY <2>4, <2>5 DEF Homes
  <2>7. \A j \in DOMAIN rooms : Members(rooms'[j]) \subseteq open
    BY <1>11, <2>2, <2>4 DEF Homes
  <2>8. ASSUME NEW c \in open
        PROVE  c \in Members(waitingRoom') \/ \E j \in DOMAIN rooms : c \in Members(rooms'[j])
    <3>1. CASE c = id
      BY <1>2, <1>11, <3>1
    <3>2. CASE c # id
      <4>1. c \in Members(waitingRoom) => c \in Members(waitingRoom')
        BY <2>5, <3>2
      <4>2. \A j \in DOMAIN rooms : c \in Members(rooms[j]) => c \in Members(rooms'[j])
        BY <1>11
      <4>3. QED
        BY <2>4, <4>1, <4>2 DEF Homes
    <3>3. QED
      BY <3>1, <3>2
  <2>9. \A j \in DOMAIN rooms : Members(rooms'[j]) \cap Members(waitingRoom') = {}
    BY <1>11, <2>4, <2>5 DEF Homes
  <2>10. ASSUME NEW j \in DOMAIN rooms, NEW k \in DOMAIN rooms, j # k
         PROVE  Members(rooms'[j]) \cap Members(rooms'[k]) = {}
    <3>1. Members(rooms[j]) \cap Members(rooms[k]) = {}
      BY <2>4, <2>10 DEF Homes
    <3>2. QED
      BY <1>11, <2>1, <2>10, <3>1
  <2>11. QED
    BY <1>10, <2>3, <2>6, <2>7, <2>8, <2>9, <2>10 DEF Homes
<1>13. SoundRooms' /\ Quiet(waitingRoom)'
  BY <1>1, <1>7, <1>8, <1>10, <1>11 DEF IInv, SoundRooms
<1>14. roomCapacity' \in Nat /\ Len(rooms') <= roomCapacity'
  BY <1>8, <1>10 DEF IInv, TypeOK
<1>15. QED
  BY <1>7, <1>8, <1>9, <1>10, <1>12, <1>13, <1>14, HandlerKeeps DEF FrontIs

\* Joining moves the front client of the waiting room, or drops the message.
LEMMA HandleJoinRoomKeeps == IInv /\ HandleJoinRoom => IInv'
<1> SUFFICES ASSUME IInv, HandleJoinRoom PROVE IInv'
  OBVIOUS
<1>1. Handling("JoinRoom")
  BY DEF HandleJoinRoom
<1>2. CASE DropMessage
  BY <1>1, <1>2, DropKeeps
<1>3. CASE /\ RoomExists(Head(incoming).room)
           /\ IsFrontOfWaitingRoom(Head(incoming).client_id)
           /\ JoinFrontClient(Head(incoming))
           /\ UNCHANGED serverState
  BY <1>1, <1>3, JoinKeeps DEF Handling
<1>4. QED
  BY <1>2, <1>3 DEF HandleJoinRoom

\* Starting to spin changes nothing, and says which message is in front.
LEMMA JoinRoomSpinsKeeps == IInv /\ JoinRoomSpins => IInv'
<1> SUFFICES ASSUME IInv, JoinRoomSpins PROVE IInv'
  OBVIOUS
<1>1. /\ serverState' = "spinning"
      /\ FrontIs("JoinRoom") /\ RoomExists(Head(incoming).room)
      /\ UNCHANGED <<numConnections, open, waitingRoom, rooms, roomCapacity,
                     incoming, outgoing, received>>
  BY DEF JoinRoomSpins
<1>2. TypeOK'
  BY <1>1 DEF IInv, TypeOK, FrontIs, RoomExists
<1>3. OverrunNeedsGrowth'
  BY <1>1 DEF OverrunNeedsGrowth
<1>4. QED
  BY <1>1, <1>2, <1>3, RoomsUnchanged DEF IInv

\* The end of the spin is a join, or a message dropped.
LEMMA SpinEndsKeeps == IInv /\ SpinEnds => IInv'
<1> SUFFICES ASSUME IInv, SpinEnds PROVE IInv'
  OBVIOUS
<1>1. /\ FrontIs("JoinRoom") /\ RoomExists(Head(incoming).room)
      /\ serverState' = "running" /\ incoming' = Tail(incoming)
      /\ UNCHANGED <<numConnections, open, received>>
  BY DEF IInv, TypeOK, SpinEnds
<1>2. CASE /\ IsFrontOfWaitingRoom(Head(incoming).client_id)
           /\ JoinFrontClient(Head(incoming))
  BY <1>1, <1>2, JoinKeeps
<1>3. CASE UNCHANGED <<waitingRoom, rooms, roomCapacity, outgoing>>
  <2>1. Homes' /\ SoundRooms' /\ LivelyRooms' /\ Quiet(waitingRoom)'
    BY <1>1, <1>3, RoomsUnchanged
  <2>2. QED
    BY <1>1, <1>3, <2>1, HandlerKeeps DEF FrontIs, IInv, TypeOK
<1>4. QED
  BY <1>2, <1>3 DEF SpinEnds

\* A new room is empty, hence lively; when m_rooms is full, it is the only
\* room in the upper half of the new capacity.
LEMMA GrowFacts ==
  ASSUME IInv, Grow, UNCHANGED <<open, waitingRoom>>
  PROVE  /\ rooms' \in Seq(RoomType) /\ roomCapacity' \in Nat
         /\ Len(rooms') <= roomCapacity' /\ roomCapacity' >= roomCapacity
         /\ Homes' /\ SoundRooms' /\ LivelyRooms'
<1> DEFINE n == Len(rooms)
<1>1. /\ rooms \in Seq(RoomType) /\ n \in Nat /\ DOMAIN rooms = 1 .. n
      /\ roomCapacity \in Nat /\ n <= roomCapacity
  BY DEF IInv, TypeOK
<1>2. PICK w \in Words, kept \in Seq(RoomType) :
        /\ Len(kept) = n
        /\ \A i \in 1 .. n : Members(kept[i]) = Members(rooms[i]) /\ Sound(kept[i])
        /\ rooms' = Append(kept, EmptyRoom(w))
        /\ \/ /\ n = roomCapacity
              /\ roomCapacity' = IF n = 0 THEN 1 ELSE 2 * n
           \/ n < roomCapacity /\ roomCapacity' = roomCapacity /\ kept = rooms
  <2>1. CASE n = roomCapacity
    <3> DEFINE moved == [i \in DOMAIN rooms |-> Relocated(rooms[i])]
    <3>1. ASSUME NEW i \in 1 .. n
          PROVE  /\ Relocated(rooms[i]) \in RoomType /\ Sound(Relocated(rooms[i]))
                 /\ Members(Relocated(rooms[i])) = Members(rooms[i])
      <4>1. rooms[i] \in RoomType /\ Sound(rooms[i])
        BY <1>1 DEF IInv, SoundRooms
      <4>2. QED
        BY <4>1, RelocatedFacts DEF RoomType
    <3>2. moved \in [1 .. n -> RoomType]
      BY <1>1, <3>1
    <3>3. moved \in Seq(RoomType) /\ Len(moved) = n
      BY <1>1, <3>2, SeqDef
    <3>4. \A i \in 1 .. n : moved[i] = Relocated(rooms[i])
      BY <1>1
    <3>5. PICK w \in Words : rooms' = Append(moved, EmptyRoom(w))
      BY <2>1 DEF Grow
    <3>6. roomCapacity' = IF n = 0 THEN 1 ELSE 2 * n
      BY <2>1 DEF Grow
    <3> HIDE DEF moved
    <3>7. \A i \in 1 .. n : Members(moved[i]) = Members(rooms[i]) /\ Sound(moved[i])
      BY <3>1, <3>4
    <3>8. QED
      BY <2>1, <3>3, <3>5, <3>6, <3>7
  <2>2. CASE n # roomCapacity
    <3>1. PICK w \in Words : rooms' = Append(rooms, EmptyRoom(w))
      BY <2>2 DEF Grow
    <3>2. roomCapacity' = roomCapacity /\ n < roomCapacity
      <4>1. roomCapacity' = roomCapacity
        BY <2>2 DEF Grow
      <4> HIDE DEF n
      <4>2. n < roomCapacity
        BY <1>1, <2>2
      <4>3. QED
        BY <4>1, <4>2
    <3>3. QED
      BY <1>1, <3>1, <3>2 DEF IInv, SoundRooms
  <2>3. QED
    BY <2>1, <2>2
<1>3. /\ EmptyRoom(w) \in RoomType /\ Sound(EmptyRoom(w))
      /\ Members(EmptyRoom(w)) = {}
  BY EmptyRoomFacts DEF RoomType
<1> HIDE DEF n
<1>4. /\ rooms' \in Seq(RoomType) /\ Len(rooms') = n + 1 /\ DOMAIN rooms' = 1 .. (n + 1)
      /\ \A i \in 1 .. n : rooms'[i] = kept[i]
      /\ rooms'[n + 1] = EmptyRoom(w)
  BY <1>1, <1>2, <1>3, AppendProperties
<1>5. \A i \in 1 .. (n + 1) :
        /\ Sound(rooms'[i])
        /\ Members(rooms'[i]) = IF i = n + 1 THEN {} ELSE Members(rooms[i])
  <2>1. SUFFICES ASSUME NEW i \in 1 .. (n + 1)
                 PROVE  /\ Sound(rooms'[i])
                        /\ Members(rooms'[i]) = IF i = n + 1 THEN {} ELSE Members(rooms[i])
    OBVIOUS
  <2>2. CASE i = n + 1
    BY <1>3, <1>4, <2>2
  <2>3. CASE i # n + 1
    <3>1. i \in 1 .. n
      BY <1>1, <2>3
    <3>2. rooms'[i] = kept[i] /\ Members(kept[i]) = Members(rooms[i]) /\ Sound(kept[i])
      BY <1>2, <1>4, <3>1
    <3>3. QED
      BY <2>3, <3>2
  <2>4. QED
    BY <2>2, <2>3
<1>6. Lively(rooms'[n + 1])
  <2>1. EmptyRoom(w).clients = <<>>
    BY DEF EmptyRoom
  <2>2. Lively(EmptyRoom(w))
    BY <1>3, <2>1 DEF Lively, SearchOverruns, Guessers
  <2>3. QED
    BY <1>4, <2>2
<1>7. LivelyRooms'
  <2>1. SUFFICES ASSUME NEW i \in 1 .. (n + 1), i > roomCapacity' \div 2
                 PROVE  Lively(rooms'[i])
    BY <1>4 DEF LivelyRooms, NeverMoved
  <2>2. CASE n = roomCapacity
    <3>1. ~(i \in 1 .. n)
      BY <1>1, <1>2, <2>1, <2>2
    <3>2. QED
      BY <1>1, <1>6, <3>1
  <2>3. CASE n # roomCapacity
    <3>1. roomCapacity' = roomCapacity /\ kept = rooms
      BY <1>2, <2>3
    <3>2. i \in 1 .. n => Lively(rooms[i])
      BY <1>1, <2>1, <3>1 DEF IInv, LivelyRooms, NeverMoved
    <3>3. QED
      BY <1>1, <1>4, <1>6, <3>1, <3>2
  <2>4. QED
    BY <2>2, <2>3
<1>8. Homes'
  <2>1. Homes
    BY DEF IInv
  <2>2. open' = open /\ Members(waitingRoom') = Members(waitingRoom)
    OBVIOUS
  <2>3. \A c : (\E i \in 1 .. (n + 1) : c \in Members(rooms'[i]))
                 <=> \E i \in 1 .. n : c \in Members(rooms[i])
    BY <1>1, <1>5
  <2>4. \A i, j \in 1 .. (n + 1) :
          i # j => Members(rooms'[i]) \cap Members(rooms'[j]) = {}
    BY <1>1, <1>5, <2>1 DEF Homes
  <2>5. QED
    BY <1>1, <1>4, <1>5, <2>1, <2>2, <2>3, <2>4 DEF Homes
<1>9. SoundRooms'
  BY <1>1, <1>4, <1>5 DEF IInv, SoundRooms
<1>10. /\ roomCapacity' \in Nat /\ Len(rooms') <= roomCapacity'
       /\ roomCapacity' >= roomCapacity
  BY <1>1, <1>2, <1>4
<1>11. QED
  BY <1>4, <1>7, <1>8, <1>9, <1>10

\* Creating a room grows m_rooms and answers the client, if it waits.
LEMMA HandleCreateRoomKeeps == IInv /\ HandleCreateRoom => IInv'
<1> SUFFICES ASSUME IInv, HandleCreateRoom PROVE IInv'
  OBVIOUS
<1> DEFINE id == Head(incoming).client_id
           reply == SetRoomId(Len(rooms) % RoomRange)
<1>1. /\ Handling("CreateRoom") /\ Grow /\ UNCHANGED <<waitingRoom, serverState>>
      /\ outgoing' = IF id \in Members(waitingRoom)
                     THEN [outgoing EXCEPT ![id] = Append(@, reply)]
                     ELSE outgoing
  BY DEF HandleCreateRoom
<1>2. /\ incoming # <<>> /\ incoming' = Tail(incoming) /\ serverState = "running"
      /\ UNCHANGED <<numConnections, open, received>>
  BY <1>1 DEF Handling, FrontIs
<1>3. /\ rooms' \in Seq(RoomType) /\ roomCapacity' \in Nat
      /\ Len(rooms') <= roomCapacity'
      /\ Homes' /\ SoundRooms' /\ LivelyRooms'
  BY <1>1, <1>2, GrowFacts
<1>4. reply \in ServerMessage
  <2>1. Len(rooms) % RoomRange \in 0 .. (RoomRange - 1)
    BY WidthsAssumption DEF IInv, TypeOK
  <2>2. QED
    BY <2>1 DEF SetRoomId, ServerMessage
<1> HIDE DEF reply, id
<1>5. outgoing' \in [ConnIds -> Seq(ServerMessage)]
  <2>1. CASE id \in Members(waitingRoom)
    <3>1. id \in ConnIds
      BY <2>1, MembersOfClients DEF IInv, TypeOK, RoomType
    <3>2. Append(outgoing[id], reply) \in Seq(ServerMessage)
      BY <1>4, <3>1, AppendProperties DEF IInv, TypeOK
    <3>3. QED
      BY <1>1, <2>1, <3>2 DEF IInv, TypeOK
  <2>2. CASE id \notin Members(waitingRoom)
    BY <1>1, <2>2 DEF IInv, TypeOK
  <2>3. QED
    BY <2>1, <2>2
<1>6. waitingRoom' \in RoomType /\ Quiet(waitingRoom)'
  BY <1>1 DEF IInv, TypeOK
<1>7. QED
  BY <1>1, <1>2, <1>3, <1>5, <1>6, HandlerKeeps

\* What the handlers of a room's own messages have in common: the room has
\* the members it had, and they are sent something.
LEMMA RoomHandlerKeeps ==
  ASSUME IInv, NEW type, Handling(type), NEW r \in Nat, RoomExists(r),
         NEW room \in RoomType, Sound(room), Members(room) = Members(GameRoom(r)),
         Lively(GameRoom(r)) => Lively(room),
         NEW E, NEW posts \in [E -> Seq(ServerMessage)],
         rooms' = [rooms EXCEPT ![r + 1] = room],
         outgoing' = Post(outgoing, posts),
         UNCHANGED <<waitingRoom, roomCapacity, serverState>>
  PROVE  IInv'
<1>1. r + 1 \in DOMAIN rooms /\ GameRoom(r) = rooms[r + 1]
  BY GameRoomFacts
<1>2. /\ incoming # <<>> /\ incoming' = Tail(incoming) /\ serverState = "running"
      /\ UNCHANGED <<numConnections, open, received>>
  BY DEF Handling, FrontIs
<1>3. /\ rooms' \in Seq(RoomType) /\ Len(rooms') = Len(rooms)
      /\ Homes' /\ SoundRooms' /\ LivelyRooms' /\ Quiet(waitingRoom)'
  BY <1>1, <1>2, RoomStep
<1>4. outgoing' \in [ConnIds -> Seq(ServerMessage)]
  BY PostType DEF IInv, TypeOK
<1>5. /\ waitingRoom' \in RoomType /\ roomCapacity' \in Nat
      /\ Len(rooms') <= roomCapacity'
  BY <1>3 DEF IInv, TypeOK
<1>6. QED
  BY <1>2, <1>3, <1>4, <1>5, HandlerKeeps

\* The stroke is kept and sent on.
LEMMA HandleDrawCommandKeeps == IInv /\ HandleDrawCommand => IInv'
<1> SUFFICES ASSUME IInv, HandleDrawCommand PROVE IInv'
  OBVIOUS
<1> DEFINE m == Head(incoming)
           old == GameRoom(m.room)
           room == AddDrawCommand(old, m.command)
           others == Members(old) \ {m.client_id}
           posts == BroadcastExcept(old, Drawing(m.command), m.client_id)
<1>1. Handling("DrawCommand") /\ FrontIs("DrawCommand")
  BY DEF HandleDrawCommand, Handling
<1>2. m.room \in Nat /\ m.command \in Commands
  BY <1>1, TakingFront, PlayerMessageFields, WidthsAssumption DEF IInv
<1>3. CASE DropMessage
  BY <1>1, <1>3, DropKeeps
<1>4. CASE /\ RoomExists(m.room)
           /\ rooms' = [rooms EXCEPT ![m.room + 1] = AddDrawCommand(@, m.command)]
           /\ outgoing' = Post(outgoing, posts)
           /\ UNCHANGED <<waitingRoom, roomCapacity, serverState>>
  <2>1. old \in RoomType /\ Sound(old) /\ old = rooms[m.room + 1]
    BY <1>2, <1>4, GameRoomFacts
  <2>2. /\ room \in RoomType /\ room.clients = old.clients
        /\ room.second = old.second /\ room.currentDrawer = old.currentDrawer
    BY <1>2, <2>1, AddDrawCommandFacts DEF RoomType
  <2>3. Drawing(m.command) \in ServerMessage
    BY <1>2 DEF Drawing, ServerMessage
  <2>4. <<Drawing(m.command)>> \in Seq(ServerMessage)
    BY <2>3
  <2>5. posts \in [others -> Seq(ServerMessage)]
    BY <2>4 DEF BroadcastExcept
  <2>6. rooms' = [rooms EXCEPT ![m.room + 1] = room]
    BY <1>4, <2>1
  <2> HIDE DEF m, old, room, others, posts
  <2>7. Members(room) = Members(old) /\ Sound(room) /\ (Lively(old) => Lively(room))
    BY <2>1, <2>2 DEF Members, Sound, Lively, SearchOverruns, Guessers, AllCorrect
  <2>8. QED
    BY <1>1, <1>2, <1>4, <2>2, <2>5, <2>6, <2>7, RoomHandlerKeeps DEF old
<1>5. QED
  BY <1>3, <1>4 DEF HandleDrawCommand

\* The canvas is emptied and sent to everybody.
LEMMA HandleCanvasPacketKeeps == IInv /\ HandleCanvasPacket => IInv'
<1> SUFFICES ASSUME IInv, HandleCanvasPacket PROVE IInv'
  OBVIOUS
<1> DEFINE m == Head(incoming)
           old == GameRoom(m.room)
           room == ClearCanvas(old)
           posts == Broadcast(old, Canvas(room))
<1>1. Handling("CanvasPacket") /\ FrontIs("CanvasPacket")
  BY DEF HandleCanvasPacket, Handling
<1>2. m.room \in Nat
  BY <1>1, TakingFront, PlayerMessageFields, WidthsAssumption DEF IInv
<1>3. CASE DropMessage
  BY <1>1, <1>3, DropKeeps
<1>4. CASE /\ RoomExists(m.room)
           /\ rooms' = [rooms EXCEPT ![m.room + 1] = ClearCanvas(@)]
           /\ outgoing' = Post(outgoing, posts)
           /\ UNCHANGED <<waitingRoom, roomCapacity, serverState>>
  <2>1. old \in RoomType /\ Sound(old) /\ old = rooms[m.room + 1]
    BY <1>2, <1>4, GameRoomFacts
  <2>3. /\ room \in RoomType /\ room.clients = old.clients
        /\ room.second = old.second /\ room.currentDrawer = old.currentDrawer
    BY <2>1, ClearCanvasFacts DEF RoomType
  <2>4. Canvas(room) \in ServerMessage
    BY <2>3, RoomMessages
  <2>5. <<Canvas(room)>> \in Seq(ServerMessage)
    BY <2>4
  <2>6. posts \in [Members(old) -> Seq(ServerMessage)]
    BY <2>5 DEF Broadcast
  <2>7. rooms' = [rooms EXCEPT ![m.room + 1] = room]
    BY <1>4, <2>1
  <2> HIDE DEF m, old, room, posts
  <2>8. Members(room) = Members(old) /\ Sound(room) /\ (Lively(old) => Lively(room))
    BY <2>1, <2>3 DEF Members, Sound, Lively, SearchOverruns, Guessers, AllCorrect
  <2>9. QED
    BY <1>1, <1>2, <1>4, <2>3, <2>6, <2>7, <2>8, RoomHandlerKeeps DEF old
<1>5. QED
  BY <1>3, <1>4 DEF HandleCanvasPacket

\* A guess is judged; the round ends with a drawer, or the process does, and
\* only after growth.
LEMMA HandleGuessPacketKeeps == IInv /\ HandleGuessPacket => IInv'
<1> SUFFICES ASSUME IInv, HandleGuessPacket PROVE IInv'
  OBVIOUS
<1> DEFINE m == Head(incoming)
           id == m.client_id
           old == GameRoom(m.room)
<1>1. Handling("GuessPacket") /\ FrontIs("GuessPacket")
  BY DEF HandleGuessPacket, Handling
<1>2. m.room \in Nat /\ m.guess \in Guesses /\ id \in 0 .. (IdRange - 1)
  BY <1>1, TakingFront, PlayerMessageFields, WidthsAssumption DEF IInv
<1>3. CASE DropMessage
  BY <1>1, <1>3, DropKeeps
<1>4. ASSUME MayGuess(id, m.room)
      PROVE  /\ RoomExists(m.room) /\ id \in Members(old)
             /\ m.room + 1 \in DOMAIN rooms
             /\ old \in RoomType /\ Sound(old) /\ old = rooms[m.room + 1]
  BY <1>2, <1>4, GameRoomFacts DEF MayGuess
<1>5. ASSUME MayGuess(id, m.room), ~GuessOverruns(old, m.guess, id), NEW w \in Words,
             rooms' = [rooms EXCEPT ![m.room + 1] = CheckWord(@, m.guess, id, w)],
             outgoing' = Post(outgoing, CheckWordPosts(old, m.guess, id, w)),
             UNCHANGED <<waitingRoom, roomCapacity, serverState>>
      PROVE  IInv'
  <2> DEFINE room == CheckWord(old, m.guess, id, w)
             posts == CheckWordPosts(old, m.guess, id, w)
  <2>1. /\ room \in RoomType /\ Sound(room) /\ Members(room) = Members(old)
        /\ Lively(old) => Lively(room)
    BY <1>4, <1>5, CheckWordFacts DEF RoomType
  <2>2. posts \in [Members(old) -> Seq(ServerMessage)]
    BY <1>2, <1>4, <1>5, GuessPosts
  <2>3. rooms' = [rooms EXCEPT ![m.room + 1] = room]
    BY <1>4, <1>5
  <2>4. outgoing' = Post(outgoing, posts)
    BY <1>5
  <2> HIDE DEF room, posts, m, id, old
  <2>5. QED
    BY <1>1, <1>2, <1>4, <1>5, <2>1, <2>2, <2>3, <2>4, RoomHandlerKeeps DEF old
<1>6. ASSUME MayGuess(id, m.room), GuessOverruns(old, m.guess, id),
             serverState' = "overrun",
             UNCHANGED <<waitingRoom, rooms, roomCapacity, outgoing>>
      PROVE  IInv'
  <2>1. ~Lively(rooms[m.room + 1])
    BY <1>4, <1>6 DEF GuessOverruns, Lively
  <2>2. roomCapacity >= 2
    BY <1>4, <1>6, <2>1, OnlyMovedOverruns
  <2>3. /\ incoming # <<>> /\ incoming' = Tail(incoming)
        /\ UNCHANGED <<numConnections, open, received>>
    BY <1>1 DEF Handling, FrontIs
  <2>4. Homes' /\ SoundRooms' /\ LivelyRooms' /\ Quiet(waitingRoom)'
    BY <1>6, <2>3, RoomsUnchanged
  <2>5. QED
    BY <1>6, <2>2, <2>3, <2>4, HandlerKeeps DEF IInv, TypeOK
<1>7. QED
  BY <1>3, <1>5, <1>6 DEF HandleGuessPacket

(***************************************************************************)
(* The theorems                                                            *)
(***************************************************************************)

\* Every step of the server keeps the invariant.
LEMMA NextKeepsIInv == IInv /\ [Next]_vars => IInv'
<1> SUFFICES ASSUME IInv, [Next]_vars PROVE IInv'
  OBVIOUS
<1>1. CASE HandleMessages
  BY <1>1, HandleJoinRoomKeeps, JoinRoomSpinsKeeps, HandleCreateRoomKeeps,
     HandleDrawCommandKeeps, HandleGuessPacketKeeps, HandleCanvasPacketKeeps
  DEF HandleMessages
<1>2. CASE SpinEnds
  BY <1>2, SpinEndsKeeps
<1>3. CASE Network
  <2>1. CASE AcceptConnection
    BY <2>1, AcceptConnectionKeeps
  <2>2. CASE AcceptAlreadyReset
    BY <2>2, AcceptAlreadyResetKeeps
  <2>3. ASSUME NEW c \in ConnIds, NEW m \in PlayerMessages(c), Arrive(c, m)
        PROVE  IInv'
    BY <2>3, ArriveKeeps
  <2>4. ASSUME NEW c \in ConnIds, Sent(c)
        PROVE  IInv'
    BY <2>4, SentKeeps
  <2>5. ASSUME NEW c \in ConnIds, Disconnect(c)
        PROVE  IInv'
    BY <2>5, DisconnectKeeps
  <2>6. ASSUME NEW c \in ConnIds, DisconnectOverruns(c)
        PROVE  IInv'
    BY <2>6, DisconnectOverrunsKeeps
  <2>7. QED
    BY <1>3, <2>1, <2>2, <2>3, <2>4, <2>5, <2>6 DEF Network
<1>4. CASE UNCHANGED vars
  <2>1. UNCHANGED <<numConnections, open, waitingRoom, rooms, roomCapacity,
                    incoming, outgoing, received, serverState>>
    BY <1>4 DEF vars
  <2>2. TypeOK'
    BY <2>1 DEF IInv, TypeOK, FrontIs, RoomExists
  <2>3. OverrunNeedsGrowth'
    BY <2>1 DEF IInv, OverrunNeedsGrowth
  <2>4. QED
    BY <2>1, <2>2, <2>3, RoomsUnchanged DEF IInv
<1>5. QED
  BY <1>1, <1>2, <1>3, <1>4 DEF Next

\* The invariant holds in every state the server reaches.
THEOREM Invariance == Spec => []IInv
BY InitIInv, NextKeepsIInv, PTL DEF Spec

\* The invariant says where every connection is.
LEMMA HomesAreUnique == IInv => OneHome
<1> SUFFICES ASSUME IInv PROVE OneHome
  OBVIOUS
<1>1. Homes /\ SoundRooms
  BY DEF IInv
<1>2. ASSUME NEW c \in open
      PROVE  \/ /\ c \in Members(waitingRoom)
                /\ \A i \in DOMAIN rooms : c \notin Members(rooms[i])
             \/ /\ c \notin Members(waitingRoom)
                /\ \E i \in DOMAIN rooms :
                     \A j \in DOMAIN rooms : c \in Members(rooms[j]) <=> i = j
  <2>1. CASE c \in Members(waitingRoom)
    BY <1>1, <2>1 DEF Homes
  <2>2. CASE c \notin Members(waitingRoom)
    <3>1. PICK i \in DOMAIN rooms : c \in Members(rooms[i])
      BY <1>1, <2>2 DEF Homes
    <3>2. \A j \in DOMAIN rooms : c \in Members(rooms[j]) <=> i = j
      BY <1>1, <3>1 DEF Homes
    <3>3. QED
      BY <2>2, <3>2
  <2>3. QED
    BY <2>1, <2>2
<1>3. ASSUME NEW room \in AllRooms
      PROVE  Members(room) \subseteq open /\ IsInjective(room.clients)
  BY <1>1, <1>3 DEF AllRooms, Range, Homes, SoundRooms, Sound
<1>4. QED
  BY <1>2, <1>3 DEF OneHome

\* Every variable of the server keeps its type.
THEOREM TypeCorrect == Spec => []TypeOK
<1>1. IInv => TypeOK
  BY DEF IInv
<1>2. QED
  BY <1>1, Invariance, PTL

\* Every open connection is in exactly one room, once, and a room holds
\* nobody else.
THEOREM EveryConnectionHasOneHome == Spec => []OneHome
BY HomesAreUnique, Invariance, PTL

\* In a game room that growth has not moved, the drawer is one of the
\* clients, so NewRound finds it.
THEOREM DrawersAreFound == Spec => []DrawerIsMember
<1>1. IInv => DrawerIsMember
  BY DEF IInv, LivelyRooms, Lively, DrawerIsMember, NeverMoved
<1>2. QED
  BY <1>1, Invariance, PTL

\* No round is left over in such a room once all who guess are right.
THEOREM RoundsEnd == Spec => []RoundEndsWhenAllGuessed
<1>1. IInv => RoundEndsWhenAllGuessed
  BY DEF IInv, LivelyRooms, Lively, RoundEndsWhenAllGuessed, NeverMoved
<1>2. QED
  BY <1>1, Invariance, PTL

\* Whoever leaves the waiting room, RemoveClient stays inside its vector.
THEOREM WaitingRoomIsSafe == Spec => []WaitingRoomNeverOverruns
<1>1. IInv => WaitingRoomNeverOverruns
  <2>1. SUFFICES ASSUME IInv, NEW c \in Members(waitingRoom)
                 PROVE  ~LeavingOverruns(waitingRoom, c)
    BY DEF WaitingRoomNeverOverruns
  <2>2. waitingRoom \in RoomType /\ Sound(waitingRoom) /\ Quiet(waitingRoom)
    BY <2>1 DEF IInv, TypeOK, SoundRooms
  <2>3. PICK w : w \in Words
    BY WordsAssumption
  <2>4. QED
    BY <2>2, <2>3, RemoveClientFacts DEF RoomType
<1>2. QED
  BY <1>1, Invariance, PTL

\* The server runs off a vector only after m_rooms has grown.
THEOREM OverrunsNeedGrowth == Spec => []OverrunNeedsGrowth
<1>1. IInv => OverrunNeedsGrowth
  BY DEF IInv
<1>2. QED
  BY <1>1, Invariance, PTL

(***************************************************************************)
(* The abstract specifications that the server implements.                 *)
(*                                                                         *)
(* Channels, in its outgoing queues: it sends only to open connections,    *)
(* delivers in order, and loses what is queued only when it closes a       *)
(* connection.  That it sends to nobody who has left follows from the      *)
(* invariant's Homes, since a room posts to its members and members are    *)
(* open.                                                                   *)
(*                                                                         *)
(* The module Homes, in its rooms: as every open connection is in exactly  *)
(* one room, the clients in game rooms are those that are open and do not  *)
(* wait, so how a handler changes the game rooms need not be looked at.    *)
(***************************************************************************)

\* A connection that is not open has nothing queued.
Silent == \A c \in ConnIds \ open : outgoing[c] = <<>>

(***************************************************************************)
(* What a step may do to a queue                                           *)
(***************************************************************************)

\* One connection idles or is sent something when its queue gets what the
\* posts to open connections add to it.
LEMMA PostedToOpen ==
  ASSUME IInv, NEW E, E \subseteq open, NEW posts \in [E -> Seq(ServerMessage)],
         NEW c \in ConnIds, outgoing'[c] = Post(outgoing, posts)[c],
         c \in open' <=> c \in open, numConnections' = numConnections
  PROVE  Channel!Idle(c) \/ Channel!Send(c)
<1>1. outgoing \in [ConnIds -> Seq(ServerMessage)]
  BY DEF IInv, TypeOK
<1>2. outgoing'[c] = IF c \in E THEN outgoing[c] \o posts[c] ELSE outgoing[c]
  BY <1>1 DEF Post
<1>3. CASE outgoing'[c] = outgoing[c]
  BY <1>3 DEF Channel!Idle
<1>4. CASE c \in E /\ outgoing'[c] # outgoing[c]
  <2> DEFINE s == outgoing[c]
             t == posts[c]
  <2>1. s \in Seq(ServerMessage) /\ t \in Seq(ServerMessage)
    BY <1>1, <1>4
  <2>2. c \in 0 .. (numConnections - 1) /\ c \in open
    BY <1>4 DEF IInv, TypeOK
  <2>3. outgoing'[c] = s \o t
    BY <1>2, <1>4
  <2>4. t # <<>> /\ Len(t) \in 1 .. Len(s \o t)
    <3>1. t # <<>>
      BY <1>4, <2>1, <2>3, ConcatEmptySeq
    <3> HIDE DEF s, t
    <3>2. Len(s \o t) = Len(s) + Len(t) /\ Len(s) \in Nat /\ Len(t) \in Nat
      BY <2>1, ConcatProperties
    <3>3. Len(t) > 0
      BY <2>1, <3>1, EmptySeq, <3>2
    <3>4. QED
      BY <3>1, <3>2, <3>3
  <2>5. s = SubSeq(s \o t, 1, Len(s \o t) - Len(t))
    <3> HIDE DEF s, t
    <3>1. Len(s \o t) = Len(s) + Len(t) /\ Len(s) \in Nat /\ Len(t) \in Nat
      BY <2>1, ConcatProperties
    <3>2. Len(s \o t) - Len(t) = Len(s)
      BY <3>1
    <3>3. s = SubSeq(s \o t, 1, Len(s))
      BY <2>1, ConcatProperties, SubSeqProperties
    <3>4. QED
      BY <3>2, <3>3
  <2> HIDE DEF s, t
  <2>6. \E k \in 1 .. Len(outgoing'[c]) :
          s = SubSeq(outgoing'[c], 1, Len(outgoing'[c]) - k)
    BY <2>3, <2>4, <2>5
  <2>7. QED
    BY <2>2, <2>6 DEF Channel!Send, s
<1>5. QED
  BY <1>2, <1>3, <1>4

\* The ids stay among those that the bound allows.
LEMMA ChannelTypes ==
  ASSUME IInv'
  PROVE  DOMAIN outgoing' = ConnIds /\ (0 .. (numConnections - 1))' \subseteq ConnIds
<1>1. numConnections' \in 0 .. MaxConnections /\ DOMAIN outgoing' = ConnIds
  BY DEF IInv, TypeOK
<1>2. \A n \in 0 .. MaxConnections : 0 .. (n - 1) \subseteq 0 .. (MaxConnections - 1)
  BY BoundsAssumption
<1>3. QED
  BY <1>1, <1>2 DEF ConnIds

\* Posts to open connections are a step of the channels.
LEMMA PostIsChannelStep ==
  ASSUME IInv, IInv', NEW E, E \subseteq open,
         NEW posts \in [E -> Seq(ServerMessage)], outgoing' = Post(outgoing, posts),
         UNCHANGED <<numConnections, open>>
  PROVE  Channel!Next
<1>1. DOMAIN outgoing' = ConnIds /\ (0 .. (numConnections - 1))' \subseteq ConnIds
  BY ChannelTypes
<1>2. \A c \in ConnIds : Channel!Idle(c) \/ Channel!Send(c)
  BY PostedToOpen
<1>3. QED
  BY <1>1, <1>2 DEF Channel!Next

\* So are more messages for one open connection ...
LEMMA SendIsChannelStep ==
  ASSUME IInv, IInv', NEW id \in open, NEW t \in Seq(ServerMessage),
         outgoing' = [outgoing EXCEPT ![id] = @ \o t],
         UNCHANGED <<numConnections, open>>
  PROVE  Channel!Next
<1> DEFINE posts == [c \in {id} |-> t]
<1>1. posts \in [{id} -> Seq(ServerMessage)] /\ {id} \subseteq open
  OBVIOUS
<1>2. outgoing' = Post(outgoing, posts)
  BY DEF IInv, TypeOK, Post
<1> HIDE DEF posts
<1>3. QED
  BY <1>1, <1>2, PostIsChannelStep

\* ... and a step that sends, opens and closes nothing.
LEMMA QuietIsChannelStep ==
  ASSUME IInv, IInv', UNCHANGED <<numConnections, open, outgoing>>
  PROVE  Channel!Next
<1>1. DOMAIN outgoing' = ConnIds /\ (0 .. (numConnections - 1))' \subseteq ConnIds
  BY ChannelTypes
<1>2. \A c \in ConnIds : Channel!Idle(c)
  BY DEF Channel!Idle
<1>3. QED
  BY <1>1, <1>2 DEF Channel!Next

\* The members of a room are open connections.
LEMMA MembersAreOpen ==
  ASSUME IInv
  PROVE  /\ Members(waitingRoom) \subseteq open
         /\ \A i \in DOMAIN rooms : Members(rooms[i]) \subseteq open
BY DEF IInv, Homes

(***************************************************************************)
(* The io thread                                                           *)
(***************************************************************************)

LEMMA AcceptIsChannelStep ==
  ASSUME IInv, IInv', AcceptConnection
  PROVE  Channel!Next
<1> DEFINE id == numConnections
<1>1. /\ id \in ConnIds /\ id \in Nat /\ numConnections' = id + 1
      /\ open' = open \cup {id}
      /\ outgoing \in [ConnIds -> Seq(ServerMessage)]
      /\ \A c \in ConnIds \ {id} : outgoing'[c] = outgoing[c]
  BY BoundsAssumption DEF IInv, TypeOK, AcceptConnection, ConnIds
<1>2. DOMAIN outgoing' = ConnIds /\ (0 .. (numConnections - 1))' \subseteq ConnIds
  BY ChannelTypes
<1>3. Channel!Open(id)
  BY <1>1 DEF Channel!Open
<1>4. \A c \in ConnIds \ {id} : Channel!Idle(c)
  BY <1>1 DEF Channel!Idle, ConnIds
<1> HIDE DEF id
<1>5. QED
  BY <1>2, <1>3, <1>4 DEF Channel!Next

LEMMA SentIsChannelStep ==
  ASSUME IInv, IInv', Silent, NEW c \in ConnIds, Sent(c)
  PROVE  Channel!Next
<1>1. /\ outgoing[c] # <<>> /\ outgoing'[c] = Tail(outgoing[c])
      /\ \A d \in ConnIds \ {c} : outgoing'[d] = outgoing[d]
      /\ UNCHANGED <<numConnections, open>>
  BY DEF IInv, TypeOK, Sent
<1>2. c \in open /\ c \in 0 .. (numConnections - 1)
  BY <1>1 DEF Silent, IInv, TypeOK
<1>3. Channel!Deliver(c)
  BY <1>1, <1>2 DEF Channel!Deliver
<1>4. \A d \in ConnIds \ {c} : Channel!Idle(d)
  BY <1>1 DEF Channel!Idle
<1>5. DOMAIN outgoing' = ConnIds /\ (0 .. (numConnections - 1))' \subseteq ConnIds
  BY ChannelTypes
<1>6. QED
  BY <1>3, <1>4, <1>5 DEF Channel!Next

\* The connection closes with its queue, and the room it leaves posts to
\* the members that stay.
LEMMA DisconnectIsChannelStep ==
  ASSUME IInv, IInv', NEW c \in ConnIds, Disconnect(c)
  PROVE  Channel!Next
<1>1. c \in open /\ open' = open \ {c} /\ numConnections' = numConnections
  BY DEF Disconnect
<1>2. PICK room \in RoomType, w \in Words :
        /\ Sound(room) /\ Members(room) \subseteq open
        /\ c \in Members(room) /\ ~LeavingOverruns(room, c)
        /\ outgoing' = [Post(outgoing, RemoveClientPosts(room, c, w))
                          EXCEPT ![c] = <<>>]
  <2>1. waitingRoom \in RoomType /\ Sound(waitingRoom)
    BY DEF IInv, TypeOK, SoundRooms
  <2>2. \A i \in DOMAIN rooms : rooms[i] \in RoomType /\ Sound(rooms[i])
    BY DEF IInv, TypeOK, SoundRooms
  <2>3. QED
    BY <2>1, <2>2, MembersAreOpen DEF Disconnect
<1> DEFINE others == Members(room) \ {c}
           posts == RemoveClientPosts(room, c, w)
<1>3. posts \in [others -> Seq(ServerMessage)] /\ others \subseteq open
  BY <1>2, LeavingPosts
<1> HIDE DEF others, posts
<1>4. /\ DOMAIN Post(outgoing, posts) = ConnIds
      /\ outgoing' = [Post(outgoing, posts) EXCEPT ![c] = <<>>]
  BY <1>2 DEF IInv, TypeOK, Post, posts
<1>5. ASSUME NEW d \in ConnIds \ {c}
      PROVE  Channel!Idle(d) \/ Channel!Send(d)
  <2>1. outgoing'[d] = Post(outgoing, posts)[d]
    BY <1>4
  <2>2. d \in open' <=> d \in open
    BY <1>1
  <2>3. QED
    BY <1>1, <1>3, <2>1, <2>2, PostedToOpen
<1>6. Channel!Close(c)
  <2>1. c \in 0 .. (numConnections - 1)
    BY <1>1 DEF IInv, TypeOK
  <2>2. outgoing'[c] = <<>>
    BY <1>4
  <2>3. QED
    BY <1>1, <2>1, <2>2 DEF Channel!Close
<1>7. DOMAIN outgoing' = ConnIds /\ (0 .. (numConnections - 1))' \subseteq ConnIds
  BY ChannelTypes
<1>8. QED
  BY <1>5, <1>6, <1>7 DEF Channel!Next

(***************************************************************************)
(* The main thread                                                         *)
(***************************************************************************)

\* The client that joins is open: it was waiting.
LEMMA JoinIsChannelStep ==
  ASSUME IInv, IInv', FrontIs("JoinRoom"), RoomExists(Head(incoming).room),
         IsFrontOfWaitingRoom(Head(incoming).client_id),
         JoinFrontClient(Head(incoming)), UNCHANGED <<numConnections, open>>
  PROVE  Channel!Next
<1> DEFINE m == Head(incoming)
           id == m.client_id
           i == m.room + 1
           joined == AddClient(rooms[i], id)
           replies == <<SetDrawer(joined, id), Canvas(joined)>>
<1>1. m.room \in Nat
  BY TakingFront, PlayerMessageFields, WidthsAssumption DEF IInv
<1>2. /\ i \in DOMAIN rooms /\ GameRoom(m.room) = rooms[i]
      /\ rooms[i] \in RoomType /\ Sound(rooms[i])
  BY <1>1, GameRoomFacts
<1>3. id \in Members(waitingRoom) /\ id \in ConnIds
  BY MembersOfClients DEF IsFrontOfWaitingRoom, RoomType, IInv, TypeOK
<1>4. id \in open /\ id \notin Members(rooms[i])
  BY <1>2, <1>3 DEF IInv, Homes
<1>5. joined \in RoomType
  BY <1>2, <1>3, <1>4, AddClientFacts DEF RoomType
<1>6. outgoing' = [outgoing EXCEPT ![id] = @ \o replies]
  BY <1>2 DEF JoinFrontClient
<1> HIDE DEF id, joined
<1>7. replies \in Seq(ServerMessage)
  BY <1>5, RoomMessages
<1>8. QED
  BY <1>4, <1>6, <1>7, SendIsChannelStep

LEMMA HandleJoinRoomIsChannelStep ==
  ASSUME IInv, IInv', HandleJoinRoom
  PROVE  Channel!Next
<1>1. Handling("JoinRoom")
  BY DEF HandleJoinRoom
<1>2. CASE DropMessage
  BY <1>1, <1>2, QuietIsChannelStep DEF Handling, DropMessage
<1>3. CASE /\ RoomExists(Head(incoming).room)
           /\ IsFrontOfWaitingRoom(Head(incoming).client_id)
           /\ JoinFrontClient(Head(incoming))
  BY <1>1, <1>3, JoinIsChannelStep DEF Handling
<1>4. QED
  BY <1>2, <1>3 DEF HandleJoinRoom

LEMMA SpinEndsIsChannelStep ==
  ASSUME IInv, IInv', SpinEnds
  PROVE  Channel!Next
<1>1. /\ FrontIs("JoinRoom") /\ RoomExists(Head(incoming).room)
      /\ UNCHANGED <<numConnections, open>>
  BY DEF IInv, TypeOK, SpinEnds
<1>2. CASE /\ IsFrontOfWaitingRoom(Head(incoming).client_id)
           /\ JoinFrontClient(Head(incoming))
  BY <1>1, <1>2, JoinIsChannelStep
<1>3. CASE UNCHANGED outgoing
  BY <1>1, <1>3, QuietIsChannelStep
<1>4. QED
  BY <1>2, <1>3 DEF SpinEnds

LEMMA HandleCreateRoomIsChannelStep ==
  ASSUME IInv, IInv', HandleCreateRoom
  PROVE  Channel!Next
<1> DEFINE id == Head(incoming).client_id
           reply == SetRoomId(Len(rooms) % RoomRange)
<1>1. /\ UNCHANGED <<numConnections, open>>
      /\ outgoing' = IF id \in Members(waitingRoom)
                     THEN [outgoing EXCEPT ![id] = Append(@, reply)]
                     ELSE outgoing
  BY DEF HandleCreateRoom, Handling
<1>2. reply \in ServerMessage
  <2>1. Len(rooms) % RoomRange \in 0 .. (RoomRange - 1)
    BY WidthsAssumption DEF IInv, TypeOK
  <2>2. QED
    BY <2>1 DEF SetRoomId, ServerMessage
<1> HIDE DEF id, reply
<1>3. CASE id \in Members(waitingRoom)
  <2>1. id \in open
    BY <1>3, MembersAreOpen
  <2>2. id \in ConnIds
    BY <1>3, MembersOfClients DEF IInv, TypeOK, RoomType
  <2>3. Append(outgoing[id], reply) = outgoing[id] \o <<reply>>
    BY <1>2, <2>2, AppendIsConcat DEF IInv, TypeOK
  <2>4. outgoing' = [outgoing EXCEPT ![id] = @ \o <<reply>>]
    BY <1>1, <1>3, <2>3
  <2>5. <<reply>> \in Seq(ServerMessage)
    BY <1>2
  <2>6. QED
    BY <1>1, <2>1, <2>4, <2>5, SendIsChannelStep
<1>4. CASE id \notin Members(waitingRoom)
  BY <1>1, <1>4, QuietIsChannelStep
<1>5. QED
  BY <1>3, <1>4

LEMMA HandleDrawCommandIsChannelStep ==
  ASSUME IInv, IInv', HandleDrawCommand
  PROVE  Channel!Next
<1> DEFINE m == Head(incoming)
           old == GameRoom(m.room)
           others == Members(old) \ {m.client_id}
           posts == BroadcastExcept(old, Drawing(m.command), m.client_id)
<1>1. /\ Handling("DrawCommand") /\ FrontIs("DrawCommand")
      /\ UNCHANGED <<numConnections, open>>
  BY DEF HandleDrawCommand, Handling
<1>2. m.room \in Nat /\ m.command \in Commands
  BY <1>1, TakingFront, PlayerMessageFields, WidthsAssumption DEF IInv
<1>3. CASE DropMessage
  BY <1>1, <1>3, QuietIsChannelStep DEF DropMessage
<1>4. CASE RoomExists(m.room) /\ outgoing' = Post(outgoing, posts)
  <2>1. others \subseteq open
    BY <1>2, <1>4, GameRoomFacts, MembersAreOpen
  <2>2. <<Drawing(m.command)>> \in Seq(ServerMessage)
    <3>1. Drawing(m.command) \in ServerMessage
      BY <1>2 DEF Drawing, ServerMessage
    <3>2. QED
      BY <3>1
  <2>3. posts \in [others -> Seq(ServerMessage)]
    BY <2>2 DEF BroadcastExcept
  <2> HIDE DEF others, posts
  <2>4. QED
    BY <1>1, <1>4, <2>1, <2>3, PostIsChannelStep
<1>5. QED
  BY <1>3, <1>4 DEF HandleDrawCommand

LEMMA HandleCanvasPacketIsChannelStep ==
  ASSUME IInv, IInv', HandleCanvasPacket
  PROVE  Channel!Next
<1> DEFINE m == Head(incoming)
           old == GameRoom(m.room)
           posts == Broadcast(old, Canvas(ClearCanvas(old)))
<1>1. /\ Handling("CanvasPacket") /\ FrontIs("CanvasPacket")
      /\ UNCHANGED <<numConnections, open>>
  BY DEF HandleCanvasPacket, Handling
<1>2. m.room \in Nat
  BY <1>1, TakingFront, PlayerMessageFields, WidthsAssumption DEF IInv
<1>3. CASE DropMessage
  BY <1>1, <1>3, QuietIsChannelStep DEF DropMessage
<1>4. CASE RoomExists(m.room) /\ outgoing' = Post(outgoing, posts)
  <2>1. Members(old) \subseteq open /\ old \in RoomType
    BY <1>2, <1>4, GameRoomFacts, MembersAreOpen
  <2>2. ClearCanvas(old) \in RoomType
    BY <2>1, ClearCanvasFacts DEF RoomType
  <2>3. <<Canvas(ClearCanvas(old))>> \in Seq(ServerMessage)
    BY <2>2, RoomMessages
  <2>4. posts \in [Members(old) -> Seq(ServerMessage)]
    BY <2>3 DEF Broadcast
  <2> HIDE DEF old, posts
  <2>5. QED
    BY <1>1, <1>4, <2>1, <2>4, PostIsChannelStep
<1>5. QED
  BY <1>3, <1>4 DEF HandleCanvasPacket

LEMMA HandleGuessPacketIsChannelStep ==
  ASSUME IInv, IInv', HandleGuessPacket
  PROVE  Channel!Next
<1> DEFINE m == Head(incoming)
           id == m.client_id
           old == GameRoom(m.room)
<1>1. /\ Handling("GuessPacket") /\ FrontIs("GuessPacket")
      /\ UNCHANGED <<numConnections, open>>
  BY DEF HandleGuessPacket, Handling
<1>2. m.room \in Nat /\ m.guess \in Guesses /\ id \in 0 .. (IdRange - 1)
  BY <1>1, TakingFront, PlayerMessageFields, WidthsAssumption DEF IInv
<1>3. CASE UNCHANGED outgoing
  BY <1>1, <1>3, QuietIsChannelStep
<1>4. ASSUME MayGuess(id, m.room), ~GuessOverruns(old, m.guess, id), NEW w \in Words,
             outgoing' = Post(outgoing, CheckWordPosts(old, m.guess, id, w))
      PROVE  Channel!Next
  <2> DEFINE posts == CheckWordPosts(old, m.guess, id, w)
  <2>1. id \in Members(old) /\ old \in RoomType /\ Sound(old)
    BY <1>2, <1>4, GameRoomFacts DEF MayGuess
  <2>2. Members(old) \subseteq open
    BY <1>2, <1>4, GameRoomFacts, MembersAreOpen DEF MayGuess
  <2>3. posts \in [Members(old) -> Seq(ServerMessage)]
    BY <1>2, <1>4, <2>1, GuessPosts
  <2> HIDE DEF old, posts
  <2>4. QED
    BY <1>1, <1>4, <2>2, <2>3, PostIsChannelStep DEF posts
<1>5. QED
  BY <1>3, <1>4 DEF HandleGuessPacket, DropMessage

(***************************************************************************)
(* The theorem                                                             *)
(***************************************************************************)

LEMMA StepsAreChannelSteps == IInv /\ IInv' /\ Silent /\ [Next]_vars => Channel!Next
<1> SUFFICES ASSUME IInv, IInv', Silent, [Next]_vars PROVE Channel!Next
  OBVIOUS
<1>1. CASE HandleMessages
  <2>1. CASE JoinRoomSpins
    BY <2>1, QuietIsChannelStep DEF JoinRoomSpins
  <2>2. QED
    BY <1>1, <2>1, HandleJoinRoomIsChannelStep, HandleCreateRoomIsChannelStep,
       HandleDrawCommandIsChannelStep, HandleGuessPacketIsChannelStep,
       HandleCanvasPacketIsChannelStep
    DEF HandleMessages
<1>2. CASE SpinEnds
  BY <1>2, SpinEndsIsChannelStep
<1>3. CASE Network
  <2>1. CASE AcceptConnection
    BY <2>1, AcceptIsChannelStep
  <2>2. CASE AcceptAlreadyReset
    BY <2>2, QuietIsChannelStep DEF AcceptAlreadyReset
  <2>3. ASSUME NEW c \in ConnIds, NEW m \in PlayerMessages(c), Arrive(c, m)
        PROVE  Channel!Next
    BY <2>3, QuietIsChannelStep DEF Arrive
  <2>4. ASSUME NEW c \in ConnIds, Sent(c)
        PROVE  Channel!Next
    BY <2>4, SentIsChannelStep
  <2>5. ASSUME NEW c \in ConnIds, Disconnect(c)
        PROVE  Channel!Next
    BY <2>5, DisconnectIsChannelStep
  <2>6. ASSUME NEW c \in ConnIds, DisconnectOverruns(c)
        PROVE  Channel!Next
    BY <2>6, QuietIsChannelStep DEF DisconnectOverruns
  <2>7. QED
    BY <1>3, <2>1, <2>2, <2>3, <2>4, <2>5, <2>6 DEF Network
<1>4. CASE UNCHANGED vars
  BY <1>4, QuietIsChannelStep DEF vars
<1>5. QED
  BY <1>1, <1>2, <1>3, <1>4 DEF Next

\* What is not sent to closed connections stays unsent: a channel opens
\* only once.
LEMMA ChannelsKeepSilent ==
  ASSUME Silent, Channel!Next
  PROVE  Silent'
<1> SUFFICES ASSUME NEW c \in ConnIds, c \notin open' PROVE outgoing'[c] = <<>>
  BY DEF Silent
<1>1. Channel!Idle(c) \/ Channel!Close(c)
  BY DEF Channel!Next, Channel!Open, Channel!Send, Channel!Deliver
<1>2. QED
  BY <1>1 DEF Channel!Idle, Channel!Close, Silent

\* Nobody is connected, and nothing is sent.
LEMMA ChannelsBegin == Init => Silent /\ Channel!Init
BY BoundsAssumption DEF Init, Silent, Channel!Init, Channel!Nothing, ConnIds

\* The outgoing queues of the server are channels: whatever the rooms post,
\* it reaches open connections only, in order, and a connection that is
\* closed is closed for good.
THEOREM ServerKeepsChannels == Spec => KeepsChannels
<1>1. IInv /\ IInv' /\ Silent /\ [Next]_vars => Silent' /\ Channel!Next
  BY StepsAreChannelSteps, ChannelsKeepSilent
<1>2. QED
  BY <1>1, ChannelsBegin, Invariance, PTL DEF Spec, KeepsChannels, Channel!Spec

(***************************************************************************)
(* Homes                                                                   *)
(***************************************************************************)

Entered == 0 .. (numConnections - 1)

Waiting == Members(waitingRoom)

Seated == UNION {Members(room) : room \in Range(rooms)}

\* The clients in game rooms are the others.
LEMMA SeatedAreTheOthers == IInv => Seated = open \ Waiting
<1> SUFFICES ASSUME IInv PROVE Seated = open \ Waiting
  OBVIOUS
<1>1. \A c : c \in Seated <=> \E i \in DOMAIN rooms : c \in Members(rooms[i])
  BY DEF Seated, Range
<1>2. QED
  BY <1>1 DEF IInv, Homes, Waiting

\* So they are after a step.
LEMMA SeatedAfter == IInv' => (Seated = open \ Waiting)'
BY SeatedAreTheOthers, PTL

\* The newcomer has a new id, and waits.
LEMMA AcceptEnters ==
  ASSUME IInv, IInv', AcceptConnection
  PROVE  Home!Next
<1> DEFINE id == numConnections
<1>1. /\ id \in ConnIds /\ id \in Nat /\ id \notin Entered /\ id \notin open
      /\ open' = open \cup {id} /\ numConnections' = id + 1
      /\ waitingRoom' = AddClient(waitingRoom, id)
  BY BoundsAssumption DEF IInv, TypeOK, AcceptConnection, ConnIds, Entered
<1>2. waitingRoom \in RoomType /\ Sound(waitingRoom) /\ Waiting \subseteq open
  BY DEF IInv, TypeOK, SoundRooms, Homes, Waiting
<1>3. Waiting' = Waiting \cup {id}
  BY <1>1, <1>2, AddClientFacts DEF Waiting, RoomType
<1>4. Entered' = Entered \cup {id}
  BY <1>1 DEF Entered
<1> HIDE DEF id
<1>5. Seated' = Seated
  BY <1>1, <1>2, <1>3, SeatedAreTheOthers, SeatedAfter
<1>6. Home!Enter(id)
  BY <1>1, <1>3, <1>4, <1>5 DEF Home!Enter, Entered, Waiting, Seated
<1>7. QED
  BY <1>1, <1>6 DEF Home!Next

\* The client that goes was in one room, and is in none.
LEMMA DisconnectLeaves ==
  ASSUME IInv, IInv', NEW c \in ConnIds, Disconnect(c)
  PROVE  Home!Next
<1>1. c \in open /\ open' = open \ {c} /\ Entered' = Entered
  BY DEF Disconnect, Entered
<1>2. Waiting' = Waiting \ {c}
  <2>1. CASE /\ c \in Members(waitingRoom)
             /\ ~LeavingOverruns(waitingRoom, c)
             /\ \E w \in Words : waitingRoom' = RemoveClient(waitingRoom, c, w)
    BY <2>1, RemoveClientFacts DEF IInv, TypeOK, SoundRooms, RoomType, Waiting
  <2>2. CASE /\ \E i \in DOMAIN rooms : c \in Members(rooms[i])
             /\ waitingRoom' = waitingRoom
    BY <2>2 DEF IInv, Homes, Waiting
  <2>3. QED
    BY <2>1, <2>2 DEF Disconnect
<1>3. Seated' = Seated \ {c} /\ c \in Waiting \cup Seated
  BY <1>1, <1>2, SeatedAreTheOthers, SeatedAfter
<1>4. Home!Leave(c)
  BY <1>1, <1>2, <1>3 DEF Home!Leave, Entered, Waiting, Seated
<1>5. QED
  BY <1>4 DEF Home!Next

\* The client that joins was the first that waited.
LEMMA JoinMoves ==
  ASSUME IInv, IInv', IsFrontOfWaitingRoom(Head(incoming).client_id),
         JoinFrontClient(Head(incoming)), UNCHANGED <<numConnections, open>>
  PROVE  Home!Next
<1> DEFINE id == Head(incoming).client_id
<1>1. waitingRoom \in RoomType /\ Sound(waitingRoom) /\ Waiting \subseteq open
  BY DEF IInv, TypeOK, SoundRooms, Homes, Waiting
<1>2. id \in Waiting /\ id \in ConnIds
  BY <1>1, MembersOfClients DEF IsFrontOfWaitingRoom, RoomType, Waiting
<1>3. waitingRoom' = MoveOut(waitingRoom, id)
  BY DEF JoinFrontClient
<1> HIDE DEF id
<1>4. Waiting' = Waiting \ {id}
  BY <1>1, <1>2, <1>3, MoveOutFacts DEF Waiting, RoomType
<1>5. Seated' = Seated \cup {id}
  BY <1>1, <1>2, <1>4, SeatedAreTheOthers, SeatedAfter
<1>6. Home!Move(id)
  BY <1>2, <1>4, <1>5 DEF Home!Move, Entered, Waiting, Seated
<1>7. QED
  BY <1>2, <1>6 DEF Home!Next

\* Every step is one of these, or moves nobody.
LEMMA StepsAreHomeSteps ==
  IInv /\ IInv' /\ [Next]_vars => [Home!Next]_<<Entered, Waiting, Seated>>
<1> SUFFICES ASSUME IInv, IInv', [Next]_vars
             PROVE  Home!Next \/ UNCHANGED <<Entered, Waiting, Seated>>
  OBVIOUS
<1>1. CASE UNCHANGED <<numConnections, open, waitingRoom>>
  <2>1. Waiting' = Waiting /\ Entered' = Entered
    BY <1>1 DEF Waiting, Entered
  <2>2. Seated' = Seated
    BY <1>1, <2>1, SeatedAreTheOthers, SeatedAfter
  <2>3. QED
    BY <2>1, <2>2
<1>2. CASE /\ IsFrontOfWaitingRoom(Head(incoming).client_id)
           /\ JoinFrontClient(Head(incoming))
           /\ UNCHANGED <<numConnections, open>>
  BY <1>2, JoinMoves
<1>3. CASE AcceptConnection
  BY <1>3, AcceptEnters
<1>4. ASSUME NEW c \in ConnIds, Disconnect(c) PROVE Home!Next
  BY <1>4, DisconnectLeaves
<1>5. CASE HandleMessages
  BY <1>1, <1>2, <1>5
  DEF HandleMessages, HandleJoinRoom, JoinRoomSpins, HandleCreateRoom, HandleDrawCommand,
      HandleGuessPacket, HandleCanvasPacket, Handling, DropMessage
<1>6. CASE SpinEnds
  BY <1>1, <1>2, <1>6 DEF SpinEnds
<1>7. CASE Network
  BY <1>1, <1>3, <1>4, <1>7
  DEF Network, AcceptAlreadyReset, Arrive, Sent, DisconnectOverruns
<1>8. QED
  BY <1>1, <1>5, <1>6, <1>7 DEF Next, vars

\* Whatever the handlers do, and in whatever order: a client enters the
\* waiting room once, moves to one game room at most, and leaves for good.
THEOREM ServerKeepsHomes == Spec => KeepsHomes
<1>1. Init => Home!Init
  <2> SUFFICES ASSUME Init PROVE Entered = {} /\ Waiting = {} /\ Seated = {}
    BY DEF Home!Init, Entered, Waiting, Seated
  <2>1. Entered = {} /\ open = {}
    BY DEF Init, Entered
  <2>2. Waiting = {} /\ Seated = {}
    BY <2>1, InitIInv, SeatedAreTheOthers DEF IInv, Homes, Waiting
  <2>3. QED
    BY <2>1, <2>2
<1>2. IInv /\ IInv' /\ [Next]_vars
        => [Home!Next]_<<0 .. (numConnections - 1), Members(waitingRoom),
                         UNION {Members(room) : room \in Range(rooms)}>>
  BY StepsAreHomeSteps DEF Entered, Waiting, Seated
<1>3. QED
  BY <1>1, <1>2, Invariance, PTL DEF Spec, KeepsHomes, Home!Spec
=============================================================================
