------------------------------ MODULE Pixelnary ------------------------------
(***************************************************************************)
(* The whole game: the server of GameServer and one frontend               *)
(* (frontend/src/main.py) behind each connection.  A frontend is a         *)
(* ScribbleGame from the click that opens its socket to the close of it.   *)
(* Its two threads are the Tk loop, which sends what the player does, and  *)
(* the reader, which takes one message at a time from the connection.      *)
(*                                                                         *)
(* A message that is sent is read by the server in the same step: what it  *)
(* could overtake or be overtaken by is the same, since all it depends on  *)
(* is what the frontend had read by then.  Answers take their time.        *)
(***************************************************************************)
EXTENDS GameServer

ASSUME PensAssumption == ConnIds \subseteq Commands

VARIABLE game  \* per connection, the ScribbleGame and its ScribbleSocket

gameVars == <<vars, game>>

NoRoom == -1   \* room_id is None
NoWord == ""   \* word is None

\* screen   "connecting" until the socket's constructor has read the id,
\*          then "menu", and "room" once render_room has run
\* room     socket.room_id
\* joining  the new room for which the reader is about to send JOIN_ROOM
\* drawer, word, is_guessing   as in ScribbleGame
\* canvas   the commands from the server that Paint shows
NewGame ==
  [screen |-> "connecting", room |-> NoRoom, joining |-> NoRoom,
   drawer |-> FALSE, word |-> NoWord, is_guessing |-> TRUE, canvas |-> <<>>]

GameInit == Init /\ game = [c \in ConnIds |-> NewGame]

-----------------------------------------------------------------------------
(* on_packet_received *)

\* render_room makes a new Paint, which is empty.
OnSetDrawer(g, m) ==
  [g EXCEPT !.screen = "room",
            !.drawer = m.isDrawer,
            !.word = IF m.isDrawer THEN m.word ELSE NoWord,
            !.is_guessing = ~m.isDrawer,
            !.canvas = <<>>]

\* The handlers of draw, canvas and guess packets exist once there is a room
\* on the screen.
OnPacket(c, g, m) ==
  CASE m.type = "SetClientId" -> [g EXCEPT !.screen = "menu"]
    [] m.type = "SetRoomId" -> [g EXCEPT !.room = m.room, !.joining = m.room]
    [] m.type = "SetDrawer" -> OnSetDrawer(g, m)
    [] m.type = "CorrectGuess" ->
         IF g.screen = "room" /\ m.client_id = WireId(c)
         THEN [g EXCEPT !.is_guessing = FALSE] ELSE g
    [] m.type = "GuessPacket" -> g
    [] m.type = "DrawCommand" ->
         IF g.screen = "room" /\ ~g.drawer
         THEN [g EXCEPT !.canvas = Append(@, m.command)] ELSE g
    [] m.type = "CanvasPacket" ->
         IF g.screen = "room" THEN [g EXCEPT !.canvas = m.commands] ELSE g

Receive(c) ==
  /\ c \in open
  /\ game[c].joining = NoRoom
  /\ Sent(c)
  /\ game' = [game EXCEPT ![c] = OnPacket(c, @, Head(outgoing[c]))]

\* The rest of the reader's step on SET_ROOM_ID.
SendJoin(c) ==
  /\ game[c].joining # NoRoom
  /\ Arrive(c, [type |-> "JoinRoom", client_id |-> WireId(c),
                room |-> game[c].joining])
  /\ game' = [game EXCEPT ![c].joining = NoRoom]

-----------------------------------------------------------------------------
(* The player *)

HandleJoin_AnyNumber(c) ==
  /\ game[c].screen = "menu"
  /\ \E r \in 0 .. RoomRange :
       /\ Arrive(c, [type |-> "JoinRoom", client_id |-> WireId(c), room |-> r])
       /\ game' = [game EXCEPT ![c].room = r]

HandleJoin(c) ==
  /\ game[c].screen = "menu"
  /\ \E r \in 0 .. (RoomRange - 1) :
       /\ Arrive(c, [type |-> "JoinRoom", client_id |-> WireId(c), room |-> r])
       /\ game' = [game EXCEPT ![c].room = r]

HandleCreate(c) ==
  /\ game[c].screen = "menu"
  /\ Arrive(c, [type |-> "CreateRoom", client_id |-> WireId(c)])
  /\ UNCHANGED game

\* Without a room id no packet can be packed, and nothing is sent.
InRoom(c) == game[c].screen = "room" /\ game[c].room # NoRoom

\* Every player draws in a pen of its own, so a command tells who drew it.
HandleSendDrawing(c) ==
  /\ InRoom(c)
  /\ game[c].drawer
  /\ Arrive(c, [type |-> "DrawCommand", client_id |-> WireId(c),
                room |-> game[c].room, command |-> c])
  /\ UNCHANGED game

HandleClearCanvas(c) ==
  /\ InRoom(c)
  /\ game[c].drawer
  /\ Arrive(c, [type |-> "CanvasPacket", client_id |-> WireId(c),
                room |-> game[c].room])
  /\ game' = [game EXCEPT ![c].canvas = <<>>]

HandleSend(c) ==
  /\ InRoom(c)
  /\ game[c].is_guessing
  /\ \E g \in Guesses :
       Arrive(c, [type |-> "GuessPacket", client_id |-> WireId(c),
                  room |-> game[c].room, guess |-> g])
  /\ UNCHANGED game

Player(c) ==
  \/ HandleJoin(c)
  \/ HandleCreate(c)
  \/ HandleSendDrawing(c)
  \/ HandleClearCanvas(c)
  \/ HandleSend(c)

Reader(c) == Receive(c) \/ SendJoin(c)

\* What the server does by itself; Arrive and Sent are its side of the
\* frontends' steps.
ServerStep ==
  /\ \/ HandleMessages
     \/ SpinEnds
     \/ AcceptConnection
     \/ AcceptAlreadyReset
     \/ \E c \in ConnIds : Disconnect(c) \/ DisconnectOverruns(c)
  /\ UNCHANGED game

GameNext == ServerStep \/ \E c \in ConnIds : Player(c) \/ Reader(c)

\* Players owe nothing; the server's main thread and the readers run.
GameFairness ==
  /\ WF_gameVars(HandleMessages /\ UNCHANGED game)
  /\ \A c \in ConnIds : WF_gameVars(Reader(c))

GameSpec == GameInit /\ [][GameNext]_gameVars /\ GameFairness

-----------------------------------------------------------------------------
(* Properties *)

GameType ==
  [screen : {"connecting", "menu", "room"}, room : -1 .. (RoomRange - 1),
   joining : -1 .. (RoomRange - 1), drawer : BOOLEAN,
   word : Words \cup {NoWord}, is_guessing : BOOLEAN, canvas : Seq(Commands)]

\* Every frontend's state has its type.
GameTypeOK == game \in [ConnIds -> GameType]

\* The frontend of c once it has read everything that was posted to it.
Settled(c) ==
  FoldLeft(LAMBDA g, m : OnPacket(c, g, m), game[c], outgoing[c])

\* Once it has read its messages, a member of a room that was never moved
\* sees the room, and takes itself for the drawer exactly when the server
\* does; then it knows the word, and nobody else has a word.
PlayersKnowTheirRole ==
  \A i \in DOMAIN rooms : NeverMoved(i) =>
    \A c \in Members(rooms[i]) :
      LET g == Settled(c)
          draws == c = rooms[i].currentDrawer
      IN  /\ g.screen = "room"
          /\ g.drawer = draws
          /\ g.word = IF draws THEN rooms[i].word ELSE NoWord

\* The commands that c did not draw.
NotBy(c, commands) ==
  FoldLeft(LAMBDA others, command : IF command = c THEN others
                                    ELSE Append(others, command), <<>>, commands)

\* Whoever guesses sees, once it has read its messages, the drawing the
\* server keeps, in order, but for strokes it drew itself as the drawer.
GuessersSeeTheCanvas ==
  \A i \in DOMAIN rooms : NeverMoved(i) =>
    \A c \in Guessers(rooms[i]) :
      NotBy(c, Settled(c).canvas) = NotBy(c, rooms[i].drawCommands)

\* "Prevent guess if user already got the right word" (main.py): whoever the
\* server has on record as right can no longer guess in this round.
GuessedRightStopsGuessing ==
  \A i \in DOMAIN rooms : NeverMoved(i) =>
    \A c \in Guessers(rooms[i]) \cap rooms[i].second : ~Settled(c).is_guessing

\* The same comment read the other way: only who got the right word is
\* prevented from guessing.
OnlyRightGuessersStop ==
  \A i \in DOMAIN rooms : NeverMoved(i) =>
    \A c \in Guessers(rooms[i]) \ rooms[i].second : Settled(c).is_guessing

\* "Promote another client to drawer if the drawer left" (Room.cpp): a room
\* with clients always has one that takes itself for the drawer, once it has
\* read its messages.
SomebodyDraws ==
  \A i \in DOMAIN rooms : rooms[i].clients # <<>> =>
    \E c \in Members(rooms[i]) : Settled(c).drawer

\* A player that asked for a new room while it waits gets into a room, unless
\* it leaves, the server stops, or the bound on messages is reached.
CreatorGetsARoom ==
  \A c \in ConnIds :
    (/\ c \in Members(waitingRoom)
     /\ \E i \in DOMAIN incoming :
          incoming[i].type = "CreateRoom" /\ incoming[i].client_id = c)
      ~> (\/ \E i \in DOMAIN rooms : c \in Members(rooms[i])
          \/ c \notin open
          \/ serverState # "running"
          \/ received = MaxReceived)
=============================================================================
