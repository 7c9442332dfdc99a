-------------------------- MODULE PixelnaryProofs --------------------------
(***************************************************************************)
(* The frontends are players as GameServer takes them for granted: every   *)
(* step of the game is a step of the server or leaves the server as it is. *)
(* What is proved of the server is so true of the game.  The link needs    *)
(* the types of both sides: the server, that the rooms it tells players    *)
(* fit a header; the frontends, that the room they name does.              *)
(*                                                                         *)
(* Then what the players see: once a member of a room has read what was    *)
(* posted to it, it knows its role and sees the drawing.  The queues that  *)
(* are read are folds, taken as runs (FoldProofs); each handler of the     *)
(* server has a lemma that what it posts tells the members what it changes.*)
(***************************************************************************)
EXTENDS Pixelnary, GameServerProofs, FoldProofs

\* What is true of the server by itself, and the types of the frontends.
GameIInv == IInv /\ GameTypeOK

(***************************************************************************)
(* The frontends                                                           *)
(***************************************************************************)

\* Whatever the server sends, the frontend makes a frontend of it.
LEMMA OnPacketType ==
  ASSUME NEW c \in ConnIds, NEW g \in GameType, NEW m \in ServerMessage
  PROVE  OnPacket(c, g, m) \in GameType
<1>1. CASE m \in [type : {"SetClientId"}, client_id : 0 .. (IdRange - 1)]
  <2>1. OnPacket(c, g, m) = [g EXCEPT !.screen = "menu"]
    BY <1>1 DEF OnPacket
  <2>2. QED
    BY <2>1 DEF GameType
<1>2. CASE m \in [type : {"SetRoomId"}, room : 0 .. (RoomRange - 1)]
  <2>1. OnPacket(c, g, m) = [g EXCEPT !.room = m.room, !.joining = m.room]
    BY <1>2 DEF OnPacket
  <2>2. m.room \in -1 .. (RoomRange - 1)
    BY <1>2, WidthsAssumption
  <2>3. QED
    BY <2>1, <2>2 DEF GameType
<1>3. CASE m \in [type : {"SetDrawer"}, isDrawer : {TRUE}, word : Words]
           \cup [type : {"SetDrawer"}, isDrawer : {FALSE}]
  <2>1. OnPacket(c, g, m) = OnSetDrawer(g, m)
    BY <1>3 DEF OnPacket
  <2> DEFINE none == <<>>
             shown == [[g EXCEPT !.screen = "room"] EXCEPT !.canvas = none]
             drawer == [[[shown EXCEPT !.drawer = TRUE] EXCEPT !.word = m.word]
                          EXCEPT !.is_guessing = FALSE]
             guesser == [[[shown EXCEPT !.drawer = FALSE] EXCEPT !.word = NoWord]
                           EXCEPT !.is_guessing = TRUE]
  <2>2. shown \in GameType
    <3>1. none \in Seq(Commands)
      OBVIOUS
    <3> HIDE DEF none
    <3>2. QED
      BY <3>1 DEF GameType
  <2>3. CASE m \in [type : {"SetDrawer"}, isDrawer : {TRUE}, word : Words]
    <3>1. OnSetDrawer(g, m) = drawer
      BY <2>3 DEF OnSetDrawer, GameType
    <3> HIDE DEF shown
    <3>2. drawer \in GameType
      BY <2>2, <2>3 DEF GameType
    <3>3. QED
      BY <2>1, <3>1, <3>2
  <2>4. CASE m \in [type : {"SetDrawer"}, isDrawer : {FALSE}]
    <3>1. OnSetDrawer(g, m) = guesser
      BY <2>4 DEF OnSetDrawer, GameType
    <3> HIDE DEF shown
    <3>2. guesser \in GameType
      BY <2>2 DEF GameType
    <3>3. QED
      BY <2>1, <3>1, <3>2
  <2>5. QED
    BY <1>3, <2>3, <2>4
<1>4. CASE m \in [type : {"CanvasPacket"}, commands : Seq(Commands)]
  <2>1. OnPacket(c, g, m) = IF g.screen = "room" THEN [g EXCEPT !.canvas = m.commands] ELSE g
    BY <1>4 DEF OnPacket
  <2>2. QED
    BY <1>4, <2>1 DEF GameType
<1>5. CASE m \in [type : {"DrawCommand"}, command : Commands]
  <2>1. OnPacket(c, g, m) = IF g.screen = "room" /\ ~g.drawer
                            THEN [g EXCEPT !.canvas = Append(g.canvas, m.command)] ELSE g
    BY <1>5 DEF OnPacket
  <2>2. Append(g.canvas, m.command) \in Seq(Commands)
    BY <1>5, AppendProperties DEF GameType
  <2>3. QED
    BY <2>1, <2>2 DEF GameType
<1>6. CASE m \in [type : {"CorrectGuess"}, client_id : 0 .. (IdRange - 1)]
  <2>1. OnPacket(c, g, m) = IF g.screen = "room" /\ m.client_id = WireId(c)
                            THEN [g EXCEPT !.is_guessing = FALSE] ELSE g
    BY <1>6 DEF OnPacket
  <2>2. QED
    BY <2>1 DEF GameType
<1>7. CASE m \in [type : {"GuessPacket"}, client_id : 0 .. (IdRange - 1), guess : Guesses]
  BY <1>7 DEF OnPacket
<1>8. QED
  BY <1>1, <1>2, <1>3, <1>4, <1>5, <1>6, <1>7 DEF ServerMessage

\* What a frontend sends is what the server expects of its connection.
LEMMA PlayersSend ==
  ASSUME GameTypeOK, NEW c \in ConnIds, Player(c)
  PROVE  (\E m \in PlayerMessages(c) : Arrive(c, m)) /\ GameTypeOK'
<1>1. game[c] \in GameType
  BY DEF GameTypeOK
<1>2. InRoom(c) => game[c].room \in 0 .. (RoomRange - 1)
  BY <1>1, WidthsAssumption DEF InRoom, NoRoom, GameType
<1>3. CASE HandleJoin(c)
  <2>1. PICK r \in 0 .. (RoomRange - 1) :
          /\ Arrive(c, [type |-> "JoinRoom", client_id |-> WireId(c), room |-> r])
          /\ game' = [game EXCEPT ![c].room = r]
    BY <1>3 DEF HandleJoin
  <2>2. [game[c] EXCEPT !.room = r] \in GameType
    BY <1>1, WidthsAssumption DEF GameType
  <2>3. QED
    BY <2>1, <2>2 DEF PlayerMessages, GameTypeOK
<1>4. CASE HandleCreate(c)
  BY <1>4 DEF HandleCreate, PlayerMessages, GameTypeOK
<1>5. CASE HandleSendDrawing(c)
  <2>1. c \in Commands
    BY PensAssumption
  <2>2. QED
    BY <1>2, <1>5, <2>1 DEF HandleSendDrawing, PlayerMessages, GameTypeOK
<1>6. CASE HandleClearCanvas(c)
  <2> DEFINE none == <<>>
  <2>1. [game[c] EXCEPT !.canvas = none] \in GameType
    <3>1. none \in Seq(Commands)
      OBVIOUS
    <3> HIDE DEF none
    <3>2. QED
      BY <1>1, <3>1 DEF GameType
  <2>2. QED
    BY <1>2, <1>6, <2>1 DEF HandleClearCanvas, PlayerMessages, GameTypeOK
<1>7. CASE HandleSend(c)
  BY <1>2, <1>7 DEF HandleSend, PlayerMessages, GameTypeOK
<1>8. QED
  BY <1>3, <1>4, <1>5, <1>6, <1>7 DEF Player

\* The reader takes the front message, or sends what it owes.
LEMMA ReadersRead ==
  ASSUME IInv, GameTypeOK, NEW c \in ConnIds, Reader(c)
  PROVE  (Sent(c) \/ \E m \in PlayerMessages(c) : Arrive(c, m)) /\ GameTypeOK'
<1>1. game[c] \in GameType
  BY DEF GameTypeOK
<1>2. CASE Receive(c)
  <2>1. /\ outgoing[c] # <<>> /\ Sent(c)
        /\ game' = [game EXCEPT ![c] = OnPacket(c, game[c], Head(outgoing[c]))]
    BY <1>2 DEF Receive, Sent
  <2>2. Head(outgoing[c]) \in ServerMessage
    BY <2>1, HeadTailProperties DEF IInv, TypeOK
  <2>3. OnPacket(c, game[c], Head(outgoing[c])) \in GameType
    BY <1>1, <2>2, OnPacketType
  <2>4. QED
    BY <2>1, <2>3 DEF GameTypeOK
<1>3. CASE SendJoin(c)
  <2>1. game[c].joining \in 0 .. (RoomRange - 1)
    BY <1>1, <1>3, WidthsAssumption DEF SendJoin, NoRoom, GameType
  <2>2. [game[c] EXCEPT !.joining = NoRoom] \in GameType
    BY <1>1, WidthsAssumption DEF GameType, NoRoom
  <2>3. QED
    BY <1>3, <2>1, <2>2 DEF SendJoin, PlayerMessages, GameTypeOK
<1>4. QED
  BY <1>2, <1>3 DEF Reader

(***************************************************************************)
(* The game and the server                                                 *)
(***************************************************************************)

\* Every step of the game is one of the server, or none.
LEMMA GameSteps == GameIInv /\ [GameNext]_gameVars => [Next]_vars /\ GameTypeOK'
<1> SUFFICES ASSUME IInv, GameTypeOK, [GameNext]_gameVars PROVE [Next]_vars /\ GameTypeOK'
  BY DEF GameIInv
<1>1. CASE ServerStep
  BY <1>1 DEF ServerStep, Next, Network, GameTypeOK
<1>2. ASSUME NEW c \in ConnIds, Player(c) \/ Reader(c)
      PROVE  [Next]_vars /\ GameTypeOK'
  BY <1>2, PlayersSend, ReadersRead DEF Next, Network
<1>3. CASE UNCHANGED gameVars
  BY <1>3 DEF gameVars, GameTypeOK
<1>4. QED
  BY <1>1, <1>2, <1>3 DEF GameNext

LEMMA GameBegins == GameInit => GameIInv /\ Init
<1> SUFFICES ASSUME GameInit PROVE IInv /\ GameTypeOK /\ Init
  BY DEF GameIInv
<1>1. Init /\ game = [c \in ConnIds |-> NewGame]
  BY DEF GameInit
<1>2. NewGame \in GameType
  BY WidthsAssumption DEF NewGame, NoRoom, NoWord, GameType
<1>3. QED
  BY <1>1, <1>2, InitIInv DEF GameTypeOK

LEMMA GameInvariance == GameSpec => []GameIInv
<1>1. GameIInv /\ [GameNext]_gameVars => GameIInv'
  BY GameSteps, NextKeepsIInv DEF GameIInv
<1>2. QED
  BY <1>1, GameBegins, PTL DEF GameSpec

\* Every frontend's state keeps its type, whatever the server sends when.
THEOREM GameTypeCorrect == GameSpec => []GameTypeOK
<1>1. GameIInv => GameTypeOK
  BY DEF GameIInv
<1>2. QED
  BY <1>1, GameInvariance, PTL

\* The frontends never send a message that the server does not expect: the
\* game is the server with some of the players it could have.
THEOREM GamePlaysTheServer == GameSpec => Init /\ [][Next]_vars
BY GameBegins, GameSteps, GameInvariance, PTL DEF GameSpec

\* In the game too every open connection is in exactly one room.
THEOREM EveryPlayerHasOneHome == GameSpec => []OneHome
<1>1. GameIInv => OneHome
  BY HomesAreUnique DEF GameIInv
<1>2. QED
  BY <1>1, GameInvariance, PTL

\* In the game too the outgoing queues are channels: what the frontends read
\* is what was sent to them, in order, while they are connected.
THEOREM GameKeepsChannels == GameSpec => KeepsChannels
<1>1. Init => Silent /\ Channel!Init
  BY ChannelsBegin
<1>2. IInv /\ IInv' /\ Silent /\ [Next]_vars => Silent' /\ Channel!Next
  BY StepsAreChannelSteps, ChannelsKeepSilent
<1>3. GameIInv => IInv
  BY DEF GameIInv
<1>4. QED
  BY <1>1, <1>2, <1>3, GamePlaysTheServer, GameInvariance, PTL DEF KeepsChannels, Channel!Spec

(***************************************************************************)
(* Whole queues of messages                                                *)
(***************************************************************************)

\* Reading one message, as a function.
GameStep(c) == [p \in GameType \X ServerMessage |-> OnPacket(c, p[1], p[2])]

\* The frontend of c that was g, once it has read the messages.
Seen(c, g, messages) == Reached(GameStep(c), g, messages)

\* A frontend that reads a message of the server stays one.
LEMMA GameStepType ==
  ASSUME NEW c \in ConnIds
  PROVE  GameStep(c) \in [GameType \X ServerMessage -> GameType]
BY OnPacketType DEF GameStep

\* The fold of Settled is a run.
LEMMA SettledIsSeen ==
  ASSUME NEW c \in ConnIds, game[c] \in GameType, outgoing[c] \in Seq(ServerMessage)
  PROVE  Settled(c) = Seen(c, game[c], outgoing[c])
<1> DEFINE queue == outgoing[c]
           Solves(it) ==
             it = [s \in SUBSET (1 .. Len(queue)) |->
                     IF s = {} THEN game[c]
                     ELSE OnPacket(c, it[s \ {Max(s)}], queue[Max(s)])]
           it0 == CHOOSE it : Solves(it)
<1>0. FoldType(GameType, ServerMessage, GameStep(c), game[c], queue)
  BY GameStepType DEF FoldType
<1>1. DOMAIN queue = 1 .. Len(queue) /\ Len(queue) \in Nat
  OBVIOUS
<1>2. Settled(c) = it0[1 .. Len(queue)]
  BY <1>1, Zenon DEF Settled, FoldLeft, MapThenFoldSet
<1> HIDE DEF queue
<1>3. \E it : Solves(it)
  <2>1. PICK it : SolvesFold(it, GameType, GameStep(c), game[c], queue)
    BY <1>0, FoldSolvable, Zenon
  <2>2. /\ it \in [SUBSET (1 .. Len(queue)) -> GameType]
        /\ \A s \in SUBSET (1 .. Len(queue)) :
             it[s] = IF s = {} THEN game[c] ELSE GameStep(c)[<<it[s \ {Max(s)}], queue[Max(s)]>>]
    BY <2>1 DEF SolvesFold
  <2>3. ASSUME NEW s \in SUBSET (1 .. Len(queue)), s # {}
        PROVE  it[s] = OnPacket(c, it[s \ {Max(s)}], queue[Max(s)])
    <3>1. Max(s) \in 1 .. Len(queue) /\ s \ {Max(s)} \in SUBSET (1 .. Len(queue))
      BY <1>1, <2>3, MaxOfSome
    <3>2. queue[Max(s)] \in ServerMessage
      BY <3>1 DEF queue
    <3>3. it[s \ {Max(s)}] \in GameType
      BY <2>2, <3>1
    <3>4. it[s] = GameStep(c)[<<it[s \ {Max(s)}], queue[Max(s)]>>]
      BY <2>2, <2>3
    <3> HIDE DEF GameType, ServerMessage
    <3>5. QED
      BY <3>2, <3>3, <3>4 DEF GameStep
  <2>4. Solves(it)
    BY <2>2, <2>3
  <2> HIDE DEF Solves
  <2>5. QED
    BY <2>4
<1>4. Solves(it0)
  <2> HIDE DEF Solves
  <2>1. QED
    BY <1>3, Zenon
<1> HIDE DEF it0
<1>5. it0[{}] = game[c]
  <2>1. {} \in SUBSET (1 .. Len(queue))
    OBVIOUS
  <2>2. QED
    BY <1>4, <2>1
<1>6. ASSUME NEW k \in 1 .. Len(queue), it0[1 .. k - 1] \in GameType
      PROVE  it0[1 .. k] = GameStep(c)[<<it0[1 .. k - 1], queue[k]>>]
  <2>1. k \in Nat \ {0} /\ k \in 1 .. k
    BY <1>1
  <2>0. queue[k] \in ServerMessage
    BY DEF queue
  <2>2. 1 .. k \in SUBSET (1 .. Len(queue))
    BY <1>1, <2>1
  <2>3. it0[1 .. k] = OnPacket(c, it0[(1 .. k) \ {Max(1 .. k)}], queue[Max(1 .. k)])
    BY <1>4, <2>1, <2>2
  <2>4. it0[1 .. k] = OnPacket(c, it0[1 .. k - 1], queue[k])
    BY <2>1, <2>3, MaxUpto, BeforeMax
  <2>5. QED
    BY <1>6, <2>0, <2>4 DEF GameStep
<1>7. PassesThrough(it0, GameType, GameStep(c), game[c], queue)
  BY <1>5, <1>6, Zenon DEF PassesThrough
<1>8. it0[1 .. Len(queue)] = Reached(GameStep(c), game[c], queue)
  <2>1. ASSUME NEW it, PassesThrough(it, GameType, GameStep(c), game[c], queue)
        PROVE  it[1 .. Len(queue)] = Reached(GameStep(c), game[c], queue)
    BY <1>0, <2>1, SolutionReaches
  <2>2. QED
    BY <1>7, <2>1
<1>9. QED
  BY <1>2, <1>8 DEF Seen, queue

\* What comes of no message, and of the first.
LEMMA SeenFacts ==
  ASSUME NEW c \in ConnIds, NEW g \in GameType, NEW s \in Seq(ServerMessage)
  PROVE  /\ Seen(c, g, s) \in GameType
         /\ Seen(c, g, <<>>) = g
         /\ s # <<>> => Seen(c, g, s) = Seen(c, OnPacket(c, g, Head(s)), Tail(s))
<1>1. Seen(c, g, s) \in GameType
  <2>1. \A a \in GameType, i \in 1 .. Len(s) : GameStep(c)[<<a, s[i]>>] \in GameType
    BY GameStepType
  <2>2. QED
    BY <2>1, ReachedStays DEF Seen
<1>2. Seen(c, g, <<>>) = g
  BY ReachedNothing DEF Seen
<1>3. ASSUME s # <<>>
      PROVE  Seen(c, g, s) = Seen(c, OnPacket(c, g, Head(s)), Tail(s))
  <2>1. Head(s) \in ServerMessage
    BY <1>3, HeadTailProperties
  <2>2. After(GameStep(c), g, Head(s)) = OnPacket(c, g, Head(s))
    BY <2>1 DEF GameStep, After
  <2>3. QED
    BY <1>3, <2>2, ReachedTail DEF Seen
<1>4. QED
  BY <1>1, <1>2, <1>3

\* What comes of one queue after the other.
LEMMA SeenConcat ==
  ASSUME NEW c \in ConnIds, NEW g \in GameType,
         NEW s \in Seq(ServerMessage), NEW t \in Seq(ServerMessage)
  PROVE  Seen(c, g, s \o t) = Seen(c, Seen(c, g, s), t)
BY ReachedConcat DEF Seen

\* What comes of one message, and of two.
LEMMA SeenOne ==
  ASSUME NEW c \in ConnIds, NEW g \in GameType, NEW m \in ServerMessage
  PROVE  Seen(c, g, <<m>>) = OnPacket(c, g, m)
<1>1. <<m>> \in Seq(ServerMessage) /\ <<m>> # <<>> /\ Head(<<m>>) = m /\ Tail(<<m>>) = <<>>
  OBVIOUS
<1>2. OnPacket(c, g, m) \in GameType
  BY OnPacketType
<1>3. Seen(c, g, <<m>>) = Seen(c, OnPacket(c, g, Head(<<m>>)), Tail(<<m>>))
  BY <1>1, SeenFacts, Zenon
<1>4. Seen(c, OnPacket(c, g, m), <<>>) = OnPacket(c, g, m)
  BY <1>1, <1>2, SeenFacts
<1>5. QED
  BY <1>1, <1>3, <1>4, Zenon

\* Two messages, one after the other.
LEMMA SeenTwo ==
  ASSUME NEW c \in ConnIds, NEW g \in GameType,
         NEW m1 \in ServerMessage, NEW m2 \in ServerMessage
  PROVE  Seen(c, g, <<m1, m2>>) = OnPacket(c, OnPacket(c, g, m1), m2)
<1>1. /\ <<m1, m2>> \in Seq(ServerMessage) /\ <<m1, m2>> # <<>>
      /\ Head(<<m1, m2>>) = m1 /\ Tail(<<m1, m2>>) = <<m2>>
  OBVIOUS
<1>2. OnPacket(c, g, m1) \in GameType
  BY OnPacketType
<1>3. Seen(c, g, <<m1, m2>>) = Seen(c, OnPacket(c, g, Head(<<m1, m2>>)), Tail(<<m1, m2>>))
  BY <1>1, SeenFacts, Zenon
<1>4. QED
  BY <1>1, <1>2, <1>3, SeenOne, Zenon

(***************************************************************************)
(* Canvases                                                                *)
(***************************************************************************)

\* One command of NotBy, as a function.
NotByStep(c) ==
  [p \in Seq(Commands) \X Commands |-> IF p[2] = c THEN p[1] ELSE Append(p[1], p[2])]

\* NotBy makes commands of commands.
LEMMA NotByStepType ==
  ASSUME NEW c
  PROVE  NotByStep(c) \in [Seq(Commands) \X Commands -> Seq(Commands)]
BY AppendProperties DEF NotByStep

\* The fold of NotBy is a run.
LEMMA NotByIsReached ==
  ASSUME NEW c, NEW commands \in Seq(Commands)
  PROVE  NotBy(c, commands) = Reached(NotByStep(c), <<>>, commands)
<1> DEFINE none == <<>>
           Solves(it) ==
             it = [s \in SUBSET (1 .. Len(commands)) |->
                     IF s = {} THEN none
                     ELSE IF commands[Max(s)] = c THEN it[s \ {Max(s)}]
                          ELSE Append(it[s \ {Max(s)}], commands[Max(s)])]
           it0 == CHOOSE it : Solves(it)
<1>a. none \in Seq(Commands)
  OBVIOUS
<1>1. DOMAIN commands = 1 .. Len(commands) /\ Len(commands) \in Nat
  OBVIOUS
<1>2. NotBy(c, commands) = it0[1 .. Len(commands)]
  BY <1>1, Zenon DEF NotBy, FoldLeft, MapThenFoldSet
<1>b. none = <<>>
  OBVIOUS
<1> HIDE DEF none
<1>0. FoldType(Seq(Commands), Commands, NotByStep(c), none, commands)
  BY <1>a, NotByStepType DEF FoldType
<1>3. \E it : Solves(it)
  <2>1. PICK it : SolvesFold(it, Seq(Commands), NotByStep(c), none, commands)
    BY <1>0, FoldSolvable, Zenon
  <2>2. /\ it \in [SUBSET (1 .. Len(commands)) -> Seq(Commands)]
        /\ \A s \in SUBSET (1 .. Len(commands)) :
             it[s] = IF s = {} THEN none ELSE NotByStep(c)[<<it[s \ {Max(s)}], commands[Max(s)]>>]
    BY <2>1 DEF SolvesFold
  <2>3. ASSUME NEW s \in SUBSET (1 .. Len(commands)), s # {}
        PROVE  it[s] = IF commands[Max(s)] = c THEN it[s \ {Max(s)}]
                       ELSE Append(it[s \ {Max(s)}], commands[Max(s)])
    <3>1. Max(s) \in 1 .. Len(commands) /\ s \ {Max(s)} \in SUBSET (1 .. Len(commands))
      BY <1>1, <2>3, MaxOfSome
    <3>2. commands[Max(s)] \in Commands
      BY <3>1
    <3>3. it[s \ {Max(s)}] \in Seq(Commands)
      BY <2>2, <3>1
    <3>4. it[s] = NotByStep(c)[<<it[s \ {Max(s)}], commands[Max(s)]>>]
      BY <2>2, <2>3
    <3>5. QED
      BY <3>2, <3>3, <3>4 DEF NotByStep
  <2>4. Solves(it)
    BY <2>2, <2>3
  <2> HIDE DEF Solves
  <2>5. QED
    BY <2>4
<1>4. Solves(it0)
  <2> HIDE DEF Solves
  <2>1. QED
    BY <1>3, Zenon
<1> HIDE DEF it0
<1>5. it0[{}] = none
  <2>1. {} \in SUBSET (1 .. Len(commands))
    OBVIOUS
  <2>2. QED
    BY <1>4, <2>1
<1>6. ASSUME NEW k \in 1 .. Len(commands), it0[1 .. k - 1] \in Seq(Commands)
      PROVE  it0[1 .. k] = NotByStep(c)[<<it0[1 .. k - 1], commands[k]>>]
  <2>1. k \in Nat \ {0} /\ k \in 1 .. k /\ commands[k] \in Commands
    BY <1>1
  <2>2. 1 .. k \in SUBSET (1 .. Len(commands))
    BY <1>1, <2>1
  <2>3. it0[1 .. k] = IF commands[Max(1 .. k)] = c THEN it0[(1 .. k) \ {Max(1 .. k)}]
                      ELSE Append(it0[(1 .. k) \ {Max(1 .. k)}], commands[Max(1 .. k)])
    BY <1>4, <2>1, <2>2
  <2>4. it0[1 .. k] = IF commands[k] = c THEN it0[1 .. k - 1]
                      ELSE Append(it0[1 .. k - 1], commands[k])
    BY <2>1, <2>3, MaxUpto, BeforeMax
  <2>5. QED
    BY <1>6, <2>1, <2>4 DEF NotByStep
<1>7. PassesThrough(it0, Seq(Commands), NotByStep(c), none, commands)
  BY <1>5, <1>6, Zenon DEF PassesThrough
<1>8. it0[1 .. Len(commands)] = Reached(NotByStep(c), none, commands)
  <2>1. ASSUME NEW it, PassesThrough(it, Seq(Commands), NotByStep(c), none, commands)
        PROVE  it[1 .. Len(commands)] = Reached(NotByStep(c), none, commands)
    BY <1>0, <2>1, SolutionReaches
  <2>2. QED
    BY <1>7, <2>1
<1>9. QED
  BY <1>2, <1>8, <1>b

\* One command more.
LEMMA NotByMore ==
  ASSUME NEW c, NEW commands \in Seq(Commands), NEW command \in Commands
  PROVE  NotBy(c, Append(commands, command)) =
           IF command = c THEN NotBy(c, commands)
           ELSE Append(NotBy(c, commands), command)
<1>1. <<>> \in Seq(Commands) /\ Append(commands, command) \in Seq(Commands)
  OBVIOUS
<1>2. Reached(NotByStep(c), <<>>, commands) \in Seq(Commands)
  <2>1. \A a \in Seq(Commands), i \in 1 .. Len(commands) :
          NotByStep(c)[<<a, commands[i]>>] \in Seq(Commands)
    BY NotByStepType
  <2>2. QED
    BY <1>1, <2>1, ReachedStays
<1>3. Reached(NotByStep(c), <<>>, Append(commands, command))
        = After(NotByStep(c), Reached(NotByStep(c), <<>>, commands), command)
  BY ReachedMore
<1>4. \A a \in Seq(Commands) : After(NotByStep(c), a, command) =
        IF command = c THEN a ELSE Append(a, command)
  BY DEF After, NotByStep
<1>5. /\ NotBy(c, commands) = Reached(NotByStep(c), <<>>, commands)
      /\ NotBy(c, Append(commands, command))
           = Reached(NotByStep(c), <<>>, Append(commands, command))
  BY <1>1, NotByIsReached, Zenon
<1>6. QED
  BY <1>2, <1>3, <1>4, <1>5, Zenon

(***************************************************************************)
(* What a frontend knows of a room, and how it comes to know it            *)
(***************************************************************************)

\* c knows whether it draws in the room, and what.
KnowsRole(g, c, room) ==
  /\ g.screen = "room"
  /\ g.drawer = (c = room.currentDrawer)
  /\ g.word = IF c = room.currentDrawer THEN room.word ELSE NoWord

\* c has the room's drawing on its screen, unless it draws itself.
SeesCanvas(g, c, room) ==
  c # room.currentDrawer => NotBy(c, g.canvas) = NotBy(c, room.drawCommands)

\* No two players have had the same id in headers so far.
IdsDiffer == numConnections <= IdRange

\* All that a frontend must know of its room.
Informed(g, c, room) == KnowsRole(g, c, room) /\ (IdsDiffer => SeesCanvas(g, c, room))

\* A promotion tells a member everything: whatever came before it among the
\* canvases, SetDrawer is followed by one canvas at least.
LEMMA PromotionInforms ==
  ASSUME NEW room \in RoomType, NEW c \in Members(room), c \in ConnIds, NEW g \in GameType
  PROVE  Informed(Seen(c, g, PromoteDrawerPosts(room)[c]), c, room)
<1> DEFINE n == Len(room.clients)
           k == Position(room, c)
           posts == PromoteDrawerPosts(room)[c]
           role == SetDrawer(room, c)
           canvas == Canvas(room)
<1>1. k \in 1 .. n /\ n \in Nat
  <2>1. k \in 1 .. n
    BY PositionOfMember DEF RoomType
  <2>2. n \in Nat
    BY DEF RoomType, RoomRecords
  <2>3. QED
    BY <2>1, <2>2
<1>2. posts \in Seq(ServerMessage)
  BY PromotionPosts
<1>3. posts = [i \in 1 .. (n + 1) |-> IF i = k THEN role ELSE canvas]
  BY DEF PromoteDrawerPosts
<1>4. Len(posts) = n + 1
  <2> HIDE DEF posts, n
  <2>1. QED
    BY <1>1, <1>2, <1>3
<1>5. role \in ServerMessage /\ canvas \in ServerMessage
  BY RoomMessages
<1>6. ASSUME NEW a \in GameType
      PROVE  KnowsRole(OnPacket(c, a, role), c, room)
  BY <1>6 DEF OnPacket, OnSetDrawer, SetDrawer, KnowsRole, GameType
<1>7. ASSUME NEW a \in GameType, KnowsRole(a, c, room)
      PROVE  /\ KnowsRole(OnPacket(c, a, canvas), c, room)
             /\ OnPacket(c, a, canvas).canvas = room.drawCommands
  BY <1>7 DEF OnPacket, Canvas, KnowsRole, GameType
<1> HIDE DEF n, k, posts, role, canvas
<1>8. PICK h : IsRun(h, GameStep(c), g, posts) /\ Seen(c, g, posts) = h[Len(posts)]
  BY <1>2, ReachedByRun DEF Seen
<1>9. h[0] = g /\ \A i \in 1 .. n + 1 : h[i] = GameStep(c)[<<h[i - 1], posts[i]>>]
  BY <1>4, <1>8 DEF IsRun
<1> DEFINE S == {i \in 0 .. n + 1 :
                   /\ h[i] \in GameType
                   /\ i >= k => KnowsRole(h[i], c, room)
                   /\ i > k => h[i].canvas = room.drawCommands}
<1>10. 0 \in S
  BY <1>1, <1>9
<1>11. ASSUME NEW i \in 1 .. n + 1, i - 1 \in S
       PROVE  i \in S
  <2>1. h[i - 1] \in GameType /\ (i - 1 >= k => KnowsRole(h[i - 1], c, room))
    BY <1>11
  <2>2. posts[i] = IF i = k THEN role ELSE canvas
    BY <1>3
  <2>3. h[i] = OnPacket(c, h[i - 1], posts[i])
    <3>1. posts[i] \in ServerMessage
      BY <1>5, <2>2
    <3>2. h[i] = GameStep(c)[<<h[i - 1], posts[i]>>]
      BY <1>9
    <3>3. QED
      BY <2>1, <3>1, <3>2 DEF GameStep
  <2>4. h[i] \in GameType
    BY <1>5, <2>1, <2>2, <2>3, OnPacketType
  <2>5. CASE i = k
    <3>1. KnowsRole(h[i], c, room)
      BY <1>6, <2>1, <2>2, <2>3, <2>5
    <3>2. QED
      BY <1>1, <2>4, <2>5, <3>1
  <2>6. CASE i > k
    <3>1. i - 1 >= k /\ i # k
      BY <1>1, <2>6
    <3>2. KnowsRole(h[i], c, room) /\ h[i].canvas = room.drawCommands
      BY <1>7, <2>1, <2>2, <2>3, <3>1
    <3>3. QED
      BY <2>4, <3>2
  <2>7. CASE i < k
    <3>1. ~(i >= k) /\ ~(i > k)
      BY <1>1, <2>7
    <3>2. QED
      BY <2>4, <3>1
  <2>8. QED
    BY <1>1, <2>5, <2>6, <2>7
<1> HIDE DEF S
<1>12. 0 .. n + 1 \subseteq S
  BY <1>1, <1>10, <1>11, IntervalSet
<1>13. n + 1 \in S /\ n + 1 > k /\ n + 1 >= k
  BY <1>1, <1>12
<1>14. KnowsRole(h[n + 1], c, room) /\ h[n + 1].canvas = room.drawCommands
  BY <1>13 DEF S
<1>15. QED
  BY <1>4, <1>8, <1>14 DEF Informed, SeesCanvas, posts

\* So do the two answers to a player that joins.
LEMMA JoinInforms ==
  ASSUME NEW room \in RoomType, NEW c \in ConnIds, NEW g \in GameType
  PROVE  Informed(Seen(c, g, <<SetDrawer(room, c), Canvas(room)>>), c, room)
<1> DEFINE role == SetDrawer(room, c)
           canvas == Canvas(room)
           a == OnPacket(c, g, role)
<1>1. role \in ServerMessage /\ canvas \in ServerMessage
  BY RoomMessages
<1>2. KnowsRole(a, c, room)
  BY DEF OnPacket, OnSetDrawer, SetDrawer, KnowsRole, GameType
<1>3. a \in GameType
  BY <1>1, OnPacketType
<1> HIDE DEF a
<1>4. /\ KnowsRole(OnPacket(c, a, canvas), c, room)
      /\ OnPacket(c, a, canvas).canvas = room.drawCommands
  BY <1>2, <1>3 DEF OnPacket, Canvas, KnowsRole, GameType
<1>5. Seen(c, g, <<role, canvas>>) = OnPacket(c, a, canvas)
  BY <1>1, SeenTwo DEF a
<1> HIDE DEF role, canvas
<1>6. QED
  BY <1>4, <1>5 DEF Informed, SeesCanvas, role, canvas

\* The answer to a guess changes neither role nor canvas.
LEMMA AnswerInforms ==
  ASSUME NEW room, NEW c, NEW g \in GameType, Informed(g, c, room), NEW m,
         m.type \in {"CorrectGuess", "GuessPacket"}
  PROVE  Informed(OnPacket(c, g, m), c, room)
<1>1. /\ OnPacket(c, g, m).screen = g.screen /\ OnPacket(c, g, m).drawer = g.drawer
      /\ OnPacket(c, g, m).word = g.word /\ OnPacket(c, g, m).canvas = g.canvas
  <2>1. CASE m.type = "CorrectGuess"
    BY <2>1 DEF OnPacket, GameType
  <2>2. CASE m.type = "GuessPacket"
    BY <2>2 DEF OnPacket
  <2>3. QED
    BY <2>1, <2>2
<1>2. QED
  BY <1>1 DEF Informed, KnowsRole, SeesCanvas

\* A stroke that is passed on is added where the server adds it.
LEMMA StrokeInforms ==
  ASSUME NEW room \in RoomType, NEW c, NEW g \in GameType, Informed(g, c, room),
         NEW command \in Commands
  PROVE  Informed(OnPacket(c, g, Drawing(command)), c, AddDrawCommand(room, command))
<1> DEFINE more == AddDrawCommand(room, command)
           a == OnPacket(c, g, Drawing(command))
<1>1. /\ more.currentDrawer = room.currentDrawer /\ more.word = room.word
      /\ more.drawCommands = Append(room.drawCommands, command)
      /\ room.drawCommands \in Seq(Commands)
  BY DEF AddDrawCommand, RoomType, RoomRecords
<1>2. a = IF g.screen = "room" /\ ~g.drawer
          THEN [g EXCEPT !.canvas = Append(@, command)] ELSE g
  BY DEF OnPacket, Drawing
<1>3. a.screen = g.screen /\ a.drawer = g.drawer /\ a.word = g.word
  BY <1>2 DEF GameType
<1>4. KnowsRole(g, c, room)
  BY DEF Informed
<1>5. KnowsRole(a, c, more)
  BY <1>1, <1>3, <1>4 DEF KnowsRole
<1>6. ASSUME IdsDiffer, c # more.currentDrawer
      PROVE  NotBy(c, a.canvas) = NotBy(c, more.drawCommands)
  <2>1. g.screen = "room" /\ ~g.drawer
    BY <1>1, <1>4, <1>6 DEF KnowsRole
  <2>2. a.canvas = Append(g.canvas, command) /\ g.canvas \in Seq(Commands)
    BY <1>2, <2>1 DEF GameType
  <2>3. NotBy(c, g.canvas) = NotBy(c, room.drawCommands)
    BY <1>1, <1>6 DEF Informed, SeesCanvas
  <2>4. \A commands \in Seq(Commands) :
          NotBy(c, Append(commands, command)) =
            IF command = c THEN NotBy(c, commands) ELSE Append(NotBy(c, commands), command)
    BY NotByMore
  <2> HIDE DEF a, more
  <2>5. QED
    BY <1>1, <2>2, <2>3, <2>4, Zenon
<1>7. QED
  BY <1>5, <1>6 DEF Informed, SeesCanvas

\* A stroke of one's own is not missed.
LEMMA OwnStrokeInforms ==
  ASSUME NEW room \in RoomType, NEW c, NEW g, Informed(g, c, room),
         NEW command \in Commands, IdsDiffer => command = c
  PROVE  Informed(g, c, AddDrawCommand(room, command))
<1> DEFINE more == AddDrawCommand(room, command)
<1>1. /\ more.currentDrawer = room.currentDrawer /\ more.word = room.word
      /\ more.drawCommands = Append(room.drawCommands, command)
      /\ room.drawCommands \in Seq(Commands)
  BY DEF AddDrawCommand, RoomType, RoomRecords
<1>2. KnowsRole(g, c, more)
  BY <1>1 DEF Informed, KnowsRole
<1> HIDE DEF more
<1>3. ASSUME IdsDiffer, c # more.currentDrawer
      PROVE  NotBy(c, g.canvas) = NotBy(c, more.drawCommands)
  <2>1. NotBy(c, g.canvas) = NotBy(c, room.drawCommands)
    BY <1>1, <1>3 DEF Informed, SeesCanvas
  <2>2. NotBy(c, more.drawCommands) = NotBy(c, room.drawCommands)
    BY <1>1, <1>3, NotByMore
  <2>3. QED
    BY <2>1, <2>2
<1>4. QED
  BY <1>2, <1>3 DEF Informed, SeesCanvas, more

\* A clear is.
LEMMA ClearInforms ==
  ASSUME NEW room \in RoomType, NEW c, NEW g \in GameType, Informed(g, c, room)
  PROVE  Informed(OnPacket(c, g, Canvas(ClearCanvas(room))), c, ClearCanvas(room))
<1> DEFINE clear == ClearCanvas(room)
           a == OnPacket(c, g, Canvas(clear))
<1>1. clear.currentDrawer = room.currentDrawer /\ clear.word = room.word
  BY DEF ClearCanvas, RoomType, RoomRecords
<1>2. KnowsRole(g, c, room)
  BY DEF Informed
<1> HIDE DEF clear
<1>3. a = [g EXCEPT !.canvas = clear.drawCommands]
  BY <1>2 DEF OnPacket, Canvas, KnowsRole
<1>4. /\ a.screen = g.screen /\ a.drawer = g.drawer /\ a.word = g.word
      /\ a.canvas = clear.drawCommands
  BY <1>3 DEF GameType
<1> HIDE DEF a
<1>5. Informed(a, c, clear)
  BY <1>1, <1>2, <1>4 DEF Informed, KnowsRole, SeesCanvas
<1>6. QED
  BY <1>5 DEF a, clear

\* What a frontend knows of a room is about its drawer, word and canvas.
LEMMA SameRoomInforms ==
  ASSUME NEW room1, NEW room2, NEW c, NEW g, Informed(g, c, room1),
         room1.currentDrawer = room2.currentDrawer, room1.word = room2.word,
         room1.drawCommands = room2.drawCommands
  PROVE  Informed(g, c, room2)
BY DEF Informed, KnowsRole, SeesCanvas

\* Two frontends that differ only in what nobody asks of them: the canvas of
\* a drawer, for one.
Alike(g1, g2) ==
  /\ g1 \in GameType /\ g2 \in GameType
  /\ g1.screen = g2.screen /\ g1.drawer = g2.drawer /\ g1.word = g2.word
  /\ g1.drawer \/ g1.canvas = g2.canvas

\* Whatever they read, they stay so.
LEMMA StayAlike ==
  ASSUME NEW c \in ConnIds, NEW g1, NEW g2, Alike(g1, g2), NEW m \in ServerMessage
  PROVE  Alike(OnPacket(c, g1, m), OnPacket(c, g2, m))
<1>1. /\ g1 \in GameType /\ g2 \in GameType
      /\ g1.screen = g2.screen /\ g1.drawer = g2.drawer /\ g1.word = g2.word
      /\ g1.drawer \/ g1.canvas = g2.canvas
  BY DEF Alike
<1>2. OnPacket(c, g1, m) \in GameType /\ OnPacket(c, g2, m) \in GameType
  BY <1>1, OnPacketType
<1>3. m.type \in {"SetClientId", "SetRoomId", "SetDrawer", "CanvasPacket", "DrawCommand",
                  "CorrectGuess", "GuessPacket"}
  BY DEF ServerMessage
<1>4. CASE m.type = "SetClientId"
  BY <1>1, <1>2, <1>4 DEF Alike, OnPacket, GameType
<1>5. CASE m.type = "SetRoomId"
  BY <1>1, <1>2, <1>5 DEF Alike, OnPacket, GameType
<1>6. CASE m.type = "SetDrawer"
  BY <1>1, <1>2, <1>6 DEF Alike, OnPacket, OnSetDrawer, GameType
<1>7. CASE m.type = "CanvasPacket"
  BY <1>1, <1>2, <1>7 DEF Alike, OnPacket, GameType
<1>8. CASE m.type = "DrawCommand"
  BY <1>1, <1>2, <1>8 DEF Alike, OnPacket, GameType
<1>9. CASE m.type = "CorrectGuess"
  BY <1>1, <1>2, <1>9 DEF Alike, OnPacket, GameType
<1>10. CASE m.type = "GuessPacket"
  BY <1>1, <1>2, <1>10 DEF Alike, OnPacket
<1>11. QED
  BY <1>3, <1>4, <1>5, <1>6, <1>7, <1>8, <1>9, <1>10

\* Nor does a whole queue tell them apart.
LEMMA SeenAlike ==
  ASSUME NEW c \in ConnIds, NEW g1, NEW g2, Alike(g1, g2), NEW s \in Seq(ServerMessage)
  PROVE  Alike(Seen(c, g1, s), Seen(c, g2, s))
<1> DEFINE R == {p \in GameType \X GameType : Alike(p[1], p[2])}
<1>1. \A a1, a2 : <<a1, a2>> \in R <=> Alike(a1, a2)
  BY DEF Alike
<1>2. ASSUME NEW a1, NEW a2, NEW i \in 1 .. Len(s), Alike(a1, a2)
      PROVE  Alike(GameStep(c)[<<a1, s[i]>>], GameStep(c)[<<a2, s[i]>>])
  <2>1. s[i] \in ServerMessage /\ a1 \in GameType /\ a2 \in GameType
    BY <1>2 DEF Alike
  <2>2. /\ GameStep(c)[<<a1, s[i]>>] = OnPacket(c, a1, s[i])
        /\ GameStep(c)[<<a2, s[i]>>] = OnPacket(c, a2, s[i])
    BY <2>1 DEF GameStep
  <2>3. QED
    BY <1>2, <2>1, <2>2, StayAlike
<1> HIDE DEF R
<1>3. <<Seen(c, g1, s), Seen(c, g2, s)>> \in R
  BY <1>1, <1>2, ReachedRelated DEF Seen
<1>4. QED
  BY <1>1, <1>3

\* They know a room equally well.
LEMMA AlikeInforms ==
  ASSUME NEW room, NEW c, NEW g1, NEW g2, Alike(g1, g2), Informed(g1, c, room)
  PROVE  Informed(g2, c, room)
<1>1. KnowsRole(g1, c, room) /\ KnowsRole(g2, c, room)
  BY DEF Alike, Informed, KnowsRole
<1>2. ASSUME c # room.currentDrawer PROVE g1.canvas = g2.canvas
  BY <1>1, <1>2 DEF Alike, KnowsRole
<1>3. QED
  BY <1>1, <1>2 DEF Informed, SeesCanvas

\* When a client leaves, those that stay are told of a new drawer, and of a
\* new round, if there is one.
LEMMA LeavingInforms ==
  ASSUME NEW room \in RoomType, Sound(room), NEW id \in Members(room),
         ~LeavingOverruns(room, id), NEW w \in Words,
         NEW c \in Members(room) \ {id}, c \in ConnIds,
         NEW g \in GameType, Informed(g, c, room)
  PROVE  Informed(Seen(c, g, RemoveClientPosts(room, id, w)[c]), c, RemoveClient(room, id, w))
<1> DEFINE left == AfterLeaving(room, id)
           done == RemoveClient(room, id, w)
           first == IF DrawerLeaves(room, id) THEN PromoteDrawerPosts(left)[c] ELSE <<>>
           then == IF LeavingEndsRound(room, id) THEN PromoteDrawerPosts(done)[c] ELSE <<>>
           a == Seen(c, g, first)
<1>1. left \in RoomType /\ Members(left) = Members(room) \ {id}
  BY AfterLeavingFacts DEF RoomType
<1>2. done \in RoomType /\ Members(done) = Members(room) \ {id}
  BY RemoveClientFacts DEF RoomType
<1>3. RemoveClientPosts(room, id, w)[c] = first \o then
  BY DEF RemoveClientPosts
<1>4. done = IF LeavingEndsRound(room, id) THEN NewRound(left, w) ELSE left
  BY DEF RemoveClient
<1>5. first \in Seq(ServerMessage)
  <2>1. PromoteDrawerPosts(left)[c] \in Seq(ServerMessage)
    BY <1>1, PromotionPosts
  <2>2. QED
    BY <2>1
<1>6. then \in Seq(ServerMessage)
  <2>1. PromoteDrawerPosts(done)[c] \in Seq(ServerMessage)
    BY <1>2, PromotionPosts
  <2>2. QED
    BY <2>1
<1>7. ~DrawerLeaves(room, id) =>
        /\ left.currentDrawer = room.currentDrawer /\ left.word = room.word
        /\ left.drawCommands = room.drawCommands
  <2> SUFFICES ASSUME ~DrawerLeaves(room, id)
               PROVE  /\ left.currentDrawer = room.currentDrawer /\ left.word = room.word
                      /\ left.drawCommands = room.drawCommands
    OBVIOUS
  <2>1. Len(room.clients) > 1
    <3> DEFINE s == room.clients
    <3>1. s \in Seq(ConnIds) /\ DOMAIN s = 1 .. Len(s) /\ Len(s) \in Nat
      BY DEF RoomType, RoomRecords
    <3>2. \A d \in Members(room) : \E i \in 1 .. Len(s) : s[i] = d
      BY <3>1 DEF Members, ToSet
    <3> HIDE DEF s
    <3>3. PICK i \in 1 .. Len(s), j \in 1 .. Len(s) : s[i] = c /\ s[j] = id
      BY <3>2
    <3>4. i # j
      BY <3>3
    <3>5. Len(s) > 1
      BY <3>1, <3>3, <3>4
    <3>6. QED
      BY <3>5 DEF s
  <2>2. id # room.currentDrawer
    BY <2>1 DEF DrawerLeaves
  <2>3. left = Erase(room, id)
    BY <2>2 DEF AfterLeaving
  <2>4. QED
    BY <2>3 DEF Erase, RoomType, RoomRecords
<1> HIDE DEF left, done, first, then, a
<1>8. Informed(a, c, left)
  <2>1. CASE DrawerLeaves(room, id)
    <3>1. first = PromoteDrawerPosts(left)[c]
      BY <2>1 DEF first
    <3>2. Informed(Seen(c, g, PromoteDrawerPosts(left)[c]), c, left)
      BY <1>1, PromotionInforms
    <3>3. QED
      BY <3>1, <3>2 DEF a
  <2>2. CASE ~DrawerLeaves(room, id)
    <3>1. first = <<>>
      BY <2>2 DEF first
    <3>2. a = g
      BY <1>5, <3>1, SeenFacts DEF a
    <3>3. QED
      BY <1>7, <2>2, <3>2, SameRoomInforms
  <2>3. QED
    BY <2>1, <2>2
<1>9. a \in GameType
  BY <1>5, SeenFacts DEF a
<1>10. Seen(c, g, first \o then) = Seen(c, a, then)
  BY <1>5, <1>6, SeenConcat DEF a
<1>11. Informed(Seen(c, a, then), c, done)
  <2>1. CASE LeavingEndsRound(room, id)
    <3>1. then = PromoteDrawerPosts(done)[c]
      BY <2>1 DEF then
    <3>2. Informed(Seen(c, a, PromoteDrawerPosts(done)[c]), c, done)
      BY <1>2, <1>9, PromotionInforms
    <3>3. QED
      BY <3>1, <3>2
  <2>2. CASE ~LeavingEndsRound(room, id)
    <3>1. then = <<>> /\ done = left
      BY <1>4, <2>2 DEF then
    <3>2. Seen(c, a, then) = a
      BY <1>6, <1>9, <3>1, SeenFacts
    <3>3. QED
      BY <1>8, <3>1, <3>2
  <2>3. QED
    BY <2>1, <2>2
<1>12. QED
  BY <1>3, <1>10, <1>11 DEF done

\* When a guess is judged, everybody is told, and of the new round if the
\* guess ended one.
LEMMA GuessInforms ==
  ASSUME NEW room \in RoomType, Sound(room), NEW id \in Members(room),
         id \in 0 .. (IdRange - 1), NEW guess \in Guesses, NEW w \in Words,
         ~GuessOverruns(room, guess, id),
         NEW c \in Members(room), c \in ConnIds,
         NEW g \in GameType, Informed(g, c, room)
  PROVE  Informed(Seen(c, g, CheckWordPosts(room, guess, id, w)[c]), c,
                  CheckWord(room, guess, id, w))
<1> DEFINE judged == Judge(room, guess, id)
           done == CheckWord(room, guess, id, w)
           answer == IF guess = room.word THEN CorrectGuess(id) ELSE WrongGuess(id, guess)
           then == IF GuessEndsRound(room, guess, id) THEN PromoteDrawerPosts(done)[c] ELSE <<>>
           a == OnPacket(c, g, answer)
<1>1. done \in RoomType /\ Members(done) = Members(room)
  BY CheckWordFacts DEF RoomType
<1>2. CheckWordPosts(room, guess, id, w)[c] = <<answer>> \o then
  BY DEF CheckWordPosts
<1>3. done = IF GuessEndsRound(room, guess, id) THEN NewRound(judged, w) ELSE judged
  BY DEF CheckWord
<1>4. answer \in ServerMessage /\ answer.type \in {"CorrectGuess", "GuessPacket"}
  BY DEF CorrectGuess, WrongGuess, ServerMessage
<1>5. then \in Seq(ServerMessage)
  <2>1. PromoteDrawerPosts(done)[c] \in Seq(ServerMessage)
    BY <1>1, PromotionPosts
  <2>2. QED
    BY <2>1
<1>6. /\ judged.currentDrawer = room.currentDrawer /\ judged.word = room.word
      /\ judged.drawCommands = room.drawCommands
  BY DEF Judge, RoomType, RoomRecords
<1> HIDE DEF judged, done, answer, then
<1>7. Informed(a, c, room)
  BY <1>4, AnswerInforms
<1>8. Informed(a, c, judged)
  BY <1>6, <1>7, SameRoomInforms
<1>9. a \in GameType
  BY <1>4, OnPacketType
<1>10. <<answer>> \in Seq(ServerMessage)
  BY <1>4
<1>11. Seen(c, g, <<answer>> \o then) = Seen(c, a, then)
  <2>1. Seen(c, g, <<answer>>) = a
    BY <1>4, SeenOne
  <2>2. Seen(c, g, <<answer>> \o then) = Seen(c, Seen(c, g, <<answer>>), then)
    BY <1>5, <1>10, SeenConcat, Zenon
  <2>3. QED
    BY <2>1, <2>2
<1> HIDE DEF a
<1>12. Informed(Seen(c, a, then), c, done)
  <2>1. CASE GuessEndsRound(room, guess, id)
    <3>1. then = PromoteDrawerPosts(done)[c]
      BY <2>1 DEF then
    <3>2. Informed(Seen(c, a, PromoteDrawerPosts(done)[c]), c, done)
      BY <1>1, <1>9, PromotionInforms
    <3>3. QED
      BY <3>1, <3>2
  <2>2. CASE ~GuessEndsRound(room, guess, id)
    <3>1. then = <<>> /\ done = judged
      BY <1>3, <2>2 DEF then
    <3>2. Seen(c, a, then) = a
      BY <1>5, <1>9, <3>1, SeenFacts
    <3>3. QED
      BY <1>8, <3>1, <3>2
  <2>3. QED
    BY <2>1, <2>2
<1>13. QED
  BY <1>2, <1>11, <1>12 DEF done

(***************************************************************************)
(* The invariant                                                           *)
(***************************************************************************)

\* The frontend of c, once it has read what was posted to it.
Now(c) == Seen(c, game[c], outgoing[c])

\* Whoever sits in a room that was never moved knows what it must know.
AllInformed ==
  \A i \in DOMAIN rooms : NeverMoved(i) =>
    \A c \in Members(rooms[i]) : Informed(Now(c), c, rooms[i])

\* After a step they know what they must, as far as ids differed before it.
StayInformed ==
  \A i \in DOMAIN rooms' : i > roomCapacity' \div 2 =>
    \A c \in Members(rooms'[i]) : Informed(Now(c)', c, rooms'[i])

\* A stroke is in the pen of a player that has connected, and whose id is in
\* its header.
Signed(m) ==
  m.type = "DrawCommand" =>
    /\ m.command \in Nat /\ m.command < numConnections
    /\ m.client_id = WireId(m.command)

\* All the strokes that are still to be handled are.
StrokesSigned == \A i \in DOMAIN incoming : Signed(incoming[i])

\* Everybody who is connected has a frontend, and a queue.
LEMMA NowFacts ==
  ASSUME IInv, GameTypeOK, NEW c \in ConnIds
  PROVE  /\ game[c] \in GameType /\ outgoing[c] \in Seq(ServerMessage)
         /\ Now(c) \in GameType /\ Now(c) = Settled(c)
<1>1. game[c] \in GameType /\ outgoing[c] \in Seq(ServerMessage)
  BY DEF GameTypeOK, IInv, TypeOK
<1>2. QED
  BY <1>1, SeenFacts, SettledIsSeen DEF Now

\* The members of a game room are connections.
LEMMA PlayersAreConnections ==
  ASSUME IInv, NEW i \in DOMAIN rooms
  PROVE  rooms[i] \in RoomType /\ Sound(rooms[i]) /\ Members(rooms[i]) \subseteq ConnIds
<1>1. rooms[i] \in RoomType /\ Sound(rooms[i])
  BY DEF IInv, TypeOK, SoundRooms
<1>2. QED
  BY <1>1, MembersOfClients DEF RoomType

\* What is posted to c is read last.
LEMMA PostedIsSeen ==
  ASSUME IInv, GameTypeOK, game' = game, NEW c \in ConnIds, NEW t \in Seq(ServerMessage),
         outgoing'[c] = outgoing[c] \o t
  PROVE  Now(c)' = Seen(c, Now(c), t)
BY NowFacts, SeenConcat DEF Now

\* Nothing posted, nothing learned.
LEMMA NothingPosted ==
  ASSUME game' = game, NEW c, outgoing'[c] = outgoing[c]
  PROVE  Now(c)' = Now(c)
BY DEF Now

(***************************************************************************)
(* The server's steps                                                      *)
(***************************************************************************)

\* A step that neither changes a game room nor posts to its members.
LEMMA QuietInforms ==
  ASSUME AllInformed, UNCHANGED <<game, rooms, roomCapacity>>,
         \A i \in DOMAIN rooms : \A c \in Members(rooms[i]) : outgoing'[c] = outgoing[c]
  PROVE  StayInformed
<1> SUFFICES ASSUME NEW i \in DOMAIN rooms, NeverMoved(i), NEW c \in Members(rooms[i])
             PROVE  Informed(Now(c)', c, rooms[i])
  BY DEF StayInformed, NeverMoved
<1>1. Now(c)' = Now(c)
  BY NothingPosted
<1>2. QED
  BY <1>1 DEF AllInformed

\* A step that changes one game room and posts to its members.
LEMMA RoomInforms ==
  ASSUME IInv, GameTypeOK, AllInformed, UNCHANGED <<game, roomCapacity>>,
         NEW i \in DOMAIN rooms, NEW room \in RoomType,
         rooms' = [rooms EXCEPT ![i] = room],
         Members(room) \subseteq Members(rooms[i]),
         NEW E, E \subseteq Members(rooms[i]), NEW posts \in [E -> Seq(ServerMessage)],
         \A c \in ConnIds : \/ c \in Members(rooms[i]) /\ c \notin Members(room)
                            \/ outgoing'[c] = Post(outgoing, posts)[c],
         \A c \in Members(room), g \in GameType :
           Informed(g, c, rooms[i]) =>
             Informed(IF c \in E THEN Seen(c, g, posts[c]) ELSE g, c, room)
  PROVE  StayInformed
<1>1. /\ rooms \in Seq(RoomType) /\ DOMAIN rooms = 1 .. Len(rooms)
      /\ outgoing \in [ConnIds -> Seq(ServerMessage)]
  BY DEF IInv, TypeOK
<1>2. /\ DOMAIN rooms' = DOMAIN rooms
      /\ \A j \in DOMAIN rooms : rooms'[j] = IF j = i THEN room ELSE rooms[j]
  BY <1>1
<1> SUFFICES ASSUME NEW j \in DOMAIN rooms, NeverMoved(j), NEW c \in Members(rooms'[j])
             PROVE  Informed(Now(c)', c, rooms'[j])
  BY <1>2 DEF StayInformed, NeverMoved
<1>3. c \in Members(rooms[j]) /\ c \in ConnIds
  <2>1. c \in Members(rooms[j])
    BY <1>2
  <2>2. QED
    BY <2>1, PlayersAreConnections
<1>4. Informed(Now(c), c, rooms[j]) /\ Now(c) \in GameType
  BY <1>3, NowFacts DEF AllInformed
<1>5. CASE j = i
  <2>1. c \in Members(room) /\ rooms'[j] = room
    BY <1>2, <1>5
  <2>2. outgoing'[c] = IF c \in E THEN outgoing[c] \o posts[c] ELSE outgoing[c]
    BY <1>1, <1>3, <2>1 DEF Post
  <2>3. Now(c)' = IF c \in E THEN Seen(c, Now(c), posts[c]) ELSE Now(c)
    BY <1>3, <2>2, PostedIsSeen, NothingPosted
  <2>4. QED
    BY <1>4, <1>5, <2>1, <2>3
<1>6. CASE j # i
  <2>1. c \notin Members(rooms[i])
    BY <1>3, <1>6 DEF IInv, Homes
  <2>2. outgoing'[c] = outgoing[c]
    BY <1>1, <1>3, <2>1 DEF Post
  <2>3. QED
    BY <1>2, <1>4, <1>6, <2>2, NothingPosted
<1>7. QED
  BY <1>5, <1>6

\* A newcomer is in no game room.
LEMMA AcceptInforms ==
  ASSUME IInv, AllInformed, AcceptConnection, UNCHANGED game
  PROVE  StayInformed
<1>1. ASSUME NEW i \in DOMAIN rooms, NEW c \in Members(rooms[i])
      PROVE  outgoing'[c] = outgoing[c]
  <2>0. c \in open
    BY MembersAreOpen
  <2>1. c \in 0 .. (numConnections - 1) /\ numConnections \in Nat
    BY <2>0, BoundsAssumption DEF IInv, TypeOK
  <2>2. c # numConnections
    BY <2>1
  <2>3. c \in ConnIds
    BY PlayersAreConnections
  <2>4. QED
    BY <2>2, <2>3 DEF AcceptConnection, IInv, TypeOK
<1>2. UNCHANGED <<rooms, roomCapacity>>
  BY DEF AcceptConnection
<1>3. QED
  BY <1>1, <1>2, QuietInforms

\* Whoever leaves, those that stay in the room are told what changes.
LEMMA DisconnectInforms ==
  ASSUME IInv, GameTypeOK, AllInformed, NEW c \in ConnIds, Disconnect(c), UNCHANGED game
  PROVE  StayInformed
<1>1. /\ outgoing \in [ConnIds -> Seq(ServerMessage)] /\ roomCapacity' = roomCapacity
      /\ waitingRoom \in RoomType /\ Sound(waitingRoom)
  BY DEF IInv, TypeOK, SoundRooms, Disconnect
<1>2. ASSUME c \in Members(waitingRoom), ~LeavingOverruns(waitingRoom, c), NEW w \in Words,
             outgoing' = [Post(outgoing, RemoveClientPosts(waitingRoom, c, w)) EXCEPT ![c] = <<>>],
             UNCHANGED rooms
      PROVE  StayInformed
  <2>1. RemoveClientPosts(waitingRoom, c, w) \in [Members(waitingRoom) \ {c} -> Seq(ServerMessage)]
    BY <1>1, <1>2, LeavingPosts
  <2>2. ASSUME NEW i \in DOMAIN rooms, NEW d \in Members(rooms[i])
        PROVE  outgoing'[d] = outgoing[d]
    <3>1. d \notin Members(waitingRoom) /\ d # c
      BY <1>2 DEF IInv, Homes
    <3>2. d \in ConnIds
      BY PlayersAreConnections
    <3>3. QED
      BY <1>1, <1>2, <2>1, <3>1, <3>2 DEF Post
  <2>3. QED
    BY <1>1, <1>2, <2>2, QuietInforms
<1>3. ASSUME NEW i \in DOMAIN rooms, c \in Members(rooms[i]), ~LeavingOverruns(rooms[i], c),
             NEW w \in Words, rooms' = [rooms EXCEPT ![i] = RemoveClient(@, c, w)],
             outgoing' = [Post(outgoing, RemoveClientPosts(rooms[i], c, w)) EXCEPT ![c] = <<>>]
      PROVE  StayInformed
  <2> DEFINE room == RemoveClient(rooms[i], c, w)
             posts == RemoveClientPosts(rooms[i], c, w)
             E == Members(rooms[i]) \ {c}
  <2>1. rooms[i] \in RoomType /\ Sound(rooms[i]) /\ Members(rooms[i]) \subseteq ConnIds
    BY PlayersAreConnections
  <2>2. room \in RoomType /\ Members(room) = E
    BY <1>3, <2>1, RemoveClientFacts DEF RoomType
  <2>3. posts \in [E -> Seq(ServerMessage)]
    BY <1>3, <2>1, LeavingPosts
  <2>4. rooms' = [rooms EXCEPT ![i] = room]
    BY <1>3
  <2>5. ASSUME NEW d \in Members(room), NEW g \in GameType, Informed(g, d, rooms[i])
        PROVE  Informed(IF d \in E THEN Seen(d, g, posts[d]) ELSE g, d, room)
    <3>1. d \in E /\ d \in ConnIds
      BY <2>1, <2>2
    <3>2. Informed(Seen(d, g, posts[d]), d, room)
      BY <1>3, <2>1, <2>5, <3>1, LeavingInforms
    <3> HIDE DEF room, posts, E
    <3>3. QED
      BY <3>1, <3>2
  <2>6. \A d \in ConnIds : \/ d \in Members(rooms[i]) /\ d \notin Members(room)
                           \/ outgoing'[d] = Post(outgoing, posts)[d]
    <3>1. DOMAIN Post(outgoing, posts) = ConnIds
      BY <1>1 DEF Post
    <3> HIDE DEF room, posts
    <3>2. outgoing' = [Post(outgoing, posts) EXCEPT ![c] = <<>>]
      BY <1>3 DEF posts
    <3>3. QED
      BY <1>3, <2>2, <3>1, <3>2
  <2> HIDE DEF room, posts
  <2>7. QED
    BY <1>1, <2>2, <2>3, <2>4, <2>5, <2>6, RoomInforms
<1>4. QED
  BY <1>2, <1>3 DEF Disconnect

\* The client that joins is told the room it finds; the others keep theirs.
LEMMA JoiningInforms ==
  ASSUME IInv, GameTypeOK, AllInformed, FrontIs("JoinRoom"), RoomExists(Head(incoming).room),
         IsFrontOfWaitingRoom(Head(incoming).client_id),
         JoinFrontClient(Head(incoming)), UNCHANGED game
  PROVE  StayInformed
<1> DEFINE m == Head(incoming)
           id == m.client_id
           i == m.room + 1
           joined == AddClient(rooms[i], id)
           answers == <<SetDrawer(joined, id), Canvas(joined)>>
<1>1. m \in PlayerMessage /\ m.type = "JoinRoom" /\ m.room \in Nat
  BY TakingFront, PlayerMessageFields, WidthsAssumption DEF IInv
<1>2. /\ i \in DOMAIN rooms /\ GameRoom(m.room) = rooms[i]
      /\ rooms[i] \in RoomType /\ Sound(rooms[i])
  BY <1>1, GameRoomFacts
<1>3. waitingRoom \in RoomType
  BY DEF IInv, TypeOK
<1>4. id \in Members(waitingRoom) /\ id \in ConnIds
  BY <1>3, MembersOfClients DEF IsFrontOfWaitingRoom, RoomType
<1>5. \A j \in DOMAIN rooms : id \notin Members(rooms[j])
  BY <1>4 DEF IInv, Homes
<1>6. /\ joined \in RoomType /\ Members(joined) = Members(rooms[i]) \cup {id}
  BY <1>2, <1>4, <1>5, AddClientFacts DEF RoomType
<1>7. /\ rooms' = [rooms EXCEPT ![i] = joined] /\ roomCapacity' = roomCapacity
      /\ outgoing' = [outgoing EXCEPT ![id] = @ \o answers]
  BY <1>2 DEF JoinFrontClient
<1>8. Members(rooms[i]) # {} =>
        /\ joined.currentDrawer = rooms[i].currentDrawer /\ joined.word = rooms[i].word
        /\ joined.drawCommands = rooms[i].drawCommands
  <2>1. Members(rooms[i]) # {} => rooms[i].clients # <<>>
    BY <1>2, MembersOfClients DEF RoomType
  <2>2. QED
    BY <1>2, <2>1 DEF AddClient, RoomType, RoomRecords
<1>9. answers \in Seq(ServerMessage)
  BY <1>6, RoomMessages
<1>10. \A g \in GameType : Informed(Seen(id, g, answers), id, joined)
  BY <1>4, <1>6, JoinInforms
<1>11. rooms \in Seq(RoomType) /\ outgoing \in [ConnIds -> Seq(ServerMessage)]
  BY DEF IInv, TypeOK
<1> HIDE DEF m, id, i, joined, answers
<1>12. /\ DOMAIN rooms' = DOMAIN rooms
       /\ \A j \in DOMAIN rooms : rooms'[j] = IF j = i THEN joined ELSE rooms[j]
  BY <1>7, <1>11
<1> SUFFICES ASSUME NEW j \in DOMAIN rooms, NeverMoved(j), NEW c \in Members(rooms'[j])
             PROVE  Informed(Now(c)', c, rooms'[j])
  BY <1>7, <1>12 DEF StayInformed, NeverMoved
<1>13. CASE c = id
  <2>1. j = i /\ rooms'[j] = joined
    BY <1>5, <1>12, <1>13
  <2>2. outgoing'[c] = outgoing[c] \o answers
    BY <1>4, <1>7, <1>11, <1>13
  <2>3. Now(c)' = Seen(c, Now(c), answers)
    BY <1>4, <1>9, <1>13, <2>2, PostedIsSeen
  <2>4. Now(c) \in GameType
    BY <1>4, <1>13, NowFacts
  <2>5. QED
    BY <1>10, <1>13, <2>1, <2>3, <2>4
<1>14. CASE c # id
  <2>1. c \in Members(rooms[j])
    BY <1>6, <1>12, <1>14
  <2>2. Informed(Now(c), c, rooms[j])
    BY <2>1 DEF AllInformed
  <2>3. c \in ConnIds
    BY <2>1, PlayersAreConnections
  <2>4. Now(c)' = Now(c)
    BY <1>7, <1>11, <1>14, <2>3, NothingPosted
  <2>5. CASE j = i
    <3>1. rooms'[j] = joined /\ Members(rooms[i]) # {}
      BY <1>12, <2>1, <2>5
    <3>2. QED
      BY <1>8, <2>2, <2>4, <2>5, <3>1, SameRoomInforms
  <2>6. CASE j # i
    BY <1>12, <2>2, <2>4, <2>6
  <2>7. QED
    BY <2>5, <2>6
<1>15. QED
  BY <1>13, <1>14

\* A new room has nobody in it; a growth leaves no other room unmoved.
LEMMA CreatingInforms ==
  ASSUME IInv, AllInformed, HandleCreateRoom, UNCHANGED game
  PROVE  StayInformed
<1> DEFINE n == Len(rooms)
           id == Head(incoming).client_id
           reply == SetRoomId(Len(rooms) % RoomRange)
<1>1. /\ rooms \in Seq(RoomType) /\ n \in Nat /\ DOMAIN rooms = 1 .. n
      /\ roomCapacity \in Nat /\ n <= roomCapacity
      /\ outgoing \in [ConnIds -> Seq(ServerMessage)]
  BY DEF IInv, TypeOK
<1>2. /\ Grow
      /\ outgoing' = IF id \in Members(waitingRoom)
                     THEN [outgoing EXCEPT ![id] = Append(@, reply)] ELSE outgoing
  BY DEF HandleCreateRoom
<1> HIDE DEF id, reply
<1>3. ASSUME NEW i \in DOMAIN rooms, NEW c \in Members(rooms[i])
      PROVE  outgoing'[c] = outgoing[c]
  <2>1. c \notin Members(waitingRoom) /\ c \in ConnIds
    BY PlayersAreConnections DEF IInv, Homes
  <2>2. QED
    BY <1>1, <1>2, <2>1
<1>4. PICK w \in Words, kept \in Seq(RoomType) :
        /\ Len(kept) = n
        /\ rooms' = Append(kept, EmptyRoom(w))
        /\ \/ n = roomCapacity /\ roomCapacity' = IF n = 0 THEN 1 ELSE 2 * n
           \/ roomCapacity' = roomCapacity /\ kept = rooms
  <2>1. CASE n = roomCapacity
    <3> DEFINE moved == [i \in DOMAIN rooms |-> Relocated(rooms[i])]
    <3>1. ASSUME NEW i \in 1 .. n PROVE Relocated(rooms[i]) \in RoomType
      <4>1. rooms[i] \in RoomType /\ Sound(rooms[i])
        BY <1>1, PlayersAreConnections
      <4>2. QED
        BY <4>1, RelocatedFacts DEF RoomType
    <3>2. moved \in [1 .. n -> RoomType]
      BY <1>1, <3>1
    <3>3. moved \in Seq(RoomType) /\ Len(moved) = n
      BY <1>1, <3>2, SeqDef
    <3>4. PICK w \in Words : rooms' = Append(moved, EmptyRoom(w))
      BY <1>2, <2>1 DEF Grow
    <3>5. roomCapacity' = IF n = 0 THEN 1 ELSE 2 * n
      BY <1>2, <2>1 DEF Grow
    <3> HIDE DEF moved
    <3>6. QED
      BY <2>1, <3>3, <3>4, <3>5
  <2>2. CASE n # roomCapacity
    BY <1>1, <1>2, <2>2 DEF Grow
  <2>3. QED
    BY <2>1, <2>2
<1>5. EmptyRoom(w) \in RoomType /\ Members(EmptyRoom(w)) = {}
  BY EmptyRoomFacts DEF RoomType
<1> HIDE DEF n
<1>6. /\ Len(rooms') = n + 1 /\ DOMAIN rooms' = 1 .. (n + 1)
      /\ \A i \in 1 .. n : rooms'[i] = kept[i]
      /\ rooms'[n + 1] = EmptyRoom(w)
  BY <1>1, <1>4, <1>5, AppendProperties
<1> SUFFICES ASSUME NEW i \in 1 .. (n + 1), i > roomCapacity' \div 2, NEW c \in Members(rooms'[i])
             PROVE  Informed(Now(c)', c, rooms'[i])
  BY <1>6 DEF StayInformed, NeverMoved
<1>7. i \in 1 .. n
  BY <1>1, <1>5, <1>6
<1>8. ~(n = roomCapacity /\ roomCapacity' = IF n = 0 THEN 1 ELSE 2 * n)
  BY <1>1, <1>7
<1>9. roomCapacity' = roomCapacity /\ rooms'[i] = rooms[i]
  BY <1>4, <1>6, <1>7, <1>8
<1>10. NeverMoved(i) /\ c \in Members(rooms[i])
  BY <1>1, <1>7, <1>9 DEF NeverMoved
<1>11. Informed(Now(c), c, rooms[i])
  BY <1>1, <1>7, <1>10 DEF AllInformed
<1>12. Now(c)' = Now(c)
  BY <1>1, <1>3, <1>7, <1>10, NothingPosted
<1>13. QED
  BY <1>9, <1>11, <1>12

\* Everybody gets the stroke but the player that drew it.
LEMMA DrawingInforms ==
  ASSUME IInv, GameTypeOK, AllInformed, StrokesSigned, HandleDrawCommand, UNCHANGED game
  PROVE  StayInformed
<1> DEFINE m == Head(incoming)
           i == m.room + 1
           old == rooms[i]
           room == AddDrawCommand(old, m.command)
           E == Members(old) \ {m.client_id}
           posts == BroadcastExcept(old, Drawing(m.command), m.client_id)
<1>1. FrontIs("DrawCommand")
  BY DEF HandleDrawCommand, Handling
<1>2. m.room \in Nat /\ m.command \in Commands
  BY <1>1, TakingFront, PlayerMessageFields, WidthsAssumption DEF IInv
<1>3. CASE DropMessage
  BY <1>3, QuietInforms DEF DropMessage
<1>4. CASE /\ RoomExists(m.room)
           /\ rooms' = [rooms EXCEPT ![m.room + 1] = AddDrawCommand(@, m.command)]
           /\ outgoing' = Post(outgoing, BroadcastExcept(GameRoom(m.room),
                                           Drawing(m.command), m.client_id))
           /\ UNCHANGED <<waitingRoom, roomCapacity, serverState>>
  <2>1. i \in DOMAIN rooms /\ old \in RoomType /\ GameRoom(m.room) = old
    BY <1>2, <1>4, GameRoomFacts
  <2>2. room \in RoomType /\ room.clients = old.clients
    BY <1>2, <2>1, AddDrawCommandFacts DEF RoomType
  <2>3. Members(room) = Members(old) /\ Members(old) \subseteq ConnIds
    BY <2>1, <2>2, PlayersAreConnections DEF Members
  <2>4. Drawing(m.command) \in ServerMessage
    BY <1>2 DEF Drawing, ServerMessage
  <2>5. <<Drawing(m.command)>> \in Seq(ServerMessage)
    BY <2>4
  <2>6. posts = [c \in E |-> <<Drawing(m.command)>>]
    BY DEF BroadcastExcept
  <2>7. IdsDiffer => \A c \in Members(old) : c = m.client_id => m.command = c
    <3> SUFFICES ASSUME IdsDiffer, m.client_id \in Members(old) PROVE m.command = m.client_id
      OBVIOUS
    <3>1. m.command \in Nat /\ m.command < numConnections /\ m.client_id = WireId(m.command)
      <4>1. 1 \in DOMAIN incoming /\ m = incoming[1] /\ m.type = "DrawCommand"
        BY <1>1 DEF FrontIs, IInv, TypeOK
      <4>2. QED
        BY <4>1 DEF StrokesSigned, Signed
    <3>2. m.command \in Nat /\ m.command < IdRange
      <4>1. numConnections \in Nat /\ numConnections <= IdRange
        BY BoundsAssumption DEF IdsDiffer, IInv, TypeOK
      <4>2. QED
        BY <3>1, <4>1, WidthsAssumption
    <3>3. QED
      BY <3>1, <3>2, WidthsAssumption DEF WireId
  <2>8. ASSUME NEW c \in Members(room), NEW g \in GameType, Informed(g, c, old)
        PROVE  Informed(IF c \in E THEN Seen(c, g, posts[c]) ELSE g, c, room)
    <3>1. c \in ConnIds /\ c \in Members(old)
      BY <2>3
    <3>2. CASE c \in E
      <4>1. Seen(c, g, posts[c]) = OnPacket(c, g, Drawing(m.command))
        BY <2>4, <2>6, <3>1, <3>2, SeenOne
      <4>2. Informed(OnPacket(c, g, Drawing(m.command)), c, room)
        BY <1>2, <2>1, <2>8, StrokeInforms
      <4>3. QED
        BY <3>2, <4>1, <4>2
    <3>3. CASE c \notin E
      <4>1. IdsDiffer => m.command = c
        BY <2>7, <3>1, <3>3
      <4>2. Informed(g, c, room)
        BY <1>2, <2>1, <2>8, <4>1, OwnStrokeInforms
      <4>3. QED
        BY <3>3, <4>2
    <3>4. QED
      BY <3>2, <3>3
  <2>9. posts \in [E -> Seq(ServerMessage)]
    BY <2>5, <2>6
  <2>10. /\ rooms' = [rooms EXCEPT ![i] = room]
         /\ outgoing' = Post(outgoing, posts) /\ roomCapacity' = roomCapacity
    BY <1>4, <2>1
  <2>11. E \subseteq Members(rooms[i]) /\ Members(room) \subseteq Members(rooms[i])
    BY <2>3
  <2> HIDE DEF m, i, room, posts, E
  <2>12. QED
    BY <2>1, <2>2, <2>8, <2>9, <2>10, <2>11, RoomInforms
<1>5. QED
  BY <1>3, <1>4 DEF HandleDrawCommand

\* Everybody gets the empty canvas.
LEMMA ClearingInforms ==
  ASSUME IInv, GameTypeOK, AllInformed, HandleCanvasPacket, UNCHANGED game
  PROVE  StayInformed
<1> DEFINE m == Head(incoming)
           i == m.room + 1
           old == rooms[i]
           room == ClearCanvas(old)
           E == Members(old)
           posts == Broadcast(old, Canvas(room))
<1>1. FrontIs("CanvasPacket")
  BY DEF HandleCanvasPacket, Handling
<1>2. m.room \in Nat
  BY <1>1, TakingFront, PlayerMessageFields, WidthsAssumption DEF IInv
<1>3. CASE DropMessage
  BY <1>3, QuietInforms DEF DropMessage
<1>4. CASE /\ RoomExists(m.room)
           /\ rooms' = [rooms EXCEPT ![m.room + 1] = ClearCanvas(@)]
           /\ outgoing' = Post(outgoing, Broadcast(GameRoom(m.room),
                                           Canvas(ClearCanvas(GameRoom(m.room)))))
           /\ UNCHANGED <<waitingRoom, roomCapacity, serverState>>
  <2>1. i \in DOMAIN rooms /\ old \in RoomType /\ GameRoom(m.room) = old
    BY <1>2, <1>4, GameRoomFacts
  <2>2. room \in RoomType /\ room.clients = old.clients
    BY <2>1, ClearCanvasFacts DEF RoomType
  <2>3. Members(room) = Members(old) /\ Members(old) \subseteq ConnIds
    BY <2>1, <2>2, PlayersAreConnections DEF Members
  <2>4. Canvas(room) \in ServerMessage
    BY <2>2, RoomMessages
  <2>5. <<Canvas(room)>> \in Seq(ServerMessage)
    BY <2>4
  <2>6. posts = [c \in E |-> <<Canvas(room)>>]
    BY DEF Broadcast
  <2>8. ASSUME NEW c \in Members(room), NEW g \in GameType, Informed(g, c, old)
        PROVE  Informed(IF c \in E THEN Seen(c, g, posts[c]) ELSE g, c, room)
    <3>1. c \in ConnIds /\ c \in E
      BY <2>3
    <3>2. Seen(c, g, posts[c]) = OnPacket(c, g, Canvas(room))
      BY <2>4, <2>6, <3>1, SeenOne
    <3>3. Informed(OnPacket(c, g, Canvas(room)), c, room)
      BY <2>1, <2>8, ClearInforms
    <3>4. QED
      BY <3>1, <3>2, <3>3
  <2>9. posts \in [E -> Seq(ServerMessage)]
    BY <2>5, <2>6
  <2>10. /\ rooms' = [rooms EXCEPT ![i] = room]
         /\ outgoing' = Post(outgoing, posts) /\ roomCapacity' = roomCapacity
    BY <1>4, <2>1
  <2>11. E \subseteq Members(rooms[i]) /\ Members(room) \subseteq Members(rooms[i])
    BY <2>3
  <2> HIDE DEF m, i, room, posts, E
  <2>12. QED
    BY <2>1, <2>2, <2>8, <2>9, <2>10, <2>11, RoomInforms
<1>5. QED
  BY <1>3, <1>4 DEF HandleCanvasPacket

\* Everybody gets the answer to a guess, and the round that it ends.
LEMMA GuessingInforms ==
  ASSUME IInv, GameTypeOK, AllInformed, HandleGuessPacket, UNCHANGED game
  PROVE  StayInformed
<1> DEFINE m == Head(incoming)
           id == m.client_id
           i == m.room + 1
           old == rooms[i]
<1>1. FrontIs("GuessPacket")
  BY DEF HandleGuessPacket, Handling
<1>2. m.room \in Nat /\ m.guess \in Guesses /\ id \in 0 .. (IdRange - 1)
  BY <1>1, TakingFront, PlayerMessageFields, WidthsAssumption DEF IInv
<1>3. CASE UNCHANGED <<waitingRoom, rooms, roomCapacity, outgoing>>
  BY <1>3, QuietInforms
<1>4. ASSUME MayGuess(id, m.room), NEW w \in Words,
             ~GuessOverruns(GameRoom(m.room), m.guess, id),
             rooms' = [rooms EXCEPT ![m.room + 1] = CheckWord(@, m.guess, id, w)],
             outgoing' = Post(outgoing, CheckWordPosts(GameRoom(m.room), m.guess, id, w)),
             UNCHANGED <<waitingRoom, roomCapacity, serverState>>
      PROVE  StayInformed
  <2> DEFINE room == CheckWord(old, m.guess, id, w)
             posts == CheckWordPosts(old, m.guess, id, w)
             E == Members(old)
  <2>1. i \in DOMAIN rooms /\ old \in RoomType /\ Sound(old) /\ GameRoom(m.room) = old
    BY <1>2, <1>4, GameRoomFacts DEF MayGuess
  <2>2. id \in Members(old) /\ ~GuessOverruns(old, m.guess, id)
    BY <1>4, <2>1 DEF MayGuess
  <2>3. room \in RoomType /\ Members(room) = Members(old)
    BY <2>1, <2>2, CheckWordFacts DEF RoomType
  <2>4. Members(old) \subseteq ConnIds
    BY <2>1, PlayersAreConnections
  <2>5. posts \in [E -> Seq(ServerMessage)]
    BY <1>2, <2>1, <2>2, GuessPosts
  <2>6. ASSUME NEW c \in Members(room), NEW g \in GameType, Informed(g, c, old)
        PROVE  Informed(IF c \in E THEN Seen(c, g, posts[c]) ELSE g, c, room)
    <3>1. c \in ConnIds /\ c \in E
      BY <2>3, <2>4
    <3>2. Informed(Seen(c, g, posts[c]), c, room)
      BY <1>2, <2>1, <2>2, <2>6, <3>1, GuessInforms
    <3> HIDE DEF room, posts, E
    <3>3. QED
      BY <3>1, <3>2
  <2>7. /\ rooms' = [rooms EXCEPT ![i] = room]
        /\ outgoing' = Post(outgoing, posts) /\ roomCapacity' = roomCapacity
    BY <1>4, <2>1
  <2>8. E \subseteq Members(rooms[i]) /\ Members(room) \subseteq Members(rooms[i])
    BY <2>3
  <2> HIDE DEF m, i, id, room, posts, E
  <2>9. QED
    BY <2>1, <2>3, <2>5, <2>6, <2>7, <2>8, RoomInforms
<1>5. QED
  BY <1>3, <1>4 DEF HandleGuessPacket, DropMessage

\* Whatever the server does by itself, the players stay informed.
LEMMA ServerStepInforms ==
  ASSUME IInv, GameTypeOK, AllInformed, StrokesSigned, ServerStep
  PROVE  StayInformed
<1>1. UNCHANGED game
  BY DEF ServerStep
<1>2. CASE HandleJoinRoom
  <2>1. FrontIs("JoinRoom")
    BY <1>2 DEF HandleJoinRoom, Handling
  <2>2. CASE DropMessage
    BY <1>1, <2>2, QuietInforms DEF DropMessage
  <2>3. CASE /\ RoomExists(Head(incoming).room)
             /\ IsFrontOfWaitingRoom(Head(incoming).client_id)
             /\ JoinFrontClient(Head(incoming))
    BY <1>1, <2>1, <2>3, JoiningInforms
  <2>4. QED
    BY <1>2, <2>2, <2>3 DEF HandleJoinRoom
<1>3. CASE SpinEnds
  <2>1. FrontIs("JoinRoom") /\ RoomExists(Head(incoming).room)
    BY <1>3 DEF IInv, TypeOK, SpinEnds
  <2>2. CASE /\ IsFrontOfWaitingRoom(Head(incoming).client_id)
             /\ JoinFrontClient(Head(incoming))
    BY <1>1, <2>1, <2>2, JoiningInforms
  <2>3. CASE UNCHANGED <<waitingRoom, rooms, roomCapacity, outgoing>>
    BY <1>1, <2>3, QuietInforms
  <2>4. QED
    BY <1>3, <2>2, <2>3 DEF SpinEnds
<1>4. CASE JoinRoomSpins \/ AcceptAlreadyReset \/ \E c \in ConnIds : DisconnectOverruns(c)
  <2>1. UNCHANGED <<rooms, roomCapacity, outgoing>>
    BY <1>4 DEF JoinRoomSpins, AcceptAlreadyReset, DisconnectOverruns
  <2>2. QED
    BY <1>1, <2>1, QuietInforms
<1>5. CASE AcceptConnection \/ \E c \in ConnIds : Disconnect(c)
  BY <1>1, <1>5, AcceptInforms, DisconnectInforms
<1>6. CASE HandleCreateRoom \/ HandleDrawCommand \/ HandleGuessPacket \/ HandleCanvasPacket
  BY <1>1, <1>6, CreatingInforms, DrawingInforms, GuessingInforms, ClearingInforms
<1>7. QED
  BY <1>2, <1>3, <1>4, <1>5, <1>6 DEF ServerStep, HandleMessages

(***************************************************************************)
(* The frontends' steps                                                    *)
(***************************************************************************)

\* A frontend whose step leaves it with what it will have read, or with what
\* differs from it only in what nobody asks, stays informed.
LEMMA FrontendInforms ==
  ASSUME IInv, GameTypeOK, AllInformed, UNCHANGED <<rooms, roomCapacity>>,
         NEW c \in ConnIds,
         Now(c)' = Now(c) \/ Alike(Now(c), Now(c)'),
         \A d \in ConnIds \ {c} : game'[d] = game[d] /\ outgoing'[d] = outgoing[d]
  PROVE  StayInformed
<1> SUFFICES ASSUME NEW i \in DOMAIN rooms, NeverMoved(i), NEW d \in Members(rooms[i])
             PROVE  Informed(Now(d)', d, rooms[i])
  BY DEF StayInformed, NeverMoved
<1>1. Informed(Now(d), d, rooms[i])
  BY DEF AllInformed
<1>2. CASE d = c
  BY <1>1, <1>2, AlikeInforms
<1>3. CASE d # c
  <2>1. d \in ConnIds
    BY PlayersAreConnections
  <2>2. Now(d)' = Now(d)
    BY <1>3, <2>1 DEF Now
  <2>3. QED
    BY <1>1, <2>2
<1>4. QED
  BY <1>2, <1>3

\* To send changes nothing that anybody asks of the sender.
LEMMA SendingInforms ==
  ASSUME IInv, GameTypeOK, AllInformed, NEW c \in ConnIds, Player(c) \/ SendJoin(c)
  PROVE  StayInformed
<1> DEFINE none == <<>>
<1>1. UNCHANGED <<rooms, roomCapacity, outgoing>>
  BY DEF Player, SendJoin, HandleJoin, HandleCreate, HandleSendDrawing, HandleClearCanvas,
         HandleSend, Arrive
<1>2. PICK g : game' = [game EXCEPT ![c] = g] /\ Alike(game[c], g)
  <2>1. game[c] \in GameType
    BY DEF GameTypeOK
  <2>2. game = [game EXCEPT ![c] = game[c]] /\ Alike(game[c], game[c])
    BY <2>1 DEF Alike, GameTypeOK
  <2>3. CASE HandleJoin(c)
    <3>1. PICK r \in 0 .. (RoomRange - 1) : game' = [game EXCEPT ![c] = [game[c] EXCEPT !.room = r]]
      BY <2>3 DEF HandleJoin
    <3>2. [game[c] EXCEPT !.room = r] \in GameType
      BY <2>1, WidthsAssumption DEF GameType
    <3>3. /\ [game[c] EXCEPT !.room = r].screen = game[c].screen
          /\ [game[c] EXCEPT !.room = r].drawer = game[c].drawer
          /\ [game[c] EXCEPT !.room = r].word = game[c].word
          /\ [game[c] EXCEPT !.room = r].canvas = game[c].canvas
      BY <2>1 DEF GameType
    <3>4. Alike(game[c], [game[c] EXCEPT !.room = r])
      BY <2>1, <3>2, <3>3, Zenon DEF Alike
    <3>5. QED
      BY <3>1, <3>4
  <2>4. CASE SendJoin(c)
    <3>1. game' = [game EXCEPT ![c] = [game[c] EXCEPT !.joining = NoRoom]]
      BY <2>4 DEF SendJoin
    <3>2. [game[c] EXCEPT !.joining = NoRoom] \in GameType
      BY <2>1, WidthsAssumption DEF GameType, NoRoom
    <3>3. /\ [game[c] EXCEPT !.joining = NoRoom].screen = game[c].screen
          /\ [game[c] EXCEPT !.joining = NoRoom].drawer = game[c].drawer
          /\ [game[c] EXCEPT !.joining = NoRoom].word = game[c].word
          /\ [game[c] EXCEPT !.joining = NoRoom].canvas = game[c].canvas
      BY <2>1 DEF GameType
    <3>4. Alike(game[c], [game[c] EXCEPT !.joining = NoRoom])
      BY <2>1, <3>2, <3>3, Zenon DEF Alike
    <3>5. QED
      BY <3>1, <3>4
  <2>5. CASE HandleClearCanvas(c)
    <3>1. game[c].drawer /\ game' = [game EXCEPT ![c] = [game[c] EXCEPT !.canvas = none]]
      BY <2>5 DEF HandleClearCanvas
    <3>2. none \in Seq(Commands)
      OBVIOUS
    <3> HIDE DEF none
    <3>3. Alike(game[c], [game[c] EXCEPT !.canvas = none])
      BY <2>1, <3>1, <3>2 DEF Alike, GameType
    <3>4. QED
      BY <3>1, <3>3
  <2>6. CASE HandleCreate(c) \/ HandleSendDrawing(c) \/ HandleSend(c)
    <3>1. game' = game
      BY <2>6 DEF HandleCreate, HandleSendDrawing, HandleSend
    <3>2. QED
      BY <2>2, <3>1
  <2>7. QED
    BY <2>3, <2>4, <2>5, <2>6 DEF Player
<1>3. game'[c] = g /\ \A d \in ConnIds \ {c} : game'[d] = game[d]
  BY <1>2 DEF GameTypeOK
<1>4. Alike(Now(c), Now(c)')
  <2>1. outgoing[c] \in Seq(ServerMessage) /\ outgoing'[c] = outgoing[c]
    BY <1>1, NowFacts
  <2>2. Alike(Seen(c, game[c], outgoing[c]), Seen(c, g, outgoing[c]))
    BY <1>2, <2>1, SeenAlike
  <2>3. QED
    BY <1>3, <2>1, <2>2 DEF Now
<1>5. QED
  BY <1>1, <1>3, <1>4, FrontendInforms

\* What the reader has read it will not read again.
LEMMA ReceivingInforms ==
  ASSUME IInv, GameTypeOK, AllInformed, NEW c \in ConnIds, Receive(c)
  PROVE  StayInformed
<1>1. game[c] \in GameType /\ outgoing[c] \in Seq(ServerMessage)
  BY NowFacts
<1>2. /\ outgoing[c] # <<>> /\ UNCHANGED <<rooms, roomCapacity>>
      /\ outgoing' = [outgoing EXCEPT ![c] = Tail(outgoing[c])]
      /\ game' = [game EXCEPT ![c] = OnPacket(c, game[c], Head(outgoing[c]))]
  BY DEF Receive, Sent
<1>3. /\ game \in [ConnIds -> GameType] /\ outgoing \in [ConnIds -> Seq(ServerMessage)]
  BY DEF GameTypeOK, IInv, TypeOK
<1>4. /\ game'[c] = OnPacket(c, game[c], Head(outgoing[c]))
      /\ outgoing'[c] = Tail(outgoing[c])
      /\ \A d \in ConnIds \ {c} : game'[d] = game[d] /\ outgoing'[d] = outgoing[d]
  BY <1>2, <1>3
<1>5. Now(c)' = Now(c)
  BY <1>1, <1>2, <1>4, SeenFacts DEF Now
<1>6. QED
  BY <1>2, <1>4, <1>5, FrontendInforms

(***************************************************************************)
(* The signatures of the strokes                                           *)
(***************************************************************************)

\* A message that is signed, if it is a stroke, leaves all strokes signed.
LEMMA ArrivalsAreSigned ==
  ASSUME IInv, StrokesSigned, NEW c, NEW m, Arrive(c, m), Signed(m)
  PROVE  StrokesSigned'
<1>1. /\ incoming' = Append(incoming, m) /\ incoming \in Seq(PlayerMessage)
      /\ numConnections' = numConnections
  BY DEF Arrive, IInv, TypeOK
<1>2. /\ DOMAIN incoming = 1 .. Len(incoming) /\ Len(incoming) \in Nat
      /\ DOMAIN incoming' = 1 .. (Len(incoming) + 1)
      /\ \A i \in 1 .. (Len(incoming) + 1) :
           incoming'[i] = IF i = Len(incoming) + 1 THEN m ELSE incoming[i]
  BY <1>1
<1>3. QED
  BY <1>1, <1>2 DEF StrokesSigned, Signed, WireId

\* A player that is connected draws in its own pen under its own id.
LEMMA PlayersSign ==
  ASSUME IInv, StrokesSigned, NEW c \in ConnIds, Player(c) \/ SendJoin(c)
  PROVE  StrokesSigned'
<1>1. PICK m : /\ Arrive(c, m)
               /\ m.type = "DrawCommand" => m.command = c /\ m.client_id = WireId(c)
  <2>1. CASE HandleSendDrawing(c)
    BY <2>1 DEF HandleSendDrawing
  <2>2. CASE HandleJoin(c)
    BY <2>2 DEF HandleJoin
  <2>3. CASE HandleCreate(c)
    BY <2>3 DEF HandleCreate
  <2>4. CASE HandleClearCanvas(c)
    BY <2>4 DEF HandleClearCanvas
  <2>5. CASE HandleSend(c)
    BY <2>5 DEF HandleSend
  <2>6. CASE SendJoin(c)
    BY <2>6 DEF SendJoin
  <2>7. QED
    BY <2>1, <2>2, <2>3, <2>4, <2>5, <2>6 DEF Player
<1>2. c \in 0 .. (numConnections - 1) /\ numConnections \in Nat
  BY <1>1, BoundsAssumption DEF Arrive, IInv, TypeOK
<1>3. c \in Nat /\ c < numConnections
  BY <1>2
<1>4. Signed(m)
  BY <1>1, <1>3 DEF Signed
<1>5. QED
  BY <1>1, <1>4, ArrivalsAreSigned

\* What stays in the queue has been there, and whoever has connected has.
LEMMA ServerKeepsSignatures ==
  ASSUME IInv, StrokesSigned,
         numConnections' = numConnections \/ numConnections' = numConnections + 1,
         incoming' = incoming \/ (incoming # <<>> /\ incoming' = Tail(incoming))
  PROVE  StrokesSigned'
<1>1. incoming \in Seq(PlayerMessage) /\ numConnections \in Nat
  BY BoundsAssumption DEF IInv, TypeOK
<1>2. ASSUME NEW m, Signed(m) PROVE Signed(m)'
  <2>1. CASE m.type = "DrawCommand"
    <3>1. m.command \in Nat /\ m.command < numConnections /\ m.client_id = WireId(m.command)
      BY <1>2, <2>1 DEF Signed
    <3>2. m.command < numConnections'
      BY <1>1, <3>1
    <3>3. QED
      BY <3>1, <3>2 DEF Signed, WireId
  <2>2. QED
    BY <2>1 DEF Signed
<1>3. CASE incoming' = incoming
  BY <1>2, <1>3 DEF StrokesSigned
<1>4. CASE incoming # <<>> /\ incoming' = Tail(incoming)
  <2>1. /\ DOMAIN incoming = 1 .. Len(incoming) /\ Len(incoming) \in Nat \ {0}
        /\ DOMAIN incoming' = 1 .. (Len(incoming) - 1)
        /\ \A i \in 1 .. (Len(incoming) - 1) : incoming'[i] = incoming[i + 1]
    BY <1>1, <1>4
  <2>2. \A i \in 1 .. (Len(incoming) - 1) : i + 1 \in 1 .. Len(incoming)
    BY <2>1
  <2>3. QED
    BY <1>2, <2>1, <2>2 DEF StrokesSigned
<1>5. QED
  BY <1>3, <1>4

\* Nobody's id is given back.
LEMMA IdsGrow ==
  ASSUME [GameNext]_gameVars
  PROVE  numConnections' = numConnections \/ numConnections' = numConnections + 1
<1>1. CASE HandleMessages
  BY <1>1 DEF HandleMessages, HandleJoinRoom, JoinRoomSpins, HandleCreateRoom,
              HandleDrawCommand, HandleGuessPacket, HandleCanvasPacket, Handling
<1>2. CASE SpinEnds \/ AcceptConnection \/ AcceptAlreadyReset
           \/ \E c \in ConnIds : Disconnect(c) \/ DisconnectOverruns(c)
  BY <1>2 DEF SpinEnds, AcceptConnection, AcceptAlreadyReset, Disconnect, DisconnectOverruns
<1>3. ASSUME NEW c \in ConnIds, Player(c) \/ Reader(c)
      PROVE  numConnections' = numConnections
  BY <1>3 DEF Player, Reader, Receive, SendJoin, HandleJoin, HandleCreate, HandleSendDrawing,
              HandleClearCanvas, HandleSend, Arrive, Sent
<1>4. QED
  BY <1>1, <1>2, <1>3 DEF GameNext, ServerStep, gameVars, vars

\* No step of the game forges a stroke.
LEMMA StepsKeepSignatures ==
  ASSUME IInv, StrokesSigned, [GameNext]_gameVars
  PROVE  StrokesSigned'
<1>1. CASE ServerStep
  <2>1. incoming' = incoming \/ (incoming # <<>> /\ incoming' = Tail(incoming))
    <3>1. CASE HandleMessages
      BY <3>1 DEF HandleMessages, HandleJoinRoom, JoinRoomSpins, HandleCreateRoom,
                  HandleDrawCommand, HandleGuessPacket, HandleCanvasPacket, Handling, FrontIs
    <3>2. CASE SpinEnds
      <4>1. incoming # <<>>
        BY <3>2 DEF SpinEnds, IInv, TypeOK, FrontIs
      <4>2. QED
        BY <3>2, <4>1 DEF SpinEnds
    <3>3. CASE AcceptConnection \/ AcceptAlreadyReset
               \/ \E c \in ConnIds : Disconnect(c) \/ DisconnectOverruns(c)
      BY <3>3 DEF AcceptConnection, AcceptAlreadyReset, Disconnect, DisconnectOverruns
    <3>4. QED
      BY <1>1, <3>1, <3>2, <3>3 DEF ServerStep
  <2>2. QED
    BY <2>1, IdsGrow, ServerKeepsSignatures
<1>2. ASSUME NEW c \in ConnIds, Player(c) \/ SendJoin(c) PROVE StrokesSigned'
  BY <1>2, PlayersSign
<1>3. ASSUME NEW c \in ConnIds, Receive(c) PROVE StrokesSigned'
  <2>1. incoming' = incoming
    BY <1>3 DEF Receive, Sent
  <2>2. QED
    BY <2>1, IdsGrow, ServerKeepsSignatures
<1>4. CASE UNCHANGED gameVars
  BY <1>4, IdsGrow, ServerKeepsSignatures DEF gameVars, vars
<1>5. QED
  BY <1>1, <1>2, <1>3, <1>4 DEF GameNext, Reader

(***************************************************************************)
(* Every state                                                             *)
(***************************************************************************)

\* Every step of the game keeps the players informed.
LEMMA StepsInform ==
  ASSUME IInv, GameTypeOK, AllInformed, StrokesSigned, [GameNext]_gameVars
  PROVE  AllInformed'
<1>1. StayInformed
  <2>1. ASSUME NEW c \in ConnIds, Player(c) \/ Reader(c) PROVE StayInformed
    BY <2>1, SendingInforms, ReceivingInforms DEF Reader
  <2>2. CASE UNCHANGED gameVars
    BY <2>2, QuietInforms DEF gameVars, vars
  <2>3. QED
    BY <2>1, <2>2, ServerStepInforms DEF GameNext
<1>2. IdsDiffer' => IdsDiffer
  <2>1. numConnections \in Nat
    BY BoundsAssumption DEF IInv, TypeOK
  <2>2. QED
    BY <2>1, IdsGrow, WidthsAssumption DEF IdsDiffer
<1> SUFFICES ASSUME NEW i \in DOMAIN rooms', NeverMoved(i)', NEW c \in Members(rooms'[i])
             PROVE  Informed(Now(c), c, rooms[i])'
  BY DEF AllInformed
<1>3. Informed(Now(c)', c, rooms'[i])
  BY <1>1 DEF StayInformed, NeverMoved
<1>4. QED
  BY <1>2, <1>3 DEF Informed, KnowsRole, SeesCanvas

\* The inductive invariant holds throughout.
LEMMA Informing == GameSpec => [](GameIInv /\ AllInformed /\ StrokesSigned)
<1>1. GameInit => AllInformed /\ StrokesSigned
  BY DEF GameInit, Init, AllInformed, StrokesSigned
<1>2. GameIInv /\ AllInformed /\ StrokesSigned /\ [GameNext]_gameVars
        => AllInformed' /\ StrokesSigned'
  BY StepsInform, StepsKeepSignatures DEF GameIInv
<1>3. QED
  BY <1>1, <1>2, GameInvariance, PTL DEF GameSpec

\* PromoteDrawer, CheckWord, RemoveClient and the answer to JOIN_ROOM tell
\* every member of the room its role, in an order that leaves it with the
\* role the server has on record, whatever was on its way to it before.
THEOREM PlayersKnowTheirRoles == GameSpec => []PlayersKnowTheirRole
<1>1. ASSUME IInv, GameTypeOK, AllInformed PROVE PlayersKnowTheirRole
  <2> SUFFICES ASSUME NEW i \in DOMAIN rooms, NeverMoved(i), NEW c \in Members(rooms[i])
               PROVE  KnowsRole(Settled(c), c, rooms[i])
    BY DEF PlayersKnowTheirRole, KnowsRole
  <2>1. Now(c) = Settled(c)
    BY <1>1, PlayersAreConnections, NowFacts
  <2>2. QED
    BY <1>1, <2>1 DEF AllInformed, Informed
<1>2. QED
  BY <1>1, Informing, PTL DEF GameIInv

\* The server does not send a stroke back to the player whose id is in its
\* header, and everybody else sees it.  That is only so while no two players
\* have had the same id in headers: the header has 8 bits of an id that counts
\* the connections there ever were, and with two players of one id a stroke of
\* the one, promoted in the waiting room, is withheld from the other, who
\* guesses.
THEOREM GuessersSeeTheDrawing ==
  GameSpec => [](numConnections <= IdRange => GuessersSeeTheCanvas)
<1>1. ASSUME IInv, GameTypeOK, AllInformed, numConnections <= IdRange
      PROVE  GuessersSeeTheCanvas
  <2> SUFFICES ASSUME NEW i \in DOMAIN rooms, NeverMoved(i), NEW c \in Guessers(rooms[i])
               PROVE  NotBy(c, Settled(c).canvas) = NotBy(c, rooms[i].drawCommands)
    BY DEF GuessersSeeTheCanvas
  <2>1. c \in Members(rooms[i]) /\ c # rooms[i].currentDrawer
    BY DEF Guessers
  <2>2. Now(c) = Settled(c)
    BY <1>1, <2>1, PlayersAreConnections, NowFacts
  <2>3. SeesCanvas(Now(c), c, rooms[i])
    BY <1>1, <2>1 DEF AllInformed, Informed, IdsDiffer
  <2>4. QED
    BY <2>1, <2>2, <2>3 DEF SeesCanvas
<1>2. QED
  BY <1>1, Informing, PTL DEF GameIInv
=============================================================================
