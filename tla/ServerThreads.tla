--------------------------- MODULE ServerThreads ---------------------------
(***************************************************************************)
(* The two threads of the server (server/src/Server.cpp, Room.cpp,         *)
(* Connection.cpp, Main.cpp), access by access: what GameServer takes for  *)
(* one step is here a walk through stages.  A stage is a stretch of code   *)
(* in which a thread uses some of the objects that both threads share,     *)
(*                                                                         *)
(*   incoming   m_incomingMessageQueue                                     *)
(*   waiting    the clients of m_waitingRoom                               *)
(*   rooms      the vector m_rooms                                         *)
(*   room       what is in a game room                                     *)
(*   socket     the socket of the thread's client                          *)
(*                                                                         *)
(* or holds an iterator or a reference into them; the step that leaves the *)
(* stage does what the stretch does.  Nothing is locked.  When both        *)
(* threads are in stages that use one object, and one of them changes it,  *)
(* or when a thread uses a client that has been destroyed, the behavior is *)
(* undefined, and ends here.                                               *)
(*                                                                         *)
(* There is one game room; what happens in another is the same.            *)
(***************************************************************************)
EXTENDS Integers, SequencesExt

CONSTANTS
  MaxClients,   \* bound: connections accepted in a behavior
  MaxMessages,  \* bound: messages read from players in a behavior
  MaxPending    \* bound: messages in the queue at a time

ASSUME BoundsAssumption ==
  MaxClients \in Nat /\ MaxMessages \in Nat /\ MaxPending \in Nat

Ids == 0 .. (MaxClients - 1)
Nobody == -1
Threads == {"main", "io"}
Jobs == {"JoinRoom", "CreateRoom", "Play"}  \* Play: a draw, guess or canvas packet

VARIABLES
  at,        \* the stage each thread is in
  client,    \* the client each thread serves, or Nobody
  job,       \* the type of the message the main thread handles, or "none"
  accepted,  \* clients accepted so far
  open,      \* those whose socket is open
  pending,   \* the reads and writes outstanding; each holds its client
  waiting,   \* the clients in the waiting room, in order
  hasRoom,   \* the game room exists
  seated,    \* the clients in it
  incoming,  \* the messages that wait
  received,  \* messages read so far, counted against MaxMessages
  stop       \* set by the handler of SIGINT

threadVars == <<at, client>>
netVars == <<accepted, open, pending>>
roomVars == <<waiting, hasRoom, seated>>
queueVars == <<incoming, received>>
vars == <<threadVars, job, netVars, roomVars, queueVars, stop>>

Reads(stage) ==
  CASE stage = "front" -> {"incoming"}
    [] stage \in {"lookup", "search", "creator", "tell", "seekWaiting"} -> {"waiting"}
    [] stage \in {"check", "play", "leaveRoom"} -> {"rooms"}
    [] stage \in {"answer", "canvas"} -> {"room"}
    [] stage = "seekRooms" -> {"rooms", "room"}
    [] stage = "send" -> {"socket"}
    [] OTHER -> {}

Writes(stage) ==
  CASE stage \in {"receive", "pop"} -> {"incoming"}
    [] stage \in {"accept", "leaveWaiting"} -> {"waiting"}
    [] stage = "move" -> {"waiting", "room"}
    [] stage = "create" -> {"rooms", "room"}
    [] stage \in {"play", "leaveRoom"} -> {"room"}
    [] stage = "close" -> {"socket"}
    [] OTHER -> {}

Meet(o) == o = "socket" => client["main"] = client["io"]

Uses(t) == Reads(at[t]) \cup Writes(at[t])

\* Both threads use an object, and one of them changes it.
Overlap ==
  \E o \in Uses("main") \cap Uses("io") :
    Meet(o) /\ o \in Writes(at["main"]) \cup Writes(at["io"])

\* Somebody holds the ClientConnection: a room, an outstanding read or write,
\* or the handler that the io thread runs.
Alive(c) ==
  \/ c \in ToSet(waiting) \cup seated
  \/ \E p \in pending : p[1] = c
  \/ at["io"] # "idle" /\ client["io"] = c

\* The main thread follows a pointer it got from GetClient.
Dangling ==
  /\ at["main"] \in {"fail", "send", "seekWaiting", "seekRooms"}
  /\ ~Alive(client["main"])

Undefined == Overlap \/ Dangling

Init ==
  /\ at = [main |-> "poll", io |-> "idle"]
  /\ client = [t \in Threads |-> Nobody]
  /\ job = "none"
  /\ accepted = 0 /\ open = {} /\ pending = {}
  /\ waiting = <<>> /\ hasRoom = FALSE /\ seated = {}
  /\ incoming = <<>> /\ received = 0
  /\ stop = FALSE

Goes(t, here, there) == at[t] = here /\ at' = [at EXCEPT ![t] = there]

-----------------------------------------------------------------------------
(* OnDisconnect, which either thread runs *)

\* Where thread t goes on: io is done with its handler, and the main thread
\* is back in HandleMessages behind the SendMessage that noticed.
Resume(t) ==
  IF t = "io" THEN "idle" ELSE IF job = "JoinRoom" THEN "canvas" ELSE "pop"

SeekWaiting_RoomsOnly(t) ==
  /\ Goes(t, "seekWaiting", "seekRooms")
  /\ UNCHANGED roomVars

SeekWaiting(t) ==
  /\ Goes(t, "seekWaiting",
          IF client[t] \in ToSet(waiting) THEN "leaveWaiting" ELSE "seekRooms")
  /\ UNCHANGED roomVars

LeaveWaiting(t) ==
  /\ Goes(t, "leaveWaiting", Resume(t))
  /\ waiting' = RemoveFirst(waiting, client[t])
  /\ UNCHANGED <<hasRoom, seated>>

SeekRooms(t) ==
  /\ Goes(t, "seekRooms",
          IF client[t] \in seated THEN "leaveRoom" ELSE Resume(t))
  /\ UNCHANGED roomVars

LeaveRoom(t) ==
  /\ Goes(t, "leaveRoom", Resume(t))
  /\ seated' = seated \ {client[t]}
  /\ UNCHANGED <<waiting, hasRoom>>

OnDisconnect(t) ==
  /\ SeekWaiting(t) \/ LeaveWaiting(t) \/ SeekRooms(t) \/ LeaveRoom(t)
  /\ client' = IF at'["io"] = "idle" THEN [client EXCEPT !["io"] = Nobody] ELSE client
  /\ UNCHANGED <<job, netVars, queueVars, stop>>

-----------------------------------------------------------------------------
(* The main thread: the inner loop of HandleMessages tests the queue, the  *)
(* outer one stop.                                                         *)

Inside == UNCHANGED <<client, job, netVars, queueVars, stop>>

\* A step of the main thread that changes no room.
Walks(here, there) ==
  Goes("main", here, there) /\ UNCHANGED roomVars /\ Inside

\* The test sees the queue as it was or as it will be when a message is
\* being appended, which is no stage of its own.
Poll ==
  \/ incoming # <<>> /\ Walks("poll", "front")
  \/ incoming = <<>> /\ stop /\ Walks("poll", "joining")

\* The copy of the front message, and the switch.
Take ==
  LET message == Head(incoming)
  IN  /\ Goes("main", "front",
              CASE message.type = "JoinRoom" -> "lookup"
                [] message.type = "CreateRoom" -> "create"
                [] OTHER -> IF hasRoom THEN "play" ELSE "pop")
      /\ job' = message.type
      /\ client' = [client EXCEPT !["main"] = message.client]
      /\ UNCHANGED <<netVars, roomVars, queueVars, stop>>

Waits == client["main"] \in ToSet(waiting)

\* JoinRoom: GetClient, the test of the room number, the search, MoveClient,
\* the answer's look at the room and second GetClient, SendMessage, and
\* SendCanvas with the third.
Lookup == Walks("lookup", IF Waits THEN "check" ELSE "pop")

Check == Walks("check", IF hasRoom THEN "search" ELSE "pop")

\* The iterator stays at the first client.
SearchEnds ==
  \/ /\ waiting # <<>> /\ Head(waiting) = client["main"]
     /\ Walks("search", "move")
  \/ /\ waiting = <<>>
     /\ Walks("search", "fail")

\* "was not found in the waiting room", with the id of the client.
Fail == Walks("fail", "pop")

MoveClient_NoErase ==
  /\ Goes("main", "move", "moved")
  /\ seated' = seated \cup {client["main"]}
  /\ UNCHANGED <<waiting, hasRoom>> /\ Inside

MoveClient_NoAdd ==
  /\ Goes("main", "move", "moved")
  /\ waiting' = Tail(waiting)
  /\ UNCHANGED <<hasRoom, seated>> /\ Inside

MoveClient ==
  /\ Goes("main", "move", "moved")
  /\ waiting' = Tail(waiting)
  /\ seated' = seated \cup {client["main"]}
  /\ UNCHANGED hasRoom /\ Inside

Respond == Walks("moved", "answer")

Answer == Walks("answer", IF client["main"] \in seated THEN "send" ELSE "crashed")

\* SendMessage posts, or finds the socket closed.
Send ==
  Walks("send", IF client["main"] \in open THEN Resume("main") ELSE "seekWaiting")

SendCanvas == Walks("canvas", IF client["main"] \in seated THEN "pop" ELSE "crashed")

\* CreateRoom, with two calls of GetClient; the first is tested.
Create ==
  /\ Goes("main", "create", "creator")
  /\ hasRoom' = TRUE
  /\ UNCHANGED <<waiting, seated>> /\ Inside

Creator == Walks("creator", IF Waits THEN "found" ELSE "pop")

Found == Walks("found", "tell")

Tell == Walks("tell", IF Waits THEN "send" ELSE "crashed")

\* A method of the room, which sends to its clients and keeps them.
Play == Walks("play", "pop")

Pop ==
  /\ Goes("main", "pop", "poll")
  /\ incoming' = Tail(incoming)
  /\ job' = "none"
  /\ client' = [client EXCEPT !["main"] = Nobody]
  /\ UNCHANGED <<netVars, roomVars, received, stop>>

Join_AfterAllHandlers == pending = {} /\ Walks("joining", "stopped")

\* Stop: the context has been told to stop, and the io thread is joined.
Join == at["io"] = "idle" /\ Walks("joining", "stopped")

Main ==
  \/ Poll \/ Take
  \/ Lookup \/ Check \/ SearchEnds \/ Fail \/ MoveClient
  \/ Respond \/ Answer \/ SendCanvas
  \/ Create \/ Creator \/ Found \/ Tell
  \/ Send \/ OnDisconnect("main")
  \/ Play
  \/ Pop
  \/ Join

-----------------------------------------------------------------------------
(* The io thread *)

\* The io thread takes up a handler for client c.
Begins(stage, c) ==
  /\ at["main"] \notin {"joining", "stopped"}
  /\ Goes("io", "idle", stage)
  /\ client' = [client EXCEPT !["io"] = c]
  /\ UNCHANGED <<job, roomVars, queueVars, stop>>

Ends(stage) ==
  /\ Goes("io", stage, "idle")
  /\ client' = [client EXCEPT !["io"] = Nobody]

AcceptBegins ==
  /\ accepted < MaxClients
  /\ Begins("accept", accepted)
  /\ UNCHANGED netVars

Accept_NotCounted ==
  /\ Ends("accept")
  /\ open' = open \cup {client["io"]}
  /\ pending' = pending \cup {<<client["io"], "read">>}
  /\ waiting' = Append(waiting, client["io"])
  /\ UNCHANGED <<job, accepted, hasRoom, seated, queueVars, stop>>

\* AddClient, Start and OnConnect.  A read is outstanding from now on, and a
\* write may be when the connection fails; one that ends before has no part.
Accept ==
  /\ Ends("accept")
  /\ accepted' = accepted + 1
  /\ open' = open \cup {client["io"]}
  /\ \E writes \in {{}, {"write"}} :
       pending' = pending \cup ({client["io"]} \X ({"read"} \cup writes))
  /\ waiting' = Append(waiting, client["io"])
  /\ UNCHANGED <<job, hasRoom, seated, queueVars, stop>>

ReceiveBegins ==
  /\ received < MaxMessages /\ Len(incoming) < MaxPending
  /\ \E c \in open : <<c, "read">> \in pending /\ Begins("receive", c)
  /\ UNCHANGED netVars

Receive_PushesFront ==
  /\ Ends("receive")
  /\ \E type \in Jobs :
       incoming' = <<[type |-> type, client |-> client["io"]]>> \o incoming
  /\ received' = received + 1
  /\ UNCHANGED <<job, netVars, roomVars, stop>>

Receive ==
  /\ Ends("receive")
  /\ \E type \in Jobs :
       incoming' = Append(incoming, [type |-> type, client |-> client["io"]])
  /\ received' = received + 1
  /\ UNCHANGED <<job, netVars, roomVars, stop>>

\* A read or a write fails; once the socket is closed, the other does too.
FailureBegins ==
  \E p \in pending :
    /\ Begins("close", p[1])
    /\ pending' = pending \ {p}
    /\ UNCHANGED <<accepted, open>>

Close ==
  /\ Goes("io", "close", "seekWaiting")
  /\ open' = open \ {client["io"]}
  /\ UNCHANGED <<client, job, accepted, pending, roomVars, queueVars, stop>>

Io ==
  \/ AcceptBegins \/ ReceiveBegins \/ FailureBegins
  \/ Accept \/ Receive \/ Close \/ OnDisconnect("io")

\* What the io thread does once it is in a handler.
IoGoesOn == at["io"] # "idle" /\ Io

Signal ==
  /\ ~stop /\ stop' = TRUE
  /\ UNCHANGED <<threadVars, job, netVars, roomVars, queueVars>>

-----------------------------------------------------------------------------

Running == ~Undefined /\ at["main"] \notin {"crashed", "stopped"}

Next == Running /\ (Main \/ Io \/ Signal)

\* Both threads run; the network and the user owe nothing.
Spec ==
  /\ Init
  /\ [][Next]_vars
  /\ WF_vars(Running /\ Main)
  /\ WF_vars(Running /\ IoGoesOn)

-----------------------------------------------------------------------------
(* Properties *)

Seeking == {"seekWaiting", "leaveWaiting", "seekRooms", "leaveRoom"}
IoStages == {"idle", "accept", "receive", "close"} \cup Seeking
MainStages ==
  {"poll", "front", "lookup", "check", "search", "fail", "move", "moved", "answer",
   "send", "canvas", "create", "creator", "found", "tell", "play", "pop",
   "joining", "stopped", "crashed"} \cup Seeking

\* Every variable has its type.
TypeOK ==
  /\ at \in [main : MainStages, io : IoStages]
  /\ client \in [Threads -> Ids \cup {Nobody}]
  /\ job \in Jobs \cup {"none"}
  /\ accepted \in 0 .. MaxClients
  /\ open \subseteq 0 .. (accepted - 1)
  /\ pending \subseteq (0 .. (accepted - 1)) \X {"read", "write"}
  /\ waiting \in Seq(Ids)
  /\ hasRoom \in BOOLEAN
  /\ seated \subseteq Ids
  /\ incoming \in Seq([type : Jobs, client : Ids])
  /\ received \in 0 .. MaxMessages
  /\ stop \in BOOLEAN

\* Until the threads meet, no room holds a client whose socket is closed,
\* but for the one that the io thread is about to take out.  OnDisconnect
\* looks through the waiting room first, the way clients move.
NobodyLeftBehind ==
  \A c \in ToSet(waiting) \cup seated :
    \/ c \in open
    \/ client["io"] = c /\ at["io"] \in Seeking

\* pop_front removes the message that has been handled, though the io thread
\* appends others meanwhile.
PopsWhatWasHandled ==
  at["main"] \notin {"poll", "front", "joining", "stopped"} =>
    incoming # <<>> /\ Head(incoming) = [type |-> job, client |-> client["main"]]

\* When the main thread follows a null pointer or a pointer to a client that
\* is gone, without having met the io thread, then the client it serves has
\* left while its message was handled: GetClient is called again for that.
CrashNeedsLeaver ==
  at["main"] = "crashed" \/ Dangling =>
    client["main"] < accepted /\ client["main"] \notin open

\* Where the clients are, access by access.
Home == INSTANCE Homes WITH
  entered <- 0 .. (accepted - 1), waiting <- ToSet(waiting)

\* Until the threads meet, their clients come, move on and leave as in Homes.
KeepsHomes == Home!Spec

Spins == at["main"] = "search" /\ waiting # <<>> /\ Head(waiting) # client["main"]

\* SIGINT stops the server once its players are silent: both threads end,
\* unless the main thread spins or has crashed or met the other.
Stops == stop ~> (at["main"] \in {"stopped", "crashed"} \/ Spins \/ Undefined)
=============================================================================
