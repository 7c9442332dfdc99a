------------------------------- MODULE Room -------------------------------
(***************************************************************************)
(* The data of a Room (server/src/Room.h, Room.cpp) and what each of its   *)
(* methods does to that data and posts to its clients.  A room is a record *)
(*                                                                         *)
(*   clients        m_clients, the connection ids in their vector order    *)
(*   second         the ids whose pair in m_clients has second = true      *)
(*   currentDrawer  m_currentDrawer, where 0 also stands for "nobody"      *)
(*   word           m_word                                                 *)
(*   drawCommands   m_drawCommands                                         *)
(*                                                                         *)
(* A method that sends is two operators: the room it leaves, and its       *)
(* posts, a function from clients to the messages posted to each of them,  *)
(* in order.  GenerateWord's random word is the argument w, which the      *)
(* caller quantifies.                                                      *)
(*                                                                         *)
(* A name with an underscore, here and in the modules above, is a mutant   *)
(* of the definition that follows it: a slip that the properties named in  *)
(* PROJECT.json must notice.  No other definition uses it.                 *)
(***************************************************************************)
EXTENDS Integers, SequencesExt

RoomRecords(Ids, W, C) ==
  [clients : Seq(Ids), second : SUBSET Ids, currentDrawer : Ids \cup {0},
   word : W, drawCommands : Seq(C)]

EmptyRoom(w) ==
  [clients |-> <<>>, second |-> {}, currentDrawer |-> 0,
   word |-> w, drawCommands |-> <<>>]

Members(room) == ToSet(room.clients)

Position(room, id) == CHOOSE i \in DOMAIN room.clients : room.clients[i] = id

---------------------------------------------------------------------------
(* Messages the server sends; header fields that no client reads are left  *)
(* out, and so is the empty word of a client that does not draw.           *)

SetClientId(id) == [type |-> "SetClientId", client_id |-> id]

SetRoomId(r) == [type |-> "SetRoomId", room |-> r]

SetDrawer(room, id) ==
  IF id = room.currentDrawer
  THEN [type |-> "SetDrawer", isDrawer |-> TRUE, word |-> room.word]
  ELSE [type |-> "SetDrawer", isDrawer |-> FALSE]

Canvas(room) == [type |-> "CanvasPacket", commands |-> room.drawCommands]

Drawing(command) == [type |-> "DrawCommand", command |-> command]

CorrectGuess(id) == [type |-> "CorrectGuess", client_id |-> id]

WrongGuess(id, guess) ==
  [type |-> "GuessPacket", client_id |-> id, guess |-> guess]

Broadcast(room, message) == [c \in Members(room) |-> <<message>>]

BroadcastExcept(room, message, id) ==
  [c \in Members(room) \ {id} |-> <<message>>]

\* What the connections' outgoing queues hold once posts have been added.
Post(outgoing, posts) ==
  [c \in DOMAIN outgoing |->
     IF c \in DOMAIN posts THEN outgoing[c] \o posts[c] ELSE outgoing[c]]

---------------------------------------------------------------------------
(* Membership *)

AddClient_AllSecond(room, id) ==
  [room EXCEPT !.clients = Append(@, id),
               !.second = @ \cup {id},
               !.currentDrawer = IF room.clients = <<>> THEN id ELSE @]

\* The first client of an empty room draws, and enters with second = true.
AddClient(room, id) ==
  LET drawer == room.clients = <<>>
  IN  [room EXCEPT !.clients = Append(@, id),
                   !.second = IF drawer THEN {id} ELSE @,
                   !.currentDrawer = IF drawer THEN id ELSE @]

Erase(room, id) ==
  [room EXCEPT !.clients = RemoveAt(@, Position(room, id)),
               !.second = @ \ {id}]

MoveOut_NoErase(room, id) ==
  [room EXCEPT !.currentDrawer = IF @ = id THEN 0 ELSE @]

\* MoveClient on the room that loses the client: nobody is promoted.
MoveOut(room, id) ==
  [Erase(room, id) EXCEPT !.currentDrawer = IF @ = id THEN 0 ELSE @]

\* What is left of a room that vector growth moved: the move constructor
\* does not carry m_currentDrawer over, so its initializer 0 stands.
Relocated(room) == [room EXCEPT !.currentDrawer = 0]

---------------------------------------------------------------------------
(* Rounds *)

\* Both callers pass the id of a client of a room that is not empty, so the
\* early returns of PromoteDrawer are not taken.
PromoteDrawer(room, id) == [room EXCEPT !.currentDrawer = id]

PromoteDrawerPosts_OnlyDrawer(room) ==
  [c \in Members(room) |->
     IF c = room.currentDrawer THEN <<SetDrawer(room, c), Canvas(room)>>
     ELSE <<Canvas(room)>>]

PromoteDrawerPosts_CanvasFirst(room) ==
  [c \in Members(room) |-> <<Canvas(room), SetDrawer(room, c)>>]

\* The loop of PromoteDrawer tells client j whether it draws and then sends
\* everybody the canvas: of the n + 1 messages the client at position k
\* gets, the k-th is SetDrawer and the others are canvases.
PromoteDrawerPosts(room) ==
  [c \in Members(room) |->
     [i \in 1..(Len(room.clients) + 1) |->
        IF i = Position(room, c) THEN SetDrawer(room, c) ELSE Canvas(room)]]

\* NewRound's search for m_currentDrawer has no end check.
SearchOverruns(room) ==
  room.clients # <<>> /\ room.currentDrawer \notin Members(room)

\* "the next drawer to the right of the current drawer", cyclically.
NextDrawer(room) ==
  room.clients[(Position(room, room.currentDrawer) % Len(room.clients)) + 1]

NewRound(room, w) ==
  PromoteDrawer([room EXCEPT !.word = w, !.drawCommands = <<>>, !.second = {}],
                NextDrawer(room))

Guessers(room) == Members(room) \ {room.currentDrawer}

AllCorrect(room) == Guessers(room) \subseteq room.second

---------------------------------------------------------------------------
(* RemoveClient *)

DrawerLeaves(room, id) == id = room.currentDrawer /\ Len(room.clients) > 1

AfterLeaving_NoPromotion(room, id) == Erase(room, id)

AfterLeaving(room, id) ==
  LET left == Erase(room, id)
  IN  IF id # room.currentDrawer THEN left
      ELSE [left EXCEPT !.currentDrawer = IF left.clients = <<>> THEN 0
                                          ELSE Head(left.clients)]

LeavingEndsRound_Never(room, id) == FALSE

\* Here allCorrect starts true: a room with only its drawer left is over.
LeavingEndsRound(room, id) ==
  /\ Len(room.clients) > 1
  /\ AllCorrect(AfterLeaving(room, id))

LeavingOverruns(room, id) ==
  LeavingEndsRound(room, id) /\ SearchOverruns(AfterLeaving(room, id))

RemoveClient(room, id, w) ==
  IF LeavingEndsRound(room, id)
  THEN NewRound(AfterLeaving(room, id), w)
  ELSE AfterLeaving(room, id)

RemoveClientPosts(room, id, w) ==
  [c \in Members(room) \ {id} |->
     (IF DrawerLeaves(room, id)
      THEN PromoteDrawerPosts(AfterLeaving(room, id))[c] ELSE <<>>)
     \o
     (IF LeavingEndsRound(room, id)
      THEN PromoteDrawerPosts(RemoveClient(room, id, w))[c] ELSE <<>>)]

---------------------------------------------------------------------------
(* CheckWord, for an id of the room; the comparison ignores case, so a     *)
(* guess stands for its lower-case form.                                   *)

Judge(room, guess, id) ==
  [room EXCEPT !.second = IF guess = room.word THEN @ \cup {id}
                          ELSE @ \ {id}]

\* Here allCorrect starts false: somebody must have guessed.
GuessEndsRound(room, guess, id) ==
  Guessers(room) # {} /\ AllCorrect(Judge(room, guess, id))

GuessOverruns(room, guess, id) ==
  GuessEndsRound(room, guess, id) /\ SearchOverruns(room)

CheckWord(room, guess, id, w) ==
  IF GuessEndsRound(room, guess, id)
  THEN NewRound(Judge(room, guess, id), w)
  ELSE Judge(room, guess, id)

CheckWordPosts(room, guess, id, w) ==
  LET answer == IF guess = room.word THEN CorrectGuess(id)
                 ELSE WrongGuess(id, guess)
  IN  [c \in Members(room) |->
         <<answer>> \o
         (IF GuessEndsRound(room, guess, id)
          THEN PromoteDrawerPosts(CheckWord(room, guess, id, w))[c] ELSE <<>>)]

---------------------------------------------------------------------------
(* Canvas *)

AddDrawCommand(room, command) ==
  [room EXCEPT !.drawCommands = Append(@, command)]

ClearCanvas(room) == [room EXCEPT !.drawCommands = <<>>]
===========================================================================
