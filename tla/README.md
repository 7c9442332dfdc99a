# Pixelnary: specification, model checking and proofs

Pixelnary is a drawing game: one player of a room draws a word, the others
guess it. A C++ server (`server/src`) holds the rooms; every player runs a
Python frontend (`frontend/src`) with a TCP connection to it. There are no
tests. This directory specifies the server and the frontends in TLA+, checks
small instances with TLC, and proves with TLAPS, for every size of the
instance, most of the safety properties of the server, its threads, its
connections and the frontend's socket.

## 1. The system

| part | state | operations | model |
|---|---|---|---|
| `Server` (Server.h/.cpp) | connection counter, waiting room, `m_rooms`, shared `m_incomingMessageQueue` | accept, `OnConnect`, `OnDisconnect`, `HandleMessages` (JoinRoom, CreateRoom, DrawCommand, GuessPacket, CanvasPacket), `Stop` | `GameServer` handler by handler, `ServerThreads` access by access |
| `Room` (Room.h/.cpp) | clients with a flag, drawer, word, canvas | add, move, remove, check a word, new round, promote, draw, clear | `Room` |
| `ClientConnection` (Connection.h/.cpp) | socket, outgoing queue, message being read | posted sends, send chain, receive chain, disconnect | `Connection`; whole messages in `GameServer` |
| `Message`, `MessageTypes` | payload bytes, 8-byte header | push and pop of payloads | `Message` for draw commands; field widths in `GameServer` |
| `Main.cpp` | `stop` | the signal handler, the loop of the main thread, `Stop` | `ServerThreads`; fairness of `HandleMessages` in `GameServer` |
| `ScribbleGame` (main.py) | screen, `drawer`, `word`, `is_guessing`, handlers | `on_packet_received`, `handle_join`, `handle_create`, `handle_send`, ... | `Pixelnary` |
| `ScribbleSocket`, `ReaderThread` (packet_manager.py) | socket, `client_id`, `room_id`, `running`, `fetching_data` | constructor, `run`, `close` | `ScribbleSocket`; whole messages in `Pixelnary` |
| `Paint` (paint.py) | canvas, old point | paint, release, clear, update | `Drawing`; whole strokes in `Pixelnary` |
| `ScreenManager`, `Logger`, build files, asio | | | not modelled |

How they interact. The server has two threads that share everything without a
lock ("We might need these to be locking...", Connection.h:48). The *io
thread* runs asio's handlers one at a time: it accepts connections, reads
messages into `m_incomingMessageQueue`, writes the outgoing queues, and calls
`OnDisconnect` when a read or a write fails. The *main thread* runs
`while (!stop) HandleMessages()`, which handles the front message and pops it.
A frontend has the Tk loop, which sends what the player does, and the reader
thread, which hands one packet after the other to `on_packet_received`. The
drawer's Tk loop and its reader share the old point of the stroke.

What is hard about it: the two threads' steps interleave; a client is in the
waiting room, in a room, moving or gone; the drawer may leave, win or lose its
room at any time; 0 is both "nobody" and the id of the first client; ids are
cut to 8 bits in the header; `std::vector<Room>` moves its rooms when it grows;
what a frontend believes lags behind what the server decided; in a frontend,
the Tk loop closes the socket under a reader that may be anywhere in its loop.
`PROJECT.json` lists these hazards at their lines, with the properties that
are there to catch them.

What makes each part correct:

- **Server and Room**: every connection is in exactly one room; a room with
  clients has one of them as its drawer; a round ends exactly when all who
  guess are right; `NewRound` stays inside its vector; messages are handled.
- **Frontend**: once it has read its messages, it agrees with the server on
  who draws, on the word and on the canvas, and it lets a player guess exactly
  as long as the server wants guesses from it.
- **The two threads**: as long as their accesses do not meet, nobody is lost
  between the rooms, the message that is popped is the one that was handled,
  and SIGINT ends both.
- **Drawing**: who joins sees what the server keeps, as long as
  `paint()` raises nothing the drawer sees only what the server will keep, and
  strokes do not jump.
- **Connection and ScribbleSocket**: messages arrive whole, once and in order;
  closing ends.

## 2. The modules

- **Room** — a room as a record, each method as an operator on it, and a
  second operator for what the method posts to the clients, as a function from
  clients to sequences of messages. `GenerateWord`'s choice is the argument
  `w`. No state machine of its own: `GameServer` applies the operators to the
  waiting room and to the game rooms, as the server does.
- **GameServer** (extends Room) — the server. One action per handler:

  | action | code |
  |---|---|
  | `AcceptConnection`, `AcceptAlreadyReset` | `AsyncWaitForConnection`, `OnConnect`; the second is the uncaught exception of `remote_endpoint()` |
  | `Arrive`, `Sent` | the receive and the send chain of a connection, for a whole message |
  | `Disconnect`, `DisconnectOverruns` | `ClientConnection::Disconnect` with `OnDisconnect`; the second when `NewRound` reads past the vector |
  | `HandleJoinRoom`, `JoinRoomSpins`, `SpinEnds` | the JoinRoom case; its endless search, and what can end it |
  | `HandleCreateRoom` | the CreateRoom case; `Grow` is `emplace_back`, with the capacity and the move of the rooms |
  | `HandleDrawCommand`, `HandleGuessPacket`, `HandleCanvasPacket` | the other cases |

  `serverState` is "running", "spinning" or dead ("uncaught", "overrun"). A
  dead process takes no step; what it had changed by then does not matter.
- **Channels** — what the server takes its connections for, as an abstract
  specification: each opens once, delivers what was sent to it one message at
  a time and in order, and closes once, losing what it had not delivered.
  Nothing is sent to one that is not open.
- **Homes** — where the clients are, as an abstract specification: each enters
  the waiting room once, may move to a game room once, and leaves for good.
- **ServerThreads** — the two threads of the server, access by access:

  | action | code |
  |---|---|
  | `Poll`, `Take`, `Pop` | the loops of `Main.cpp:29` and `HandleMessages`, the copy of the front message, `pop_front` |
  | `Lookup`, `Check`, `SearchEnds`, `Fail`, `MoveClient`, `Respond`, `Answer`, `SendCanvas` | the JoinRoom case, with each of its calls of `GetClient` |
  | `Create`, `Creator`, `Found`, `Tell` | the CreateRoom case, with both |
  | `Send` | `SendMessage`, which finds the socket open or goes on to `OnDisconnect` |
  | `Play` | the three cases that call a method of the room |
  | `SeekWaiting`, `LeaveWaiting`, `SeekRooms`, `LeaveRoom` | `OnDisconnect`, in either thread |
  | `AcceptBegins`, `Accept`, `ReceiveBegins`, `Receive`, `FailureBegins`, `Close` | the io thread's handlers |
  | `Signal`, `Join` | SIGINT, and `Stop`, which joins the io thread |

  A thread is always in a stage, a stretch of code in which it uses some of the
  shared objects or holds an iterator into them; `Reads` and `Writes` say
  which. `Undefined` holds when both threads are in stages that use one object
  and one of them changes it (`Overlap`), or when the main thread is about to
  use a client that nobody holds any more (`Dangling`). What happens then is
  undefined, so the behaviour ends there; a null pointer ends it too
  ("crashed"). The properties say what holds up to that point. That these
  points are reached is no question to the model: Connection.h:48 says so.
- How they fit: `GameServer` and `ServerThreads` both implement `Homes`, the
  one with handlers as steps, the other with accesses. That is what justifies
  the handlers as steps in `GameServer`, for the clients' whereabouts and up to
  the point where the code is undefined.
- **Connection** — one `ClientConnection` from the inside:

  | action | code |
  |---|---|
  | `SendMessage`, `RunPosted` | `SendMessage`, in the calling thread, and the handler it posts |
  | `WriteCompletes` (`HeaderSent`, `PayloadSent`), `WriteFails` | the handlers of `AsyncSendHeader` and `AsyncSendPayload` |
  | `HeaderRead`, `PayloadRead`, `EmptyPayloadRead`, `ReadFails` | the handlers of `AsyncReceiveHeader` and `AsyncReceivePayload` |
  | `PeerSends`, `PeerCloses` | the frontend's `send_packet` and `close` |
  | `PeerStalls` | a reader thread that has died, with the socket still open |

  Messages are their numbers; a part is a header or a payload. `writes` is the
  set of outstanding `async_write`s, so that there could be two; `read` is the
  outstanding `async_read`. The asio calls themselves are external. A handler
  that fails closes the socket; the operation of the other chain is aborted by
  that, or it has ended well just before and its handler runs afterwards
  (`late`), starting an operation that fails.
- How they fit: `GameServer` and `Connection` both implement `Channels`, from
  its two sides. `GameServer`'s outgoing queues are the channel's queues as
  they stand (`KeepsChannels`); a connection's queue is what it has queued
  followed by what has been posted to it (`Undelivered`), and nothing once the
  socket is closed (`ImplementsChannel`). That justifies the one step per
  message of `Sent` and the emptied queue of `Disconnect` in `GameServer`.
- **Pixelnary** (extends GameServer) — the server with a frontend behind each
  connection. `OnPacket` is `on_packet_received`; a player's click is an action
  that sends through `Arrive`; the reader's step consumes through `Sent`.
- **Message** — the payloads of draw commands as bytes: `Push` and `Pop` with
  the size in the header, `Bytes` and `Parse` for packing and parsing. No
  state machine of its own.
- **Drawing** (extends Message) — a drawing on its way from a mouse to a viewer:

  | action | code |
  |---|---|
  | `Motion`, `CreateLine`, `SendDrawing`, `Store` | `paint()`, statement by statement, with its exceptions |
  | `Release`, `HandleOnClear` | `reset`, `handle_on_clear` |
  | `Delete`, `Reset` | `update_canvas` in the drawer's reader, for the canvas that comes back after a clear |
  | `HandleDrawCommand`, `HandleCanvasPacket`, `Join` | the server's cases, with `SendCanvas` |
  | `View` | the viewer's reader |

  The drawer is the same all the time, and there is one viewer, who joins at
  any time and stays.
- **ScribbleSocket** — the socket of one frontend, on a stream of bytes:

  | action | code |
  |---|---|
  | `ReadId`, `ConnectFails` | the constructor: the first header, the start of the reader; an exception |
  | `Stop`, `Closing` | `close()` called by `handle_leave` or `on_close`; the wait for `fetching_data`, `socket.close()`, `self.socket = None` |
  | `StartReading`, `CheckRunning`, `HeaderReceived`, `NothingReceived`, `SetBlocking`, `Announce`, `PayloadReceived`, `Fetched`, `Unblock`, `Handle` | `run()`, statement by statement |
  | `FetchInterrupted` | the `BlockingIOError` of the payload's `recv` |
  | `ReceiveRaises`, `SetBlockingRaises`, `FetchRaises`, `HandleRaises` | the exceptions that end the thread |
  | `BytesArrive`, `StreamEnds` | the network |

  `tk` is where the Tk loop stands; `running` and whether the socket is open
  follow from it (`Running`, `SocketOpen`). `reader` holds the reader's next
  statement, `fetching_data`, the mode of the socket and the packet. A byte is
  its message and its place in it, so a header read from the middle of a
  message is known to be none and may say anything. One socket's life: a
  second connection of the same process after leaving is a socket of its own.
- **MCGameServer**, **MCPixelnary**, **MCConnection**, **MCScribbleSocket**,
  **MCServerThreads**, **MCDrawing** — the instances for TLC: a VIEW without
  the outgoing queues, a specification that starts with a game under way, four
  points for the mouse, and the others as they are.
- **RoomProofs**, **GameServerProofs**, **ServerThreadsProofs**,
  **ConnectionProofs**, **ScribbleSocketProofs**, **PixelnaryProofs**,
  **DrawingProofs** — the theorems. **FoldProofs** — what they need of folds
  over a queue.

A name with an underscore (`AddClient_AllSecond`) is a mutant of the
definition that follows it, a plausible slip that the properties notice; no
specification uses it.

### Abstractions

- In `GameServer` a handler is one step. The two threads interleave between
  handlers and while the main thread spins; inside the handlers they do in
  `ServerThreads`.
- In `ServerThreads` a stage is as long as the code uses the same objects, and
  what it does is done when it is left. A message is its type and its sender;
  a sender creates, joins or plays in one game room, and what is in another
  room would be the same. `m_incomingMessageQueue.empty()` sees a queue that is
  being appended to as it was or as it will be, so `Poll` has no stage. Once
  the main thread is in `Stop`, the io context takes up no handler.
- In `GameServer` and `Pixelnary` messages are whole. In `Connection` they have
  two parts; a part is written and read as a whole, because `async_write` and
  `async_read` are, and a part cut short is a part that never comes.
- In `GameServer` nothing arrives from a connection after `Disconnect`. In
  `Connection` the last message may be queued just after the socket was closed
  (`late`); the queue is then as if it had arrived just before.
- Words, guesses and strokes are atoms, compared as the
  code compares them (a guess stands for its lower-case form). A stroke of
  player c is the command c, so that a canvas tells who drew it.
- Header fields that nobody reads are left out. Ids and room numbers keep
  their width as `IdRange` and `RoomRange`; the 32-bit counters behind them
  do not wrap.
- The server sends what the frontend can send, in any order: `PlayerMessages`
  has every type, room number and payload with the id the server told the
  sender. Messages the frontend never sends (unknown types, draw commands with
  several strokes) are left out.
- In `Pixelnary` a message that is sent is read by the server in the same
  step. The server reacts only when the message has its turn in the incoming
  queue, and what a frontend does depends only on what it had read when it
  sent; a frontend's later reads do not touch the message, so a delay between
  send and read adds no new behaviour of the server.
- In `Drawing`, `old_x` and `old_y` are one variable, and a number of a command
  is its two bytes. The color is constant.
- A frontend lives as long as its connection. Leaving is `Disconnect`.
- After the spin, `SpinEnds` is the case in which the search finds the client
  in the first slot, or sees that the waiting room is empty; reads of slots
  the io thread is changing at that moment are left out.

## 3. The runs

| run | instance | what it shows |
|---|---|---|
| `server` | 4 connections, `IdRange = 3`, 2 room numbers, 5 messages, 2 pending | types, homes, drawers, ends of rounds; what it takes to die; the fourth connection is told id 0 |
| `connection` | one connection, 4 messages each way, two without payload, one of them of type Null | the write and read chains, the end of a connection, with a peer that may stop reading, and that it is a channel |
| `round` | game under way, 2 seated and 1 at the menu, 2 words, 3 messages | roles, words and canvases agree once messages are read |
| `table` | 2 players from the start, 2 rooms, 4 messages | the same from connecting on; the frontends' state keeps its type; messages are handled; a waiting creator gets into a room; the outgoing queues are channels |
| `socket` | one frontend, 5 messages (SetClientId, SetRoomId, three whose payload is fetched, one of them empty), 2 bytes of header and payload | packets are handed over in order, the reader ends, `close()` returns unless a fetch was interrupted |
| `threads` | 2 clients, 3 messages, 2 pending, SIGINT at any time | nobody is left behind, the right message is popped, what a crash needs, `Homes`, and that the server stops |
| `drawing` | 4 motions, releases and clears; points inside, on the left edge, beyond one byte and beyond the edge | sizes and payloads fit, the viewer catches up, what is shown is kept, strokes connect |
| `spin`, `late_guess`, `drawer_left`, `growth`, `close_hangs` | the smallest instance that shows it | a documented intention the code does not meet (section 5) |

Bounds. Three connections are what the interesting cases need: a drawer, one
who guesses and one who joins or waits behind another; the fourth is the first
whose id does not fit the header. Two creations make `m_rooms` grow with a room
in it (capacities 1 and 2); a growth of two rooms differs from that of one only
in how many rooms lose their drawer, and the proofs cover every capacity. Two
pending messages let a message be overtaken by a disconnection, a growth or the
next round; more would only queue longer. `MaxReceived` is the length of the
story: five messages are create, join, create, join and one more, or create,
join, join, two guesses. Four messages in each direction give the write chain a
message that waits behind one under way and another that is posted meanwhile,
with every change between messages with and without payload, and let a Null
message come after others. Two bytes are enough for a header or a payload to
come in two pieces and for a reader that has lost its place to take the end of
one for the start of another. Two clients in `threads` are one in each thread;
the three messages are a creation, a join and one that is appended meanwhile.
Four events in `drawing` are a stroke of two commands, a clear or a release in
its middle, and one more. `VIEW` drops the outgoing queues in the run `server`:
no action reads them but the one that takes a message off, and of the properties
of that run only `TypeOK` mentions them. TLC checks that conjunct of it in one
state for each view and not in all; that it holds in all of them is the theorem
`TypeCorrect`.

Deadlock is not checked: a behaviour really ends, when the process has died,
and when the bounds are used up.

Fairness. `HandleMessages` is weakly fair: the main thread calls it in an
endless loop (Main.cpp:29). `Reader(c)` is weakly fair: the reader thread polls
its socket in an endless loop. Nothing else is fair: players owe no click,
peers may stay or go, accepting may never happen, and `SpinEnds` is up to the
clients in front. `QueueIsEmptied` needs the first, `CreatorGetsARoom` both:
the answer is read and the JOIN_ROOM sent by the reader. In `Connection` the io
thread runs what was posted to it. `Connection.cpp` sets no time limit for a
write, so a write is only promised to end as long as the peer reads
(`peerReads`), and when the socket is closed, which aborts it. A peer may stop
reading at any time and keep its socket open; its write may then last until it
leaves. `EverythingIsSent` speaks of a peer that goes on reading, `Released` and
`LeaverIsRemoved` of every peer. A read ends when there is something to read, or
when the stream or the socket has ended. A peer may be silent for ever. In `ScribbleSocket` the two threads of
the frontend run, and a message that has begun to arrive arrives or the stream
ends; the player need not leave, `sleep(0.1)` promises nothing, and a handler
that waits for a window that is gone may wait for ever. In `ServerThreads` both
threads go on with what they have begun; players need not send, and they do
fall silent after `MaxMessages`, without which the inner loop, which tests the
queue and not `stop`, might never end. Liveness in `ScribbleSocket` speaks of
behaviours in which no payload comes in pieces (`torn`), since a reader that
has lost its place may wait for a payload that nobody sends.

## 4. The proofs

`GameServerProofs` proves six safety properties of `Spec` for all values of
the constants: `TypeOK`, `OneHome`, `DrawerIsMember`,
`RoundEndsWhenAllGuessed`, `WaitingRoomNeverOverruns` and `OverrunNeedsGrowth`. The assumptions are those of `GameServer`: the
bounds are natural numbers, the widths at least 1, there is a word, and words
can be typed as guesses.

The argument is one inductive invariant, `IInv`:

- `Homes` (a predicate of `GameServerProofs`): the member sets of the waiting
  room and of the rooms are disjoint and together are `open`. `OneHome` alone is
  not inductive without it in this form: a join adds an id to a room, and the
  vector stays free of duplicates only because whoever waits is in no room.
- `SoundRooms`: no vector has a client twice, only clients have flags.
- `LivelyRooms`: in a room in the upper half of the capacity the drawer is a
  client and no round is left over. The two need each other: a newcomer is
  somebody who has yet to guess only because the drawer is somebody else, and
  `NewRound` installs a drawer only because it finds one. Rooms in the lower
  half may have been moved by a growth, which doubles the capacity; a new room
  is empty, hence lively, and after a growth it alone is in the upper half.
- `Quiet(waitingRoom)`: at most the drawer of the waiting room has a flag.
  That is why a waiting room without a drawer, which `MoveClient` leaves
  behind, never starts a round.
- `OverrunNeedsGrowth` as it stands.

`RoomProofs` has the facts about each method: what it does to the members, the
flags and the drawer, and that it keeps a room sound, lively or quiet.
`RemoveAtShape` and `RemoveAtSet` state what `vector::erase` does.

`ConnectionProofs` proves all safety properties of `Connection` and that it
implements `Channels`, for any number of messages of any kind. The invariant
has two halves. Of the send chain: the numbers on the wire, in the queue and in
the posted handlers are consecutive (`Numbered`, `First`), the one write
outstanding is for the front of the queue (`WritesFirst`), and the last part on
the wire tells which (`WireEnd`); without the last two, the handler's look at
the front of the queue could be a look at another message than the one it
wrote. A handler that runs after the close finds its message there too
(`LateWaits`). Of the receive chain: the outstanding read waits for the part that comes
next (`NextIn`) in a stream whose parts are in order (`StreamInOrder`).

`GameServerProofs` also proves that the server keeps `Channels` for any number of
connections. `IInv` is enough with `Silent`, that a closed connection has
nothing queued: rooms post to their members, and `Homes` says that members are
open. It also proves that the server keeps the abstract specification of the
module `Homes` (`KeepsHomes`), from the same invariant: as open connections are
in exactly one room, who is seated follows from who is open and who waits, so
only the waiting room has to be looked at.

`ServerThreadsProofs` proves all safety properties of `ServerThreads`, for any
number of clients and messages. The invariant says, for each stage of each
thread, what the thread knows of its client (`MainFits`, `IoFits`), and that
the vectors have no duplicates and hold every open client (`RoomsFit`). One
thread's step keeps what the other knows because they have not met: `Apart`
lists the stages that exclude each other. Where the threads may interleave,
what is known is weaker, "in the room or gone", and that is why a crash needs
a client that has left. `ThreadsKeepHomes` is the refinement of `Homes`.

`ScribbleSocketProofs` proves `TypeOK` and `HandledInOrder` for any sizes of
header and payload. What is to come, the buffer and the byte the network
brings next, is consecutive; and at each statement of `run()` it is known
which byte comes first (`InPlace`), as long as no payload came in pieces.

`PixelnaryProofs` proves that a step of the game is a step of the server
(`GamePlaysTheServer`): a frontend sends only what `PlayerMessages` has. The
theorems of the server then hold of the game; `EveryPlayerHasOneHome` and
`GameKeepsChannels` are two of them. The invariant is the server's with the
frontends' types: every id and number that a frontend reads was written by the
server within the widths.

It also proves what the players see, `PlayersKnowTheirRole` and
`GuessersSeeTheCanvas`, for any number of players, rooms and messages on their
way. Both speak of a frontend once it has read its queue (`Now`), and the
invariant, `AllInformed`, says of it that it is `Informed` of its room: it
knows its role (`KnowsRole`), and unless it draws it sees the canvas
(`SeesCanvas`). A role alone would be inductive, a canvas is not: whether a
draw command reaches the screen depends on the role the frontend has when it
reads it. There is a lemma for each thing the server posts: after it, whatever
the frontend was before, or if it was informed before, it is informed of the
room as it is then. `PromotionInforms` is the hard one: `PromoteDrawer` sends
each member as many canvases as there are clients in the room, and its role
somewhere between them; only because a canvas follows the role does a frontend
whose screen was cleared by it see the drawing. The frontends' own steps are
the easy half: what is read is no longer in the queue, and what else a
frontend changes nobody asks about (`Alike`).

`GuessersSeeTheDrawing` says that `GuessersSeeTheCanvas` holds as long as no
more connections were made than there are ids in a header, 256 in the code
(`IdsDiffer`); the runs that check it stay within that. A stroke is not sent to
the client whose id is in its header, and it must be that client who drew it
(`StrokesSigned`). With more connections a player can be left out
for another, and the property is false. Take four players and
two ids: player 0 draws and player 1 guesses in room 0, players 2 and 3 wait.
Player 3 asks to join room 0; its header says 1, and 1 does not wait, so the
server drops the message, but the frontend has set its room id. Player 2
leaves; player 3 is promoted in the waiting room and draws; its strokes go to
room 0 under the id 1, to everybody in it but player 1. `PlayersKnowTheirRoles`
needs no such condition. Ids are never given back, so a step in whose end they
differ began so; the lemmas about the steps conclude `StayInformed`, and
`StepsInform` puts the two together.

`DrawingProofs` proves all the properties of `Drawing`, for any points and any
number of events. `TypeOK` and `HeaderTellsSize` rest on wires whose messages
fit their headers (`Mail`): a draw command that fits is one command, so that
the viewer has one to append and the server one to pass on. `ViewerCatchesUp`,
`ShownIsKept` and `StrokesConnect` come from `CanvasInv`. It adds that a canvas
that a clear sends, and the server's answer, has no commands (`ClearsAreEmpty`),
that nobody is sent anything before it has joined (`NobodyWatches`), and
where `paint()` stands: before `SendDrawing`, the line to be sent is the last on
the canvas (`LineIsShown`); after it, the last command that will be kept ends
where the mouse is (`EndIsKept`), which `Store` makes the point to go on from.
`CommandsSurvive` is about the payloads themselves: parsing what was packed
gives the commands back.

`FoldProofs` is what the last two modules need of `FoldLeft`. `FoldLeft` is
defined by a recursive function over subsets of the queue's indices, which the
provers know nothing of. It is shown to be the last state of a run, a function
from 0 to the length of the queue in which each step reads one message; the
theorem that every set of numbers has a least one then does the work of an
induction (`NatSet`, `IntervalSet`). `ReachedTail`, `ReachedMore` and
`ReachedConcat` take a message from the front, put one at the end, put one
queue after the other; `ReachedStays` and `ReachedRelated` carry a property
of one state, and a relation of two, through the queue.

The assumptions are the named ones of the modules: bounds are natural numbers,
headers and payloads have at least one byte, there is a word, and every player
has a stroke of its own.

Only model-checked is liveness: `QueueIsEmptied`, `CreatorGetsARoom`,
`EverythingIsSent`, `Released`, `LeaverIsRemoved`, `ReaderEnds`,
`CloseReturnsUnlessInterrupted` and `Stops`. It is out of this prover's reach.
Every invariant and every refinement that a passing run checks is a theorem.

## 5. What the runs found

- **spin**: the search of the waiting room never advances
  (`Server.cpp:46`, and again `Room.cpp:30`), so a player that is not the
  first in line stops the server for everybody by joining a room.
- **late_guess**: a right guess followed by a wrong one, both sent before the
  first answer is read, leaves a player that the server wants to guess and its
  frontend does not let guess (`Room.cpp:201`, `main.py:271`).
- **drawer_left**: when the drawer leaves in the middle of a round, a player
  that was right may guess again (`main.py:34`, `main.py:271`).
- **growth**: after `m_rooms` has grown, a drawer can leave without anybody
  being promoted (`Room.h:58`, `Room.cpp:65`).
- **close_hangs**: `close()` waits for `fetching_data` to be cleared, which a
  reader whose fetch of a payload was interrupted by `stop()` never does
  (`packet_manager.py:139`): the Tk loop waits for ever.

## 6. Not modelled

- asio (`server/Dependencies`), which is vendored and makes up nearly all lines
  of the repository: used through the rules that its handlers run one at a time
  and that a read or a write ends with success or an error.
- `Logger`, `ScreenManager`, the chat box, the choice of a color and all layout:
  no state the game depends on. The build files.
- `server.properties`, whose `max_clients=10` no code reads: the server accepts
  every connection.
- The payloads of guesses and of the drawer's word as strings, and the
  exceptions of `Message` for a push to a message of another type, which no
  caller meets.
- A promise about shared ids: connection 256 is told that it is client 0, and
  what it sends is handled as client 0's. `GameServer` does what the code does,
  but nothing in the repository says what should happen.
- A `send` of the frontend that takes part of a packet, or raises, because its
  socket does not block (packet_manager.py:105): the reader switches the mode
  of the socket, and what follows depends on the size of the kernel's buffer.
- What the server does after two accesses have met: undefined by the language.
- A frontend that connects a second time, and a drawer that changes in the
  middle of a stroke: `Drawing` has one drawer, `Pixelnary` has changing drawers
  and whole strokes.

What is left to do: the parts of a `send` in `ScribbleSocket`, and a drawer
that changes inside a stroke, which would join `Drawing` to `Pixelnary`.
