--------------------------- MODULE ScribbleSocket ---------------------------
(***************************************************************************)
(* The socket of a frontend (frontend/src/packet_manager.py): the          *)
(* ScribbleSocket, its ReaderThread, and what leaving the game does to     *)
(* both.  The Tk loop opens the socket, closes it, and runs what the       *)
(* reader's handlers draw; the reader takes packets off the byte stream.   *)
(* They share the socket, running and fetching_data without a lock; a step *)
(* here is one statement of either that touches them.                      *)
(*                                                                         *)
(* recv returns what is there, up to what was asked for.  The network      *)
(* brings the stream in pieces of any size.  The sleep of close() is taken *)
(* for no promise about the reader.                                        *)
(***************************************************************************)
EXTENDS Integers, SequencesExt

CONSTANTS
  MaxMessages,  \* bound: messages from the server, of which 1 is SetClientId
  HeaderSize,   \* bytes of a header (8 in the code)
  PayloadSize,  \* bytes of a payload, where there is one
  Plain,        \* the messages whose payload the reader does not fetch
  RoomIds,      \* those of type SET_ROOM_ID
  Empty         \* those whose payload is fetched and is empty

ASSUME SizesAssumption ==
  MaxMessages \in Nat \ {0} /\ HeaderSize \in Nat \ {0} /\ PayloadSize \in Nat \ {0}
ASSUME KindsAssumption == RoomIds \subseteq Plain \ {1} /\ 1 \in Plain

Messages == 1 .. MaxMessages

\* The payload of a message.  The server gives the plain ones none.
PayloadOf(n) == IF n \in Plain \cup Empty THEN 0 ELSE PayloadSize

\* A byte is known by its message and its place in it, from 1 on.
Following(b) ==
  IF b.at < HeaderSize + PayloadOf(b.msg) THEN [b EXCEPT !.at = @ + 1]
  ELSE [msg |-> b.msg + 1, at |-> 1]

VARIABLES
  nextByte,  \* the byte that the network brings next
  stream,    \* "open", "eof" or "reset": what follows the bytes it brought
  buffer,    \* the bytes the socket holds for recv
  tk,        \* where the Tk loop is: in the constructor ("connecting"), in its
             \* main loop ("playing"), in close() ("stopped" until it has seen
             \* fetching_data clear, "closing", "closed"), in its main loop
             \* without a socket ("left"), or "failed"
  window,    \* the window has not been destroyed
  reader,    \* the reader's next statement ("none", "ended", "died" are none),
             \* fetching_data, whether the socket blocks, and its packet
  torn,      \* a recv has returned a part of a payload
  handled    \* the packets given to on_packet_received

vars == <<nextByte, stream, buffer, tk, window, reader, torn, handled>>

Running == tk \in {"connecting", "playing"}
SocketOpen == tk \notin {"closed", "left", "failed"}

\* What the reader takes for a packet when it is not at the start of one.
Garbage == 0

Packet_CountsHeader(n) ==
  [msg |-> n, fetch |-> n \notin Plain, length |-> HeaderSize + PayloadOf(n)]

Packet(n) == [msg |-> n, fetch |-> n \notin Plain, length |-> PayloadOf(n)]

GarbagePackets ==
  [msg : {Garbage}, fetch : BOOLEAN, length : 0 .. PayloadSize]

Init ==
  /\ nextByte = [msg |-> 1, at |-> 1]
  /\ stream = "open"
  /\ buffer = <<>>
  /\ tk = "connecting"
  /\ window = TRUE
  /\ reader = [at |-> "none", fetching |-> FALSE, blocking |-> TRUE, packet |-> Packet(1)]
  /\ torn = FALSE
  /\ handled = <<>>

-----------------------------------------------------------------------------
(* The network *)

BytesArrive ==
  /\ stream = "open" /\ nextByte.msg \in Messages
  /\ buffer' = Append(buffer, nextByte)
  /\ nextByte' = Following(nextByte)
  /\ UNCHANGED <<stream, tk, window, reader, torn, handled>>

StreamEnds ==
  /\ stream = "open"
  /\ stream' \in {"eof", "reset"}
  /\ UNCHANGED <<nextByte, buffer, tk, window, reader, torn, handled>>

-----------------------------------------------------------------------------
(* The Tk loop *)

TkGoes(here, there) ==
  tk = here /\ tk' = there /\ UNCHANGED <<nextByte, stream, torn, handled>>

\* The constructor: the first header is SetClientId's, and the reader starts.
ReadId ==
  /\ TkGoes("connecting", "playing")
  /\ Len(buffer) >= HeaderSize
  /\ buffer' = SubSeq(buffer, HeaderSize + 1, Len(buffer))
  /\ reader' = [reader EXCEPT !.at = "starting"]
  /\ UNCHANGED window

\* A part of a header, the end of the stream, or no answer for 5 seconds: the
\* constructor raises, and the socket goes with the object.
ConnectFails ==
  /\ TkGoes("connecting", "failed")
  /\ Len(buffer) < HeaderSize
  /\ UNCHANGED <<buffer, window, reader>>

\* close() from handle_leave, or from on_close after root.destroy().
Stop ==
  /\ TkGoes("playing", "stopped")
  /\ window' \in BOOLEAN
  /\ UNCHANGED <<buffer, reader>>

\* close() waits until it sees fetching_data clear and closes the socket;
\* close_socket drops it, and the main loop goes on.
Closing ==
  /\ \/ TkGoes("stopped", "closing") /\ ~reader.fetching
     \/ TkGoes("closing", "closed")
     \/ TkGoes("closed", "left")
  /\ UNCHANGED <<buffer, window, reader>>

-----------------------------------------------------------------------------
(* The reader *)

ReaderIs(here) == reader.at = here /\ UNCHANGED <<nextByte, stream, tk, window>>

GoTo(there) == reader' = [reader EXCEPT !.at = there]

\* A step of the reader's own, which receives nothing and hands nothing over.
Inside == UNCHANGED <<buffer, torn, handled>>

\* recv of so many bytes.
Take(n) == buffer' = SubSeq(buffer, n + 1, Len(buffer))

\* settimeout(0) and setblocking(0), which do the same, before the loop.
StartReading ==
  /\ ReaderIs("starting") /\ Inside
  /\ SocketOpen
  /\ reader' = [reader EXCEPT !.blocking = FALSE, !.at = "loop"]

CheckRunning ==
  /\ ReaderIs("loop") /\ Inside
  /\ GoTo(IF Running THEN "receive" ELSE "ended")

\* What eight bytes from the front of the buffer say.
ParsedPackets ==
  IF Head(buffer).at = 1 THEN {Packet(Head(buffer).msg)} ELSE GarbagePackets

HeaderReceived ==
  /\ ReaderIs("receive")
  /\ SocketOpen /\ Len(buffer) >= HeaderSize
  /\ Take(HeaderSize)
  /\ \E p \in ParsedPackets :
       reader' = [reader EXCEPT !.packet = p,
                                !.at = IF p.fetch THEN "setblocking" ELSE "handle"]
  /\ UNCHANGED <<torn, handled>>

\* BlockingIOError, or nothing at the end of the stream: around the loop.
NothingReceived ==
  /\ ReaderIs("receive") /\ Inside
  /\ SocketOpen /\ buffer = <<>>
  /\ stream = "eof" \/ (stream = "open" /\ ~reader.blocking)
  /\ GoTo("loop")

\* The socket is closed or reset, or what was received is no whole header,
\* which unpack refuses.  run() catches neither.
ReceiveRaises ==
  /\ ReaderIs("receive") /\ Inside
  /\ \/ ~SocketOpen
     \/ buffer = <<>> /\ stream = "reset"
     \/ Len(buffer) \in 1 .. (HeaderSize - 1)
  /\ GoTo("died")

SetBlocking ==
  /\ ReaderIs("setblocking") /\ Inside
  /\ SocketOpen
  /\ reader' = [reader EXCEPT !.blocking = Running, !.at = "announce"]

Announce ==
  /\ ReaderIs("announce") /\ Inside
  /\ reader' = [reader EXCEPT !.fetching = TRUE, !.at = "fetch"]

\* There is something to return: no bytes asked for, some there, or the end.
CanFetch == reader.packet.length = 0 \/ buffer # <<>> \/ stream = "eof"

PayloadReceived_Greedy ==
  /\ ReaderIs("fetch") /\ CanFetch
  /\ Take(Len(buffer))
  /\ torn' = (torn \/ Len(buffer) < reader.packet.length)
  /\ GoTo("fetched")
  /\ UNCHANGED handled

\* The payload, or the part of it that is there.  A recv that was under way
\* when the socket was closed still returns.
PayloadReceived ==
  /\ ReaderIs("fetch") /\ CanFetch
  /\ Take(reader.packet.length)
  /\ torn' = (torn \/ Len(buffer) < reader.packet.length)
  /\ GoTo("fetched")
  /\ UNCHANGED handled

\* The socket does not block, since running was no longer set, and there is
\* nothing: BlockingIOError.  fetching_data stays as it is.
FetchInterrupted ==
  /\ ReaderIs("fetch") /\ Inside
  /\ SocketOpen /\ ~CanFetch /\ stream = "open" /\ ~reader.blocking
  /\ GoTo("loop")

FetchRaises ==
  /\ ReaderIs("fetch") /\ Inside
  /\ ~SocketOpen \/ (~CanFetch /\ stream = "reset")
  /\ GoTo("died")

Fetched_StaysAnnounced ==
  ReaderIs("fetched") /\ Inside /\ GoTo("unblock")

Fetched ==
  /\ ReaderIs("fetched") /\ Inside
  /\ reader' = [reader EXCEPT !.fetching = FALSE, !.at = "unblock"]

Unblock ==
  /\ ReaderIs("unblock") /\ Inside
  /\ SocketOpen
  /\ reader' = [reader EXCEPT !.blocking = FALSE, !.at = "handle"]

SetBlockingRaises ==
  /\ ReaderIs("starting") \/ ReaderIs("setblocking") \/ ReaderIs("unblock")
  /\ ~SocketOpen /\ Inside
  /\ GoTo("died")

\* The handler draws, which a thread other than the Tk loop's does by waiting
\* for the main loop.
Draws == reader.packet.msg \notin RoomIds \cup {1, Garbage}

Handle ==
  /\ ReaderIs("handle")
  /\ Draws => tk \in {"playing", "left"} /\ window
  /\ reader.packet.msg \in RoomIds => SocketOpen \/ tk = "left"
  /\ handled' = Append(handled, reader.packet.msg)
  /\ GoTo("loop")
  /\ UNCHANGED <<buffer, torn>>

\* A packet that is not what it seems, a window or a socket that is gone, and
\* self.socket, which is None once the game is left.
HandleRaises ==
  /\ ReaderIs("handle") /\ Inside
  /\ \/ torn
     \/ reader.packet.msg \in RoomIds /\ ~SocketOpen
     \/ Draws /\ (~window \/ tk = "left")
  /\ GoTo("died")

Reader ==
  \/ StartReading \/ CheckRunning
  \/ HeaderReceived \/ NothingReceived \/ ReceiveRaises
  \/ SetBlocking \/ SetBlockingRaises
  \/ Announce
  \/ PayloadReceived \/ FetchInterrupted \/ FetchRaises
  \/ Fetched
  \/ Unblock
  \/ Handle \/ HandleRaises

-----------------------------------------------------------------------------

Next ==
  \/ BytesArrive \/ StreamEnds
  \/ ReadId \/ ConnectFails \/ Stop \/ Closing
  \/ Reader

\* A handler that waits for a window that is gone may wait for ever.
Answered == reader.at = "handle" /\ Draws => window

\* The reader and close() run; a message that has begun to arrive arrives,
\* or the stream ends; the player may stay for ever.
Spec ==
  /\ Init
  /\ [][Next]_vars
  /\ WF_vars(Answered /\ Reader)
  /\ WF_vars(Closing)
  /\ WF_vars(nextByte.at > 1 /\ (BytesArrive \/ StreamEnds))

-----------------------------------------------------------------------------
(* Properties *)

Byte == [msg : 1 .. (MaxMessages + 1), at : 1 .. (HeaderSize + PayloadSize)]

\* Every variable has its type.
TypeOK ==
  /\ nextByte \in Byte
  /\ stream \in {"open", "eof", "reset"}
  /\ buffer \in Seq(Byte)
  /\ tk \in {"connecting", "playing", "stopped", "closing", "closed", "left", "failed"}
  /\ window \in BOOLEAN
  /\ reader \in
       [at : {"none", "starting", "loop", "receive", "setblocking", "announce", "fetch",
              "fetched", "unblock", "handle", "ended", "died"},
        fetching : BOOLEAN, blocking : BOOLEAN,
        packet : [msg : 0 .. MaxMessages, fetch : BOOLEAN, length : 0 .. PayloadSize]]
  /\ torn \in BOOLEAN
  /\ handled \in Seq(0 .. MaxMessages)

\* The game is given the packets the server sent, in order, none twice and
\* none left out, as long as no payload came in pieces.
HandledInOrder == ~torn => \A i \in DOMAIN handled : handled[i] = i + 1

ReaderIsOver == reader.at \in {"ended", "died"}

\* fetching_data is set and nobody will clear it: the fetch has raised.
Interrupted == reader.fetching /\ (ReaderIsOver \/ reader.at \in {"loop", "receive"})

\* Once the player has left, the reader ends: in a recv that blocks it waits
\* for a payload that comes, and a handler that waits for the main loop is not
\* what close() waits for.
ReaderEnds == []~torn => (~Running /\ window /\ tk # "failed" ~> ReaderIsOver)

\* close() comes back, unless a fetch was interrupted.
CloseReturnsUnlessInterrupted == []~torn => (tk = "stopped" ~> tk = "left" \/ Interrupted)

\* "Wait for the reader thread to finish" (packet_manager.py): the wait ends.
CloseReturns == []~torn => (tk = "stopped" ~> tk = "left")
=============================================================================
