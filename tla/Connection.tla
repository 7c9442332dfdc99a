----------------------------- MODULE Connection -----------------------------
(***************************************************************************)
(* A ClientConnection of the server (server/src/Connection.cpp), from      *)
(* Start() to the release of the last handler that refers to it.           *)
(*                                                                         *)
(* Sending: SendMessage posts a handler to the io thread, which queues the *)
(* message and starts a chain of asynchronous writes unless one is under   *)
(* way: a header, a payload if there is one, the next header, and so on.   *)
(* Receiving: a chain of asynchronous reads, header and payload in turn.   *)
(* Any read or write may fail, and the one of the two that fails first     *)
(* disconnects; the other is aborted by that and disconnects again, unless *)
(* it has ended well by then and only its handler is yet to run.           *)
(*                                                                         *)
(* Messages are numbered in the order they are sent, in each direction.    *)
(* A part is a message's header or its payload.                            *)
(***************************************************************************)
EXTENDS Integers, SequencesExt

CONSTANTS
  MaxMessages,  \* bound: messages in each direction
  Bare,         \* the messages without a payload
  Nulls         \* the messages from the peer that have type Null

ASSUME BoundAssumption == MaxMessages \in Nat
ASSUME KindsAssumption == Bare \subseteq Nat /\ Nulls \subseteq Nat

Numbers == 1 .. MaxMessages

Header(n) == [part |-> "header", msg |-> n]
Payload(n) == [part |-> "payload", msg |-> n]

\* What follows a part in a stream of whole messages.
Following(p) ==
  IF p.part = "header" /\ p.msg \notin Bare THEN Payload(p.msg)
  ELSE Header(p.msg + 1)

VARIABLES
  open,        \* m_socket.is_open()
  late,        \* closed while the other chain's operation had ended well and
               \* its handler was yet to run, as it still is
  registered,  \* a room holds the connection
  numSent,     \* messages given to SendMessage so far
  posted,      \* those whose handler the io thread has yet to run
  queue,       \* m_outgoingMessageQueue
  writes,      \* the parts that outstanding async_writes are writing
  wire,        \* the parts written to the socket
  peerOpen,    \* the peer has not closed its end
  peerReads,   \* the peer goes on reading what it is sent
  lastPart,    \* the last part the peer has sent
  arriving,    \* the parts it has sent that have not been read
  read,        \* the part the outstanding async_read reads, or "none"
  incomingMsg, \* m_incomingMsg, 0 after a reset
  arrived      \* what has been put in m_incomingMessageQueue

sendVars == <<numSent, posted, queue, writes, wire>>
peerVars == <<peerOpen, peerReads, lastPart>>
readVars == <<arriving, read, incomingMsg, arrived>>
vars == <<open, registered, late, sendVars, peerVars, readVars>>

Init ==
  /\ open = TRUE
  /\ registered = TRUE
  /\ late = FALSE
  /\ numSent = 0
  /\ posted = <<>>
  /\ queue = <<>>
  /\ writes = {}
  /\ wire = <<>>
  /\ peerOpen = TRUE
  /\ peerReads = TRUE
  /\ lastPart = Payload(0)
  /\ arriving = <<>>
  /\ read = "header"
  /\ incomingMsg = 0
  /\ arrived = <<>>

\* The outstanding read can have what it waits for.
ReadCanEnd ==
  /\ read = "header" \/ (read = "payload" /\ incomingMsg \notin Bare)
  /\ arriving # <<>>

WriteCanEnd == writes # {}

\* Close the socket; OnDisconnect takes the connection out of its room.  The
\* operation of the other chain may have ended just before.
Disconnect(otherCanEnd) ==
  /\ open' = FALSE
  /\ registered' = FALSE
  /\ late' \in {FALSE, open /\ otherCanEnd}

-----------------------------------------------------------------------------
(* Sending *)

\* Rooms send to the connections they hold, from either thread.
SendMessage ==
  /\ registered
  /\ numSent < MaxMessages
  /\ numSent' = numSent + 1
  /\ posted' = Append(posted, numSent + 1)
  /\ UNCHANGED <<open, registered, late, queue, writes, wire, peerVars, readVars>>

StartWriting_Always(newQueue) == writes' = writes \cup {Header(Head(newQueue))}

\* Only if no message was under way.
StartWriting(newQueue) ==
  writes' = IF queue = <<>> THEN writes \cup {Header(Head(newQueue))}
            ELSE writes

RunPosted_PushFront ==
  /\ posted # <<>>
  /\ posted' = Tail(posted)
  /\ queue' = <<Head(posted)>> \o queue
  /\ StartWriting(queue')
  /\ UNCHANGED <<open, registered, late, numSent, wire, peerVars, readVars>>

\* The posted handler.  It does not ask whether the socket is open.
RunPosted ==
  /\ posted # <<>>
  /\ posted' = Tail(posted)
  /\ queue' = Append(queue, Head(posted))
  /\ StartWriting(queue')
  /\ UNCHANGED <<open, registered, late, numSent, wire, peerVars, readVars>>

NextMessage_Stops(w) ==
  /\ queue' = Tail(queue)
  /\ writes' = writes \ {w}

\* Pop the message that has been sent, and go on with the next if there is.
NextMessage(w) ==
  /\ queue' = Tail(queue)
  /\ writes' = (writes \ {w}) \cup
               (IF Tail(queue) = <<>> THEN {} ELSE {Header(queue[2])})

HeaderSent_ForgetsPayload(w) ==
  /\ w.part = "header"
  /\ NextMessage(w)

\* The handler looks at the front of the queue, not at what was written.
HeaderSent(w) ==
  /\ w.part = "header"
  /\ IF Head(queue) \in Bare
     THEN NextMessage(w)
     ELSE /\ writes' = (writes \ {w}) \cup {Payload(Head(queue))}
          /\ UNCHANGED queue

PayloadSent(w) ==
  /\ w.part = "payload"
  /\ NextMessage(w)

\* The handler runs after the write, perhaps after the socket was closed.
WriteCompletes(w) ==
  /\ open \/ late
  /\ late' = FALSE
  /\ wire' = Append(wire, w)
  /\ HeaderSent(w) \/ PayloadSent(w)
  /\ UNCHANGED <<open, registered, numSent, posted, peerVars, readVars>>

\* The message stays at the front of the queue, so no write follows.
WriteFails(w) ==
  /\ ~late
  /\ writes' = writes \ {w}
  /\ Disconnect(ReadCanEnd)
  /\ UNCHANGED <<numSent, posted, queue, wire, peerVars, readVars>>

-----------------------------------------------------------------------------
(* The peer *)

PeerSends ==
  /\ peerOpen
  /\ Following(lastPart).msg <= MaxMessages
  /\ lastPart' = Following(lastPart)
  /\ arriving' = Append(arriving, lastPart')
  /\ UNCHANGED <<open, registered, late, sendVars, peerOpen, peerReads, read,
                 incomingMsg, arrived>>

\* The peer may close at any time, in the middle of a message too.
PeerCloses ==
  /\ peerOpen
  /\ peerOpen' = FALSE
  /\ UNCHANGED <<open, registered, late, sendVars, peerReads, lastPart, readVars>>

\* The peer keeps its end open and reads no more, as a frontend whose reader
\* has died.  What it is sent fills its buffer, and then the server's.
PeerStalls ==
  /\ peerReads
  /\ peerReads' = FALSE
  /\ UNCHANGED <<open, registered, late, sendVars, peerOpen, lastPart, readVars>>

-----------------------------------------------------------------------------
(* Receiving *)

HeaderRead ==
  /\ open \/ late
  /\ read = "header"
  /\ arriving # <<>>
  /\ arriving' = Tail(arriving)
  /\ incomingMsg' = Head(arriving).msg
  /\ IF incomingMsg' \in Nulls
     THEN read' = "none" /\ Disconnect(WriteCanEnd)
     ELSE read' = "payload" /\ late' = FALSE /\ UNCHANGED <<open, registered>>
  /\ UNCHANGED <<sendVars, peerVars, arrived>>

Enqueue_AfterReset ==
  /\ incomingMsg' = 0
  /\ arrived' = Append(arrived, incomingMsg')
  /\ read' = "header"

Enqueue_Again ==
  /\ arrived' = Append(arrived, incomingMsg)
  /\ UNCHANGED incomingMsg
  /\ read' = "payload"

Enqueue ==
  /\ arrived' = Append(arrived, incomingMsg)
  /\ incomingMsg' = 0
  /\ read' = "header"

\* An empty payload takes nothing from the socket, so this read completes
\* even when the socket has been closed meanwhile.
EmptyPayloadRead ==
  /\ read = "payload"
  /\ incomingMsg \in Bare
  /\ Enqueue
  /\ UNCHANGED <<open, registered, late, sendVars, peerVars, arriving>>

PayloadRead ==
  /\ open \/ late
  /\ late' = FALSE
  /\ read = "payload"
  /\ incomingMsg \notin Bare
  /\ arriving # <<>>
  /\ arriving' = Tail(arriving)
  /\ Enqueue
  /\ UNCHANGED <<open, registered, sendVars, peerVars>>

StopReading_TriesAgain == read' = "header"

StopReading == read' = "none"

ReadFails_OnlyInforms ==
  /\ ~late
  /\ read = "header" \/ (read = "payload" /\ incomingMsg \notin Bare)
  /\ StopReading
  /\ UNCHANGED <<open, registered, late, sendVars, peerVars, arriving, incomingMsg,
                 arrived>>

\* End of file, an error, or the end of the socket by a write that failed.
ReadFails ==
  /\ ~late
  /\ read = "header" \/ (read = "payload" /\ incomingMsg \notin Bare)
  /\ StopReading
  /\ Disconnect(WriteCanEnd)
  /\ UNCHANGED <<sendVars, peerVars, arriving, incomingMsg, arrived>>

-----------------------------------------------------------------------------

Writing == \E w \in writes : WriteCompletes(w) \/ WriteFails(w)

Reading == HeaderRead \/ EmptyPayloadRead \/ PayloadRead \/ ReadFails

Next ==
  \/ SendMessage \/ RunPosted \/ Writing
  \/ PeerSends \/ PeerCloses \/ PeerStalls
  \/ Reading

EndOfFile == ~peerOpen /\ arriving = <<>>

\* The io thread runs what is posted.  A write ends as long as the peer reads,
\* and when the socket is closed: Connection.cpp sets no time limit.  A read
\* ends when there is something to read or nothing to wait for; a peer may be
\* silent for ever.
Spec ==
  /\ Init
  /\ [][Next]_vars
  /\ WF_vars(RunPosted)
  /\ WF_vars((peerReads \/ ~open) /\ Writing)
  /\ WF_vars(HeaderRead \/ EmptyPayloadRead \/ PayloadRead
             \/ (ReadFails /\ (~open \/ EndOfFile)))

-----------------------------------------------------------------------------
(* Properties *)

Part == [part : {"header", "payload"}, msg : 0 .. MaxMessages]

\* Every variable has its type.
TypeOK ==
  /\ open \in BOOLEAN
  /\ registered \in BOOLEAN
  /\ late \in BOOLEAN
  /\ numSent \in 0 .. MaxMessages
  /\ posted \in Seq(Numbers)
  /\ queue \in Seq(Numbers)
  /\ writes \subseteq Part
  /\ wire \in Seq(Part)
  /\ peerOpen \in BOOLEAN
  /\ peerReads \in BOOLEAN
  /\ lastPart \in Part
  /\ arriving \in Seq(Part)
  /\ read \in {"header", "payload", "none"}
  /\ incomingMsg \in 0 .. MaxMessages
  /\ arrived \in Seq(Numbers)

\* At most one write is outstanding, and it writes a part of the message in
\* front: asio forbids two, and the buffer dies with the message.
OneWrite == \A v, w \in writes : v = w /\ w.msg = Head(queue)

\* As long as the connection is open, the chain of writes is under way
\* exactly when there is something to send: it neither stops nor doubles.
ChainRuns == open => (writes = {} <=> queue = <<>>)

\* The wire holds whole messages in the order they were sent, none twice and
\* none left out, but that the last one may not be complete.
WireInOrder ==
  \A i \in DOMAIN wire :
    wire[i] = IF i = 1 THEN Header(1) ELSE Following(wire[i - 1])

\* What the server takes for messages are the peer's messages, in order, and
\* one that was cut short is not among them.
ArrivedInOrder == \A i \in DOMAIN arrived : arrived[i] = i

\* To a peer that goes on reading, on a connection that stays open, all that
\* is sent is written: no message stays behind in the queue.
EverythingIsSent ==
  posted # <<>> ~> (~open \/ ~peerReads \/ (posted = <<>> /\ queue = <<>>))

\* Nothing keeps a connection that was closed: its handlers come to an end,
\* a write to a peer that had stopped reading among them, and no room holds it.
Released ==
  ~open ~> [](~registered /\ posted = <<>> /\ writes = {} /\ read = "none")

\* A player that leaves, whenever it does, is taken out of its room, even if
\* a write to it was stuck.
LeaverIsRemoved == ~peerOpen ~> ~registered

(***************************************************************************)
(* To the server the connection is a channel: it holds what was sent and   *)
(* is not yet whole on the wire, wherever it waits.                        *)
(***************************************************************************)
Undelivered == IF open THEN queue \o posted ELSE <<>>

Channel == INSTANCE Channels WITH
  Ids <- {0},
  opened <- {0},
  open <- IF open THEN {0} ELSE {},
  outgoing <- [c \in {0} |-> Undelivered]

\* A ClientConnection implements the channel the rooms take it for.
ImplementsChannel == Channel!Spec
=============================================================================
