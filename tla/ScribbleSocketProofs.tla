------------------------ MODULE ScribbleSocketProofs ------------------------
(***************************************************************************)
(* The reader keeps its place in the byte stream as long as no payload     *)
(* came in pieces, for any number of messages and any sizes.               *)
(*                                                                         *)
(* What is to come is the buffer followed by the byte that the network     *)
(* brings next.  The inductive invariant says that these bytes follow one  *)
(* another, and, for each statement of the reader, which byte comes first. *)
(* That the bytes follow one another is said of any two of them and not of *)
(* neighbours only: a recv takes many bytes in one step, and what comes    *)
(* first then has to be known without counting through them.               *)
(***************************************************************************)
EXTENDS ScribbleSocket, SequenceTheorems, TLAPS

Size(n) == HeaderSize + PayloadOf(n)

\* The byte k - 1 bytes after the first one of message n, up to the first
\* one of the next message.
ByteAt(n, k) == IF k <= Size(n) THEN [msg |-> n, at |-> k] ELSE [msg |-> n + 1, at |-> 1]

\* A byte that the network has brought.
Brought == [msg : Messages, at : 1 .. (HeaderSize + PayloadSize)]

\* The bytes of s follow one another.
Consecutive(s) ==
  /\ \A i \in 1 .. Len(s) : s[i].at <= Size(s[i].msg)
  /\ \A i, j \in 1 .. Len(s) :
       i <= j /\ s[i].at + (j - i) <= Size(s[i].msg) + 1
         => s[j] = ByteAt(s[i].msg, s[i].at + (j - i))

Coming == Append(buffer, nextByte)

\* The reader is at the start of the message after those it has handled.
AtStart == Coming[1] = ByteAt(Len(handled) + 2, 1)

\* It has the header of that message, and its payload comes next ...
AtPayload ==
  /\ reader.packet = Packet(Len(handled) + 2)
  /\ Coming[1] = ByteAt(Len(handled) + 2, HeaderSize + 1)

\* ... or has been taken too.
AtNext ==
  /\ reader.packet = Packet(Len(handled) + 2)
  /\ Coming[1] = ByteAt(Len(handled) + 3, 1)

\* A fetch is interrupted only when the player has left; the loop then ends.
InPlace ==
  /\ tk = "connecting" => Coming[1] = ByteAt(1, 1)
  /\ reader.at = "loop" /\ Running => AtStart
  /\ reader.at \in {"starting", "receive"} => AtStart
  /\ reader.at \in {"setblocking", "announce", "fetch"} => AtPayload
  /\ reader.at \in {"fetched", "unblock", "handle"} => AtNext

\* The socket does not block at a payload only when the player has left.
Blocks == reader.at \in {"announce", "fetch"} /\ Running => reader.blocking

IInv ==
  /\ TypeOK
  /\ buffer \in Seq(Brought)
  /\ reader.at = "none" <=> tk \in {"connecting", "failed"}
  /\ tk = "connecting" => handled = <<>>
  /\ Consecutive(Coming)
  /\ HandledInOrder
  /\ ~torn => InPlace
  /\ Blocks

(***************************************************************************)
(* Streams of bytes                                                        *)
(***************************************************************************)

\* A message has a header and no more than a payload.
LEMMA Sizes ==
  ASSUME NEW n
  PROVE  /\ HeaderSize \in Nat \ {0} /\ PayloadSize \in Nat
         /\ PayloadOf(n) \in 0 .. PayloadSize
         /\ Size(n) \in 1 .. (HeaderSize + PayloadSize)
         /\ Size(n) = HeaderSize + PayloadOf(n)
BY SizesAssumption DEF PayloadOf, Size

\* Where there is a byte, it is one of the stream.
LEMMA ComingFacts ==
  ASSUME IInv
  PROVE  /\ Coming \in Seq(Byte) /\ Len(Coming) = Len(buffer) + 1 /\ Len(buffer) \in Nat
         /\ \A i \in 1 .. Len(buffer) : Coming[i] = buffer[i] /\ buffer[i] \in Brought
         /\ Coming[Len(buffer) + 1] = nextByte
         /\ buffer # <<>> => Len(buffer) >= 1 /\ Head(buffer) = buffer[1]
<1>1. buffer \in Seq(Byte) /\ nextByte \in Byte /\ buffer \in Seq(Brought)
  BY DEF IInv, TypeOK
<1>2. QED
  BY <1>1 DEF Coming

\* The network brings the byte that follows.
LEMMA Brings ==
  ASSUME IInv, BytesArrive
  PROVE  /\ buffer' \in Seq(Brought) /\ nextByte' \in Byte
         /\ Consecutive(Coming') /\ Coming'[1] = Coming[1]
<1> DEFINE n == Len(buffer) + 1
           b == Following(nextByte)
           s == Coming
           t == Coming'
<1>1. /\ buffer \in Seq(Brought) /\ nextByte \in Byte /\ nextByte.msg \in Messages
      /\ buffer' = Append(buffer, nextByte) /\ nextByte' = b
  BY DEF BytesArrive, IInv, TypeOK
<1>2. nextByte = [msg |-> nextByte.msg, at |-> nextByte.at] /\ nextByte \in Brought
  BY <1>1 DEF Byte, Brought
<1>3. nextByte.at \in Nat /\ nextByte.msg \in Nat
  BY <1>1 DEF Byte, Messages
<1>4. buffer' \in Seq(Brought)
  BY <1>1, <1>2, AppendProperties
<1>5. b \in Byte
  <2>1. /\ PayloadOf(nextByte.msg) \in 0 .. PayloadSize
        /\ HeaderSize \in Nat \ {0} /\ PayloadSize \in Nat /\ MaxMessages \in Nat
    BY Sizes, SizesAssumption
  <2>2. CASE nextByte.at < HeaderSize + PayloadOf(nextByte.msg)
    <3>1. b = [msg |-> nextByte.msg, at |-> nextByte.at + 1]
      BY <1>2, <2>2 DEF Following
    <3>2. nextByte.at + 1 \in 1 .. (HeaderSize + PayloadSize)
      BY <1>3, <2>1, <2>2
    <3>3. nextByte.msg \in 1 .. (MaxMessages + 1)
      BY <1>1 DEF Byte
    <3>4. QED
      BY <3>1, <3>2, <3>3 DEF Byte
  <2>3. CASE ~(nextByte.at < HeaderSize + PayloadOf(nextByte.msg))
    <3>1. b = [msg |-> nextByte.msg + 1, at |-> 1]
      BY <2>3 DEF Following
    <3>2. nextByte.msg + 1 \in 1 .. (MaxMessages + 1) /\ 1 \in 1 .. (HeaderSize + PayloadSize)
      BY <1>1, <2>1 DEF Messages
    <3>3. QED
      BY <3>1, <3>2 DEF Byte
  <2>4. QED
    BY <2>2, <2>3
<1>6. /\ n \in Nat /\ n >= 1 /\ Len(s) = n /\ Len(t) = n + 1
      /\ \A i \in 1 .. n : t[i] = s[i]
      /\ t[n + 1] = b /\ s[n] = nextByte
      /\ \A i \in 1 .. n : s[i] \in Byte
  BY <1>1, <1>4, <1>5, ComingFacts, AppendProperties DEF Coming
<1>7. /\ \A i \in 1 .. n : s[i].at <= Size(s[i].msg)
      /\ \A i, j \in 1 .. n :
           i <= j /\ s[i].at + (j - i) <= Size(s[i].msg) + 1
             => s[j] = ByteAt(s[i].msg, s[i].at + (j - i))
  BY <1>6 DEF IInv, Consecutive
<1>8. /\ b.at <= Size(b.msg) /\ b = ByteAt(b.msg, b.at)
      /\ b = ByteAt(nextByte.msg, nextByte.at + 1)
  <2>1. nextByte.at <= Size(nextByte.msg)
    BY <1>6, <1>7
  <2>2. b = IF nextByte.at < Size(nextByte.msg)
            THEN [msg |-> nextByte.msg, at |-> nextByte.at + 1]
            ELSE [msg |-> nextByte.msg + 1, at |-> 1]
    BY <1>2 DEF Following, Size
  <2>3. Size(nextByte.msg) \in Nat /\ Size(nextByte.msg + 1) \in Nat \ {0}
    BY Sizes
  <2>4. QED
    BY <1>3, <2>1, <2>2, <2>3 DEF ByteAt
<1> HIDE DEF n, b, s, t
<1>9. ASSUME NEW i \in 1 .. n, s[i].at + (n + 1 - i) <= Size(s[i].msg) + 1
      PROVE  b = ByteAt(s[i].msg, s[i].at + (n + 1 - i))
  <2>1. s[i].at \in Nat /\ s[i].msg \in Nat /\ Size(s[i].msg) \in Nat /\ i \in Nat
    BY <1>6, Sizes DEF Byte
  <2>2. s[i].at + (n - i) <= Size(s[i].msg)
    BY <1>6, <1>9, <2>1
  <2>3. nextByte = ByteAt(s[i].msg, s[i].at + (n - i))
    BY <1>6, <1>7, <2>1, <2>2
  <2>4. nextByte.msg = s[i].msg /\ nextByte.at = s[i].at + (n - i)
    BY <2>2, <2>3 DEF ByteAt
  <2>5. nextByte.at + 1 = s[i].at + (n + 1 - i)
    BY <1>6, <2>1, <2>4
  <2>6. QED
    BY <1>8, <2>4, <2>5
<1>10. Consecutive(t)
  <2>1. ASSUME NEW i \in 1 .. (n + 1)
        PROVE  t[i].at <= Size(t[i].msg)
    BY <1>6, <1>7, <1>8
  <2>2. ASSUME NEW i \in 1 .. (n + 1), NEW j \in 1 .. (n + 1),
               i <= j, t[i].at + (j - i) <= Size(t[i].msg) + 1
        PROVE  t[j] = ByteAt(t[i].msg, t[i].at + (j - i))
    <3>1. CASE j \in 1 .. n
      BY <1>6, <1>7, <2>2, <3>1
    <3>2. CASE j = n + 1 /\ i \in 1 .. n
      BY <1>6, <1>9, <2>2, <3>2
    <3>3. CASE j = n + 1 /\ i = n + 1
      <4>1. t[i].at + (j - i) = b.at
        BY <1>5, <1>6, <3>3 DEF Byte
      <4>2. QED
        BY <1>6, <1>8, <3>3, <4>1
    <3>4. QED
      BY <1>6, <2>2, <3>1, <3>2, <3>3
  <2>3. QED
    BY <1>6, <2>1, <2>2 DEF Consecutive
<1>11. QED
  BY <1>1, <1>4, <1>5, <1>6, <1>10 DEF s, t

\* recv takes bytes off the front.
LEMMA Takes ==
  ASSUME IInv, NEW k \in Nat, Take(k), nextByte' = nextByte
  PROVE  /\ buffer' \in Seq(Brought) /\ Consecutive(Coming')
         /\ k <= Len(buffer) => Coming'[1] = Coming[k + 1]
<1> DEFINE n == Len(buffer)
           s == Coming
           t == Coming'
<1>1. /\ buffer \in Seq(Brought) /\ n \in Nat /\ Len(s) = n + 1
      /\ buffer' = SubSeq(buffer, k + 1, n) /\ s[n + 1] = nextByte
      /\ nextByte \in Byte
      /\ \A i \in 1 .. n : s[i] = buffer[i]
      /\ \A i \in 1 .. (n + 1) : s[i] \in Byte
  BY ComingFacts DEF Take, IInv, TypeOK
<1>2. /\ buffer' \in Seq(Brought)
      /\ Len(buffer') = IF k <= n THEN n - k ELSE 0
      /\ \A i \in 1 .. Len(buffer') : buffer'[i] = buffer[k + i]
  <2>1. CASE k < n
    BY <1>1, <2>1, SubSeqProperties
  <2>2. CASE k >= n
    BY <1>1, <2>2, SubSeqProperties
  <2>3. QED
    BY <1>1, <2>1, <2>2
<1> DEFINE from == IF k <= n THEN k ELSE n
<1> HIDE DEF n
<1>3. from \in 0 .. n /\ Len(buffer') = n - from
  BY <1>1, <1>2
<1>4. \A i \in 1 .. (n - from) : buffer'[i] = buffer[from + i]
  BY <1>1, <1>2
<1> HIDE DEF from
<1>5. /\ Len(t) = n - from + 1
      /\ \A i \in 1 .. (n - from) : t[i] = buffer'[i]
      /\ t[n - from + 1] = nextByte
  <2>1. t = Append(buffer', nextByte) /\ n - from \in Nat
    BY <1>1, <1>3 DEF Coming
  <2>2. QED
    BY <1>2, <1>3, <2>1, AppendProperties
<1>6. \A i \in 1 .. (n - from + 1) : from + i \in 1 .. (n + 1) /\ t[i] = s[from + i]
  <2>1. SUFFICES ASSUME NEW i \in 1 .. (n - from + 1)
                 PROVE  from + i \in 1 .. (n + 1) /\ t[i] = s[from + i]
    OBVIOUS
  <2> HIDE DEF s, t
  <2>2. CASE i = n - from + 1
    BY <1>1, <1>3, <1>5, <2>2
  <2>3. CASE i \in 1 .. (n - from)
    BY <1>1, <1>3, <1>4, <1>5, <2>3
  <2>4. QED
    BY <1>1, <1>3, <2>2, <2>3
<1>7. Consecutive(s)
  BY DEF IInv
<1> HIDE DEF s, t
<1>8. Consecutive(t)
  <2>1. ASSUME NEW i \in 1 .. (n - from + 1)
        PROVE  t[i].at <= Size(t[i].msg)
    BY <1>1, <1>6, <1>7 DEF Consecutive
  <2>2. ASSUME NEW i \in 1 .. (n - from + 1), NEW j \in 1 .. (n - from + 1),
               i <= j, t[i].at + (j - i) <= Size(t[i].msg) + 1
        PROVE  t[j] = ByteAt(t[i].msg, t[i].at + (j - i))
    <3>1. (from + j) - (from + i) = j - i /\ from + i <= from + j
      BY <1>3, <2>2
    <3>2. /\ from + i \in 1 .. (n + 1) /\ t[i] = s[from + i]
          /\ from + j \in 1 .. (n + 1) /\ t[j] = s[from + j]
      BY <1>6
    <3>3. QED
      BY <1>1, <1>7, <2>2, <3>1, <3>2 DEF Consecutive
  <2>3. QED
    BY <1>5, <2>1, <2>2 DEF Consecutive
<1>9. k <= n => t[1] = s[k + 1]
  BY <1>1, <1>3, <1>6 DEF from
<1>10. QED
  BY <1>2, <1>8, <1>9 DEF n, s, t

\* What comes first after a recv of k bytes of a message, or up to its end.
LEMMA FirstAfter ==
  ASSUME IInv, NEW n \in Nat, NEW a \in Nat, NEW k \in Nat,
         Coming[1] = [msg |-> n, at |-> a], k <= Len(buffer), a + k <= Size(n) + 1
  PROVE  Coming[k + 1] = ByteAt(n, a + k)
<1>1. Len(Coming) = Len(buffer) + 1 /\ Len(buffer) \in Nat
  BY ComingFacts
<1>2. Coming[1].msg = n /\ Coming[1].at = a /\ (k + 1) - 1 = k
  OBVIOUS
<1>3. 1 \in 1 .. Len(Coming) /\ k + 1 \in 1 .. Len(Coming) /\ 1 <= k + 1
  BY <1>1
<1>4. QED
  BY <1>2, <1>3 DEF IInv, Consecutive

(***************************************************************************)
(* Steps that are not the reader's                                         *)
(***************************************************************************)

\* Bytes that stay are the same bytes.
LEMMA SameBytes ==
  ASSUME IInv, UNCHANGED <<buffer, nextByte>>
  PROVE  buffer' \in Seq(Brought) /\ Coming' = Coming /\ Consecutive(Coming')
<1>1. Coming' = Coming
  BY DEF Coming
<1>2. QED
  BY <1>1 DEF IInv

\* What the Tk loop and the network do leaves the reader where it is, and
\* does not set running again.
LEMMA OthersKeep ==
  ASSUME IInv, TypeOK', buffer' \in Seq(Brought), Consecutive(Coming'),
         Coming'[1] = Coming[1], UNCHANGED <<reader, torn, handled>>,
         Running' => Running, tk' = "connecting" => tk = "connecting",
         tk' \in {"connecting", "failed"} <=> tk \in {"connecting", "failed"}
  PROVE  IInv'
<1>1. HandledInOrder'
  BY DEF IInv, HandledInOrder
<1>2. ~torn' => InPlace'
  BY DEF IInv, InPlace, AtStart, AtPayload, AtNext
<1>3. Blocks'
  BY DEF IInv, Blocks
<1>4. QED
  BY <1>1, <1>2, <1>3 DEF IInv

LEMMA BytesArriveKeeps == IInv /\ BytesArrive => IInv'
<1> SUFFICES ASSUME IInv, BytesArrive PROVE IInv'
  OBVIOUS
<1>1. /\ buffer' \in Seq(Brought) /\ nextByte' \in Byte
      /\ Consecutive(Coming') /\ Coming'[1] = Coming[1]
      /\ UNCHANGED <<stream, tk, window, reader, torn, handled>>
  BY Brings DEF BytesArrive
<1>2. buffer' \in Seq(Byte)
  BY <1>1 DEF BytesArrive, IInv, TypeOK
<1>3. TypeOK'
  BY <1>1, <1>2 DEF IInv, TypeOK
<1>4. QED
  BY <1>1, <1>3, OthersKeep DEF Running

LEMMA StreamEndsKeeps == IInv /\ StreamEnds => IInv'
<1> SUFFICES ASSUME IInv, StreamEnds PROVE IInv'
  OBVIOUS
<1>1. TypeOK'
  BY DEF StreamEnds, IInv, TypeOK
<1>2. QED
  BY <1>1, SameBytes, OthersKeep DEF StreamEnds, Running

LEMMA TkKeeps == IInv /\ (ConnectFails \/ Stop \/ Closing) => IInv'
<1> SUFFICES ASSUME IInv, ConnectFails \/ Stop \/ Closing PROVE IInv'
  OBVIOUS
<1>1. /\ TypeOK' /\ UNCHANGED <<nextByte, buffer, reader, torn, handled>>
      /\ Running' => Running
      /\ tk' # "connecting"
      /\ tk' \in {"connecting", "failed"} <=> tk \in {"connecting", "failed"}
  BY DEF ConnectFails, Stop, Closing, TkGoes, IInv, TypeOK, Running
<1>2. QED
  BY <1>1, SameBytes, OthersKeep

\* The constructor takes the first header; message 1 has no payload.
LEMMA ReadIdKeeps == IInv /\ ReadId => IInv'
<1> SUFFICES ASSUME IInv, ReadId PROVE IInv'
  OBVIOUS
<1>1. /\ tk = "connecting" /\ tk' = "playing" /\ Len(buffer) >= HeaderSize
      /\ Take(HeaderSize) /\ reader' = [reader EXCEPT !.at = "starting"]
      /\ UNCHANGED <<nextByte, stream, torn, handled, window>>
  BY DEF ReadId, TkGoes, Take
<1>2. HeaderSize \in Nat \ {0} /\ Size(1) = HeaderSize /\ Size(2) \in Nat \ {0}
  BY Sizes, KindsAssumption DEF PayloadOf
<1>3. /\ buffer' \in Seq(Brought) /\ Consecutive(Coming')
      /\ Coming'[1] = Coming[HeaderSize + 1]
  BY <1>1, <1>2, Takes
<1>4. ~torn => AtStart'
  <2>1. SUFFICES ASSUME ~torn PROVE Coming'[1] = ByteAt(2, 1)
    BY <1>1 DEF AtStart, IInv
  <2>2. Coming[1] = [msg |-> 1, at |-> 1]
    BY <1>1, <1>2, <2>1 DEF IInv, InPlace, ByteAt
  <2>3. Coming[HeaderSize + 1] = ByteAt(1, 1 + HeaderSize)
    BY <1>1, <1>2, <2>2, FirstAfter
  <2>4. QED
    BY <1>2, <1>3, <2>3 DEF ByteAt
<1>5. TypeOK'
  <2>1. buffer' \in Seq(Byte)
    BY <1>1, <1>2, ComingFacts, SubSeqProperties DEF Take, IInv, TypeOK
  <2>2. QED
    BY <1>1, <2>1 DEF IInv, TypeOK
<1>6. reader'.at = "starting"
  BY <1>1 DEF IInv, TypeOK
<1>7. ~torn' => InPlace'
  BY <1>1, <1>4, <1>6 DEF InPlace
<1>8. HandledInOrder' /\ Blocks'
  BY <1>1, <1>6 DEF IInv, HandledInOrder, Blocks
<1>9. QED
  BY <1>1, <1>3, <1>5, <1>6, <1>7, <1>8 DEF IInv

(***************************************************************************)
(* The reader's steps                                                      *)
(***************************************************************************)

\* The reader goes from one statement to another.
LEMMA GoesTo ==
  ASSUME IInv, NEW here, NEW there, ReaderIs(here), GoTo(there),
         there \in {"loop", "receive", "setblocking", "announce", "fetch", "fetched",
                    "unblock", "handle", "ended", "died"}
  PROVE  /\ reader.at = here /\ reader'.at = there
         /\ reader'.packet = reader.packet /\ reader'.blocking = reader.blocking
         /\ UNCHANGED <<nextByte, stream, tk, window>>
         /\ buffer' \in Seq(Byte) /\ torn' \in BOOLEAN /\ handled' \in Seq(0 .. MaxMessages)
              => TypeOK'
BY DEF ReaderIs, GoTo, IInv, TypeOK

\* A step in which it receives and hands over nothing.
LEMMA InsideKeeps ==
  ASSUME IInv, TypeOK', Inside, UNCHANGED <<nextByte, tk>>,
         reader.at # "none", reader'.at # "none", ~torn => InPlace', Blocks'
  PROVE  IInv'
<1>1. HandledInOrder'
  BY DEF Inside, IInv, HandledInOrder
<1>2. buffer' \in Seq(Brought) /\ Consecutive(Coming')
  BY SameBytes DEF Inside
<1>3. QED
  BY <1>1, <1>2 DEF IInv, Inside

LEMMA CheckRunningKeeps == IInv /\ CheckRunning => IInv'
<1> SUFFICES ASSUME IInv, CheckRunning PROVE IInv'
  OBVIOUS
<1> DEFINE there == IF Running THEN "receive" ELSE "ended"
<1>1. /\ reader.at = "loop" /\ reader'.at = there
      /\ UNCHANGED <<nextByte, tk>> /\ TypeOK' /\ Inside
  BY GoesTo DEF CheckRunning, Inside, IInv, TypeOK
<1>2. Coming' = Coming
  BY <1>1 DEF Coming, Inside
<1>3. ~torn => InPlace'
  BY <1>1, <1>2 DEF IInv, InPlace, AtStart, Inside
<1>4. Blocks'
  BY <1>1 DEF Blocks
<1>5. QED
  BY <1>1, <1>3, <1>4, InsideKeeps

\* Around the loop again: either nothing was taken, or the player has left.
LEMMA BackToLoopKeeps == IInv /\ (NothingReceived \/ FetchInterrupted) => IInv'
<1> SUFFICES ASSUME IInv, NothingReceived \/ FetchInterrupted PROVE IInv'
  OBVIOUS
<1>1. /\ reader.at = "receive" \/ (reader.at = "fetch" /\ ~reader.blocking)
      /\ reader'.at = "loop"
      /\ UNCHANGED <<nextByte, tk>> /\ TypeOK' /\ Inside
  BY GoesTo DEF NothingReceived, FetchInterrupted, Inside, IInv, TypeOK
<1>2. Coming' = Coming /\ (Running' <=> Running)
  BY <1>1 DEF Coming, Inside, Running
<1>3. reader.at = "fetch" => ~Running
  BY <1>1 DEF IInv, Blocks
<1>4. ~torn => InPlace'
  BY <1>1, <1>2, <1>3 DEF IInv, InPlace, AtStart, Inside
<1>5. Blocks'
  BY <1>1 DEF Blocks
<1>6. QED
  BY <1>1, <1>4, <1>5, InsideKeeps

\* A reader that has raised is nowhere in the stream.
LEMMA RaisesKeeps ==
  IInv /\ (ReceiveRaises \/ FetchRaises \/ SetBlockingRaises \/ HandleRaises) => IInv'
<1> SUFFICES ASSUME IInv,
                    ReceiveRaises \/ FetchRaises \/ SetBlockingRaises \/ HandleRaises
             PROVE  IInv'
  OBVIOUS
<1>1. /\ reader.at \in {"starting", "receive", "fetch", "setblocking", "unblock", "handle"}
      /\ reader'.at = "died"
      /\ UNCHANGED <<nextByte, tk>> /\ TypeOK' /\ Inside
  BY GoesTo
  DEF ReceiveRaises, FetchRaises, SetBlockingRaises, HandleRaises, Inside, IInv, TypeOK
<1>2. InPlace'
  BY <1>1 DEF IInv, InPlace
<1>3. Blocks'
  BY <1>1 DEF Blocks
<1>4. QED
  BY <1>1, <1>2, <1>3, InsideKeeps

\* Before the loop and around the fetch nothing is taken.
LEMMA AroundFetchKeeps ==
  IInv /\ (StartReading \/ SetBlocking \/ Announce \/ Fetched \/ Unblock) => IInv'
<1> SUFFICES ASSUME IInv,
                    StartReading \/ SetBlocking \/ Announce \/ Fetched \/ Unblock
             PROVE  IInv'
  OBVIOUS
<1>1. /\ \/ reader.at = "starting" /\ reader'.at = "loop"
         \/ reader.at = "setblocking" /\ reader'.at = "announce" /\ reader'.blocking = Running
         \/ /\ reader.at = "announce" /\ reader'.at = "fetch"
            /\ reader'.blocking = reader.blocking
         \/ reader.at = "fetched" /\ reader'.at = "unblock"
         \/ reader.at = "unblock" /\ reader'.at = "handle"
      /\ reader'.packet = reader.packet
      /\ UNCHANGED <<nextByte, tk, stream, window>> /\ Inside
  BY DEF StartReading, SetBlocking, Announce, Fetched, Unblock, ReaderIs, IInv, TypeOK
<1>2. TypeOK'
  <2>1. Running \in BOOLEAN
    BY DEF Running
  <2>2. QED
    BY <1>1, <2>1
    DEF StartReading, SetBlocking, Announce, Fetched, Unblock, ReaderIs, Inside, IInv, TypeOK
<1>3. Coming' = Coming /\ (Running' <=> Running)
  BY <1>1 DEF Coming, Inside, Running
<1>4. ~torn => InPlace'
  BY <1>1, <1>3 DEF IInv, InPlace, AtStart, AtPayload, AtNext, Inside
<1>5. Blocks'
  BY <1>1, <1>3 DEF IInv, Blocks
<1>6. QED
  BY <1>1, <1>2, <1>4, <1>5, InsideKeeps

\* What the first bytes of a message say, and what comes after them.
LEMMA HeaderReceivedKeeps == IInv /\ HeaderReceived => IInv'
<1> SUFFICES ASSUME IInv, HeaderReceived PROVE IInv'
  OBVIOUS
<1> DEFINE n == Len(handled) + 2
<1>1. /\ reader.at = "receive" /\ Len(buffer) >= HeaderSize /\ Take(HeaderSize)
      /\ UNCHANGED <<nextByte, stream, tk, window, torn, handled>>
  BY DEF HeaderReceived, ReaderIs
<1>2. PICK p \in ParsedPackets :
        reader' = [reader EXCEPT !.packet = p,
                                 !.at = IF p.fetch THEN "setblocking" ELSE "handle"]
  BY DEF HeaderReceived
<1>3. HeaderSize \in Nat \ {0} /\ n \in Nat
  BY Sizes DEF IInv, TypeOK
<1>4. Head(buffer) = Coming[1] /\ Head(buffer) \in Brought /\ Len(buffer) >= 1
  BY <1>1, <1>3, ComingFacts
<1>5. p \in [msg : 0 .. MaxMessages, fetch : BOOLEAN, length : 0 .. PayloadSize]
  <2>1. PayloadOf(Head(buffer).msg) \in 0 .. PayloadSize
    BY Sizes
  <2>2. CASE p = Packet(Head(buffer).msg)
    BY <1>4, <2>1, <2>2, SizesAssumption DEF Packet, Brought, Messages
  <2>3. CASE p \in GarbagePackets
    BY <2>3, SizesAssumption DEF GarbagePackets, Garbage
  <2>4. QED
    BY <2>2, <2>3 DEF ParsedPackets
<1>6. /\ reader'.at = IF p.fetch THEN "setblocking" ELSE "handle"
      /\ reader'.packet = p
  BY <1>2 DEF IInv, TypeOK
<1>7. /\ buffer' \in Seq(Brought) /\ Consecutive(Coming')
      /\ Coming'[1] = Coming[HeaderSize + 1]
  BY <1>1, <1>3, Takes
<1>8. TypeOK'
  <2>1. buffer' \in Seq(Byte)
    BY <1>1, <1>3, ComingFacts, SubSeqProperties DEF Take, IInv, TypeOK
  <2>2. reader' \in [at : {"none", "starting", "loop", "receive", "setblocking", "announce", "fetch",
                           "fetched", "unblock", "handle", "ended", "died"},
                     fetching : BOOLEAN, blocking : BOOLEAN,
                     packet : [msg : 0 .. MaxMessages, fetch : BOOLEAN,
                               length : 0 .. PayloadSize]]
    BY <1>2, <1>5 DEF IInv, TypeOK
  <2>3. QED
    BY <1>1, <2>1, <2>2 DEF IInv, TypeOK
<1> HIDE DEF n
<1>9. ASSUME ~torn
      PROVE  p = Packet(n) /\ Coming'[1] = ByteAt(n, HeaderSize + 1)
  <2>1. Coming[1] = [msg |-> n, at |-> 1]
    BY <1>1, <1>9, Sizes DEF IInv, InPlace, AtStart, ByteAt, n
  <2>2. p = Packet(n)
    BY <1>4, <2>1 DEF ParsedPackets
  <2>3. Size(n) \in Nat /\ Size(n) >= HeaderSize
    BY Sizes
  <2>4. Coming[HeaderSize + 1] = ByteAt(n, 1 + HeaderSize)
    BY <1>1, <1>3, <2>1, <2>3, FirstAfter
  <2>5. QED
    BY <1>3, <1>7, <2>2, <2>4
<1>10. ~torn' => InPlace'
  <2>1. SUFFICES ASSUME ~torn PROVE InPlace'
    BY <1>1
  <2>2. tk' # "connecting"
    BY <1>1 DEF IInv
  <2>3. n = Len(handled') + 2 /\ p = Packet(n) /\ Coming'[1] = ByteAt(n, HeaderSize + 1)
    BY <1>1, <1>9, <2>1 DEF n
  <2>4. CASE p.fetch
    <3>1. AtPayload'
      BY <1>6, <2>3 DEF AtPayload
    <3>2. QED
      BY <1>6, <2>2, <2>4, <3>1 DEF InPlace
  <2>5. CASE ~p.fetch
    <3>1. Size(n) = HeaderSize
      <4>1. p.fetch <=> n \notin Plain
        BY <2>3 DEF Packet
      <4>2. PayloadOf(n) = 0
        BY <2>5, <4>1 DEF PayloadOf
      <4>3. QED
        BY <4>2, Sizes
    <3>2. Size(n + 1) \in Nat \ {0}
      BY Sizes
    <3>3. Coming'[1] = ByteAt(n + 1, 1)
      BY <1>3, <2>3, <3>1, <3>2 DEF ByteAt
    <3>4. n + 1 = Len(handled') + 3
      BY <1>3, <2>3 DEF IInv, TypeOK
    <3>5. AtNext'
      BY <1>6, <2>3, <3>3, <3>4 DEF AtNext
    <3>6. QED
      BY <1>6, <2>2, <2>5, <3>5 DEF InPlace
  <2>6. QED
    BY <2>4, <2>5
<1>11. HandledInOrder' /\ Blocks'
  BY <1>1, <1>6 DEF IInv, HandledInOrder, Blocks
<1>12. QED
  BY <1>1, <1>6, <1>7, <1>8, <1>10, <1>11 DEF IInv

\* The whole payload has been taken, or it came in pieces.
LEMMA PayloadReceivedKeeps == IInv /\ PayloadReceived => IInv'
<1> SUFFICES ASSUME IInv, PayloadReceived PROVE IInv'
  OBVIOUS
<1> DEFINE n == Len(handled) + 2
           k == reader.packet.length
<1>1. /\ reader.at = "fetch" /\ Take(k) /\ torn' = (torn \/ Len(buffer) < k)
      /\ UNCHANGED <<nextByte, stream, tk, window, handled>> /\ GoTo("fetched")
  BY DEF PayloadReceived, ReaderIs
<1>2. k \in Nat /\ n \in Nat /\ Len(buffer) \in Nat /\ torn \in BOOLEAN
  BY Sizes DEF IInv, TypeOK
<1>3. reader'.at = "fetched" /\ reader'.packet = reader.packet
  BY <1>1 DEF GoTo, IInv, TypeOK
<1>4. /\ buffer' \in Seq(Brought) /\ Consecutive(Coming')
      /\ k <= Len(buffer) => Coming'[1] = Coming[k + 1]
  BY <1>1, <1>2, Takes
<1>5. TypeOK'
  <2>1. buffer' \in Seq(Byte)
    BY <1>1, <1>2, ComingFacts, SubSeqProperties DEF Take, IInv, TypeOK
  <2>2. torn' \in BOOLEAN
    BY <1>1
  <2>3. QED
    BY <1>1, <2>1, <2>2 DEF GoTo, IInv, TypeOK
<1>6. ~torn' => InPlace'
  <2>1. SUFFICES ASSUME ~torn' PROVE InPlace'
    OBVIOUS
  <2>2. ~torn /\ k <= Len(buffer)
    <3>1. ~torn /\ ~(Len(buffer) < k)
      BY <1>1, <2>1
    <3> HIDE DEF k
    <3>2. QED
      BY <1>2, <3>1
  <2>3. reader.packet = Packet(n) /\ Coming[1] = ByteAt(n, HeaderSize + 1)
    BY <1>1, <2>2 DEF IInv, InPlace, AtPayload
  <2>4. k = PayloadOf(n) /\ Size(n) = HeaderSize + k /\ HeaderSize \in Nat
    BY <2>3, Sizes DEF Packet
  <2>5. Size(n + 1) \in Nat \ {0}
    BY Sizes
  <2> HIDE DEF n, k
  <2>6. Coming'[1] = ByteAt(n + 1, 1)
    <3>1. CASE k = 0
      <4>1. ByteAt(n, HeaderSize + 1) = ByteAt(n + 1, 1)
        BY <1>2, <2>4, <2>5, <3>1 DEF ByteAt
      <4>2. QED
        BY <1>4, <2>2, <2>3, <3>1, <4>1
    <3>2. CASE k # 0
      <4>1. Coming[1] = [msg |-> n, at |-> HeaderSize + 1]
        BY <1>2, <2>3, <2>4, <3>2 DEF ByteAt
      <4>2. Coming[k + 1] = ByteAt(n, HeaderSize + 1 + k)
        BY <1>2, <2>2, <2>4, <4>1, FirstAfter
      <4>3. ByteAt(n, HeaderSize + 1 + k) = ByteAt(n + 1, 1)
        BY <1>2, <2>4, <2>5 DEF ByteAt
      <4>4. QED
        BY <1>4, <2>2, <4>2, <4>3
    <3>3. QED
      BY <3>1, <3>2
  <2>7. n = Len(handled') + 2 /\ n + 1 = Len(handled') + 3
    BY <1>1, <1>2 DEF n, IInv, TypeOK
  <2>8. AtNext'
    BY <1>3, <2>3, <2>6, <2>7 DEF AtNext
  <2>9. tk' # "connecting"
    BY <1>1 DEF IInv
  <2>10. QED
    BY <1>3, <2>8, <2>9 DEF InPlace
<1>7. HandledInOrder'
  BY <1>1, <1>2 DEF IInv, HandledInOrder
<1>8. Blocks'
  BY <1>3 DEF Blocks
<1>9. QED
  BY <1>1, <1>3, <1>4, <1>5, <1>6, <1>7, <1>8 DEF IInv

\* The packet is handed over, and the next one begins.
LEMMA HandleKeeps == IInv /\ Handle => IInv'
<1> SUFFICES ASSUME IInv, Handle PROVE IInv'
  OBVIOUS
<1> DEFINE n == Len(handled)
<1>1. /\ reader.at = "handle" /\ handled' = Append(handled, reader.packet.msg)
      /\ UNCHANGED <<nextByte, stream, tk, window, buffer, torn>> /\ GoTo("loop")
  BY DEF Handle, ReaderIs
<1>2. reader'.at = "loop"
  BY <1>1 DEF GoTo, IInv, TypeOK
<1>3. /\ n \in Nat /\ handled' \in Seq(0 .. MaxMessages) /\ Len(handled') = n + 1
      /\ \A i \in 1 .. n : handled'[i] = handled[i]
      /\ handled'[n + 1] = reader.packet.msg
      /\ DOMAIN handled = 1 .. n /\ DOMAIN handled' = 1 .. (n + 1)
  BY <1>1, AppendProperties DEF IInv, TypeOK
<1>4. TypeOK'
  BY <1>1, <1>3 DEF GoTo, IInv, TypeOK
<1>5. buffer' \in Seq(Brought) /\ Coming' = Coming /\ Consecutive(Coming')
  BY <1>1, SameBytes
<1>6. ~torn => AtNext
  BY <1>1 DEF IInv, InPlace
<1> HIDE DEF n
<1>7. HandledInOrder'
  <2>1. SUFFICES ASSUME ~torn, NEW i \in 1 .. (n + 1) PROVE handled'[i] = i + 1
    BY <1>1, <1>3 DEF HandledInOrder
  <2>2. reader.packet.msg = n + 2
    BY <1>6, <2>1 DEF AtNext, Packet, n
  <2>3. CASE i = n + 1
    BY <1>3, <2>2, <2>3
  <2>4. CASE i \in 1 .. n
    BY <1>3, <2>1, <2>4 DEF IInv, HandledInOrder
  <2>5. QED
    BY <1>3, <2>1, <2>3, <2>4
<1>8. ~torn' => InPlace'
  <2>1. SUFFICES ASSUME ~torn PROVE InPlace'
    BY <1>1
  <2>2. n + 3 = Len(handled') + 2
    BY <1>3
  <2>3. AtStart'
    BY <1>5, <1>6, <2>1, <2>2 DEF AtNext, AtStart, n
  <2>4. tk' # "connecting"
    BY <1>1 DEF IInv
  <2>5. QED
    BY <1>2, <2>3, <2>4 DEF InPlace
<1>9. Blocks'
  BY <1>2 DEF Blocks
<1>10. QED
  BY <1>1, <1>2, <1>4, <1>5, <1>7, <1>8, <1>9 DEF IInv

(***************************************************************************)
(* The theorems                                                            *)
(***************************************************************************)

\* Nothing has come, and nothing has been handled.
LEMMA InitIInv == Init => IInv
<1> SUFFICES ASSUME Init PROVE IInv
  OBVIOUS
<1>1. /\ buffer = <<>> /\ nextByte = [msg |-> 1, at |-> 1] /\ tk = "connecting"
      /\ reader.at = "none" /\ handled = <<>> /\ torn = FALSE
      /\ stream = "open" /\ window = TRUE
  BY DEF Init
<1>2. MaxMessages \in Nat \ {0} /\ PayloadOf(1) = 0 /\ PayloadSize \in Nat
  BY SizesAssumption, KindsAssumption DEF PayloadOf
<1>3. TypeOK
  <2>1. Packet(1) \in [msg : 0 .. MaxMessages, fetch : BOOLEAN, length : 0 .. PayloadSize]
    BY <1>2 DEF Packet
  <2>2. nextByte \in Byte
    BY <1>1, <1>2, SizesAssumption DEF Byte
  <2>3. reader \in
          [at : {"none", "starting", "loop", "receive", "setblocking", "announce", "fetch",
                 "fetched", "unblock", "handle", "ended", "died"},
           fetching : BOOLEAN, blocking : BOOLEAN,
           packet : [msg : 0 .. MaxMessages, fetch : BOOLEAN, length : 0 .. PayloadSize]]
    <3> HIDE DEF Packet
    <3>1. QED
      BY <2>1 DEF Init
  <2>4. buffer \in Seq(Byte) /\ handled \in Seq(0 .. MaxMessages)
    BY <1>1
  <2>5. torn \in BOOLEAN /\ window \in BOOLEAN
    BY <1>1, Zenon
  <2>6. tk \in {"connecting", "playing", "stopped", "closing", "closed", "left", "failed"}
        /\ stream \in {"open", "eof", "reset"}
    BY <1>1
  <2>7. QED
    BY <2>2, <2>3, <2>4, <2>5, <2>6 DEF TypeOK
<1>4. Coming = <<nextByte>> /\ Len(Coming) = 1 /\ Coming[1] = nextByte
  BY <1>1 DEF Coming
<1>5. Size(1) \in Nat \ {0}
  BY Sizes
<1>6. Consecutive(Coming)
  <2>1. Coming[1].at <= Size(Coming[1].msg)
    BY <1>1, <1>4, <1>5
  <2>2. ASSUME NEW i \in 1 .. 1, NEW j \in 1 .. 1
        PROVE  Coming[j] = ByteAt(Coming[i].msg, Coming[i].at + (j - i))
    <3>1. i = 1 /\ j = 1
      OBVIOUS
    <3>2. Coming[1].msg = 1 /\ Coming[1].at + (1 - 1) = 1
      BY <1>1, <1>4
    <3>3. QED
      BY <1>1, <1>4, <1>5, <3>1, <3>2 DEF ByteAt
  <2>3. QED
    BY <1>4, <2>1, <2>2 DEF Consecutive
<1>7. InPlace
  BY <1>1, <1>4, <1>5 DEF InPlace, ByteAt
<1>8. HandledInOrder /\ Blocks /\ buffer \in Seq(Brought)
  BY <1>1 DEF HandledInOrder, Blocks
<1>9. QED
  BY <1>1, <1>3, <1>6, <1>7, <1>8 DEF IInv

LEMMA NextKeeps == IInv /\ [Next]_vars => IInv'
<1> SUFFICES ASSUME IInv, [Next]_vars PROVE IInv'
  OBVIOUS
<1>1. CASE UNCHANGED vars
  <2>1. TypeOK'
    BY <1>1 DEF vars, IInv, TypeOK
  <2>2. QED
    BY <1>1, <2>1, SameBytes, OthersKeep DEF vars, Running
<1>2. CASE Reader
  BY <1>2, CheckRunningKeeps, HeaderReceivedKeeps, BackToLoopKeeps, RaisesKeeps,
     AroundFetchKeeps, PayloadReceivedKeeps, HandleKeeps
  DEF Reader
<1>3. QED
  BY <1>1, <1>2, BytesArriveKeeps, StreamEndsKeeps, ReadIdKeeps, TkKeeps DEF Next

\* The inductive invariant: the bytes to come follow one another, and each
\* statement of run() finds the one it takes for the next (packet_manager.py).
THEOREM Invariance == Spec => []IInv
BY InitIInv, NextKeeps, PTL DEF Spec

\* Every variable keeps its type: what is read from the stream is a packet.
THEOREM TypeCorrect == Spec => []TypeOK
<1>1. IInv => TypeOK
  BY DEF IInv
<1>2. QED
  BY <1>1, Invariance, PTL

\* The packets are handled in the order they were sent, none twice and none
\* left out, as long as no payload came in pieces: wherever the stream is cut,
\* whoever closes the socket, and whichever statement raises.
THEOREM ReaderKeepsItsPlace == Spec => []HandledInOrder
<1>1. IInv => HandledInOrder
  BY DEF IInv
<1>2. QED
  BY <1>1, Invariance, PTL
=============================================================================
