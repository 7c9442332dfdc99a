-------------------------- MODULE ConnectionProofs --------------------------
(***************************************************************************)
(* The safety of both chains of a Connection, and that it implements the   *)
(* channel its room takes it for, for any number of messages of any kind.  *)
(***************************************************************************)
EXTENDS Connection, SequenceTheorems, TLAPS

(***************************************************************************)
(* The invariant of the send chain.  The messages that wait are numbered   *)
(* from First on, first those in the queue, then those that are posted.    *)
(* The outstanding write writes a part of message First, and as long as it *)
(* may end well that part is the one that must follow the wire.            *)
(***************************************************************************)

First == numSent - Len(posted) - Len(queue) + 1

Numbered ==
  /\ \A i \in DOMAIN queue : queue[i] = First + i - 1
  /\ \A i \in DOMAIN posted : posted[i] = First + Len(queue) + i - 1

WritesFirst ==
  \/ writes = {}
  \/ queue # <<>> /\ writes = {Header(First)}
  \/ queue # <<>> /\ First \notin Bare /\ writes = {Payload(First)}

Expected == IF wire = <<>> THEN Header(1) ELSE Following(wire[Len(wire)])

WireEnd ==
  open \/ (late /\ writes # {}) =>
    Expected = IF writes = {Payload(First)} THEN Payload(First) ELSE Header(First)

\* What ended before the socket was closed leaves its message, or that of the
\* write that failed, in front of the queue: no write is started meanwhile.
LateWaits == late => ~open /\ queue # <<>>

SendType ==
  /\ numSent \in 0 .. MaxMessages
  /\ posted \in Seq(Numbers)
  /\ queue \in Seq(Numbers)
  /\ writes \subseteq Part
  /\ wire \in Seq(Part)

SendInv ==
  /\ SendType /\ Numbered /\ WritesFirst /\ ChainRuns /\ WireInOrder
  /\ WireEnd /\ LateWaits

(***************************************************************************)
(* The invariant of the receive chain: what the outstanding read takes for *)
(* a header or a payload is one, because the parts that arrive follow each *)
(* other as the parts of whole messages do, up to the last one sent.       *)
(***************************************************************************)

NextIn ==
  IF read = "header" THEN Header(Len(arrived) + 1)
  ELSE IF incomingMsg \in Bare THEN Header(Len(arrived) + 2)
  ELSE Payload(Len(arrived) + 1)

StreamInOrder ==
  /\ \A i \in DOMAIN arriving :
       arriving[i] = IF i = 1 THEN NextIn ELSE Following(arriving[i - 1])
  /\ Following(lastPart) = IF arriving = <<>> THEN NextIn
                           ELSE Following(arriving[Len(arriving)])

ReadType ==
  /\ lastPart \in Part
  /\ arriving \in Seq(Part)
  /\ read \in {"header", "payload", "none"}
  /\ incomingMsg \in 0 .. MaxMessages
  /\ arrived \in Seq(Numbers)

ReadInv ==
  /\ ReadType
  /\ ArrivedInOrder
  /\ read = "payload" => incomingMsg = Len(arrived) + 1
  /\ read # "none" => StreamInOrder

SocketType ==
  /\ open \in BOOLEAN /\ registered \in BOOLEAN /\ late \in BOOLEAN
  /\ peerOpen \in BOOLEAN /\ peerReads \in BOOLEAN

IInv == SocketType /\ SendInv /\ ReadInv

-----------------------------------------------------------------------------
(* Parts and sequences *)

LEMMA PartFields ==
  ASSUME NEW m, NEW n
  PROVE  /\ Header(m) # Payload(n)
         /\ Header(m) = Header(n) => m = n
         /\ Payload(m) = Payload(n) => m = n
         /\ Header(m).part = "header" /\ Header(m).msg = m
         /\ Payload(m).part = "payload" /\ Payload(m).msg = m
  BY DEF Header, Payload

\* After the last part of message n comes the header of the next message.
LEMMA FollowingPart ==
  ASSUME NEW n
  PROVE  /\ Following(Payload(n)) = Header(n + 1)
         /\ n \in Bare => Following(Header(n)) = Header(n + 1)
         /\ n \notin Bare => Following(Header(n)) = Payload(n)
  BY DEF Following, Header, Payload

LEMMA AppendShape ==
  ASSUME NEW S, NEW s \in Seq(S), NEW e \in S
  PROVE  /\ Append(s, e) \in Seq(S)
         /\ Append(s, e) # <<>>
         /\ Len(Append(s, e)) = Len(s) + 1
         /\ DOMAIN Append(s, e) = 1 .. (Len(s) + 1)
         /\ \A i \in 1 .. Len(s) : Append(s, e)[i] = s[i]
         /\ Append(s, e)[Len(s) + 1] = e
  OBVIOUS

LEMMA TailShape ==
  ASSUME NEW S, NEW s \in Seq(S), s # <<>>
  PROVE  /\ Len(s) \in Nat \ {0}
         /\ Head(s) = s[1] /\ Head(s) \in S
         /\ Tail(s) \in Seq(S)
         /\ Len(Tail(s)) = Len(s) - 1
         /\ DOMAIN Tail(s) = 1 .. (Len(s) - 1)
         /\ \A i \in 1 .. (Len(s) - 1) : Tail(s)[i] = s[i + 1]
         /\ Tail(s) = <<>> <=> Len(s) = 1
<1>1. Len(s) \in Nat \ {0}
  BY EmptySeq
<1>2. /\ Head(s) \in S
      /\ Tail(s) \in Seq(S)
      /\ Len(Tail(s)) = Len(s) - 1
      /\ \A i \in 1 .. (Len(s) - 1) : Tail(s)[i] = s[i + 1]
  BY HeadTailProperties
<1>3. DOMAIN Tail(s) = 1 .. (Len(s) - 1)
  BY <1>2, LenProperties
<1>4. Tail(s) = <<>> <=> Len(s) = 1
  <2> DEFINE t == Tail(s)
  <2>1. t \in Seq(S) /\ Len(t) = Len(s) - 1
    BY <1>2
  <2> HIDE DEF t
  <2>2. t = <<>> <=> Len(t) = 0
    BY <2>1, EmptySeq
  <2>3. QED
    BY <1>1, <2>1, <2>2 DEF t
<1>5. Head(s) = s[1]
  BY <1>1
<1>6. QED
  BY <1>1, <1>2, <1>3, <1>4, <1>5

\* A stream in order stays in order when the part that follows is appended.
LEMMA AppendInOrder ==
  ASSUME NEW s \in Seq(Part), NEW first, NEW e \in Part,
         \A i \in DOMAIN s : s[i] = IF i = 1 THEN first ELSE Following(s[i - 1]),
         e = IF s = <<>> THEN first ELSE Following(s[Len(s)])
  PROVE  \A i \in DOMAIN Append(s, e) :
           Append(s, e)[i] = IF i = 1 THEN first
                             ELSE Following(Append(s, e)[i - 1])
<1> DEFINE t == Append(s, e)
<1>1. /\ Len(t) = Len(s) + 1 /\ DOMAIN t = 1 .. (Len(s) + 1)
      /\ \A i \in 1 .. Len(s) : t[i] = s[i]
      /\ t[Len(s) + 1] = e
  BY AppendShape
<1>2. Len(s) \in Nat /\ DOMAIN s = 1 .. Len(s) /\ (s = <<>> <=> Len(s) = 0)
  BY EmptySeq, LenProperties
<1> HIDE DEF t
<1>3. SUFFICES ASSUME NEW i \in 1 .. (Len(s) + 1)
               PROVE  t[i] = IF i = 1 THEN first ELSE Following(t[i - 1])
  BY <1>1 DEF t
<1>4. CASE i = Len(s) + 1 /\ Len(s) = 0
  BY <1>1, <1>2, <1>4
<1>5. CASE i = Len(s) + 1 /\ Len(s) # 0
  BY <1>1, <1>2, <1>5
<1>6. CASE i \in 1 .. Len(s) /\ i = 1
  BY <1>1, <1>2, <1>6
<1>7. CASE i \in 1 .. Len(s) /\ i # 1
  <2>1. i - 1 \in 1 .. Len(s)
    BY <1>2, <1>7
  <2>2. QED
    BY <1>1, <1>2, <1>7, <2>1
<1>8. QED
  BY <1>2, <1>4, <1>5, <1>6, <1>7

-----------------------------------------------------------------------------
(* The send chain *)

\* What the steps need to know of the numbers in a state of the invariant.
LEMMA SendFacts ==
  ASSUME SendInv
  PROVE  /\ Len(posted) \in Nat /\ Len(queue) \in Nat /\ First \in Int
         /\ DOMAIN posted = 1 .. Len(posted) /\ DOMAIN queue = 1 .. Len(queue)
         /\ queue # <<>> => Len(queue) # 0 /\ Head(queue) = First
         /\ queue # <<>> => First \in Numbers
         /\ First + Len(queue) + Len(posted) = numSent + 1
<1>1. /\ posted \in Seq(Numbers) /\ queue \in Seq(Numbers)
      /\ numSent \in Int
  BY BoundAssumption DEF SendInv, SendType
<1>2. /\ Len(posted) \in Nat /\ Len(queue) \in Nat
      /\ DOMAIN posted = 1 .. Len(posted) /\ DOMAIN queue = 1 .. Len(queue)
  BY <1>1
<1>3. First \in Int /\ First + Len(queue) + Len(posted) = numSent + 1
  BY <1>1, <1>2 DEF First
<1>4. ASSUME queue # <<>>
      PROVE  Len(queue) # 0 /\ Head(queue) = First /\ First \in Numbers
  <2>1. Len(queue) \in Nat \ {0} /\ Head(queue) = queue[1] /\ Head(queue) \in Numbers
    BY <1>1, <1>4, TailShape
  <2>2. queue[1] = First + 1 - 1
    BY <1>2, <2>1 DEF SendInv, Numbered
  <2>3. QED
    BY <1>3, <2>1, <2>2
<1>5. QED
  BY <1>2, <1>3, <1>4

\* Steps of the other side, and closing the socket, leave the chain alone.
LEMMA SendIdle ==
  ASSUME SendInv, UNCHANGED sendVars, open' => open,
         late' => ~open' /\ (late \/ (open /\ writes # {}))
  PROVE  SendInv'
<1>1. queue # <<>> \/ writes = {}
  BY DEF SendInv, WritesFirst
<1>2. WireEnd' /\ LateWaits'
  BY <1>1 DEF SendInv, WireEnd, LateWaits, Expected, First, sendVars
<1>3. QED
  BY <1>2 DEF SendInv, SendType, Numbered, WritesFirst, ChainRuns, WireInOrder,
              First, sendVars

LEMMA SendUnchanged ==
  ASSUME SendInv, UNCHANGED <<open, late, sendVars>>
  PROVE  SendInv'
<1>1. late' => ~open' /\ late
  BY DEF SendInv, LateWaits
<1>2. QED
  BY <1>1, SendIdle

\* A message that is sent waits behind all others.
LEMMA SendMessageKeeps ==
  ASSUME SendInv, SendMessage
  PROVE  SendInv'
<1>1. /\ numSent \in 0 .. MaxMessages /\ numSent < MaxMessages
      /\ numSent' = numSent + 1 /\ posted' = Append(posted, numSent + 1)
      /\ UNCHANGED <<open, late, queue, writes, wire>>
      /\ posted \in Seq(Numbers)
  BY DEF SendMessage, SendInv, SendType
<1>2. numSent + 1 \in Numbers /\ numSent' \in 0 .. MaxMessages
  BY <1>1, BoundAssumption DEF Numbers
<1>3. /\ posted' \in Seq(Numbers)
      /\ Len(posted') = Len(posted) + 1
      /\ DOMAIN posted' = 1 .. (Len(posted) + 1)
      /\ \A i \in 1 .. Len(posted) : posted'[i] = posted[i]
      /\ posted'[Len(posted) + 1] = numSent + 1
  BY <1>1, <1>2, AppendShape
<1>4. First' = First
  BY <1>1, <1>3, SendFacts DEF First
<1>5. ASSUME NEW i \in 1 .. (Len(posted) + 1)
      PROVE  posted'[i] = First + Len(queue) + i - 1
  <2>1. CASE i \in 1 .. Len(posted)
    BY <1>3, <2>1, SendFacts DEF SendInv, Numbered
  <2>2. CASE i = Len(posted) + 1
    BY <1>3, <2>2, SendFacts DEF SendInv
  <2>3. QED
    BY <2>1, <2>2, SendFacts
<1>6. Numbered'
  BY <1>1, <1>3, <1>4, <1>5 DEF SendInv, Numbered
<1>7. QED
  BY <1>1, <1>2, <1>3, <1>4, <1>6
     DEF SendInv, SendType, WritesFirst, ChainRuns, WireInOrder, WireEnd, LateWaits,
         Expected

\* The posted handler moves message First + Len(queue) into the queue, and
\* starts a write only when that is message First.
LEMMA RunPostedKeeps ==
  ASSUME SendInv, RunPosted
  PROVE  SendInv'
<1>1. /\ posted # <<>> /\ posted' = Tail(posted)
      /\ queue' = Append(queue, Head(posted))
      /\ UNCHANGED <<open, late, numSent, wire>>
      /\ posted \in Seq(Numbers) /\ queue \in Seq(Numbers)
      /\ writes' = IF queue = <<>> THEN writes \cup {Header(Head(queue'))} ELSE writes
  BY DEF RunPosted, StartWriting, SendInv, SendType
<1>2. /\ Len(posted) \in Nat \ {0}
      /\ Head(posted) = posted[1] /\ Head(posted) \in Numbers
      /\ posted' \in Seq(Numbers)
      /\ Len(posted') = Len(posted) - 1
      /\ DOMAIN posted' = 1 .. (Len(posted) - 1)
      /\ \A i \in 1 .. (Len(posted) - 1) : posted'[i] = posted[i + 1]
  BY <1>1, TailShape
<1>3. /\ queue' \in Seq(Numbers) /\ queue' # <<>>
      /\ Len(queue') = Len(queue) + 1
      /\ DOMAIN queue' = 1 .. (Len(queue) + 1)
      /\ \A i \in 1 .. Len(queue) : queue'[i] = queue[i]
      /\ queue'[Len(queue) + 1] = posted[1]
  BY <1>1, <1>2, AppendShape
<1>4. First' = First
  BY <1>1, <1>2, <1>3, SendFacts DEF First, SendInv, SendType
<1>5. ASSUME NEW i \in 1 .. (Len(queue) + 1)
      PROVE  queue'[i] = First + i - 1
  <2>1. CASE i \in 1 .. Len(queue)
    BY <1>3, <2>1, SendFacts DEF SendInv, Numbered
  <2>2. CASE i = Len(queue) + 1
    <3>1. posted[1] = First + Len(queue) + 1 - 1
      BY <1>2, SendFacts DEF SendInv, Numbered
    <3>2. QED
      BY <1>3, <2>2, <3>1, SendFacts
  <2>3. QED
    BY <2>1, <2>2, SendFacts
<1>6. ASSUME NEW i \in 1 .. (Len(posted) - 1)
      PROVE  posted'[i] = First + (Len(queue) + 1) + i - 1
  <2>1. i + 1 \in 1 .. Len(posted)
    BY <1>2
  <2>2. posted[i + 1] = First + Len(queue) + (i + 1) - 1
    BY <2>1, SendFacts DEF SendInv, Numbered
  <2>3. QED
    BY <1>2, <2>2, SendFacts
<1>7. Numbered'
  BY <1>2, <1>3, <1>4, <1>5, <1>6 DEF Numbered
<1>8. CASE queue = <<>>
  <2>1. writes = {}
    BY <1>8 DEF SendInv, WritesFirst
  <2>2. Head(queue') = First
    <3>1. Len(queue) = 0
      BY <1>8
    <3>2. Head(queue') = queue'[1]
      BY <1>3, TailShape
    <3>3. QED
      BY <1>5, <3>1, <3>2, SendFacts
  <2>3. writes' = {Header(First)}
    BY <1>1, <1>8, <2>1, <2>2
  <2>4. Header(First) \in Part
    <3>1. First \in Numbers
      BY <1>3, <2>2, TailShape
    <3>2. QED
      BY <3>1, BoundAssumption DEF Header, Part, Numbers
  <2>5. Expected' = Expected /\ (open => Expected = Header(First))
    BY <1>1, <2>1 DEF Expected, SendInv, WireEnd
  <2>6. writes' # {Payload(First)}
    BY <2>3, PartFields
  <2>7. SendType'
    BY <1>1, <1>2, <1>3, <2>3, <2>4 DEF SendInv, SendType
  <2>8. WritesFirst' /\ ChainRuns' /\ WireEnd' /\ LateWaits'
    BY <1>1, <1>3, <1>4, <1>8, <2>3, <2>5, <2>6
       DEF WritesFirst, ChainRuns, WireEnd, LateWaits, SendInv
  <2>9. QED
    BY <1>1, <1>7, <2>7, <2>8 DEF SendInv, WireInOrder
<1>9. CASE queue # <<>>
  <2>1. writes' = writes
    BY <1>1, <1>9
  <2>2. SendType'
    BY <1>1, <1>2, <1>3, <2>1 DEF SendInv, SendType
  <2>3. WritesFirst' /\ ChainRuns' /\ WireEnd' /\ LateWaits'
    BY <1>1, <1>3, <1>4, <1>9, <2>1
       DEF SendInv, WritesFirst, ChainRuns, WireEnd, LateWaits, Expected
  <2>4. QED
    BY <1>1, <1>7, <2>2, <2>3 DEF SendInv, WireInOrder
<1>10. QED
  BY <1>8, <1>9

\* What a completed write puts on the wire is the part that must follow.
LEMMA WireGrows ==
  ASSUME SendInv, open \/ late, NEW w \in writes, wire' = Append(wire, w)
  PROVE  /\ queue # <<>> /\ writes = {w} /\ w \in Part
         /\ w = Header(First) \/ (First \notin Bare /\ w = Payload(First))
         /\ wire' \in Seq(Part)
         /\ WireInOrder'
         /\ Expected' = Following(w)
<1>1. /\ queue # <<>> /\ writes = {w}
      /\ w = Header(First) \/ (First \notin Bare /\ w = Payload(First))
  BY DEF SendInv, WritesFirst
<1>2. w \in Part /\ wire \in Seq(Part)
  BY DEF SendInv, SendType
<1>3. w = IF wire = <<>> THEN Header(1) ELSE Following(wire[Len(wire)])
  <2>1. w = IF writes = {Payload(First)} THEN Payload(First) ELSE Header(First)
    BY <1>1, PartFields
  <2>2. QED
    BY <2>1 DEF SendInv, WireEnd, Expected
<1>4. WireInOrder'
  <2>1. \A i \in DOMAIN wire :
          wire[i] = IF i = 1 THEN Header(1) ELSE Following(wire[i - 1])
    BY DEF SendInv, WireInOrder
  <2>2. \A i \in DOMAIN Append(wire, w) :
          Append(wire, w)[i] = IF i = 1 THEN Header(1)
                               ELSE Following(Append(wire, w)[i - 1])
    BY <1>2, <1>3, <2>1, AppendInOrder
  <2>3. QED
    BY <2>2 DEF WireInOrder
<1>5. /\ wire' \in Seq(Part) /\ wire' # <<>>
      /\ Len(wire') = Len(wire) + 1 /\ wire'[Len(wire) + 1] = w
  BY <1>2, AppendShape
<1>6. Expected' = Following(w)
  BY <1>5 DEF Expected
<1>7. QED
  BY <1>1, <1>2, <1>4, <1>5, <1>6

\* With its last part on the wire the message goes, and the next one is on.
LEMMA NextMessageKeeps ==
  ASSUME SendInv, open \/ late, NEW w \in writes, wire' = Append(wire, w),
         NextMessage(w), late' = FALSE, UNCHANGED <<open, numSent, posted>>,
         Following(w) = Header(First + 1)
  PROVE  SendInv'
<1>1. /\ queue # <<>> /\ writes = {w} /\ wire' \in Seq(Part) /\ WireInOrder'
      /\ Expected' = Header(First + 1)
  BY WireGrows
<1>2. /\ queue \in Seq(Numbers) /\ queue' = Tail(queue)
      /\ writes' = IF Tail(queue) = <<>> THEN {} ELSE {Header(queue[2])}
  BY <1>1 DEF NextMessage, SendInv, SendType
<1>3. /\ Len(queue) \in Nat \ {0}
      /\ queue' \in Seq(Numbers)
      /\ Len(queue') = Len(queue) - 1
      /\ DOMAIN queue' = 1 .. (Len(queue) - 1)
      /\ \A i \in 1 .. (Len(queue) - 1) : queue'[i] = queue[i + 1]
      /\ queue' = <<>> <=> Len(queue) = 1
  BY <1>1, <1>2, TailShape
<1>4. First' = First + 1 /\ First \in Int
  BY <1>3, SendFacts DEF First, SendInv, SendType
<1>5. ASSUME NEW i \in 1 .. (Len(queue) - 1)
      PROVE  queue'[i] = First + 1 + i - 1
  <2>1. i + 1 \in 1 .. Len(queue)
    BY <1>3
  <2>2. queue[i + 1] = First + (i + 1) - 1
    BY <2>1, SendFacts DEF SendInv, Numbered
  <2>3. QED
    BY <1>3, <1>4, <2>2
<1>6. \A i \in DOMAIN posted : posted[i] = First + 1 + (Len(queue) - 1) + i - 1
  BY <1>3, <1>4, SendFacts DEF SendInv, Numbered
<1>7. Numbered'
  BY <1>3, <1>4, <1>5, <1>6 DEF Numbered
<1>8. writes' = IF queue' = <<>> THEN {} ELSE {Header(First')}
  <2>1. CASE queue' = <<>>
    BY <1>2, <2>1
  <2>2. CASE queue' # <<>>
    <3>1. 2 \in 1 .. Len(queue)
      BY <1>3, <2>2
    <3>2. queue[2] = First + 2 - 1
      BY <3>1, SendFacts DEF SendInv, Numbered
    <3>3. QED
      BY <1>2, <1>4, <2>2, <3>2
  <2>3. QED
    BY <2>1, <2>2
<1>9. writes' \subseteq Part
  <2>1. CASE queue' = <<>>
    BY <1>8, <2>1
  <2>2. CASE queue' # <<>>
    <3>1. queue'[1] \in Numbers /\ queue'[1] = First'
      BY <1>3, <1>4, <1>5, <2>2
    <3>2. QED
      BY <1>8, <2>2, <3>1, BoundAssumption DEF Header, Part, Numbers
  <2>3. QED
    BY <2>1, <2>2
<1>10. writes' # {Payload(First')}
  BY <1>8, PartFields
<1>11. SendType'
  BY <1>1, <1>3, <1>9 DEF SendInv, SendType
<1>12. WritesFirst' /\ ChainRuns' /\ WireEnd' /\ LateWaits'
  BY <1>1, <1>4, <1>8, <1>10 DEF WritesFirst, ChainRuns, WireEnd, LateWaits
<1>13. QED
  BY <1>1, <1>7, <1>11, <1>12 DEF SendInv

\* A header is followed by its payload, or by the next message.
LEMMA WriteCompletesKeeps ==
  ASSUME SendInv, NEW w \in writes, WriteCompletes(w)
  PROVE  SendInv'
<1>1. /\ open \/ late
      /\ late' = FALSE /\ wire' = Append(wire, w)
      /\ UNCHANGED <<open, numSent, posted>>
      /\ HeaderSent(w) \/ PayloadSent(w)
  BY DEF WriteCompletes
<1>2. /\ queue # <<>> /\ writes = {w} /\ wire' \in Seq(Part) /\ WireInOrder'
      /\ Expected' = Following(w)
      /\ w = Header(First) \/ (First \notin Bare /\ w = Payload(First))
  BY <1>1, WireGrows
<1>3. Head(queue) = First /\ First \in Numbers
  BY <1>2, SendFacts
<1>4. CASE PayloadSent(w)
  <2>1. w = Payload(First)
    BY <1>2, <1>4, PartFields DEF PayloadSent
  <2>2. QED
    BY <1>1, <1>4, <2>1, FollowingPart, NextMessageKeeps DEF PayloadSent
<1>5. CASE HeaderSent(w) /\ First \in Bare
  <2>1. w = Header(First)
    BY <1>2, <1>5
  <2>2. NextMessage(w)
    BY <1>3, <1>5 DEF HeaderSent
  <2>3. QED
    BY <1>1, <1>5, <2>1, <2>2, FollowingPart, NextMessageKeeps
<1>6. CASE HeaderSent(w) /\ First \notin Bare
  <2>1. w = Header(First)
    BY <1>2, <1>6, PartFields DEF HeaderSent
  <2>2. writes' = {Payload(First)} /\ UNCHANGED queue
    BY <1>2, <1>3, <1>6 DEF HeaderSent
  <2>3. Payload(First) \in Part
    BY <1>3, BoundAssumption DEF Payload, Part, Numbers
  <2>4. First' = First
    BY <1>1, <2>2 DEF First
  <2>5. Expected' = Payload(First)
    BY <1>2, <1>6, <2>1, FollowingPart
  <2>6. SendType' /\ Numbered'
    BY <1>1, <1>2, <2>2, <2>3, <2>4 DEF SendInv, SendType, Numbered
  <2>7. WritesFirst' /\ ChainRuns' /\ WireEnd' /\ LateWaits'
    BY <1>1, <1>2, <1>6, <2>2, <2>4, <2>5 DEF WritesFirst, ChainRuns, WireEnd, LateWaits
  <2>8. QED
    BY <1>2, <2>6, <2>7 DEF SendInv
<1>7. QED
  BY <1>1, <1>4, <1>5, <1>6

\* A write that failed is the last, since its message stays in front.
LEMMA WriteFailsKeeps ==
  ASSUME SendInv, NEW w \in writes, WriteFails(w)
  PROVE  SendInv'
<1>1. /\ writes' = writes \ {w} /\ open' = FALSE
      /\ UNCHANGED <<numSent, posted, queue, wire>>
  BY DEF WriteFails, Disconnect
<1>2. writes' = {} /\ queue # <<>>
  BY <1>1 DEF SendInv, WritesFirst
<1>3. QED
  BY <1>1, <1>2 DEF SendInv, SendType, Numbered, WritesFirst, ChainRuns,
                    WireInOrder, WireEnd, LateWaits, First

-----------------------------------------------------------------------------
(* The receive chain *)

\* Steps of the other side leave the chain alone.
LEMMA ReadIdle ==
  ASSUME ReadInv, UNCHANGED <<lastPart, readVars>>
  PROVE  ReadInv'
  BY DEF ReadInv, ReadType, ArrivedInOrder, StreamInOrder, NextIn, readVars

\* The chain may stop at any point.
LEMMA StopsReading ==
  ASSUME ReadInv, read' = "none", UNCHANGED <<lastPart, arrived>>,
         arriving' \in Seq(Part), incomingMsg' \in 0 .. MaxMessages
  PROVE  ReadInv'
  BY DEF ReadInv, ReadType, ArrivedInOrder

\* The peer appends the part that follows the last it has sent.
LEMMA PeerSendsKeeps ==
  ASSUME ReadInv, PeerSends
  PROVE  ReadInv'
<1>1. /\ lastPart' = Following(lastPart) /\ arriving' = Append(arriving, lastPart')
      /\ lastPart'.msg <= MaxMessages
      /\ UNCHANGED <<read, incomingMsg, arrived>>
      /\ lastPart \in Part /\ arriving \in Seq(Part)
  BY DEF PeerSends, ReadInv, ReadType
<1>2. lastPart' \in Part
  BY <1>1, BoundAssumption DEF Following, Part, Header, Payload
<1>3. /\ arriving' \in Seq(Part) /\ arriving' # <<>>
      /\ Len(arriving') = Len(arriving) + 1
      /\ arriving'[Len(arriving) + 1] = lastPart'
  BY <1>1, <1>2, AppendShape
<1>4. NextIn' = NextIn
  BY <1>1 DEF NextIn
<1>5. ASSUME read # "none"
      PROVE  StreamInOrder'
  <2>1. lastPart' = IF arriving = <<>> THEN NextIn ELSE Following(arriving[Len(arriving)])
    BY <1>1, <1>5 DEF ReadInv, StreamInOrder
  <2>2. \A i \in DOMAIN arriving :
          arriving[i] = IF i = 1 THEN NextIn ELSE Following(arriving[i - 1])
    BY <1>5 DEF ReadInv, StreamInOrder
  <2>3. \A i \in DOMAIN Append(arriving, lastPart') :
          Append(arriving, lastPart')[i] =
            IF i = 1 THEN NextIn ELSE Following(Append(arriving, lastPart')[i - 1])
    BY <1>1, <1>2, <2>1, <2>2, AppendInOrder
  <2>4. QED
    BY <1>1, <1>3, <1>4, <2>3 DEF StreamInOrder
<1>6. QED
  BY <1>1, <1>2, <1>3, <1>5 DEF ReadInv, ReadType, ArrivedInOrder

\* A part is read: what is left of the stream begins with what follows it.
LEMMA PartRead ==
  ASSUME ReadInv, read # "none", arriving # <<>>, arriving' = Tail(arriving),
         UNCHANGED lastPart, NextIn' = Following(NextIn)
  PROVE  Head(arriving) = NextIn /\ arriving' \in Seq(Part) /\ StreamInOrder'
<1>1. /\ arriving \in Seq(Part) /\ DOMAIN arriving = 1 .. Len(arriving)
      /\ Len(arriving) \in Nat \ {0}
      /\ Head(arriving) = arriving[1]
      /\ arriving' \in Seq(Part)
      /\ Len(arriving') = Len(arriving) - 1
      /\ DOMAIN arriving' = 1 .. (Len(arriving) - 1)
      /\ \A i \in 1 .. (Len(arriving) - 1) : arriving'[i] = arriving[i + 1]
      /\ arriving' = <<>> <=> Len(arriving) = 1
  <2>1. arriving \in Seq(Part)
    BY DEF ReadInv, ReadType
  <2>2. QED
    BY <2>1, TailShape, LenProperties
<1>2. /\ \A i \in 1 .. Len(arriving) :
           arriving[i] = IF i = 1 THEN NextIn ELSE Following(arriving[i - 1])
      /\ Following(lastPart) = Following(arriving[Len(arriving)])
  BY <1>1 DEF ReadInv, StreamInOrder
<1>3. arriving[1] = NextIn
  BY <1>1, <1>2
<1>4. ASSUME NEW i \in 1 .. (Len(arriving) - 1)
      PROVE  arriving'[i] = IF i = 1 THEN NextIn' ELSE Following(arriving'[i - 1])
  <2>1. i + 1 \in 1 .. Len(arriving) /\ i + 1 # 1 /\ (i + 1) - 1 = i
    BY <1>1
  <2>2. arriving'[i] = Following(arriving[i])
    BY <1>1, <1>2, <2>1
  <2>3. CASE i = 1
    BY <1>3, <2>2, <2>3
  <2>4. CASE i # 1
    <3>1. i - 1 \in 1 .. (Len(arriving) - 1) /\ (i - 1) + 1 = i
      BY <1>1, <2>4
    <3>2. arriving'[i - 1] = arriving[i]
      BY <1>1, <3>1
    <3>3. QED
      BY <2>2, <2>4, <3>2
  <2>5. QED
    BY <2>3, <2>4
<1>5. Following(lastPart) = IF arriving' = <<>> THEN NextIn'
                            ELSE Following(arriving'[Len(arriving')])
  <2>1. CASE Len(arriving) = 1
    BY <1>1, <1>2, <1>3, <2>1
  <2>2. CASE Len(arriving) # 1
    <3>1. Len(arriving) - 1 \in 1 .. (Len(arriving) - 1)
          /\ (Len(arriving) - 1) + 1 = Len(arriving)
      BY <1>1, <2>2
    <3>2. arriving'[Len(arriving')] = arriving[Len(arriving)]
      BY <1>1, <3>1
    <3>3. QED
      BY <1>1, <1>2, <2>2, <3>2
  <2>3. QED
    BY <2>1, <2>2
<1>6. QED
  BY <1>1, <1>3, <1>4, <1>5 DEF StreamInOrder

LEMMA HeaderReadKeeps ==
  ASSUME ReadInv, HeaderRead
  PROVE  ReadInv'
<1>1. /\ read = "header" /\ arriving # <<>> /\ arriving' = Tail(arriving)
      /\ incomingMsg' = Head(arriving).msg
      /\ UNCHANGED <<lastPart, arrived>>
      /\ read' = "none" \/ read' = "payload"
      /\ arriving \in Seq(Part)
  BY DEF HeaderRead, peerVars, ReadInv, ReadType
<1>2. arriving' \in Seq(Part) /\ Head(arriving) \in Part
  BY <1>1, TailShape
<1>3. incomingMsg' \in 0 .. MaxMessages
  BY <1>1, <1>2 DEF Part
<1>4. CASE read' = "none"
  BY <1>1, <1>2, <1>3, <1>4, StopsReading
<1>5. CASE read' = "payload"
  <2>1. NextIn = Header(Len(arrived) + 1)
    BY <1>1 DEF NextIn
  <2>2. Head(arriving) = NextIn
    <3>1. DOMAIN arriving = 1 .. Len(arriving) /\ Len(arriving) \in Nat \ {0}
          /\ Head(arriving) = arriving[1]
      BY <1>1, TailShape, LenProperties
    <3>2. \A i \in 1 .. Len(arriving) :
            arriving[i] = IF i = 1 THEN NextIn ELSE Following(arriving[i - 1])
      BY <1>1, <3>1 DEF ReadInv, StreamInOrder
    <3>3. arriving[1] = NextIn
      BY <3>1, <3>2
    <3>4. QED
      BY <3>1, <3>3
  <2>3. incomingMsg' = Len(arrived) + 1
    BY <1>1, <2>1, <2>2, PartFields
  <2>4. Len(arrived) \in Nat /\ (Len(arrived) + 1) + 1 = Len(arrived) + 2
    BY DEF ReadInv, ReadType
  <2>5. NextIn' = Following(NextIn)
    <3>1. NextIn' = IF Len(arrived) + 1 \in Bare THEN Header(Len(arrived) + 2)
                    ELSE Payload(Len(arrived) + 1)
      BY <1>1, <1>5, <2>3 DEF NextIn
    <3>2. QED
      BY <2>1, <2>4, <3>1, FollowingPart
  <2>6. StreamInOrder'
    BY <1>1, <2>5, PartRead
  <2>7. QED
    BY <1>1, <1>2, <1>3, <1>5, <2>3, <2>6 DEF ReadInv, ReadType, ArrivedInOrder
<1>6. QED
  BY <1>1, <1>4, <1>5

\* The message that is complete is the next one in order.
LEMMA EnqueueFacts ==
  ASSUME ReadInv, read = "payload", Enqueue
  PROVE  /\ arrived' \in Seq(Numbers) /\ Len(arrived') = Len(arrived) + 1
         /\ ArrivedInOrder'
         /\ read' = "header" /\ incomingMsg' = 0
         /\ NextIn' = Header(Len(arrived) + 2)
<1>1. /\ arrived \in Seq(Numbers) /\ arrived' = Append(arrived, incomingMsg)
      /\ read' = "header" /\ incomingMsg' = 0
      /\ incomingMsg = Len(arrived) + 1 /\ incomingMsg \in 0 .. MaxMessages
  BY DEF Enqueue, ReadInv, ReadType
<1>2. Len(arrived) \in Nat /\ DOMAIN arrived = 1 .. Len(arrived)
  BY <1>1
<1>3. incomingMsg \in Numbers
  BY <1>1, <1>2, BoundAssumption DEF Numbers
<1>4. /\ arrived' \in Seq(Numbers)
      /\ Len(arrived') = Len(arrived) + 1
      /\ DOMAIN arrived' = 1 .. (Len(arrived) + 1)
      /\ \A i \in 1 .. Len(arrived) : arrived'[i] = arrived[i]
      /\ arrived'[Len(arrived) + 1] = Len(arrived) + 1
  BY <1>1, <1>3, AppendShape
<1>5. \A i \in 1 .. Len(arrived) : arrived[i] = i
  BY <1>2 DEF ReadInv, ArrivedInOrder
<1>6. ArrivedInOrder'
  <2>1. ASSUME NEW i \in 1 .. (Len(arrived) + 1)
        PROVE  arrived'[i] = i
    <3>1. i \in 1 .. Len(arrived) \/ i = Len(arrived) + 1
      BY <1>2
    <3>2. QED
      BY <1>4, <1>5, <3>1
  <2>2. QED
    BY <1>4, <2>1 DEF ArrivedInOrder
<1>7. NextIn' = Header(Len(arrived) + 2)
  <2>1. (Len(arrived) + 1) + 1 = Len(arrived) + 2
    BY <1>2
  <2>2. QED
    BY <1>1, <1>4, <2>1 DEF NextIn
<1>8. QED
  BY <1>1, <1>4, <1>6, <1>7

\* An empty payload takes nothing from the stream.
LEMMA EmptyPayloadReadKeeps ==
  ASSUME ReadInv, EmptyPayloadRead
  PROVE  ReadInv'
<1>1. /\ read = "payload" /\ incomingMsg \in Bare /\ Enqueue
      /\ UNCHANGED <<lastPart, arriving>>
  BY DEF EmptyPayloadRead, peerVars
<1>2. /\ arrived' \in Seq(Numbers) /\ ArrivedInOrder'
      /\ read' = "header" /\ incomingMsg' = 0
      /\ NextIn' = Header(Len(arrived) + 2)
  BY <1>1, EnqueueFacts
<1>3. NextIn' = NextIn
  BY <1>1, <1>2 DEF NextIn
<1>4. StreamInOrder'
  BY <1>1, <1>3 DEF ReadInv, StreamInOrder
<1>5. QED
  BY <1>1, <1>2, <1>4, BoundAssumption DEF ReadInv, ReadType

LEMMA PayloadReadKeeps ==
  ASSUME ReadInv, PayloadRead
  PROVE  ReadInv'
<1>1. /\ read = "payload" /\ incomingMsg \notin Bare /\ Enqueue
      /\ arriving # <<>> /\ arriving' = Tail(arriving) /\ UNCHANGED lastPart
  BY DEF PayloadRead, peerVars
<1>2. /\ arrived' \in Seq(Numbers) /\ ArrivedInOrder'
      /\ read' = "header" /\ incomingMsg' = 0
      /\ NextIn' = Header(Len(arrived) + 2)
  BY <1>1, EnqueueFacts
<1>3. NextIn = Payload(Len(arrived) + 1)
  BY <1>1 DEF NextIn
<1>4. NextIn' = Following(NextIn)
  <2>1. (Len(arrived) + 1) + 1 = Len(arrived) + 2
    BY DEF ReadInv, ReadType
  <2>2. QED
    BY <1>2, <1>3, <2>1, FollowingPart
<1>5. StreamInOrder' /\ arriving' \in Seq(Part)
  BY <1>1, <1>4, PartRead
<1>6. QED
  BY <1>1, <1>2, <1>5, BoundAssumption DEF ReadInv, ReadType

-----------------------------------------------------------------------------
(* The invariant *)

LEMMA InitImpliesIInv == Init => IInv
<1>1. SUFFICES ASSUME Init PROVE IInv
  OBVIOUS
<1> DEFINE none == <<>>
<1>2. \A S : none \in Seq(S) /\ Len(none) = 0 /\ DOMAIN none = {}
  OBVIOUS
<1>3. posted = none /\ queue = none /\ wire = none /\ arriving = none /\ arrived = none
  BY <1>1 DEF Init
<1>4. /\ open = TRUE /\ registered = TRUE /\ late = FALSE
      /\ peerOpen = TRUE /\ peerReads = TRUE
      /\ numSent = 0 /\ writes = {} /\ lastPart = Payload(0)
      /\ read = "header" /\ incomingMsg = 0
  BY <1>1 DEF Init
<1>5. Following(Payload(0)) = Header(1) /\ Payload(0) \in Part
  BY BoundAssumption, FollowingPart DEF Payload, Part
<1> HIDE DEF none
<1>6. First = 1
  BY <1>2, <1>3, <1>4 DEF First
<1>7. SocketType
  BY <1>4 DEF SocketType
<1>8. SendType /\ Numbered /\ WritesFirst /\ ChainRuns /\ WireInOrder
  BY <1>2, <1>3, <1>4, BoundAssumption
     DEF SendType, Numbered, WritesFirst, ChainRuns, WireInOrder, none
<1>9. WireEnd /\ LateWaits
  BY <1>3, <1>4, <1>6 DEF WireEnd, LateWaits, Expected, none
<1>10. ReadType /\ ArrivedInOrder
  BY <1>2, <1>3, <1>4, <1>5, BoundAssumption DEF ReadType, ArrivedInOrder
<1>11. NextIn = Header(1)
  BY <1>2, <1>3, <1>4 DEF NextIn
<1>12. StreamInOrder
  BY <1>2, <1>3, <1>4, <1>5, <1>11 DEF StreamInOrder, none
<1>13. QED
  BY <1>4, <1>7, <1>8, <1>9, <1>10, <1>12 DEF IInv, SendInv, ReadInv

\* Each action moves one of the chains, or neither.
LEMMA NextKeepsIInv == IInv /\ [Next]_vars => IInv'
<1>1. SUFFICES ASSUME IInv, [Next]_vars PROVE IInv'
  OBVIOUS
<1>2. SendInv /\ ReadInv /\ SocketType
  BY <1>1 DEF IInv
<1>3. CASE SendMessage
  <2>1. SocketType' /\ UNCHANGED <<lastPart, readVars>>
    BY <1>2, <1>3 DEF SendMessage, SocketType, peerVars
  <2>2. QED
    BY <1>2, <1>3, <2>1, SendMessageKeeps, ReadIdle DEF IInv
<1>4. CASE RunPosted
  <2>1. SocketType' /\ UNCHANGED <<lastPart, readVars>>
    BY <1>2, <1>4 DEF RunPosted, SocketType, peerVars
  <2>2. QED
    BY <1>2, <1>4, <2>1, RunPostedKeeps, ReadIdle DEF IInv
<1>5. ASSUME NEW w \in writes, WriteCompletes(w) PROVE IInv'
  <2>1. SocketType' /\ UNCHANGED <<lastPart, readVars>>
    BY <1>2, <1>5 DEF WriteCompletes, SocketType, peerVars
  <2>2. QED
    BY <1>2, <1>5, <2>1, WriteCompletesKeeps, ReadIdle DEF IInv
<1>6. ASSUME NEW w \in writes, WriteFails(w) PROVE IInv'
  <2>1. SocketType' /\ UNCHANGED <<lastPart, readVars>>
    BY <1>2, <1>6 DEF WriteFails, Disconnect, SocketType, peerVars
  <2>2. QED
    BY <1>2, <1>6, <2>1, WriteFailsKeeps, ReadIdle DEF IInv
<1>7. CASE PeerSends
  <2>1. SocketType' /\ UNCHANGED <<open, late, sendVars>>
    BY <1>2, <1>7 DEF PeerSends, SocketType
  <2>2. QED
    BY <1>2, <1>7, <2>1, PeerSendsKeeps, SendUnchanged DEF IInv
<1>8. CASE PeerCloses \/ PeerStalls
  <2>1. SocketType' /\ UNCHANGED <<open, late, sendVars, lastPart, readVars>>
    BY <1>2, <1>8 DEF PeerCloses, PeerStalls, SocketType
  <2>2. QED
    BY <1>2, <2>1, ReadIdle, SendUnchanged DEF IInv
<1>9. CASE HeaderRead
  <2>1. /\ SocketType' /\ (open' => open) /\ UNCHANGED sendVars
        /\ late' => ~open' /\ (late \/ (open /\ writes # {}))
    BY <1>2, <1>9 DEF HeaderRead, Disconnect, WriteCanEnd, SocketType, peerVars
  <2>2. QED
    BY <1>2, <1>9, <2>1, HeaderReadKeeps, SendIdle DEF IInv
<1>10. CASE EmptyPayloadRead
  <2>1. SocketType' /\ UNCHANGED <<open, late, sendVars>>
    BY <1>2, <1>10 DEF EmptyPayloadRead, SocketType, peerVars
  <2>2. QED
    BY <1>2, <1>10, <2>1, EmptyPayloadReadKeeps, SendUnchanged DEF IInv
<1>11. CASE PayloadRead
  <2>1. SocketType' /\ UNCHANGED <<open, sendVars>> /\ late' = FALSE
    BY <1>2, <1>11 DEF PayloadRead, SocketType, peerVars
  <2>2. QED
    BY <1>2, <1>11, <2>1, PayloadReadKeeps, SendIdle DEF IInv
<1>12. CASE ReadFails
  <2>1. /\ SocketType' /\ (open' => open) /\ UNCHANGED sendVars
        /\ late' => ~open' /\ (late \/ (open /\ writes # {}))
        /\ read' = "none" /\ UNCHANGED <<lastPart, arriving, incomingMsg, arrived>>
    BY <1>2, <1>12
       DEF ReadFails, StopReading, Disconnect, WriteCanEnd, SocketType, peerVars
  <2>2. arriving' \in Seq(Part) /\ incomingMsg' \in 0 .. MaxMessages
    BY <1>2, <2>1 DEF ReadInv, ReadType
  <2>3. QED
    BY <1>2, <2>1, <2>2, StopsReading, SendIdle DEF IInv
<1>13. CASE UNCHANGED vars
  <2>1. UNCHANGED <<open, late, sendVars, lastPart, readVars>> /\ SocketType'
    BY <1>2, <1>13 DEF vars, peerVars, SocketType
  <2>2. QED
    BY <1>2, <2>1, ReadIdle, SendUnchanged DEF IInv
<1>14. QED
  BY <1>1, <1>3, <1>4, <1>5, <1>6, <1>7, <1>8, <1>9, <1>10, <1>11, <1>12, <1>13
     DEF Next, Writing, Reading

\* IInv is an invariant of every connection.
THEOREM Invariance == Spec => []IInv
<1>1. QED
  BY InitImpliesIInv, NextKeepsIInv, PTL DEF Spec

\* Every variable has its type, however many messages are sent.
THEOREM TypeCorrect == Spec => []TypeOK
<1>1. IInv => TypeOK
  BY DEF IInv, SocketType, SendInv, SendType, ReadInv, ReadType, TypeOK
<1>2. QED
  BY <1>1, Invariance, PTL

\* No two writes are outstanding, and the one that is writes the message in
\* front, whose memory the queue keeps until the write has ended.
THEOREM OneWriteAtATime == Spec => []OneWrite
<1>1. IInv => OneWrite
  <2>1. SUFFICES ASSUME IInv, NEW v \in writes, NEW w \in writes
                 PROVE  v = w /\ w.msg = Head(queue)
    BY DEF OneWrite
  <2>2. SendInv
    BY <2>1 DEF IInv
  <2>3. /\ queue # <<>> /\ v = w
        /\ w = Header(First) \/ w = Payload(First)
    BY <2>2 DEF SendInv, WritesFirst
  <2>4. Head(queue) = First
    BY <2>2, <2>3, SendFacts
  <2>5. QED
    BY <2>3, <2>4, PartFields
<1>2. QED
  BY <1>1, Invariance, PTL

\* On an open connection something is being written whenever something
\* waits: the chain of handlers never stops with messages in the queue.
THEOREM ChainNeverStops == Spec => []ChainRuns
<1>1. IInv => ChainRuns
  BY DEF IInv, SendInv
<1>2. QED
  BY <1>1, Invariance, PTL

\* The peer is sent whole messages in the order of SendMessage, without
\* gaps, whatever the mix of messages with and without a payload.
THEOREM WholeMessagesInOrder == Spec => []WireInOrder
<1>1. IInv => WireInOrder
  BY DEF IInv, SendInv
<1>2. QED
  BY <1>1, Invariance, PTL

\* The server is handed the peer's whole messages in order, without gaps.
THEOREM ArrivalsAreWhole == Spec => []ArrivedInOrder
<1>1. IInv => ArrivedInOrder
  BY DEF IInv, ReadInv
<1>2. QED
  BY <1>1, Invariance, PTL

-----------------------------------------------------------------------------
(* The channel *)

\* Taking the first element of a concatenation takes it from the left part.
LEMMA TailOfConcat ==
  ASSUME NEW S, NEW s \in Seq(S), NEW t \in Seq(S), s # <<>>
  PROVE  s \o t # <<>> /\ Tail(s) \o t = Tail(s \o t)
<1> DEFINE u == s \o t
           v == Tail(s)
<1>1. /\ Len(s) \in Nat \ {0} /\ v \in Seq(S) /\ Len(v) = Len(s) - 1
      /\ \A i \in 1 .. (Len(s) - 1) : v[i] = s[i + 1]
  BY TailShape
<1>2. /\ u \in Seq(S) /\ Len(t) \in Nat /\ Len(u) = Len(s) + Len(t)
      /\ \A i \in 1 .. Len(s) + Len(t) : u[i] = IF i <= Len(s) THEN s[i] ELSE t[i - Len(s)]
  BY ConcatProperties
<1>3. /\ v \o t \in Seq(S) /\ Len(v \o t) = Len(v) + Len(t)
      /\ \A i \in 1 .. Len(v) + Len(t) :
           (v \o t)[i] = IF i <= Len(v) THEN v[i] ELSE t[i - Len(v)]
  BY <1>1, ConcatProperties
<1> HIDE DEF u, v
<1>4. u # <<>>
  BY <1>1, <1>2
<1>5. /\ Tail(u) \in Seq(S) /\ Len(Tail(u)) = Len(u) - 1
      /\ \A i \in 1 .. (Len(u) - 1) : Tail(u)[i] = u[i + 1]
  BY <1>2, <1>4, TailShape
<1>6. ASSUME NEW i \in 1 .. (Len(s) + Len(t) - 1)
      PROVE  (v \o t)[i] = Tail(u)[i]
  <2>1. Tail(u)[i] = u[i + 1] /\ i + 1 \in 1 .. Len(s) + Len(t)
    BY <1>1, <1>2, <1>5
  <2>2. CASE i <= Len(s) - 1
    <3>1. i \in 1 .. (Len(s) - 1) /\ i + 1 <= Len(s)
      BY <1>1, <2>2
    <3>2. QED
      BY <1>1, <1>2, <1>3, <2>1, <3>1
  <2>3. CASE ~(i <= Len(s) - 1)
    <3>1. ~(i + 1 <= Len(s)) /\ (i + 1) - Len(s) = i - Len(v)
      BY <1>1, <1>2, <2>3
    <3>2. QED
      BY <1>1, <1>2, <1>3, <2>1, <2>3, <3>1
  <2>4. QED
    BY <2>2, <2>3
<1>7. Len(v \o t) = Len(s) + Len(t) - 1 /\ Len(Tail(u)) = Len(s) + Len(t) - 1
  BY <1>1, <1>2, <1>3, <1>5
<1>8. v \o t = Tail(u)
  BY <1>3, <1>5, <1>6, <1>7, SeqEqual
<1>9. QED
  BY <1>4, <1>8 DEF u, v

\* Moving the border inside a concatenation changes nothing.
LEMMA ConcatMove ==
  ASSUME NEW S, NEW s \in Seq(S), NEW t \in Seq(S), t # <<>>
  PROVE  Append(s, Head(t)) \o Tail(t) = s \o t
<1> DEFINE h == <<Head(t)>>
<1>1. Head(t) \in S /\ Tail(t) \in Seq(S) /\ h \in Seq(S)
  BY TailShape
<1>2. Append(s, Head(t)) = s \o h
  BY <1>1
<1>3. t = h \o Tail(t)
  <2>1. h \o Tail(t) \in Seq(S) /\ Len(h \o Tail(t)) = Len(t)
    BY <1>1, ConcatProperties, TailShape
  <2>2. ASSUME NEW i \in 1 .. Len(t)
        PROVE  t[i] = (h \o Tail(t))[i]
    <3>1. Len(h) = 1 /\ h[1] = t[1] /\ Len(Tail(t)) = Len(t) - 1 /\ Len(t) \in Nat
      BY TailShape
    <3>2. (h \o Tail(t))[i] = IF i <= 1 THEN h[i] ELSE Tail(t)[i - 1]
      BY <1>1, <3>1, ConcatProperties
    <3>3. CASE i = 1
      BY <3>1, <3>2, <3>3
    <3>4. CASE i # 1
      <4>1. i - 1 \in 1 .. (Len(t) - 1) /\ (i - 1) + 1 = i
        BY <3>1, <3>4
      <4>2. Tail(t)[i - 1] = t[i]
        BY <4>1, TailShape
      <4>3. QED
        BY <3>2, <3>4, <4>1, <4>2
    <3>5. QED
      BY <3>3, <3>4
  <2>3. QED
    BY <2>1, <2>2, SeqEqual
<1> HIDE DEF h
<1>4. (s \o h) \o Tail(t) = s \o (h \o Tail(t))
  BY <1>1, ConcatAssociative
<1>5. QED
  BY <1>2, <1>3, <1>4

\* Appending and cutting off the last element again.
LEMMA AppendConcat ==
  ASSUME NEW S, NEW s \in Seq(S), NEW t \in Seq(S), NEW e \in S
  PROVE  /\ Len(s \o Append(t, e)) \in Nat \ {0}
         /\ s \o t = SubSeq(s \o Append(t, e), 1, Len(s \o Append(t, e)) - 1)
<1> DEFINE h == <<e>>
           u == s \o t
           v == u \o h
<1>1. h \in Seq(S) /\ Len(h) = 1 /\ Append(t, e) = t \o h
  OBVIOUS
<1>2. u \in Seq(S) /\ Len(u) \in Nat
  BY ConcatProperties
<1> HIDE DEF h
<1>3. s \o Append(t, e) = v
  <2>1. (s \o t) \o h = s \o (t \o h)
    BY <1>1, ConcatAssociative
  <2>2. QED
    BY <1>1, <2>1
<1> HIDE DEF u
<1>4. /\ v \in Seq(S) /\ Len(v) = Len(u) + 1
      /\ \A i \in 1 .. Len(u) : v[i] = u[i]
  BY <1>1, <1>2, ConcatProperties
<1> HIDE DEF v
<1> DEFINE w == SubSeq(v, 1, Len(u))
<1>5. /\ w \in Seq(S) /\ Len(w) = Len(u)
      /\ \A i \in 1 .. Len(u) : w[i] = u[i]
  <2>1. \A i \in 1 .. Len(u) : v[i] \in S
    BY <1>2, <1>4
  <2>2. /\ w \in Seq(S) /\ Len(w) = IF 1 <= Len(u) THEN Len(u) - 1 + 1 ELSE 0
        /\ \A i \in 1 .. Len(u) - 1 + 1 : w[i] = v[1 + i - 1]
    BY <1>2, <2>1, SubSeqProperties
  <2>3. QED
    BY <1>2, <1>4, <2>2
<1> HIDE DEF w
<1>6. w = u
  BY <1>2, <1>5, SeqEqual
<1>7. Len(v) - 1 = Len(u)
  BY <1>2, <1>4
<1>8. QED
  BY <1>2, <1>3, <1>4, <1>6, <1>7 DEF u, w

ChannelStep ==
  [Channel!Next]_<<{0}, IF open THEN {0} ELSE {}, [c \in {0} |-> Undelivered]>>

\* What does not change for the channel is no step of it.
LEMMA NoChannelStep ==
  ASSUME UNCHANGED <<open, Undelivered>>
  PROVE  ChannelStep
  BY DEF ChannelStep

LEMMA ChannelCloses ==
  ASSUME open, ~open'
  PROVE  ChannelStep
<1>1. Undelivered' = <<>>
  BY DEF Undelivered
<1>2. Channel!Close(0)
  BY <1>1 DEF Channel!Close
<1>3. Channel!Next
  BY <1>2 DEF Channel!Next
<1>4. QED
  BY <1>3 DEF ChannelStep

\* A step that may only close the socket is a step of the channel.
LEMMA MayClose ==
  ASSUME SocketType, UNCHANGED <<queue, posted>>, open' \in {open, FALSE}
  PROVE  ChannelStep
<1>1. CASE open' = open
  BY <1>1, NoChannelStep DEF Undelivered
<1>2. CASE open /\ open' = FALSE
  BY <1>2, ChannelCloses
<1>3. QED
  BY <1>1, <1>2 DEF SocketType

LEMMA SendIsChannelStep ==
  ASSUME IInv, SendMessage
  PROVE  ChannelStep
<1>1. /\ open \in BOOLEAN /\ posted \in Seq(Numbers) /\ queue \in Seq(Numbers)
      /\ numSent \in 0 .. MaxMessages
  BY DEF IInv, SocketType, SendInv, SendType
<1>2. /\ UNCHANGED <<open, queue>> /\ posted' = Append(posted, numSent + 1)
      /\ numSent + 1 \in Numbers
  BY <1>1, BoundAssumption DEF SendMessage, Numbers
<1>3. CASE ~open
  BY <1>2, <1>3, NoChannelStep DEF Undelivered
<1>4. CASE open
  <2>1. Undelivered = queue \o posted /\ Undelivered' = queue \o Append(posted, numSent + 1)
    BY <1>2, <1>4 DEF Undelivered
  <2>2. /\ Len(Undelivered') \in Nat \ {0}
        /\ Undelivered = SubSeq(Undelivered', 1, Len(Undelivered') - 1)
    BY <1>1, <1>2, <2>1, AppendConcat
  <2>3. 1 \in 1 .. Len(Undelivered')
    BY <2>2
  <2>4. Channel!Send(0)
    BY <1>2, <1>4, <2>2, <2>3 DEF Channel!Send
  <2>5. Channel!Next
    BY <2>4 DEF Channel!Next
  <2>6. QED
    BY <2>5 DEF ChannelStep
<1>5. QED
  BY <1>1, <1>3, <1>4

LEMMA WriteIsChannelStep ==
  ASSUME IInv, NEW w \in writes, WriteCompletes(w)
  PROVE  ChannelStep
<1>1. /\ posted \in Seq(Numbers) /\ queue \in Seq(Numbers) /\ queue # <<>>
      /\ UNCHANGED <<open, posted>>
      /\ UNCHANGED queue \/ queue' = Tail(queue)
  BY DEF IInv, SendInv, SendType, WritesFirst, WriteCompletes, HeaderSent,
         PayloadSent, NextMessage
<1>2. CASE UNCHANGED queue \/ ~open
  BY <1>1, <1>2, NoChannelStep DEF Undelivered
<1>3. CASE queue' = Tail(queue) /\ open
  <2>1. Undelivered = queue \o posted /\ Undelivered' = Tail(queue) \o posted
    BY <1>1, <1>3 DEF Undelivered
  <2>2. Undelivered # <<>> /\ Undelivered' = Tail(Undelivered)
    BY <1>1, <2>1, TailOfConcat
  <2>3. Channel!Deliver(0)
    BY <1>1, <1>3, <2>2 DEF Channel!Deliver
  <2>4. Channel!Next
    BY <2>3 DEF Channel!Next
  <2>5. QED
    BY <2>4 DEF ChannelStep
<1>4. QED
  BY <1>1, <1>2, <1>3

LEMMA StepsAreChannelSteps == IInv /\ [Next]_vars => ChannelStep
<1>1. SUFFICES ASSUME IInv, [Next]_vars PROVE ChannelStep
  OBVIOUS
<1>2. SocketType /\ posted \in Seq(Numbers) /\ queue \in Seq(Numbers)
  BY <1>1 DEF IInv, SendInv, SendType
<1>3. CASE SendMessage
  BY <1>1, <1>3, SendIsChannelStep
<1>4. CASE RunPosted
  <2>1. /\ posted # <<>> /\ posted' = Tail(posted)
        /\ queue' = Append(queue, Head(posted)) /\ UNCHANGED open
    BY <1>4 DEF RunPosted
  <2>2. queue' \o posted' = queue \o posted
    BY <1>2, <2>1, ConcatMove
  <2>3. QED
    BY <2>1, <2>2, NoChannelStep DEF Undelivered
<1>5. ASSUME NEW w \in writes, WriteCompletes(w) PROVE ChannelStep
  BY <1>1, <1>5, WriteIsChannelStep
<1>6. ASSUME NEW w \in writes, WriteFails(w) PROVE ChannelStep
  BY <1>2, <1>6, MayClose DEF WriteFails, Disconnect
<1>7. CASE PeerSends \/ PeerCloses \/ PeerStalls
  BY <1>2, <1>7, MayClose DEF PeerSends, PeerCloses, PeerStalls, sendVars
<1>8. CASE HeaderRead
  BY <1>2, <1>8, MayClose DEF HeaderRead, Disconnect, sendVars
<1>9. CASE EmptyPayloadRead \/ PayloadRead
  BY <1>2, <1>9, MayClose DEF EmptyPayloadRead, PayloadRead, sendVars
<1>10. CASE ReadFails
  BY <1>2, <1>10, MayClose DEF ReadFails, Disconnect, sendVars
<1>11. CASE UNCHANGED vars
  BY <1>2, <1>11, MayClose DEF vars, sendVars
<1>12. QED
  BY <1>1, <1>3, <1>4, <1>5, <1>6, <1>7, <1>8, <1>9, <1>10, <1>11
     DEF Next, Writing, Reading

\* A connection is the channel of Channels: however its handlers run, it
\* delivers what was sent one message at a time, in order, until it closes.
THEOREM ConnectionIsAChannel == Spec => ImplementsChannel
<1>1. Init => Channel!Init
  <2>1. SUFFICES ASSUME Init PROVE Channel!Init
    OBVIOUS
  <2>2. open = TRUE /\ queue = <<>> /\ posted = <<>>
    BY <2>1 DEF Init
  <2>3. Undelivered = <<>>
    BY <2>2 DEF Undelivered
  <2>4. QED
    BY <2>2, <2>3 DEF Channel!Init, Channel!Nothing
<1>2. IInv /\ [Next]_vars => ChannelStep
  BY StepsAreChannelSteps
<1>3. QED
  BY <1>1, <1>2, Invariance, PTL DEF Spec, ImplementsChannel, Channel!Spec, ChannelStep

=============================================================================
