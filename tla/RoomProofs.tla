----------------------------- MODULE RoomProofs -----------------------------
(***************************************************************************)
(* Facts about the operators of Room, for every set of ids, words and draw *)
(* commands: what each method does to the members, to the flags and to the *)
(* drawer of a room.  GameServerProofs cites them by name.                 *)
(***************************************************************************)
EXTENDS Room, SequenceTheorems, TLAPS

(***************************************************************************)
(* vector::erase                                                           *)
(***************************************************************************)

\* RemoveAt leaves the elements before i where they are and moves the others
\* up by one.
LEMMA RemoveAtShape ==
  ASSUME NEW S, NEW s \in Seq(S), NEW i \in 1 .. Len(s)
  PROVE  /\ RemoveAt(s, i) \in Seq(S)
         /\ Len(RemoveAt(s, i)) = Len(s) - 1
         /\ \A j \in 1 .. (Len(s) - 1) :
              RemoveAt(s, i)[j] = IF j < i THEN s[j] ELSE s[j + 1]
<1> DEFINE front == SubSeq(s, 1, i - 1)
           back == SubSeq(s, i + 1, Len(s))
<1>1. /\ front \in Seq(S) /\ Len(front) = i - 1
      /\ \A j \in 1 .. (i - 1) : front[j] = s[j]
  BY SubSeqProperties
<1>2. /\ back \in Seq(S) /\ Len(back) = Len(s) - i
      /\ \A j \in 1 .. (Len(s) - i) : back[j] = s[j + i]
  BY SubSeqProperties
<1> HIDE DEF front, back
<1>3. /\ front \o back \in Seq(S)
      /\ Len(front \o back) = Len(s) - 1
      /\ \A j \in 1 .. (Len(s) - 1) :
           (front \o back)[j] = IF j <= i - 1 THEN front[j] ELSE back[j - (i - 1)]
  BY <1>1, <1>2, ConcatProperties
<1>4. ASSUME NEW j \in 1 .. (Len(s) - 1)
      PROVE  (front \o back)[j] = IF j < i THEN s[j] ELSE s[j + 1]
  <2>1. CASE j < i
    BY <1>1, <1>3, <2>1
  <2>2. CASE ~(j < i)
    <3>1. j - (i - 1) \in 1 .. (Len(s) - i) /\ (j - (i - 1)) + i = j + 1
      BY <2>2
    <3>2. QED
      BY <1>2, <1>3, <2>2, <3>1
  <2>3. QED
    BY <2>1, <2>2
<1>5. QED
  BY <1>3, <1>4 DEF RemoveAt, front, back

\* Erasing the only occurrence of an id takes it out of the set of elements
\* and leaves no id twice.
LEMMA RemoveAtSet ==
  ASSUME NEW S, NEW s \in Seq(S), IsInjective(s), NEW i \in 1 .. Len(s)
  PROVE  /\ ToSet(RemoveAt(s, i)) = ToSet(s) \ {s[i]}
         /\ IsInjective(RemoveAt(s, i))
<1> DEFINE t == RemoveAt(s, i)
<1>2. /\ t \in Seq(S) /\ Len(t) = Len(s) - 1
      /\ \A j \in 1 .. (Len(s) - 1) : t[j] = IF j < i THEN s[j] ELSE s[j + 1]
  BY RemoveAtShape
<1> HIDE DEF t
<1>3. DOMAIN t = 1 .. (Len(s) - 1) /\ DOMAIN s = 1 .. Len(s)
  BY <1>2
<1>4. \A j, k \in 1 .. Len(s) : s[j] = s[k] => j = k
  BY <1>3 DEF IsInjective
<1>5. IsInjective(t)
  <2>1. SUFFICES ASSUME NEW a \in 1 .. (Len(s) - 1), NEW b \in 1 .. (Len(s) - 1),
                        t[a] = t[b]
                 PROVE  a = b
    BY <1>3 DEF IsInjective
  <2>2. QED
    BY <1>2, <1>4, <2>1
<1>6. ASSUME NEW c \in ToSet(t)
      PROVE  c \in ToSet(s) \ {s[i]}
  <2>1. PICK j \in 1 .. (Len(s) - 1) : t[j] = c
    BY <1>3, <1>6 DEF ToSet
  <2>2. PICK k \in 1 .. Len(s) : k # i /\ s[k] = c
    BY <1>2, <2>1
  <2>3. QED
    BY <1>3, <1>4, <2>2 DEF ToSet
<1>7. ASSUME NEW c \in ToSet(s) \ {s[i]}
      PROVE  c \in ToSet(t)
  <2>1. PICK k \in 1 .. Len(s) : s[k] = c /\ k # i
    BY <1>3, <1>7 DEF ToSet
  <2>2. PICK j \in 1 .. (Len(s) - 1) : t[j] = c
    <3>1. CASE k < i
      BY <1>2, <2>1, <3>1
    <3>2. CASE k > i
      <4>1. k - 1 \in 1 .. (Len(s) - 1) /\ ~(k - 1 < i) /\ (k - 1) + 1 = k
        BY <2>1, <3>2
      <4>2. QED
        BY <1>2, <2>1, <4>1
    <3>3. QED
      BY <2>1, <3>1, <3>2
  <2>3. QED
    BY <1>3, <2>2 DEF ToSet
<1>8. QED
  BY <1>5, <1>6, <1>7 DEF t

(***************************************************************************)
(* Rooms: the lemmas are about a room of the right type in which nobody is *)
(* twice and only members have a flag.                                     *)
(***************************************************************************)

Sound(room) == IsInjective(room.clients) /\ room.second \subseteq Members(room)

\* A room has members exactly when its vector is not empty.
LEMMA MembersOfClients ==
  ASSUME NEW Ids, NEW W, NEW C, NEW room \in RoomRecords(Ids, W, C)
  PROVE  /\ Members(room) \subseteq Ids
         /\ room.clients = <<>> <=> Members(room) = {}
         /\ room.clients = <<>> <=> Len(room.clients) = 0
         /\ room.clients # <<>> => Head(room.clients) \in Members(room)
<1> DEFINE s == room.clients
<1>1. s \in Seq(Ids) /\ DOMAIN s = 1 .. Len(s) /\ Len(s) \in Nat
  BY DEF RoomRecords
<1>2. Members(room) = {s[i] : i \in 1 .. Len(s)}
  BY <1>1 DEF Members, ToSet
<1> HIDE DEF s
<1>3. Members(room) \subseteq Ids
  BY <1>1, <1>2
<1>4. s = <<>> <=> Len(s) = 0
  BY <1>1
<1>5. s = <<>> <=> Members(room) = {}
  <2>1. CASE s = <<>>
    BY <1>1, <1>2, <2>1
  <2>2. CASE s # <<>>
    <3>1. 1 \in 1 .. Len(s)
      BY <1>1, <1>4, <2>2
    <3>2. QED
      BY <1>2, <2>2, <3>1
  <2>3. QED
    BY <2>1, <2>2
<1>6. s # <<>> => Head(s) \in Members(room)
  <2>1. s # <<>> => 1 \in 1 .. Len(s) /\ Head(s) = s[1]
    BY <1>1, <1>4
  <2>2. QED
    BY <1>2, <2>1
<1>7. QED
  BY <1>3, <1>4, <1>5, <1>6 DEF s

\* The constructor leaves a room with nobody in it.
LEMMA EmptyRoomFacts ==
  ASSUME NEW Ids, NEW W, NEW C, NEW w \in W
  PROVE  /\ EmptyRoom(w) \in RoomRecords(Ids, W, C)
         /\ Sound(EmptyRoom(w))
         /\ Members(EmptyRoom(w)) = {}
         /\ EmptyRoom(w).second = {}
BY DEF EmptyRoom, RoomRecords, Sound, Members, ToSet, IsInjective

\* push_back adds the newcomer, which draws exactly when it is alone.
LEMMA AddClientFacts ==
  ASSUME NEW Ids, NEW W, NEW C, NEW room \in RoomRecords(Ids, W, C), Sound(room),
         NEW id \in Ids, id \notin Members(room)
  PROVE  /\ AddClient(room, id) \in RoomRecords(Ids, W, C)
         /\ Sound(AddClient(room, id))
         /\ Members(AddClient(room, id)) = Members(room) \cup {id}
         /\ AddClient(room, id).clients # <<>>
         /\ IF Members(room) = {}
            THEN /\ AddClient(room, id).currentDrawer = id
                 /\ AddClient(room, id).second = {id}
            ELSE /\ AddClient(room, id).currentDrawer = room.currentDrawer
                 /\ AddClient(room, id).second = room.second
<1> DEFINE s == room.clients
           t == Append(s, id)
           added == AddClient(room, id)
<1>1. s \in Seq(Ids) /\ DOMAIN s = 1 .. Len(s) /\ Len(s) \in Nat
  BY DEF RoomRecords
<1>2. /\ t \in Seq(Ids) /\ Len(t) = Len(s) + 1 /\ t # <<>>
      /\ \A i \in 1 .. Len(s) : t[i] = s[i]
      /\ t[Len(s) + 1] = id
  BY <1>1, AppendProperties
<1> HIDE DEF t
<1>3. DOMAIN t = 1 .. (Len(s) + 1)
  BY <1>2
<1>4. /\ added.clients = t
      /\ added.second = IF s = <<>> THEN {id} ELSE room.second
      /\ added.currentDrawer = IF s = <<>> THEN id ELSE room.currentDrawer
      /\ added \in RoomRecords(Ids, W, C)
  <2>1. CASE s = <<>>
    BY <1>2, <2>1 DEF AddClient, RoomRecords, t
  <2>2. CASE s # <<>>
    BY <1>2, <2>2 DEF AddClient, RoomRecords, t
  <2>3. QED
    BY <2>1, <2>2
<1> HIDE DEF added
<1>5. added \in RoomRecords(Ids, W, C)
  BY <1>4
<1>6. Members(added) = Members(room) \cup {id}
  <2>1. \A c : (\E i \in 1 .. (Len(s) + 1) : t[i] = c)
                 <=> (\E i \in 1 .. Len(s) : s[i] = c) \/ c = id
    <3>1. /\ \A i \in 1 .. Len(s) : t[i] = s[i] /\ i \in 1 .. (Len(s) + 1)
          /\ t[Len(s) + 1] = id /\ Len(s) + 1 \in 1 .. (Len(s) + 1)
          /\ \A i \in 1 .. (Len(s) + 1) : i \in 1 .. Len(s) \/ i = Len(s) + 1
      BY <1>1, <1>2
    <3> HIDE DEF s
    <3>2. QED
      BY <3>1, Zenon
  <2>2. Members(added) = {t[i] : i \in 1 .. (Len(s) + 1)}
    BY <1>3, <1>4 DEF Members, ToSet
  <2>3. Members(room) = {s[i] : i \in 1 .. Len(s)}
    BY <1>1 DEF Members, ToSet
  <2>4. QED
    BY <2>1, <2>2, <2>3
<1>7. Sound(added)
  <2>1. \A i \in 1 .. Len(s) : s[i] # id
    BY <1>1 DEF Members, ToSet
  <2>2. \A i, j \in 1 .. Len(s) : s[i] = s[j] => i = j
    BY <1>1 DEF Sound, IsInjective
  <2>3. IsInjective(t)
    BY <1>1, <1>2, <1>3, <2>1, <2>2 DEF IsInjective
  <2>4. QED
    BY <1>4, <1>6, <2>3 DEF Sound
<1>8. QED
  BY <1>2, <1>4, <1>5, <1>6, <1>7, MembersOfClients DEF added

\* erase takes the client and its flag out, and nothing else.
LEMMA EraseFacts ==
  ASSUME NEW Ids, NEW W, NEW C, NEW room \in RoomRecords(Ids, W, C), Sound(room),
         NEW id \in Members(room)
  PROVE  /\ Erase(room, id) \in RoomRecords(Ids, W, C)
         /\ Sound(Erase(room, id))
         /\ Members(Erase(room, id)) = Members(room) \ {id}
         /\ Erase(room, id).second = room.second \ {id}
         /\ Erase(room, id).currentDrawer = room.currentDrawer
         /\ Len(Erase(room, id).clients) = Len(room.clients) - 1
<1> DEFINE s == room.clients
           p == Position(room, id)
<1>1. s \in Seq(Ids) /\ DOMAIN s = 1 .. Len(s) /\ IsInjective(s)
  BY DEF RoomRecords, Sound
<1>2. p \in 1 .. Len(s) /\ s[p] = id
  <2>1. \E j \in DOMAIN s : s[j] = id
    BY DEF Members, ToSet
  <2>2. QED
    BY <1>1, <2>1 DEF Position
<1> HIDE DEF p
<1>3. /\ RemoveAt(s, p) \in Seq(Ids) /\ Len(RemoveAt(s, p)) = Len(s) - 1
      /\ ToSet(RemoveAt(s, p)) = ToSet(s) \ {id} /\ IsInjective(RemoveAt(s, p))
  BY <1>1, <1>2, RemoveAtShape, RemoveAtSet
<1>4. /\ Erase(room, id).clients = RemoveAt(s, p)
      /\ Erase(room, id).second = room.second \ {id}
      /\ Erase(room, id).currentDrawer = room.currentDrawer
      /\ Erase(room, id) \in RoomRecords(Ids, W, C)
  BY <1>3 DEF Erase, RoomRecords, p
<1>5. QED
  BY <1>3, <1>4 DEF Sound, Members

\* MoveClient takes the client out, and leaves no trace of it in
\* m_currentDrawer.
LEMMA MoveOutFacts ==
  ASSUME NEW Ids, NEW W, NEW C, NEW room \in RoomRecords(Ids, W, C), Sound(room),
         NEW id \in Members(room)
  PROVE  /\ MoveOut(room, id) \in RoomRecords(Ids, W, C)
         /\ Sound(MoveOut(room, id))
         /\ Members(MoveOut(room, id)) = Members(room) \ {id}
         /\ MoveOut(room, id).second = room.second \ {id}
         /\ MoveOut(room, id).currentDrawer =
              IF room.currentDrawer = id THEN 0 ELSE room.currentDrawer
<1> DEFINE left == Erase(room, id)
           d == IF room.currentDrawer = id THEN 0 ELSE room.currentDrawer
<1>1. /\ left \in RoomRecords(Ids, W, C) /\ Sound(left)
      /\ Members(left) = Members(room) \ {id}
      /\ left.second = room.second \ {id}
      /\ left.currentDrawer = room.currentDrawer
  BY EraseFacts
<1>2. d \in Ids \cup {0}
  BY DEF RoomRecords
<1>3. MoveOut(room, id) = [left EXCEPT !.currentDrawer = d]
  BY <1>1 DEF MoveOut
<1> HIDE DEF left, d
<1>4. /\ MoveOut(room, id) \in RoomRecords(Ids, W, C)
      /\ MoveOut(room, id).clients = left.clients
      /\ MoveOut(room, id).second = left.second
      /\ MoveOut(room, id).currentDrawer = d
  BY <1>1, <1>2, <1>3 DEF RoomRecords
<1>5. QED
  BY <1>1, <1>4 DEF Sound, Members, d

(***************************************************************************)
(* Rounds                                                                  *)
(***************************************************************************)

\* A member has a place in the vector.
LEMMA PositionOfMember ==
  ASSUME NEW Ids, NEW W, NEW C, NEW room \in RoomRecords(Ids, W, C),
         NEW id \in Members(room)
  PROVE  /\ Position(room, id) \in 1 .. Len(room.clients)
         /\ room.clients[Position(room, id)] = id
<1>1. DOMAIN room.clients = 1 .. Len(room.clients)
  BY DEF RoomRecords
<1>2. \E j \in DOMAIN room.clients : room.clients[j] = id
  BY DEF Members, ToSet
<1>3. QED
  BY <1>1, <1>2 DEF Position

\* The next drawer is a client of the room.
LEMMA NextDrawerIsMember ==
  ASSUME NEW Ids, NEW W, NEW C, NEW room \in RoomRecords(Ids, W, C),
         room.currentDrawer \in Members(room)
  PROVE  NextDrawer(room) \in Members(room)
<1> DEFINE p == Position(room, room.currentDrawer)
           n == Len(room.clients)
<1>1. DOMAIN room.clients = 1 .. n /\ n \in Nat
  BY DEF RoomRecords
<1>2. p \in 1 .. n
  BY PositionOfMember
<1> HIDE DEF p, n
<1>3. (p % n) + 1 \in 1 .. n
  BY <1>1, <1>2
<1>4. room.clients[(p % n) + 1] \in Members(room)
  BY <1>1, <1>3 DEF Members, ToSet
<1>5. QED
  BY <1>4 DEF NextDrawer, p, n

\* A new round keeps the clients, clears every flag, and has a drawer among
\* the clients.
LEMMA NewRoundFacts ==
  ASSUME NEW Ids, NEW W, NEW C, NEW room \in RoomRecords(Ids, W, C), Sound(room),
         NEW w \in W, room.clients # <<>>, ~SearchOverruns(room)
  PROVE  /\ NewRound(room, w) \in RoomRecords(Ids, W, C)
         /\ Sound(NewRound(room, w))
         /\ Members(NewRound(room, w)) = Members(room)
         /\ NewRound(room, w).second = {}
         /\ NewRound(room, w).currentDrawer \in Members(room)
<1> DEFINE d == NextDrawer(room)
<1>1. d \in Members(room) /\ d \in Ids
  BY NextDrawerIsMember, MembersOfClients DEF SearchOverruns
<1> HIDE DEF d
<1>2. /\ NewRound(room, w).clients = room.clients
      /\ NewRound(room, w).second = {}
      /\ NewRound(room, w).currentDrawer = d
      /\ NewRound(room, w) \in RoomRecords(Ids, W, C)
  <2> DEFINE none == <<>>
             cleared == [room EXCEPT !.word = w, !.drawCommands = none, !.second = {}]
  <2>1. none \in Seq(C)
    OBVIOUS
  <2>2. NewRound(room, w) = [cleared EXCEPT !.currentDrawer = d]
    BY DEF NewRound, PromoteDrawer, d
  <2> HIDE DEF none
  <2>3. /\ cleared \in RoomRecords(Ids, W, C)
        /\ cleared.clients = room.clients /\ cleared.second = {}
    BY <2>1 DEF RoomRecords
  <2> HIDE DEF cleared
  <2>4. QED
    BY <1>1, <2>2, <2>3 DEF RoomRecords
<1>3. QED
  BY <1>1, <1>2 DEF Sound, Members

\* What a client leaves behind, before the end of the round is considered.
LEMMA AfterLeavingFacts ==
  ASSUME NEW Ids, NEW W, NEW C, NEW room \in RoomRecords(Ids, W, C), Sound(room),
         NEW id \in Members(room)
  PROVE  /\ AfterLeaving(room, id) \in RoomRecords(Ids, W, C)
         /\ Sound(AfterLeaving(room, id))
         /\ Members(AfterLeaving(room, id)) = Members(room) \ {id}
         /\ AfterLeaving(room, id).second = room.second \ {id}
         /\ Len(AfterLeaving(room, id).clients) = Len(room.clients) - 1
         /\ id # room.currentDrawer =>
              AfterLeaving(room, id).currentDrawer = room.currentDrawer
         /\ id = room.currentDrawer => ~SearchOverruns(AfterLeaving(room, id))
         /\ ~SearchOverruns(room) => ~SearchOverruns(AfterLeaving(room, id))
<1> DEFINE left == Erase(room, id)
<1>1. /\ left \in RoomRecords(Ids, W, C) /\ Sound(left)
      /\ Members(left) = Members(room) \ {id}
      /\ left.second = room.second \ {id}
      /\ left.currentDrawer = room.currentDrawer
      /\ Len(left.clients) = Len(room.clients) - 1
  BY EraseFacts
<1>2. room.clients # <<>>
  BY MembersOfClients
<1>3. CASE id # room.currentDrawer
  <2>1. AfterLeaving(room, id) = left
    BY <1>3 DEF AfterLeaving
  <2>2. QED
    BY <1>1, <1>2, <1>3, <2>1 DEF SearchOverruns
<1>4. CASE id = room.currentDrawer
  <2> DEFINE d == IF left.clients = <<>> THEN 0 ELSE Head(left.clients)
  <2>1. AfterLeaving(room, id) = [left EXCEPT !.currentDrawer = d]
    BY <1>4 DEF AfterLeaving
  <2>2. left.clients # <<>> => d \in Members(left) /\ d \in Ids
    BY <1>1, MembersOfClients
  <2>3. d \in Ids \cup {0}
    BY <2>2
  <2> HIDE DEF d, left
  <2>4. /\ AfterLeaving(room, id) \in RoomRecords(Ids, W, C)
        /\ AfterLeaving(room, id).clients = left.clients
        /\ AfterLeaving(room, id).second = left.second
        /\ AfterLeaving(room, id).currentDrawer = d
    BY <1>1, <2>1, <2>3 DEF RoomRecords
  <2>5. QED
    BY <1>1, <1>4, <2>2, <2>4 DEF Sound, Members, SearchOverruns
<1>5. QED
  BY <1>3, <1>4

(***************************************************************************)
(* Two kinds of room.  In a lively one, as every game room is until growth *)
(* moves it, the drawer is a client and no round is left over.  In a quiet *)
(* one, as the waiting room always is, at most the drawer has a flag.      *)
(***************************************************************************)

Lively(room) ==
  /\ ~SearchOverruns(room)
  /\ Guessers(room) # {} => ~AllCorrect(room)

Quiet(room) == room.second \subseteq {room.currentDrawer}

\* A newcomer is the drawer, or somebody who has yet to guess.
LEMMA AddClientKeeps ==
  ASSUME NEW Ids, NEW W, NEW C, NEW room \in RoomRecords(Ids, W, C), Sound(room),
         NEW id \in Ids, id \notin Members(room)
  PROVE  /\ Lively(room) => Lively(AddClient(room, id))
         /\ Quiet(room) => Quiet(AddClient(room, id))
<1> DEFINE added == AddClient(room, id)
<1>1. /\ Members(added) = Members(room) \cup {id}
      /\ IF Members(room) = {}
         THEN added.currentDrawer = id /\ added.second = {id}
         ELSE added.currentDrawer = room.currentDrawer /\ added.second = room.second
      /\ room.clients = <<>> <=> Members(room) = {}
  BY AddClientFacts, MembersOfClients
<1> HIDE DEF added
<1>2. Lively(room) => Lively(added)
  <2>1. CASE Members(room) = {}
    BY <1>1, <2>1 DEF Lively, SearchOverruns, Guessers
  <2>2. CASE Members(room) # {}
    <3>1. SUFFICES ASSUME Lively(room) PROVE Lively(added)
      OBVIOUS
    <3>2. room.currentDrawer \in Members(room)
      BY <1>1, <2>2, <3>1 DEF Lively, SearchOverruns
    <3>3. id \in Guessers(added) /\ id \notin added.second
      BY <1>1, <2>2, <3>2 DEF Guessers, Sound
    <3>4. QED
      BY <1>1, <2>2, <3>2, <3>3 DEF Lively, SearchOverruns, AllCorrect
  <2>3. QED
    BY <2>1, <2>2
<1>3. Quiet(room) => Quiet(added)
  BY <1>1 DEF Quiet, Sound
<1>4. QED
  BY <1>2, <1>3 DEF added

\* In a new round nobody has guessed.
LEMMA NewRoundIsLively ==
  ASSUME NEW Ids, NEW W, NEW C, NEW room \in RoomRecords(Ids, W, C), Sound(room),
         NEW w \in W, room.clients # <<>>, ~SearchOverruns(room)
  PROVE  Lively(NewRound(room, w)) /\ Quiet(NewRound(room, w))
<1>1. /\ Members(NewRound(room, w)) = Members(room)
      /\ NewRound(room, w).second = {}
      /\ NewRound(room, w).currentDrawer \in Members(room)
  BY NewRoundFacts
<1>2. QED
  BY <1>1 DEF Lively, Quiet, SearchOverruns, AllCorrect

\* RemoveClient takes the client out.  In a lively room it finds the drawer
\* and leaves a lively room; in a quiet one it finds the drawer, too.
LEMMA RemoveClientFacts ==
  ASSUME NEW Ids, NEW W, NEW C, NEW room \in RoomRecords(Ids, W, C), Sound(room),
         NEW id \in Members(room), NEW w \in W
  PROVE  /\ ~LeavingOverruns(room, id) =>
              /\ RemoveClient(room, id, w) \in RoomRecords(Ids, W, C)
              /\ Sound(RemoveClient(room, id, w))
              /\ Members(RemoveClient(room, id, w)) = Members(room) \ {id}
         /\ Lively(room) => /\ ~LeavingOverruns(room, id)
                            /\ Lively(RemoveClient(room, id, w))
         /\ Quiet(room) => /\ ~LeavingOverruns(room, id)
                           /\ Quiet(RemoveClient(room, id, w))
<1> DEFINE left == AfterLeaving(room, id)
           done == RemoveClient(room, id, w)
<1>1. /\ left \in RoomRecords(Ids, W, C) /\ Sound(left)
      /\ Members(left) = Members(room) \ {id}
      /\ left.second = room.second \ {id}
      /\ Len(left.clients) = Len(room.clients) - 1
      /\ id # room.currentDrawer => left.currentDrawer = room.currentDrawer
      /\ id = room.currentDrawer => ~SearchOverruns(left)
      /\ ~SearchOverruns(room) => ~SearchOverruns(left)
  BY AfterLeavingFacts
<1>2. /\ Len(room.clients) \in Nat
      /\ left.clients = <<>> <=> Members(left) = {}
      /\ left.clients = <<>> <=> Len(left.clients) = 0
      /\ room.clients # <<>>
      /\ room.clients = <<>> <=> Len(room.clients) = 0
  <2> HIDE DEF left
  <2>1. /\ Len(room.clients) \in Nat
        /\ room.clients = <<>> <=> Len(room.clients) = 0
        /\ room.clients # <<>>
    <3>1. Len(room.clients) \in Nat
      BY DEF RoomRecords
    <3>2. QED
      BY <3>1, MembersOfClients
  <2>2. /\ left.clients = <<>> <=> Members(left) = {}
        /\ left.clients = <<>> <=> Len(left.clients) = 0
    BY <1>1, MembersOfClients
  <2>3. QED
    BY <2>1, <2>2
<1>3. /\ LeavingEndsRound(room, id) <=> left.clients # <<>> /\ AllCorrect(left)
      /\ LeavingOverruns(room, id) <=> LeavingEndsRound(room, id) /\ SearchOverruns(left)
  BY <1>1, <1>2 DEF LeavingEndsRound, LeavingOverruns
<1>4. done = IF LeavingEndsRound(room, id) THEN NewRound(left, w) ELSE left
  BY DEF RemoveClient
<1> HIDE DEF left, done
<1>5. ASSUME ~LeavingOverruns(room, id)
      PROVE  /\ done \in RoomRecords(Ids, W, C)
             /\ Sound(done)
             /\ Members(done) = Members(room) \ {id}
  <2>1. CASE LeavingEndsRound(room, id)
    BY <1>1, <1>3, <1>4, <1>5, <2>1, NewRoundFacts
  <2>2. CASE ~LeavingEndsRound(room, id)
    BY <1>1, <1>4, <2>2
  <2>3. QED
    BY <2>1, <2>2
<1>6. ASSUME Lively(room)
      PROVE  ~LeavingOverruns(room, id) /\ Lively(done)
  <2>1. ~SearchOverruns(left)
    BY <1>1, <1>6 DEF Lively
  <2>2. CASE LeavingEndsRound(room, id)
    BY <1>1, <1>3, <1>4, <2>1, <2>2, NewRoundIsLively
  <2>3. CASE ~LeavingEndsRound(room, id)
    BY <1>2, <1>3, <1>4, <2>1, <2>3 DEF Lively, Guessers
  <2>4. QED
    BY <1>3, <2>1, <2>2, <2>3
<1>7. ASSUME Quiet(room)
      PROVE  ~LeavingOverruns(room, id) /\ Quiet(done)
  <2>1. left.second \subseteq {left.currentDrawer}
    BY <1>1, <1>7 DEF Quiet
  <2>2. ~LeavingOverruns(room, id)
    <3>1. SUFFICES ASSUME left.clients # <<>>, AllCorrect(left), SearchOverruns(left)
                   PROVE  FALSE
      BY <1>3
    <3>2. left.currentDrawer \notin Members(left)
      BY <3>1 DEF SearchOverruns
    <3>3. left.second = {}
      BY <1>1, <2>1, <3>2 DEF Sound
    <3>4. QED
      BY <1>2, <3>1, <3>2, <3>3 DEF AllCorrect, Guessers
  <2>3. CASE LeavingEndsRound(room, id)
    BY <1>1, <1>3, <1>4, <2>2, <2>3, NewRoundIsLively
  <2>4. CASE ~LeavingEndsRound(room, id)
    BY <1>4, <2>1, <2>2, <2>4 DEF Quiet
  <2>5. QED
    BY <2>2, <2>3, <2>4
<1>8. QED
  BY <1>5, <1>6, <1>7 DEF done

\* Judging a guess touches the flag of the one who guessed, and no more.
LEMMA JudgeFacts ==
  ASSUME NEW Ids, NEW W, NEW C, NEW room \in RoomRecords(Ids, W, C), Sound(room),
         NEW id \in Members(room), NEW guess
  PROVE  /\ Judge(room, guess, id) \in RoomRecords(Ids, W, C)
         /\ Sound(Judge(room, guess, id))
         /\ Judge(room, guess, id).clients = room.clients
         /\ Members(Judge(room, guess, id)) = Members(room)
         /\ Judge(room, guess, id).currentDrawer = room.currentDrawer
<1> DEFINE flags == IF guess = room.word THEN room.second \cup {id}
                    ELSE room.second \ {id}
<1>1. id \in Ids /\ room.second \subseteq Members(room)
  BY MembersOfClients DEF Sound
<1>2. flags \subseteq Members(room) /\ flags \subseteq Ids
  BY <1>1 DEF RoomRecords
<1>3. Judge(room, guess, id) = [room EXCEPT !.second = flags]
  BY DEF Judge
<1> HIDE DEF flags
<1>4. /\ Judge(room, guess, id) \in RoomRecords(Ids, W, C)
      /\ Judge(room, guess, id).clients = room.clients
      /\ Judge(room, guess, id).second = flags
      /\ Judge(room, guess, id).currentDrawer = room.currentDrawer
  BY <1>2, <1>3 DEF RoomRecords
<1>5. QED
  BY <1>2, <1>4 DEF Sound, Members

\* CheckWord keeps the clients; in a lively room it finds the drawer when it
\* starts a round, and leaves a lively room.
LEMMA CheckWordFacts ==
  ASSUME NEW Ids, NEW W, NEW C, NEW room \in RoomRecords(Ids, W, C), Sound(room),
         NEW id \in Members(room), NEW guess, NEW w \in W,
         ~GuessOverruns(room, guess, id)
  PROVE  /\ CheckWord(room, guess, id, w) \in RoomRecords(Ids, W, C)
         /\ Sound(CheckWord(room, guess, id, w))
         /\ Members(CheckWord(room, guess, id, w)) = Members(room)
         /\ Lively(room) => Lively(CheckWord(room, guess, id, w))
<1> DEFINE judged == Judge(room, guess, id)
           done == CheckWord(room, guess, id, w)
<1>1. /\ judged \in RoomRecords(Ids, W, C) /\ Sound(judged)
      /\ judged.clients = room.clients
      /\ Members(judged) = Members(room)
      /\ judged.currentDrawer = room.currentDrawer
  BY JudgeFacts
<1>2. /\ GuessEndsRound(room, guess, id) <=> Guessers(room) # {} /\ AllCorrect(judged)
      /\ GuessEndsRound(room, guess, id) => ~SearchOverruns(judged)
      /\ SearchOverruns(judged) <=> SearchOverruns(room)
      /\ Guessers(judged) = Guessers(room)
  BY <1>1 DEF GuessEndsRound, GuessOverruns, SearchOverruns, Guessers
<1>3. done = IF GuessEndsRound(room, guess, id) THEN NewRound(judged, w) ELSE judged
  BY DEF CheckWord
<1>4. judged.clients # <<>>
  BY <1>1, MembersOfClients
<1> HIDE DEF judged, done
<1>5. CASE GuessEndsRound(room, guess, id)
  BY <1>1, <1>2, <1>3, <1>4, <1>5, NewRoundFacts, NewRoundIsLively DEF done
<1>6. CASE ~GuessEndsRound(room, guess, id)
  BY <1>1, <1>2, <1>3, <1>6 DEF Lively, done
<1>7. QED
  BY <1>5, <1>6

\* Drawing leaves everything but the canvas alone ...
LEMMA AddDrawCommandFacts ==
  ASSUME NEW Ids, NEW W, NEW C, NEW room \in RoomRecords(Ids, W, C), NEW command \in C
  PROVE  /\ AddDrawCommand(room, command) \in RoomRecords(Ids, W, C)
         /\ AddDrawCommand(room, command).clients = room.clients
         /\ AddDrawCommand(room, command).second = room.second
         /\ AddDrawCommand(room, command).currentDrawer = room.currentDrawer
<1> DEFINE more == Append(room.drawCommands, command)
<1>1. more \in Seq(C)
  BY AppendProperties DEF RoomRecords
<1>2. AddDrawCommand(room, command) = [room EXCEPT !.drawCommands = more]
  BY DEF AddDrawCommand
<1> HIDE DEF more
<1>3. QED
  BY <1>1, <1>2 DEF RoomRecords

\* ... and so does clearing.
LEMMA ClearCanvasFacts ==
  ASSUME NEW Ids, NEW W, NEW C, NEW room \in RoomRecords(Ids, W, C)
  PROVE  /\ ClearCanvas(room) \in RoomRecords(Ids, W, C)
         /\ ClearCanvas(room).clients = room.clients
         /\ ClearCanvas(room).second = room.second
         /\ ClearCanvas(room).currentDrawer = room.currentDrawer
<1> DEFINE none == <<>>
<1>1. none \in Seq(C)
  OBVIOUS
<1>2. ClearCanvas(room) = [room EXCEPT !.drawCommands = none]
  BY DEF ClearCanvas
<1> HIDE DEF none
<1>3. QED
  BY <1>1, <1>2 DEF RoomRecords

\* Only the drawer depends on where the vector keeps a room.
LEMMA RelocatedFacts ==
  ASSUME NEW Ids, NEW W, NEW C, NEW room \in RoomRecords(Ids, W, C), Sound(room)
  PROVE  /\ Relocated(room) \in RoomRecords(Ids, W, C)
         /\ Sound(Relocated(room))
         /\ Members(Relocated(room)) = Members(room)
<1>1. /\ Relocated(room) \in RoomRecords(Ids, W, C)
      /\ Relocated(room).clients = room.clients
      /\ Relocated(room).second = room.second
  BY DEF Relocated, RoomRecords
<1>2. QED
  BY <1>1 DEF Sound, Members

(***************************************************************************)
(* Posts, for any set M that holds the messages a room can send            *)
(***************************************************************************)

\* Posting messages to clients leaves queues of messages.
LEMMA PostType ==
  ASSUME NEW M, NEW D, NEW E, NEW outgoing \in [D -> Seq(M)],
         NEW posts \in [E -> Seq(M)]
  PROVE  Post(outgoing, posts) \in [D -> Seq(M)]
<1>1. ASSUME NEW c \in D
      PROVE  (IF c \in DOMAIN posts THEN outgoing[c] \o posts[c] ELSE outgoing[c])
               \in Seq(M)
  <2>1. CASE c \in E
    <3>1. outgoing[c] \in Seq(M) /\ posts[c] \in Seq(M)
      BY <2>1
    <3>2. outgoing[c] \o posts[c] \in Seq(M)
      BY <3>1, ConcatProperties
    <3>3. QED
      BY <2>1, <3>2
  <2>2. CASE c \notin E
    BY <2>2
  <2>3. QED
    BY <2>1, <2>2
<1>2. DOMAIN outgoing = D
  OBVIOUS
<1>3. QED
  BY <1>1, <1>2 DEF Post

\* Every client gets a sequence of messages when a drawer is promoted.
LEMMA PromoteDrawerPostsType ==
  ASSUME NEW M, NEW Ids, NEW W, NEW C, NEW room \in RoomRecords(Ids, W, C),
         Canvas(room) \in M, \A id \in Members(room) : SetDrawer(room, id) \in M
  PROVE  PromoteDrawerPosts(room) \in [Members(room) -> Seq(M)]
<1> DEFINE n == Len(room.clients) + 1
           post(c) == [i \in 1 .. n |->
                         IF i = Position(room, c) THEN SetDrawer(room, c)
                         ELSE Canvas(room)]
<1>1. n \in Nat
  BY DEF RoomRecords
<1>2. ASSUME NEW c \in Members(room)
      PROVE  post(c) \in Seq(M)
  <2>1. post(c) \in [1 .. n -> M]
    BY <1>2
  <2> HIDE DEF n, post
  <2>2. QED
    BY <1>1, <2>1, SeqDef
<1>3. PromoteDrawerPosts(room) = [c \in Members(room) |-> post(c)]
  BY DEF PromoteDrawerPosts
<1> HIDE DEF post
<1>4. QED
  BY <1>2, <1>3
=============================================================================
