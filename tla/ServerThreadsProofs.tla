------------------------ MODULE ServerThreadsProofs ------------------------
(***************************************************************************)
(* What holds of the two threads until they meet, for any number of        *)
(* clients and messages.  The inductive invariant has a part for what the  *)
(* main thread knows of its client at each stage, a part for the io thread *)
(* and a part for the rooms; that the threads have not met is what keeps   *)
(* each thread's part while the other goes on.                             *)
(*                                                                         *)
(* RoomProofs is extended for its facts about RemoveAt.                    *)
(***************************************************************************)
EXTENDS ServerThreads, RoomProofs

Clients == 0 .. (accepted - 1)

\* Every client is in one room at most, once, and an open one in one.
RoomsFit ==
  /\ IsInjective(waiting)
  /\ ToSet(waiting) \cap seated = {}
  /\ ToSet(waiting) \subseteq Clients /\ seated \subseteq Clients
  /\ open \subseteq ToSet(waiting) \cup seated
  /\ \A i \in DOMAIN incoming : incoming[i].client \in Clients

\* What the io thread knows of its client.
IoFits ==
  /\ at["io"] = "idle" => client["io"] = Nobody
  /\ at["io"] = "accept" => client["io"] = accepted /\ accepted < MaxClients
  /\ at["io"] = "receive" => received < MaxMessages
  /\ at["io"] \notin {"idle", "accept"} => client["io"] \in Clients
  /\ at["io"] \in Seeking => client["io"] \notin open
  /\ at["io"] = "seekRooms" => client["io"] \notin ToSet(waiting)
  /\ at["io"] = "leaveWaiting" => client["io"] \in ToSet(waiting)
  /\ at["io"] = "leaveRoom" => client["io"] \in seated

Handles(stage) == stage \notin {"poll", "front", "joining", "stopped"}

\* What the main thread knows of its client at a stage.
MainFits(stage) ==
  /\ stage = "front" => incoming # <<>>
  /\ Handles(stage) =>
       incoming # <<>> /\ Head(incoming) = [type |-> job, client |-> client["main"]]
  /\ stage = "move" => waiting # <<>> /\ Head(waiting) = client["main"]
  /\ stage \in {"moved", "answer", "canvas"} \/ (stage = "send" /\ job = "JoinRoom") =>
       client["main"] \in seated \/ client["main"] \notin open
  /\ stage \in {"found", "tell"} =>
       client["main"] \in ToSet(waiting) \/ client["main"] \notin open
  /\ stage \in {"create", "creator", "found", "tell"} => job # "JoinRoom"
  /\ stage \in Seeking \cup {"crashed"} => client["main"] \notin open
  /\ stage = "leaveWaiting" => client["main"] \in ToSet(waiting)
  /\ stage = "leaveRoom" => client["main"] \in seated

IInv == TypeOK /\ RoomsFit /\ IoFits /\ NobodyLeftBehind /\ MainFits(at["main"])

(***************************************************************************)
(* The vector of the waiting room                                          *)
(***************************************************************************)

LEMMA ToSetFacts ==
  ASSUME NEW S, NEW s \in Seq(S)
  PROVE  /\ ToSet(s) = {s[i] : i \in 1 .. Len(s)}
         /\ ToSet(s) \subseteq S
BY DEF ToSet

\* A client that is erased is not there any more, and nobody else is missing.
LEMMA RemoveFirstSet ==
  ASSUME NEW S, NEW s \in Seq(S), IsInjective(s), NEW c \in ToSet(s)
  PROVE  /\ RemoveFirst(s, c) \in Seq(S)
         /\ IsInjective(RemoveFirst(s, c))
         /\ ToSet(RemoveFirst(s, c)) = ToSet(s) \ {c}
<1>1. PICK i \in 1 .. Len(s) : s[i] = c
  BY DEF ToSet
<1>2. \A j \in 1 .. Len(s) : s[j] = c => j = i
  BY <1>1 DEF IsInjective
<1>3. {j \in 1 .. Len(s) : s[j] = c} = {i}
  BY <1>1, <1>2
<1>4. SelectInSeq(s, LAMBDA v : v = c) = i
  BY <1>3 DEF SelectInSeq, Min
<1>5. RemoveFirst(s, c) = RemoveAt(s, i)
  BY <1>1, <1>4 DEF RemoveFirst
<1>6. QED
  BY <1>1, <1>5, RemoveAtShape, RemoveAtSet

\* The first client of the vector is taken out.
LEMMA TailSet ==
  ASSUME NEW S, NEW s \in Seq(S), IsInjective(s), s # <<>>
  PROVE  /\ Tail(s) \in Seq(S)
         /\ Head(s) \in ToSet(s)
         /\ IsInjective(Tail(s))
         /\ ToSet(Tail(s)) = ToSet(s) \ {Head(s)}
<1>1. Len(s) \in Nat \ {0} /\ 1 \in 1 .. Len(s) /\ Head(s) = s[1]
  BY EmptySeq
<1>2. RemoveAt(s, 1) = Tail(s)
  <2>1. /\ RemoveAt(s, 1) \in Seq(S) /\ Len(RemoveAt(s, 1)) = Len(s) - 1
        /\ \A j \in 1 .. (Len(s) - 1) : RemoveAt(s, 1)[j] = s[j + 1]
    BY <1>1, RemoveAtShape
  <2>2. /\ Tail(s) \in Seq(S) /\ Len(Tail(s)) = Len(s) - 1
        /\ \A j \in 1 .. (Len(s) - 1) : Tail(s)[j] = s[j + 1]
    BY <1>1, HeadTailProperties
  <2>3. QED
    BY <2>1, <2>2, SeqEqual
<1>3. Head(s) \in ToSet(s)
  BY <1>1 DEF ToSet
<1>4. /\ RemoveAt(s, 1) \in Seq(S)
      /\ IsInjective(RemoveAt(s, 1))
      /\ ToSet(RemoveAt(s, 1)) = ToSet(s) \ {s[1]}
  BY <1>1, RemoveAtSet, RemoveAtShape
<1>5. QED
  BY <1>1, <1>2, <1>3, <1>4

\* A new client is the last of the vector.
LEMMA AppendSet ==
  ASSUME NEW S, NEW s \in Seq(S), NEW c \in S
  PROVE  /\ Append(s, c) \in Seq(S)
         /\ ToSet(Append(s, c)) = ToSet(s) \cup {c}
         /\ IsInjective(s) /\ c \notin ToSet(s) => IsInjective(Append(s, c))
<1>1. /\ Append(s, c) \in Seq(S) /\ Len(Append(s, c)) = Len(s) + 1
      /\ \A i \in 1 .. Len(s) : Append(s, c)[i] = s[i]
      /\ Append(s, c)[Len(s) + 1] = c
      /\ DOMAIN Append(s, c) = 1 .. (Len(s) + 1) /\ DOMAIN s = 1 .. Len(s)
      /\ Len(s) \in Nat
  OBVIOUS
<1> DEFINE t == Append(s, c)
<1> HIDE DEF t
<1>2. ToSet(t) = ToSet(s) \cup {c}
  BY <1>1 DEF ToSet, t
<1>3. ASSUME IsInjective(s), c \notin ToSet(s)
      PROVE  IsInjective(t)
  <2>1. ASSUME NEW a \in 1 .. (Len(s) + 1), NEW b \in 1 .. (Len(s) + 1), t[a] = t[b]
        PROVE  a = b
    <3>1. \A i \in 1 .. Len(s) : s[i] # c
      BY <1>1, <1>3 DEF ToSet
    <3>2. \A i, j \in 1 .. Len(s) : s[i] = s[j] => i = j
      BY <1>1, <1>3 DEF IsInjective
    <3>3. QED
      BY <1>1, <2>1, <3>1, <3>2 DEF t
  <2>2. QED
    BY <1>1, <2>1 DEF IsInjective, t
<1>4. QED
  BY <1>1, <1>2, <1>3 DEF t

(***************************************************************************)
(* Each step                                                               *)
(***************************************************************************)

\* Goes changes the stage of one thread.
LEMMA Stages ==
  ASSUME TypeOK, NEW here, NEW there
  PROVE  /\ Goes("main", here, there) =>
              at["main"] = here /\ at'["main"] = there /\ at'["io"] = at["io"]
         /\ Goes("io", here, there) =>
              at["io"] = here /\ at'["io"] = there /\ at'["main"] = at["main"]
         /\ Goes("main", here, there) /\ there \in MainStages =>
              at' \in [main : MainStages, io : IoStages]
         /\ Goes("io", here, there) /\ there \in IoStages =>
              at' \in [main : MainStages, io : IoStages]
BY DEF TypeOK, Goes

LEMMA ClientsAreIds == TypeOK => Clients \subseteq Ids /\ accepted \in Nat
BY BoundsAssumption DEF TypeOK, Clients, Ids

\* A message that is handled is from a client that was accepted.
LEMMA Served ==
  IInv /\ Handles(at["main"]) => client["main"] \in Clients /\ job \in Jobs
<1> SUFFICES ASSUME IInv, Handles(at["main"])
             PROVE  client["main"] \in Clients /\ job \in Jobs
  OBVIOUS
<1>1. /\ incoming \in Seq([type : Jobs, client : Ids]) /\ incoming # <<>>
      /\ Head(incoming) = [type |-> job, client |-> client["main"]]
      /\ \A i \in DOMAIN incoming : incoming[i].client \in Clients
  BY DEF IInv, TypeOK, MainFits, RoomsFit
<1>2. 1 \in DOMAIN incoming /\ incoming[1] = Head(incoming)
  BY <1>1, EmptySeq
<1>3. Head(incoming) \in [type : Jobs, client : Ids]
  BY <1>1, <1>2
<1>4. QED
  BY <1>1, <1>2, <1>3

\* A step of the main thread through the code keeps the invariant when its
\* next stage fits what it knows.
LEMMA WalksKeeps ==
  ASSUME IInv, NEW here, NEW there \in MainStages, Walks(here, there),
         MainFits(there)
  PROVE  IInv'
<1>1. /\ at'["main"] = there /\ at'["io"] = at["io"]
      /\ at' \in [main : MainStages, io : IoStages]
  BY Stages DEF IInv, Walks
<1>2. UNCHANGED <<client, job, netVars, queueVars, stop, roomVars>>
  BY DEF Walks, Inside
<1>3. MainFits(at'["main"])
  BY <1>1
<1>4. MainFits(at["main"])'
  BY <1>2, <1>3 DEF MainFits, netVars, queueVars, roomVars
<1>5. TypeOK'
  BY <1>1, <1>2 DEF IInv, TypeOK, netVars, queueVars, roomVars
<1>6. RoomsFit' /\ IoFits' /\ NobodyLeftBehind'
  BY <1>1, <1>2 DEF IInv, RoomsFit, IoFits, NobodyLeftBehind, Clients,
     netVars, queueVars, roomVars
<1>7. QED
  BY <1>4, <1>5, <1>6 DEF IInv

\* The threads are not in stages that use one object.
LEMMA Apart ==
  ASSUME ~Overlap
  PROVE  /\ at["main"] \in {"move", "leaveWaiting"} =>
              at["io"] \notin {"accept", "seekWaiting", "leaveWaiting"}
         /\ at["main"] \in {"move", "leaveRoom"} =>
              at["io"] \notin {"seekRooms", "leaveRoom"}
         /\ at["main"] = "seekRooms" => at["io"] # "leaveRoom"
         /\ at["main"] = "seekWaiting" => at["io"] \notin {"accept", "leaveWaiting"}
BY DEF Overlap, Uses, Reads, Writes, Meet

(* The steps of the main thread that only go from one stage to the next *)

LEMMA PollKeeps == IInv /\ Poll => IInv'
<1>1. ASSUME IInv, incoming # <<>> /\ Walks("poll", "front") PROVE IInv'
  <2>1. MainFits("front")
    BY <1>1 DEF MainFits, Handles, Seeking
  <2>2. QED
    BY <1>1, <2>1, WalksKeeps DEF MainStages
<1>2. ASSUME IInv, Walks("poll", "joining") PROVE IInv'
  <2>1. MainFits("joining")
    BY <1>2 DEF MainFits, Handles, Seeking
  <2>2. QED
    BY <1>2, <2>1, WalksKeeps DEF MainStages
<1>3. QED
  BY <1>1, <1>2 DEF Poll

LEMMA JoinKeeps == IInv /\ Join => IInv'
<1>1. MainFits("stopped")
  BY DEF MainFits, Handles, Seeking
<1>2. QED
  BY <1>1, WalksKeeps DEF Join, MainStages

\* Stages at which the main thread knows nothing of its client but that its
\* message is in front.
LEMMA NothingNew ==
  ASSUME IInv, NEW here, NEW there, Walks(here, there), Handles(here),
         there \in {"check", "search", "fail", "pop", "play"}
  PROVE  IInv'
<1>1. MainFits(here)
  BY Stages DEF IInv, Walks
<1>2. MainFits(there)
  BY <1>1 DEF MainFits, Handles, Seeking
<1>3. QED
  BY <1>2, WalksKeeps DEF MainStages

LEMMA JoinRoomWalksKeep ==
  ASSUME IInv, Lookup \/ Check \/ SearchEnds \/ Fail \/ Respond \/ Answer \/ SendCanvas
  PROVE  IInv'
<1>1. ASSUME Lookup \/ Check \/ Fail PROVE IInv'
  BY <1>1, NothingNew DEF Lookup, Check, Fail, Handles
<1>2. ASSUME SearchEnds PROVE IInv'
  <2>1. ASSUME waiting # <<>>, Head(waiting) = client["main"], Walks("search", "move")
        PROVE  IInv'
    <3>1. MainFits("search")
      BY <2>1, Stages DEF IInv, Walks
    <3>2. MainFits("move")
      BY <2>1, <3>1 DEF MainFits, Handles, Seeking
    <3>3. QED
      BY <2>1, <3>2, WalksKeeps DEF MainStages
  <2>2. QED
    BY <1>2, <2>1, NothingNew DEF SearchEnds, Handles
<1>3. ASSUME Respond PROVE IInv'
  <2>1. Walks("moved", "answer")
    BY <1>3 DEF Respond
  <2>2. MainFits("moved")
    BY <2>1, Stages DEF IInv, Walks
  <2>3. MainFits("answer")
    BY <2>2 DEF MainFits, Handles, Seeking
  <2>4. QED
    BY <2>1, <2>3, WalksKeeps DEF MainStages
<1>4. ASSUME Answer PROVE IInv'
  <2> DEFINE there == IF client["main"] \in seated THEN "send" ELSE "crashed"
  <2>1. Walks("answer", there)
    BY <1>4 DEF Answer
  <2>2. MainFits("answer")
    BY <2>1, Stages DEF IInv, Walks
  <2>3. MainFits(there)
    BY <2>2 DEF MainFits, Handles, Seeking
  <2>4. there \in MainStages
    BY DEF MainStages
  <2> HIDE DEF there
  <2>5. QED
    BY <2>1, <2>3, <2>4, WalksKeeps
<1>5. ASSUME SendCanvas PROVE IInv'
  <2> DEFINE there == IF client["main"] \in seated THEN "pop" ELSE "crashed"
  <2>1. Walks("canvas", there)
    BY <1>5 DEF SendCanvas
  <2>2. MainFits("canvas")
    BY <2>1, Stages DEF IInv, Walks
  <2>3. MainFits(there)
    BY <2>2 DEF MainFits, Handles, Seeking
  <2>4. there \in MainStages
    BY DEF MainStages
  <2> HIDE DEF there
  <2>5. QED
    BY <2>1, <2>3, <2>4, WalksKeeps
<1>6. QED
  BY <1>1, <1>2, <1>3, <1>4, <1>5

LEMMA OtherWalksKeep ==
  ASSUME IInv, Creator \/ Found \/ Tell \/ Send \/ Play
  PROVE  IInv'
<1>1. ASSUME Creator PROVE IInv'
  <2> DEFINE there == IF Waits THEN "found" ELSE "pop"
  <2>1. Walks("creator", there)
    BY <1>1 DEF Creator
  <2>2. MainFits("creator")
    BY <2>1, Stages DEF IInv, Walks
  <2>3. MainFits(there)
    BY <2>2 DEF MainFits, Handles, Seeking, Waits
  <2>4. there \in MainStages
    BY DEF MainStages
  <2> HIDE DEF there
  <2>5. QED
    BY <2>1, <2>3, <2>4, WalksKeeps
<1>2. ASSUME Found PROVE IInv'
  <2>1. Walks("found", "tell")
    BY <1>2 DEF Found
  <2>2. MainFits("found")
    BY <2>1, Stages DEF IInv, Walks
  <2>3. MainFits("tell")
    BY <2>2 DEF MainFits, Handles, Seeking
  <2>4. QED
    BY <2>1, <2>3, WalksKeeps DEF MainStages
<1>3. ASSUME Tell PROVE IInv'
  <2> DEFINE there == IF Waits THEN "send" ELSE "crashed"
  <2>1. Walks("tell", there)
    BY <1>3 DEF Tell
  <2>2. MainFits("tell")
    BY <2>1, Stages DEF IInv, Walks
  <2>3. MainFits(there)
    BY <2>2 DEF MainFits, Handles, Seeking, Waits
  <2>4. there \in MainStages
    BY DEF MainStages
  <2> HIDE DEF there
  <2>5. QED
    BY <2>1, <2>3, <2>4, WalksKeeps
<1>4. ASSUME Send PROVE IInv'
  <2> DEFINE there == IF client["main"] \in open THEN Resume("main") ELSE "seekWaiting"
  <2>1. Walks("send", there)
    BY <1>4 DEF Send
  <2>2. MainFits("send")
    BY <2>1, Stages DEF IInv, Walks
  <2>3. MainFits(there)
    BY <2>2 DEF MainFits, Handles, Seeking, Resume
  <2>4. there \in MainStages
    BY DEF MainStages, Seeking, Resume
  <2> HIDE DEF there
  <2>5. QED
    BY <2>1, <2>3, <2>4, WalksKeeps
<1>5. ASSUME Play PROVE IInv'
  BY <1>5, NothingNew DEF Play, Handles
<1>6. QED
  BY <1>1, <1>2, <1>3, <1>4, <1>5

(* The other steps of the main thread *)

LEMMA TakeKeeps == IInv /\ Take => IInv'
<1> SUFFICES ASSUME IInv, Take PROVE IInv'
  OBVIOUS
<1> DEFINE message == Head(incoming)
           there == CASE message.type = "JoinRoom" -> "lookup"
                      [] message.type = "CreateRoom" -> "create"
                      [] OTHER -> IF hasRoom THEN "play" ELSE "pop"
<1>1. /\ Goes("main", "front", there)
      /\ job' = message.type
      /\ client' = [client EXCEPT !["main"] = message.client]
      /\ UNCHANGED <<netVars, roomVars, queueVars, stop>>
  BY DEF Take
<1>2. /\ there \in {"lookup", "create", "play", "pop"}
      /\ there = "create" => message.type # "JoinRoom"
  OBVIOUS
<1>3. /\ incoming # <<>>
      /\ message = [type |-> message.type, client |-> message.client]
      /\ message.type \in Jobs /\ message.client \in Ids
  <2>1. incoming # <<>>
    BY <1>1, Stages DEF IInv, MainFits
  <2>2. incoming \in Seq([type : Jobs, client : Ids])
    BY DEF IInv, TypeOK
  <2>3. Head(incoming) \in [type : Jobs, client : Ids]
    BY <2>1, <2>2, HeadTailProperties
  <2>4. message \in [type : Jobs, client : Ids]
    BY <2>3
  <2> HIDE DEF message
  <2>5. QED
    BY <2>1, <2>4
<1> HIDE DEF message, there
<1>4. /\ at'["main"] = there /\ at'["io"] = at["io"]
      /\ at' \in [main : MainStages, io : IoStages]
  BY <1>1, <1>2, Stages DEF IInv, MainStages
<1>5. /\ client'["main"] = message.client /\ client'["io"] = client["io"]
      /\ client' \in [Threads -> Ids \cup {Nobody}]
  BY <1>1, <1>3 DEF IInv, TypeOK, Threads
<1>6. MainFits(at["main"])'
  <2>1. incoming' = incoming /\ Head(incoming) = [type |-> job', client |-> client'["main"]]
    BY <1>1, <1>3, <1>5 DEF message, queueVars
  <2>2. QED
    BY <1>1, <1>2, <1>3, <1>4, <2>1 DEF MainFits, Seeking
<1>7. TypeOK'
  BY <1>1, <1>3, <1>4, <1>5 DEF IInv, TypeOK, netVars, queueVars, roomVars
<1>8. RoomsFit' /\ IoFits' /\ NobodyLeftBehind'
  BY <1>1, <1>4, <1>5 DEF IInv, RoomsFit, IoFits, NobodyLeftBehind, Clients,
     netVars, queueVars, roomVars
<1>9. QED
  BY <1>6, <1>7, <1>8 DEF IInv

LEMMA MoveClientKeeps == IInv /\ ~Overlap /\ MoveClient => IInv'
<1> SUFFICES ASSUME IInv, ~Overlap, MoveClient PROVE IInv'
  OBVIOUS
<1> DEFINE c == client["main"]
<1>1. /\ Goes("main", "move", "moved")
      /\ waiting' = Tail(waiting) /\ seated' = seated \cup {c}
      /\ hasRoom' = hasRoom
      /\ UNCHANGED <<client, job, netVars, queueVars, stop>>
  BY DEF MoveClient, Inside
<1>2. /\ at["main"] = "move" /\ at'["main"] = "moved" /\ at'["io"] = at["io"]
      /\ at' \in [main : MainStages, io : IoStages]
  BY <1>1, Stages DEF IInv, MainStages
<1>3. waiting # <<>> /\ Head(waiting) = c
  BY <1>2 DEF IInv, MainFits
<1>4. c \in Clients /\ c \in Ids
  <2>1. c \in Clients
    BY <1>2, Served DEF Handles
  <2>2. QED
    BY <2>1, ClientsAreIds DEF IInv
<1>5. /\ waiting' \in Seq(Ids) /\ IsInjective(waiting')
      /\ c \in ToSet(waiting) /\ ToSet(waiting') = ToSet(waiting) \ {c}
  BY <1>1, <1>3, TailSet DEF IInv, TypeOK, RoomsFit
<1>6. at["io"] \notin Seeking /\ at["io"] # "accept"
  BY <1>2, Apart DEF Seeking
<1>7. TypeOK'
  BY <1>1, <1>2, <1>4, <1>5 DEF IInv, TypeOK, netVars, queueVars
<1>8. RoomsFit'
  <2>1. ToSet(waiting') = (ToSet(waiting))'
    BY DEF ToSet
  <2>2. QED
    BY <1>1, <1>4, <1>5, <2>1 DEF IInv, RoomsFit, Clients, netVars, queueVars
<1>9. IoFits' /\ NobodyLeftBehind'
  <2>1. ToSet(waiting') = (ToSet(waiting))'
    BY DEF ToSet
  <2>2. QED
    BY <1>1, <1>2, <1>5, <1>6, <2>1 DEF IInv, RoomsFit, IoFits, NobodyLeftBehind, Clients,
       netVars, queueVars, Seeking
<1>10. MainFits(at["main"])'
  <2>1. MainFits("move")
    BY <1>2 DEF IInv
  <2>2. QED
    BY <1>1, <1>2, <2>1 DEF MainFits, Handles, Seeking, queueVars
<1>11. QED
  BY <1>7, <1>8, <1>9, <1>10 DEF IInv

LEMMA CreateKeeps == IInv /\ Create => IInv'
<1> SUFFICES ASSUME IInv, Create PROVE IInv'
  OBVIOUS
<1>1. /\ Goes("main", "create", "creator")
      /\ hasRoom' = TRUE
      /\ UNCHANGED <<waiting, seated, client, job, netVars, queueVars, stop>>
  BY DEF Create, Inside
<1>2. /\ at["main"] = "create" /\ at'["main"] = "creator" /\ at'["io"] = at["io"]
      /\ at' \in [main : MainStages, io : IoStages]
  BY <1>1, Stages DEF IInv, MainStages
<1>3. TypeOK'
  BY <1>1, <1>2 DEF IInv, TypeOK, netVars, queueVars
<1>4. RoomsFit' /\ IoFits' /\ NobodyLeftBehind'
  BY <1>1, <1>2 DEF IInv, RoomsFit, IoFits, NobodyLeftBehind, Clients, netVars, queueVars
<1>5. MainFits(at["main"])'
  <2>1. MainFits("create")
    BY <1>2 DEF IInv
  <2>2. QED
    BY <1>1, <1>2, <2>1 DEF MainFits, Handles, Seeking, queueVars
<1>6. QED
  BY <1>3, <1>4, <1>5 DEF IInv

LEMMA PopKeeps == IInv /\ Pop => IInv'
<1> SUFFICES ASSUME IInv, Pop PROVE IInv'
  OBVIOUS
<1>1. /\ Goes("main", "pop", "poll")
      /\ incoming' = Tail(incoming) /\ job' = "none"
      /\ client' = [client EXCEPT !["main"] = Nobody]
      /\ UNCHANGED <<netVars, roomVars, received, stop>>
  BY DEF Pop
<1>2. /\ at["main"] = "pop" /\ at'["main"] = "poll" /\ at'["io"] = at["io"]
      /\ at' \in [main : MainStages, io : IoStages]
  BY <1>1, Stages DEF IInv, MainStages
<1>3. /\ client'["io"] = client["io"]
      /\ client' \in [Threads -> Ids \cup {Nobody}]
  BY <1>1 DEF IInv, TypeOK, Threads
<1>4. /\ incoming' \in Seq([type : Jobs, client : Ids])
      /\ \A i \in DOMAIN incoming' : i + 1 \in DOMAIN incoming /\ incoming'[i] = incoming[i + 1]
  <2>1. incoming # <<>> /\ incoming \in Seq([type : Jobs, client : Ids])
    BY <1>2 DEF IInv, MainFits, Handles, TypeOK
  <2>2. QED
    BY <1>1, <2>1
<1>5. TypeOK'
  BY <1>1, <1>2, <1>3, <1>4 DEF IInv, TypeOK, netVars, roomVars
<1>6. RoomsFit'
  BY <1>1, <1>4 DEF IInv, RoomsFit, Clients, netVars, roomVars
<1>7. IoFits' /\ NobodyLeftBehind'
  BY <1>1, <1>2, <1>3 DEF IInv, IoFits, NobodyLeftBehind, Clients, netVars, roomVars, queueVars
<1>8. MainFits(at["main"])'
  BY <1>2 DEF MainFits, Handles, Seeking
<1>9. QED
  BY <1>5, <1>6, <1>7, <1>8 DEF IInv

(* OnDisconnect *)

\* A search through the waiting room or the rooms changes stages only, but
\* for the io thread's client when it is done with its handler.
LEMMA OnDisconnectMainKeeps == IInv /\ ~Overlap /\ OnDisconnect("main") => IInv'
<1> SUFFICES ASSUME IInv, ~Overlap, OnDisconnect("main") PROVE IInv'
  OBVIOUS
<1> DEFINE c == client["main"]
<1>1. UNCHANGED <<job, netVars, queueVars, stop>>
  BY DEF OnDisconnect
<1>2. at["main"] \in Seeking /\ at'["io"] = at["io"]
  BY Stages DEF IInv, OnDisconnect, SeekWaiting, LeaveWaiting, SeekRooms, LeaveRoom, Seeking
<1>3. client' = client
  <2>1. at["io"] = "idle" => client["io"] = Nobody
    BY DEF IInv, IoFits
  <2>2. client \in [Threads -> Ids \cup {Nobody}]
    BY DEF IInv, TypeOK
  <2>3. QED
    BY <1>2, <2>1, <2>2 DEF OnDisconnect, Threads
<1>4. c \in Clients /\ c \notin open
  BY <1>2, Served DEF IInv, MainFits, Handles, Seeking
<1>5. /\ waiting \in Seq(Ids) /\ IsInjective(waiting) /\ ToSet(waiting) \cap seated = {}
      /\ seated \subseteq Ids
  BY DEF IInv, TypeOK, RoomsFit
<1>6. MainFits(at["main"])
  BY DEF IInv
<1>7. /\ waiting' \in Seq(Ids) /\ IsInjective(waiting')
      /\ \/ ToSet(waiting') = ToSet(waiting) /\ seated' = seated
         \/ /\ ToSet(waiting') = ToSet(waiting) \ {c} /\ seated' = seated
            /\ at["main"] = "leaveWaiting"
         \/ /\ ToSet(waiting') = ToSet(waiting) /\ seated' = seated \ {c}
            /\ at["main"] = "leaveRoom"
      /\ hasRoom' = hasRoom
      /\ at' \in [main : MainStages, io : IoStages]
      /\ \/ at'["main"] \in {"pop", "seekRooms"}
         \/ at'["main"] = "canvas"
         \/ at'["main"] = "leaveWaiting" /\ c \in ToSet(waiting')
         \/ at'["main"] = "leaveRoom" /\ c \in seated'
  <2> DEFINE r == Resume("main")
  <2>1. r \in {"canvas", "pop"}
    BY DEF Resume
  <2> HIDE DEF r
  <2>2. CASE SeekWaiting("main")
    <3>1. PICK there : /\ Goes("main", "seekWaiting", there)
                       /\ there = IF c \in ToSet(waiting) THEN "leaveWaiting" ELSE "seekRooms"
      BY <2>2 DEF SeekWaiting
    <3>2. there \in MainStages
      BY <3>1 DEF MainStages, Seeking
    <3>3. UNCHANGED roomVars
      BY <2>2 DEF SeekWaiting
    <3>4. QED
      BY <1>5, <3>1, <3>2, <3>3, Stages DEF roomVars, IInv
  <2>3. CASE LeaveWaiting("main")
    <3>1. Goes("main", "leaveWaiting", r) /\ waiting' = RemoveFirst(waiting, c)
          /\ UNCHANGED <<hasRoom, seated>>
      BY <2>3 DEF LeaveWaiting, r
    <3>2. at["main"] = "leaveWaiting" /\ at'["main"] = r /\ r \in MainStages
      BY <2>1, <3>1, Stages DEF IInv, MainStages
    <3>3. c \in ToSet(waiting)
      BY <1>6, <3>2 DEF MainFits
    <3>4. QED
      BY <1>5, <2>1, <3>1, <3>2, <3>3, RemoveFirstSet, Stages DEF IInv
  <2>4. CASE SeekRooms("main")
    <3>1. PICK there : /\ Goes("main", "seekRooms", there)
                       /\ there = IF c \in seated THEN "leaveRoom" ELSE r
      BY <2>4 DEF SeekRooms, r
    <3>2. there \in MainStages
      BY <2>1, <3>1 DEF MainStages, Seeking
    <3>3. UNCHANGED roomVars
      BY <2>4 DEF SeekRooms
    <3>4. QED
      BY <1>5, <2>1, <3>1, <3>2, <3>3, Stages DEF roomVars, IInv
  <2>5. CASE LeaveRoom("main")
    <3>1. Goes("main", "leaveRoom", r) /\ seated' = seated \ {c}
          /\ UNCHANGED <<hasRoom, waiting>>
      BY <2>5 DEF LeaveRoom, r
    <3>2. at["main"] = "leaveRoom" /\ at'["main"] = r /\ r \in MainStages
      BY <2>1, <3>1, Stages DEF IInv, MainStages
    <3>3. QED
      BY <1>5, <2>1, <3>1, <3>2, Stages DEF IInv
  <2>6. QED
    BY <2>2, <2>3, <2>4, <2>5 DEF OnDisconnect
<1>8. /\ at["main"] = "leaveWaiting" => at["io"] \notin {"accept", "seekWaiting", "leaveWaiting"}
      /\ at["main"] = "leaveRoom" => at["io"] \notin {"seekRooms", "leaveRoom"}
  BY Apart
<1>9. ToSet(waiting') = (ToSet(waiting))'
  BY DEF ToSet
<1>10. TypeOK'
  BY <1>1, <1>3, <1>5, <1>7 DEF IInv, TypeOK, netVars, queueVars
<1>11. RoomsFit'
  BY <1>1, <1>4, <1>5, <1>7, <1>9 DEF IInv, RoomsFit, Clients, netVars, queueVars
<1>12. IoFits'
  BY <1>1, <1>2, <1>3, <1>7, <1>8, <1>9 DEF IInv, IoFits, Clients, netVars, queueVars
<1>13. NobodyLeftBehind'
  BY <1>1, <1>2, <1>3, <1>7, <1>9 DEF IInv, NobodyLeftBehind, netVars
<1>14. MainFits(at["main"])'
  <2>1. /\ incoming # <<>>
        /\ Head(incoming) = [type |-> job, client |-> c]
    BY <1>2, <1>6 DEF MainFits, Handles, Seeking
  <2>2. QED
    BY <1>1, <1>3, <1>4, <1>7, <1>9, <2>1 DEF MainFits, Handles, Seeking, netVars, queueVars
<1>15. QED
  BY <1>10, <1>11, <1>12, <1>13, <1>14 DEF IInv

\* What the main thread knows of its client outlives a step of the io thread
\* that changes neither stage nor client nor front message, opens nobody the
\* main thread serves and takes away nobody whose socket is open.
LEMMA MainFitsStays ==
  ASSUME IInv, UNCHANGED job,
         at'["main"] = at["main"], client'["main"] = client["main"],
         incoming # <<>> => incoming' # <<>> /\ Head(incoming') = Head(incoming),
         open' \cap Clients \subseteq open,
         waiting # <<>> /\ at["main"] = "move" => waiting' # <<>> /\ Head(waiting') = Head(waiting),
         ToSet(waiting) \cap open \subseteq ToSet(waiting'),
         seated \cap open \subseteq seated',
         at["main"] = "leaveWaiting" => ToSet(waiting) \subseteq ToSet(waiting'),
         at["main"] = "leaveRoom" => seated \subseteq seated'
  PROVE  MainFits(at["main"])'
<1>1. ToSet(waiting') = (ToSet(waiting))'
  BY DEF ToSet
<1>2. MainFits(at["main"])
  BY DEF IInv
<1>3. CASE Handles(at["main"])
  <2>1. client["main"] \in Clients
    BY <1>3, Served
  <2>2. QED
    BY <1>1, <1>2, <1>3, <2>1 DEF MainFits, Handles
<1>4. CASE ~Handles(at["main"])
  BY <1>2, <1>4 DEF MainFits, Handles, Seeking
<1>5. QED
  BY <1>3, <1>4

LEMMA OnDisconnectIoKeeps == IInv /\ ~Overlap /\ OnDisconnect("io") => IInv'
<1> SUFFICES ASSUME IInv, ~Overlap, OnDisconnect("io") PROVE IInv'
  OBVIOUS
<1> DEFINE c == client["io"]
<1>1. UNCHANGED <<job, netVars, queueVars, stop>>
  BY DEF OnDisconnect
<1>2. at["io"] \in Seeking /\ at'["main"] = at["main"]
  BY Stages DEF IInv, OnDisconnect, SeekWaiting, LeaveWaiting, SeekRooms, LeaveRoom, Seeking
<1>3. /\ client'["main"] = client["main"]
      /\ client'["io"] = IF at'["io"] = "idle" THEN Nobody ELSE c
      /\ client' \in [Threads -> Ids \cup {Nobody}]
  BY DEF OnDisconnect, Threads, IInv, TypeOK
<1>4. c \in Clients /\ c \notin open
  BY <1>2 DEF IInv, IoFits, Seeking
<1>5. /\ waiting \in Seq(Ids) /\ IsInjective(waiting) /\ ToSet(waiting) \cap seated = {}
      /\ seated \subseteq Ids
  BY DEF IInv, TypeOK, RoomsFit
<1>6. IoFits
  BY DEF IInv
<1>7. /\ waiting' \in Seq(Ids) /\ IsInjective(waiting')
      /\ \/ waiting' = waiting /\ seated' = seated
         \/ /\ ToSet(waiting') = ToSet(waiting) \ {c} /\ seated' = seated
            /\ at["io"] = "leaveWaiting"
         \/ /\ waiting' = waiting /\ seated' = seated \ {c}
            /\ at["io"] = "leaveRoom"
      /\ hasRoom' = hasRoom
      /\ at' \in [main : MainStages, io : IoStages]
      /\ \/ at'["io"] = "idle" /\ c \notin ToSet(waiting') \cup seated'
         \/ at'["io"] = "seekRooms" /\ c \notin ToSet(waiting')
         \/ at'["io"] = "leaveWaiting" /\ c \in ToSet(waiting')
         \/ at'["io"] = "leaveRoom" /\ c \in seated'
  <2>1. Resume("io") = "idle"
    BY DEF Resume
  <2>2. CASE SeekWaiting("io")
    <3>1. PICK there : /\ Goes("io", "seekWaiting", there)
                       /\ there = IF c \in ToSet(waiting) THEN "leaveWaiting" ELSE "seekRooms"
      BY <2>2 DEF SeekWaiting
    <3>2. there \in IoStages
      BY <3>1 DEF IoStages, Seeking
    <3>3. UNCHANGED roomVars
      BY <2>2 DEF SeekWaiting
    <3>4. QED
      BY <1>5, <3>1, <3>2, <3>3, Stages DEF roomVars, IInv
  <2>3. CASE LeaveWaiting("io")
    <3>1. Goes("io", "leaveWaiting", "idle") /\ waiting' = RemoveFirst(waiting, c)
          /\ UNCHANGED <<hasRoom, seated>>
      BY <2>1, <2>3 DEF LeaveWaiting
    <3>2. at["io"] = "leaveWaiting" /\ at'["io"] = "idle" /\ "idle" \in IoStages
      BY <3>1, Stages DEF IInv, IoStages
    <3>3. c \in ToSet(waiting)
      BY <1>6, <3>2 DEF IoFits
    <3>4. QED
      BY <1>5, <3>1, <3>2, <3>3, RemoveFirstSet, Stages DEF IInv
  <2>4. CASE SeekRooms("io")
    <3>1. PICK there : /\ Goes("io", "seekRooms", there)
                       /\ there = IF c \in seated THEN "leaveRoom" ELSE "idle"
      BY <2>1, <2>4 DEF SeekRooms
    <3>2. there \in IoStages
      BY <3>1 DEF IoStages, Seeking
    <3>3. UNCHANGED roomVars
      BY <2>4 DEF SeekRooms
    <3>4. at["io"] = "seekRooms" /\ at'["io"] = there
      BY <3>1, Stages DEF IInv
    <3>5. c \notin ToSet(waiting)
      BY <1>6, <3>4 DEF IoFits
    <3>6. QED
      BY <1>5, <3>1, <3>2, <3>3, <3>4, <3>5, Stages DEF roomVars, IInv
  <2>5. CASE LeaveRoom("io")
    <3>1. Goes("io", "leaveRoom", "idle") /\ seated' = seated \ {c}
          /\ UNCHANGED <<hasRoom, waiting>>
      BY <2>1, <2>5 DEF LeaveRoom
    <3>2. at["io"] = "leaveRoom" /\ at'["io"] = "idle" /\ "idle" \in IoStages
      BY <3>1, Stages DEF IInv, IoStages
    <3>3. c \in seated
      BY <1>6, <3>2 DEF IoFits
    <3>4. QED
      BY <1>5, <3>1, <3>2, <3>3, Stages DEF IInv
  <2>6. QED
    BY <2>2, <2>3, <2>4, <2>5 DEF OnDisconnect
<1>8. /\ at["io"] = "leaveWaiting" => at["main"] \notin {"move", "leaveWaiting"}
      /\ at["io"] = "leaveRoom" => at["main"] \notin {"move", "leaveRoom"}
  BY Apart
<1>9. ToSet(waiting') = (ToSet(waiting))'
  BY DEF ToSet
<1>10. TypeOK'
  BY <1>1, <1>3, <1>5, <1>7 DEF IInv, TypeOK, netVars, queueVars
<1>11. RoomsFit'
  BY <1>1, <1>4, <1>5, <1>7, <1>9 DEF IInv, RoomsFit, Clients, netVars, queueVars
<1>12. IoFits'
  BY <1>1, <1>3, <1>4, <1>7, <1>9 DEF IoFits, Clients, netVars, Seeking, queueVars
<1>13. NobodyLeftBehind'
  BY <1>1, <1>3, <1>7, <1>9, <1>2 DEF IInv, NobodyLeftBehind, netVars, Seeking
<1>14. MainFits(at["main"])'
  <2>1. open' \cap Clients \subseteq open /\ UNCHANGED <<job, incoming>>
    BY <1>1 DEF netVars, queueVars
  <2>2. /\ ToSet(waiting) \cap open \subseteq ToSet(waiting') /\ seated \cap open \subseteq seated'
        /\ at["main"] = "leaveWaiting" => ToSet(waiting) \subseteq ToSet(waiting')
        /\ at["main"] = "leaveRoom" => seated \subseteq seated'
        /\ at["main"] = "move" => waiting' = waiting
    BY <1>4, <1>7, <1>8
  <2>3. QED
    BY <1>2, <1>3, <2>1, <2>2, MainFitsStays
<1>15. QED
  BY <1>10, <1>11, <1>12, <1>13, <1>14 DEF IInv

(* The other steps of the io thread *)

\* Taking up a handler for a client keeps the invariant when the stage fits
\* the client.
LEMMA BeginsKeeps ==
  ASSUME IInv, NEW stage \in {"accept", "receive", "close"}, NEW c \in Ids,
         Begins(stage, c), UNCHANGED <<accepted, open>>,
         pending' \subseteq pending,
         stage = "accept" => c = accepted /\ accepted < MaxClients,
         stage = "receive" => received < MaxMessages,
         stage # "accept" => c \in Clients
  PROVE  IInv'
<1>1. /\ Goes("io", "idle", stage)
      /\ client' = [client EXCEPT !["io"] = c]
      /\ UNCHANGED <<job, roomVars, queueVars, stop>>
  BY DEF Begins
<1>2. /\ at["io"] = "idle" /\ at'["io"] = stage /\ at'["main"] = at["main"]
      /\ at' \in [main : MainStages, io : IoStages]
  BY <1>1, Stages DEF IInv, IoStages
<1>3. /\ client'["main"] = client["main"] /\ client'["io"] = c
      /\ client' \in [Threads -> Ids \cup {Nobody}]
  BY <1>1 DEF IInv, TypeOK, Threads
<1>4. TypeOK'
  BY <1>1, <1>2, <1>3 DEF IInv, TypeOK, roomVars, queueVars
<1>5. RoomsFit'
  BY <1>1 DEF IInv, RoomsFit, Clients, roomVars, queueVars
<1>6. IoFits'
  BY <1>1, <1>2, <1>3 DEF IoFits, Clients, Seeking, roomVars, queueVars
<1>7. NobodyLeftBehind'
  BY <1>1, <1>2, <1>3 DEF IInv, NobodyLeftBehind, Seeking, roomVars
<1>8. MainFits(at["main"])'
  BY <1>1, <1>2, <1>3 DEF IInv, MainFits, roomVars, queueVars
<1>9. QED
  BY <1>4, <1>5, <1>6, <1>7, <1>8 DEF IInv

LEMMA HandlersBegin ==
  ASSUME IInv, AcceptBegins \/ ReceiveBegins \/ FailureBegins
  PROVE  IInv'
<1>1. Clients \subseteq Ids /\ accepted \in Nat
  BY ClientsAreIds DEF IInv
<1>2. open \subseteq Clients /\ pending \subseteq Clients \X {"read", "write"}
  BY DEF IInv, TypeOK, Clients
<1>3. ASSUME AcceptBegins PROVE IInv'
  <2>1. accepted < MaxClients /\ Begins("accept", accepted) /\ UNCHANGED netVars
    BY <1>3 DEF AcceptBegins
  <2>2. accepted \in Ids
    BY <1>1, <2>1, BoundsAssumption DEF Ids
  <2>3. QED
    BY <2>1, <2>2, BeginsKeeps DEF netVars
<1>4. ASSUME ReceiveBegins PROVE IInv'
  <2>1. PICK c \in open : Begins("receive", c)
    BY <1>4 DEF ReceiveBegins
  <2>2. received < MaxMessages /\ UNCHANGED netVars
    BY <1>4 DEF ReceiveBegins
  <2>3. QED
    BY <1>1, <1>2, <2>1, <2>2, BeginsKeeps DEF netVars
<1>5. ASSUME FailureBegins PROVE IInv'
  <2>1. PICK p \in pending : /\ Begins("close", p[1])
                             /\ pending' = pending \ {p}
                             /\ UNCHANGED <<accepted, open>>
    BY <1>5 DEF FailureBegins
  <2>2. p[1] \in Clients
    BY <1>2
  <2>3. QED
    BY <1>1, <2>1, <2>2, BeginsKeeps
<1>6. QED
  BY <1>3, <1>4, <1>5

LEMMA AcceptKeeps == IInv /\ ~Overlap /\ Accept => IInv'
<1> SUFFICES ASSUME IInv, ~Overlap, Accept PROVE IInv'
  OBVIOUS
<1> DEFINE c == client["io"]
<1>1. /\ Goes("io", "accept", "idle")
      /\ client' = [client EXCEPT !["io"] = Nobody]
      /\ accepted' = accepted + 1 /\ open' = open \cup {c}
      /\ waiting' = Append(waiting, c)
      /\ UNCHANGED <<job, hasRoom, seated, queueVars, stop>>
  BY DEF Accept, Ends
<1>2. /\ at["io"] = "accept" /\ at'["io"] = "idle" /\ at'["main"] = at["main"]
      /\ at' \in [main : MainStages, io : IoStages]
  BY <1>1, Stages DEF IInv, IoStages
<1>3. c = accepted /\ accepted < MaxClients /\ accepted \in Nat /\ c \in Ids
  <2>1. c = accepted /\ accepted < MaxClients
    BY <1>2 DEF IInv, IoFits
  <2>2. accepted \in Nat
    BY ClientsAreIds DEF IInv
  <2>3. QED
    BY <2>1, <2>2, BoundsAssumption DEF Ids
<1>4. Clients' = Clients \cup {c} /\ c \notin Clients
  BY <1>1, <1>3 DEF Clients
<1>5. /\ client'["main"] = client["main"] /\ client'["io"] = Nobody
      /\ client' \in [Threads -> Ids \cup {Nobody}]
  BY <1>1 DEF IInv, TypeOK, Threads
<1>6. /\ waiting' \in Seq(Ids) /\ IsInjective(waiting')
      /\ ToSet(waiting') = ToSet(waiting) \cup {c}
      /\ waiting # <<>> => waiting' # <<>> /\ Head(waiting') = Head(waiting)
  <2>1. waiting \in Seq(Ids) /\ IsInjective(waiting) /\ c \notin ToSet(waiting)
    BY <1>4 DEF IInv, TypeOK, RoomsFit
  <2>2. QED
    BY <1>1, <1>3, <2>1, AppendSet
<1>7. ToSet(waiting') = (ToSet(waiting))'
  BY DEF ToSet
<1>8. TypeOK'
  <2>1. pending' \subseteq Clients' \X {"read", "write"}
    <3>1. pending \subseteq Clients \X {"read", "write"}
      BY DEF IInv, TypeOK, Clients
    <3>2. PICK writes \in {{}, {"write"}} :
            pending' = pending \cup ({c} \X ({"read"} \cup writes))
      BY DEF Accept
    <3>3. QED
      BY <1>4, <3>1, <3>2
  <2>2. accepted' \in 0 .. MaxClients
    BY <1>1, <1>3, BoundsAssumption
  <2>3. open' \subseteq Clients'
    BY <1>1, <1>4 DEF IInv, TypeOK, Clients
  <2>4. QED
    BY <1>1, <1>2, <1>5, <1>6, <2>1, <2>2, <2>3 DEF IInv, TypeOK, queueVars, Clients
<1>9. RoomsFit'
  <2>1. c \notin seated
    BY <1>4 DEF IInv, RoomsFit
  <2>2. QED
    BY <1>1, <1>4, <1>6, <1>7, <2>1 DEF IInv, RoomsFit, queueVars
<1>10. IoFits'
  BY <1>2, <1>5 DEF IoFits, Seeking
<1>11. NobodyLeftBehind'
  BY <1>1, <1>2, <1>6, <1>7 DEF IInv, NobodyLeftBehind, Seeking
<1>12. MainFits(at["main"])'
  BY <1>1, <1>2, <1>4, <1>5, <1>6, MainFitsStays DEF queueVars
<1>13. QED
  BY <1>8, <1>9, <1>10, <1>11, <1>12 DEF IInv

LEMMA ReceiveKeeps == IInv /\ Receive => IInv'
<1> SUFFICES ASSUME IInv, Receive PROVE IInv'
  OBVIOUS
<1> DEFINE c == client["io"]
<1>1. /\ Goes("io", "receive", "idle")
      /\ client' = [client EXCEPT !["io"] = Nobody]
      /\ received' = received + 1
      /\ UNCHANGED <<job, netVars, roomVars, stop>>
  BY DEF Receive, Ends
<1>2. PICK type \in Jobs : incoming' = Append(incoming, [type |-> type, client |-> c])
  BY DEF Receive
<1>3. /\ at["io"] = "receive" /\ at'["io"] = "idle" /\ at'["main"] = at["main"]
      /\ at' \in [main : MainStages, io : IoStages]
  BY <1>1, Stages DEF IInv, IoStages
<1>4. received < MaxMessages /\ c \in Clients /\ c \in Ids
  <2>1. received < MaxMessages /\ c \in Clients
    BY <1>3 DEF IInv, IoFits
  <2>2. QED
    BY <2>1, ClientsAreIds DEF IInv
<1>5. /\ client'["main"] = client["main"] /\ client'["io"] = Nobody
      /\ client' \in [Threads -> Ids \cup {Nobody}]
  BY <1>1 DEF IInv, TypeOK, Threads
<1>6. /\ incoming' \in Seq([type : Jobs, client : Ids])
      /\ \A i \in DOMAIN incoming' : incoming'[i].client \in Clients
      /\ incoming # <<>> => incoming' # <<>> /\ Head(incoming') = Head(incoming)
  <2> DEFINE m == [type |-> type, client |-> c]
  <2>1. m \in [type : Jobs, client : Ids] /\ m.client \in Clients
    BY <1>4
  <2>2. incoming \in Seq([type : Jobs, client : Ids])
    BY DEF IInv, TypeOK
  <2>3. \A i \in DOMAIN incoming : incoming[i].client \in Clients
    BY DEF IInv, RoomsFit
  <2> HIDE DEF m
  <2>4. incoming' = Append(incoming, m)
    BY <1>2 DEF m
  <2>5. /\ incoming' \in Seq([type : Jobs, client : Ids])
        /\ \A i \in DOMAIN incoming' : incoming'[i] = m \/ (i \in DOMAIN incoming /\ incoming'[i] = incoming[i])
        /\ incoming # <<>> => incoming' # <<>> /\ Head(incoming') = Head(incoming)
    BY <2>1, <2>2, <2>4
  <2>6. QED
    BY <2>1, <2>3, <2>5
<1>7. TypeOK'
  <2>1. received' \in 0 .. MaxMessages
    BY <1>1, <1>4, BoundsAssumption DEF IInv, TypeOK
  <2>2. QED
    BY <1>1, <1>3, <1>5, <1>6, <2>1 DEF IInv, TypeOK, netVars, roomVars
<1>8. RoomsFit'
  BY <1>1, <1>6 DEF IInv, RoomsFit, Clients, netVars, roomVars
<1>9. IoFits'
  BY <1>3, <1>5 DEF IoFits, Seeking
<1>10. NobodyLeftBehind'
  BY <1>1, <1>3, <1>5 DEF IInv, NobodyLeftBehind, Seeking, netVars, roomVars
<1>11. MainFits(at["main"])'
  BY <1>1, <1>3, <1>5, <1>6, MainFitsStays DEF netVars, roomVars
<1>12. QED
  BY <1>7, <1>8, <1>9, <1>10, <1>11 DEF IInv

LEMMA CloseKeeps == IInv /\ Close => IInv'
<1> SUFFICES ASSUME IInv, Close PROVE IInv'
  OBVIOUS
<1> DEFINE c == client["io"]
<1>1. /\ Goes("io", "close", "seekWaiting")
      /\ open' = open \ {c}
      /\ UNCHANGED <<client, job, accepted, pending, roomVars, queueVars, stop>>
  BY DEF Close
<1>2. /\ at["io"] = "close" /\ at'["io"] = "seekWaiting" /\ at'["main"] = at["main"]
      /\ at' \in [main : MainStages, io : IoStages]
  BY <1>1, Stages DEF IInv, IoStages, Seeking
<1>3. TypeOK'
  BY <1>1, <1>2 DEF IInv, TypeOK, roomVars, queueVars
<1>4. RoomsFit'
  BY <1>1 DEF IInv, RoomsFit, Clients, roomVars, queueVars
<1>5. IoFits'
  BY <1>1, <1>2 DEF IInv, IoFits, Clients, roomVars, queueVars
<1>6. NobodyLeftBehind'
  BY <1>1, <1>2 DEF IInv, NobodyLeftBehind, Seeking, roomVars
<1>7. MainFits(at["main"])'
  BY <1>1, <1>2, MainFitsStays DEF roomVars, queueVars
<1>8. QED
  BY <1>3, <1>4, <1>5, <1>6, <1>7 DEF IInv

LEMMA StutterKeeps == IInv /\ (UNCHANGED vars \/ Signal) => IInv'
<1> SUFFICES ASSUME IInv, UNCHANGED vars \/ Signal PROVE IInv'
  OBVIOUS
<1>1. UNCHANGED <<threadVars, job, netVars, roomVars, queueVars>> /\ stop' \in BOOLEAN
  BY DEF IInv, TypeOK, vars, Signal
<1>2. QED
  BY <1>1 DEF IInv, TypeOK, RoomsFit, IoFits, NobodyLeftBehind, MainFits, Clients,
     threadVars, netVars, roomVars, queueVars

(***************************************************************************)
(* The theorems                                                            *)
(***************************************************************************)

LEMMA InitIInv == Init => IInv
<1> SUFFICES ASSUME Init PROVE IInv
  OBVIOUS
<1>1. at["main"] = "poll" /\ at["io"] = "idle" /\ client["io"] = Nobody /\ ToSet(waiting) = {}
  BY DEF Init, Threads, ToSet
<1>2. TypeOK
  <2>1. at \in [main : MainStages, io : IoStages] /\ client \in [Threads -> Ids \cup {Nobody}]
    BY DEF Init, MainStages, IoStages
  <2>2. accepted \in 0 .. MaxClients /\ received \in 0 .. MaxMessages
    BY BoundsAssumption DEF Init
  <2>3. waiting \in Seq(Ids) /\ incoming \in Seq([type : Jobs, client : Ids])
    BY DEF Init
  <2>4. QED
    BY <2>1, <2>2, <2>3 DEF Init, TypeOK
<1>3. RoomsFit
  BY <1>1 DEF Init, RoomsFit, IsInjective
<1>4. IoFits /\ NobodyLeftBehind /\ MainFits(at["main"])
  BY <1>1 DEF Init, IoFits, NobodyLeftBehind, MainFits, Handles, Seeking
<1>5. QED
  BY <1>2, <1>3, <1>4 DEF IInv

LEMMA NextKeepsIInv == IInv /\ [Next]_vars => IInv'
<1> SUFFICES ASSUME IInv, [Next]_vars PROVE IInv'
  OBVIOUS
<1>1. CASE UNCHANGED vars \/ Signal
  BY <1>1, StutterKeeps
<1>2. ASSUME Next PROVE ~Overlap
  BY <1>2 DEF Next, Running, Undefined
<1>3. CASE Next /\ Main
  BY <1>2, <1>3, PollKeeps, TakeKeeps, JoinRoomWalksKeep, MoveClientKeeps, OtherWalksKeep,
     CreateKeeps, OnDisconnectMainKeeps, PopKeeps, JoinKeeps DEF Main
<1>4. CASE Next /\ Io
  BY <1>2, <1>4, HandlersBegin, AcceptKeeps, ReceiveKeeps, CloseKeeps, OnDisconnectIoKeeps DEF Io
<1>5. QED
  BY <1>1, <1>3, <1>4 DEF Next

\* The inductive invariant: until they meet, each thread's client is where
\* the thread takes it to be (Server.cpp, Room.cpp).
THEOREM Invariance == Spec => []IInv
BY InitIInv, NextKeepsIInv, PTL DEF Spec

\* Every variable keeps its type, for any number of clients and messages.
THEOREM TypeCorrect == Spec => []TypeOK
BY Invariance, PTL DEF IInv

\* Until the threads meet, a client whose socket is closed is in no room but
\* while the io thread takes it out (OnDisconnect, against MoveClient).
THEOREM NobodyStays == Spec => []NobodyLeftBehind
BY Invariance, PTL DEF IInv

\* HandleMessages pops the message it has handled.
THEOREM PopsTheRightMessage == Spec => []PopsWhatWasHandled
<1>1. IInv => PopsWhatWasHandled
  BY DEF IInv, MainFits, Handles, PopsWhatWasHandled
<1>2. QED
  BY <1>1, Invariance, PTL

\* Until the threads meet, the main thread follows a null or dangling pointer
\* only when its client has left in the middle of its message.
THEOREM CrashesNeedLeavers == Spec => []CrashNeedsLeaver
<1>1. IInv => CrashNeedsLeaver
  <2> SUFFICES ASSUME IInv, at["main"] = "crashed" \/ Dangling
               PROVE  client["main"] < accepted /\ client["main"] \notin open
    BY DEF CrashNeedsLeaver
  <2>1. Handles(at["main"])
    BY DEF Dangling, Handles
  <2>2. client["main"] < accepted
    BY <2>1, Served, ClientsAreIds DEF Clients, IInv
  <2>3. CASE at["main"] = "crashed"
    BY <2>2, <2>3 DEF IInv, MainFits
  <2>4. CASE Dangling
    BY <2>2, <2>4 DEF Dangling, Alive, IInv, RoomsFit
  <2>5. QED
    BY <2>3, <2>4
<1>2. QED
  BY <1>1, Invariance, PTL

(* Homes *)

LEMMA HomesBegin == Init => Home!Init
BY DEF Init, Home!Init, ToSet

\* What a step does to the rooms.
LEMMA HomesGoOn == IInv /\ [Next]_vars => [Home!Next]_<<Clients, ToSet(waiting), seated>>
<1> SUFFICES ASSUME IInv, [Next]_vars, ~UNCHANGED <<accepted, waiting, seated>>
             PROVE  Home!Next
  BY DEF ToSet, Clients
<1>1. ~Overlap
  BY DEF Next, Running, Undefined, vars, netVars, roomVars
<1>2. ToSet(waiting') = (ToSet(waiting))' /\ ToSet(waiting) \cap seated = {}
      /\ waiting \in Seq(Ids) /\ IsInjective(waiting)
  BY DEF ToSet, IInv, RoomsFit, TypeOK
<1>3. \/ MoveClient \/ Accept
      \/ LeaveWaiting("main") /\ accepted' = accepted
      \/ LeaveWaiting("io") /\ accepted' = accepted
      \/ LeaveRoom("main") /\ accepted' = accepted
      \/ LeaveRoom("io") /\ accepted' = accepted
  BY DEF Next, vars, netVars, roomVars, Main, Io, Signal, Poll, Take, Lookup, Check, SearchEnds,
     Fail, Respond, Answer, SendCanvas, Create, Creator, Found, Tell, Send, Play, Pop, Join,
     Walks, Inside, OnDisconnect, SeekWaiting, SeekRooms, AcceptBegins, ReceiveBegins,
     FailureBegins, Begins, Receive, Close
<1>4. CASE MoveClient
  <2> DEFINE c == client["main"]
  <2>1. at["main"] = "move"
    BY <1>4, Stages DEF MoveClient, IInv
  <2>2. waiting # <<>> /\ Head(waiting) = c
    BY <2>1 DEF IInv, MainFits
  <2>3. c \in ToSet(waiting) /\ ToSet(waiting') = ToSet(waiting) \ {c} /\ c \in Ids
    BY <1>2, <1>4, <2>2, TailSet, ToSetFacts DEF MoveClient
  <2>4. seated' = seated \cup {c} /\ accepted' = accepted
    BY <1>4 DEF MoveClient, Inside, netVars
  <2>5. Home!Move(c)
    BY <1>2, <2>3, <2>4 DEF Home!Move
  <2>6. QED
    BY <2>3, <2>5 DEF Home!Next
<1>5. CASE Accept
  <2> DEFINE c == client["io"]
  <2>1. at["io"] = "accept"
    BY <1>5, Stages DEF Accept, Ends, IInv
  <2>2. c = accepted /\ accepted < MaxClients /\ accepted \in Nat
    BY <2>1, ClientsAreIds DEF IInv, IoFits
  <2>3. c \in Ids /\ c \notin Clients
    BY <2>2, BoundsAssumption DEF Ids, Clients
  <2>4. accepted' = accepted + 1 /\ waiting' = Append(waiting, c) /\ seated' = seated
    BY <1>5 DEF Accept
  <2>5. ToSet(waiting') = ToSet(waiting) \cup {c}
    BY <1>2, <2>3, <2>4, AppendSet
  <2>6. Clients' = Clients \cup {c}
    BY <2>2, <2>4 DEF Clients
  <2>7. Home!Enter(c)
    BY <1>2, <2>3, <2>4, <2>5, <2>6 DEF Home!Enter, Clients
  <2>8. QED
    BY <2>3, <2>7 DEF Home!Next
<1>6. ASSUME NEW t \in Threads, LeaveWaiting(t) \/ LeaveRoom(t), accepted' = accepted
      PROVE  Home!Next
  <2> DEFINE c == client[t]
  <2>1. \/ LeaveWaiting(t) /\ c \in ToSet(waiting) /\ c \in Ids
        \/ LeaveRoom(t) /\ c \in seated /\ c \in Ids
    <3>1. CASE t = "main"
      BY <1>2, <1>6, <3>1, ToSetFacts, Stages DEF LeaveWaiting, LeaveRoom, IInv, MainFits, TypeOK
    <3>2. CASE t = "io"
      BY <1>2, <1>6, <3>2, ToSetFacts, Stages DEF LeaveWaiting, LeaveRoom, IInv, IoFits, TypeOK
    <3>3. QED
      BY <3>1, <3>2 DEF Threads
  <2>2. CASE LeaveWaiting(t) /\ c \in ToSet(waiting) /\ c \in Ids
    <3>1. waiting' = RemoveFirst(waiting, c) /\ seated' = seated
      BY <2>2 DEF LeaveWaiting
    <3>2. ToSet(waiting') = ToSet(waiting) \ {c}
      BY <1>2, <2>2, <3>1, RemoveFirstSet
    <3>3. Home!Leave(c)
      BY <1>2, <1>6, <2>2, <3>1, <3>2 DEF Home!Leave
    <3>4. QED
      BY <2>2, <3>3 DEF Home!Next
  <2>3. CASE LeaveRoom(t) /\ c \in seated /\ c \in Ids
    <3>1. waiting' = waiting /\ seated' = seated \ {c}
      BY <2>3 DEF LeaveRoom
    <3>2. Home!Leave(c)
      BY <1>2, <1>6, <2>3, <3>1 DEF Home!Leave
    <3>3. QED
      BY <2>3, <3>2 DEF Home!Next
  <2>4. QED
    BY <2>1, <2>2, <2>3
<1>7. QED
  BY <1>3, <1>4, <1>5, <1>6 DEF Threads

\* Access by access, and until the threads meet, clients come, move on and
\* leave as in Homes.
THEOREM ThreadsKeepHomes == Spec => KeepsHomes
<1>1. IInv /\ [Next]_vars => [Home!Next]_<<0 .. (accepted - 1), ToSet(waiting), seated>>
  BY HomesGoOn DEF Clients
<1>2. QED
  BY <1>1, HomesBegin, Invariance, PTL DEF Spec, KeepsHomes, Home!Spec
=============================================================================
