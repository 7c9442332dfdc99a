--------------------------- MODULE DrawingProofs ---------------------------
(***************************************************************************)
(* Draw commands survive being bytes, for any number of them, and every    *)
(* message of a drawing is as long as its header says, wherever the mouse  *)
(* goes and however often the canvas is cleared.                           *)
(* Whoever joins when catches up with the canvas the server keeps, and the *)
(* server keeps what the drawer sees, stroke by stroke.                    *)
(***************************************************************************)
EXTENDS Drawing, FoldProofs

(***************************************************************************)
(* Bytes                                                                   *)
(***************************************************************************)

\* Where byte i of a payload comes from.
LEMMA Places ==
  ASSUME NEW n \in Nat, NEW i \in 1 .. CommandSize * n
  PROVE  /\ (i - 1) \div 10 + 1 \in 1 .. n
         /\ ((i - 1) % 10) \div 2 + 1 \in 1 .. 5
         /\ ((i - 1) % 2) + 1 \in 1 .. 2
<1>1. i - 1 \in 0 .. (10 * n - 1)
  BY DEF CommandSize
<1>2. (i - 1) \div 10 \in 0 .. (n - 1)
  BY <1>1
<1>3. (i - 1) % 10 \in 0 .. 9 /\ (i - 1) % 2 \in 0 .. 1
  BY <1>1
<1>4. ((i - 1) % 10) \div 2 \in 0 .. 4
  BY <1>3
<1>5. QED
  BY <1>2, <1>3, <1>4

\* Byte i is byte b of field f of command k.
IsPlace(i, k, f, b) ==
  /\ (i - 1) \div 10 + 1 = k
  /\ ((i - 1) % 10) \div 2 + 1 = f
  /\ ((i - 1) % 2) + 1 = b

PlaceOf(k, f, b) == 10 * (k - 1) + 2 * f - 2 + b

\* Where a field goes.
LEMMA FieldPlaces ==
  ASSUME NEW n \in Nat, NEW k \in 1 .. n, NEW f \in 1 .. 5, NEW b \in 1 .. 2
  PROVE  /\ PlaceOf(k, f, b) \in 1 .. CommandSize * n
         /\ IsPlace(PlaceOf(k, f, b), k, f, b)
<1> DEFINE i == PlaceOf(k, f, b)
<1> DEFINE j == 2 * f - 3 + b
<1>1. j \in 0 .. 9 /\ i - 1 = 10 * (k - 1) + j /\ i \in Int /\ k - 1 \in Nat /\ k - 1 < n
  BY DEF PlaceOf
<1>2. j \div 2 + 1 = f /\ (j % 2) + 1 = b
  OBVIOUS
<1> HIDE DEF i, j
<1>3. i \in 1 .. CommandSize * n
  BY <1>1 DEF CommandSize
<1>4. (i - 1) \div 10 = k - 1 /\ (i - 1) % 10 = j
  BY <1>1
<1>5. (i - 1) % 2 = j % 2
  BY <1>1
<1>6. /\ (i - 1) \div 10 + 1 = k
      /\ ((i - 1) % 10) \div 2 + 1 = f
      /\ ((i - 1) % 2) + 1 = b
  BY <1>1, <1>2, <1>4, <1>5
<1>7. QED
  BY <1>3, <1>6, Zenon DEF IsPlace, i

\* A number that has 16 bits is two bytes.
LEMMA TwoBytes ==
  ASSUME NEW n \in Word16
  PROVE  /\ \A i \in 1 .. 2 : ByteOf(n, i) \in Byte
         /\ ByteOf(n, 1) + 256 * ByteOf(n, 2) = n
<1>1. n \in Nat /\ n < 65536
  BY DEF Word16
<1>2. /\ n % 256 \in Nat /\ n % 256 < 256
      /\ n \div 256 \in Nat /\ n \div 256 < 256
      /\ (n % 256) + 256 * (n \div 256) = n
  BY <1>1
<1>3. n % 256 \in Byte /\ n \div 256 \in Byte
  BY <1>2 DEF Byte
<1>4. QED
  BY <1>2, <1>3 DEF ByteOf

\* Two bytes are a number of 16 bits.
LEMMA OneWord ==
  ASSUME NEW low \in Byte, NEW high \in Byte
  PROVE  low + 256 * high \in Word16
<1>1. low \in Nat /\ low < 256 /\ high \in Nat /\ high < 256
  BY DEF Byte
<1>2. low + 256 * high \in Nat /\ low + 256 * high < 65536
  BY <1>1
<1>3. QED
  BY <1>2 DEF Word16

\* Bytes makes a payload of ten bytes for each command.
LEMMA BytesFacts ==
  ASSUME NEW commands \in Seq(Command)
  PROVE  /\ Bytes(commands) \in Seq(Byte)
         /\ Len(Bytes(commands)) = CommandSize * Len(commands)
<1> DEFINE n == Len(commands)
           byte(i) == ByteOf(commands[(i - 1) \div 10 + 1][((i - 1) % 10) \div 2 + 1],
                             ((i - 1) % 2) + 1)
<1>1. n \in Nat /\ CommandSize * n \in Nat
  BY DEF CommandSize
<1>2. ASSUME NEW i \in 1 .. CommandSize * n
      PROVE  byte(i) \in Byte
  <2>1. commands[(i - 1) \div 10 + 1] \in Command
    BY <1>1, <1>2, Places
  <2>2. commands[(i - 1) \div 10 + 1][((i - 1) % 10) \div 2 + 1] \in Word16
    BY <1>1, <1>2, <2>1, Places DEF Command
  <2>3. QED
    BY <1>1, <1>2, <2>2, Places, TwoBytes
<1> HIDE DEF n, byte
<1>3. Bytes(commands) = [i \in 1 .. CommandSize * n |-> byte(i)]
  BY DEF Bytes, n, byte
<1>4. Bytes(commands) \in [1 .. CommandSize * n -> Byte]
  BY <1>2, <1>3
<1>5. QED
  BY <1>1, <1>4, SeqDef DEF n

\* Whatever its bytes, a payload is as many commands as it has whole tens.
LEMMA ParseFacts ==
  ASSUME NEW bytes \in Seq(Byte)
  PROVE  /\ Parse(bytes) \in Seq(Command)
         /\ Len(Parse(bytes)) = Len(bytes) \div CommandSize
<1> DEFINE n == Len(bytes) \div CommandSize
           field(k, f) == bytes[10 * (k - 1) + 2 * f - 1] + 256 * bytes[10 * (k - 1) + 2 * f]
<1>1. n \in Nat /\ 10 * n <= Len(bytes) /\ Len(bytes) \in Nat
  BY DEF CommandSize
<1> HIDE DEF n
<1>2. ASSUME NEW k \in 1 .. n, NEW f \in 1 .. 5
      PROVE  field(k, f) \in Word16
  <2> DEFINE low == 10 * (k - 1) + 2 * f - 1
             high == 10 * (k - 1) + 2 * f
  <2>1. low \in 1 .. Len(bytes) /\ high \in 1 .. Len(bytes)
    BY <1>1, <1>2
  <2> HIDE DEF low, high
  <2>2. bytes[low] \in Byte /\ bytes[high] \in Byte
    BY <2>1
  <2>3. bytes[low] + 256 * bytes[high] \in Word16
    BY <2>2, OneWord
  <2>4. QED
    BY <2>3 DEF low, high
<1> HIDE DEF field
<1>3. Parse(bytes) = [k \in 1 .. n |-> [f \in 1 .. 5 |-> field(k, f)]]
  BY DEF Parse, n, field
<1>4. Parse(bytes) \in [1 .. n -> Command]
  BY <1>2, <1>3 DEF Command
<1>5. QED
  BY <1>1, <1>4, SeqDef DEF n

\* What the frontend packs and the server lays out is what the server and the
\* frontends parse, command for command.
THEOREM CommandsSurvive ==
  ASSUME NEW commands \in Seq(Command)
  PROVE  Parse(Bytes(commands)) = commands
<1> DEFINE n == Len(commands)
           bytes == Bytes(commands)
<1>1. n \in Nat /\ bytes \in Seq(Byte) /\ Len(bytes) = CommandSize * n
  BY BytesFacts
<1>2. Len(bytes) \div CommandSize = n
  BY <1>1 DEF CommandSize
<1> DEFINE field(k, f) == bytes[10 * (k - 1) + 2 * f - 1] + 256 * bytes[10 * (k - 1) + 2 * f]
<1>3. \A i \in 1 .. CommandSize * n :
        bytes[i] = ByteOf(commands[(i - 1) \div 10 + 1][((i - 1) % 10) \div 2 + 1],
                          ((i - 1) % 2) + 1)
  BY DEF Bytes
<1> HIDE DEF n, bytes
<1>4. ASSUME NEW k \in 1 .. n, NEW f \in 1 .. 5
      PROVE  field(k, f) = commands[k][f]
  <2>1. ASSUME NEW b \in 1 .. 2
        PROVE  bytes[PlaceOf(k, f, b)] = ByteOf(commands[k][f], b)
    <3> DEFINE i == PlaceOf(k, f, b)
    <3>1. i \in 1 .. CommandSize * n /\ IsPlace(i, k, f, b)
      BY <1>1, <1>4, <2>1, FieldPlaces
    <3> HIDE DEF i
    <3>2. bytes[i] = ByteOf(commands[(i - 1) \div 10 + 1][((i - 1) % 10) \div 2 + 1],
                            ((i - 1) % 2) + 1)
      BY <1>3, <3>1, Zenon
    <3>3. QED
      BY <3>1, <3>2, Zenon DEF IsPlace, i
  <2>2. /\ bytes[10 * (k - 1) + 2 * f - 1] = ByteOf(commands[k][f], 1)
        /\ bytes[10 * (k - 1) + 2 * f] = ByteOf(commands[k][f], 2)
    <3>1. /\ PlaceOf(k, f, 1) = 10 * (k - 1) + 2 * f - 1
          /\ PlaceOf(k, f, 2) = 10 * (k - 1) + 2 * f
          /\ 1 \in 1 .. 2 /\ 2 \in 1 .. 2
      BY <1>1, <1>4 DEF PlaceOf
    <3>2. QED
      BY <2>1, <3>1, Zenon
  <2>3. commands[k][f] \in Word16
    BY <1>4 DEF Command, n
  <2>4. QED
    BY <2>2, <2>3, TwoBytes
<1>5. Parse(bytes) = [k \in 1 .. n |-> [f \in 1 .. 5 |-> field(k, f)]]
  BY <1>2, Zenon DEF Parse
<1>6. \A k \in 1 .. n : commands[k] = [f \in 1 .. 5 |-> commands[k][f]]
  BY DEF Command, n
<1>7. commands = [k \in 1 .. n |-> commands[k]]
  BY <1>1 DEF n
<1> HIDE DEF field
<1>8. Parse(bytes) = [k \in 1 .. n |-> [f \in 1 .. 5 |-> commands[k][f]]]
  BY <1>4, <1>5
<1>9. QED
  BY <1>6, <1>7, <1>8 DEF bytes

(***************************************************************************)
(* Messages                                                                *)
(***************************************************************************)

\* What Sized says of one message.
FitsHeader(m) ==
  /\ m.size = Len(m.payload)
  /\ m.size % CommandSize = 0
  /\ m.type = "DrawCommand" => m.size = CommandSize

Mail == {m \in WireMessage : FitsHeader(m)}

\* A wire of such messages is typed and sized.
LEMMA MailFacts ==
  ASSUME NEW wire
  PROVE  wire \in Seq(Mail) <=> wire \in Seq(WireMessage) /\ Sized(wire)
<1>1. ASSUME wire \in Seq(Mail)
      PROVE  wire \in Seq(WireMessage) /\ Sized(wire)
  <2>1. Mail \subseteq WireMessage
    BY DEF Mail
  <2>2. wire \in Seq(WireMessage)
    BY <1>1, <2>1
  <2>3. \A i \in DOMAIN wire : wire[i] \in Mail
    BY <1>1
  <2>4. QED
    BY <2>2, <2>3 DEF Mail, FitsHeader, Sized
<1>2. ASSUME wire \in Seq(WireMessage), Sized(wire)
      PROVE  wire \in Seq(Mail)
  <2>1. \A i \in 1 .. Len(wire) : wire[i] \in Mail
    BY <1>2 DEF Mail, FitsHeader, Sized
  <2>2. QED
    BY <1>2, <2>1
<1>3. QED
  BY <1>1, <1>2

\* Commands that are pushed to a message without payload, or that arrive as
\* one, make a message that fits its header.
LEMMA CommandsFit ==
  ASSUME NEW commands \in Seq(Command), NEW type \in {"DrawCommand", "CanvasPacket"},
         type = "DrawCommand" => Len(commands) = 1
  PROVE  /\ Arrived(type, Bytes(commands)) \in Mail
         /\ Push(NewMessage(type), Bytes(commands)) \in Mail
<1> DEFINE bytes == Bytes(commands)
<1>1. bytes \in Seq(Byte) /\ Len(bytes) = CommandSize * Len(commands) /\ Len(commands) \in Nat
  BY BytesFacts
<1> HIDE DEF bytes
<1>2. Len(bytes) \in Nat /\ Len(bytes) % CommandSize = 0
  BY <1>1 DEF CommandSize
<1>3. ASSUME type = "DrawCommand" PROVE Len(bytes) = CommandSize
  <2>1. Len(commands) = 1
    BY <1>3
  <2>2. QED
    BY <1>1, <2>1 DEF CommandSize
<1>4. [type |-> type, size |-> Len(bytes), payload |-> bytes] \in Mail
  BY <1>1, <1>2, <1>3 DEF Mail, FitsHeader, WireMessage
<1>5. /\ Arrived(type, bytes) = [type |-> type, size |-> Len(bytes), payload |-> bytes]
      /\ Push(NewMessage(type), bytes) = [type |-> type, size |-> Len(bytes), payload |-> bytes]
  <2>1. <<>> \o bytes = bytes /\ Len(<<>>) + Len(bytes) = Len(bytes)
    BY <1>1, <1>2
  <2>2. Push(NewMessage(type), bytes)
          = [NewMessage(type) EXCEPT !.payload = bytes, !.size = Len(bytes)]
    BY <2>1 DEF Push, NewMessage
  <2>3. QED
    BY <2>2 DEF Arrived, NewMessage
<1>6. QED
  BY <1>4, <1>5 DEF bytes

\* What the server and the viewer read from a message that fits its header.
LEMMA MailHasCommands ==
  ASSUME NEW m \in Mail
  PROVE  /\ PopCanvasPacket(m) = Parse(m.payload)
         /\ Parse(m.payload) \in Seq(Command)
         /\ m.type = "DrawCommand" => Len(Parse(m.payload)) = 1
<1>1. /\ m.payload \in Seq(Byte) /\ m.size = Len(m.payload) /\ Len(m.payload) \in Nat
      /\ m.type = "DrawCommand" => Len(m.payload) = CommandSize
  BY DEF Mail, WireMessage, FitsHeader
<1>2. Popped(m, m.size) = m.payload
  <2> DEFINE p == m.payload
             n == Len(p)
  <2>1. p \in Seq(Byte) /\ n \in Nat
    BY <1>1
  <2>2. SubSeq(p, 1, n) = p
    BY <2>1
  <2>3. n - n + 1 = 1 /\ ~(n > n)
    BY <2>1
  <2> HIDE DEF p, n
  <2>4. Popped(m, m.size) = IF n > n THEN [i \in 1 .. n |-> 0] ELSE SubSeq(p, n - n + 1, n)
    BY <1>1, Zenon DEF Popped, p, n
  <2>5. QED
    BY <2>2, <2>3, <2>4 DEF p
<1>3. Parse(m.payload) \in Seq(Command) /\ Len(Parse(m.payload)) = Len(m.payload) \div CommandSize
  BY <1>1, ParseFacts
<1>4. CommandSize \div CommandSize = 1
  BY DEF CommandSize
<1>5. m.type = "DrawCommand" => Len(Parse(m.payload)) = 1
  BY <1>1, <1>3, <1>4, Zenon
<1>6. PopCanvasPacket(m) = Parse(m.payload)
  BY <1>2, Zenon DEF PopCanvasPacket
<1>7. QED
  BY <1>3, <1>5, <1>6, Zenon

\* A draw command that is emptied is like a new one.
LEMMA EmptiedIsNew ==
  ASSUME NEW m \in Mail, m.type = "DrawCommand"
  PROVE  Pop(m, m.size) = NewMessage("DrawCommand")
<1>1. /\ m \in WireMessage /\ m.size = Len(m.payload) /\ Len(m.payload) \in Nat
      /\ m.payload \in Seq(Byte)
  BY DEF Mail, WireMessage, FitsHeader
<1>2. /\ ~(Len(m.payload) > Len(m.payload)) /\ Len(m.payload) - Len(m.payload) = 0
      /\ SubSeq(m.payload, 1, 0) = <<>>
  BY <1>1
<1>3. Pop(m, m.size) = [m EXCEPT !.payload = <<>>, !.size = 0]
  BY <1>1, <1>2 DEF Pop
<1>4. Pop(m, m.size) = [type |-> "DrawCommand", size |-> 0, payload |-> <<>>]
  BY <1>1, <1>3 DEF WireMessage
<1>5. QED
  BY <1>4 DEF NewMessage

\* Filled again, it fits its header.
LEMMA RefilledFits ==
  ASSUME NEW m \in Mail, m.type = "DrawCommand", NEW command \in Command
  PROVE  PushDrawCommand(Pop(m, m.size), command) \in Mail
<1>1. <<command>> \in Seq(Command) /\ Len(<<command>>) = 1
  OBVIOUS
<1>2. QED
  BY <1>1, EmptiedIsNew, CommandsFit DEF PushDrawCommand

(***************************************************************************)
(* The inductive invariant                                                 *)
(***************************************************************************)

\* paint() has a point to paint from its first statement to its last.
PaintFits ==
  /\ mouse \in Points \cup {None}
  /\ painting \in {"none", "line", "dot", "send", "store"}
  /\ painting # "none" => mouse \in Points
  /\ old \in Points \cup {None}
  /\ shown \in Seq([1 .. 5 -> Int])
  /\ raised \in BOOLEAN
  /\ reader \in {"none", "reset"}

WiresFit == toServer \in Seq(Mail) /\ toDrawer \in Seq(Mail) /\ toViewer \in Seq(Mail)

KeptFits ==
  /\ drawCommands \in Seq(Command)
  /\ joined \in BOOLEAN /\ viewer \in Seq(Command)
  /\ events \in 0 .. MaxEvents

IInv == PaintFits /\ WiresFit /\ KeptFits

\* What the invariant is for.
LEMMA IInvGives == IInv => TypeOK /\ HeaderTellsSize
BY MailFacts DEF IInv, PaintFits, WiresFit, KeptFits, TypeOK, HeaderTellsSize

LEMMA InitIInv == Init => IInv
<1> SUFFICES ASSUME Init PROVE IInv
  OBVIOUS
<1>1. <<>> \in Seq([1 .. 5 -> Int]) /\ <<>> \in Seq(Command) /\ 0 \in 0 .. MaxEvents
  BY BoundAssumption
<1>2. PaintFits
  BY <1>1, Zenon DEF Init, PaintFits
<1>3. KeptFits
  BY <1>1, Zenon DEF Init, KeptFits
<1>4. WiresFit
  BY DEF Init, WiresFit
<1>5. QED
  BY <1>2, <1>3, <1>4 DEF IInv

\* A line between points is five numbers.
LEMMA Lines ==
  ASSUME NEW p \in Points, NEW q \in Points
  PROVE  Line(p, q) \in [1 .. 5 -> Int]
<1>1. p \in Int \X Int /\ q \in Int \X Int
  BY PointsAssumption
<1>2. p[1] \in Int /\ p[2] \in Int /\ q[1] \in Int /\ q[2] \in Int
  BY <1>1
<1>3. QED
  BY <1>2 DEF Line, Color

\* A callback of the drawer's counts as an event.
LEMMA EventCounts == KeptFits /\ Event => events' \in 0 .. MaxEvents
BY BoundAssumption DEF KeptFits, Event

LEMMA MotionKeeps == IInv /\ Motion => IInv'
<1> SUFFICES ASSUME IInv, Motion PROVE IInv'
  OBVIOUS
<1>1. PICK p \in Points : mouse' = p
  BY DEF Motion
<1>2. PaintFits'
  BY <1>1 DEF IInv, PaintFits, Motion
<1>3. WiresFit' /\ KeptFits'
  BY EventCounts DEF IInv, WiresFit, KeptFits, Motion, wires, viewVars
<1>4. QED
  BY <1>2, <1>3 DEF IInv

LEMMA CreateLineKeeps == IInv /\ CreateLine => IInv'
<1> SUFFICES ASSUME IInv, CreateLine PROVE IInv'
  OBVIOUS
<1>1. mouse \in Points /\ PaintFits
  BY DEF IInv, PaintFits, CreateLine
<1>2. CASE old = None
  BY <1>1, <1>2 DEF IInv, PaintFits, WiresFit, KeptFits, CreateLine, Raise, wires, viewVars
<1>3. CASE old # None
  <2>1. old \in Points
    BY <1>1, <1>3 DEF PaintFits
  <2>2. Append(shown, Line(old, mouse)) \in Seq([1 .. 5 -> Int])
    BY <1>1, <2>1, Lines DEF PaintFits
  <2>3. QED
    BY <1>1, <1>3, <2>2 DEF IInv, PaintFits, WiresFit, KeptFits, CreateLine, wires, viewVars
<1>4. QED
  BY <1>2, <1>3

\* A command that can be packed is on the wire as a message that fits; one
\* that cannot is not.
LEMMA SendDrawingKeeps == IInv /\ SendDrawing => IInv'
<1> SUFFICES ASSUME IInv, SendDrawing PROVE IInv'
  OBVIOUS
<1>1. mouse \in Points /\ PaintFits /\ toServer \in Seq(Mail)
  BY DEF IInv, PaintFits, WiresFit, SendDrawing
<1>2. ASSUME NEW p \in Points, SendCommand(Line(p, mouse))
      PROVE  /\ toServer' \in Seq(Mail)
             /\ raised' \in BOOLEAN /\ painting' \in {"none", "store"}
  <2> DEFINE c == Line(p, mouse)
  <2>1. c \in [1 .. 5 -> Int]
    BY <1>1, <1>2, Lines
  <2>2. SendCommand(c)
    BY <1>2
  <2> HIDE DEF c
  <2>3. CASE Packable(c)
    <3>1. c \in Command
      BY <2>1, <2>3 DEF Packable, Command
    <3>2. <<c>> \in Seq(Command) /\ Len(<<c>>) = 1
      BY <3>1
    <3>3. Arrived("DrawCommand", Bytes(<<c>>)) \in Mail
      BY <3>2, CommandsFit
    <3>4. /\ toServer' = Append(toServer, Arrived("DrawCommand", Bytes(<<c>>)))
          /\ painting' = "store" /\ raised' = raised
      BY <2>2, <2>3, Zenon DEF SendCommand
    <3>5. toServer' \in Seq(Mail)
      BY <1>1, <3>3, <3>4
    <3>6. QED
      BY <1>1, <3>4, <3>5 DEF PaintFits
  <2>4. CASE ~Packable(c)
    BY <1>1, <2>2, <2>4 DEF SendCommand, Raise
  <2>5. QED
    BY <2>3, <2>4
<1>3. /\ toServer' \in Seq(Mail)
      /\ raised' \in BOOLEAN /\ painting' \in {"none", "store"}
  <2>1. CASE old # None /\ SendCommand(Line(old, mouse))
    BY <1>1, <1>2, <2>1 DEF PaintFits
  <2>2. CASE Raise /\ UNCHANGED toServer
    BY <1>1, <2>2 DEF Raise
  <2>3. CASE SendCommand(Line(mouse, mouse))
    BY <1>1, <1>2, <2>3
  <2>4. QED
    BY <2>1, <2>2, <2>3 DEF SendDrawing
<1>4. UNCHANGED <<mouse, old, shown, reader, toDrawer, toViewer, drawCommands, viewVars, events>>
  BY DEF SendDrawing
<1>5. PaintFits'
  BY <1>1, <1>3, <1>4 DEF PaintFits
<1>6. WiresFit' /\ KeptFits'
  BY <1>3, <1>4 DEF IInv, WiresFit, KeptFits, viewVars
<1>7. QED
  BY <1>5, <1>6 DEF IInv

\* The end of paint(), a release, and the reader's reset of the old point.
LEMMA OldPointKeeps == IInv /\ (Store \/ Release \/ Reset) => IInv'
<1> SUFFICES ASSUME IInv, Store \/ Release \/ Reset PROVE IInv'
  OBVIOUS
<1>1. PaintFits'
  BY DEF IInv, PaintFits, Store, Release, Reset
<1>2. WiresFit' /\ KeptFits'
  BY EventCounts DEF IInv, WiresFit, KeptFits, Store, Release, Reset, wires, viewVars
<1>3. QED
  BY <1>1, <1>2 DEF IInv

\* A clear is a canvas without commands.
LEMMA HandleOnClearKeeps == IInv /\ HandleOnClear => IInv'
<1> SUFFICES ASSUME IInv, HandleOnClear PROVE IInv'
  OBVIOUS
<1>1. Arrived("CanvasPacket", <<>>) \in Mail
  BY DEF Arrived, Mail, FitsHeader, WireMessage, CommandSize
<1>2. PaintFits'
  BY DEF IInv, PaintFits, HandleOnClear
<1>3. WiresFit' /\ KeptFits'
  BY <1>1, EventCounts DEF IInv, WiresFit, KeptFits, HandleOnClear, viewVars
<1>4. QED
  BY <1>2, <1>3 DEF IInv

\* The head of a wire is a message that fits, and so are the others.
LEMMA MailTail ==
  ASSUME NEW wire \in Seq(Mail), wire # <<>>
  PROVE  Head(wire) \in Mail /\ Tail(wire) \in Seq(Mail)
OBVIOUS

LEMMA DeleteKeeps == IInv /\ Delete => IInv'
<1> SUFFICES ASSUME IInv, Delete PROVE IInv'
  OBVIOUS
<1>1. Head(toDrawer) \in Mail /\ Tail(toDrawer) \in Seq(Mail)
  BY MailTail DEF IInv, WiresFit, Delete
<1>2. Parse(Head(toDrawer).payload) \in Seq(Command)
  BY <1>1, MailHasCommands
<1>3. Command \subseteq [1 .. 5 -> Int]
  BY DEF Command, Word16
<1>4. shown' \in Seq([1 .. 5 -> Int])
  BY <1>2, <1>3 DEF Delete
<1>5. PaintFits'
  BY <1>4 DEF IInv, PaintFits, Delete
<1>6. WiresFit' /\ KeptFits'
  BY <1>1 DEF IInv, WiresFit, KeptFits, Delete, viewVars
<1>7. QED
  BY <1>5, <1>6 DEF IInv

\* The canvas that the server sends fits its header.
LEMMA CanvasFits ==
  ASSUME drawCommands' \in Seq(Command)
  PROVE  CanvasMessage \in Mail
BY CommandsFit DEF CanvasMessage, PushCanvasPacket

\* The message that is passed on is the one that came, emptied and refilled.
LEMMA HandleDrawCommandKeeps == IInv /\ HandleDrawCommand => IInv'
<1> SUFFICES ASSUME IInv, HandleDrawCommand PROVE IInv'
  OBVIOUS
<1> DEFINE m == Head(toServer)
           commands == PopCanvasPacket(m)
           back == PushDrawCommand(Pop(m, m.size), commands[1])
<1>1. m \in Mail /\ m.type = "DrawCommand" /\ Tail(toServer) \in Seq(Mail)
  BY MailTail DEF IInv, WiresFit, HandleDrawCommand
<1>2. commands \in Seq(Command) /\ Len(commands) = 1
  BY <1>1, MailHasCommands
<1>3. commands[1] \in Command
  BY <1>2
<1>4. back \in Mail
  BY <1>1, <1>3, RefilledFits
<1>5. /\ toServer' = Tail(toServer)
      /\ drawCommands' = drawCommands \o commands
      /\ toViewer' = ToViewer(back)
      /\ UNCHANGED <<paintVars, reader, toDrawer, viewVars, events>>
  BY <1>2 DEF HandleDrawCommand
<1> HIDE DEF m, commands, back
<1>6. toViewer' \in Seq(Mail)
  BY <1>4, <1>5 DEF IInv, WiresFit, ToViewer
<1>7. drawCommands' \in Seq(Command)
  BY <1>2, <1>5 DEF IInv, KeptFits
<1>8. PaintFits'
  BY <1>5 DEF IInv, PaintFits, paintVars
<1>9. WiresFit' /\ KeptFits'
  BY <1>1, <1>5, <1>6, <1>7 DEF IInv, WiresFit, KeptFits, viewVars
<1>10. QED
  BY <1>8, <1>9 DEF IInv

LEMMA HandleCanvasPacketKeeps == IInv /\ HandleCanvasPacket => IInv'
<1> SUFFICES ASSUME IInv, HandleCanvasPacket PROVE IInv'
  OBVIOUS
<1>1. drawCommands' = <<>> /\ drawCommands' \in Seq(Command)
  BY DEF HandleCanvasPacket
<1>2. CanvasMessage \in Mail /\ Tail(toServer) \in Seq(Mail)
  BY <1>1, CanvasFits, MailTail DEF IInv, WiresFit, HandleCanvasPacket
<1>3. WiresFit'
  BY <1>2 DEF IInv, WiresFit, HandleCanvasPacket, ToViewer
<1>4. PaintFits' /\ KeptFits'
  BY <1>1 DEF IInv, PaintFits, KeptFits, HandleCanvasPacket, paintVars, viewVars
<1>5. QED
  BY <1>3, <1>4 DEF IInv

LEMMA JoinKeeps == IInv /\ Join => IInv'
<1> SUFFICES ASSUME IInv, Join PROVE IInv'
  OBVIOUS
<1>1. CanvasMessage \in Mail
  BY CanvasFits DEF IInv, KeptFits, Join
<1>2. WiresFit'
  BY <1>1 DEF IInv, WiresFit, Join
<1>3. PaintFits' /\ KeptFits'
  BY DEF IInv, PaintFits, KeptFits, Join, paintVars
<1>4. QED
  BY <1>2, <1>3 DEF IInv

\* A draw command is one command, so that there is one to append.
LEMMA ViewKeeps == IInv /\ View => IInv'
<1> SUFFICES ASSUME IInv, View PROVE IInv'
  OBVIOUS
<1> DEFINE m == Head(toViewer)
           commands == Parse(m.payload)
<1>1. m \in Mail /\ Tail(toViewer) \in Seq(Mail)
  BY MailTail DEF IInv, WiresFit, View
<1>2. commands \in Seq(Command) /\ (m.type = "DrawCommand" => Len(commands) = 1)
  BY <1>1, MailHasCommands
<1>3. m.type \in {"DrawCommand", "CanvasPacket"}
  BY <1>1 DEF Mail, WireMessage
<1>4. viewer' = Paint(viewer, m) /\ viewer \in Seq(Command)
  BY DEF IInv, KeptFits, View
<1>5. viewer' \in Seq(Command)
  <2>1. CASE m.type = "CanvasPacket"
    BY <1>2, <1>4, <2>1 DEF Paint
  <2>2. CASE m.type = "DrawCommand"
    <3>1. commands[1] \in Command
      BY <1>2, <2>2
    <3>2. viewer' = Append(viewer, commands[1])
      BY <1>4, <2>2 DEF Paint
    <3>3. QED
      BY <1>4, <3>1, <3>2
  <2>3. QED
    BY <1>3, <2>1, <2>2
<1>6. WiresFit'
  BY <1>1 DEF IInv, WiresFit, View
<1>7. PaintFits' /\ KeptFits'
  BY <1>5 DEF IInv, PaintFits, KeptFits, View, paintVars
<1>8. QED
  BY <1>6, <1>7 DEF IInv

LEMMA NextKeepsIInv == IInv /\ [Next]_vars => IInv'
<1>1. IInv /\ UNCHANGED vars => IInv'
  BY DEF IInv, PaintFits, WiresFit, KeptFits, vars, paintVars, wires, viewVars
<1>2. QED
  BY <1>1, MotionKeeps, CreateLineKeeps, SendDrawingKeeps, OldPointKeeps,
     HandleOnClearKeeps, DeleteKeeps, HandleDrawCommandKeeps, HandleCanvasPacketKeeps,
     JoinKeeps, ViewKeeps
  DEF Next

\* The inductive invariant: every wire has messages that fit their headers,
\* and paint() has its point.
THEOREM Invariance == Spec => []IInv
BY InitIInv, NextKeepsIInv, PTL DEF Spec

\* Every variable keeps its type: whatever the mouse does, only commands of
\* 16-bit numbers get to the server and to the viewer.
THEOREM TypeCorrect == Spec => []TypeOK
BY Invariance, IInvGives, PTL

\* Every header tells the size of its payload, which is whole commands: when
\* Pop empties a message and PushDrawCommand fills it again, too.
THEOREM HeadersTellSizes == Spec => []HeaderTellsSize
BY Invariance, IInvGives, PTL

(***************************************************************************)
(* Whole queues of messages                                                *)
(***************************************************************************)

\* One message of Paint, as a function.
PaintStep == [p \in Seq(Command) \X Mail |-> Paint(p[1], p[2])]

\* A canvas that gets a message stays one.
LEMMA PaintType ==
  ASSUME NEW canvas \in Seq(Command), NEW m \in Mail
  PROVE  Paint(canvas, m) \in Seq(Command)
<1> DEFINE commands == Parse(m.payload)
<1>1. commands \in Seq(Command) /\ (m.type = "DrawCommand" => Len(commands) = 1)
  BY MailHasCommands
<1>2. CASE m.type = "CanvasPacket"
  BY <1>1, <1>2 DEF Paint
<1>3. CASE m.type = "DrawCommand"
  <2>1. commands[1] \in Command
    BY <1>1, <1>3
  <2>2. Paint(canvas, m) = Append(canvas, commands[1])
    BY <1>3 DEF Paint
  <2>3. QED
    BY <2>1, <2>2
<1>4. QED
  BY <1>2, <1>3 DEF Mail, WireMessage

\* The same of the function.
LEMMA PaintStepType == PaintStep \in [Seq(Command) \X Mail -> Seq(Command)]
BY PaintType DEF PaintStep

\* The fold of Settled is a run.
LEMMA SettledIsReached ==
  ASSUME NEW canvas \in Seq(Command), NEW wire \in Seq(Mail)
  PROVE  Settled(canvas, wire) = Reached(PaintStep, canvas, wire)
<1> DEFINE Solves(it) ==
             it = [s \in SUBSET (1 .. Len(wire)) |->
                     IF s = {} THEN canvas
                     ELSE Paint(it[s \ {Max(s)}], wire[Max(s)])]
           it0 == CHOOSE it : Solves(it)
<1>0. FoldType(Seq(Command), Mail, PaintStep, canvas, wire)
  BY PaintStepType DEF FoldType
<1>1. DOMAIN wire = 1 .. Len(wire) /\ Len(wire) \in Nat
  OBVIOUS
<1>2. Settled(canvas, wire) = it0[1 .. Len(wire)]
  BY <1>1, Zenon DEF Settled, FoldLeft, MapThenFoldSet
<1>3. \E it : Solves(it)
  <2>1. PICK it : SolvesFold(it, Seq(Command), PaintStep, canvas, wire)
    BY <1>0, FoldSolvable, Zenon
  <2>2. /\ it \in [SUBSET (1 .. Len(wire)) -> Seq(Command)]
        /\ \A s \in SUBSET (1 .. Len(wire)) :
             it[s] = IF s = {} THEN canvas ELSE PaintStep[<<it[s \ {Max(s)}], wire[Max(s)]>>]
    BY <2>1 DEF SolvesFold
  <2>3. ASSUME NEW s \in SUBSET (1 .. Len(wire)), s # {}
        PROVE  it[s] = Paint(it[s \ {Max(s)}], wire[Max(s)])
    <3>1. Max(s) \in 1 .. Len(wire) /\ s \ {Max(s)} \in SUBSET (1 .. Len(wire))
      BY <1>1, <2>3, MaxOfSome
    <3>2. wire[Max(s)] \in Mail
      BY <3>1
    <3>3. it[s \ {Max(s)}] \in Seq(Command)
      BY <2>2, <3>1
    <3>4. it[s] = PaintStep[<<it[s \ {Max(s)}], wire[Max(s)]>>]
      BY <2>2, <2>3
    <3>5. QED
      BY <3>2, <3>3, <3>4 DEF PaintStep
  <2>4. Solves(it)
    BY <2>2, <2>3
  <2> HIDE DEF Solves
  <2>5. QED
    BY <2>4
<1>4. Solves(it0)
  <2> HIDE DEF Solves
  <2>1. QED
    BY <1>3, Zenon
<1> HIDE DEF it0
<1>5. it0[{}] = canvas
  <2>1. {} \in SUBSET (1 .. Len(wire))
    OBVIOUS
  <2>2. QED
    BY <1>4, <2>1
<1>6. ASSUME NEW k \in 1 .. Len(wire), it0[1 .. k - 1] \in Seq(Command)
      PROVE  it0[1 .. k] = PaintStep[<<it0[1 .. k - 1], wire[k]>>]
  <2>1. k \in Nat \ {0} /\ k \in 1 .. k /\ wire[k] \in Mail
    BY <1>1
  <2>2. 1 .. k \in SUBSET (1 .. Len(wire))
    BY <1>1, <2>1
  <2>3. it0[1 .. k] = Paint(it0[(1 .. k) \ {Max(1 .. k)}], wire[Max(1 .. k)])
    BY <1>4, <2>1, <2>2
  <2>4. it0[1 .. k] = Paint(it0[1 .. k - 1], wire[k])
    BY <2>1, <2>3, MaxUpto, BeforeMax
  <2>5. QED
    BY <1>6, <2>1, <2>4 DEF PaintStep
<1>7. PassesThrough(it0, Seq(Command), PaintStep, canvas, wire)
  BY <1>5, <1>6, Zenon DEF PassesThrough
<1>8. it0[1 .. Len(wire)] = Reached(PaintStep, canvas, wire)
  <2>1. ASSUME NEW it, PassesThrough(it, Seq(Command), PaintStep, canvas, wire)
        PROVE  it[1 .. Len(wire)] = Reached(PaintStep, canvas, wire)
    BY <1>0, <2>1, SolutionReaches
  <2>2. QED
    BY <1>7, <2>1
<1>9. QED
  BY <1>2, <1>8

\* What the fold makes of no message, of one more, and of the first.
LEMMA SettledFacts ==
  ASSUME NEW canvas \in Seq(Command), NEW wire \in Seq(Mail), NEW m \in Mail
  PROVE  /\ Settled(canvas, wire) \in Seq(Command)
         /\ Settled(canvas, <<>>) = canvas
         /\ Settled(canvas, Append(wire, m)) = Paint(Settled(canvas, wire), m)
         /\ wire # <<>> =>
              Settled(canvas, wire) = Settled(Paint(canvas, Head(wire)), Tail(wire))
<1>1. Settled(canvas, wire) = Reached(PaintStep, canvas, wire)
  BY SettledIsReached
<1>2. Settled(canvas, wire) \in Seq(Command)
  <2>1. \A a \in Seq(Command), i \in 1 .. Len(wire) : PaintStep[<<a, wire[i]>>] \in Seq(Command)
    BY PaintStepType
  <2>2. QED
    BY <1>1, <2>1, ReachedStays
<1>3. Settled(canvas, <<>>) = canvas
  <2>1. <<>> \in Seq(Mail)
    OBVIOUS
  <2>2. QED
    BY <2>1, SettledIsReached, ReachedNothing
<1>4. Settled(canvas, Append(wire, m)) = Paint(Settled(canvas, wire), m)
  <2>1. Append(wire, m) \in Seq(Mail)
    OBVIOUS
  <2>2. Settled(canvas, Append(wire, m)) = After(PaintStep, Reached(PaintStep, canvas, wire), m)
    <3>1. Reached(PaintStep, canvas, Append(wire, m))
            = After(PaintStep, Reached(PaintStep, canvas, wire), m)
      BY ReachedMore
    <3>2. QED
      BY <2>1, <3>1, SettledIsReached, Zenon
  <2>3. QED
    BY <1>1, <1>2, <2>2 DEF PaintStep, After
<1>5. ASSUME wire # <<>>
      PROVE  Settled(canvas, wire) = Settled(Paint(canvas, Head(wire)), Tail(wire))
  <2>1. Head(wire) \in Mail /\ Tail(wire) \in Seq(Mail)
    BY <1>5, MailTail
  <2>2. After(PaintStep, canvas, Head(wire)) = Paint(canvas, Head(wire))
    BY <2>1 DEF PaintStep, After
  <2>3. Paint(canvas, Head(wire)) \in Seq(Command)
    BY <2>1, PaintType
  <2>4. Settled(Paint(canvas, Head(wire)), Tail(wire))
          = Reached(PaintStep, Paint(canvas, Head(wire)), Tail(wire))
    BY <2>1, <2>3, SettledIsReached
  <2>5. Reached(PaintStep, canvas, wire)
          = Reached(PaintStep, After(PaintStep, canvas, Head(wire)), Tail(wire))
    BY <1>5, ReachedTail
  <2>6. QED
    BY <1>1, <2>2, <2>4, <2>5
<1>6. QED
  BY <1>2, <1>3, <1>4, <1>5

\* A command that comes as a message is appended; a canvas replaces.
LEMMA Painted ==
  ASSUME NEW canvas \in Seq(Command), NEW commands \in Seq(Command)
  PROVE  /\ Paint(canvas, Arrived("CanvasPacket", Bytes(commands))) = commands
         /\ Paint(canvas, Push(NewMessage("CanvasPacket"), Bytes(commands))) = commands
         /\ Len(commands) = 1 =>
              /\ Paint(canvas, Arrived("DrawCommand", Bytes(commands)))
                   = Append(canvas, commands[1])
              /\ Paint(canvas, Push(NewMessage("DrawCommand"), Bytes(commands)))
                   = Append(canvas, commands[1])
<1>1. Parse(Bytes(commands)) = commands
  BY CommandsSurvive
<1>2. Bytes(commands) \in Seq(Byte)
  BY BytesFacts
<1> DEFINE bytes == Bytes(commands)
<1> HIDE DEF bytes
<1>3. ASSUME NEW type
      PROVE  /\ Arrived(type, bytes).type = type
             /\ Arrived(type, bytes).payload = bytes
             /\ Push(NewMessage(type), bytes).type = type
             /\ Push(NewMessage(type), bytes).payload = bytes
  <2>1. <<>> \o bytes = bytes
    BY <1>2 DEF bytes
  <2>2. QED
    BY <2>1 DEF Arrived, Push, NewMessage
<1>4. QED
  BY <1>1, <1>3 DEF Paint, bytes

(***************************************************************************)
(* The canvases                                                            *)
(***************************************************************************)

\* What the drawer sends, and what comes back to it: the canvas of a clear
\* has no commands.
FromDrawer == {m \in Mail : m.type = "CanvasPacket" => m.payload = <<>>}
\* What the server tells the drawer.
Cleared == {m \in Mail : m.type = "CanvasPacket" /\ m.payload = <<>>}

\* A canvas packet is only ever sent empty.
ClearsAreEmpty == toServer \in Seq(FromDrawer) /\ toDrawer \in Seq(Cleared)

\* Nothing is sent to a viewer that has not joined.
NobodyWatches == ~joined => toViewer = <<>>

\* The line that is about to be sent is the last on the canvas, unless the
\* reader has reset the point it starts from.
LineIsShown ==
  painting = "send" /\ old # None =>
    shown # <<>> /\ shown[Len(shown)] = Line(old, mouse)

\* The command that was sent last ends where the mouse is.
EndIsKept ==
  painting = "store" => Kept # <<>> /\ SubSeq(Last(Kept), 3, 4) = mouse

\* The stroke under the mouse, and what the server will keep of it.
StrokeInv == LineIsShown /\ ShownIsKept /\ EndIsKept /\ StrokesConnect

\* The inductive invariant of the canvases.
CanvasInv == ClearsAreEmpty /\ NobodyWatches /\ ViewerCatchesUp /\ StrokeInv

\* No commands have no bytes.
LEMMA NoBytes == Bytes(<<>>) = <<>> /\ Parse(<<>>) = <<>>
<1>1. <<>> \in Seq(Command) /\ Len(<<>>) = 0 /\ CommandSize * 0 = 0
  BY DEF CommandSize
<1>2. Bytes(<<>>) \in Seq(Byte) /\ Len(Bytes(<<>>)) = 0
  BY <1>1, BytesFacts
<1>3. Bytes(<<>>) = <<>>
  BY <1>2
<1>4. Parse(Bytes(<<>>)) = <<>>
  BY <1>1, CommandsSurvive
<1>5. QED
  BY <1>3, <1>4

\* What a clear sends, and what the server answers, has no commands.
LEMMA ClearIsEmpty ==
  /\ Arrived("CanvasPacket", <<>>) \in FromDrawer
  /\ drawCommands' = <<>> => CanvasMessage \in Cleared
<1>1. <<>> \in Seq(Command)
  OBVIOUS
<1>2. /\ Arrived("CanvasPacket", <<>>) \in Mail
      /\ Push(NewMessage("CanvasPacket"), <<>>) \in Mail
  BY <1>1, NoBytes, CommandsFit
<1>3. Push(NewMessage("CanvasPacket"), <<>>).payload = <<>>
  BY DEF Push, NewMessage
<1>4. Push(NewMessage("CanvasPacket"), <<>>).type = "CanvasPacket"
  BY DEF Push, NewMessage
<1>5. Arrived("CanvasPacket", <<>>).payload = <<>>
  BY DEF Arrived
<1>6. drawCommands' = <<>> => CanvasMessage = Push(NewMessage("CanvasPacket"), <<>>)
  BY NoBytes DEF CanvasMessage, PushCanvasPacket
<1>7. QED
  BY <1>2, <1>3, <1>4, <1>5, <1>6 DEF FromDrawer, Cleared

\* A sent command is a draw command of one command.
LEMMA SentCommand ==
  ASSUME NEW command \in [1 .. 5 -> Int], Packable(command)
  PROVE  /\ command \in Command
         /\ Arrived("DrawCommand", Bytes(<<command>>)) \in FromDrawer
<1>1. command \in Command
  BY DEF Packable, Command
<1>2. <<command>> \in Seq(Command) /\ Len(<<command>>) = 1
  BY <1>1
<1>3. Arrived("DrawCommand", Bytes(<<command>>)) \in Mail
  BY <1>2, CommandsFit
<1>4. Arrived("DrawCommand", Bytes(<<command>>)).type = "DrawCommand"
  BY DEF Arrived
<1>5. QED
  BY <1>1, <1>3, <1>4 DEF FromDrawer

\* What SendDrawing sends, or that it raises.
LEMMA WhatIsSent ==
  ASSUME IInv, SendDrawing
  PROVE  \/ raised' = TRUE /\ painting' = "none" /\ UNCHANGED toServer
         \/ \E p \in Points :
              /\ painting = "send" => p = old /\ old # None
              /\ Packable(Line(p, mouse))
              /\ toServer' = Append(toServer, Arrived("DrawCommand", Bytes(<<Line(p, mouse)>>)))
              /\ painting' = "store" /\ raised' = raised
              /\ mouse \in Points
<1>1. mouse \in Points /\ old \in Points \cup {None}
  BY DEF IInv, PaintFits, SendDrawing
<1>2. CASE painting = "send" /\ old # None /\ SendCommand(Line(old, mouse))
  BY <1>1, <1>2, Zenon DEF SendCommand, Raise
<1>3. CASE painting = "dot" /\ SendCommand(Line(mouse, mouse))
  <2>1. painting # "send"
    BY <1>3
  <2>2. QED
    BY <1>1, <1>3, <2>1, Zenon DEF SendCommand, Raise
<1>4. CASE Raise /\ UNCHANGED toServer
  BY <1>4 DEF Raise
<1>5. QED
  BY <1>2, <1>3, <1>4 DEF SendDrawing

\* No step sends another canvas to the drawer.
LEMMA ClearsStayEmpty == IInv /\ ClearsAreEmpty /\ [Next]_vars => ClearsAreEmpty'
<1> SUFFICES ASSUME IInv, ClearsAreEmpty, [Next]_vars PROVE ClearsAreEmpty'
  OBVIOUS
<1> USE DEF ClearsAreEmpty
<1>1. CASE SendDrawing
  <2>1. UNCHANGED toDrawer
    BY <1>1 DEF SendDrawing
  <2>2. CASE UNCHANGED toServer
    BY <2>1, <2>2
  <2>3. ASSUME NEW p \in Points, mouse \in Points, Packable(Line(p, mouse)),
               toServer' = Append(toServer, Arrived("DrawCommand", Bytes(<<Line(p, mouse)>>)))
        PROVE  ClearsAreEmpty'
    <3>1. Arrived("DrawCommand", Bytes(<<Line(p, mouse)>>)) \in FromDrawer
      BY <2>3, Lines, SentCommand
    <3>2. QED
      BY <2>1, <2>3, <3>1
  <2>4. QED
    BY <1>1, <2>2, <2>3, WhatIsSent
<1>2. CASE HandleOnClear
  BY <1>2, ClearIsEmpty DEF HandleOnClear
<1>3. CASE HandleDrawCommand
  BY <1>3 DEF HandleDrawCommand
<1>4. CASE HandleCanvasPacket
  BY <1>4, ClearIsEmpty DEF HandleCanvasPacket
<1>5. CASE Delete
  BY <1>5 DEF Delete
<1>6. CASE Motion \/ CreateLine \/ Store \/ Release \/ Reset \/ Join \/ View \/ UNCHANGED vars
  BY <1>6 DEF Motion, CreateLine, Store, Release, Reset, Join, View, vars, wires
<1>7. QED
  BY <1>1, <1>2, <1>3, <1>4, <1>5, <1>6 DEF Next

(***************************************************************************)
(* The viewer                                                              *)
(***************************************************************************)

\* What the server passes on is what it keeps.
LEMMA PassedOn ==
  ASSUME IInv, HandleDrawCommand
  PROVE  \E command \in Command, m \in Mail :
           /\ drawCommands' = Append(drawCommands, command)
           /\ toViewer' = ToViewer(m)
           /\ \A canvas \in Seq(Command) : Paint(canvas, m) = Append(canvas, command)
           /\ \A canvas \in Seq(Command) :
                Paint(canvas, Head(toServer)) = Append(canvas, command)
<1> DEFINE m == Head(toServer)
           commands == PopCanvasPacket(m)
           back == PushDrawCommand(Pop(m, m.size), commands[1])
<1>1. m \in Mail /\ m.type = "DrawCommand"
  BY MailTail DEF IInv, WiresFit, HandleDrawCommand
<1>2. commands \in Seq(Command) /\ Len(commands) = 1 /\ commands = Parse(m.payload)
  BY <1>1, MailHasCommands
<1>3. commands[1] \in Command /\ commands = <<commands[1]>>
  BY <1>2
<1>4. back \in Mail
  BY <1>1, <1>3, RefilledFits
<1>5. /\ drawCommands' = drawCommands \o commands
      /\ toViewer' = ToViewer(back)
  BY <1>2 DEF HandleDrawCommand
<1>6. back = Push(NewMessage("DrawCommand"), Bytes(<<commands[1]>>))
  BY <1>1, EmptiedIsNew DEF PushDrawCommand
<1>7. \A canvas \in Seq(Command) : Paint(canvas, back) = Append(canvas, commands[1])
  <2>1. <<commands[1]>> \in Seq(Command) /\ Len(<<commands[1]>>) = 1 /\ <<commands[1]>>[1] = commands[1]
    BY <1>3
  <2> HIDE DEF commands, back
  <2>2. QED
    BY <1>6, <2>1, Painted
<1>8. \A canvas \in Seq(Command) : Paint(canvas, m) = Append(canvas, commands[1])
  BY <1>1, <1>2 DEF Paint
<1> HIDE DEF m, commands, back
<1>9. drawCommands' = Append(drawCommands, commands[1])
  <2>1. ASSUME NEW kept \in Seq(Command), NEW c \in Command
        PROVE  kept \o <<c>> = Append(kept, c)
    OBVIOUS
  <2>2. QED
    BY <1>3, <1>5, <2>1 DEF IInv, KeptFits
<1>10. QED
  BY <1>3, <1>4, <1>5, <1>7, <1>8, <1>9 DEF m

\* The canvas the server sends shows what it keeps.
LEMMA CanvasShows ==
  ASSUME drawCommands' \in Seq(Command), NEW canvas \in Seq(Command)
  PROVE  Paint(canvas, CanvasMessage) = drawCommands'
BY Painted DEF CanvasMessage, PushCanvasPacket

\* A message more for the viewer.
LEMMA ViewerFollows ==
  ASSUME IInv, NobodyWatches, ViewerCatchesUp, NEW m \in Mail, NEW kept,
         \A canvas \in Seq(Command) : canvas = drawCommands => Paint(canvas, m) = kept,
         UNCHANGED viewVars, toViewer' = ToViewer(m), drawCommands' = kept
  PROVE  NobodyWatches' /\ ViewerCatchesUp'
<1>1. viewer \in Seq(Command) /\ toViewer \in Seq(Mail) /\ drawCommands \in Seq(Command)
  BY DEF IInv, KeptFits, WiresFit
<1>2. CASE ~joined
  BY <1>2 DEF NobodyWatches, ViewerCatchesUp, ToViewer, viewVars
<1>3. CASE joined
  <2>1. toViewer' = Append(toViewer, m) /\ joined' /\ viewer' = viewer
    BY <1>3 DEF ToViewer, viewVars
  <2>2. Settled(viewer, Append(toViewer, m)) = Paint(Settled(viewer, toViewer), m)
    BY <1>1, SettledFacts
  <2>3. Settled(viewer, toViewer) = drawCommands
    BY <1>3 DEF ViewerCatchesUp
  <2>4. Settled(viewer', toViewer') = drawCommands'
    BY <1>1, <2>1, <2>2, <2>3
  <2>5. QED
    BY <2>1, <2>4 DEF NobodyWatches, ViewerCatchesUp
<1>4. QED
  BY <1>2, <1>3

\* No step leaves the viewer behind for good.
LEMMA ViewerStaysUp ==
  IInv /\ IInv' /\ NobodyWatches /\ ViewerCatchesUp /\ [Next]_vars
    => NobodyWatches' /\ ViewerCatchesUp'
<1> SUFFICES ASSUME IInv, IInv', NobodyWatches, ViewerCatchesUp, [Next]_vars
             PROVE  NobodyWatches' /\ ViewerCatchesUp'
  OBVIOUS
<1>1. /\ viewer \in Seq(Command) /\ toViewer \in Seq(Mail)
      /\ drawCommands \in Seq(Command) /\ drawCommands' \in Seq(Command)
  BY DEF IInv, KeptFits, WiresFit
<1>2. CASE HandleDrawCommand
  <2>1. PICK command \in Command, m \in Mail :
          /\ drawCommands' = Append(drawCommands, command)
          /\ toViewer' = ToViewer(m)
          /\ \A canvas \in Seq(Command) : Paint(canvas, m) = Append(canvas, command)
    BY <1>2, PassedOn
  <2>2. UNCHANGED viewVars
    BY <1>2 DEF HandleDrawCommand
  <2>3. QED
    BY <2>1, <2>2, ViewerFollows
<1>3. CASE HandleCanvasPacket
  <2>1. CanvasMessage \in Mail
    BY <1>1, CanvasFits
  <2>2. \A canvas \in Seq(Command) : Paint(canvas, CanvasMessage) = drawCommands'
    BY <1>1, CanvasShows
  <2>3. UNCHANGED viewVars /\ toViewer' = ToViewer(CanvasMessage)
    BY <1>3 DEF HandleCanvasPacket
  <2>4. QED
    BY <2>1, <2>2, <2>3, ViewerFollows
<1>4. CASE Join
  <2>1. /\ toViewer = <<>> /\ joined' /\ UNCHANGED <<drawCommands, viewer>>
        /\ toViewer' = Append(toViewer, CanvasMessage)
    BY <1>4 DEF Join, NobodyWatches
  <2>2. CanvasMessage \in Mail
    BY <1>1, CanvasFits
  <2>3. Settled(viewer, toViewer) = viewer
    BY <1>1, <2>1, <2>2, SettledFacts
  <2>4. Settled(viewer, Append(toViewer, CanvasMessage)) = Paint(viewer, CanvasMessage)
    BY <1>1, <2>2, <2>3, SettledFacts
  <2>5. Paint(viewer, CanvasMessage) = drawCommands'
    BY <1>1, CanvasShows
  <2>6. QED
    BY <2>1, <2>4, <2>5 DEF NobodyWatches, ViewerCatchesUp
<1>5. CASE View
  <2>1. /\ toViewer # <<>> /\ viewer' = Paint(viewer, Head(toViewer))
        /\ toViewer' = Tail(toViewer) /\ UNCHANGED <<drawCommands, joined>>
    BY <1>5 DEF View
  <2>2. Head(toViewer) \in Mail
    BY <1>1, <2>1, MailTail
  <2>3. Settled(viewer', toViewer') = Settled(viewer, toViewer)
    BY <1>1, <2>1, <2>2, SettledFacts
  <2>4. QED
    BY <2>1, <2>3 DEF NobodyWatches, ViewerCatchesUp
<1>6. CASE UNCHANGED <<toViewer, viewVars, drawCommands>>
  BY <1>6 DEF NobodyWatches, ViewerCatchesUp, viewVars
<1>7. CASE Motion \/ CreateLine \/ SendDrawing \/ Store \/ Release \/ HandleOnClear
           \/ Delete \/ Reset \/ UNCHANGED vars
  BY <1>6, <1>7 DEF Motion, CreateLine, SendDrawing, Store, Release, HandleOnClear, Delete,
     Reset, vars, wires, viewVars
<1>8. QED
  BY <1>2, <1>3, <1>4, <1>5, <1>7 DEF Next

(***************************************************************************)
(* The drawer                                                              *)
(***************************************************************************)

\* The server keeps what was on its way to it.
LEMMA ServerKeepsKept ==
  ASSUME IInv, ClearsAreEmpty, HandleDrawCommand \/ HandleCanvasPacket
  PROVE  Kept' = Kept
<1> DEFINE m == Head(toServer)
<1>1. /\ drawCommands \in Seq(Command) /\ toServer \in Seq(Mail) /\ toServer # <<>>
      /\ toServer \in Seq(FromDrawer) /\ toServer' = Tail(toServer)
  BY DEF IInv, KeptFits, WiresFit, ClearsAreEmpty, HandleDrawCommand, HandleCanvasPacket
<1>2. m \in Mail /\ m \in FromDrawer
  BY <1>1
<1>3. drawCommands' = Paint(drawCommands, m)
  <2>1. CASE HandleDrawCommand
    BY <1>1, <2>1, PassedOn
  <2>2. CASE HandleCanvasPacket
    <3>1. m.payload = <<>> /\ m.type = "CanvasPacket" /\ drawCommands' = <<>>
      BY <1>2, <2>2 DEF HandleCanvasPacket, FromDrawer
    <3>2. QED
      BY <3>1, NoBytes DEF Paint
  <2>3. QED
    BY <2>1, <2>2
<1>4. Settled(drawCommands, toServer) = Settled(Paint(drawCommands, m), Tail(toServer))
  BY <1>1, <1>2, SettledFacts
<1>5. QED
  BY <1>1, <1>3, <1>4 DEF Kept

\* A message more for the server.
LEMMA KeptAfter ==
  ASSUME IInv, NEW m \in Mail, toServer' = Append(toServer, m), UNCHANGED drawCommands
  PROVE  Kept \in Seq(Command) /\ Kept' = Paint(Kept, m)
<1>1. drawCommands \in Seq(Command) /\ toServer \in Seq(Mail)
  BY DEF IInv, KeptFits, WiresFit
<1>2. /\ Settled(drawCommands, toServer) \in Seq(Command)
      /\ Settled(drawCommands, Append(toServer, m)) = Paint(Settled(drawCommands, toServer), m)
  BY <1>1, SettledFacts
<1>3. QED
  BY <1>2 DEF Kept

\* A stroke more on the way is one more that will be kept.
LEMMA KeptGrows ==
  ASSUME IInv, NEW command \in Command, UNCHANGED drawCommands,
         toServer' = Append(toServer, Arrived("DrawCommand", Bytes(<<command>>)))
  PROVE  Kept \in Seq(Command) /\ Kept' = Append(Kept, command)
<1>1. <<command>> \in Seq(Command) /\ Len(<<command>>) = 1 /\ <<command>>[1] = command
  OBVIOUS
<1>2. Arrived("DrawCommand", Bytes(<<command>>)) \in Mail
  BY <1>1, CommandsFit
<1>3. /\ Kept \in Seq(Command)
      /\ Kept' = Paint(Kept, Arrived("DrawCommand", Bytes(<<command>>)))
  BY <1>2, KeptAfter
<1>4. QED
  BY <1>1, <1>3, Painted

\* After a clear on the way nothing that came before it is kept.
LEMMA KeptCleared ==
  ASSUME IInv, HandleOnClear
  PROVE  Kept' = <<>>
<1>1. <<>> \in Seq(Command)
  OBVIOUS
<1>2. Arrived("CanvasPacket", <<>>) \in Mail
  BY <1>1, NoBytes, CommandsFit
<1>3. Kept \in Seq(Command) /\ Kept' = Paint(Kept, Arrived("CanvasPacket", <<>>))
  BY <1>2, KeptAfter DEF HandleOnClear
<1>4. QED
  BY <1>1, <1>3, NoBytes, Painted

\* The end of a line is where the mouse is.
LEMMA LineEnds ==
  ASSUME NEW p \in Points, NEW q \in Points
  PROVE  SubSeq(Line(p, q), 3, 4) = q
<1>1. q \in Int \X Int
  BY PointsAssumption
<1>2. q = <<q[1], q[2]>>
  BY <1>1
<1> DEFINE s == Line(p, q)
<1>3. s[3] = q[1] /\ s[4] = q[2]
  BY DEF Line
<1>4. \A i \in 3 .. 4 : s[i] \in Int
  BY Lines
<1> HIDE DEF s
<1>5. /\ SubSeq(s, 3, 4) \in Seq(Int)
      /\ Len(SubSeq(s, 3, 4)) = 2
      /\ SubSeq(s, 3, 4)[1] = s[3] /\ SubSeq(s, 3, 4)[2] = s[4]
  <2>1. 3 \in Int /\ 4 \in Int /\ 4 - 3 + 1 = 2 /\ 3 <= 4
    OBVIOUS
  <2>2. /\ SubSeq(s, 3, 4) \in Seq(Int)
        /\ Len(SubSeq(s, 3, 4)) = IF 3 <= 4 THEN 4 - 3 + 1 ELSE 0
        /\ \A i \in 1 .. 4 - 3 + 1 : SubSeq(s, 3, 4)[i] = s[3 + i - 1]
    BY <1>4, <2>1, SubSeqProperties
  <2>3. 1 \in 1 .. 2 /\ 2 \in 1 .. 2 /\ 3 + 1 - 1 = 3 /\ 3 + 2 - 1 = 4
    OBVIOUS
  <2> DEFINE end == SubSeq(s, 3, 4)
  <2> HIDE DEF end
  <2>4. end \in Seq(Int) /\ Len(end) = 2 /\ \A i \in 1 .. 2 : end[i] = s[3 + i - 1]
    BY <2>1, <2>2 DEF end
  <2>5. end[1] = s[3] /\ end[2] = s[4]
    BY <2>3, <2>4
  <2>6. QED
    BY <2>4, <2>5 DEF end
<1>6. SubSeq(s, 3, 4) = <<s[3], s[4]>>
  <2> DEFINE end == SubSeq(s, 3, 4)
  <2> HIDE DEF end
  <2>1. end \in Seq(Int) /\ Len(end) = 2 /\ end[1] = s[3] /\ end[2] = s[4]
    BY <1>5 DEF end
  <2>2. end = <<s[3], s[4]>>
    BY <2>1
  <2>3. QED
    BY <2>2 DEF end
<1>7. QED
  BY <1>2, <1>3, <1>6 DEF s

\* What is longer by one.
LEMMA Appended ==
  ASSUME NEW T, NEW seq \in Seq(T), NEW x \in T
  PROVE  /\ Append(seq, x) # <<>>
         /\ Len(Append(seq, x)) = Len(seq) + 1 /\ Len(seq) \in Nat
         /\ Append(seq, x)[Len(Append(seq, x))] = x
         /\ \A i \in 1 .. Len(seq) : Append(seq, x)[i] = seq[i]
OBVIOUS

LEMMA MotionStroke == StrokeInv /\ Motion => StrokeInv'
<1> SUFFICES ASSUME StrokeInv, Motion PROVE StrokeInv'
  OBVIOUS
<1>1. /\ painting = "none" /\ painting' \in {"line", "dot"}
      /\ UNCHANGED <<old, shown, raised, drawCommands, toServer>>
  BY DEF Motion, Event, wires
<1>2. Kept' = Kept
  BY <1>1 DEF Kept
<1>3. QED
  BY <1>1, <1>2 DEF StrokeInv, LineIsShown, ShownIsKept, EndIsKept, StrokesConnect

LEMMA CreateLineStroke == IInv /\ StrokeInv /\ CreateLine => StrokeInv'
<1> SUFFICES ASSUME IInv, StrokeInv, CreateLine PROVE StrokeInv'
  OBVIOUS
<1>1. /\ painting = "line" /\ UNCHANGED <<mouse, old, drawCommands, toServer>>
      /\ shown \in Seq([1 .. 5 -> Int]) /\ mouse \in Points /\ old \in Points \cup {None}
  BY DEF CreateLine, wires, IInv, PaintFits
<1>2. Kept' = Kept
  BY <1>1 DEF Kept
<1>3. CASE old = None
  <2>1. raised' = TRUE /\ painting' = "none" /\ shown' = shown
    BY <1>3 DEF CreateLine, Raise
  <2>2. QED
    BY <1>1, <1>3, <2>1 DEF StrokeInv, LineIsShown, ShownIsKept, EndIsKept, StrokesConnect
<1>4. CASE old # None
  <2>1. shown' = Append(shown, Line(old, mouse)) /\ painting' = "send" /\ raised' = raised
    BY <1>4 DEF CreateLine
  <2>2. /\ shown' # <<>> /\ shown'[Len(shown')] = Line(old, mouse)
        /\ Len(shown') = Len(shown) + 1 /\ Len(shown) \in Nat
        /\ \A i \in 1 .. Len(shown) : shown'[i] = shown[i]
    <3>1. Line(old, mouse) \in [1 .. 5 -> Int]
      BY <1>1, <1>4, Lines
    <3> DEFINE T == [1 .. 5 -> Int]
               line == Line(old, mouse)
    <3>2. shown \in Seq(T) /\ line \in T
      BY <1>1, <3>1
    <3> HIDE DEF T, line
    <3>3. /\ Append(shown, line) # <<>>
          /\ Len(Append(shown, line)) = Len(shown) + 1 /\ Len(shown) \in Nat
          /\ Append(shown, line)[Len(Append(shown, line))] = line
          /\ \A i \in 1 .. Len(shown) : Append(shown, line)[i] = shown[i]
      BY <3>2, Appended
    <3>4. shown' = Append(shown, line)
      BY <2>1 DEF line
    <3>5. QED
      BY <3>3, <3>4, Zenon DEF line
  <2>3. LineIsShown'
    BY <1>1, <2>2 DEF LineIsShown
  <2>4. ShownIsKept'
    <3>1. ASSUME ~raised, NEW i \in DOMAIN shown'
          PROVE  shown'[i] \in Range(Kept) \/ i = Len(shown')
      <4>1. i \in 1 .. Len(shown')
        BY <1>1, <2>1
      <4>2. CASE i \in 1 .. Len(shown)
        <5>1. i \in DOMAIN shown
          BY <1>1, <4>2
        <5>2. shown[i] \in Range(Kept)
          BY <1>1, <3>1, <5>1 DEF StrokeInv, ShownIsKept
        <5>3. QED
          BY <2>2, <4>2, <5>2
      <4>3. QED
        BY <2>2, <4>1, <4>2
    <3>2. QED
      BY <1>2, <2>1, <3>1 DEF ShownIsKept
  <2>5. EndIsKept' /\ StrokesConnect'
    BY <1>1, <1>2, <2>1 DEF StrokeInv, EndIsKept, StrokesConnect
  <2>6. QED
    BY <2>3, <2>4, <2>5 DEF StrokeInv
<1>5. QED
  BY <1>3, <1>4

LEMMA SendDrawingStroke == IInv /\ StrokeInv /\ SendDrawing => StrokeInv'
<1> SUFFICES ASSUME IInv, StrokeInv, SendDrawing PROVE StrokeInv'
  OBVIOUS
<1>1. /\ painting \in {"send", "dot"} /\ UNCHANGED <<mouse, old, shown, drawCommands>>
  BY DEF SendDrawing
<1>2. CASE raised' = TRUE /\ painting' = "none" /\ UNCHANGED toServer
  <2>1. Kept' = Kept
    BY <1>1, <1>2 DEF Kept
  <2>2. QED
    BY <1>1, <1>2, <2>1 DEF StrokeInv, LineIsShown, ShownIsKept, EndIsKept, StrokesConnect
<1>3. ASSUME NEW p \in Points, painting = "send" => p = old /\ old # None,
             Packable(Line(p, mouse)),
             toServer' = Append(toServer, Arrived("DrawCommand", Bytes(<<Line(p, mouse)>>))),
             painting' = "store", raised' = raised, mouse \in Points
      PROVE  StrokeInv'
  <2> DEFINE c == Line(p, mouse)
  <2>1. c \in Command
    BY <1>3, Lines, SentCommand
  <2>2. Kept \in Seq(Command) /\ Kept' = Append(Kept, c)
    BY <1>1, <1>3, <2>1, KeptGrows
  <2>3. SubSeq(c, 3, 4) = mouse
    BY <1>3, LineEnds
  <2>4. painting = "send" /\ shown # <<>> => shown[Len(shown)] = c
    BY <1>3 DEF StrokeInv, LineIsShown
  <2>5. shown # <<>> \/ DOMAIN shown = {}
    BY DEF IInv, PaintFits
  <2> HIDE DEF c
  <2>6. Kept' # <<>> /\ Last(Kept') = c /\ c \in Range(Kept') /\ Range(Kept) \subseteq Range(Kept')
    <3>1. Kept' # <<>> /\ Kept'[Len(Kept')] = c /\ Len(Kept') \in DOMAIN Kept'
      BY <2>1, <2>2
    <3>2. \A i \in DOMAIN Kept : i \in DOMAIN Kept' /\ Kept'[i] = Kept[i]
      BY <2>1, <2>2
    <3>3. QED
      BY <3>1, <3>2 DEF Last, Range
  <2>7. EndIsKept'
    BY <1>1, <2>3, <2>6 DEF EndIsKept
  <2>8. ShownIsKept'
    <3>1. ASSUME ~raised, NEW i \in DOMAIN shown
          PROVE  shown[i] \in Range(Kept')
      <4>1. shown[i] \in Range(Kept) \/ (painting = "send" /\ i = Len(shown))
        BY <3>1 DEF StrokeInv, ShownIsKept
      <4>2. QED
        BY <2>4, <2>5, <2>6, <3>1, <4>1
    <3>2. QED
      BY <1>1, <1>3, <3>1 DEF ShownIsKept
  <2>9. QED
    BY <1>3, <2>7, <2>8 DEF StrokeInv, LineIsShown, StrokesConnect
<1>4. QED
  BY <1>2, <1>3, WhatIsSent

LEMMA StoreStroke == StrokeInv /\ Store => StrokeInv'
<1> SUFFICES ASSUME StrokeInv, Store PROVE StrokeInv'
  OBVIOUS
<1>1. /\ painting = "store" /\ painting' = "none" /\ old' = mouse
      /\ UNCHANGED <<mouse, shown, raised, drawCommands, toServer>>
  BY DEF Store, wires
<1>2. Kept' = Kept
  BY <1>1 DEF Kept
<1>3. QED
  BY <1>1, <1>2 DEF StrokeInv, LineIsShown, ShownIsKept, EndIsKept, StrokesConnect

\* The old point is None, whatever else happens to it.
LEMMA ForgetfulStroke ==
  ASSUME StrokeInv, old' = None, Kept' = Kept,
         UNCHANGED <<mouse, painting, shown, raised>>
  PROVE  StrokeInv'
BY DEF StrokeInv, LineIsShown, ShownIsKept, EndIsKept, StrokesConnect

LEMMA ClearStroke == IInv /\ HandleOnClear => StrokeInv'
<1> SUFFICES ASSUME IInv, HandleOnClear PROVE StrokeInv'
  OBVIOUS
<1>1. painting' = "none" /\ shown' = <<>> /\ old' = None
  BY DEF HandleOnClear, Event
<1>2. DOMAIN shown' = {}
  BY <1>1
<1>3. QED
  BY <1>1, <1>2 DEF StrokeInv, LineIsShown, ShownIsKept, EndIsKept, StrokesConnect

LEMMA DeleteStroke == ClearsAreEmpty /\ StrokeInv /\ Delete => StrokeInv'
<1> SUFFICES ASSUME ClearsAreEmpty, StrokeInv, Delete PROVE StrokeInv'
  OBVIOUS
<1>1. /\ painting = "none" /\ shown' = Parse(Head(toDrawer).payload)
      /\ UNCHANGED <<mouse, painting, old, raised, drawCommands, toServer>>
  BY DEF Delete
<1>2. Head(toDrawer) \in Cleared
  BY DEF ClearsAreEmpty, Delete
<1>3. shown' = <<>>
  BY <1>1, <1>2, NoBytes DEF Cleared
<1>4. DOMAIN shown' = {}
  BY <1>3
<1>5. Kept' = Kept
  BY <1>1 DEF Kept
<1>6. QED
  BY <1>1, <1>4, <1>5 DEF StrokeInv, LineIsShown, ShownIsKept, EndIsKept, StrokesConnect

\* Every step keeps the stroke in one piece.
LEMMA StrokeStays ==
  IInv /\ ClearsAreEmpty /\ StrokeInv /\ [Next]_vars => StrokeInv'
<1> SUFFICES ASSUME IInv, ClearsAreEmpty, StrokeInv, [Next]_vars PROVE StrokeInv'
  OBVIOUS
<1>1. CASE Release \/ Reset
  <2>1. old' = None /\ UNCHANGED <<mouse, painting, shown, raised, drawCommands, toServer>>
    BY <1>1 DEF Release, Reset, Event, wires
  <2>2. Kept' = Kept
    BY <2>1 DEF Kept
  <2>3. QED
    BY <2>1, <2>2, ForgetfulStroke
<1>2. CASE Kept' = Kept /\ UNCHANGED paintVars
  BY <1>2 DEF paintVars, StrokeInv, LineIsShown, ShownIsKept, EndIsKept, StrokesConnect
<1>3. CASE HandleDrawCommand \/ HandleCanvasPacket
  <2>1. UNCHANGED paintVars
    BY <1>3 DEF HandleDrawCommand, HandleCanvasPacket
  <2>2. QED
    BY <1>2, <1>3, <2>1, ServerKeepsKept
<1>4. CASE Join \/ View \/ UNCHANGED vars
  <2>1. UNCHANGED paintVars /\ UNCHANGED <<drawCommands, toServer>>
    BY <1>4 DEF Join, View, vars, wires
  <2>2. QED
    BY <1>2, <2>1 DEF Kept
<1>5. QED
  BY <1>1, <1>3, <1>4, MotionStroke, CreateLineStroke, SendDrawingStroke, StoreStroke,
     ClearStroke, DeleteStroke DEF Next

LEMMA InitCanvases == Init => CanvasInv
<1> SUFFICES ASSUME Init PROVE CanvasInv
  OBVIOUS
<1>1. /\ toServer = <<>> /\ toDrawer = <<>> /\ toViewer = <<>> /\ ~joined
      /\ painting = "none" /\ old = None /\ shown = <<>>
  BY DEF Init
<1>2. DOMAIN shown = {}
  BY <1>1
<1>3. ClearsAreEmpty
  BY <1>1 DEF ClearsAreEmpty
<1>4. NobodyWatches /\ ViewerCatchesUp
  BY <1>1 DEF NobodyWatches, ViewerCatchesUp
<1>5. StrokeInv
  BY <1>1, <1>2 DEF StrokeInv, LineIsShown, ShownIsKept, EndIsKept, StrokesConnect
<1>6. QED
  BY <1>3, <1>4, <1>5 DEF CanvasInv

\* The inductive invariant holds throughout.
LEMMA CanvasInvariance == Spec => []CanvasInv
<1>1. IInv /\ IInv' /\ CanvasInv /\ [Next]_vars => CanvasInv'
  BY ClearsStayEmpty, ViewerStaysUp, StrokeStays DEF CanvasInv
<1>2. QED
  BY <1>1, InitCanvases, Invariance, PTL DEF Spec

\* Whoever joins when sees what the server keeps, once it has read its
\* messages, however commands, clears and its own arrival interleave.
THEOREM ViewersCatchUp == Spec => []ViewerCatchesUp
<1>1. CanvasInv => ViewerCatchesUp
  BY DEF CanvasInv
<1>2. QED
  BY <1>1, CanvasInvariance, PTL

\* Until an exception comes out of paint(), every line that the drawer sees is
\* one that the server keeps or will keep, but for the one about to be sent.
THEOREM ShownLinesAreKept == Spec => []ShownIsKept
<1>1. CanvasInv => ShownIsKept
  BY DEF CanvasInv, StrokeInv
<1>2. QED
  BY <1>1, CanvasInvariance, PTL

\* A stroke goes on where the last command ended, whatever the reader resets
\* between two statements of paint().
THEOREM StrokesNeverJump == Spec => []StrokesConnect
<1>1. CanvasInv => StrokesConnect
  BY DEF CanvasInv, StrokeInv
<1>2. QED
  BY <1>1, CanvasInvariance, PTL
=============================================================================
