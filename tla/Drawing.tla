------------------------------ MODULE Drawing ------------------------------
(***************************************************************************)
(* A drawing on its way: the drawer's Paint (frontend/src/paint.py) under  *)
(* the mouse, the draw commands as bytes, the room that keeps them         *)
(* (server/src/Room.cpp, Server.cpp) and the Paint of a player who joins   *)
(* at some time and watches.                                               *)
(*                                                                         *)
(* In the drawer's frontend the Tk loop runs paint() statement by          *)
(* statement, while the reader handles the canvas that the server sends    *)
(* back after a clear.  Tk executes what the reader does to the widget     *)
(* between two callbacks; the old point is the reader's to reset at any    *)
(* time.  old_x and old_y count as one variable: where they differ in      *)
(* being None, paint() does what it does when both are.                    *)
(***************************************************************************)
EXTENDS Message

CONSTANTS
  Points,    \* where the mouse can go, beyond the edges of the canvas too
  MaxEvents  \* bound: motions, releases and clears in a behavior

ASSUME PointsAssumption == Points \subseteq Int \X Int
ASSUME BoundAssumption == MaxEvents \in Nat

VARIABLES
  mouse,     \* the point of the motion that paint() handles
  painting,  \* its next statement, or "none"
  old,       \* old_x and old_y, or None
  shown,     \* the lines on the drawer's canvas
  raised,    \* an exception has come out of paint()
  reader,    \* the reader's next statement in update_canvas, or "none"
  toServer, toDrawer, toViewer,  \* messages on their way
  drawCommands,  \* m_drawCommands
  joined,    \* the viewer has joined
  viewer,    \* the lines on the viewer's canvas
  events     \* motions, releases and clears so far, counted against MaxEvents

paintVars == <<mouse, painting, old, shown, raised>>
wires == <<toServer, toDrawer, toViewer>>
viewVars == <<joined, viewer>>
vars == <<paintVars, reader, wires, drawCommands, viewVars, events>>

None == <<>>
Color == 0

Line(from, to) == <<from[1], from[2], to[1], to[2], Color>>

Init ==
  /\ mouse = None /\ painting = "none" /\ old = None
  /\ shown = <<>> /\ raised = FALSE
  /\ reader = "none"
  /\ toServer = <<>> /\ toDrawer = <<>> /\ toViewer = <<>>
  /\ drawCommands = <<>>
  /\ joined = FALSE /\ viewer = <<>>
  /\ events = 0

-----------------------------------------------------------------------------
(* The drawer's Tk loop *)

Event ==
  /\ painting = "none"
  /\ events < MaxEvents
  /\ events' = events + 1

\* `if self.old_x and self.old_y`: 0 is as good as None.
HasOld == old # None /\ old[1] # 0 /\ old[2] # 0

Motion ==
  /\ Event
  /\ \E p \in Points : mouse' = p
  /\ painting' = IF HasOld THEN "line" ELSE "dot"
  /\ UNCHANGED <<old, shown, raised, reader, wires, drawCommands, viewVars>>

Raise == raised' = TRUE /\ painting' = "none"

CreateLine ==
  /\ painting = "line"
  /\ IF old = None
     THEN Raise /\ UNCHANGED shown
     ELSE /\ shown' = Append(shown, Line(old, mouse))
          /\ painting' = "send"
          /\ UNCHANGED raised
  /\ UNCHANGED <<mouse, old, reader, wires, drawCommands, viewVars, events>>

SendCommand(command) ==
  IF Packable(command)
  THEN /\ toServer' = Append(toServer, Arrived("DrawCommand", Bytes(<<command>>)))
       /\ painting' = "store"
       /\ UNCHANGED raised
  ELSE Raise /\ UNCHANGED toServer

SendDrawing ==
  /\ \/ /\ painting = "send" /\ old # None
        /\ SendCommand(Line(old, mouse))
     \/ /\ painting = "send" /\ old = None
        /\ Raise /\ UNCHANGED toServer
     \/ /\ painting = "dot"
        /\ SendCommand(Line(mouse, mouse))
  /\ UNCHANGED <<mouse, old, shown, reader, toDrawer, toViewer, drawCommands,
                 viewVars, events>>

Store ==
  /\ painting = "store"
  /\ old' = mouse
  /\ painting' = "none"
  /\ UNCHANGED <<mouse, shown, raised, reader, wires, drawCommands, viewVars, events>>

Release ==
  /\ Event
  /\ old' = None
  /\ UNCHANGED <<mouse, painting, shown, raised, reader, wires, drawCommands, viewVars>>

HandleOnClear_KeepsOld ==
  /\ Event
  /\ shown' = <<>>
  /\ toServer' = Append(toServer, Arrived("CanvasPacket", <<>>))
  /\ UNCHANGED <<mouse, painting, old, raised, reader, toDrawer, toViewer,
                 drawCommands, viewVars>>

HandleOnClear_OnlySends ==
  /\ Event
  /\ old' = None
  /\ toServer' = Append(toServer, Arrived("CanvasPacket", <<>>))
  /\ UNCHANGED <<mouse, painting, shown, raised, reader, toDrawer, toViewer,
                 drawCommands, viewVars>>

HandleOnClear ==
  /\ Event
  /\ shown' = <<>> /\ old' = None
  /\ toServer' = Append(toServer, Arrived("CanvasPacket", <<>>))
  /\ UNCHANGED <<mouse, painting, raised, reader, toDrawer, toViewer,
                 drawCommands, viewVars>>

-----------------------------------------------------------------------------
(* The drawer's reader: update_canvas, for a canvas that is always empty *)

Delete ==
  /\ reader = "none" /\ toDrawer # <<>>
  /\ painting = "none"
  /\ shown' = Parse(Head(toDrawer).payload)
  /\ toDrawer' = Tail(toDrawer)
  /\ reader' = "reset"
  /\ UNCHANGED <<mouse, painting, old, raised, toServer, toViewer, drawCommands,
                 viewVars, events>>

Reset ==
  /\ reader = "reset"
  /\ old' = None
  /\ reader' = "none"
  /\ UNCHANGED <<mouse, painting, shown, raised, wires, drawCommands, viewVars, events>>

-----------------------------------------------------------------------------
(* The server *)

CanvasMessage == PushCanvasPacket(NewMessage("CanvasPacket"), drawCommands')

ToViewer(m) == IF joined THEN Append(toViewer, m) ELSE toViewer

\* The message that came is emptied and filled again, then sent to the others.
HandleDrawCommand ==
  /\ toServer # <<>> /\ Head(toServer).type = "DrawCommand"
  /\ LET m == Head(toServer)
         commands == PopCanvasPacket(m)
     IN  IF Len(commands) = 1
         THEN /\ drawCommands' = drawCommands \o commands
              /\ toViewer' = ToViewer(PushDrawCommand(Pop(m, m.size), commands[1]))
         ELSE UNCHANGED <<drawCommands, toViewer>>
  /\ toServer' = Tail(toServer)
  /\ UNCHANGED <<paintVars, reader, toDrawer, viewVars, events>>

HandleCanvasPacket ==
  /\ toServer # <<>> /\ Head(toServer).type = "CanvasPacket"
  /\ drawCommands' = <<>>
  /\ toServer' = Tail(toServer)
  /\ toDrawer' = Append(toDrawer, CanvasMessage)
  /\ toViewer' = ToViewer(CanvasMessage)
  /\ UNCHANGED <<paintVars, reader, viewVars, events>>

Join_NoCanvas ==
  /\ ~joined /\ joined' = TRUE
  /\ UNCHANGED <<paintVars, reader, wires, drawCommands, viewer, events>>

\* A player joins: an empty Paint, and the canvas so far on its way.
Join ==
  /\ ~joined /\ joined' = TRUE
  /\ UNCHANGED drawCommands
  /\ toViewer' = Append(toViewer, CanvasMessage)
  /\ UNCHANGED <<paintVars, reader, toServer, toDrawer, viewer, events>>

-----------------------------------------------------------------------------
(* The viewer's reader *)

Paint(canvas, m) ==
  CASE m.type = "CanvasPacket" -> Parse(m.payload)
    [] m.type = "DrawCommand" -> Append(canvas, Parse(m.payload)[1])

View ==
  /\ toViewer # <<>>
  /\ viewer' = Paint(viewer, Head(toViewer))
  /\ toViewer' = Tail(toViewer)
  /\ UNCHANGED <<paintVars, reader, toServer, toDrawer, drawCommands, joined, events>>

Next ==
  \/ Motion \/ CreateLine \/ SendDrawing \/ Store \/ Release \/ HandleOnClear
  \/ Delete \/ Reset
  \/ HandleDrawCommand \/ HandleCanvasPacket \/ Join
  \/ View

Spec == Init /\ [][Next]_vars

-----------------------------------------------------------------------------
(* Properties *)

WireMessage ==
  [type : {"DrawCommand", "CanvasPacket"}, size : Nat, payload : Seq(Byte)]

\* Every variable has its type; what is kept, sent and seen by the viewer are
\* commands of 16-bit numbers.
TypeOK ==
  /\ mouse \in Points \cup {None}
  /\ painting \in {"none", "line", "dot", "send", "store"}
  /\ old \in Points \cup {None}
  /\ shown \in Seq([1 .. 5 -> Int])
  /\ raised \in BOOLEAN
  /\ reader \in {"none", "reset"}
  /\ toServer \in Seq(WireMessage)
  /\ toDrawer \in Seq(WireMessage)
  /\ toViewer \in Seq(WireMessage)
  /\ drawCommands \in Seq(Command)
  /\ joined \in BOOLEAN /\ viewer \in Seq(Command)
  /\ events \in 0 .. MaxEvents

Sized(wire) ==
  \A i \in DOMAIN wire :
    /\ wire[i].size = Len(wire[i].payload)
    /\ wire[i].size % CommandSize = 0
    /\ wire[i].type = "DrawCommand" => wire[i].size = CommandSize

\* A header tells the size of what follows it, or else the receiver would
\* lose its place in the stream; and a payload is whole commands.
HeaderTellsSize == Sized(toServer) /\ Sized(toDrawer) /\ Sized(toViewer)

\* The canvas that remains when all messages have been read.
Settled(canvas, wire) == FoldLeft(Paint, canvas, wire)

\* Whoever watches sees what the server keeps, once it has read its messages,
\* whenever it joined.
ViewerCatchesUp == joined => Settled(viewer, toViewer) = drawCommands

\* What the server will keep once it has read what is on its way.
Kept == Settled(drawCommands, toServer)

\* As long as paint() raised nothing, every line on the drawer's own canvas is
\* or will be one that the server keeps, but for the one being sent.
ShownIsKept ==
  ~raised => \A i \in DOMAIN shown :
    shown[i] \in Range(Kept) \/ (painting = "send" /\ i = Len(shown))

\* A stroke continues where the last command that was sent ended, across
\* points that could not be sent: it never jumps.
StrokesConnect ==
  old # None /\ painting # "store" =>
    Kept # <<>> /\ SubSeq(Last(Kept), 3, 4) = old
=============================================================================
