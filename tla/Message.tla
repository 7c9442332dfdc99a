------------------------------ MODULE Message ------------------------------
(***************************************************************************)
(* A message as bytes: what Message (server/src/Message.cpp) does to a     *)
(* payload and to the size in its header, and how the frontend             *)
(* (frontend/src/packet_manager.py) packs and parses draw commands.        *)
(*                                                                         *)
(* A draw command is the sequence <<old_x, old_y, new_x, new_y, color>> of *)
(* 16-bit numbers, the lower byte first in the payload.                    *)
(***************************************************************************)
EXTENDS Integers, SequencesExt

Byte == {n \in Nat : n < 256}
Word16 == {n \in Nat : n < 65536}

CommandSize == 10  \* sizeof(DrawCommand)

Command == [1 .. 5 -> Word16]

\* The message that a constructor makes, and one that arrives whole.
NewMessage(type) == [type |-> type, size |-> 0, payload |-> <<>>]

Arrived(type, bytes) == [type |-> type, size |-> Len(bytes), payload |-> bytes]

---------------------------------------------------------------------------
(* Payloads of the server *)

Push(m, bytes) ==
  [m EXCEPT !.payload = @ \o bytes, !.size = Len(m.payload) + Len(bytes)]

\* Pop of n bytes into a buffer of that size takes them from the end; more
\* than there are it leaves alone, and the buffer stays zero.
Popped(m, n) ==
  IF n > Len(m.payload) THEN [i \in 1 .. n |-> 0]
  ELSE SubSeq(m.payload, Len(m.payload) - n + 1, Len(m.payload))

Pop_KeepsBytes(m, n) == m

Pop(m, n) ==
  IF n > Len(m.payload) THEN m
  ELSE [m EXCEPT !.payload = SubSeq(@, 1, Len(@) - n), !.size = Len(m.payload) - n]

---------------------------------------------------------------------------
(* Draw commands *)

\* Byte i of a number, counted from 1.
ByteOf(n, i) == IF i = 1 THEN n % 256 ELSE n \div 256

\* create_packet, and the memory of a vector of DrawCommand.
Bytes(commands) ==
  [i \in 1 .. CommandSize * Len(commands) |->
     ByteOf(commands[(i - 1) \div 10 + 1][((i - 1) % 10) \div 2 + 1],
            ((i - 1) % 2) + 1)]

\* The commands in a payload: parse_packet on every ten bytes, and the vector
\* of PopCanvasPacket, which has room for whole commands only.
Parse(bytes) ==
  [k \in 1 .. Len(bytes) \div CommandSize |->
     [f \in 1 .. 5 |-> bytes[10 * (k - 1) + 2 * f - 1]
                       + 256 * bytes[10 * (k - 1) + 2 * f]]]

PushCanvasPacket(m, commands) == Push(m, Bytes(commands))

PushDrawCommand(m, command) == Push(m, Bytes(<<command>>))

PopCanvasPacket(m) == Parse(Popped(m, m.size))

Packable_Signed(command) == \A f \in 1 .. 5 : command[f] \in -32768 .. 32767

\* pack refuses a number that has no 16 bits.
Packable(command) == \A f \in 1 .. 5 : command[f] \in Word16
=============================================================================
