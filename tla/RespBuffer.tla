----------------------------- MODULE RespBuffer -----------------------------
(***************************************************************************)
(* The read buffer of a connection: resp_buf.c, resp_parser_next           *)
(* (resp_decode.c) and the read loop of conn_on_readable (conn.c).  Bytes  *)
(* are numbered in the order the client sends them and the buffer holds    *)
(* their numbers; a command is an interval of the stream, decoded once all *)
(* of it is in the buffer and handed on as pointers into the buffer.       *)
(*                                                                         *)
(* driver "server": the event loop reads into the free tail.               *)
(* driver "feed": resp_parser_feed, the other way bytes get in.            *)
(***************************************************************************)
EXTENDS Integers

CONSTANTS
  BufCap,   \* parser->buf_cap
  Lens,     \* lengths of commands
  MaxBytes  \* bound: bytes the client sends

ASSUME BufferAssumption ==
  /\ BufCap \in Nat \ {0} /\ MaxBytes \in Nat
  /\ Lens \subseteq Nat \ {0}

VARIABLES
  driver,    \* "server" or "feed"
  buf, r_pos, w_pos,
  pc,        \* "read", "next", "handle" or "closed"
  need,      \* length of the command at r_pos
  cmd,       \* position and length of the command being handled
  received,  \* history: bytes taken in
  consumed   \* history: bytes of the commands decoded

vars == <<driver, buf, r_pos, w_pos, pc, need, cmd, received, consumed>>

Cells == 0..(BufCap - 1)
NoCmd == [pos |-> 0, len |-> 0]

Init ==
  /\ driver \in {"server", "feed"}
  /\ buf = [i \in Cells |-> 0] /\ r_pos = 0 /\ w_pos = 0
  /\ pc = "read" /\ need \in Lens /\ cmd = NoCmd
  /\ received = 0 /\ consumed = 0

Unread == w_pos - r_pos

\* n bytes land at w, the tail of the unread bytes, in buffer b.
Fill(b, w, n) ==
  /\ buf' = [i \in Cells |-> IF i \in w..(w + n - 1) THEN received + (i - w) ELSE b[i]]
  /\ w_pos' = w + n
  /\ received' = received + n
  /\ pc' = "next"

\* Mutant: the unread bytes stay where they are.
Moved_Not == buf

\* resp__compact: memmove of the unread bytes to the front.
Moved == [i \in Cells |-> IF i < Unread THEN buf[r_pos + i] ELSE buf[i]]
-----------------------------------------------------------------------------
(* conn_on_readable: read as much as there is room for *)

\* resp_parser_space
Space == BufCap - w_pos

Read(n) ==
  /\ pc = "read" /\ driver = "server"
  /\ n \in 1..Space /\ received + n <= MaxBytes
  /\ Fill(buf, w_pos, n)
  /\ UNCHANGED <<driver, r_pos, need, cmd, consumed>>

NoRoom ==
  /\ pc = "read" /\ driver = "server" /\ Space = 0
  /\ pc' = "closed"
  /\ UNCHANGED <<driver, buf, r_pos, w_pos, need, cmd, received, consumed>>
-----------------------------------------------------------------------------
(* resp_parser_feed: all of the bytes or none *)

FeedTail(n) ==
  /\ pc = "read" /\ driver = "feed"
  /\ received + n <= MaxBytes /\ w_pos + n <= BufCap
  /\ Fill(buf, w_pos, n)
  /\ UNCHANGED <<driver, r_pos, need, cmd, consumed>>

FeedCompact(n) ==
  /\ pc = "read" /\ driver = "feed"
  /\ received + n <= MaxBytes /\ w_pos + n > BufCap /\ n <= BufCap - Unread
  /\ Fill(Moved, Unread, n) /\ r_pos' = 0
  /\ UNCHANGED <<driver, need, cmd, consumed>>

FeedFull(n) ==
  /\ pc = "read" /\ driver = "feed"
  /\ received + n <= MaxBytes /\ n > BufCap - Unread
  /\ pc' = "closed"
  /\ UNCHANGED <<driver, buf, r_pos, w_pos, need, cmd, received, consumed>>
-----------------------------------------------------------------------------
(* server_dispatch_commands: decode and handle until more bytes are needed *)

\* Mutant: the buffer is compacted only once it is used up.
Late_UsedUp == r_pos > BufCap

\* When resp_parser_next compacts before it decodes.
Late == r_pos > BufCap \div 2
Start == IF Late THEN 0 ELSE r_pos

Compacted ==
  IF Late THEN buf' = Moved /\ w_pos' = Unread
          ELSE UNCHANGED <<buf, w_pos>>

NeedMore ==
  /\ pc = "next" /\ Unread < need
  /\ Compacted /\ r_pos' = Start
  /\ pc' = "read"
  /\ UNCHANGED <<driver, need, cmd, received, consumed>>

\* The next command's length is whatever the client sends next.
Decode(n) ==
  /\ pc = "next" /\ Unread >= need
  /\ Compacted /\ r_pos' = Start + need
  /\ cmd' = [pos |-> Start, len |-> need]
  /\ consumed' = consumed + need
  /\ need' = n
  /\ pc' = "handle"
  /\ UNCHANGED <<driver, received>>

\* A protocol error anywhere in what has arrived closes the connection.
DecodeError ==
  /\ pc = "next" /\ Unread > 0
  /\ Compacted /\ r_pos' = Start
  /\ pc' = "closed"
  /\ UNCHANGED <<driver, need, cmd, received, consumed>>

\* Mutant: the space of the command is reclaimed before it is released.
Handle_CompactFirst ==
  /\ pc = "handle"
  /\ buf' = Moved /\ w_pos' = Unread /\ r_pos' = 0
  /\ pc' \in {"handle", "next"}
  /\ cmd' = IF pc' = "next" THEN NoCmd ELSE cmd
  /\ UNCHANGED <<driver, need, received, consumed>>

\* The handler reads its arguments, then the value is released.
Handle ==
  /\ pc = "handle"
  /\ cmd' = NoCmd
  /\ pc' = "next"
  /\ UNCHANGED <<driver, buf, r_pos, w_pos, need, received, consumed>>
-----------------------------------------------------------------------------
Next ==
  \/ \E n \in 1..MaxBytes : Read(n) \/ FeedTail(n) \/ FeedCompact(n) \/ FeedFull(n)
  \/ NoRoom \/ NeedMore \/ (\E n \in Lens : Decode(n)) \/ Handle \/ DecodeError

Spec == Init /\ [][Next]_vars
-----------------------------------------------------------------------------
\* Types, and positions inside the buffer.
TypeOK ==
  /\ buf \in [Cells -> Nat]
  /\ r_pos \in 0..BufCap /\ w_pos \in 0..BufCap /\ r_pos <= w_pos
  /\ pc \in {"read", "next", "handle", "closed"}
  /\ need \in Lens /\ cmd \in [pos : 0..BufCap, len : Nat]
  /\ received \in Nat /\ consumed \in Nat

\* The unread part of the buffer is the stream from where decoding stopped:
\* compaction and short reads lose, repeat or reorder no byte.
StreamIntact ==
  /\ received - consumed = Unread
  /\ \A i \in Cells : r_pos <= i /\ i < w_pos => buf[i] = consumed + (i - r_pos)

\* The zero-copy arguments stay valid while a handler runs: the bytes it
\* points to are still those of its command.
CommandIntact ==
  pc = "handle" =>
    /\ cmd.pos + cmd.len = r_pos
    /\ \A i \in Cells : cmd.pos <= i /\ i < r_pos =>
         buf[i] = consumed - cmd.len + (i - cmd.pos)

\* The server gives up for want of room only on a command longer than half
\* the buffer, wherever in the buffer earlier commands left it.
RoomForHalf ==
  pc = "read" /\ Space = 0 => need > BufCap - BufCap \div 2

\* The loop goes back to read only when no whole command is left in the
\* buffer: with edge-triggered events nothing would call it again for one.
NoCommandLeft == pc = "read" => Unread < need
=============================================================================
