-------------------------- MODULE RespBufferProofs --------------------------
(***************************************************************************)
(* The read buffer's invariants for every buffer size and every set of     *)
(* command lengths.  RoomForHalf is not inductive: it needs that the loop  *)
(* goes back to read with less than a whole command (NoCommandLeft) and    *)
(* with the unread bytes in the front half (FrontHalf), which is what      *)
(* resp_parser_next's compaction establishes.                              *)
(***************************************************************************)
EXTENDS RespBuffer, TLAPS

FrontHalf == pc = "read" => r_pos <= BufCap \div 2

BufferInv ==
  TypeOK /\ StreamIntact /\ CommandIntact /\ NoCommandLeft /\ FrontHalf

\* Half the buffer is a natural number below its size.
LEMMA Half == BufCap \div 2 \in 0..BufCap /\ BufCap - BufCap \div 2 >= 1
  BY BufferAssumption

\* The empty buffer satisfies the invariant.
LEMMA InitBuffer == Init => BufferInv
<1> SUFFICES ASSUME Init PROVE BufferInv
  OBVIOUS
<1> USE BufferAssumption DEF Init
<1>1. TypeOK
  BY DEF TypeOK, Cells, NoCmd
<1>2. StreamIntact
  BY DEF StreamIntact, Unread, Cells
<1>3. CommandIntact /\ NoCommandLeft /\ FrontHalf
  BY Half DEF CommandIntact, NoCommandLeft, FrontHalf, Unread
<1> QED  BY <1>1, <1>2, <1>3 DEF BufferInv

\* Bytes that land behind the unread ones keep types and stream, in the
\* buffer as it is or moved to the front.
LEMMA FillKeeps ==
  ASSUME TypeOK, StreamIntact,
         NEW b, NEW w \in 0..BufCap, NEW r \in 0..w, NEW n \in Nat \ {0},
         w + n <= BufCap, b \in [Cells -> Nat], w - r = Unread,
         \A i \in Cells : r <= i /\ i < w => b[i] = consumed + (i - r),
         Fill(b, w, n), r_pos' = r, UNCHANGED <<need, cmd, consumed>>
  PROVE  TypeOK' /\ StreamIntact'
<1> USE BufferAssumption
<1>1. /\ w_pos' = w + n /\ received' = received + n /\ pc' = "next"
      /\ buf' = [i \in Cells |-> IF i \in w..(w + n - 1) THEN received + (i - w) ELSE b[i]]
  BY DEF Fill
<1>2. r_pos \in Nat /\ w_pos \in Nat /\ received \in Nat /\ consumed \in Nat
  BY DEF TypeOK
<1>3. \A i \in Cells : i \in Int
  BY DEF Cells
<1>4. buf' \in [Cells -> Nat]
  BY <1>1, <1>2, <1>3
<1>5. TypeOK'
  BY <1>1, <1>4 DEF TypeOK
<1>6. received' - consumed' = w_pos' - r_pos'
  BY <1>1, <1>2 DEF StreamIntact, Unread
<1>7. ASSUME NEW i \in Cells, r_pos' <= i, i < w_pos'
      PROVE  buf'[i] = consumed' + (i - r_pos')
  <2>1. CASE i < w
    BY <2>1, <1>1, <1>3, <1>7
  <2>2. CASE i >= w
    <3>1. buf'[i] = received + (i - w)
      BY <2>2, <1>1, <1>2, <1>3, <1>7
    <3>2. received = consumed + (w - r)
      BY <1>2 DEF StreamIntact, Unread
    <3> QED  BY <3>1, <3>2, <1>2, <1>3
  <2> QED  BY <2>1, <2>2, <1>3
<1>8. StreamIntact'
  BY <1>6, <1>7 DEF StreamIntact, Unread
<1> QED  BY <1>5, <1>8

\* resp__compact moves exactly the unread bytes to the front.
LEMMA MovedUnread ==
  ASSUME TypeOK, StreamIntact
  PROVE  /\ Moved \in [Cells -> Nat]
         /\ Unread \in 0..BufCap
         /\ \A i \in Cells : i < Unread => Moved[i] = consumed + i
<1> USE BufferAssumption DEF TypeOK
<1>1. Unread \in 0..BufCap
  BY DEF Unread
<1>2. ASSUME NEW i \in Cells, i < Unread
      PROVE  /\ r_pos + i \in Cells /\ r_pos <= r_pos + i /\ r_pos + i < w_pos
             /\ (r_pos + i) - r_pos = i
  BY <1>2 DEF Unread, Cells
<1>3. \A i \in Cells : i < Unread => buf[r_pos + i] = consumed + i
  BY <1>2 DEF StreamIntact
<1>4. Moved \in [Cells -> Nat]
  BY <1>2 DEF Moved
<1>5. \A i \in Cells : i < Unread => Moved[i] = consumed + i
  BY <1>3 DEF Moved
<1> QED  BY <1>1, <1>4, <1>5

\* The compaction resp_parser_next begins with: from Start on, the buffer
\* holds the same unread bytes.
LEMMA CompactedUnread ==
  ASSUME TypeOK, StreamIntact, Compacted
  PROVE  /\ buf' \in [Cells -> Nat]
         /\ Start \in 0..(BufCap \div 2) /\ w_pos' \in 0..BufCap
         /\ w_pos' - Start = Unread
         /\ \A i \in Cells : Start <= i /\ i < w_pos' => buf'[i] = consumed + (i - Start)
<1> USE BufferAssumption
<1>1. r_pos \in 0..BufCap /\ w_pos \in 0..BufCap /\ consumed \in Nat /\ buf \in [Cells -> Nat]
  BY DEF TypeOK
<1>2. CASE Late
  <2>1. Start = 0 /\ buf' = Moved /\ w_pos' = Unread
    BY <1>2 DEF Start, Compacted
  <2>2. \A i \in Cells : i - 0 = i
    BY DEF Cells
  <2> QED  BY <2>1, <2>2, MovedUnread, Half
<1>3. CASE ~Late
  <2>1. Start = r_pos /\ buf' = buf /\ w_pos' = w_pos
    BY <1>3 DEF Start, Compacted
  <2>2. r_pos <= BufCap \div 2
    BY <1>1, <1>3, Half DEF Late
  <2> QED  BY <1>1, <2>1, <2>2, Half DEF StreamIntact, Unread
<1> QED  BY <1>2, <1>3

\* Every step keeps the invariant.
LEMMA NextBuffer == BufferInv /\ [Next]_vars => BufferInv'
<1> SUFFICES ASSUME BufferInv, [Next]_vars PROVE BufferInv'
  OBVIOUS
<1> USE BufferAssumption
<1>0. TypeOK /\ StreamIntact /\ CommandIntact /\ NoCommandLeft /\ FrontHalf
  BY DEF BufferInv
<1>1. /\ r_pos \in 0..BufCap /\ w_pos \in 0..BufCap /\ r_pos <= w_pos
      /\ need \in Nat \ {0} /\ consumed \in Nat /\ received \in Nat
      /\ buf \in [Cells -> Nat]
  BY <1>0 DEF TypeOK
<1>2. ASSUME TypeOK', StreamIntact', pc' = "next" PROVE BufferInv'
  BY <1>2 DEF BufferInv, CommandIntact, NoCommandLeft, FrontHalf
<1>3. ASSUME NEW n \in 1..MaxBytes, Read(n) \/ FeedTail(n) PROVE BufferInv'
  <2>1. Fill(buf, w_pos, n) /\ w_pos + n <= BufCap /\ r_pos' = r_pos
        /\ UNCHANGED <<need, cmd, consumed>>
    BY <1>1, <1>3 DEF Read, FeedTail, Space
  <2>2. TypeOK' /\ StreamIntact'
    BY <1>0, <1>1, <2>1, FillKeeps DEF StreamIntact, Unread
  <2> QED  BY <2>1, <2>2, <1>2 DEF Fill
<1>4. ASSUME NEW n \in 1..MaxBytes, FeedCompact(n) PROVE BufferInv'
  <2>1. Fill(Moved, Unread, n) /\ n <= BufCap - Unread /\ r_pos' = 0
        /\ UNCHANGED <<need, cmd, consumed>>
    BY <1>4 DEF FeedCompact
  <2>2. /\ Moved \in [Cells -> Nat] /\ Unread \in 0..BufCap
        /\ \A i \in Cells : i < Unread => Moved[i] = consumed + i
    BY <1>0, MovedUnread
  <2>3. Unread + n <= BufCap /\ Unread - 0 = Unread /\ 0 \in 0..Unread
    BY <2>1, <2>2
  <2>4. \A i \in Cells : 0 <= i /\ i < Unread => Moved[i] = consumed + (i - 0)
    BY <2>2 DEF Cells
  <2>5. TypeOK' /\ StreamIntact'
    BY <1>0, <2>1, <2>2, <2>3, <2>4, FillKeeps
  <2> QED  BY <2>1, <2>5, <1>2 DEF Fill
<1>5. ASSUME UNCHANGED <<buf, r_pos, w_pos, need, cmd, received, consumed>>, pc' = "closed"
      PROVE  BufferInv'
  BY <1>0, <1>5 DEF BufferInv, TypeOK, StreamIntact, CommandIntact, NoCommandLeft, FrontHalf, Unread
<1>6. ASSUME Compacted
      PROVE  /\ buf' \in [Cells -> Nat]
             /\ Start \in 0..(BufCap \div 2) /\ w_pos' \in 0..BufCap
             /\ w_pos' - Start = Unread
             /\ \A i \in Cells : Start <= i /\ i < w_pos' => buf'[i] = consumed + (i - Start)
  BY <1>0, <1>6, CompactedUnread
<1>7. ASSUME NeedMore \/ DecodeError PROVE BufferInv'
  <2>1. /\ Compacted /\ r_pos' = Start /\ UNCHANGED <<need, cmd, received, consumed>>
        /\ pc' = "closed" \/ (pc' = "read" /\ Unread < need)
    BY <1>7 DEF NeedMore, DecodeError
  <2>2. Start \in 0..BufCap /\ Start <= w_pos' /\ w_pos' - Start = Unread
    BY <1>1, <1>6, <2>1, Half DEF Unread
  <2>3. TypeOK'
    BY <1>0, <1>6, <2>1, <2>2 DEF TypeOK
  <2>4. StreamIntact'
    BY <1>0, <1>6, <2>1, <2>2 DEF StreamIntact, Unread
  <2>5. CommandIntact' /\ NoCommandLeft' /\ FrontHalf'
    BY <1>6, <2>1, <2>2, Half DEF CommandIntact, NoCommandLeft, FrontHalf, Unread
  <2> QED  BY <2>3, <2>4, <2>5 DEF BufferInv
<1>8. ASSUME NEW n \in Lens, Decode(n) PROVE BufferInv'
  <2>1. /\ Compacted /\ Unread >= need /\ r_pos' = Start + need
        /\ cmd' = [pos |-> Start, len |-> need] /\ consumed' = consumed + need
        /\ need' = n /\ pc' = "handle" /\ received' = received
    BY <1>8 DEF Decode
  <2>2. Start \in 0..BufCap /\ w_pos' \in 0..BufCap /\ Start + need <= w_pos'
        /\ w_pos' - Start = Unread
    BY <1>1, <1>6, <2>1, Half DEF Unread
  <2>3. TypeOK'
    BY <1>0, <1>1, <1>6, <2>1, <2>2 DEF TypeOK
  <2>4. StreamIntact'
    <3>1. received' - consumed' = w_pos' - r_pos'
      <4>1. received = consumed + (w_pos' - Start)
        <5>1. received = consumed + Unread
          BY <1>0, <1>1 DEF StreamIntact, Unread
        <5> QED  BY <5>1, <2>2
      <4> QED  BY <1>1, <2>1, <2>2, <4>1
    <3>2. ASSUME NEW i \in Cells, r_pos' <= i, i < w_pos'
          PROVE  buf'[i] = consumed' + (i - r_pos')
      <4>1. i \in Int /\ Start <= i
        BY <1>1, <2>1, <2>2, <3>2 DEF Cells
      <4>2. buf'[i] = consumed + (i - Start)
        BY <1>6, <2>1, <3>2, <4>1
      <4> QED  BY <1>1, <2>1, <2>2, <4>1, <4>2
    <3> QED  BY <3>1, <3>2 DEF StreamIntact, Unread
  <2>5. CommandIntact'
    <3>1. ASSUME NEW i \in Cells, Start <= i, i < r_pos'
          PROVE  buf'[i] = consumed' - need + (i - Start)
      <4>1. i \in Int /\ i < w_pos'
        BY <1>1, <2>1, <2>2, <3>1 DEF Cells
      <4>2. buf'[i] = consumed + (i - Start)
        BY <1>6, <2>1, <3>1, <4>1
      <4> QED  BY <1>1, <2>1, <2>2, <4>1, <4>2
    <3> QED  BY <2>1, <3>1 DEF CommandIntact
  <2> QED  BY <2>1, <2>3, <2>4, <2>5 DEF BufferInv, NoCommandLeft, FrontHalf
<1>9. ASSUME Handle PROVE BufferInv'
  <2>1. pc' = "next" /\ cmd' = NoCmd /\ UNCHANGED <<buf, r_pos, w_pos, need, received, consumed>>
    BY <1>9 DEF Handle
  <2>2. TypeOK' /\ StreamIntact'
    BY <1>0, <2>1 DEF TypeOK, StreamIntact, Unread, NoCmd
  <2> QED  BY <2>1, <2>2, <1>2
<1>10. ASSUME UNCHANGED vars PROVE BufferInv'
  BY <1>0, <1>10 DEF vars, BufferInv, TypeOK, StreamIntact, CommandIntact, NoCommandLeft, FrontHalf, Unread
<1>11. ASSUME NoRoom \/ (\E n \in 1..MaxBytes : FeedFull(n)) PROVE BufferInv'
  BY <1>5, <1>11 DEF NoRoom, FeedFull
<1> QED  BY <1>3, <1>4, <1>7, <1>8, <1>9, <1>10, <1>11 DEF Next

\* The invariant holds in every reachable state.
LEMMA BufferInvariant == Spec => []BufferInv
  BY InitBuffer, NextBuffer, PTL DEF Spec

\* The positions stay inside the buffer, whatever the client sends.
THEOREM BufferTypeCorrect == Spec => []TypeOK
<1>1. BufferInv => TypeOK
  BY DEF BufferInv
<1> QED  BY <1>1, BufferInvariant, PTL

\* No byte of the stream is lost, repeated or reordered by compaction.
THEOREM StreamPreserved == Spec => []StreamIntact
<1>1. BufferInv => StreamIntact
  BY DEF BufferInv
<1> QED  BY <1>1, BufferInvariant, PTL

\* A handler's zero-copy arguments are its own command's bytes.
THEOREM CommandPreserved == Spec => []CommandIntact
<1>1. BufferInv => CommandIntact
  BY DEF BufferInv
<1> QED  BY <1>1, BufferInvariant, PTL

\* Dispatch leaves no whole command behind when it goes back to read.
THEOREM ReadsOnlyWhenNeeded == Spec => []NoCommandLeft
<1>1. BufferInv => NoCommandLeft
  BY DEF BufferInv
<1> QED  BY <1>1, BufferInvariant, PTL

\* The connection is closed for want of room only on a command longer than
\* half the buffer.
THEOREM HalfBufferFits == Spec => []RoomForHalf
<1>1. BufferInv => RoomForHalf
  <2> SUFFICES ASSUME BufferInv, pc = "read", Space = 0
               PROVE  need > BufCap - BufCap \div 2
    BY DEF RoomForHalf
  <2>1. r_pos <= BufCap \div 2 /\ w_pos - r_pos < need
    BY DEF BufferInv, FrontHalf, NoCommandLeft, Unread
  <2>2. r_pos \in Nat /\ w_pos \in Nat /\ need \in Nat
    BY BufferAssumption DEF BufferInv, TypeOK
  <2>3. w_pos = BufCap
    BY <2>2, BufferAssumption DEF Space
  <2> QED  BY <2>1, <2>2, <2>3, Half, BufferAssumption
<1> QED  BY <1>1, BufferInvariant, PTL
=============================================================================
