---------------------------- MODULE ServerProofs ----------------------------
(***************************************************************************)
(* For every number of clients, descriptors and events, every buffer size  *)
(* and every interleaving: the connection accounting is exact, no event of *)
(* a batch is stale, no connection is stranded by edge-triggered epoll,    *)
(* and what a client is sent is a prefix of what it is due.                *)
(***************************************************************************)
EXTENDS Server, FiniteSetTheorems, TLAPS

Kinds == {"reply", "big", "silent", "sub", "pub", "quit", "bad"}
Cmd == [kind : Kinds, ch : Channels \cup {None}]

\* A session; its unsent bytes always start at the front of the buffer.
Conn ==
  [phase : {"new", "backlog", "open", "gone"}, fd : Fds \cup {None},
   inq : Seq(Cmd), fin : {"no", "fin", "rst"}, inflight : 0..SockCap, wire : Seq(Nat),
   out : BOOLEAN, armed : BOOLEAN,
   wbuf : Seq(Nat), wsent : {0}, closed : BOOLEAN, sub : Channels \cup {None},
   due : Nat, ncmds : Nat]

\* The units k + 1, k + 2, ...
Numbered(s, k) == \A i \in 1..Len(s) : s[i] = k + i

\* On the wire w and in the buffer b are the units 1, 2, ... without a gap, of
\* those that are due, and all of them unless the connection is closed.
Stream(w, b, due, closed) ==
  /\ Numbered(w, 0) /\ Numbered(b, Len(w))
  /\ Len(w) + Len(b) <= due /\ (~closed => Len(w) + Len(b) = due)
  /\ Len(b) <= WriteCap

\* What holds of a session by itself.
Sound(r) ==
  /\ r \in Conn /\ Stream(r.wire, r.wbuf, r.due, r.closed)
  /\ r.wbuf # <<>> /\ r.fin # "rst" => r.out
  /\ r.out => r.wbuf # <<>> /\ r.phase = "open"

\* conn_count, the slab and the handler table agree with the open sessions.
Counts ==
  /\ IsFiniteSet(Open) /\ conn_count = Cardinality(Open) /\ blocks + conn_count = Blocks
  /\ conn_count \in Nat /\ blocks \in Nat

Table ==
  /\ handlers \in [Fds -> Clients \cup {None}]
  /\ \A c \in Open : conns[c].fd \in Fds /\ handlers[conns[c].fd] = c
  /\ \A f \in Fds : handlers[f] # None => handlers[f] \in Open /\ conns[handlers[f]].fd = f

\* The listen queue holds sessions that wait, each once.
Queue ==
  /\ backlog \in Seq(Clients)
  /\ \A i \in 1..Len(backlog) : conns[backlog[i]].phase = "backlog"
  /\ \A i, j \in 1..Len(backlog) : backlog[i] = backlog[j] => i = j

\* The thread, its batch, and the session being read, which is open and has
\* no event left in the batch.
Loop ==
  /\ pc \in {"poll", "dispatch", "accept", "read"} /\ cur \in Clients \cup {None}
  /\ pc = "read" <=> cur # None
  /\ pc = "poll" => batch = {}
  /\ batch \subseteq (Fds \X Clients) \cup {<<Listen, None>>}
  /\ \A e \in batch : e[1] # Listen => handlers[e[1]] = e[2]
  /\ cur # None => cur \in Open /\ <<conns[cur].fd, cur>> \notin batch

\* Nobody is stranded; a session being read that became writable is on the
\* ready list already, because the read loop will not look at it.
Woken ==
  \A c \in Open :
    /\ Ready(conns[c]) => conns[c].armed \/ Handled(c)
    /\ cur = c /\ conns[c].out /\ Writable(conns[c]) => conns[c].armed

\* q may take the place of r: the same session, not stranded unless r was.
Follows(r, q) ==
  /\ Sound(q) /\ q.phase = r.phase /\ q.fd = r.fd
  /\ r.phase = "open" =>
       /\ Ready(q) => q.armed \/ (Ready(r) /\ ~r.armed)
       /\ q.out /\ Writable(q) => q.armed \/ (r.out /\ Writable(r) /\ ~r.armed)

ServerInv ==
  /\ config \in Config /\ ring \in 0..RingCap
  /\ conns \in [Clients -> Conn] /\ \A c \in Clients : Sound(conns[c])
  /\ Counts /\ Table /\ Queue /\ Loop /\ Woken
-----------------------------------------------------------------------------
(* One connection *)

\* What concatenation returns, element by element.
LEMMA ConcatFacts ==
  ASSUME NEW S, NEW s \in Seq(S), NEW t \in Seq(S)
  PROVE  /\ s \o t \in Seq(S) /\ Len(s \o t) = Len(s) + Len(t)
         /\ \A i \in 1..Len(s) : (s \o t)[i] = s[i]
         /\ \A i \in (Len(s) + 1)..(Len(s) + Len(t)) : (s \o t)[i] = t[i - Len(s)]
OBVIOUS

\* What a subsequence returns, element by element.
LEMMA SubSeqFacts ==
  ASSUME NEW S, NEW s \in Seq(S), NEW m \in Nat, NEW n \in Nat, m <= n, n <= Len(s)
  PROVE  /\ SubSeq(s, m + 1, n) \in Seq(S) /\ Len(SubSeq(s, m + 1, n)) = n - m
         /\ \A i \in 1..(n - m) : SubSeq(s, m + 1, n)[i] = s[m + i]
OBVIOUS

\* Numbered units followed by the next ones.
LEMMA NumberedConcat ==
  ASSUME NEW k \in Nat, NEW s \in Seq(Nat), NEW t \in Seq(Nat),
         Numbered(s, k), Numbered(t, k + Len(s))
  PROVE  Numbered(s \o t, k)
<1>1. Len(s) \in Nat /\ Len(t) \in Nat /\ Len(s \o t) = Len(s) + Len(t)
  BY ConcatFacts
<1> SUFFICES ASSUME NEW i \in 1..(Len(s) + Len(t)) PROVE (s \o t)[i] = k + i
  BY <1>1 DEF Numbered
<1>2. CASE i \in 1..Len(s)
  BY <1>1, <1>2, ConcatFacts DEF Numbered
<1>3. CASE i \in (Len(s) + 1)..(Len(s) + Len(t))
  <2>1. i - Len(s) \in 1..Len(t)
    BY <1>1, <1>3
  <2>2. (s \o t)[i] = t[i - Len(s)]
    BY <1>1, <1>3, ConcatFacts
  <2>3. t[i - Len(s)] = (k + Len(s)) + (i - Len(s))
    BY <2>1 DEF Numbered
  <2> QED BY <1>1, <2>1, <2>2, <2>3
<1> QED BY <1>1, <1>2, <1>3

\* The first n units, and the rest.
LEMMA NumberedSplit ==
  ASSUME NEW k \in Nat, NEW s \in Seq(Nat), NEW n \in Nat, n <= Len(s), Numbered(s, k)
  PROVE  /\ SubSeq(s, 1, n) \in Seq(Nat) /\ Len(SubSeq(s, 1, n)) = n
         /\ Numbered(SubSeq(s, 1, n), k)
         /\ SubSeq(s, n + 1, Len(s)) \in Seq(Nat) /\ Len(SubSeq(s, n + 1, Len(s))) = Len(s) - n
         /\ Numbered(SubSeq(s, n + 1, Len(s)), k + n)
<1>1. Len(s) \in Nat
  OBVIOUS
<1>2. /\ SubSeq(s, 0 + 1, n) \in Seq(Nat) /\ Len(SubSeq(s, 0 + 1, n)) = n - 0
      /\ \A i \in 1..(n - 0) : SubSeq(s, 0 + 1, n)[i] = s[0 + i]
  BY <1>1, SubSeqFacts
<1>3. /\ SubSeq(s, 1, n) \in Seq(Nat) /\ Len(SubSeq(s, 1, n)) = n
      /\ \A i \in 1..n : SubSeq(s, 1, n)[i] = s[i]
  BY <1>2
<1>4. /\ SubSeq(s, n + 1, Len(s)) \in Seq(Nat) /\ Len(SubSeq(s, n + 1, Len(s))) = Len(s) - n
      /\ \A i \in 1..(Len(s) - n) : SubSeq(s, n + 1, Len(s))[i] = s[n + i]
  BY <1>1, SubSeqFacts
<1>5. Numbered(SubSeq(s, 1, n), k)
  BY <1>1, <1>3 DEF Numbered
<1>6. ASSUME NEW i \in 1..(Len(s) - n) PROVE SubSeq(s, n + 1, Len(s))[i] = (k + n) + i
  <2>1. n + i \in 1..Len(s)
    BY <1>1
  <2>2. s[n + i] = k + (n + i)
    BY <2>1 DEF Numbered
  <2> QED BY <1>1, <1>4, <2>2
<1>7. Numbered(SubSeq(s, n + 1, Len(s)), k + n)
  BY <1>4, <1>6 DEF Numbered
<1> QED BY <1>3, <1>4, <1>5, <1>7

\* The stream survives a write of n units, which all come from the buffer ...
LEMMA StreamFlush ==
  ASSUME NEW w \in Seq(Nat), NEW b \in Seq(Nat), NEW due \in Nat, NEW closed \in BOOLEAN,
         NEW n \in Nat, n <= Len(b), Stream(w, b, due, closed)
  PROVE  /\ w \o SubSeq(b, 1, n) \in Seq(Nat) /\ SubSeq(b, n + 1, Len(b)) \in Seq(Nat)
         /\ Stream(w \o SubSeq(b, 1, n), SubSeq(b, n + 1, Len(b)), due, closed)
         /\ n < Len(b) => SubSeq(b, n + 1, Len(b)) # <<>>
         /\ ~(n < Len(b)) => Stream(w \o SubSeq(b, 1, n), <<>>, due, closed)
<1> DEFINE h == SubSeq(b, 1, n)
           t == SubSeq(b, n + 1, Len(b))
           x == w \o h
<1>1. /\ Len(w) \in Nat /\ Len(b) \in Nat /\ WriteCap \in Nat
      /\ Numbered(w, 0) /\ Numbered(b, Len(w)) /\ Len(b) <= WriteCap
      /\ Len(w) + Len(b) <= due /\ (~closed => Len(w) + Len(b) = due)
  BY ServerAssumption DEF Stream
<1>2. /\ h \in Seq(Nat) /\ Len(h) = n /\ Numbered(h, Len(w))
      /\ t \in Seq(Nat) /\ Len(t) = Len(b) - n /\ Numbered(t, Len(w) + n)
  BY <1>1, NumberedSplit
<1> HIDE DEF h, t
<1>3. x \in Seq(Nat) /\ Len(x) = Len(w) + n
  BY <1>2, ConcatFacts
<1>4. Numbered(x, 0)
  <2>1. 0 + Len(w) = Len(w)
    BY <1>1
  <2> QED BY <1>1, <1>2, <2>1, NumberedConcat
<1> HIDE DEF x
<1>5. Len(x) + Len(t) = Len(w) + Len(b) /\ Len(t) <= Len(b)
  BY <1>1, <1>2, <1>3
<1>6. Stream(x, t, due, closed)
  <2>1. Len(t) <= WriteCap
    BY <1>1, <1>2
  <2> QED BY <1>1, <1>2, <1>3, <1>4, <1>5, <2>1 DEF Stream
<1>7. ASSUME ~(n < Len(b)) PROVE t = <<>>
  BY <1>1, <1>2, <1>7
<1>8. n < Len(b) => t # <<>>
  BY <1>1, <1>2
<1> QED BY <1>2, <1>3, <1>6, <1>7, <1>8 DEF h, t, x

\* ... and n more units queued behind those in the buffer, if they fit.
LEMMA StreamQueue ==
  ASSUME NEW w \in Seq(Nat), NEW b \in Seq(Nat), NEW due \in Nat, NEW closed \in BOOLEAN,
         NEW n \in Nat, Stream(w, b, due, closed)
  PROVE  /\ Stream(w, b, due, TRUE) /\ Stream(w, b, due + n, TRUE)
         /\ b \o [i \in 1..n |-> due + i] \in Seq(Nat)
         /\ ~closed /\ Len(b) + n <= WriteCap =>
              Stream(w, b \o [i \in 1..n |-> due + i], due + n, closed)
<1> DEFINE t == [i \in 1..n |-> due + i]
           x == b \o t
<1>0. Len(w) \in Nat /\ Len(b) \in Nat /\ WriteCap \in Nat
  BY ServerAssumption
<1>1. Stream(w, b, due, TRUE) /\ Stream(w, b, due + n, TRUE)
  BY <1>0 DEF Stream
<1>2. t \in Seq(Nat) /\ Len(t) = n /\ \A i \in 1..n : t[i] = due + i
  OBVIOUS
<1> HIDE DEF t
<1>3. x \in Seq(Nat) /\ Len(x) = Len(b) + n
  BY <1>2, ConcatFacts
<1>4. ASSUME ~closed, Len(b) + n <= WriteCap PROVE Stream(w, x, due + n, closed)
  <2>1. Len(w) + Len(b) = due /\ Numbered(w, 0) /\ Numbered(b, Len(w))
    BY <1>4 DEF Stream
  <2>2. Numbered(t, Len(w) + Len(b))
    BY <1>2, <2>1 DEF Numbered
  <2>3. Numbered(x, Len(w))
    BY <1>0, <1>2, <2>1, <2>2, NumberedConcat
  <2> HIDE DEF x
  <2>4. Len(w) + Len(x) = due + n /\ Len(x) <= WriteCap /\ due + n <= due + n
    <3> DEFINE lw == Len(w)
               lb == Len(b)
               lx == Len(x)
    <3>1. lw \in Nat /\ lb \in Nat /\ lx = lb + n /\ lw + lb = due /\ lb + n <= WriteCap
      BY <1>0, <1>3, <1>4, <2>1
    <3> HIDE DEF lw, lb, lx
    <3>2. lw + lx = due + n /\ lx <= WriteCap /\ due + n <= due + n
      BY <1>0, <3>1
    <3> QED BY <3>2 DEF lw, lx
  <2> QED BY <2>1, <2>3, <2>4 DEF Stream
<1> QED BY <1>1, <1>3, <1>4 DEF t, x

\* conn_flush shifts what write left to the front, so all of the buffer is unsent.
LEMMA PendingIsBuffer ==
  ASSUME NEW r \in Conn
  PROVE  Pending(r) = r.wbuf
<1>1. r.wbuf \in Seq(Nat) /\ r.wsent = 0
  BY DEF Conn
<1>2. SubSeq(r.wbuf, 1, Len(r.wbuf)) = r.wbuf
  BY <1>1
<1> QED BY <1>1, <1>2 DEF Pending

\* What conn_flush writes.
Written(r) == Least(Len(r.wbuf), SockCap - r.inflight)

\* One write takes no more than the buffer has and the socket has room for.
LEMMA WrittenFits ==
  ASSUME NEW r \in Conn
  PROVE  /\ Written(r) \in Nat /\ Written(r) <= Len(r.wbuf)
         /\ r.inflight + Written(r) \in 0..SockCap
<1>1. r.wbuf \in Seq(Nat) /\ r.inflight \in 0..SockCap /\ SockCap \in Nat
  BY ServerAssumption DEF Conn
<1>2. Len(r.wbuf) \in Nat
  BY <1>1
<1> QED BY <1>1, <1>2 DEF Written, Least

\* A flush that fails only closes the connection; one that does not moves
\* units from the buffer to the wire, and leaves EPOLLOUT armed exactly when
\* some remain.
LEMMA FlushResult ==
  ASSUME NEW r \in Conn
  PROVE  /\ r.wbuf # <<>> /\ r.fin = "rst" => conn_flush(r) = [r EXCEPT !.closed = TRUE]
         /\ ~(r.wbuf # <<>> /\ r.fin = "rst") /\ Written(r) < Len(r.wbuf) =>
              conn_flush(r) =
                [r EXCEPT !.wire = r.wire \o SubSeq(r.wbuf, 1, Written(r)),
                          !.inflight = r.inflight + Written(r),
                          !.wbuf = SubSeq(r.wbuf, Written(r) + 1, Len(r.wbuf)), !.wsent = 0,
                          !.out = TRUE,
                          !.armed = \/ r.armed \/ Readable(r)
                                    \/ r.inflight + Written(r) < SockCap \/ r.fin = "rst"]
         /\ ~(r.wbuf # <<>> /\ r.fin = "rst") /\ ~(Written(r) < Len(r.wbuf)) =>
              conn_flush(r) =
                [r EXCEPT !.wire = r.wire \o SubSeq(r.wbuf, 1, Written(r)),
                          !.inflight = r.inflight + Written(r), !.wbuf = <<>>, !.wsent = 0,
                          !.out = FALSE, !.armed = r.armed \/ Readable(r)]
<1> DEFINE n == Written(r)
           w == r.wire \o SubSeq(r.wbuf, 1, n)
           m == r.inflight + n
           b == SubSeq(r.wbuf, n + 1, Len(r.wbuf))
           s == [r EXCEPT !.wire = w, !.inflight = m]
<1>1. FlushFails(r) <=> r.wbuf # <<>> /\ r.fin = "rst"
  BY PendingIsBuffer DEF FlushFails
<1>2. conn_flush(r) =
        IF FlushFails(r) THEN [r EXCEPT !.closed = TRUE]
        ELSE IF n < Len(r.wbuf) THEN Mod([s EXCEPT !.wbuf = b, !.wsent = 0], TRUE)
        ELSE Mod([s EXCEPT !.wbuf = <<>>, !.wsent = 0], FALSE)
  BY PendingIsBuffer DEF conn_flush, Written
<1> HIDE DEF n, w, m, b
<1>3. [s EXCEPT !.wbuf = b, !.wsent = 0] = [r EXCEPT !.wire = w, !.inflight = m, !.wbuf = b, !.wsent = 0]
  OBVIOUS
<1>4. [s EXCEPT !.wbuf = <<>>, !.wsent = 0] = [r EXCEPT !.wire = w, !.inflight = m, !.wbuf = <<>>, !.wsent = 0]
  OBVIOUS
<1>5. ASSUME NEW x
      PROVE  Mod([r EXCEPT !.wire = w, !.inflight = m, !.wbuf = x, !.wsent = 0], TRUE) =
               [r EXCEPT !.wire = w, !.inflight = m, !.wbuf = x, !.wsent = 0, !.out = TRUE,
                         !.armed = r.armed \/ Readable(r) \/ m < SockCap \/ r.fin = "rst"]
  BY DEF Mod, Readable, Writable, Conn
<1>6. ASSUME NEW x
      PROVE  Mod([r EXCEPT !.wire = w, !.inflight = m, !.wbuf = x, !.wsent = 0], FALSE) =
               [r EXCEPT !.wire = w, !.inflight = m, !.wbuf = x, !.wsent = 0, !.out = FALSE,
                         !.armed = r.armed \/ Readable(r)]
  BY DEF Mod, Readable, Writable, Conn
<1> QED BY <1>1, <1>2, <1>3, <1>4, <1>5, <1>6, Zenon DEF n, w, m, b
\* conn_flush leaves a connection sound, with EPOLLOUT armed exactly while
\* units are unsent, and on the ready list if it can go on at once.
LEMMA FlushFollows ==
  ASSUME NEW r \in Conn, Stream(r.wire, r.wbuf, r.due, r.closed), r.phase = "open",
         r.out => r.wbuf # <<>>
  PROVE  /\ Follows(r, conn_flush(r))
         /\ conn_flush(r).inq = r.inq /\ conn_flush(r).due = r.due
         /\ r.closed => conn_flush(r).closed
         /\ ~FlushFails(r) => (Ready(conn_flush(r)) => conn_flush(r).armed)
<1> DEFINE n == Written(r)
           q == conn_flush(r)
           w == r.wire \o SubSeq(r.wbuf, 1, n)
           b == SubSeq(r.wbuf, n + 1, Len(r.wbuf))
<1>1. n \in Nat /\ n <= Len(r.wbuf) /\ r.inflight + n \in 0..SockCap
  BY WrittenFits
<1>2. /\ r.wire \in Seq(Nat) /\ r.wbuf \in Seq(Nat) /\ r.due \in Nat
      /\ r.closed \in BOOLEAN /\ r.armed \in BOOLEAN /\ r.out \in BOOLEAN
  BY DEF Conn
<1>3. /\ w \in Seq(Nat) /\ b \in Seq(Nat) /\ Stream(w, b, r.due, r.closed)
      /\ n < Len(r.wbuf) => b # <<>>
      /\ ~(n < Len(r.wbuf)) => Stream(w, <<>>, r.due, r.closed)
  <2> DEFINE wire == r.wire
             wbuf == r.wbuf
             due == r.due
             closed == r.closed
  <2>1. /\ wire \in Seq(Nat) /\ wbuf \in Seq(Nat) /\ due \in Nat /\ closed \in BOOLEAN
        /\ n \in Nat /\ n <= Len(wbuf) /\ Stream(wire, wbuf, due, closed)
    BY <1>1, <1>2
  <2> HIDE DEF n, wire, wbuf, due, closed
  <2>2. /\ wire \o SubSeq(wbuf, 1, n) \in Seq(Nat) /\ SubSeq(wbuf, n + 1, Len(wbuf)) \in Seq(Nat)
        /\ Stream(wire \o SubSeq(wbuf, 1, n), SubSeq(wbuf, n + 1, Len(wbuf)), due, closed)
        /\ n < Len(wbuf) => SubSeq(wbuf, n + 1, Len(wbuf)) # <<>>
        /\ ~(n < Len(wbuf)) => Stream(wire \o SubSeq(wbuf, 1, n), <<>>, due, closed)
    BY <2>1, StreamFlush
  <2> QED BY <2>2 DEF wire, wbuf, due, closed
<1>0. FlushFails(r) <=> r.wbuf # <<>> /\ r.fin = "rst"
  BY PendingIsBuffer DEF FlushFails
<1>4. CASE r.wbuf # <<>> /\ r.fin = "rst"
  <2>1. q = [r EXCEPT !.closed = TRUE]
    BY <1>4, FlushResult, Zenon
  <2> HIDE DEF q
  <2>2. /\ q \in Conn /\ q.phase = r.phase /\ q.fd = r.fd /\ q.inq = r.inq /\ q.fin = r.fin
        /\ q.inflight = r.inflight /\ q.wire = r.wire /\ q.out = r.out /\ q.armed = r.armed
        /\ q.wbuf = r.wbuf /\ q.closed = TRUE /\ q.due = r.due
    BY <2>1 DEF Conn
  <2>3. Stream(r.wire, r.wbuf, r.due, TRUE)
    BY <1>2, 0 \in Nat, StreamQueue
  <2>4. Sound(q)
    BY <1>2, <1>4, <2>2, <2>3 DEF Sound
  <2>5. Follows(r, q)
    BY <1>2, <2>2, <2>4 DEF Follows, Ready, Readable, Writable
  <2> QED BY <1>0, <1>4, <2>2, <2>5 DEF q
<1>5. CASE ~(r.wbuf # <<>> /\ r.fin = "rst") /\ n < Len(r.wbuf)
  <2> DEFINE a == r.armed \/ Readable(r) \/ r.inflight + n < SockCap \/ r.fin = "rst"
  <2>1. q = [r EXCEPT !.wire = w, !.inflight = r.inflight + n, !.wbuf = b, !.wsent = 0,
                      !.out = TRUE, !.armed = a]
    BY <1>5, FlushResult, Zenon
  <2>2. a \in BOOLEAN
    OBVIOUS
  <2> HIDE DEF q, w, b, n, a
  <2>3. /\ q \in Conn /\ q.phase = r.phase /\ q.fd = r.fd /\ q.inq = r.inq /\ q.fin = r.fin
        /\ q.inflight = r.inflight + n /\ q.wire = w /\ q.out = TRUE /\ q.armed = a
        /\ q.wbuf = b /\ q.closed = r.closed /\ q.due = r.due
    BY <1>1, <1>3, <2>1, <2>2 DEF Conn
  <2>4. Sound(q)
    BY <1>3, <1>5, <2>3 DEF Sound
  <2>5. (Ready(q) \/ Writable(q)) => q.armed
    BY <2>3 DEF Ready, Readable, Writable, a
  <2>6. Follows(r, q)
    BY <2>3, <2>4, <2>5 DEF Follows
  <2> QED BY <2>3, <2>5, <2>6 DEF q
<1>6. CASE ~(r.wbuf # <<>> /\ r.fin = "rst") /\ ~(n < Len(r.wbuf))
  <2> DEFINE a == r.armed \/ Readable(r)
  <2>1. q = [r EXCEPT !.wire = w, !.inflight = r.inflight + n, !.wbuf = <<>>, !.wsent = 0,
                      !.out = FALSE, !.armed = a]
    BY <1>6, FlushResult, Zenon
  <2>2. a \in BOOLEAN
    OBVIOUS
  <2> HIDE DEF q, w, n, a
  <2>3. <<>> \in Seq(Nat)
    OBVIOUS
  <2>4. /\ q \in Conn /\ q.phase = r.phase /\ q.fd = r.fd /\ q.inq = r.inq /\ q.fin = r.fin
        /\ q.inflight = r.inflight + n /\ q.wire = w /\ q.out = FALSE /\ q.armed = a
        /\ q.wbuf = <<>> /\ q.closed = r.closed /\ q.due = r.due
    BY <1>1, <1>3, <2>1, <2>2, <2>3 DEF Conn
  <2>5. Sound(q)
    BY <1>3, <1>6, <2>4 DEF Sound
  <2>6. Ready(q) => q.armed
    BY <2>4 DEF Ready, Readable, a
  <2>7. Follows(r, q)
    BY <2>4, <2>5, <2>6 DEF Follows
  <2> QED BY <2>4, <2>6, <2>7 DEF q
<1> QED BY <1>4, <1>5, <1>6

\* A session may stay as it is.
LEMMA FollowsItself ==
  ASSUME NEW r, Sound(r)
  PROVE  Follows(r, r)
<1>1. r.armed \in BOOLEAN
  BY DEF Sound, Conn
<1> QED BY <1>1 DEF Follows

\* Steps on a session may be taken one after the other.
LEMMA FollowsOn ==
  ASSUME NEW r, NEW q, NEW s, Follows(r, q), Follows(q, s)
  PROVE  Follows(r, s)
BY Zenon DEF Follows

\* Queueing a reply: dropped on a closed connection, closing it when the
\* buffer overflows, else behind what is unsent and flushed at once.
LEMMA QueueWriteFollows ==
  ASSUME NEW r, Sound(r), r.phase = "open", NEW n \in Nat
  PROVE  /\ Follows(r, conn_queue_write(r, n))
         /\ conn_queue_write(r, n).inq = r.inq /\ conn_queue_write(r, n).due = r.due + n
         /\ r.closed => conn_queue_write(r, n).closed
<1> DEFINE q == conn_queue_write(r, n)
           b == r.wbuf \o [i \in 1..n |-> r.due + i]
<1>1. /\ r \in Conn /\ r.wire \in Seq(Nat) /\ r.wbuf \in Seq(Nat) /\ r.due \in Nat
      /\ r.closed \in BOOLEAN /\ r.armed \in BOOLEAN /\ r.out \in BOOLEAN
      /\ Stream(r.wire, r.wbuf, r.due, r.closed) /\ (r.out => r.wbuf # <<>>)
      /\ (r.wbuf # <<>> /\ r.fin # "rst" => r.out)
  BY DEF Sound, Conn
<1>2. /\ Stream(r.wire, r.wbuf, r.due + n, TRUE) /\ b \in Seq(Nat) /\ r.due + n \in Nat
      /\ ~r.closed /\ Len(r.wbuf) + n <= WriteCap => Stream(r.wire, b, r.due + n, r.closed)
  <2> DEFINE wire == r.wire
             wbuf == r.wbuf
             due == r.due
             closed == r.closed
  <2>1. /\ wire \in Seq(Nat) /\ wbuf \in Seq(Nat) /\ due \in Nat /\ closed \in BOOLEAN
        /\ Stream(wire, wbuf, due, closed)
    BY <1>1
  <2> HIDE DEF wire, wbuf, due, closed
  <2>2. /\ Stream(wire, wbuf, due + n, TRUE) /\ wbuf \o [i \in 1..n |-> due + i] \in Seq(Nat)
        /\ ~closed /\ Len(wbuf) + n <= WriteCap =>
             Stream(wire, wbuf \o [i \in 1..n |-> due + i], due + n, closed)
    BY <2>1, StreamQueue, Zenon
  <2>3. due + n \in Nat
    BY <2>1
  <2> QED BY <2>2, <2>3, Zenon DEF wire, wbuf, due, closed
<1>3. CASE r.closed \/ Len(r.wbuf) + n > WriteCap
  <2>1. q = [r EXCEPT !.due = r.due + n, !.closed = TRUE]
    <3>1. CASE r.closed
      <4>1. q = [r EXCEPT !.due = r.due + n]
        BY <3>1 DEF conn_queue_write
      <4> QED BY <1>1, <3>1, <4>1 DEF Conn
    <3>2. CASE ~r.closed /\ Len(r.wbuf) + n > WriteCap
      BY <3>2 DEF conn_queue_write
    <3> QED BY <1>3, <3>1, <3>2
  <2> HIDE DEF q
  <2>2. /\ q \in Conn /\ q.phase = r.phase /\ q.fd = r.fd /\ q.inq = r.inq /\ q.fin = r.fin
        /\ q.inflight = r.inflight /\ q.wire = r.wire /\ q.out = r.out /\ q.armed = r.armed
        /\ q.wbuf = r.wbuf /\ q.closed = TRUE /\ q.due = r.due + n
    BY <1>1, <1>2, <2>1 DEF Conn
  <2>3. Sound(q)
    BY <1>1, <1>2, <2>2 DEF Sound
  <2>4. Follows(r, q)
    BY <1>1, <2>2, <2>3 DEF Follows, Ready, Readable, Writable
  <2> QED BY <2>2, <2>4 DEF q
<1>4. CASE ~r.closed /\ ~(Len(r.wbuf) + n > WriteCap)
  <2> DEFINE x == [r EXCEPT !.due = r.due + n, !.wbuf = b]
  <2>1. q = conn_flush(x)
    BY <1>4 DEF conn_queue_write
  <2> HIDE DEF q, b
  <2>2. /\ x \in Conn /\ x.phase = r.phase /\ x.fd = r.fd /\ x.inq = r.inq /\ x.fin = r.fin
        /\ x.inflight = r.inflight /\ x.wire = r.wire /\ x.out = r.out /\ x.armed = r.armed
        /\ x.wbuf = b /\ x.closed = r.closed /\ x.due = r.due + n
    BY <1>1, <1>2 DEF Conn
  <2> HIDE DEF x
  <2>3. Len(r.wbuf) + n <= WriteCap
    <3>1. Len(r.wbuf) \in Nat /\ WriteCap \in Nat
      BY <1>1, ServerAssumption
    <3> QED BY <1>4, <3>1
  <2>4. Stream(x.wire, x.wbuf, x.due, x.closed)
    BY <1>2, <1>4, <2>2, <2>3
  <2>5. r.wbuf # <<>> => b # <<>>
    <3> DEFINE wbuf == r.wbuf
               t == [i \in 1..n |-> r.due + i]
    <3>1. wbuf \in Seq(Nat) /\ t \in Seq(Nat)
      BY <1>1
    <3> HIDE DEF wbuf, t
    <3>2. wbuf # <<>> => wbuf \o t # <<>>
      BY <3>1
    <3> QED BY <3>2 DEF wbuf, t, b
  <2>6. /\ Follows(x, q) /\ q.inq = x.inq /\ q.due = x.due
    BY <1>1, <2>1, <2>2, <2>4, <2>5, FlushFollows
  <2>7. (Ready(x) <=> Ready(r)) /\ (Writable(x) <=> Writable(r))
    BY <2>2 DEF Ready, Readable, Writable
  <2>8. Follows(r, q)
    BY <2>2, <2>6, <2>7 DEF Follows
  <2> QED BY <1>4, <2>2, <2>6, <2>8 DEF q
<1> QED BY <1>3, <1>4

\* Taking a command off the input, and subscribing.
LEMMA TakeFollows ==
  ASSUME NEW r, Sound(r), r.inq # <<>>
  PROVE  LET q == [r EXCEPT !.inq = Tail(@)]
         IN  /\ Follows(r, q) /\ q.due = r.due /\ q.sub = r.sub /\ q.closed = r.closed
             /\ q.inq = Tail(r.inq)
<1> DEFINE t == Tail(r.inq)
           q == [r EXCEPT !.inq = t]
<1>1. /\ r \in Conn /\ r.inq \in Seq(Cmd) /\ r.armed \in BOOLEAN
  BY DEF Sound, Conn
<1>2. t \in Seq(Cmd)
  <2> DEFINE inq == r.inq
  <2>1. inq \in Seq(Cmd) /\ inq # <<>>
    BY <1>1
  <2> HIDE DEF inq
  <2>2. Tail(inq) \in Seq(Cmd)
    BY <2>1
  <2> QED BY <2>2 DEF inq
<1> HIDE DEF t
<1>3. /\ q \in Conn /\ q.phase = r.phase /\ q.fd = r.fd /\ q.inq = t /\ q.fin = r.fin
      /\ q.inflight = r.inflight /\ q.wire = r.wire /\ q.out = r.out /\ q.armed = r.armed
      /\ q.wbuf = r.wbuf /\ q.closed = r.closed /\ q.due = r.due /\ q.sub = r.sub
  BY <1>1, <1>2 DEF Conn
<1> HIDE DEF q
<1>4. Sound(q)
  BY <1>3 DEF Sound
<1>5. Follows(r, q)
  BY <1>1, <1>3, <1>4 DEF Follows, Ready, Readable, Writable
<1> QED BY <1>3, <1>5 DEF q, t

\* subscribe_command changes the channel of a session and nothing else.
LEMMA SubscribeFollows ==
  ASSUME NEW r, Sound(r), NEW ch \in Channels \cup {None}
  PROVE  LET q == [r EXCEPT !.sub = ch]
         IN  Follows(r, q) /\ q.closed = r.closed /\ q.inq = r.inq
<1> DEFINE q == [r EXCEPT !.sub = ch]
<1>1. r \in Conn /\ r.armed \in BOOLEAN
  BY DEF Sound, Conn
<1>3. /\ q \in Conn /\ q.phase = r.phase /\ q.fd = r.fd /\ q.inq = r.inq /\ q.fin = r.fin
      /\ q.inflight = r.inflight /\ q.wire = r.wire /\ q.out = r.out /\ q.armed = r.armed
      /\ q.wbuf = r.wbuf /\ q.closed = r.closed /\ q.due = r.due
  BY <1>1 DEF Conn
<1> HIDE DEF q
<1>4. Sound(q)
  BY <1>3 DEF Sound
<1>5. Follows(r, q)
  BY <1>1, <1>3, <1>4 DEF Follows, Ready, Readable, Writable
<1> QED BY <1>3, <1>5 DEF q
\* Input, an end of input or a reset, with the edge it raises.
LEMMA EdgeFollows ==
  ASSUME NEW r, Sound(r), NEW x \in Conn,
         x.phase = r.phase, x.fd = r.fd, x.inflight = r.inflight, x.wire = r.wire, x.out = r.out,
         x.wbuf = r.wbuf, x.closed = r.closed, x.due = r.due, r.fin = "rst" => x.fin = "rst"
  PROVE  Follows(r, Edge(x))
<1> DEFINE a == (x.phase = "open")
           q == [x EXCEPT !.armed = a]
<1>1. a \in BOOLEAN
  OBVIOUS
<1> HIDE DEF a
<1>2. /\ q \in Conn /\ q.phase = x.phase /\ q.fd = x.fd /\ q.fin = x.fin /\ q.wire = x.wire
      /\ q.out = x.out /\ q.armed = a /\ q.wbuf = x.wbuf /\ q.closed = x.closed /\ q.due = x.due
  BY <1>1 DEF Conn
<1> HIDE DEF q
<1>3. Sound(q)
  BY <1>2 DEF Sound
<1>4. Follows(r, q)
  BY <1>2, <1>3 DEF Follows, a
<1> QED BY <1>4 DEF q, a, Edge

\* The client takes a unit.
LEMMA ReceiveFollows ==
  ASSUME NEW r, Sound(r), r.inflight > 0
  PROVE  Follows(r, [r EXCEPT !.inflight = r.inflight - 1, !.armed = r.armed \/ r.out])
<1> DEFINE a == r.armed \/ r.out
           m == r.inflight - 1
           q == [r EXCEPT !.inflight = m, !.armed = a]
<1>1. r \in Conn /\ r.armed \in BOOLEAN /\ r.out \in BOOLEAN /\ r.inflight \in 0..SockCap /\ SockCap \in Nat
  BY ServerAssumption DEF Sound, Conn
<1>2. a \in BOOLEAN /\ m \in 0..SockCap
  BY <1>1
<1> HIDE DEF a, m
<1>3. /\ q \in Conn /\ q.phase = r.phase /\ q.fd = r.fd /\ q.inq = r.inq /\ q.fin = r.fin
      /\ q.inflight = m /\ q.wire = r.wire /\ q.out = r.out /\ q.armed = a
      /\ q.wbuf = r.wbuf /\ q.closed = r.closed /\ q.due = r.due
  BY <1>1, <1>2 DEF Conn
<1> HIDE DEF q
<1>4. Sound(q)
  BY <1>3 DEF Sound
<1>5. Ready(q) => q.armed \/ (Ready(r) /\ ~r.armed)
  BY <1>1, <1>3 DEF Ready, Readable, a
<1>6. q.out => q.armed
  BY <1>1, <1>3 DEF a
<1>7. Follows(r, q)
  BY <1>3, <1>4, <1>5, <1>6 DEF Follows
<1> QED BY <1>7 DEF q, a, m

\* A session that has not begun, waits, or is over.
LEMMA FreshSound ==
  ASSUME NEW p \in {"new", "backlog", "gone"}
  PROVE  Sound(Fresh(p)) /\ Fresh(p).phase = p /\ Fresh(p) \in Conn
<1>1. Fresh(p) \in Conn
  BY ServerAssumption DEF Fresh, Conn
<1>2. Stream(<<>>, <<>>, 0, FALSE)
  BY ServerAssumption DEF Stream, Numbered
<1> QED BY <1>1, <1>2 DEF Sound, Fresh
-----------------------------------------------------------------------------
(* All connections *)

\* cs may take the place of conns.
Kept(cs) == cs \in [Clients -> Conn] /\ \A c \in Clients : Follows(conns[c], cs[c])

\* A step that changes sessions this way, the ring, and the batch by events
\* whose sessions are on the ready list if they can go on.
LEMMA KeptStep ==
  ASSUME ServerInv, Kept(conns'), ring' \in 0..RingCap, batch' \subseteq batch,
         \A c \in Open : <<conns[c].fd, c>> \in batch \ batch' => (Ready(conns'[c]) => conns'[c].armed),
         UNCHANGED <<config, handlers, backlog, conn_count, blocks, pc, cur>>
  PROVE  ServerInv'
<1>1. /\ conns' \in [Clients -> Conn]
      /\ \A c \in Clients : Follows(conns[c], conns'[c])
  BY DEF Kept
<1>2. \A c \in Clients : /\ conns'[c].phase = conns[c].phase /\ conns'[c].fd = conns[c].fd
                         /\ Sound(conns'[c])
  BY <1>1 DEF Follows
<1>3. Open' = Open
  BY <1>2 DEF Open
<1>4. Counts'
  BY <1>3 DEF ServerInv, Counts, Blocks
<1>5. Table'
  BY <1>2, <1>3 DEF ServerInv, Table, Open
<1>6. Queue'
  <2>0. backlog \in Seq(Clients)
    BY DEF ServerInv, Queue
  <2>1. \A i \in 1..Len(backlog) : backlog[i] \in Clients
    BY <2>0
  <2> QED BY <1>2, <2>1 DEF ServerInv, Queue
<1>7. Loop'
  BY <1>2, <1>3 DEF ServerInv, Loop, Open
<1>8. Woken'
  <2> SUFFICES ASSUME NEW c \in Open
               PROVE  /\ Ready(conns'[c]) => conns'[c].armed \/ Handled(c)'
                      /\ cur = c /\ conns'[c].out /\ Writable(conns'[c]) => conns'[c].armed
    BY <1>3 DEF Woken
  <2>1. c \in Clients /\ conns[c].phase = "open"
    BY DEF Open
  <2>2. /\ Ready(conns[c]) => conns[c].armed \/ Handled(c)
        /\ cur = c /\ conns[c].out /\ Writable(conns[c]) => conns[c].armed
    BY DEF ServerInv, Woken
  <2>3. Handled(c)' \/ ~Handled(c) \/ (Ready(conns'[c]) => conns'[c].armed)
    BY <1>2, <2>1 DEF Handled
  <2>4. Follows(conns[c], conns'[c])
    BY <1>1, <2>1
  <2> QED BY <2>1, <2>2, <2>3, <2>4 DEF Follows
<1> QED BY <1>1, <1>2, <1>4, <1>5, <1>6, <1>7, <1>8 DEF ServerInv
\* conn_destroy, for a session being handled: its block, its descriptor's
\* handler and its place in the count go with it.
LEMMA DestroyStep ==
  ASSUME ServerInv, NEW cs, Kept(cs), NEW c \in Open, Destroy(cs, c), ring' \in 0..RingCap,
         cur \in {None, c}, cur' = None, pc' = "dispatch",
         batch' = batch \ {<<conns[c].fd, c>>}, UNCHANGED <<config, backlog>>
  PROVE  ServerInv'
<1> DEFINE g == Fresh("gone")
<1>0. /\ c \in Clients /\ conns[c].phase = "open" /\ None \notin Clients /\ Listen \notin Fds
      /\ conns[c].fd \in Fds /\ handlers[conns[c].fd] = c
  BY ServerAssumption DEF Open, ServerInv, Table, Listen
<1>1. /\ cs \in [Clients -> Conn] /\ \A d \in Clients : Follows(conns[d], cs[d])
      /\ cs[c].fd = conns[c].fd
  BY <1>0 DEF Kept, Follows
<1>2. Sound(g) /\ g.phase = "gone" /\ g \in Conn
  BY FreshSound
<1> HIDE DEF g
<1>3. conns' = [cs EXCEPT ![c] = g]
  BY DEF Destroy, g
<1>4. conns' \in [Clients -> Conn] /\ conns'[c] = g /\ \A d \in Clients \ {c} : conns'[d] = cs[d]
  BY <1>0, <1>1, <1>2, <1>3
<1>5. \A d \in Clients : Sound(conns'[d])
  BY <1>1, <1>2, <1>4 DEF Follows
<1>6. \A d \in Clients \ {c} : conns'[d].phase = conns[d].phase /\ conns'[d].fd = conns[d].fd
  BY <1>1, <1>4 DEF Follows
<1>7. Open' = Open \ {c}
  BY <1>0, <1>2, <1>4, <1>6 DEF Open
<1>8. /\ handlers \in [Fds -> Clients \cup {None}] /\ handlers' = [handlers EXCEPT ![conns[c].fd] = None]
      /\ conn_count' = conn_count - 1 /\ blocks' = blocks + 1
  BY <1>1 DEF Destroy, event_loop_del, ServerInv, Table
<1>9. Counts'
  <2>1. IsFiniteSet(Open) /\ IsFiniteSet(Open \ {c}) /\ Cardinality(Open \ {c}) = Cardinality(Open) - 1
    BY FS_RemoveElement DEF ServerInv, Counts
  <2>2. Cardinality(Open \ {c}) \in Nat
    BY <2>1, FS_CardinalityType
  <2>3. /\ conn_count \in Nat /\ blocks \in Nat /\ conn_count = Cardinality(Open)
        /\ blocks + conn_count = Blocks /\ Blocks' = Blocks
    BY DEF ServerInv, Counts, Blocks
  <2>4. /\ conn_count' = Cardinality(Open \ {c}) /\ blocks' + conn_count' = blocks + conn_count
        /\ conn_count' \in Nat /\ blocks' \in Nat
    BY <1>8, <2>1, <2>2, <2>3
  <2> QED BY <1>7, <2>1, <2>3, <2>4 DEF Counts
<1>10. Table'
  <2>1. handlers' \in [Fds -> Clients \cup {None}]
    BY <1>0, <1>8
  <2>2. ASSUME NEW d \in Open \ {c} PROVE conns'[d].fd \in Fds /\ handlers'[conns'[d].fd] = d
    <3>1. d \in Clients \ {c} /\ conns[d].fd \in Fds /\ handlers[conns[d].fd] = d
      BY DEF ServerInv, Table, Open
    <3> QED BY <1>0, <1>6, <1>8, <3>1
  <2>3. ASSUME NEW f \in Fds, handlers'[f] # None
        PROVE  handlers'[f] \in Open \ {c} /\ conns'[handlers'[f]].fd = f
    <3>1. f # conns[c].fd /\ handlers'[f] = handlers[f]
      BY <1>0, <1>8, <2>3
    <3>2. handlers[f] \in Open /\ conns[handlers[f]].fd = f
      BY <2>3, <3>1 DEF ServerInv, Table
    <3>3. handlers[f] \in Clients \ {c}
      BY <3>1, <3>2 DEF Open
    <3> QED BY <1>6, <3>1, <3>2, <3>3
  <2> QED BY <1>7, <2>1, <2>2, <2>3 DEF Table
<1>11. Queue'
  <2>1. /\ \A i \in 1..Len(backlog) : backlog[i] \in Clients \ {c}
    BY <1>0 DEF ServerInv, Queue
  <2> QED BY <1>6, <2>1 DEF ServerInv, Queue
<1>12. Loop'
  <2>1. ASSUME NEW e \in batch', e[1] # Listen PROVE handlers'[e[1]] = e[2]
    <3>1. e \in batch /\ e # <<conns[c].fd, c>> /\ handlers[e[1]] = e[2] /\ e \in Fds \X Clients
      BY <2>1 DEF ServerInv, Loop, Listen
    <3>2. e[1] # conns[c].fd
      BY <1>0, <3>1
    <3> QED BY <1>8, <3>1, <3>2
  <2> QED BY <2>1 DEF ServerInv, Loop
<1>13. Woken'
  <2> SUFFICES ASSUME NEW d \in Open \ {c}
               PROVE  Ready(conns'[d]) => conns'[d].armed \/ Handled(d)'
    BY <1>0, <1>7 DEF Woken, Open
  <2>1. d \in Clients \ {c} /\ conns[d].phase = "open" /\ d # None
    BY <1>0 DEF Open
  <2>2. Ready(conns[d]) => conns[d].armed \/ Handled(d)
    BY DEF ServerInv, Woken
  <2>3. Handled(d) => Handled(d)'
    <3>1. <<conns[d].fd, d>> # <<conns[c].fd, c>> /\ conns'[d].fd = conns[d].fd /\ cur # d
      BY <1>6, <2>1
    <3> QED BY <3>1 DEF Handled
  <2>4. Follows(conns[d], conns'[d])
    BY <1>1, <1>4, <2>1
  <2> QED BY <2>1, <2>2, <2>3, <2>4 DEF Follows
<1> QED BY <1>4, <1>5, <1>9, <1>10, <1>11, <1>12, <1>13 DEF ServerInv
\* The sessions as they are may take their own place.
LEMMA ConnsKept ==
  ASSUME ServerInv
  PROVE  Kept(conns)
BY FollowsItself DEF ServerInv, Kept

\* One session is replaced.
LEMMA OneKept ==
  ASSUME NEW cs, Kept(cs), NEW c \in Clients, NEW q, Follows(cs[c], q)
  PROVE  Kept([cs EXCEPT ![c] = q])
<1>1. q \in Conn
  BY DEF Follows, Sound
<1>2. Follows(conns[c], q)
  BY FollowsOn DEF Kept
<1> QED BY <1>1, <1>2 DEF Kept

\* The session that conn_on_readable reads is open.
LEMMA Reading ==
  ASSUME ServerInv, pc = "read"
  PROVE  cur \in Open /\ cur \in Clients /\ conns[cur].phase = "open" /\ Sound(conns[cur])
BY DEF ServerInv, Loop, Open

\* conn_queue_write of a reply keeps every session sound and only touches the one read.
LEMMA ReplyKept ==
  ASSUME ServerInv, pc = "read", NEW cs, Kept(cs), NEW n \in Nat
  PROVE  /\ Kept(Reply(cs, n))
         /\ Reply(cs, n)[cur].inq = cs[cur].inq
         /\ cs[cur].closed => Reply(cs, n)[cur].closed
         /\ \A c \in Clients \ {cur} : Reply(cs, n)[c] = cs[c]
<1>1. cur \in Clients /\ conns[cur].phase = "open" /\ Follows(conns[cur], cs[cur])
  BY Reading DEF Kept
<1>2. Sound(cs[cur]) /\ cs[cur].phase = "open"
  BY <1>1 DEF Follows
<1> DEFINE q == conn_queue_write(cs[cur], n)
<1>3. Follows(cs[cur], q) /\ q.inq = cs[cur].inq /\ (cs[cur].closed => q.closed)
  BY <1>2, QueueWriteFollows
<1> HIDE DEF q
<1>4. Reply(cs, n) = [cs EXCEPT ![cur] = q]
  BY Zenon DEF Reply, q, Kept
<1>5. Kept([cs EXCEPT ![cur] = q])
  BY <1>1, <1>3, OneKept
<1> QED BY <1>1, <1>3, <1>4, <1>5 DEF Kept

\* The loop of publish_command keeps every session sound, and makes a message due
\* to the subscribers of its channel alone.
LEMMA BroadcastKept ==
  ASSUME ServerInv, NEW cs, Kept(cs), NEW ch
  PROVE  /\ Kept(Broadcast(cs, ch))
         /\ \A c \in Clients :
              /\ Broadcast(cs, ch)[c].inq = cs[c].inq
              /\ cs[c].closed => Broadcast(cs, ch)[c].closed
              /\ Broadcast(cs, ch)[c].due =
                   IF cs[c].phase = "open" /\ cs[c].sub = ch THEN cs[c].due + MsgSize ELSE cs[c].due
<1> DEFINE B == Broadcast(cs, ch)
<1>0. MsgSize \in Nat
  BY ServerAssumption
<1>1. ASSUME NEW c \in Clients
      PROVE  /\ Follows(conns[c], B[c]) /\ B[c] \in Conn
             /\ B[c].inq = cs[c].inq /\ (cs[c].closed => B[c].closed)
             /\ B[c].due = IF cs[c].phase = "open" /\ cs[c].sub = ch THEN cs[c].due + MsgSize ELSE cs[c].due
  <2>1. Follows(conns[c], cs[c]) /\ Sound(cs[c]) /\ cs[c] \in Conn
    BY DEF Kept, Follows, Sound
  <2>2. CASE cs[c].phase = "open" /\ cs[c].sub = ch
    <3> DEFINE q == conn_queue_write(cs[c], MsgSize)
    <3>1. B[c] = q
      BY <2>2 DEF Broadcast
    <3>2. /\ Follows(cs[c], q) /\ q.inq = cs[c].inq /\ q.due = cs[c].due + MsgSize
          /\ cs[c].closed => q.closed
      BY <1>0, <2>1, <2>2, QueueWriteFollows
    <3> HIDE DEF q, B
    <3>3. Follows(conns[c], q) /\ q \in Conn
      BY <2>1, <3>2, FollowsOn, Zenon DEF Follows, Sound
    <3> QED BY <2>2, <3>1, <3>2, <3>3
  <2>3. CASE ~(cs[c].phase = "open" /\ cs[c].sub = ch)
    <3>1. B[c] = cs[c]
      BY <2>3 DEF Broadcast
    <3> HIDE DEF B
    <3> QED BY <2>1, <2>3, <3>1
  <2> QED BY <2>2, <2>3
<1>2. B \in [Clients -> Conn]
  <2>1. B = [c \in Clients |-> B[c]]
    BY DEF Broadcast
  <2> HIDE DEF B
  <2> QED BY <1>1, <2>1
<1> QED BY <1>1, <1>2 DEF Kept

\* Taking a command from the input keeps every session sound.
LEMMA TakenKept ==
  ASSUME ServerInv, pc = "read", conns[cur].inq # <<>>
  PROVE  /\ Kept(Taken) /\ Taken[cur].closed = conns[cur].closed
         /\ Taken[cur].inq = Tail(conns[cur].inq)
         /\ \A c \in Clients : /\ Taken[c].phase = conns[c].phase /\ Taken[c].sub = conns[c].sub
                               /\ Taken[c].due = conns[c].due
<1> DEFINE q == [conns[cur] EXCEPT !.inq = Tail(@)]
<1>1. cur \in Clients /\ Sound(conns[cur]) /\ conns \in [Clients -> Conn]
  BY Reading DEF ServerInv
<1>2. /\ Follows(conns[cur], q) /\ q.due = conns[cur].due /\ q.sub = conns[cur].sub
      /\ q.closed = conns[cur].closed /\ q.inq = Tail(conns[cur].inq)
  BY <1>1, TakeFollows
<1>3. Taken = [conns EXCEPT ![cur] = q]
  BY DEF Taken
<1> HIDE DEF q
<1>4. Kept([conns EXCEPT ![cur] = q])
  BY <1>1, <1>2, ConnsKept, OneKept
<1>5. q.phase = conns[cur].phase
  BY <1>2 DEF Follows
<1> QED BY <1>1, <1>2, <1>3, <1>4, <1>5

\* The end of a command: the session is destroyed if its output was closed.
LEMMA FinishStep ==
  ASSUME ServerInv, pc = "read", NEW cs, Kept(cs), Finish(cs), ring' \in 0..RingCap,
         UNCHANGED <<config, backlog, batch>>
  PROVE  ServerInv'
<1>1. cur \in Open /\ batch = batch \ {<<conns[cur].fd, cur>>}
  BY Reading DEF ServerInv, Loop
<1>2. CASE Destroy(cs, cur) /\ pc' = "dispatch" /\ cur' = None
  BY <1>1, <1>2, DestroyStep
<1>3. CASE conns' = cs /\ UNCHANGED <<handlers, conn_count, blocks, pc, cur>>
  BY <1>3, KeptStep
<1> QED BY <1>2, <1>3 DEF Finish
-----------------------------------------------------------------------------
(* The steps of the thread and of the clients *)

\* The server starts without connections.
LEMMA ServerInit == Init => ServerInv
<1> SUFFICES ASSUME Init PROVE ServerInv
  OBVIOUS
<1> DEFINE n == Fresh("new")
<1>1. Sound(n) /\ n.phase = "new" /\ n \in Conn
  BY FreshSound
<1> HIDE DEF n
<1>2. conns = [c \in Clients |-> n] /\ config \in Config
  BY ServerAssumption DEF Init, n
<1>3. Open = {}
  BY <1>1, <1>2 DEF Open
<1>4. Counts
  <2>1. config.max_connections \in Nat
    BY <1>2 DEF Config
  <2>2. Blocks \in Nat
    BY <2>1 DEF Blocks
  <2> QED BY <1>3, <2>2, FS_EmptySet DEF Init, Counts
<1>5. Table /\ Queue /\ Loop /\ Woken
  BY <1>3 DEF Init, Table, Queue, Loop, Woken
<1> QED BY <1>1, <1>2, <1>4, <1>5, ServerAssumption DEF ServerInv, Init

\* epoll_wait takes sessions off the ready list into the batch.
LEMMA EpollWaitKeeps == ServerInv /\ EpollWait => ServerInv'
<1> SUFFICES ASSUME ServerInv, EpollWait PROVE ServerInv'
  OBVIOUS
<1>1. PICK b \in SUBSET ReadyEvents :
        /\ batch' = b
        /\ conns' = [c \in Clients |->
             [conns[c] EXCEPT !.armed = @ /\ <<conns[c].fd, c>> \in ReadyEvents \ b]]
  BY DEF EpollWait
<1>2. /\ pc = "poll" /\ pc' = "dispatch" /\ cur = None /\ cur' = None /\ batch = {}
      /\ UNCHANGED <<config, handlers, backlog, conn_count, blocks, ring>>
  BY DEF EpollWait, ServerInv, Loop
<1>3. ASSUME NEW c \in Clients
      PROVE  /\ Sound(conns'[c]) /\ conns'[c] \in Conn
             /\ conns'[c].phase = conns[c].phase /\ conns'[c].fd = conns[c].fd
             /\ Ready(conns'[c]) <=> Ready(conns[c])
             /\ conns'[c].armed <=> conns[c].armed /\ <<conns[c].fd, c>> \in ReadyEvents \ b
  <2> DEFINE r == conns[c]
             a == r.armed /\ <<r.fd, c>> \in ReadyEvents \ b
             q == [r EXCEPT !.armed = a]
  <2>1. conns'[c] = q
    BY <1>1
  <2>2. Sound(r) /\ r \in Conn /\ r.armed \in BOOLEAN
    BY DEF ServerInv, Sound, Conn
  <2>3. a \in BOOLEAN
    BY <2>2
  <2> HIDE DEF r, a
  <2>4. /\ q \in Conn /\ q.phase = r.phase /\ q.fd = r.fd /\ q.inq = r.inq /\ q.fin = r.fin
        /\ q.inflight = r.inflight /\ q.wire = r.wire /\ q.out = r.out /\ q.armed = a
        /\ q.wbuf = r.wbuf /\ q.closed = r.closed /\ q.due = r.due
    BY <2>2, <2>3 DEF Conn
  <2> HIDE DEF q
  <2>5. Sound(q)
    BY <2>2, <2>4 DEF Sound
  <2>6. Ready(q) <=> Ready(r)
    BY <2>4 DEF Ready, Readable, Writable
  <2> QED BY <2>1, <2>4, <2>5, <2>6 DEF r, a
<1>4. conns' \in [Clients -> Conn]
  <2>1. conns' = [c \in Clients |-> conns'[c]]
    BY <1>1
  <2> QED BY <1>3, <2>1
<1>5. Open' = Open
  BY <1>3 DEF Open
<1>6. Counts' /\ Table'
  <2>1. Counts'
    BY <1>2, <1>5 DEF ServerInv, Counts, Blocks
  <2>2. Table'
    BY <1>2, <1>3, <1>5 DEF ServerInv, Table, Open
  <2> QED BY <2>1, <2>2
<1>7. Queue'
  <2>1. \A i \in 1..Len(backlog) : backlog[i] \in Clients
    BY DEF ServerInv, Queue
  <2> QED BY <1>2, <1>3, <2>1 DEF ServerInv, Queue
<1>8. Loop'
  <2>1. ASSUME NEW e \in b
        PROVE  e \in (Fds \X Clients) \cup {<<Listen, None>>} /\ (e[1] # Listen => handlers[e[1]] = e[2])
    <3>1. e = <<Listen, None>> \/ \E c \in Open : e = <<conns[c].fd, c>>
      BY DEF ReadyEvents
    <3>2. ASSUME NEW c \in Open, e = <<conns[c].fd, c>>
          PROVE  e \in Fds \X Clients /\ handlers[e[1]] = e[2]
      BY <3>2 DEF ServerInv, Table, Open
    <3> QED BY <3>1, <3>2
  <2> QED BY <1>1, <1>2, <2>1 DEF Loop
<1>9. Woken'
  <2> SUFFICES ASSUME NEW c \in Open, Ready(conns'[c])
               PROVE  conns'[c].armed \/ <<conns[c].fd, c>> \in b
    BY <1>1, <1>2, <1>3, <1>5, ServerAssumption DEF Woken, Handled, Open
  <2>1. c \in Clients /\ c # None /\ Ready(conns[c])
    BY <1>3, ServerAssumption DEF Open
  <2>2. conns[c].armed
    BY <1>2, <2>1 DEF ServerInv, Woken, Handled
  <2>3. <<conns[c].fd, c>> \in ReadyEvents
    BY <2>1, <2>2 DEF ReadyEvents
  <2> QED BY <1>3, <2>1, <2>2, <2>3
<1> QED BY <1>2, <1>3, <1>4, <1>6, <1>7, <1>8, <1>9 DEF ServerInv

\* Nothing but the thread's place changes.
LEMMA LoopOnly ==
  ASSUME ServerInv, Loop', Woken',
         UNCHANGED <<config, conns, handlers, backlog, conn_count, blocks, ring>>
  PROVE  ServerInv'
BY DEF ServerInv, Counts, Table, Queue, Open, Blocks

\* event_loop_run_once calls the handler of one connection: a flush, or a read begins.
LEMMA DispatchKeeps ==
  ASSUME ServerInv, NEW e \in batch, Dispatch(e)
  PROVE  ServerInv'
<1> DEFINE f == e[1]
           c == e[2]
<1>1. /\ e \in Fds \X Clients /\ handlers[f] = c /\ cur = None /\ pc = "dispatch"
      /\ None \notin Clients /\ c \in Clients /\ c # None /\ f \in Fds /\ e = <<f, c>>
  BY ServerAssumption DEF Dispatch, ServerInv, Loop, Listen
<1>2. c \in Open /\ conns[c].fd = f /\ conns[c].phase = "open" /\ Sound(conns[c])
  BY <1>1 DEF ServerInv, Table, Open
<1>3. batch' = batch \ {<<conns[c].fd, c>>} /\ UNCHANGED <<config, backlog, ring>>
  BY <1>1, <1>2 DEF Dispatch
<1>4. ring' \in 0..RingCap
  BY <1>3 DEF ServerInv
<1>5. ASSUME NEW d \in Open \ {c} PROVE <<conns[d].fd, d>> \in batch <=> <<conns[d].fd, d>> \in batch'
  BY <1>3
<1> HIDE DEF f, c
<1>6. CASE /\ ~conns[c].out /\ pc' = "read" /\ cur' = c
           /\ UNCHANGED <<conns, handlers, conn_count, blocks>>
  <2>1. Loop'
    <3>1. cur' \in Open' /\ <<conns'[cur'].fd, cur'>> \notin batch'
      BY <1>2, <1>3, <1>6 DEF Open
    <3> QED BY <1>1, <1>3, <1>6, <3>1 DEF ServerInv, Loop
  <2>2. Woken'
    <3> SUFFICES ASSUME NEW d \in Open
                 PROVE  /\ Ready(conns[d]) => conns[d].armed \/ Handled(d)'
                        /\ c = d /\ conns[d].out /\ Writable(conns[d]) => conns[d].armed
      BY <1>6 DEF Woken, Open
    <3>1. CASE d = c
      BY <1>6, <3>1 DEF Handled
    <3>2. CASE d # c
      <4>1. Handled(d) => Handled(d)'
        BY <1>1, <1>5, <1>6, <3>2, ServerAssumption DEF Handled, Open
      <4> QED BY <3>2, <4>1 DEF ServerInv, Woken
    <3> QED BY <3>1, <3>2
  <2> QED BY <1>3, <1>6, <2>1, <2>2, LoopOnly
<1>7. CASE Destroy(conns, c) /\ UNCHANGED <<pc, cur>>
  BY <1>1, <1>2, <1>3, <1>4, <1>7, ConnsKept, DestroyStep
<1>8. CASE /\ conns[c].out /\ ~FlushFails(conns[c])
           /\ conns' = [conns EXCEPT ![c] = conn_flush(@)]
           /\ UNCHANGED <<handlers, conn_count, blocks, pc, cur>>
  <2> DEFINE r == conns[c]
             q == conn_flush(r)
  <2>1. /\ r \in Conn /\ Stream(r.wire, r.wbuf, r.due, r.closed) /\ r.phase = "open"
        /\ r.out => r.wbuf # <<>>
    BY <1>2 DEF Sound
  <2>2. Follows(r, q) /\ (Ready(q) => q.armed)
    BY <1>8, <2>1, FlushFollows
  <2>3. conns' = [conns EXCEPT ![c] = q]
    BY <1>8
  <2> HIDE DEF q
  <2>4. Kept(conns') /\ conns'[c] = q
    BY <1>2, <2>2, <2>3, ConnsKept, OneKept DEF Open, Kept
  <2>5. ASSUME NEW d \in Open, <<conns[d].fd, d>> \in batch \ batch'
        PROVE  Ready(conns'[d]) => conns'[d].armed
    <3>1. d = c
      BY <1>3, <2>5
    <3> QED BY <2>2, <2>4, <3>1
  <2> QED BY <1>3, <1>4, <1>8, <2>4, <2>5, KeptStep
<1> QED BY <1>1, <1>6, <1>7, <1>8 DEF Dispatch, f, c
\* The first of the listen queue is taken off it.
LEMMA QueuePop ==
  ASSUME ServerInv, backlog # <<>>, backlog' = Tail(backlog),
         \A d \in Clients \ {Head(backlog)} : conns'[d].phase = conns[d].phase
  PROVE  Queue'
<1>1. /\ backlog \in Seq(Clients) /\ Len(backlog) \in Nat \ {0} /\ Head(backlog) = backlog[1]
      /\ Tail(backlog) \in Seq(Clients) /\ Len(Tail(backlog)) = Len(backlog) - 1
      /\ \A i \in 1..(Len(backlog) - 1) : Tail(backlog)[i] = backlog[i + 1]
  BY DEF ServerInv, Queue
<1>2. ASSUME NEW i \in 1..(Len(backlog) - 1)
      PROVE  Tail(backlog)[i] \in Clients \ {Head(backlog)} /\ conns[Tail(backlog)[i]].phase = "backlog"
  <2>1. i + 1 \in 1..Len(backlog) /\ 1 \in 1..Len(backlog) /\ i + 1 # 1
    BY <1>1
  <2>2. backlog[i + 1] # backlog[1] /\ conns[backlog[i + 1]].phase = "backlog" /\ backlog[i + 1] \in Clients
    BY <2>1 DEF ServerInv, Queue
  <2> QED BY <1>1, <2>2
<1>3. ASSUME NEW i \in 1..(Len(backlog) - 1), NEW j \in 1..(Len(backlog) - 1),
             Tail(backlog)[i] = Tail(backlog)[j]
      PROVE  i = j
  <2>1. i + 1 \in 1..Len(backlog) /\ j + 1 \in 1..Len(backlog) /\ backlog[i + 1] = backlog[j + 1]
    BY <1>1, <1>3
  <2>2. i + 1 = j + 1
    BY <2>1 DEF ServerInv, Queue
  <2> QED BY <2>2
<1> QED BY <1>1, <1>2, <1>3 DEF Queue

\* accept() hands out a descriptor no open session has.
LEMMA AcceptKeeps ==
  ASSUME ServerInv, NEW f \in Fds, Accept(f)
  PROVE  ServerInv'
<1> DEFINE c == Head(backlog)
           r == conns[c]
           q == Created(r, f)
<1>1. /\ backlog \in Seq(Clients) /\ backlog # <<>> /\ Len(backlog) \in Nat \ {0} /\ c = backlog[1]
      /\ c \in Clients
  BY DEF Accept, ServerInv, Queue
<1> HIDE DEF c
<1>2. r.phase = "backlog" /\ Sound(r) /\ r \in Conn /\ c \notin Open /\ c # None
  BY <1>1, ServerAssumption DEF ServerInv, Queue, Sound, Open
<1>3. handlers[f] = None /\ \A d \in Open : conns[d].fd # f
  <2>1. \A d \in Open : conns[d].fd # f
    BY DEF Accept, FreeFds
  <2> QED BY <2>1 DEF ServerInv, Table
<1>4. /\ q \in Conn /\ q.phase = "open" /\ q.fd = f /\ Sound(q) /\ (Ready(q) => q.armed)
  <2> DEFINE a == Readable(r)
  <2>1. a \in BOOLEAN
    BY DEF Readable
  <2> HIDE DEF a, r
  <2>2. q = [r EXCEPT !.phase = "open", !.fd = f, !.armed = a]
    BY DEF Created, a
  <2> HIDE DEF q
  <2>3. /\ q \in Conn /\ q.phase = "open" /\ q.fd = f /\ q.inq = r.inq /\ q.fin = r.fin
        /\ q.wire = r.wire /\ q.out = r.out /\ q.armed = a
        /\ q.wbuf = r.wbuf /\ q.closed = r.closed /\ q.due = r.due
    BY <1>2, <2>1, <2>2 DEF Conn
  <2>4. q.out => FALSE
    BY <1>2, <2>3 DEF Sound
  <2>5. Sound(q)
    BY <1>2, <2>3 DEF Sound
  <2> QED BY <2>3, <2>4, <2>5 DEF Ready, Readable, a
<1>5. /\ conns' = [conns EXCEPT ![c] = q] /\ handlers' = [handlers EXCEPT ![f] = c]
      /\ backlog' = Tail(backlog) /\ conn_count' = conn_count + 1 /\ blocks' = blocks - 1
      /\ UNCHANGED <<config, ring, pc, cur, batch>> /\ pc = "accept" /\ blocks > 0
  BY DEF Accept, event_loop_add, c
<1> HIDE DEF q, r
<1>6. /\ conns' \in [Clients -> Conn] /\ conns'[c] = q
      /\ \A d \in Clients \ {c} : conns'[d] = conns[d]
      /\ \A d \in Clients : Sound(conns'[d])
  BY <1>1, <1>4, <1>5 DEF ServerInv
<1>7. Open' = Open \cup {c}
  BY <1>1, <1>4, <1>6 DEF Open
<1>8. cur = None /\ handlers \in [Fds -> Clients \cup {None}]
  BY <1>5 DEF ServerInv, Loop, Table
<1>9. Counts'
  <2>1. IsFiniteSet(Open \cup {c}) /\ Cardinality(Open \cup {c}) = Cardinality(Open) + 1
    BY <1>2, FS_AddElement DEF ServerInv, Counts
  <2>2. /\ conn_count \in Nat /\ blocks \in Nat /\ conn_count = Cardinality(Open)
        /\ blocks + conn_count = Blocks /\ Blocks' = Blocks
    BY <1>5 DEF ServerInv, Counts, Blocks
  <2>3. blocks' + conn_count' = blocks + conn_count /\ conn_count' \in Nat /\ blocks' \in Nat
    BY <1>5, <2>2
  <2> QED BY <1>5, <1>7, <2>1, <2>2, <2>3 DEF Counts
<1>10. Table'
  <2>1. handlers' \in [Fds -> Clients \cup {None}]
    BY <1>1, <1>5, <1>8
  <2>2. ASSUME NEW d \in Open \cup {c} PROVE conns'[d].fd \in Fds /\ handlers'[conns'[d].fd] = d
    <3>1. CASE d = c
      BY <1>4, <1>5, <1>6, <1>8, <3>1
    <3>2. CASE d # c
      <4>1. d \in Open /\ d \in Clients \ {c} /\ conns[d].fd \in Fds /\ handlers[conns[d].fd] = d
        BY <3>2 DEF ServerInv, Table, Open
      <4> QED BY <1>3, <1>5, <1>6, <1>8, <4>1
    <3> QED BY <3>1, <3>2
  <2>3. ASSUME NEW g \in Fds, handlers'[g] # None
        PROVE  handlers'[g] \in Open \cup {c} /\ conns'[handlers'[g]].fd = g
    <3>1. CASE g = f
      BY <1>4, <1>5, <1>6, <1>8, <3>1
    <3>2. CASE g # f
      <4>1. handlers'[g] = handlers[g] /\ handlers[g] \in Open /\ conns[handlers[g]].fd = g
        BY <1>5, <1>8, <2>3, <3>2 DEF ServerInv, Table
      <4>2. handlers[g] \in Clients \ {c}
        BY <1>2, <4>1 DEF Open
      <4> QED BY <1>6, <4>1, <4>2
    <3> QED BY <3>1, <3>2
  <2> QED BY <1>7, <2>1, <2>2, <2>3 DEF Table
<1>11. Queue'
  BY <1>1, <1>5, <1>6, QueuePop DEF c
<1>12. Loop'
  <2>1. ASSUME NEW e \in batch, e[1] # Listen PROVE handlers'[e[1]] = e[2]
    <3>1. handlers[e[1]] = e[2] /\ e \in Fds \X Clients
      BY <2>1 DEF ServerInv, Loop, Listen
    <3>2. e[1] # f
      BY <1>3, <3>1, ServerAssumption
    <3> QED BY <1>5, <1>8, <3>1, <3>2
  <2> QED BY <1>5, <1>8, <2>1 DEF ServerInv, Loop
<1>13. Woken'
  <2> SUFFICES ASSUME NEW d \in Open \cup {c}
               PROVE  Ready(conns'[d]) => conns'[d].armed \/ Handled(d)'
    BY <1>1, <1>5, <1>7, <1>8, ServerAssumption DEF Woken, Open
  <2>1. CASE d = c
    BY <1>4, <1>6, <2>1
  <2>2. CASE d # c
    <3>1. d \in Open /\ d \in Clients \ {c}
      BY <2>2 DEF Open
    <3> QED BY <1>5, <1>6, <3>1 DEF ServerInv, Woken, Handled
  <2> QED BY <2>1, <2>2
<1> QED BY <1>5, <1>6, <1>9, <1>10, <1>11, <1>12, <1>13 DEF ServerInv
\* The accept handler closes a connection it could not set up.
LEMMA AcceptDropKeeps == ServerInv /\ AcceptDrop => ServerInv'
<1> SUFFICES ASSUME ServerInv, AcceptDrop PROVE ServerInv'
  OBVIOUS
<1> DEFINE c == Head(backlog)
           g == Fresh("gone")
<1>1. /\ backlog \in Seq(Clients) /\ backlog # <<>> /\ Len(backlog) \in Nat \ {0} /\ c = backlog[1]
      /\ c \in Clients
  BY DEF AcceptDrop, ServerInv, Queue
<1>2. Sound(g) /\ g.phase = "gone" /\ g \in Conn
  BY FreshSound
<1>3. /\ conns' = [conns EXCEPT ![c] = g] /\ backlog' = Tail(backlog)
      /\ UNCHANGED <<config, handlers, conn_count, blocks, ring, pc, cur, batch>>
  BY DEF AcceptDrop
<1> HIDE DEF c, g
<1>4. c \notin Open
  BY <1>1 DEF ServerInv, Queue, Open
<1>5. /\ conns' \in [Clients -> Conn] /\ conns'[c] = g
      /\ \A d \in Clients \ {c} : conns'[d] = conns[d]
      /\ \A d \in Clients : Sound(conns'[d])
  BY <1>1, <1>2, <1>3 DEF ServerInv
<1>6. Open' = Open /\ \A d \in Open : conns'[d] = conns[d]
  BY <1>1, <1>2, <1>4, <1>5 DEF Open
<1>7. Counts'
  BY <1>3, <1>6 DEF ServerInv, Counts, Blocks
<1>8. Table'
  BY <1>3, <1>6 DEF ServerInv, Table
<1>9. Queue'
  BY <1>1, <1>3, <1>5, QueuePop DEF c
<1>10. Loop'
  BY <1>3, <1>6 DEF ServerInv, Loop
<1>11. Woken'
  BY <1>3, <1>6 DEF ServerInv, Woken, Handled
<1> QED BY <1>3, <1>5, <1>7, <1>8, <1>9, <1>10, <1>11 DEF ServerInv

\* A client joins the listen queue.
LEMMA ConnectKeeps ==
  ASSUME ServerInv, NEW c \in Clients, Connect(c)
  PROVE  ServerInv'
<1> DEFINE r == conns[c]
           q == [r EXCEPT !.phase = "backlog"]
<1>1. r \in Conn /\ Sound(r) /\ r.phase = "new" /\ c \notin Open
  BY DEF Connect, ServerInv, Open
<1>2. /\ q \in Conn /\ Sound(q) /\ q.phase = "backlog"
  <2> HIDE DEF r
  <2>1. /\ q \in Conn /\ q.phase = "backlog" /\ q.fin = r.fin /\ q.wire = r.wire /\ q.out = r.out
        /\ q.wbuf = r.wbuf /\ q.closed = r.closed /\ q.due = r.due
    BY <1>1 DEF Conn
  <2> HIDE DEF q
  <2> QED BY <1>1, <2>1 DEF Sound
<1>3. /\ conns' = [conns EXCEPT ![c] = q] /\ backlog' = Append(backlog, c)
      /\ UNCHANGED <<config, handlers, conn_count, blocks, ring, pc, cur, batch>>
  BY DEF Connect, Env
<1> HIDE DEF q
<1>4. /\ conns' \in [Clients -> Conn] /\ conns'[c] = q
      /\ \A d \in Clients \ {c} : conns'[d] = conns[d]
      /\ \A d \in Clients : Sound(conns'[d])
  BY <1>2, <1>3 DEF ServerInv
<1>5. Open' = Open /\ \A d \in Open : conns'[d] = conns[d]
  BY <1>1, <1>2, <1>4 DEF Open
<1>6. Counts'
  BY <1>3, <1>5 DEF ServerInv, Counts, Blocks
<1>7. Table'
  BY <1>3, <1>5 DEF ServerInv, Table
<1>8. Queue'
  <2>1. /\ backlog \in Seq(Clients) /\ Len(backlog) \in Nat
        /\ \A i \in 1..Len(backlog) : backlog[i] \in Clients \ {c}
    BY <1>1 DEF ServerInv, Queue
  <2>2. /\ backlog' \in Seq(Clients) /\ Len(backlog') = Len(backlog) + 1 /\ backlog'[Len(backlog) + 1] = c
        /\ \A i \in 1..Len(backlog) : backlog'[i] = backlog[i]
    BY <1>3, <2>1
  <2>3. \A i \in 1..(Len(backlog) + 1) : i \in 1..Len(backlog) \/ i = Len(backlog) + 1
    BY <2>1
  <2>4. ASSUME NEW i \in 1..(Len(backlog) + 1) PROVE conns'[backlog'[i]].phase = "backlog"
    <3>1. CASE i = Len(backlog) + 1
      BY <1>2, <1>4, <2>2, <3>1
    <3>2. CASE i \in 1..Len(backlog)
      <4>1. conns[backlog[i]].phase = "backlog"
        BY <3>2 DEF ServerInv, Queue
      <4> QED BY <1>2, <1>4, <2>1, <2>2, <3>2, <4>1
    <3> QED BY <2>3, <3>1, <3>2
  <2>5. \A i, j \in 1..(Len(backlog) + 1) : backlog'[i] = backlog'[j] => i = j
    BY <2>1, <2>2, <2>3 DEF ServerInv, Queue
  <2> QED BY <2>2, <2>4, <2>5 DEF Queue
<1>9. Loop'
  BY <1>3, <1>5 DEF ServerInv, Loop
<1>10. Woken'
  BY <1>3, <1>5 DEF ServerInv, Woken, Handled
<1> QED BY <1>3, <1>4, <1>6, <1>7, <1>8, <1>9, <1>10 DEF ServerInv

\* What a live client does to its own socket.
LEMMA ClientKeeps ==
  ASSUME ServerInv, NEW c \in Clients,
         \/ CloseSend(c) \/ Reset(c) \/ Receive(c)
         \/ \E k \in config.kinds, ch \in Channels : Send(c, k, ch)
  PROVE  ServerInv'
<1> DEFINE r == conns[c]
<1>1. r \in Conn /\ Sound(r) /\ conns \in [Clients -> Conn]
  BY DEF ServerInv
<1>2. \E q : Follows(r, q) /\ conns' = [conns EXCEPT ![c] = q]
  <2>1. ASSUME NEW k \in config.kinds, NEW ch \in Channels, Send(c, k, ch)
        PROVE  \E q : Follows(r, q) /\ conns' = [conns EXCEPT ![c] = q]
    <3> DEFINE i == Append(r.inq, Command(k, ch))
               m == r.ncmds + 1
               x == [r EXCEPT !.inq = i, !.ncmds = m]
    <3>1. Command(k, ch) \in Cmd
      <4>1. k \in Kinds
        BY DEF ServerInv, Config, Kinds
      <4> QED BY <4>1 DEF Command, Cmd
    <3>2. i \in Seq(Cmd)
      <4>1. r.inq \in Seq(Cmd)
        BY <1>1 DEF Conn
      <4> QED BY <3>1, <4>1
    <3>3. conns' = [conns EXCEPT ![c] = Edge(x)]
      BY <2>1, Zenon DEF Send
    <3>4. m \in Nat
      <4>1. r.ncmds \in Nat
        BY <1>1 DEF Conn
      <4> QED BY <4>1
    <3> HIDE DEF r, i, m
    <3>5. /\ x \in Conn /\ x.phase = r.phase /\ x.fd = r.fd /\ x.inflight = r.inflight /\ x.wire = r.wire
          /\ x.out = r.out /\ x.wbuf = r.wbuf /\ x.closed = r.closed /\ x.due = r.due /\ x.fin = r.fin
      BY <1>1, <3>2, <3>4 DEF Conn
    <3> HIDE DEF x
    <3>6. Follows(r, Edge(x))
      BY <1>1, <3>5, EdgeFollows
    <3> QED BY <3>3, <3>6, Zenon
  <2>2. ASSUME NEW v \in {"fin", "rst"}, conns' = [conns EXCEPT ![c] = Edge([@ EXCEPT !.fin = v])],
               r.fin = "rst" => v = "rst"
        PROVE  \E q : Follows(r, q) /\ conns' = [conns EXCEPT ![c] = q]
    <3> DEFINE x == [r EXCEPT !.fin = v]
    <3>1. conns' = [conns EXCEPT ![c] = Edge(x)]
      BY <2>2
    <3> HIDE DEF r
    <3>2. /\ x \in Conn /\ x.phase = r.phase /\ x.fd = r.fd /\ x.inflight = r.inflight /\ x.wire = r.wire
          /\ x.out = r.out /\ x.wbuf = r.wbuf /\ x.closed = r.closed /\ x.due = r.due /\ x.fin = v
      BY <1>1 DEF Conn
    <3> HIDE DEF x
    <3>3. Follows(r, Edge(x))
      BY <1>1, <2>2, <3>2, EdgeFollows
    <3> QED BY <3>1, <3>3
  <2>3. CASE CloseSend(c)
    BY <2>2, <2>3 DEF CloseSend
  <2>4. CASE Reset(c)
    BY <2>2, <2>4 DEF Reset
  <2>5. CASE Receive(c)
    <3>1. conns' = [conns EXCEPT ![c] = [r EXCEPT !.inflight = r.inflight - 1, !.armed = r.armed \/ r.out]]
      BY <1>1, <2>5 DEF Receive
    <3>2. r.inflight > 0
      BY <2>5 DEF Receive
    <3> QED BY <1>1, <3>1, <3>2, ReceiveFollows, Zenon
  <2> QED BY <2>1, <2>3, <2>4, <2>5
<1>3. Kept(conns')
  <2>1. PICK q : Follows(conns[c], q) /\ conns' = [conns EXCEPT ![c] = q]
    BY <1>2
  <2>2. Kept(conns)
    BY ConnsKept
  <2>3. Kept([conns EXCEPT ![c] = q])
    BY <2>1, <2>2, OneKept
  <2> QED BY <2>1, <2>3
<1>4. UNCHANGED <<config, handlers, backlog, conn_count, blocks, ring, pc, cur, batch>>
  BY Zenon DEF CloseSend, Reset, Receive, Send, Env
<1>5. ring' \in 0..RingCap
  BY <1>4 DEF ServerInv
<1> QED BY <1>3, <1>4, <1>5, KeptStep
\* The steps that change only what the thread does next.
LEMMA LoopKeeps ==
  ASSUME ServerInv, BatchDone \/ DispatchAccept \/ AcceptDone \/ ReadAgain
  PROVE  ServerInv'
<1>1. UNCHANGED <<config, conns, handlers, backlog, conn_count, blocks, ring>>
  BY DEF BatchDone, DispatchAccept, AcceptDone, ReadAgain
<1>2. Open' = Open /\ Listen \notin Fds /\ None \notin Clients
  BY <1>1, ServerAssumption DEF Open, Listen
<1>3. CASE ReadAgain
  <2>1. pc = "read" /\ pc' = "dispatch" /\ cur' = None /\ batch' = batch /\ ~Readable(conns[cur])
    BY <1>3 DEF ReadAgain, Readable
  <2>2. Loop'
    BY <1>1, <1>2, <2>1 DEF ServerInv, Loop
  <2>3. ASSUME NEW c \in Open
        PROVE  /\ Ready(conns[c]) => conns[c].armed \/ <<conns[c].fd, c>> \in batch
               /\ c # None
    <3>1. /\ Ready(conns[c]) => conns[c].armed \/ cur = c \/ <<conns[c].fd, c>> \in batch
          /\ cur = c /\ conns[c].out /\ Writable(conns[c]) => conns[c].armed
      BY DEF ServerInv, Woken, Handled
    <3> QED BY <1>2, <2>1, <3>1 DEF Ready, Open
  <2>4. Woken'
    BY <1>1, <1>2, <2>1, <2>3 DEF Woken, Handled
  <2> QED BY <1>1, <2>2, <2>4, LoopOnly
<1>4. CASE BatchDone \/ DispatchAccept \/ AcceptDone
  <2>1. /\ cur = None /\ cur' = cur /\ pc' \in {"poll", "dispatch", "accept"} /\ batch' \subseteq batch
        /\ pc' = "poll" => batch' = {}
        /\ \A c \in Clients, f \in Fds : <<f, c>> \in batch => <<f, c>> \in batch'
    BY <1>2, <1>4 DEF BatchDone, DispatchAccept, AcceptDone, ServerInv, Loop
  <2>2. Loop'
    BY <1>1, <1>2, <2>1, Zenon DEF ServerInv, Loop
  <2>3. \A c \in Open : conns[c].fd \in Fds /\ c \in Clients
    BY DEF ServerInv, Table, Open
  <2>4. Woken'
    BY <1>1, <1>2, <2>1, <2>3 DEF ServerInv, Woken, Handled
  <2> QED BY <1>1, <2>2, <2>4, LoopOnly
<1> QED BY <1>3, <1>4

\* A read that finds the end, QUIT and a protocol error destroy the session read.
LEMMA EndKeeps ==
  ASSUME ServerInv, ReadEnd \/ CmdDestroy
  PROVE  ServerInv'
<1>1. /\ pc = "read" /\ Destroy(conns, cur) /\ pc' = "dispatch" /\ cur' = None
      /\ UNCHANGED <<config, backlog, ring, batch>>
  BY DEF ReadEnd, CmdDestroy, NextCmd
<1>2. cur \in Open /\ batch = batch \ {<<conns[cur].fd, cur>>} /\ ring' \in 0..RingCap
  BY <1>1, Reading DEF ServerInv, Loop
<1>3. Kept(conns)
  BY ConnsKept
<1> QED BY <1>1, <1>2, <1>3, DestroyStep

\* What a command leaves of the sessions before the one it belongs to is
\* looked at: the replies queued, the messages delivered.
Served ==
  {Reply(Taken, ReplySize), Reply(Taken, WriteCap + 1), Taken,
   Reply([Taken EXCEPT ![cur].sub = Head(conns[cur].inq).ch], 1),
   Reply(Broadcast(Taken, Head(conns[cur].inq).ch), 1), Reply(Taken, 1)}

\* A SUBSCRIBE keeps every session sound before its reply.
LEMMA SubscribedKept ==
  ASSUME ServerInv, pc = "read", conns[cur].inq # <<>>
  PROVE  LET cs == [Taken EXCEPT ![cur].sub = Head(conns[cur].inq).ch]
         IN  Kept(cs) /\ cs[cur].closed = conns[cur].closed
<1> DEFINE r == Taken[cur]
           ch == Head(conns[cur].inq).ch
           q == [r EXCEPT !.sub = ch]
<1>1. cur \in Clients /\ Kept(Taken) /\ r.closed = conns[cur].closed /\ Taken \in [Clients -> Conn]
  BY Reading, TakenKept DEF Kept
<1>2. Sound(r)
  BY <1>1 DEF Kept, Follows
<1>3. ch \in Channels \cup {None}
  <2>1. conns[cur].inq \in Seq(Cmd)
    BY Reading DEF Sound, Conn
  <2>2. Head(conns[cur].inq) \in Cmd
    BY <2>1
  <2> QED BY <2>2 DEF Cmd
<1> HIDE DEF ch
<1>4. Follows(r, q) /\ q.closed = r.closed
  BY <1>2, <1>3, SubscribeFollows
<1>5. [Taken EXCEPT ![cur].sub = ch] = [Taken EXCEPT ![cur] = q]
  OBVIOUS
<1> HIDE DEF q, r
<1>6. Kept([Taken EXCEPT ![cur] = q])
  BY <1>1, <1>4, OneKept DEF r
<1>7. [Taken EXCEPT ![cur] = q][cur].closed = conns[cur].closed
  BY <1>1, <1>4
<1> QED BY <1>5, <1>6, <1>7 DEF ch

\* Whatever the command, every session is kept, and one that was closed
\* stays closed.
LEMMA ServedKept ==
  ASSUME ServerInv, pc = "read", conns[cur].inq # <<>>, NEW cs \in Served
  PROVE  Kept(cs) /\ (conns[cur].closed => cs[cur].closed)
<1> DEFINE ch == Head(conns[cur].inq).ch
<1>0. ReplySize \in Nat /\ WriteCap + 1 \in Nat /\ 1 \in Nat /\ cur \in Clients
  BY Reading, ServerAssumption
<1>1. Kept(Taken) /\ Taken[cur].closed = conns[cur].closed
  BY TakenKept
<1>2. ASSUME NEW n \in Nat
      PROVE  Kept(Reply(Taken, n)) /\ (conns[cur].closed => Reply(Taken, n)[cur].closed)
  BY <1>1, ReplyKept
<1>3. CASE cs = Reply([Taken EXCEPT ![cur].sub = ch], 1)
  BY <1>0, <1>3, SubscribedKept, ReplyKept
<1>4. CASE cs = Reply(Broadcast(Taken, ch), 1)
  <2>1. Kept(Broadcast(Taken, ch)) /\ (conns[cur].closed => Broadcast(Taken, ch)[cur].closed)
    BY <1>0, <1>1, BroadcastKept
  <2> QED BY <1>0, <1>4, <2>1, ReplyKept
<1> QED BY <1>0, <1>1, <1>2, <1>3, <1>4 DEF Served

\* Every command that does not end the session finishes with sessions that may
\* take the place of the old ones.
LEMMA CommandFinishes ==
  ASSUME ServerInv, \/ CmdReply("reply", ReplySize) \/ CmdReply("big", WriteCap + 1)
                    \/ CmdSilent \/ subscribe_command \/ publish_command
  PROVE  /\ pc = "read" /\ conns[cur].inq # <<>> /\ \E cs \in Served : Finish(cs)
         /\ ring' \in 0..RingCap /\ UNCHANGED <<config, backlog, batch>>
<1>1. pc = "read" /\ conns[cur].inq # <<>> /\ UNCHANGED <<config, backlog, batch>>
  BY DEF CmdReply, CmdSilent, subscribe_command, publish_command, NextCmd
<1>2. ring' \in 0..RingCap
  BY ServerAssumption DEF ServerInv, CmdReply, CmdSilent, subscribe_command, publish_command
<1>3. \E cs \in Served : Finish(cs)
  BY DEF CmdReply, CmdSilent, subscribe_command, publish_command, Served
<1> QED BY <1>1, <1>2, <1>3

\* So every such command preserves the invariant.
LEMMA CommandKeeps ==
  ASSUME ServerInv, \/ CmdReply("reply", ReplySize) \/ CmdReply("big", WriteCap + 1)
                    \/ CmdSilent \/ subscribe_command \/ publish_command
  PROVE  ServerInv'
<1>1. PICK cs \in Served : Finish(cs)
  BY CommandFinishes
<1>2. Kept(cs)
  BY CommandFinishes, ServedKept
<1> QED BY <1>1, <1>2, CommandFinishes, FinishStep
\* Every step of the thread, the clients and the kernel preserves the invariant.
LEMMA ServerStep == ServerInv /\ [Next]_vars => ServerInv'
<1> SUFFICES ASSUME ServerInv, [Next]_vars PROVE ServerInv'
  OBVIOUS
<1>1. CASE EpollWait
  BY <1>1, EpollWaitKeeps
<1>2. CASE \E e \in batch : Dispatch(e)
  BY <1>2, DispatchKeeps
<1>3. CASE \E f \in Fds : Accept(f)
  BY <1>3, AcceptKeeps
<1>4. CASE AcceptDrop
  BY <1>4, AcceptDropKeeps
<1>5. CASE BatchDone \/ DispatchAccept \/ AcceptDone \/ ReadAgain
  BY <1>5, LoopKeeps
<1>6. CASE ReadEnd \/ CmdDestroy
  BY <1>6, EndKeeps
<1>7. CASE \/ CmdReply("reply", ReplySize) \/ CmdReply("big", WriteCap + 1)
           \/ CmdSilent \/ subscribe_command \/ publish_command
  BY <1>7, CommandKeeps
<1>8. CASE \E c \in Clients : Connect(c)
  BY <1>8, ConnectKeeps
<1>9. CASE \E c \in Clients : \/ CloseSend(c) \/ Reset(c) \/ Receive(c)
                              \/ \E k \in config.kinds, ch \in Channels : Send(c, k, ch)
  BY <1>9, ClientKeeps
<1>10. CASE UNCHANGED vars
  <2>1. UNCHANGED <<config, conns, handlers, backlog, conn_count, blocks, ring, pc, cur, batch>>
    BY <1>10, Zenon DEF vars
  <2>2. Loop'
    BY <2>1 DEF ServerInv, Loop, Open
  <2>3. Woken'
    BY <2>1 DEF ServerInv, Woken, Handled, Open
  <2> QED BY <2>1, <2>2, <2>3, LoopOnly
<1> QED BY <1>1, <1>2, <1>3, <1>4, <1>5, <1>6, <1>7, <1>8, <1>9, <1>10 DEF Next, Thread

\* The invariant holds in every reachable state.
LEMMA ServerInvariant == Spec => []ServerInv
BY ServerInit, ServerStep, PTL DEF Spec
-----------------------------------------------------------------------------
(* What the runs check, for every instance *)

\* conn_count, the slab of conn_t and the handler table agree with the linked
\* connections after every accept, failed accept, dispatch and conn_destroy;
\* types included.
THEOREM AccountingExact == Spec => []Accounting
<1>1. ServerInv => Accounting
  <2> SUFFICES ASSUME ServerInv PROVE Accounting
    OBVIOUS
  <2>1. ASSUME NEW c \in Clients
        PROVE  /\ conns[c].phase \in {"new", "backlog", "open", "gone"}
               /\ conns[c].fd \in Fds \cup {None} /\ (c \in Open => conns[c].fd \in Fds)
               /\ conns[c].inflight \in 0..SockCap
               /\ Len(conns[c].wbuf) <= WriteCap /\ conns[c].wsent \in 0..Len(conns[c].wbuf)
               /\ conns[c].sub \in Channels \cup {None}
    <3>1. conns[c] \in Conn /\ Sound(conns[c]) /\ (c \in Open => conns[c].fd \in Fds)
      BY DEF ServerInv, Table
    <3>2. Len(conns[c].wbuf) <= WriteCap
      BY <3>1 DEF Sound, Stream
    <3>3. conns[c].wsent = 0 /\ conns[c].wbuf \in Seq(Nat)
      BY <3>1 DEF Conn
    <3>4. 0 \in 0..Len(conns[c].wbuf)
      BY <3>3
    <3> QED BY <3>1, <3>2, <3>3, <3>4 DEF Conn
  <2>2. conn_count \in Nat /\ blocks \in 0..Blocks
    <3>1. config.max_connections \in Nat
      BY DEF ServerInv, Config
    <3> QED BY <3>1 DEF ServerInv, Counts, Blocks
  <2>3. (pc = "read") = (cur # None)
    BY DEF ServerInv, Loop
  <2>4. TypeOK
    BY <2>1, <2>2, <2>3 DEF TypeOK, ServerInv, Table, Loop
  <2> QED BY <2>4 DEF Accounting, ServerInv, Counts, Table
<1> QED BY <1>1, ServerInvariant, PTL

\* An event of the batch still belongs to the connection it was raised for
\* when event_loop_run_once looks its handler up, however connections are
\* destroyed and descriptors reused meanwhile.
THEOREM EventsFresh == Spec => []NoStaleEvent
<1>1. ServerInv => NoStaleEvent
  BY DEF ServerInv, Loop, NoStaleEvent
<1> QED BY <1>1, ServerInvariant, PTL

\* Edge-triggered epoll strands nobody: EPOLLOUT is armed exactly while
\* conn_flush left output, and a connection with something to read or room to
\* write is on the ready list, in the batch or being handled.
THEOREM WakeupsKept == Spec => []NoLostWakeup
<1>1. ServerInv => NoLostWakeup
  <2> SUFFICES ASSUME ServerInv, NEW c \in Open
               PROVE  /\ Pending(conns[c]) # <<>> /\ conns[c].fin # "rst" => conns[c].out
                      /\ conns[c].out => Pending(conns[c]) # <<>>
                      /\ Ready(conns[c]) => conns[c].armed \/ Handled(c)
    BY DEF NoLostWakeup
  <2>1. Sound(conns[c])
    BY DEF ServerInv, Open
  <2>2. Pending(conns[c]) = conns[c].wbuf
    BY <2>1, PendingIsBuffer DEF Sound
  <2> QED BY <2>1, <2>2, Zenon DEF Sound, ServerInv, Woken
<1> QED BY <1>1, ServerInvariant, PTL

\* What a client is sent is a prefix of what it is due, in order and without
\* a gap, through partial writes, shifts of the buffer and overflow of
\* conn_queue_write; nothing is missing while the connection is not closed.
THEOREM StreamIsPrefix == Spec => []StreamPrefix
<1>1. ServerInv => StreamPrefix
  <2> SUFFICES ASSUME ServerInv, NEW c \in Open
               PROVE  LET s == conns[c].wire \o Pending(conns[c])
                      IN  /\ s = [i \in 1..Len(s) |-> i]
                          /\ Len(s) <= conns[c].due
                          /\ ~conns[c].closed => Len(s) = conns[c].due
    BY DEF StreamPrefix
  <2>1. Sound(conns[c])
    BY DEF ServerInv, Open
  <2>2. Pending(conns[c]) = conns[c].wbuf
    BY <2>1, PendingIsBuffer DEF Sound
  <2> DEFINE w == conns[c].wire
             b == conns[c].wbuf
             due == conns[c].due
             closed == conns[c].closed
             s == w \o b
  <2>3. Stream(w, b, due, closed) /\ w \in Seq(Nat) /\ b \in Seq(Nat)
    BY <2>1 DEF Sound, Conn
  <2> HIDE DEF w, b, due, closed
  <2>4. /\ Numbered(w, 0) /\ Numbered(b, Len(w)) /\ 0 + Len(w) = Len(w)
        /\ Len(w) + Len(b) <= due /\ (~closed => Len(w) + Len(b) = due)
    BY <2>3 DEF Stream
  <2>5. Numbered(s, 0)
    BY <2>3, <2>4, NumberedConcat
  <2>6. s \in Seq(Nat) /\ Len(s) = Len(w) + Len(b)
    BY <2>3, ConcatFacts
  <2> HIDE DEF s
  <2>7. \A i \in 1..Len(s) : s[i] = i
    BY <2>5 DEF Numbered
  <2>8. s = [i \in 1..Len(s) |-> i]
    BY <2>6, <2>7
  <2>9. Len(s) <= due /\ (~closed => Len(s) = due)
    BY <2>4, <2>6
  <2> QED BY <2>2, <2>8, <2>9 DEF s, w, b, due, closed
<1> QED BY <1>1, ServerInvariant, PTL
\* A client's step takes nothing off a session's input and adds nothing to
\* what a session is due.
LEMMA ClientInput ==
  ASSUME ServerInv, NEW c \in Clients,
         \/ Connect(c) \/ CloseSend(c) \/ Reset(c) \/ Receive(c)
         \/ \E k \in config.kinds, ch \in Channels : Send(c, k, ch)
  PROVE  /\ UNCHANGED <<ring, pc, cur>>
         /\ \A d \in Clients : /\ conns'[d].due = conns[d].due
                               /\ Len(conns'[d].inq) >= Len(conns[d].inq)
<1>1. UNCHANGED <<ring, pc, cur>>
  BY Zenon DEF Connect, CloseSend, Reset, Receive, Send, Env
<1>2. conns \in [Clients -> Conn] /\ conns[c] \in Conn
  BY DEF ServerInv
<1>3. \A d \in Clients : Len(conns[d].inq) \in Nat
  <2> SUFFICES ASSUME NEW d \in Clients PROVE Len(conns[d].inq) \in Nat
    OBVIOUS
  <2> DEFINE q == conns[d].inq
  <2>1. q \in Seq(Cmd)
    BY <1>2, Zenon DEF Conn
  <2> HIDE DEF q
  <2>2. Len(q) \in Nat
    BY <2>1
  <2> QED BY <2>2 DEF q
<1>4. ASSUME NEW q, conns' = [conns EXCEPT ![c] = q], q.due = conns[c].due,
             Len(q.inq) >= Len(conns[c].inq)
      PROVE  \A d \in Clients : /\ conns'[d].due = conns[d].due
                                /\ Len(conns'[d].inq) >= Len(conns[d].inq)
  BY <1>2, <1>3, <1>4
<1>5. CASE Connect(c)
  <2> DEFINE q == [conns[c] EXCEPT !.phase = "backlog"]
  <2>1. conns' = [conns EXCEPT ![c] = q] /\ q.due = conns[c].due /\ q.inq = conns[c].inq
    BY <1>2, <1>5 DEF Connect, Conn
  <2>2. Len(q.inq) >= Len(conns[c].inq)
    BY <1>3, <2>1
  <2> HIDE DEF q
  <2> QED BY <1>1, <1>4, <2>1, <2>2
<1>6. CASE Receive(c)
  <2> DEFINE q == [conns[c] EXCEPT !.inflight = conns[c].inflight - 1,
                                   !.armed = conns[c].armed \/ conns[c].out]
  <2>1. conns' = [conns EXCEPT ![c] = q]
    BY <1>2, <1>6 DEF Receive
  <2>2. q.due = conns[c].due /\ q.inq = conns[c].inq
    BY <1>2 DEF Conn
  <2>3. Len(q.inq) >= Len(conns[c].inq)
    BY <1>3, <2>2
  <2> HIDE DEF q
  <2> QED BY <1>1, <1>4, <2>1, <2>2, <2>3
<1>7. CASE CloseSend(c) \/ Reset(c)
  <2>1. PICK v \in {"fin", "rst"} : conns' = [conns EXCEPT ![c] = Edge([@ EXCEPT !.fin = v])]
    BY <1>7 DEF CloseSend, Reset
  <2> DEFINE q == Edge([conns[c] EXCEPT !.fin = v])
  <2>2. q.due = conns[c].due /\ q.inq = conns[c].inq
    BY <1>2 DEF Conn, Edge
  <2>3. conns' = [conns EXCEPT ![c] = q]
    BY <2>1
  <2>4. Len(q.inq) >= Len(conns[c].inq)
    BY <1>3, <2>2
  <2> HIDE DEF q
  <2> QED BY <1>1, <1>4, <2>2, <2>3, <2>4
<1>8. ASSUME NEW k \in config.kinds, NEW ch \in Channels, Send(c, k, ch)
      PROVE  \A d \in Clients : /\ conns'[d].due = conns[d].due
                                /\ Len(conns'[d].inq) >= Len(conns[d].inq)
  <2> DEFINE i == Append(conns[c].inq, Command(k, ch))
             q == Edge([conns[c] EXCEPT !.inq = i, !.ncmds = conns[c].ncmds + 1])
  <2>1. conns' = [conns EXCEPT ![c] = q]
    BY <1>8, Zenon DEF Send
  <2>2. Len(i) >= Len(conns[c].inq)
    <3> DEFINE s == conns[c].inq
               x == Command(k, ch)
    <3>1. s \in Seq(Cmd)
      BY <1>2, Zenon DEF Conn
    <3> HIDE DEF s, x
    <3>2. Len(Append(s, x)) = Len(s) + 1
      BY <3>1
    <3>3. Len(Append(s, x)) >= Len(s)
      BY <3>1, <3>2
    <3> QED BY <3>3 DEF s, x
  <2> HIDE DEF i
  <2>3. q.due = conns[c].due /\ q.inq = i
    BY <1>2 DEF Conn, Edge
  <2> QED BY <1>4, <2>1, <2>2, <2>3
<1> QED BY <1>1, <1>5, <1>6, <1>7, <1>8

\* conn_destroy ends the session and no other.
LEMMA DestroyFacts ==
  ASSUME NEW cs, Kept(cs), NEW c \in Clients, Destroy(cs, c)
  PROVE  conns'[c].phase = "gone" /\ \A d \in Clients \ {c} : conns'[d] = cs[d]
<1>1. Fresh("gone").phase = "gone"
  BY FreshSound
<1> QED BY <1>1 DEF Destroy, Kept

\* A connection whose output another client's PUBLISH overflowed executes at
\* most one more command: server_dispatch_commands destroys it right after.
THEOREM ClosedEnds == Spec => ClosedServesOnce
<1>1. ASSUME ServerInv, [Next]_vars, pc = "read", conns[cur].closed,
             Len(conns'[cur].inq) < Len(conns[cur].inq)
      PROVE  conns'[cur].phase = "gone"
  <2>1. cur \in Clients /\ Len(conns[cur].inq) \in Nat /\ Kept(conns)
    <3>1. cur \in Clients /\ conns[cur].inq \in Seq(Cmd)
      BY <1>1, Reading DEF Sound, Conn
    <3>2. Len(conns[cur].inq) \in Nat
      BY <3>1
    <3> QED BY <1>1, <3>1, <3>2, ConnsKept
  <2>2. conns' # conns
    BY <1>1, <2>1
  <2>3. CASE ReadEnd \/ CmdDestroy
    <3>1. Destroy(conns, cur)
      BY <2>3 DEF ReadEnd, CmdDestroy
    <3> QED BY <2>1, <3>1, DestroyFacts
  <2>4. CASE \/ CmdReply("reply", ReplySize) \/ CmdReply("big", WriteCap + 1)
             \/ CmdSilent \/ subscribe_command \/ publish_command
    <3>1. PICK cs \in Served : Finish(cs)
      BY <1>1, <2>4, CommandFinishes
    <3>2. Kept(cs) /\ cs[cur].closed
      BY <1>1, <2>4, CommandFinishes, ServedKept
    <3>3. Destroy(cs, cur)
      BY <3>1, <3>2 DEF Finish
    <3> QED BY <2>1, <3>2, <3>3, DestroyFacts
  <2>5. ASSUME NEW c \in Clients,
               \/ Connect(c) \/ CloseSend(c) \/ Reset(c) \/ Receive(c)
               \/ \E k \in config.kinds, ch \in Channels : Send(c, k, ch)
        PROVE  FALSE
    <3>1. Len(conns'[cur].inq) >= Len(conns[cur].inq)
      BY <1>1, <2>1, <2>5, ClientInput, Zenon
    <3>2. Len(conns'[cur].inq) \in Nat
      <4>1. conns'[cur] \in Conn
        BY <1>1, <2>1, ServerStep DEF ServerInv
      <4>2. conns'[cur].inq \in Seq(Cmd)
        BY <4>1, Zenon DEF Conn
      <4> QED BY <4>2
    <3> QED BY <1>1, <2>1, <3>1, <3>2
  <2> QED BY <1>1, <2>2, <2>3, <2>4, <2>5
       DEF Next, Thread, vars, EpollWait, BatchDone, Dispatch, DispatchAccept, Accept, AcceptDrop,
           AcceptDone, ReadAgain
<1>2. ServerInv /\ [Next]_vars =>
        [(pc = "read" /\ conns[cur].closed /\ Len(conns'[cur].inq) < Len(conns[cur].inq))
           => conns'[cur].phase = "gone"]_vars
  BY <1>1
<1> QED BY <1>2, ServerInvariant, PTL DEF Spec, ClosedServesOnce

\* PUBLISH reaches every subscriber of its channel or, when the ring refuses
\* the message, nobody.
THEOREM PublishesToAll == Spec => PublishAllOrNone
<1>1. ASSUME ServerInv, [Next]_vars, NextCmd("pub"), conns'[cur].inq # conns[cur].inq,
             NEW c \in Open \ {cur}
      PROVE  conns'[c].due - conns[c].due =
               IF ring' > ring /\ conns[c].sub = Head(conns[cur].inq).ch THEN MsgSize ELSE 0
  <2> DEFINE ch == Head(conns[cur].inq).ch
  <2>1. /\ pc = "read" /\ conns[cur].inq # <<>> /\ cur \in Clients /\ c \in Clients \ {cur}
        /\ conns[c].phase = "open" /\ ring \in Nat /\ RingCap \in Nat /\ MsgSize \in Nat
    BY <1>1, Reading, ServerAssumption DEF NextCmd, Open, ServerInv
  <2>2. conns[c].due \in Nat /\ Kept(conns)
    BY <1>1, <2>1, ConnsKept DEF ServerInv, Conn
  <2>i. ServerInv
    BY <1>1
  <2>3. ASSUME ring' = ring, conns'[c].due = conns[c].due
        PROVE  conns'[c].due - conns[c].due = IF ring' > ring /\ conns[c].sub = ch THEN MsgSize ELSE 0
    BY <2>1, <2>2, <2>3
  <2>4. CASE ReadEnd
    <3>1. Destroy(conns, cur) /\ ring' = ring
      BY <2>4 DEF ReadEnd
    <3> QED BY <2>1, <2>2, <2>3, <3>1, DestroyFacts
  <2>5. ASSUME NEW d \in Clients,
               \/ Connect(d) \/ CloseSend(d) \/ Reset(d) \/ Receive(d)
               \/ \E k \in config.kinds, x \in Channels : Send(d, k, x)
        PROVE  ring' = ring /\ conns'[c].due = conns[c].due
    BY <1>1, <2>1, <2>5, ClientInput
  <2>6. CASE publish_command
    <3> DEFINE cs == IF ring >= RingCap THEN Taken ELSE Broadcast(Taken, ch)
    <3>1. Finish(Reply(cs, 1)) /\ ring' = IF ring >= RingCap THEN ring ELSE ring + 1
      BY <2>6 DEF publish_command
    <3>2. /\ Kept(Taken) /\ Taken[c].phase = conns[c].phase /\ Taken[c].sub = conns[c].sub
          /\ Taken[c].due = conns[c].due
      BY <2>i, <2>1, TakenKept, Zenon
    <3>3. /\ Kept(Broadcast(Taken, ch))
          /\ Broadcast(Taken, ch)[c].due =
               IF conns[c].sub = ch THEN conns[c].due + MsgSize ELSE conns[c].due
      <4> HIDE DEF ch
      <4>0. Kept(Taken) /\ c \in Clients
        BY <2>1, <3>2
      <4>1. /\ Kept(Broadcast(Taken, ch))
            /\ Broadcast(Taken, ch)[c].due =
                 IF Taken[c].phase = "open" /\ Taken[c].sub = ch THEN Taken[c].due + MsgSize
                 ELSE Taken[c].due
        BY <2>i, <4>0, BroadcastKept, SMTT(20)
      <4> QED BY <2>1, <3>2, <4>1
    <3>4. Kept(cs) /\ 1 \in Nat
      BY <3>2, <3>3
    <3> HIDE DEF cs, ch
    <3>5. Kept(Reply(cs, 1)) /\ Reply(cs, 1)[c] = cs[c]
      <4>1. pc = "read" /\ c \in Clients \ {cur}
        BY <2>1
      <4> QED BY <2>i, <3>4, <4>1, ReplyKept, Zenon
    <3>6. conns'[c] = cs[c]
      <4>1. conns' = Reply(cs, 1) \/ Destroy(Reply(cs, 1), cur)
        BY <3>1, Zenon DEF Finish
      <4> QED BY <2>1, <3>5, <4>1, DestroyFacts
    <3>7. CASE ring >= RingCap
      BY <2>3, <3>1, <3>2, <3>6, <3>7, Zenon DEF cs, ch
    <3>8. CASE ~(ring >= RingCap)
      <4>1. ring' > ring /\ conns'[c].due = Broadcast(Taken, ch)[c].due
        BY <2>1, <3>1, <3>6, <3>8 DEF cs
      <4>2. conns'[c].due = IF conns[c].sub = ch THEN conns[c].due + MsgSize ELSE conns[c].due
        BY <3>3, <4>1
      <4> QED BY <2>1, <2>2, <4>1, <4>2 DEF ch
    <3> QED BY <3>7, <3>8
  <2>7. conns' # conns
    BY <1>1
  <2> QED BY <1>1, <2>1, <2>3, <2>4, <2>5, <2>6, <2>7
       DEF Next, Thread, vars, NextCmd, EpollWait, BatchDone, Dispatch, DispatchAccept, Accept,
           AcceptDrop, AcceptDone, ReadAgain, CmdReply, CmdSilent, subscribe_command, CmdDestroy
<1>2. ServerInv /\ [Next]_vars =>
        [(NextCmd("pub") /\ conns'[cur].inq # conns[cur].inq) =>
           \A c \in Open \ {cur} :
             conns'[c].due - conns[c].due =
               IF ring' > ring /\ conns[c].sub = Head(conns[cur].inq).ch THEN MsgSize ELSE 0]_vars
  BY <1>1
<1> QED BY <1>2, ServerInvariant, PTL DEF Spec, PublishAllOrNone
=============================================================================
