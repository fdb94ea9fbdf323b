------------------------------- MODULE Server -------------------------------
(***************************************************************************)
(* The single-threaded server: the edge-triggered event loop               *)
(* (event_loop.c), the connections with their write buffers (conn.c), the  *)
(* accept loop, the dispatch of commands and PUBLISH/SUBSCRIBE (server.c). *)
(* The thread takes one step per system call that can block or yield:      *)
(* epoll_wait, the choice of the next event, one accept, one read with the *)
(* command it brings.  Between any two of them clients connect, send,      *)
(* receive, close and reset, and the kernel raises edges.                  *)
(*                                                                         *)
(* A command arrives whole (RespBuffer has the fragments); a reply is a    *)
(* number of units, numbered per connection in the order they are due.     *)
(***************************************************************************)
EXTENDS Integers, Sequences, FiniteSets

CONSTANTS
  Clients,     \* client sessions; each connects at most once
  Fds,         \* descriptors accept can return
  Channels,
  Configs,     \* the connection limits, and the bounds of an instance
  MaxEvents,   \* ZEDIS_MAX_EVENTS
  WriteCap,    \* ZEDIS_CONN_WRITE_SIZE, in units
  SockCap,     \* what the kernel's send buffer holds, in units
  RingCap,     \* slots of the message ring
  ReplySize,   \* units of a reply
  MsgSize,     \* units of a published message
  None

\* max_connections is the server's; the rest bounds what the clients do: how
\* many connect, and how many commands each sends, of which kinds.
Config ==
  [max_connections : Nat, clients : Nat, cmds : Nat,
   kinds : SUBSET {"reply", "big", "silent", "sub", "pub", "quit", "bad"}]

ASSUME ServerAssumption ==
  /\ Configs \subseteq Config /\ RingCap \in Nat
  /\ MaxEvents \in Nat \ {0} /\ WriteCap \in Nat \ {0} /\ SockCap \in Nat \ {0}
  /\ ReplySize \in 1..WriteCap /\ MsgSize \in Nat \ {0}
  /\ Fds \subseteq Nat \ {0} /\ None \notin Clients \cup Fds \cup Channels

VARIABLES
  config,
  conns,      \* per session: conn_t, its socket and its epoll registration
  handlers,   \* loop->handlers[fd].userdata
  backlog,    \* sessions waiting in the listen queue
  listenArmed,\* the listen descriptor is on epoll's ready list
  conn_count, \* server->conn_count
  blocks,     \* free blocks of the pool conn_t comes from
  ring,       \* ring->write_seq (read_seq stays 0: nothing polls the ring)
  pc, cur,    \* what the thread is doing, and for which session
  batch       \* loop->events still to dispatch: descriptor and its session

vars == <<config, conns, handlers, backlog, listenArmed, conn_count, blocks, ring, pc, cur, batch>>

Listen == 0  \* the listening descriptor

\* conn_t blocks of the slab
Blocks == config.max_connections * 2

Fresh(p) ==
  [phase |-> p, fd |-> None,
   inq |-> <<>>, fin |-> "no", inflight |-> 0, wire |-> <<>>,  \* socket
   out |-> FALSE, armed |-> FALSE,                             \* epoll
   wbuf |-> <<>>, wsent |-> 0, closed |-> FALSE, sub |-> None, \* conn_t
   due |-> 0, ncmds |-> 0]                                     \* history

Open == {c \in Clients : conns[c].phase = "open"}
FreeFds == {f \in Fds : \A c \in Open : conns[c].fd # f}
Pending(r) == SubSeq(r.wbuf, r.wsent + 1, Len(r.wbuf))
Least(a, b) == IF a <= b THEN a ELSE b

Init ==
  /\ config \in Configs
  /\ conns = [c \in Clients |-> Fresh("new")]
  /\ handlers = [f \in Fds |-> None]
  /\ backlog = <<>> /\ listenArmed = FALSE
  /\ conn_count = 0 /\ blocks = Blocks /\ ring = 0
  /\ pc = "poll" /\ cur = None /\ batch = {}
-----------------------------------------------------------------------------
(* epoll, edge-triggered: a descriptor is reported once per arming, and     *)
(* armed by a new edge or by EPOLL_CTL_ADD/MOD while it is ready.           *)

Readable(r) == r.inq # <<>> \/ r.fin # "no"
Writable(r) == r.inflight < SockCap \/ r.fin = "rst"
Ready(r) == Readable(r) \/ (r.out /\ Writable(r))

\* Mutant: switching the events does not look at what is ready already.
Mod_NoRearm(r, o) == [r EXCEPT !.out = o]

Mod(r, o) == [r EXCEPT !.out = o, !.armed = @ \/ Readable(r) \/ (o /\ Writable(r))]

\* The loop's table when a descriptor is registered and when it is removed.
event_loop_add(table, f, c) == [table EXCEPT ![f] = c]
event_loop_del(table, f) == [table EXCEPT ![f] = None]
-----------------------------------------------------------------------------
(* conn.c *)

\* write() until done, EAGAIN or error.  EAGAIN arms EPOLLOUT and moves the
\* unsent bytes to the front; after the last byte the buffer is reset and
\* EPOLLOUT disarmed.
FlushFails(r) == Pending(r) # <<>> /\ r.fin = "rst"

conn_flush(r) ==
  LET p == Pending(r)
      n == Least(Len(p), SockCap - r.inflight)
      s == [r EXCEPT !.wire = @ \o SubSeq(p, 1, n), !.inflight = @ + n]
  IN IF FlushFails(r) THEN [r EXCEPT !.closed = TRUE]
     ELSE IF n < Len(p)
          THEN Mod([s EXCEPT !.wbuf = SubSeq(p, n + 1, Len(p)), !.wsent = 0], TRUE)
          ELSE Mod([s EXCEPT !.wbuf = <<>>, !.wsent = 0], FALSE)

\* Mutant: an overflow drops the reply and keeps the connection.
conn_queue_write_Drop(r, n) ==
  LET q == [r EXCEPT !.due = @ + n]
  IN IF r.closed \/ Len(r.wbuf) + n > WriteCap THEN q
     ELSE conn_flush([q EXCEPT !.wbuf = @ \o [i \in 1..n |-> r.due + i]])

\* n more units are due.  An overflow closes the connection for output.
conn_queue_write(r, n) ==
  LET q == [r EXCEPT !.due = @ + n]
  IN IF r.closed THEN q
     ELSE IF Len(r.wbuf) + n > WriteCap THEN [q EXCEPT !.closed = TRUE]
     ELSE conn_flush([q EXCEPT !.wbuf = @ \o [i \in 1..n |-> r.due + i]])

\* conn_create: the slab blocks, the links; then event_loop_add.
Created(r, f) == [r EXCEPT !.phase = "open", !.fd = f, !.armed = Readable(r)]

\* Mutant: the conn_t is not given back.
Destroy_Leak(cs, c) ==
  /\ conns' = [cs EXCEPT ![c] = Fresh("gone")]
  /\ handlers' = event_loop_del(handlers, cs[c].fd)
  /\ conn_count' = conn_count - 1
  /\ UNCHANGED blocks

\* conn_destroy, given the other connections' state cs.
Destroy(cs, c) ==
  /\ conns' = [cs EXCEPT ![c] = Fresh("gone")]
  /\ handlers' = event_loop_del(handlers, cs[c].fd)
  /\ conn_count' = conn_count - 1
  /\ blocks' = blocks + 1
-----------------------------------------------------------------------------
(* event_loop_run_once *)

ReadyEvents ==
  {<<conns[c].fd, c>> : c \in {d \in Open : conns[d].armed /\ Ready(conns[d])}}
    \cup (IF listenArmed /\ backlog # <<>> THEN {<<Listen, None>>} ELSE {})

\* With busy polling epoll_wait may report nothing.
EpollWait ==
  /\ pc = "poll"
  /\ \E b \in SUBSET ReadyEvents :
       /\ Cardinality(b) = Least(MaxEvents, Cardinality(ReadyEvents))
       /\ batch' = b
       /\ conns' = [c \in Clients |->
            [conns[c] EXCEPT !.armed = @ /\ <<conns[c].fd, c>> \in ReadyEvents \ b]]
       /\ listenArmed' = (listenArmed /\ <<Listen, None>> \in ReadyEvents \ b)
  /\ pc' = "dispatch"
  /\ UNCHANGED <<config, handlers, backlog, conn_count, blocks, ring, cur>>

BatchDone ==
  /\ pc = "dispatch" /\ batch = {}
  /\ pc' = "poll"
  /\ UNCHANGED <<config, conns, handlers, backlog, listenArmed, conn_count, blocks, ring, cur, batch>>

\* The handler is looked up when the event is dispatched, not when it came:
\* conn_on_writable while EPOLLOUT is armed, whatever the event, else
\* conn_on_readable.
Dispatch(e) ==
  /\ pc = "dispatch" /\ e \in batch /\ e[1] # Listen
  /\ batch' = batch \ {e}
  /\ LET c == handlers[e[1]] IN
       IF c = None THEN UNCHANGED <<conns, handlers, conn_count, blocks, pc, cur>>
       ELSE \/ /\ ~conns[c].out
               /\ pc' = "read" /\ cur' = c
               /\ UNCHANGED <<conns, handlers, conn_count, blocks>>
            \/ /\ conns[c].out /\ FlushFails(conns[c])
               /\ Destroy(conns, c)
               /\ UNCHANGED <<pc, cur>>
            \/ /\ conns[c].out /\ ~FlushFails(conns[c])
               /\ conns' = [conns EXCEPT ![c] = conn_flush(@)]
               /\ UNCHANGED <<handlers, conn_count, blocks, pc, cur>>
  /\ UNCHANGED <<config, backlog, listenArmed, ring>>
-----------------------------------------------------------------------------
(* server_on_accept: the limit is looked at once, then accept until EAGAIN *)

DispatchAccept ==
  /\ pc = "dispatch" /\ <<Listen, None>> \in batch
  /\ batch' = batch \ {<<Listen, None>>}
  /\ pc' = IF conn_count >= config.max_connections THEN "dispatch" ELSE "accept"
  /\ UNCHANGED <<config, conns, handlers, backlog, listenArmed, conn_count, blocks, ring, cur>>

\* Mutant: one client is accepted per event.
Accept_Once(f) ==
  /\ pc = "accept" /\ backlog # <<>> /\ blocks > 0
  /\ f \in FreeFds /\ \A g \in FreeFds : f <= g
  /\ conns' = [conns EXCEPT ![Head(backlog)] = Created(@, f)]
  /\ handlers' = event_loop_add(handlers, f, Head(backlog))
  /\ backlog' = Tail(backlog)
  /\ conn_count' = conn_count + 1 /\ blocks' = blocks - 1
  /\ pc' = "dispatch"
  /\ UNCHANGED <<config, listenArmed, ring, cur, batch>>

Accept(f) ==
  /\ pc = "accept" /\ backlog # <<>> /\ blocks > 0
  /\ f \in FreeFds /\ \A g \in FreeFds : f <= g
  /\ conns' = [conns EXCEPT ![Head(backlog)] = Created(@, f)]
  /\ handlers' = event_loop_add(handlers, f, Head(backlog))
  /\ backlog' = Tail(backlog)
  /\ conn_count' = conn_count + 1 /\ blocks' = blocks - 1
  /\ UNCHANGED <<config, listenArmed, ring, pc, cur, batch>>

\* set_nonblocking, conn_create or event_loop_add failed: close, go on.
AcceptDrop ==
  /\ pc = "accept" /\ backlog # <<>> /\ FreeFds # {}
  /\ conns' = [conns EXCEPT ![Head(backlog)] = Fresh("gone")]
  /\ backlog' = Tail(backlog)
  /\ UNCHANGED <<config, handlers, listenArmed, conn_count, blocks, ring, pc, cur, batch>>

\* EAGAIN, or any other error of accept (no descriptor left).
AcceptDone ==
  /\ pc = "accept" /\ (backlog = <<>> \/ FreeFds = {})
  /\ pc' = "dispatch"
  /\ UNCHANGED <<config, conns, handlers, backlog, listenArmed, conn_count, blocks, ring, cur, batch>>
-----------------------------------------------------------------------------
(* conn_on_readable and server_dispatch_commands for the session cur *)

\* What arrived before a reset may still be read.
NextCmd(k) == pc = "read" /\ conns[cur].inq # <<>> /\ Head(conns[cur].inq).kind = k

\* Mutants: only one command is read per event; the closed flag is not
\* looked at.
Finish_Once(cs) ==
  /\ pc' = "dispatch" /\ cur' = None
  /\ \/ cs[cur].closed /\ Destroy(cs, cur)
     \/ /\ ~cs[cur].closed /\ conns' = cs
        /\ UNCHANGED <<handlers, conn_count, blocks>>
Finish_Ignore(cs) ==
  /\ conns' = cs
  /\ UNCHANGED <<handlers, conn_count, blocks, pc, cur>>

\* After a command: a connection whose output is closed is destroyed.
Finish(cs) ==
  \/ /\ cs[cur].closed
     /\ Destroy(cs, cur)
     /\ pc' = "dispatch" /\ cur' = None
  \/ /\ ~cs[cur].closed
     /\ conns' = cs
     /\ UNCHANGED <<handlers, conn_count, blocks, pc, cur>>

Taken == [conns EXCEPT ![cur].inq = Tail(@)]
Reply(cs, n) == [c \in Clients |-> IF c = cur THEN conn_queue_write(cs[c], n) ELSE cs[c]]

ReadAgain ==
  /\ pc = "read" /\ conns[cur].inq = <<>> /\ conns[cur].fin = "no"
  /\ pc' = "dispatch" /\ cur' = None
  /\ UNCHANGED <<config, conns, handlers, backlog, listenArmed, conn_count, blocks, ring, batch>>

ReadEnd ==
  /\ pc = "read"
  /\ conns[cur].fin = "rst" \/ (conns[cur].fin = "fin" /\ conns[cur].inq = <<>>)
  /\ Destroy(conns, cur)
  /\ pc' = "dispatch" /\ cur' = None
  /\ UNCHANGED <<config, backlog, listenArmed, ring, batch>>

\* Every command that answers its own client and no one else.
CmdReply(k, n) ==
  /\ NextCmd(k)
  /\ Finish(Reply(Taken, n))
  /\ UNCHANGED <<config, backlog, listenArmed, ring, batch>>

\* A blank line, or a reply that does not fit its formatting buffer.
CmdSilent ==
  /\ NextCmd("silent")
  /\ Finish(Taken)
  /\ UNCHANGED <<config, backlog, listenArmed, ring, batch>>

subscribe_command ==
  /\ NextCmd("sub")
  /\ Finish(Reply([Taken EXCEPT ![cur].sub = Head(conns[cur].inq).ch], 1))
  /\ UNCHANGED <<config, backlog, listenArmed, ring, batch>>

\* server_broadcast_channel: every linked subscriber of the channel.
Broadcast(cs, ch) ==
  [c \in Clients |-> IF cs[c].phase = "open" /\ cs[c].sub = ch
                     THEN conn_queue_write(cs[c], MsgSize) ELSE cs[c]]

\* Mutant: subscribers whose buffer overflows are destroyed on the spot.
publish_command_Destroys ==
  /\ NextCmd("pub")
  /\ LET sent == Reply(IF ring >= RingCap THEN Taken
                       ELSE Broadcast(Taken, Head(conns[cur].inq).ch), 1)
         dead == {c \in Open : sent[c].closed}
     IN /\ conns' = [c \in Clients |-> IF c \in dead THEN Fresh("gone") ELSE sent[c]]
        /\ handlers' = [f \in Fds |-> IF handlers[f] \in dead THEN None ELSE handlers[f]]
        /\ conn_count' = conn_count - Cardinality(dead)
        /\ blocks' = blocks + Cardinality(dead)
        /\ pc' = IF cur \in dead THEN "dispatch" ELSE pc
        /\ cur' = IF cur \in dead THEN None ELSE cur
  /\ ring' = IF ring >= RingCap THEN ring ELSE ring + 1
  /\ UNCHANGED <<config, backlog, listenArmed, batch>>

\* Mutant: the subscribers are served before the ring is asked.
publish_command_First ==
  /\ NextCmd("pub")
  /\ Finish(Reply(Broadcast(Taken, Head(conns[cur].inq).ch), 1))
  /\ ring' = IF ring >= RingCap THEN ring ELSE ring + 1
  /\ UNCHANGED <<config, backlog, listenArmed, batch>>

publish_command ==
  /\ NextCmd("pub")
  /\ LET sent == IF ring >= RingCap THEN Taken
                 ELSE Broadcast(Taken, Head(conns[cur].inq).ch)
     IN Finish(Reply(sent, 1))
  /\ ring' = IF ring >= RingCap THEN ring ELSE ring + 1
  /\ UNCHANGED <<config, backlog, listenArmed, batch>>

\* QUIT, and a protocol error (whose reply is queued first).
CmdDestroy ==
  /\ NextCmd("quit") \/ NextCmd("bad")
  /\ Destroy(conns, cur)
  /\ pc' = "dispatch" /\ cur' = None
  /\ UNCHANGED <<config, backlog, listenArmed, ring, batch>>
-----------------------------------------------------------------------------
(* Clients and the kernel *)

Env == UNCHANGED <<config, handlers, conn_count, blocks, ring, pc, cur, batch>>

Connect(c) ==
  /\ conns[c].phase = "new"
  /\ Cardinality({d \in Clients : conns[d].phase # "new"}) < config.clients
  /\ conns' = [conns EXCEPT ![c].phase = "backlog"]
  /\ backlog' = Append(backlog, c) /\ listenArmed' = TRUE
  /\ Env

Command(k, ch) == [kind |-> k, ch |-> IF k \in {"sub", "pub"} THEN ch ELSE None]
Live(c) == conns[c].phase \in {"backlog", "open"}
Edge(r) == [r EXCEPT !.armed = (r.phase = "open")]

Send(c, k, ch) ==
  /\ Live(c) /\ conns[c].fin = "no" /\ conns[c].ncmds < config.cmds
  /\ conns' = [conns EXCEPT ![c] =
       Edge([@ EXCEPT !.inq = Append(conns[c].inq, Command(k, ch)), !.ncmds = conns[c].ncmds + 1])]
  /\ UNCHANGED <<backlog, listenArmed>> /\ Env

CloseSend(c) ==
  /\ Live(c) /\ conns[c].fin = "no"
  /\ conns' = [conns EXCEPT ![c] = Edge([@ EXCEPT !.fin = "fin"])]
  /\ UNCHANGED <<backlog, listenArmed>> /\ Env

Reset(c) ==
  /\ Live(c) /\ conns[c].fin # "rst"
  /\ conns' = [conns EXCEPT ![c] = Edge([@ EXCEPT !.fin = "rst"])]
  /\ UNCHANGED <<backlog, listenArmed>> /\ Env

\* The client takes a unit; a full send buffer becoming writable is an edge.
Receive(c) ==
  /\ conns[c].phase = "open" /\ conns[c].inflight > 0
  /\ conns' = [conns EXCEPT ![c].inflight = @ - 1,
                            ![c].armed = @ \/ conns[c].out]
  /\ UNCHANGED <<backlog, listenArmed>> /\ Env
-----------------------------------------------------------------------------
Thread ==
  \/ EpollWait \/ BatchDone
  \/ \E e \in batch : Dispatch(e)
  \/ DispatchAccept \/ (\E f \in Fds : Accept(f)) \/ AcceptDrop \/ AcceptDone
  \/ ReadAgain \/ ReadEnd
  \/ CmdReply("reply", ReplySize) \/ CmdReply("big", WriteCap + 1) \/ CmdSilent
  \/ subscribe_command \/ publish_command \/ CmdDestroy

Next ==
  \/ Thread
  \/ \E c \in Clients :
       \/ Connect(c) \/ CloseSend(c) \/ Reset(c) \/ Receive(c)
       \/ \E k \in config.kinds, ch \in Channels : Send(c, k, ch)

Spec == Init /\ [][Next]_vars

\* The thread keeps running and clients keep receiving what was sent to
\* them; nobody has to connect, send or close.
FairSpec == Spec /\ WF_vars(Thread) /\ \A c \in Clients : WF_vars(Receive(c))
-----------------------------------------------------------------------------
Handled(c) == cur = c \/ <<conns[c].fd, c>> \in batch

\* Types of the thread's and the connections' state.
TypeOK ==
  /\ \A c \in Clients :
       /\ conns[c].phase \in {"new", "backlog", "open", "gone"}
       /\ conns[c].fd \in Fds \cup {None} /\ (c \in Open => conns[c].fd \in Fds)
       /\ conns[c].inflight \in 0..SockCap
       /\ Len(conns[c].wbuf) <= WriteCap /\ conns[c].wsent \in 0..Len(conns[c].wbuf)
       /\ conns[c].sub \in Channels \cup {None}
  /\ handlers \in [Fds -> Clients \cup {None}]
  /\ conn_count \in Nat /\ blocks \in 0..Blocks /\ ring \in 0..RingCap
  /\ pc \in {"poll", "dispatch", "accept", "read"} /\ (pc = "read") = (cur # None)
  /\ batch \subseteq (Fds \X Clients) \cup {<<Listen, None>>}

\* conn_count, the handler table and the slab agree with the connections
\* that are linked: no path through accept, the handlers and conn_destroy
\* frees twice, leaks a conn_t or leaves a handler behind.  Types included.
Accounting ==
  /\ TypeOK
  /\ conn_count = Cardinality(Open) /\ blocks + conn_count = Blocks
  /\ \A c \in Open : handlers[conns[c].fd] = c
  /\ \A f \in Fds : handlers[f] # None => handlers[f] \in Open

\* An event waiting in the current batch still belongs to the connection it
\* was raised for, although connections are destroyed and descriptors reused
\* while the batch is dispatched.
NoStaleEvent == \A e \in batch : e[1] # Listen => handlers[e[1]] = e[2]

\* Edge-triggered epoll never strands a connection: unsent output always has
\* EPOLLOUT armed, and only then; and a connection that could be read or
\* written is on the ready list, in the batch or being handled, also when its
\* input edge was consumed by conn_on_writable.
NoLostWakeup ==
  \A c \in Open :
    /\ Pending(conns[c]) # <<>> /\ conns[c].fin # "rst" => conns[c].out
    /\ conns[c].out => Pending(conns[c]) # <<>>
    /\ Ready(conns[c]) => conns[c].armed \/ Handled(c)

\* What a client is sent is a prefix of what it is due, in order and without
\* a gap, through partial writes, buffer shifts and overflow; nothing is
\* missing while the connection is not closed.
StreamPrefix ==
  \A c \in Open :
    LET s == conns[c].wire \o Pending(conns[c])
    IN /\ s = [i \in 1..Len(s) |-> i]
       /\ Len(s) <= conns[c].due
       /\ ~conns[c].closed => Len(s) = conns[c].due

\* A connection whose output another client's PUBLISH overflowed executes at
\* most one more command: dispatch destroys it right after.
ClosedServesOnce ==
  [][(pc = "read" /\ conns[cur].closed
        /\ Len(conns'[cur].inq) < Len(conns[cur].inq))
      => conns'[cur].phase = "gone"]_vars

\* A command that reached an accepted connection is read, or the connection
\* is destroyed, however output back-pressure and other clients interleave.
CommandsServed ==
  \A c \in Clients :
    (c \in Open /\ conns[c].inq # <<>>) ~> (c \notin Open \/ conns[c].inq = <<>>)

\* A listening descriptor that is armed gets its queue emptied, unless the
\* limit is reached or descriptors run out: one event accepts everybody who
\* waits, those included who came while it was handled.
BacklogServed ==
  (listenArmed /\ backlog # <<>>) ~>
    (backlog = <<>> \/ conn_count >= config.max_connections \/ FreeFds = {})

\* PUBLISH reaches every subscriber of its channel or, when the ring refuses
\* the message, nobody: what another client is due grows by the message or
\* not at all.
PublishAllOrNone ==
  [][(NextCmd("pub") /\ conns'[cur].inq # conns[cur].inq) =>
       \A c \in Open \ {cur} :
         conns'[c].due - conns[c].due =
           IF ring' > ring /\ conns[c].sub = Head(conns[cur].inq).ch THEN MsgSize ELSE 0]_vars
=============================================================================
