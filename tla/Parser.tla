------------------------------- MODULE Parser -------------------------------
(***************************************************************************)
(* Connections, their RESP parsers and the memory they live in: conn.c's   *)
(* conn_create and conn_destroy, server_dispatch_commands, resp_nodes.c    *)
(* and resp_buf.c's init and destroy, over RespDecode and Memory.  The     *)
(* bytes of a connection are numbered from the first one; that a buffer of *)
(* fixed size keeps them is RespBuffer's subject.                          *)
(***************************************************************************)
EXTENDS RespDecode, Memory

CONSTANTS Configs,   \* what an instance offers: see TypeOK
          None

VARIABLES config,    \* the instance, chosen initially
          arena,     \* [size, offset]
          regions,   \* what the arena has handed out, in order
          slab,      \* [head, link, kv]
          up,        \* "boot", "run", "failed" or "undefined"
          accepted,  \* connections so far, at most config.accepts
          conn,      \* per client: None or its conn_t
          cur,       \* the connection whose input is being dispatched
          cmd,       \* the decoded value being handled
          heap,      \* nodes got from malloc
          lost,      \* nodes no pointer reaches any more
          filled     \* history: a write buffer was filled to its last word

vars == <<config, arena, regions, slab, up, accepted, conn, cur, cmd, heap, lost, filled>>

ConnWords == 23   \* sizeof(conn_t)
ConnAsked == 64   \* ZEDIS_SLAB_512
NodeWords == 9    \* sizeof(resp_node_t)
WriteAsked == 512 \* ZEDIS_CONN_WRITE_SIZE
BtreeNode == 5    \* words per member of a sorted set's node and member arrays,
BtreeMember == 3  \* scaled down
HeapBase == 100000
Table == Len(Class) + 1  \* the hash table's place in regions

Clients == config.clients
Open(c) == conn[c] # None
Stream(plan) == FlattenSeq([i \in 1..Len(plan) |-> plan[i].bytes])
Plans == SeqOf(config.items, config.plan_len) \ {<<>>}
-----------------------------------------------------------------------------
(* Start-up: four pools, then the hash table *)

Region(start, size) == [start |-> start, size |-> size]

InitPool ==
  LET p == Len(regions) + 1
      size == Class[p] * config.counts[p]
      start == zedis_arena_alloc(arena, size, Align)
  IN /\ up = "boot" /\ p < Table /\ start # Nil
     /\ arena' = [arena EXCEPT !.offset = start + size]
     /\ regions' = Append(regions, Region(start, size))
     /\ slab' = [slab EXCEPT !.link = @ @@ init_links(start, Class[p], config.counts[p]),
                             !.head[p] = start + (config.counts[p] - 1) * Class[p]]
     /\ UNCHANGED <<config, up, accepted, conn, cur, cmd, heap, lost, filled>>

InitTable ==
  LET start == zedis_arena_calloc(arena, config.keys, config.entry, Align)
  IN /\ up = "boot" /\ Len(regions) + 1 = Table /\ start # Nil
     /\ arena' = [arena EXCEPT !.offset = start + config.keys * config.entry]
     /\ regions' = Append(regions, Region(start, config.keys * config.entry))
     /\ slab' = [slab EXCEPT !.kv = start]
     /\ up' = "run"
     /\ UNCHANGED <<config, accepted, conn, cur, cmd, heap, lost, filled>>

BootFails ==
  LET p == Len(regions) + 1
      start == IF p < Table THEN zedis_arena_alloc(arena, Class[p] * config.counts[p], Align)
               ELSE zedis_arena_calloc(arena, config.keys, config.entry, Align)
  IN /\ up = "boot" /\ start = Nil
     /\ up' = "failed"
     /\ UNCHANGED <<config, arena, regions, slab, accepted, conn, cur, cmd, heap, lost, filled>>

\* A sorted set takes its node and member arrays from the arena when its
\* first member is added; the nodes stay taken when the members do not fit.
ZsetInit ==
  LET nodes == zedis_arena_calloc(arena, config.members, BtreeNode, Align)
      after == [arena EXCEPT !.offset = nodes + config.members * BtreeNode]
      members == zedis_arena_calloc(after, config.members, BtreeMember, Align)
      first == Region(nodes, config.members * BtreeNode)
  IN /\ up = "run" /\ cur = None /\ nodes # Nil
     /\ IF members = Nil
        THEN arena' = after /\ regions' = Append(regions, first)
        ELSE /\ arena' = [after EXCEPT !.offset = members + config.members * BtreeMember]
             /\ regions' = regions \o <<first, Region(members, config.members * BtreeMember)>>
     /\ UNCHANGED <<config, slab, up, accepted, conn, cur, cmd, heap, lost, filled>>
-----------------------------------------------------------------------------
(* Connections *)

\* conn_create and event_loop_add, with the bytes the client will send.
\* parser_ok: malloc gave the parser its buffer; add_ok: epoll took the fd.
Accept(c, plan, parser_ok, add_ok) ==
  LET a == zedis_slab_alloc(slab, ConnAsked)
      zeroed == store(a.slab, a.ptr, ConnWords)
      w == zedis_slab_alloc(zeroed, WriteAsked)
  IN /\ up = "run" /\ cur = None /\ ~Open(c) /\ a.ptr # Nil
     /\ parser_ok => slab.head[pool_for_size(WriteAsked)] # Junk
     /\ accepted < config.accepts /\ accepted' = accepted + 1
     /\ IF ~parser_ok \/ w.ptr = Nil
        THEN /\ slab' = zedis_slab_free(zeroed, a.ptr, ConnAsked)
             /\ UNCHANGED conn
        ELSE IF ~add_ok
        THEN /\ slab' = zedis_slab_free(zedis_slab_free(w.slab, w.ptr, WriteAsked), a.ptr, ConnAsked)
             /\ UNCHANGED conn
        ELSE /\ slab' = w.slab
             /\ conn' = [conn EXCEPT ![c] = [ptr |-> a.ptr, write_buf |-> w.ptr, plan |-> plan, stream |-> Stream(plan),
                                             w_pos |-> 0, r_pos |-> 1, got |-> <<>>, peak |-> 0,
                                             free_list |-> <<>>, nodes |-> <<>>]]
     /\ UNCHANGED <<config, arena, regions, up, cur, cmd, heap, lost, filled>>

\* conn_create follows a link that was overwritten; nothing is known of the
\* program from there on.
FollowJunk ==
  /\ up = "run" /\ cur = None /\ accepted < config.accepts
  /\ zedis_slab_alloc(slab, ConnAsked).ptr # Nil
  /\ slab.head[pool_for_size(WriteAsked)] = Junk
  /\ up' = "undefined"
  /\ UNCHANGED <<config, arena, regions, slab, accepted, conn, cur, cmd, heap, lost, filled>>

\* conn_destroy of connection record k: its two blocks go back, and the nodes
\* of its free list, which resp_parser_destroy frees only when there is no
\* slab, are reached by nothing any more.
conn_destroy(c, k, s) ==
  /\ slab' = zedis_slab_free(zedis_slab_free(s, k.write_buf, WriteAsked), k.ptr, ConnAsked)
  /\ lost' = lost \union Range(k.free_list) \union Range(k.nodes)
  /\ conn' = [conn EXCEPT ![c] = None]
  /\ cur' = None /\ cmd' = None

\* The client's side is gone: read returns 0 or an error.
Hangup(c) ==
  /\ up = "run" /\ cur = None /\ Open(c)
  /\ conn_destroy(c, conn[c], slab)
  /\ UNCHANGED <<config, arena, regions, up, accepted, heap, filled>>

\* read returned n bytes, or all there are.
Read(c, n) ==
  /\ up = "run" /\ cur = None /\ Open(c)
  /\ conn[c].w_pos < Len(conn[c].stream)
  /\ conn' = [conn EXCEPT ![c].w_pos = Min({@ + n, Len(conn[c].stream)})]
  /\ cur' = c
  /\ UNCHANGED <<config, arena, regions, slab, up, accepted, cmd, heap, lost, filled>>
-----------------------------------------------------------------------------
(* Decoding and dispatch *)

\* Mutant: the parser's free list is not used.
resp__node_alloc_New(m) ==
  LET a == zedis_slab_alloc(m.slab, NodeWords)
  IN IF a.ptr # Nil
     THEN [m EXCEPT !.slab = store(a.slab, a.ptr, NodeWords), !.nodes = Append(@, a.ptr)]
     ELSE [m EXCEPT !.heap = @ + 1, !.nodes = Append(@, HeapBase + m.heap)]

\* One node: from the parser's free list, else the slab, else malloc.
resp__node_alloc(m) ==
  LET a == zedis_slab_alloc(m.slab, NodeWords)
  IN IF m.free_list # <<>>
     THEN [m EXCEPT !.slab = store(m.slab, Head(m.free_list), NodeWords),
                    !.free_list = Tail(@), !.nodes = Append(@, Head(m.free_list))]
     ELSE IF a.ptr # Nil
     THEN [m EXCEPT !.slab = store(a.slab, a.ptr, NodeWords), !.nodes = Append(@, a.ptr)]
     ELSE [m EXCEPT !.heap = @ + 1, !.nodes = Append(@, HeapBase + m.heap)]

\* n nodes for the parser of k.
Take(k, n) ==
  FoldLeft(LAMBDA m, i : resp__node_alloc(m),
           [slab |-> slab, heap |-> heap, free_list |-> k.free_list, nodes |-> <<>>],
           [i \in 1..n |-> i])

\* How many nodes an attempt can get before malloc fails.
Limit(k) == Len(k.free_list) + Cardinality(Chain(slab, pool_for_size(NodeWords)).blocks)
            + (config.heap - heap)

Decoded(k) == parse_value(SubSeq(k.stream, 1, k.w_pos), k.r_pos, 0, Limit(k))

\* Mutant: a value cut short keeps the nodes it has taken so far.
Released_None(k, m) == [k EXCEPT !.free_list = m.free_list]

\* k after a failed attempt: what it took is on its free list.
Released(k, m) == [k EXCEPT !.free_list = m.nodes \o m.free_list]

\* resp_parser_next on the current connection.
ParserNext(c) ==
  LET r == Decoded(conn[c])
      k == [conn[c] EXCEPT !.peak = Max({@, r.nodes})]
      m == Take(k, r.nodes)
  IN /\ cur = c /\ cmd = None
     /\ heap' = m.heap
     /\ CASE r.status = "NEED_MORE" ->
               /\ conn' = [conn EXCEPT ![c] = Released(k, m)]
               /\ slab' = m.slab /\ cur' = None /\ UNCHANGED <<cmd, lost>>
          [] r.status = "ERROR" -> conn_destroy(c, Released(k, m), store(m.slab, k.write_buf, 1))
          [] r.status = "OK" ->
               /\ conn' = [conn EXCEPT ![c] = [k EXCEPT !.free_list = m.free_list, !.nodes = m.nodes,
                                               !.r_pos = r.pos, !.got = Append(@, r.value)]]
               /\ slab' = m.slab /\ cmd' = <<r.value>> /\ UNCHANGED <<cur, lost>>
     /\ UNCHANGED <<config, arena, regions, up, accepted, filled>>

IsQuit(v) == v.type = "ARRAY" /\ v.elems # <<>> /\ v.elems[1] = Bulk(<<"q">>)

\* k with the nodes of its command back on its free list.
resp_value_release(k) == [k EXCEPT !.free_list = k.nodes \o @, !.nodes = <<>>]

\* The command is handled and its reply queued behind others, up to word n of
\* the write buffer; ok says whether the reply could be queued.  QUIT destroys
\* the connection with the value unreleased.
Handle(c, n, ok) ==
  /\ cur = c /\ cmd # None
  /\ filled' = (filled \/ n = WriteAsked)
  /\ LET s == store(slab, conn[c].write_buf, n)
     IN CASE IsQuit(cmd[1])         -> conn_destroy(c, conn[c], s)
          [] ~IsQuit(cmd[1]) /\ ~ok -> conn_destroy(c, resp_value_release(conn[c]), s)
          [] OTHER -> /\ conn' = [conn EXCEPT ![c] = resp_value_release(@)]
                      /\ slab' = s /\ cmd' = None /\ UNCHANGED <<cur, lost>>
  /\ UNCHANGED <<config, arena, regions, up, accepted, heap>>
-----------------------------------------------------------------------------
Init ==
  /\ config \in Configs
  /\ arena = [size |-> config.arena, offset |-> 0]
  /\ regions = <<>>
  /\ slab = [head |-> [p \in 1..Len(Class) |-> Nil], link |-> <<>>, kv |-> Nil]
  /\ up = "boot"
  /\ conn = [c \in config.clients |-> None]
  /\ accepted = 0 /\ cur = None /\ cmd = None
  /\ heap = 0 /\ lost = {} /\ filled = FALSE

Next ==
  \/ InitPool \/ InitTable \/ BootFails \/ ZsetInit \/ FollowJunk
  \/ \E c \in Clients :
       \/ \E plan \in Plans, parser_ok, add_ok \in BOOLEAN : Accept(c, plan, parser_ok, add_ok)
       \/ \E n \in config.reads : Read(c, n)
       \/ Hangup(c)
       \/ ParserNext(c)
       \/ \E n \in config.fill, ok \in BOOLEAN : Handle(c, n, ok)

Spec == Init /\ [][Next]_vars
-----------------------------------------------------------------------------
(* Properties *)

\* Types; a command is only handled on an open connection, and the bytes
\* decoded never reach past the bytes received (resp_decode.c:88-95).
TypeOK ==
  /\ config \in Configs
  /\ arena.offset \in 0..arena.size
  /\ up \in {"boot", "run", "failed", "undefined"}
  /\ accepted \in 0..config.accepts
  /\ DOMAIN conn = Clients
  /\ cur \in Clients \union {None}
  /\ cur = None => cmd = None
  /\ cur # None => Open(cur)
  /\ \A c \in Clients : Open(c) => conn[c].r_pos \in 1..(conn[c].w_pos + 1)
  /\ heap \in 0..config.heap
  /\ filled \in BOOLEAN

\* The regions the arena has handed out (pools, hash table, arrays of sorted
\* sets) are aligned, apart from each other and inside the mapping
\* (zedis_arena_alloc), also after an allocation that did not fit.
RegionsApart ==
  \A i \in 1..Len(regions) :
    /\ regions[i].start % Align = 0
    /\ regions[i].start + regions[i].size <= arena.offset
    /\ i > 1 => regions[i - 1].start + regions[i - 1].size <= regions[i].start

\* The blocks of pool p that somebody holds: conn_t, write buffers, nodes.
Held(p) ==
  LET ks == {conn[c] : c \in {d \in Clients : Open(d)}}
      ptrs == {k.ptr : k \in ks} \union {k.write_buf : k \in ks} \union lost
              \union UNION {Range(k.free_list) \union Range(k.nodes) : k \in ks}
  IN {q - 1 : q \in ptrs} \intersect BlocksOf(regions[p].start, Class[p], config.counts[p])

\* Following the links from a pool's head visits exactly the blocks of that
\* pool nobody holds and comes to an end, whatever the owners stored in
\* theirs, and the hash table behind the pools is untouched: connections,
\* write buffers and nodes are given back to the pool they came from, on the
\* failure paths of conn_create too (slab.c, conn.c, resp_nodes.c).  A write
\* buffer filled to its last word ends this for the buffers' own pool and the
\* hash table, and for no other pool.  No node is in two places: two parsers'
\* free lists, two commands, or twice in one.
PoolsIntact ==
  LET nodes(c) == conn[c].free_list \o conn[c].nodes
      open == {c \in Clients : Open(c)}
  IN /\ up = "run" =>
          /\ ~filled => slab.kv # Junk
          /\ \A p \in 1..Len(Class) : ~filled \/ p < pool_for_size(WriteAsked) =>
               /\ Chain(slab, p).ends
               /\ Chain(slab, p).blocks = BlocksOf(regions[p].start, Class[p], config.counts[p]) \ Held(p)
     /\ \A c, d \in open :
          /\ Cardinality(Range(nodes(c))) = Len(nodes(c))
          /\ Range(nodes(c)) \intersect lost = {}
          /\ c # d => Range(nodes(c)) \intersect Range(nodes(d)) = {}

\* A parser never holds more nodes than its largest value needed: nodes of a
\* value that was cut short, nested ones included, are reused by the next
\* attempt (parse_array, resp_nodes.c).
NodesReused ==
  \A c \in Clients : Open(c) => Len(conn[c].free_list) + Len(conn[c].nodes) <= conn[c].peak

\* While the connection lives, however the bytes were cut into reads: the
\* values delivered are the values the client wrote, in order; and when the
\* dispatch loop is left, every value that has fully arrived is among them
\* and no malformed item has fully arrived, for it ends the connection
\* (RESP_ERROR in server_dispatch_commands).  Nothing is said from the first
\* item on that is malformed or carries a number that does not fit.  Types
\* included.
DecodedAsSent ==
  /\ TypeOK
  /\ \A c \in Clients : Open(c) =>
       LET k == conn[c]
           good == SelectInSeq(k.plan, LAMBDA x : x.value = <<>>)
           known == IF good = 0 THEN Len(k.plan) ELSE good - 1
           End(n) == Len(Stream(SubSeq(k.plan, 1, n)))
           arrived == Max({n \in 0..known : End(n) <= k.w_pos})
           said == SubSeq(k.got, 1, Min({known, Len(k.got)}))
       IN /\ \A i \in 1..Len(said) : said[i] = k.plan[i].value[1]
          /\ Len(said) <= arrived
          /\ cur # c => Len(said) = arrived
          /\ cur # c /\ good > 0 => (k.plan[good].bad => k.w_pos < End(good))
=============================================================================
