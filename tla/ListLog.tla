------------------------------ MODULE ListLog ------------------------------
(***************************************************************************)
(* LIST keys: the registry that gives every key a list (key_registry.c),   *)
(* the append log their elements live in (append_log.c), and the restart   *)
(* of a server whose log is a file.  All lists share one log; an element   *)
(* is a record that points back to the one pushed before it.  Sizes and    *)
(* offsets are in units.  The registry's hash table is the map HashTable   *)
(* shows it to be: its capacity is twice the number of lists, so it is     *)
(* never at its load limit.                                                *)
(***************************************************************************)
EXTENDS Integers, Sequences, FiniteSets

CONSTANTS
  Keys, LongKeys,     \* LongKeys: beyond ZEDIS_HT_MAX_KEY
  Values, BadValues,  \* BadValues: empty, or beyond ZEDIS_AOL_MAX_ELEM
  Size,               \* units of a value
  Hdr,                \* units of a record's header and key
  MaxLists, LogCap,
  ChainMax,           \* offsets an LRANGE collects (1024)
  ReplyCap,           \* the reply buffer of lrange_command (8192)
  MaxRestarts,        \* bound
  None                \* also ZEDIS_AOL_NO_PREV

Offsets == 0..(LogCap - 1)
Indices == 0..(MaxLists - 1)

\* aol_hdr_t, and the value behind it
Record == [prev : Offsets \cup {None}, key : Keys, val : Values]

ASSUME ListAssumption ==
  /\ LongKeys \subseteq Keys /\ BadValues \subseteq Values
  /\ Size \in [Values -> Nat] /\ Hdr \in Nat \ {0}
  /\ MaxLists \in Nat /\ LogCap \in Nat /\ MaxRestarts \in Nat
  /\ ChainMax \in Nat /\ ReplyCap \in Nat
  /\ None \notin Keys \cup Values \cup Nat \cup Record

VARIABLES
  disk,       \* the log: the record that starts at an offset
  write_pos,
  lists,      \* reg->lists: head_off, tail_off, count
  index,      \* reg->keys
  used,       \* reg->used
  restarts,
  pushed,     \* history: what each key was pushed since the start, newest first
  acked       \* history: how many elements, since the first start

vars == <<disk, write_pos, lists, index, used, restarts, pushed, acked>>

Empty == [head |-> None, tail |-> None, count |-> 0]

Started ==
  /\ write_pos' = 0
  /\ lists' = [i \in Indices |-> Empty]
  /\ index' = [k \in Keys |-> None] /\ used' = 0
  /\ pushed' = [k \in Keys |-> <<>>]

Init ==
  /\ disk = [o \in Offsets |-> None]
  /\ write_pos = 0
  /\ lists = [i \in Indices |-> Empty]
  /\ index = [k \in Keys |-> None] /\ used = 0
  /\ restarts = 0
  /\ pushed = [k \in Keys |-> <<>>] /\ acked = [k \in Keys |-> 0]
-----------------------------------------------------------------------------
(* zedis_aol_lpush *)

record_size(v) == Hdr + Size[v]

Refused(v) == v \in BadValues \/ write_pos + record_size(v) > LogCap

\* What the bytes of a record wipe out is gone.
Written(rec, n) ==
  [o \in Offsets |-> IF o = write_pos THEN rec
                     ELSE IF o \in write_pos..(write_pos + n - 1) THEN None
                     ELSE disk[o]]

\* Mutant: the record does not point back.
aol_lpush_NoLink(i, k, v) ==
  LET l == lists[i] IN
  /\ disk' = Written([prev |-> None, key |-> k, val |-> v], record_size(v))
  /\ write_pos' = write_pos + record_size(v)
  /\ lists' = [lists EXCEPT ![i] =
       [head |-> write_pos, tail |-> IF l.head = None THEN write_pos ELSE l.tail,
        count |-> l.count + 1]]

aol_lpush(i, k, v) ==
  LET l == lists[i] IN
  /\ disk' = Written([prev |-> l.head, key |-> k, val |-> v], record_size(v))
  /\ write_pos' = write_pos + record_size(v)
  /\ lists' = [lists EXCEPT ![i] =
       [head |-> write_pos, tail |-> IF l.head = None THEN write_pos ELSE l.tail,
        count |-> l.count + 1]]
-----------------------------------------------------------------------------
(* zedis_list_reg_lpush.  With every list in use a new key is refused and  *)
(* nothing changes.                                                        *)

\* list_index_for_key, create = 1
Slot(k) ==
  IF index[k] # None THEN UNCHANGED <<index, used>>
  ELSE /\ used < MaxLists
       /\ index' = [index EXCEPT ![k] = used]
       /\ used' = used + 1

Lpush(k, v) ==
  /\ k \notin LongKeys /\ ~Refused(v)
  /\ Slot(k) /\ aol_lpush(index'[k], k, v)
  /\ pushed' = [pushed EXCEPT ![k] = <<v>> \o @]
  /\ acked' = [acked EXCEPT ![k] = @ + 1]
  /\ UNCHANGED restarts

\* The log refuses the element; the key keeps the list it was given.
LpushRefused(k, v) ==
  /\ k \notin LongKeys /\ Refused(v)
  /\ Slot(k)
  /\ UNCHANGED <<disk, write_pos, lists, restarts, pushed, acked>>

\* The hash table refuses the key after the list was taken.
LpushLongKey(k) ==
  /\ k \in LongKeys /\ used < MaxLists
  /\ used' = used + 1
  /\ UNCHANGED <<disk, write_pos, lists, index, restarts, pushed, acked>>

\* Mutant: the lists survive the restart, the write position does not.
Restart_KeepLists ==
  /\ restarts < MaxRestarts /\ restarts' = restarts + 1
  /\ write_pos' = 0
  /\ UNCHANGED <<disk, lists, index, used, pushed, acked>>

\* The process ends, at a signal or by a crash, and is started again with
\* the same log file: zedis_aol_init maps the old contents and begins at 0.
Restart ==
  /\ restarts < MaxRestarts /\ restarts' = restarts + 1
  /\ Started
  /\ UNCHANGED <<disk, acked>>
-----------------------------------------------------------------------------
(* zedis_aol_lrange *)

hdr_at(o) == o # None /\ o + 1 <= LogCap

\* From every offset of the log d, the offsets back to a record without a
\* link.  Bytes that are no record have no link, and no value either.
Backward(d) ==
  LET back[o \in Offsets] ==
        <<o>> \o (IF d[o] # None /\ hdr_at(d[o].prev) THEN back[d[o].prev] ELSE <<>>)
  IN back

\* The offsets from a list's newest record back.
Chain(head) ==
  LET all == IF hdr_at(head) THEN Backward(disk)[head] ELSE <<>>
  IN SubSeq(all, 1, IF Len(all) < ChainMax THEN Len(all) ELSE ChainMax)

\* Units of a reply: its header and every element with its length.
ReplySize(vs) ==
  LET sum[n \in 0..Len(vs)] == IF n = 0 THEN 1 ELSE sum[n - 1] + 1 + Size[vs[n]]
  IN sum[Len(vs)]

\* The answer to LRANGE: the elements, or None when they outgrow the reply.
lrange(k, start, stop) ==
  LET c == IF index[k] = None THEN <<>> ELSE Chain(lists[index[k]].head)
      s == IF start < 0 THEN 0 ELSE start
      t == IF stop < 0 \/ stop >= Len(c) THEN Len(c) - 1 ELSE stop
      vs == [i \in 1..(IF s > t THEN 0 ELSE t - s + 1) |-> disk[c[s + i]].val]
  IN IF ReplySize(vs) >= ReplyCap THEN None ELSE vs

llen(k) == IF index[k] = None THEN 0 ELSE lists[index[k]].count
-----------------------------------------------------------------------------
Next ==
  \/ \E k \in Keys, v \in Values : Lpush(k, v) \/ LpushRefused(k, v)
  \/ \E k \in Keys : LpushLongKey(k)
  \/ Restart

Spec == Init /\ [][Next]_vars
-----------------------------------------------------------------------------
\* Types.
TypeOK ==
  /\ disk \in [Offsets -> Record \cup {None}]
  /\ write_pos \in 0..LogCap
  /\ lists \in [Indices -> [head : Offsets \cup {None}, tail : Offsets \cup {None}, count : Nat]]
  /\ index \in [Keys -> Indices \cup {None}]
  /\ used \in 0..MaxLists

Newest(s, n) == SubSeq(s, 1, IF Len(s) < n THEN Len(s) ELSE n)

\* LRANGE returns what was pushed to that key, newest first, and LLEN its
\* length, however the lists' records interleave in the log and whatever an
\* earlier life of the server left in the file; two keys never share a list,
\* and every list given out is counted.  Types included.
ListsFaithful ==
  /\ TypeOK
  /\ \A j, k \in Keys : index[k] # None => index[k] < used /\ (index[j] = index[k] => j = k)
  /\ \A k \in Keys :
    /\ llen(k) = Len(pushed[k])
    /\ lrange(k, 0, -1) \in {None, Newest(pushed[k], ChainMax)}

\* The records of all lists lie side by side in the written part of the log.
RecordsDisjoint ==
  LET Live == UNION {{Chain(lists[i].head)[n] : n \in 1..Len(Chain(lists[i].head))} :
                       i \in Indices}
      End(o) == o + record_size(disk[o].val)
  IN \A o \in Live : End(o) <= write_pos /\ \A p \in Live : o < p => End(o) <= p
-----------------------------------------------------------------------------
(* What the documents say *)

\* README.md:19, the log is "guaranteeing data durability across server
\* restarts": a restarted server still has the elements it acknowledged.
Durable == \A k \in Keys : llen(k) = acked[k]
=============================================================================
