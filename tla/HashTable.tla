----------------------------- MODULE HashTable -----------------------------
(***************************************************************************)
(* The Robin Hood hash table of src/hash_table.c: open addressing in a     *)
(* fixed array, a probe sequence length (psl) in every entry, tombstones   *)
(* on deletion, no rehash.  A call is a Call action followed by one Probe  *)
(* action per turn of the C function's for(;;) loop; the last turn returns *)
(* and records the answer in `last`.  The string store uses all three      *)
(* operations, the key registries (key_registry.c) only SET and GET: the   *)
(* variable owner says which of them this table serves.                    *)
(***************************************************************************)
EXTENDS Integers, FiniteSets

CONSTANTS
  Keys, Values,
  LongKeys, LongValues,  \* the ones beyond ZEDIS_HT_MAX_KEY / MAX_VALUE
  Cap,                   \* number of entries
  Hash,                  \* ht_hash of every key
  Owners,                \* the uses of a table: operations, keys and values
  None

ASSUME TableAssumption ==
  /\ Cap \in Nat \ {0}
  /\ Hash \in [Keys -> Nat]
  /\ LongKeys \subseteq Keys /\ LongValues \subseteq Values
  /\ Owners \subseteq [ops : SUBSET {"set", "get", "del"},
                      keys : SUBSET Keys, values : SUBSET Values]
  /\ None \notin Keys /\ None \notin Values

VARIABLES
  owner,     \* who uses the table
  entries,   \* ht->entries
  count,     \* ht->count
  op,        \* the function that is running, or "idle"
  key, value,\* its arguments
  incoming,  \* the entry a SET carries
  idx, psl,  \* the loop's position and probe length
  last,      \* the last completed call with its answer
  acked      \* history: what the answers so far say each key holds

table == <<entries, count>>
vars == <<owner, entries, count, op, key, value, incoming, idx, psl, last, acked>>

Slots == 0..(Cap - 1)
States == {"EMPTY", "OCCUPIED", "TOMBSTONE"}
NoItem == [key |-> None, value |-> None]
Vacant(s) == [state |-> s, psl |-> 0, item |-> NoItem]
Stored(p, it) == [state |-> "OCCUPIED", psl |-> p, item |-> it]

Occupied == {i \in Slots : entries[i].state = "OCCUPIED"}

Home(k) == Hash[k] % Cap

\* Mutant: refuse only when the count has passed the capacity.
AtLoadLimit_Capacity == count > Cap

\* The load limit also refuses a SET that would only overwrite.
AtLoadLimit == count * 10 >= Cap * 7

KeyMatch(i) == entries[i].state = "OCCUPIED" /\ entries[i].item.key = key

Init ==
  /\ owner \in Owners
  /\ entries = [i \in Slots |-> Vacant("EMPTY")]
  /\ count = 0
  /\ op = "idle" /\ key = None /\ value = None /\ incoming = NoItem
  /\ idx = 0 /\ psl = 0
  /\ last = [op |-> "idle", key |-> None, value |-> None, ret |-> None]
  /\ acked = [k \in Keys |-> None]

Start(o, k, v) ==
  /\ op' = o /\ key' = k /\ value' = v
  /\ idx' = Home(k) /\ psl' = 0
  /\ UNCHANGED owner

Return(r) ==
  /\ op' = "idle" /\ key' = None /\ value' = None /\ incoming' = NoItem
  /\ idx' = 0 /\ psl' = 0
  /\ last' = [op |-> op, key |-> key, value |-> value, ret |-> r]
  /\ UNCHANGED owner

\* Mutant: psl is not incremented.
Advance_NoPsl(p) ==
  /\ psl' = p
  /\ idx' = (idx + 1) % Cap
  /\ UNCHANGED owner

Advance(p) ==
  /\ psl' = p + 1
  /\ idx' = (idx + 1) % Cap
  /\ UNCHANGED owner
-----------------------------------------------------------------------------
(* zedis_ht_set *)

SetRefuse(k, v) ==
  /\ op = "idle" /\ "set" \in owner.ops /\ k \in owner.keys /\ v \in owner.values
  /\ k \in LongKeys \/ v \in LongValues \/ AtLoadLimit
  /\ last' = [op |-> "set", key |-> k, value |-> v, ret |-> "err"]
  /\ UNCHANGED <<owner, entries, count, op, key, value, incoming, idx, psl, acked>>

SetCall(k, v) ==
  /\ op = "idle" /\ "set" \in owner.ops /\ k \in owner.keys /\ v \in owner.values
  /\ k \notin LongKeys /\ v \notin LongValues /\ ~AtLoadLimit
  /\ Start("set", k, v)
  /\ incoming' = [key |-> k, value |-> v]
  /\ UNCHANGED <<entries, count, last, acked>>

\* Mutant: psl is incremented before the entry is written.
SetPlace_PslFirst ==
  /\ op = "set" /\ entries[idx].state # "OCCUPIED"
  /\ entries' = [entries EXCEPT ![idx] = Stored(psl + 1, incoming)]
  /\ count' = count + 1
  /\ acked' = [acked EXCEPT ![key] = value]
  /\ Return("ok")

\* The first slot that is not occupied takes whatever entry is carried.
SetPlace ==
  /\ op = "set" /\ entries[idx].state # "OCCUPIED"
  /\ entries' = [entries EXCEPT ![idx] = Stored(psl, incoming)]
  /\ count' = count + 1
  /\ acked' = [acked EXCEPT ![key] = value]
  /\ Return("ok")

\* A match is sought for the caller's key, also while another is carried.
SetOverwrite ==
  /\ op = "set" /\ KeyMatch(idx)
  /\ entries' = [entries EXCEPT ![idx] =
       Stored(entries[idx].psl, [key |-> key, value |-> value])]
  /\ acked' = [acked EXCEPT ![key] = value]
  /\ Return("ok")
  /\ UNCHANGED count

\* Mutant: the displaced entry's psl is not taken over.
SetSwap_KeepPsl ==
  /\ op = "set" /\ entries[idx].state = "OCCUPIED" /\ ~KeyMatch(idx)
  /\ psl > entries[idx].psl
  /\ entries' = [entries EXCEPT ![idx] = Stored(psl, incoming)]
  /\ incoming' = entries[idx].item
  /\ Advance(psl)
  /\ UNCHANGED <<count, op, key, value, last, acked>>

SetSwap ==
  /\ op = "set" /\ entries[idx].state = "OCCUPIED" /\ ~KeyMatch(idx)
  /\ psl > entries[idx].psl
  /\ entries' = [entries EXCEPT ![idx] = Stored(psl, incoming)]
  /\ incoming' = entries[idx].item
  /\ Advance(entries[idx].psl)
  /\ UNCHANGED <<count, op, key, value, last, acked>>

SetPass ==
  /\ op = "set" /\ entries[idx].state = "OCCUPIED" /\ ~KeyMatch(idx)
  /\ psl <= entries[idx].psl
  /\ Advance(psl)
  /\ UNCHANGED <<entries, count, op, key, value, incoming, last, acked>>
-----------------------------------------------------------------------------
(* zedis_ht_get and zedis_ht_del: the same search *)

LookupCall(o, k) ==
  /\ op = "idle" /\ o \in owner.ops /\ k \in owner.keys
  /\ Start(o, k, None)
  /\ UNCHANGED <<entries, count, incoming, last, acked>>

GetHit ==
  /\ op = "get" /\ KeyMatch(idx)
  /\ Return(entries[idx].item.value)
  /\ UNCHANGED <<entries, count, acked>>

\* The slot becomes a tombstone whose psl is 0.
DelHit ==
  /\ op = "del" /\ KeyMatch(idx)
  /\ entries' = [entries EXCEPT ![idx] = Vacant("TOMBSTONE")]
  /\ count' = count - 1
  /\ acked' = [acked EXCEPT ![key] = None]
  /\ Return("ok")

\* Mutant: the early exit takes an equal psl.
LookupMiss_Eager ==
  /\ op \in {"get", "del"} /\ ~KeyMatch(idx)
  /\ entries[idx].state = "EMPTY" \/ psl >= entries[idx].psl
  /\ acked' = IF op = "del" THEN [acked EXCEPT ![key] = None] ELSE acked
  /\ Return(None)
  /\ UNCHANGED table

LookupMiss ==
  /\ op \in {"get", "del"} /\ ~KeyMatch(idx)
  /\ entries[idx].state = "EMPTY" \/ psl > entries[idx].psl
  /\ acked' = IF op = "del" THEN [acked EXCEPT ![key] = None] ELSE acked
  /\ Return(None)
  /\ UNCHANGED table

LookupPass ==
  /\ op \in {"get", "del"} /\ ~KeyMatch(idx)
  /\ entries[idx].state # "EMPTY" /\ psl <= entries[idx].psl
  /\ Advance(psl)
  /\ UNCHANGED <<entries, count, op, key, value, incoming, last, acked>>
-----------------------------------------------------------------------------
Probe ==
  \/ SetPlace \/ SetOverwrite \/ SetSwap \/ SetPass
  \/ GetHit \/ DelHit \/ LookupMiss \/ LookupPass

Next ==
  \/ \E k \in Keys, v \in Values : SetRefuse(k, v) \/ SetCall(k, v)
  \/ \E k \in Keys, o \in {"get", "del"} : LookupCall(o, k)
  \/ Probe

Spec == Init /\ [][Next]_vars

\* The thread that called the table runs its loop; callers need not call.
FairSpec == Spec /\ WF_vars(Probe)
-----------------------------------------------------------------------------
(* Properties of every table *)

Item == [key : Keys \cup {None}, value : Values \cup {None}]
Entry == [state : States, psl : Nat, item : Item]

\* Types of the table, of the running call and of the answers.
TypeOK ==
  /\ entries \in [Slots -> Entry]
  /\ count \in Nat
  /\ op \in {"idle", "set", "get", "del"}
  /\ key \in Keys \cup {None} /\ value \in Values \cup {None}
  /\ op # "idle" => key \in Keys
  /\ op = "set" => value \in Values
  /\ incoming \in Item
  /\ idx \in Slots /\ psl \in Nat
  /\ acked \in [Keys -> Values \cup {None}]

\* ht->count, which the load limit and the zedis_keys metric read, is the
\* number of occupied entries through every insertion, displacement,
\* overwrite and deletion.
CountIsOccupied == count = Cardinality(Occupied)

\* The for(;;) loop of zedis_ht_set has no bound of its own.  While it runs
\* some entry is not occupied, so it has a slot to stop at.
FreeSlotDuringSet == op = "set" => \E i \in Slots : i \notin Occupied

\* A stored psl is the distance from the entry's home slot, and so is the
\* psl of the entry a SET carries after any number of displacements: the
\* early exit of the lookups compares true distances.
PslIsDistance ==
  /\ \A i \in Occupied :
       entries[i].item.key \in Keys /\ i = (Home(entries[i].item.key) + entries[i].psl) % Cap
  /\ op = "set" => incoming.key \in Keys /\ idx = (Home(incoming.key) + psl) % Cap
  /\ op \in {"get", "del"} => idx = (Home(key) + psl) % Cap

\* A GET that directly follows a successful SET of its key answers with the
\* value just set, whatever tombstones and displacements the probe met.
ReadYourWrite ==
  [][(op = "get" /\ op' = "idle" /\ last.op = "set" /\ last.ret = "ok"
        /\ last.key = key) => last'.ret = last.value]_vars

\* Every call returns, although no loop of the table counts its turns.
EveryCallReturns == op # "idle" ~> op = "idle"
-----------------------------------------------------------------------------
(* Properties of a table nobody deletes from (the key registries') *)

Deletes == "del" \in owner.ops

\* Robin Hood order: an entry away from home has an occupied predecessor at
\* most one step closer to its own home, so that the early exit
\* "psl > e->psl" of the lookups is sound; and no key occupies two entries,
\* the carried entry included.
RobinHoodOrder == ~Deletes =>
  /\ \A i \in Occupied : entries[i].psl > 0 =>
       LET j == (i + Cap - 1) % Cap
       IN j \in Occupied /\ entries[j].psl + 1 >= entries[i].psl
  /\ \A i, j \in Occupied : entries[i].item.key = entries[j].item.key => i = j
  /\ (op = "set" /\ incoming.key # key) =>
        \A i \in Occupied : entries[i].item.key # incoming.key

\* Seen through its answers such a table is the abstract map.  A table with
\* deletions is not shown: it maps to a map nobody calls.
NoCall == [op |-> "idle", key |-> None, value |-> None]
Map == INSTANCE KVMap WITH
  store <- IF Deletes THEN [k \in Keys |-> None] ELSE acked,
  req <- IF Deletes THEN NoCall ELSE [op |-> op, key |-> key, value |-> value],
  last <- IF Deletes THEN [op |-> "idle", key |-> None, value |-> None, ret |-> None] ELSE last

\* Without deletions zedis_ht_set and zedis_ht_get answer like a map: a GET
\* returns the value last set, and a SET is refused only for its arguments or
\* because the distinct keys reach the load limit.
MapSpec == Map!Spec
-----------------------------------------------------------------------------
(* What the documents say of a table with deletions *)

\* README.md:35-36, SET stores a value and GET retrieves it: a key that was
\* set and not deleted since is found.
StoredKeyIsFound ==
  [][(op = "get" /\ op' = "idle" /\ acked[key] # None) => last'.ret # None]_vars
=============================================================================
