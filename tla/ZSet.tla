-------------------------------- MODULE ZSet --------------------------------
(***************************************************************************)
(* Sorted sets: the registry that gives every key a tree (key_registry.c)  *)
(* and the commands ZADD, ZSCORE and ZRANGE on the trees of BTree.  The    *)
(* registry's hash table is the map HashTable shows it to be; it is never  *)
(* at its load limit, having twice as many slots as there are trees.       *)
(***************************************************************************)
EXTENDS BTree, FiniteSets

CONSTANTS
  Keys, LongKeys,        \* LongKeys: beyond ZEDIS_HT_MAX_KEY
  Members, BadMembers,   \* names; BadMembers: empty or beyond ZEDIS_BTREE_MAX_MEMBER
  Scores,
  Configs,               \* the registries' sizes, and the bounds of an instance
  None

\* max_zsets and max_members are arguments of zedis_zset_init.  The rest bounds
\* the commands: which keys, members and scores; whether new members come in
\* the order of their names; the members whose score may change.
Config ==
  [max_zsets : Nat, max_members : Nat \ {0},
   keys : SUBSET Keys, members : SUBSET Members, scores : SUBSET Scores,
   in_order : BOOLEAN, updatable : SUBSET Members]

ASSUME ZSetAssumption ==
  /\ LongKeys \subseteq Keys /\ BadMembers \subseteq Members
  /\ Members \subseteq Nat /\ Scores \subseteq Int
  /\ Configs \subseteq Config

VARIABLES
  config,
  trees,   \* reg->trees
  index,   \* reg->keys
  used,    \* reg->used
  given    \* history: the score each key's members were last given

vars == <<config, trees, index, used, given>>

Indices == 0..(config.max_zsets - 1)

\* tree->max_nodes, from zedis_btree_init
MaxNodes == config.max_members * 2 + 4

Init ==
  /\ config \in Configs
  /\ trees = [i \in Indices |-> EmptyTree]
  /\ index = [k \in Keys |-> None] /\ used = 0
  /\ given = [k \in Keys |-> [m \in Members |-> None]]
-----------------------------------------------------------------------------
\* Mutant: the tree of the first set serves every new key.
Slot_First(k) ==
  IF index[k] # None THEN UNCHANGED <<index, used>>
  ELSE /\ used < config.max_zsets
       /\ index' = [index EXCEPT ![k] = 0]
       /\ used' = used + 1

\* zset_index_for_key, create = 1
Slot(k) ==
  IF index[k] # None THEN UNCHANGED <<index, used>>
  ELSE /\ used < config.max_zsets
       /\ index' = [index EXCEPT ![k] = used]
       /\ used' = used + 1

\* The members zedis_btree_add accepts: known ones, and new ones while
\* alloc_member has room.
Accepted(t, m) ==
  m \notin BadMembers /\ (lookup(t, m) # 0 \/ Len(t.members) < config.max_members)

\* The bounds of an instance.
Expected(t, s, m) ==
  /\ s \in config.scores
  /\ lookup(t, m) # 0 => m \in config.updatable
  /\ config.in_order =>
       \A n \in config.members \ BadMembers : n < m => lookup(t, n) # 0

Zadd(k, s, m) ==
  /\ k \notin LongKeys
  /\ Slot(k)
  /\ LET t == trees[index'[k]] IN
     /\ Accepted(t, m) /\ Expected(t, s, m)
     /\ trees' = [trees EXCEPT ![index'[k]] = zedis_btree_add(t, s, m, MaxNodes)]
  /\ given' = [given EXCEPT ![k][m] = s]
  /\ UNCHANGED config

\* The tree refuses the member; the key keeps the tree it was given.
ZaddRefused(k, m) ==
  /\ k \notin LongKeys
  /\ Slot(k)
  /\ ~Accepted(trees[index'[k]], m)
  /\ UNCHANGED <<config, trees, given>>

\* The hash table refuses the key after the tree was taken.
ZaddLongKey(k) ==
  /\ k \in LongKeys /\ used < config.max_zsets
  /\ used' = used + 1
  /\ UNCHANGED <<config, trees, index, given>>

Next ==
  \/ \E k \in config.keys, m \in config.members :
       (\E s \in Scores : Zadd(k, s, m)) \/ ZaddRefused(k, m)
  \/ \E k \in config.keys : ZaddLongKey(k)

Spec == Init /\ [][Next]_vars
-----------------------------------------------------------------------------
(* ZSCORE and ZRANGE *)

TreeOf(k) == IF index[k] = None THEN EmptyTree ELSE trees[index[k]]

zscore(k, m) ==
  LET t == TreeOf(k)
      i == lookup(t, m)
  IN IF i = 0 THEN None ELSE t.members[i].score

\* zedis_btree_range: the entries of ranks start to stop.
zrange(k, start, stop) ==
  LET t == TreeOf(k)
      all == collect_inorder(t)
      s == IF start < 0 THEN 0 ELSE start
      e == IF stop < 0 \/ stop >= Len(all) THEN Len(all) - 1 ELSE stop
  IN IF s > e THEN <<>> ELSE [i \in 1..(e - s + 1) |-> t.members[all[s + i]]]
-----------------------------------------------------------------------------
\* Types.
TypeOK ==
  /\ \A i \in Indices :
       /\ trees[i].root \in 0..Len(trees[i].nodes)
       /\ Len(trees[i].nodes) <= MaxNodes /\ Len(trees[i].members) <= config.max_members
  /\ index \in [Keys -> Indices \cup {None}]
  /\ used \in 0..config.max_zsets
  /\ given \in [Keys -> [Members -> Scores \cup {None}]]

\* ZSCORE answers the score the member was last given under that key, and
\* null for every other member, through splits, updates and rebuilds.  Types
\* included.
ScoresFaithful ==
  /\ TypeOK
  /\ \A k \in Keys, m \in Members : zscore(k, m) = given[k][m]

\* The part of ZRANGE from any rank to any other is the same part of the
\* whole range, which has every member once, by ascending score.
RangeByScore ==
  \A k \in Keys :
    LET all == zrange(k, 0, -1) IN
    /\ {e.name : e \in ToSet(all)} = {m \in Members : given[k][m] # None}
    /\ Cardinality(ToSet(all)) = Len(all)
    /\ \A i, j \in 1..Len(all) :
         i < j => /\ all[i].score <= all[j].score
                  /\ zrange(k, i - 1, j - 1) = SubSeq(all, i, j)

Nodes(t) == 1..Len(t.nodes)

\* Every tree is a B-tree: one to three scores in a node, one more child than
\* scores, all leaves at one depth, every node but the root below one other.
\* The nodes set aside suffice: a member the table has room for is never lost
\* for want of a node, so table and leaves agree.
WellFormed ==
  \A i \in Indices :
    LET t == trees[i] IN
    /\ \A n \in Nodes(t) :
         /\ Len(t.nodes[n].keys) \in 1..MaxKeys
         /\ Len(t.nodes[n].kids) = Len(t.nodes[n].keys) + (IF t.nodes[n].leaf THEN 0 ELSE 1)
         /\ n # t.root =>
              Cardinality({<<p, c>> \in Nodes(t) \X (1..(MaxKeys + 1)) :
                ~t.nodes[p].leaf /\ c <= Len(t.nodes[p].kids) /\ t.nodes[p].kids[c] = n}) = 1
    /\ t.root # 0 => Cardinality(Heights(t, t.root)) = 1
    /\ Len(collect_inorder(t)) = Len(t.members)
=============================================================================
