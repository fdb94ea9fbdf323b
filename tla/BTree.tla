------------------------------- MODULE BTree -------------------------------
(***************************************************************************)
(* The B-tree of src/btree.c as operators on a tree value: the member      *)
(* table, the nodes allocated so far and the root.  A node holds up to     *)
(* three scores; a leaf's kids are member numbers, an inner node's are     *)
(* node numbers.  Numbers start at 1 and 0 is UINT32_MAX.  Member names    *)
(* are numbers in the order of memcmp.                                     *)
(***************************************************************************)
EXTENDS Integers, Sequences, SequencesExt

MaxKeys == 3  \* BTREE_MAX_KEYS

\* zedis_btree_init
EmptyTree == [members |-> <<>>, nodes |-> <<>>, root |-> 0]

Node(l, ks, cs) == [leaf |-> l, keys |-> ks, kids |-> cs]

\* The first of positions 1..n where Stop holds, n + 1 if there is none.
FirstPos(n, Stop(_)) ==
  CHOOSE i \in 1..(n + 1) : (i = n + 1 \/ Stop(i)) /\ \A j \in 1..(i - 1) : ~Stop(j)

\* find_member: depth first over all children; 0 when there is none.
RECURSIVE find_member(_, _, _)
find_member(t, n, name) ==
  LET node == t.nodes[n]
      found == IF node.leaf
               THEN SelectSeq(node.kids, LAMBDA m : t.members[m].name = name)
               ELSE SelectSeq([i \in 1..Len(node.kids) |-> find_member(t, node.kids[i], name)],
                              LAMBDA m : m # 0)
  IN IF found = <<>> THEN 0 ELSE found[1]

\* Mutant: a leaf is ordered by name alone.
leaf_find_pos_Name(t, node, score, m) ==
  FirstPos(Len(node.keys),
    LAMBDA i : t.members[m].name <= t.members[node.kids[i]].name)

\* leaf_find_pos with score_member_cmp: by score, then by name.
leaf_find_pos(t, node, score, m) ==
  FirstPos(Len(node.keys),
    LAMBDA i : score < node.keys[i]
               \/ (score = node.keys[i]
                     /\ t.members[m].name <= t.members[node.kids[i]].name))

insert_into_leaf(t, n, score, m) ==
  LET node == t.nodes[n]
      p == leaf_find_pos(t, node, score, m)
  IN [t EXCEPT !.nodes[n] = Node(TRUE, InsertAt(node.keys, p, score), InsertAt(node.kids, p, m))]

\* Mutants: an inner node keeps one child too few; the promoted entry leaves
\* a leaf too.
split_node_Cut(t, n) ==
  LET node == t.nodes[n]
      mid == IF node.leaf THEN (Len(node.keys) + 1) \div 2 ELSE MaxKeys \div 2
      left == Node(node.leaf, SubSeq(node.keys, 1, mid), SubSeq(node.kids, 1, mid))
      right == Node(node.leaf, SubSeq(node.keys, mid + 1, Len(node.keys)),
                    SubSeq(node.kids, mid + 1, Len(node.kids)))
  IN [tree |-> [t EXCEPT !.nodes = Append([@ EXCEPT ![n] = left], right)],
      sibling |-> Len(t.nodes) + 1, promoted |-> node.keys[mid + 1]]

split_node_Drop(t, n) ==
  LET node == t.nodes[n]
      mid == MaxKeys \div 2
      left == Node(node.leaf, SubSeq(node.keys, 1, mid),
                   SubSeq(node.kids, 1, IF node.leaf THEN mid ELSE mid + 1))
      right == Node(node.leaf, SubSeq(node.keys, mid + 2, Len(node.keys)),
                    SubSeq(node.kids, mid + 2, Len(node.kids)))
  IN [tree |-> [t EXCEPT !.nodes = Append([@ EXCEPT ![n] = left], right)],
      sibling |-> Len(t.nodes) + 1, promoted |-> node.keys[mid + 1]]

\* split_leaf and split_internal: the right half goes to a new node.  A leaf
\* keeps the promoted score on its right, an inner node gives it up.
split_node(t, n) ==
  LET node == t.nodes[n]
      mid == IF node.leaf THEN (Len(node.keys) + 1) \div 2 ELSE MaxKeys \div 2
      cut == IF node.leaf THEN mid ELSE mid + 1
      left == Node(node.leaf, SubSeq(node.keys, 1, mid), SubSeq(node.kids, 1, cut))
      right == Node(node.leaf, SubSeq(node.keys, cut + 1, Len(node.keys)),
                    SubSeq(node.kids, cut + 1, Len(node.kids)))
  IN [tree |-> [t EXCEPT !.nodes = Append([@ EXCEPT ![n] = left], right)],
      sibling |-> Len(t.nodes) + 1, promoted |-> node.keys[mid + 1]]

\* insert_nonfull: down to a leaf, splitting full children on the way.  A
\* failed allocation stops the descent; max is tree->max_nodes.
RECURSIVE insert_nonfull(_, _, _, _, _)
insert_nonfull(t, n, score, m, max) ==
  LET node == t.nodes[n]
      i == FirstPos(Len(node.keys), LAMBDA j : score <= node.keys[j])
      c == node.kids[i]
      s == split_node(t, c)
      grown == [s.tree EXCEPT !.nodes[n] =
                  Node(FALSE, InsertAt(node.keys, i, s.promoted),
                       InsertAt(node.kids, i + 1, s.sibling))]
  IN IF node.leaf THEN insert_into_leaf(t, n, score, m)
     ELSE IF Len(t.nodes[c].keys) < MaxKeys THEN insert_nonfull(t, c, score, m, max)
     ELSE IF Len(t.nodes) >= max THEN t
     ELSE insert_nonfull(grown, IF score >= s.promoted THEN s.sibling ELSE c, score, m, max)

\* insert_entry: the first leaf, or a new root above a full one.  The new
\* root is allocated before the sibling.
insert_entry(t, score, m, max) ==
  LET above == [t EXCEPT !.nodes = Append(@, Node(FALSE, <<>>, <<>>))]
      top == Len(above.nodes)
      s == split_node(above, t.root)
      raised == [s.tree EXCEPT !.nodes[top] = Node(FALSE, <<s.promoted>>, <<t.root, s.sibling>>),
                               !.root = top]
  IN IF t.root = 0
     THEN IF max < 1 THEN t
          ELSE [t EXCEPT !.nodes = <<Node(TRUE, <<score>>, <<m>>)>>, !.root = 1]
     ELSE IF Len(t.nodes[t.root].keys) < MaxKeys THEN insert_nonfull(t, t.root, score, m, max)
     ELSE IF top >= max THEN (IF top > max THEN t ELSE above)
     ELSE insert_nonfull(raised, IF score >= s.promoted THEN s.sibling ELSE top, score, m, max)

\* rebuild_btree: every member again, in the order of the member table.
rebuild_btree(t, max) ==
  FoldLeft(LAMBDA acc, m : insert_entry(acc, t.members[m].score, m, max),
           [t EXCEPT !.nodes = <<>>, !.root = 0],
           [m \in 1..Len(t.members) |-> m])

lookup(t, name) == IF t.root = 0 THEN 0 ELSE find_member(t, t.root, name)

\* Mutant: an update changes the table and leaves the tree as it is.
Updated_InPlace(t, m, score, max) == [t EXCEPT !.members[m].score = score]

Updated(t, m, score, max) == rebuild_btree([t EXCEPT !.members[m].score = score], max)

\* zedis_btree_add of a member that is there, or for which there is room.
zedis_btree_add(t, score, name, max) ==
  LET m == lookup(t, name)
      more == [t EXCEPT !.members = Append(@, [name |-> name, score |-> score])]
  IN IF m # 0 THEN Updated(t, m, score, max)
     ELSE insert_entry(more, score, Len(more.members), max)

\* collect_inorder: the members of the leaves, left to right.
RECURSIVE inorder(_, _)
inorder(t, n) ==
  LET node == t.nodes[n]
  IN IF node.leaf THEN node.kids
     ELSE FlattenSeq([i \in 1..Len(node.kids) |-> inorder(t, node.kids[i])])

collect_inorder(t) == IF t.root = 0 THEN <<>> ELSE inorder(t, t.root)

\* The height of every leaf below node n, as a set.
RECURSIVE Heights(_, _)
Heights(t, n) ==
  IF t.nodes[n].leaf THEN {0}
  ELSE UNION {{h + 1 : h \in Heights(t, t.nodes[n].kids[i])} : i \in 1..Len(t.nodes[n].kids)}
=============================================================================
