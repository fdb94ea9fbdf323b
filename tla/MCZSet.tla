------------------------------- MODULE MCZSet -------------------------------
(* Small registries.  Wide: two keys share two trees of two members.  Mixed:  *)
(* one tree takes members in every order and moves them among three scores.   *)
(* Deep: the members arrive in the order of their names, enough of them to    *)
(* split an inner node.                                                       *)
EXTENDS ZSet, TLC

Wide ==
  [max_zsets |-> 2, max_members |-> 2, keys |-> Keys, members |-> 0..3,
   scores |-> {1, 2}, in_order |-> FALSE, updatable |-> 1..3]
Mixed ==
  [max_zsets |-> 1, max_members |-> 5, keys |-> {"z"}, members |-> 1..5,
   scores |-> {1, 2, 3}, in_order |-> FALSE, updatable |-> 1..5]
Deep ==
  [max_zsets |-> 1, max_members |-> 13, keys |-> {"z"}, members |-> 1..13,
   scores |-> {1, 2}, in_order |-> TRUE, updatable |-> {2}]

AllSmall == {Wide, Mixed, Deep}
=============================================================================
