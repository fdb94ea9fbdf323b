---------------------------- MODULE MCHashTable ----------------------------
(* Small tables whose keys collide: A, B and C share a home slot, D and the *)
(* overlong L have the next one, which in a table of four is the first.     *)
EXTENDS HashTable, TLC
CONSTANTS A, B, C, D, L, v1, v2, vLong

FourKeys == {A, B, C, D}
AllKeys == FourKeys \cup {L}
OneLongKey == {L}
TwoValues == {v1, v2}
AllValues == TwoValues \cup {vLong}
OneLongValue == {vLong}
HashOf == A :> 3 @@ B :> 3 @@ C :> 3 @@ D :> 4 @@ L :> 4

Store(ks, vs) == [ops |-> {"set", "get", "del"}, keys |-> ks, values |-> vs]
Registry == [ops |-> {"set", "get"}, keys |-> AllKeys, values |-> TwoValues]

StoreAndRegistry == {Store({A, B, D}, AllValues), Registry}
StoreOfFour == {Store(FourKeys, {v1})}
=============================================================================
