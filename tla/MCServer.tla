------------------------------ MODULE MCServer ------------------------------
(* Small instances of Server. *)
EXTENDS Server, TLC
CONSTANTS c1, c2, c3, ch1

TwoClients == {c1, c2}
ThreeClients == {c1, c2, c3}
OneChannel == {ch1}
Symmetry == Permutations(Clients)

\* Two clients whose output backs up; three clients at a limit of one.
PubSub == [max_connections |-> 2, clients |-> 2, cmds |-> 2, kinds |-> {"reply", "sub", "pub"}]
Churn == [max_connections |-> 1, clients |-> 3, cmds |-> 1, kinds |-> {"big", "silent", "quit", "bad"}]
Replies == [max_connections |-> 2, clients |-> 2, cmds |-> 2, kinds |-> {"reply"}]
Limited == [max_connections |-> 1, clients |-> 2, cmds |-> 1, kinds |-> {"quit"}]

IoAndAccept == {PubSub, Churn}
RepliesAndLimit == {Replies, Limited}
=============================================================================
