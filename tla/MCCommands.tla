----------------------------- MODULE MCCommands -----------------------------
EXTENDS Commands

Text(id, len) == [bulk |-> TRUE, id |-> id, len |-> len, num |-> <<>>]
Num(n) == [bulk |-> TRUE, id |-> "digits", len |-> 1, num |-> <<n>>]
NotBulk == [bulk |-> FALSE, id |-> "nested", len |-> 0, num |-> <<>>]
Cmd(name, args) == [name |-> name, args |-> args]

k1 == Text("k1", 0)
k2 == Text("k2", 256)
v1 == Text("v1", 4086)
v2 == Text("v2", 0)
long == Text("v4", 4087)

Strings ==
  [most |-> 5, capacity |-> 2,
   commands |-> {Cmd("SET", <<k1, v1>>), Cmd("SET", <<k2, v2>>), Cmd("SET", <<k1, v2>>), Cmd("SET", <<k1, long>>),
                 Cmd("GET", <<k1>>), Cmd("DEL", <<k1>>), Cmd("DEL", <<k2>>),
                 Cmd("SET", <<Text("k3", 257), v1>>), Cmd("SET", <<k2, Text("v3", 4097)>>)}]

Protocol ==
  [most |-> 2, capacity |-> 4,
   commands |-> {Cmd("empty", <<>>), Cmd("format", <<>>), Cmd("unknown", <<>>),
                 Cmd("PING", <<>>), Cmd("PING", <<v1>>), Cmd("PING", <<NotBulk>>),
                 Cmd("ECHO", <<v1>>), Cmd("ECHO", <<>>), Cmd("ECHO", <<Text("v", 999)>>),
                 Cmd("ECHO", <<long>>), Cmd("PING", <<long>>),
                 Cmd("SET", <<k1>>), Cmd("SET", <<k1, NotBulk>>), Cmd("SET", <<k1, v1>>),
                 Cmd("GET", <<>>), Cmd("GET", <<k1>>), Cmd("DEL", <<NotBulk>>), Cmd("DEL", <<k1>>),
                 Cmd("BID", <<Num(1)>>), Cmd("BID", <<Num(1), v1>>), Cmd("ASK", <<>>), Cmd("ASK", <<v1, Num(1)>>),
                 Cmd("BOOK", <<>>), Cmd("BOOK", <<v1>>), Cmd("BOOK", <<Num(9)>>)}]

Orderings ==
  [most |-> 5, capacity |-> 2,
   commands |-> {Cmd("BID", <<Num(1), Num(3)>>), Cmd("BID", <<Num(1), Num(-5)>>), Cmd("BID", <<Num(17), Num(20)>>),
                 Cmd("BID", <<Num(0), Num(1)>>), Cmd("ASK", <<Num(1), Num(4)>>), Cmd("ASK", <<Num(2), Num(-2)>>),
                 Cmd("BID", <<Num(2), Num(69)>>), Cmd("BOOK", <<Num(1)>>), Cmd("BOOK", <<Num(2)>>)}]

PassConfigs == {Strings, Protocol, Orderings}
=============================================================================
