------------------------------ MODULE MCParser ------------------------------
EXTENDS Parser

a == Bulk(<<"a">>)
Good(v) == [bytes |-> Encode(v), value |-> <<v>>, bad |-> FALSE]
Line(bytes, toks) == [bytes |-> bytes, value |-> <<Array(toks)>>, bad |-> FALSE]
Bad(bytes) == [bytes |-> bytes, value |-> <<>>, bad |-> TRUE]
Overflow(bytes) == [bytes |-> bytes, value |-> <<>>, bad |-> FALSE]

Ping == Good(Array(<<a, Bulk(<<>>)>>))
Nested == Good(Array(<<Array(<<a>>), Null, Array(<<>>), Integer(-1)>>))
Quit == Line(<<"q", CR, LF>>, <<Bulk(<<"q">>)>>)
BadBulk == Bad(<<"*", "2", CR, LF, "$", "1", CR, LF, "a", CR, LF, "$", "0", CR, LF, "a", "a">>)

Grammar ==
  [clients |-> {"c1"}, accepts |-> 1, reads |-> 1..60, plan_len |-> 2, heap |-> 1, counts |-> <<1, 5, 1, 1>>,
   items |-> {Ping, Nested, Quit, BadBulk, Good(Integer(10)), Good(Null), Good(Array(<<>>)),
              Good(Bulk(<<CR, LF>>)), Good(Simple("SIMPLE", <<"a">>)), Good(Simple("ERROR", <<>>)),
              Line(<<Space, "a", Space, Space, "b", LF>>, <<a, Bulk(<<"b">>)>>), Line(<<CR, LF>>, <<>>),
              Bad(<<"*", "a", CR, LF>>), Bad(<<":", "-", CR, LF>>), Bad(<<"$", CR, LF>>),
              Overflow(<<"$", "1", "3", "2", CR, LF>>), Overflow(<<"*", "7", "0", CR, LF>>)},
   arena |-> 2000, keys |-> 2, entry |-> 9, members |-> 400, fill |-> {511}]

Sharing ==
  [clients |-> {"c1", "c2"}, accepts |-> 3, reads |-> {9, 14, 60}, plan_len |-> 1, heap |-> 2, counts |-> <<1, 4, 2, 2>>,
   items |-> {Ping, Nested, Quit, BadBulk},
   arena |-> 2000, keys |-> 2, entry |-> 9, members |-> 400, fill |-> {511}]

Filled == [Sharing EXCEPT !.items = {Ping}, !.fill = {511, 512}, !.accepts = 4, !.counts = <<1, 4, 3, 2>>]

Few == [Sharing EXCEPT !.counts = <<1, 2, 2, 1>>]

Zsets == [Sharing EXCEPT !.items = {Ping}, !.members = 11, !.clients = {"c1"}]
Small(n) == [Sharing EXCEPT !.arena = n]

PassConfigs == {Grammar, Sharing, Filled, Few, Zsets, Small(1000), Small(1288)}
=============================================================================
