------------------------------ MODULE Commands ------------------------------
(***************************************************************************)
(* server_handle_command and the handlers of PING, ECHO, SET, GET, DEL,    *)
(* BID, ASK and BOOK (server.c), with the reply formatters (resp_format.c) *)
(* as the reply they make or fail to make.  One thread handles the         *)
(* commands of all connections one after the other.  Lengths are in bytes. *)
(*                                                                         *)
(* The table behind SET, GET and DEL is the map that HashTable implements  *)
(* when no two keys probe the same slot.  An argument is                   *)
(* [bulk, id, len, num]: whether it is a bulk string, its content, its     *)
(* length, and the number its digits write, if they do.                    *)
(***************************************************************************)
EXTENDS OrderBook, Sequences, FiniteSets, FiniteSetsExt

CONSTANTS Configs    \* [commands, most, capacity]: what clients send, how many
                     \* commands are followed, the table's slots

Arg == [bulk : BOOLEAN, id : STRING, len : Nat, num : Seq(Int)]

ASSUME CommandsAssumption ==
  Configs \subseteq [commands : SUBSET [name : STRING, args : Seq(Arg)], most : Nat, capacity : Nat]

VARIABLES config,    \* the instance, chosen initially
          kv,        \* the stored keys with their values
          log        \* history: the commands handled, with their replies

vars == <<config, kv, log, bookVars>>

ZEDIS_HT_MAX_KEY == 256
ZEDIS_HT_MAX_VALUE == 4096
ReplyCap == 4096     \* the buffer reply_bulk formats into
-----------------------------------------------------------------------------
(* Replies: <<>> when nothing is sent *)

Simple(s) == <<[type |-> "simple", of |-> s]>>
Failed(s) == <<[type |-> "error", of |-> s]>>
IntReply(n) == <<[type |-> "integer", of |-> n]>>
NullReply == <<[type |-> "null"]>>
Levels(b, a) == <<[type |-> "array", of |-> <<b, a>>]>>
BulkReply(v) == <<[type |-> "bulk", of |-> v]>>

\* The bytes of "$<len>\r\n".
Header(len) == 3 + Cardinality({k \in {1, 10, 100, 1000} : len >= k \/ k = 1})

\* Mutant: the buffer of the short replies.
reply_bulk_Short(v) == IF Header(v.len) + v.len + 3 > 512 THEN <<>> ELSE BulkReply(v)

reply_bulk(v) == IF Header(v.len) + v.len + 3 > ReplyCap THEN <<>> ELSE BulkReply(v)

Reply(cmd, r) == log' = Append(log, [cmd |-> cmd, reply |-> r])
-----------------------------------------------------------------------------
(* Arguments *)

\* cmd_bulk succeeds for argument i.
IsBulk(cmd, i) == i <= Len(cmd.args) /\ cmd.args[i].bulk

Trunc(n, half) == ((n + half) % (2 * half)) - half
IsNum(arg) == arg.num # <<>>
parse_i64(arg) == Trunc(arg.num[1], QtyHalf)
parse_int(arg) == Trunc(parse_i64(arg), IntHalf)
-----------------------------------------------------------------------------
(* Handlers *)

ping_command(cmd) ==
  /\ cmd.name = "PING"
  /\ Reply(cmd, IF cmd.args = <<>> THEN Simple("PONG")
                ELSE IF IsBulk(cmd, 1) THEN reply_bulk(cmd.args[1]) ELSE <<>>)
  /\ UNCHANGED <<config, kv, bookVars>>

echo_command(cmd) ==
  /\ cmd.name = "ECHO"
  /\ Reply(cmd, IF IsBulk(cmd, 1) THEN reply_bulk(cmd.args[1]) ELSE Failed("arguments"))
  /\ UNCHANGED <<config, kv, bookVars>>

\* zedis_ht_set refuses: too long, or seven tenths of the slots taken, even
\* when the key is there already.
Refuses(key, val) ==
  \/ key.len > ZEDIS_HT_MAX_KEY \/ val.len > ZEDIS_HT_MAX_VALUE
  \/ Cardinality(DOMAIN kv) * 10 >= config.capacity * 7

Store(key, val) == [k \in DOMAIN kv \union {key} |-> IF k = key THEN val ELSE kv[k]]

\* Mutant: the fill of the table is looked at after the key went in.
set_command_Late(cmd) ==
  /\ cmd.name = "SET"
  /\ IF ~IsBulk(cmd, 1) \/ ~IsBulk(cmd, 2) THEN Reply(cmd, Failed("arguments")) /\ UNCHANGED kv
     ELSE /\ Reply(cmd, IF Refuses(cmd.args[1], cmd.args[2]) THEN Failed("full") ELSE Simple("OK"))
          /\ kv' = Store(cmd.args[1], cmd.args[2])
  /\ UNCHANGED <<config, bookVars>>

set_command(cmd) ==
  /\ cmd.name = "SET"
  /\ CASE ~IsBulk(cmd, 1) \/ ~IsBulk(cmd, 2) -> Reply(cmd, Failed("arguments")) /\ UNCHANGED kv
       [] IsBulk(cmd, 1) /\ IsBulk(cmd, 2) /\ Refuses(cmd.args[1], cmd.args[2]) ->
            Reply(cmd, Failed("full")) /\ UNCHANGED kv
       [] OTHER -> Reply(cmd, Simple("OK")) /\ kv' = Store(cmd.args[1], cmd.args[2])
  /\ UNCHANGED <<config, bookVars>>

get_command(cmd) ==
  /\ cmd.name = "GET"
  /\ Reply(cmd, IF ~IsBulk(cmd, 1) THEN Failed("arguments")
                ELSE IF cmd.args[1] \in DOMAIN kv THEN reply_bulk(kv[cmd.args[1]]) ELSE NullReply)
  /\ UNCHANGED <<config, kv, bookVars>>

\* Mutant: the answer is given, the key stays.
del_command_Keep(cmd) ==
  /\ cmd.name = "DEL"
  /\ Reply(cmd, IF ~IsBulk(cmd, 1) THEN Failed("arguments")
                ELSE IntReply(IF cmd.args[1] \in DOMAIN kv THEN 1 ELSE 0))
  /\ UNCHANGED <<config, kv, bookVars>>

del_command(cmd) ==
  /\ cmd.name = "DEL"
  /\ IF ~IsBulk(cmd, 1) THEN Reply(cmd, Failed("arguments")) /\ UNCHANGED kv
     ELSE /\ Reply(cmd, IntReply(IF cmd.args[1] \in DOMAIN kv THEN 1 ELSE 0))
          /\ kv' = [k \in DOMAIN kv \ {cmd.args[1]} |-> kv[k]]
  /\ UNCHANGED <<config, bookVars>>

\* What BID and ASK share: the checks before the book is touched.
Refusal(cmd) ==
  CASE ~IsBulk(cmd, 1) \/ ~IsBulk(cmd, 2) -> "arguments"
    [] IsBulk(cmd, 1) /\ IsBulk(cmd, 2) /\ ~(IsNum(cmd.args[1]) /\ IsNum(cmd.args[2])) -> "invalid"
    [] OTHER -> IF InRange(parse_int(cmd.args[1])) THEN "none" ELSE "range"

bid_command(cmd) ==
  /\ cmd.name = "BID"
  /\ IF Refusal(cmd) # "none" THEN Reply(cmd, Failed(Refusal(cmd))) /\ UNCHANGED bookVars
     ELSE /\ zedis_book_bid(parse_int(cmd.args[1]), parse_i64(cmd.args[2]))
          /\ Reply(cmd, IntReply(parse_i64(cmd.args[2])))
  /\ UNCHANGED <<config, kv>>

ask_command(cmd) ==
  /\ cmd.name = "ASK"
  /\ IF Refusal(cmd) # "none" THEN Reply(cmd, Failed(Refusal(cmd))) /\ UNCHANGED bookVars
     ELSE /\ zedis_book_ask(parse_int(cmd.args[1]), parse_i64(cmd.args[2]))
          /\ Reply(cmd, IntReply(parse_i64(cmd.args[2])))
  /\ UNCHANGED <<config, kv>>

\* zedis_book_level and the reply of BOOK.
book_command(cmd) ==
  /\ cmd.name = "BOOK"
  /\ Reply(cmd, CASE ~IsBulk(cmd, 1) -> Failed("arguments")
                  [] IsBulk(cmd, 1) /\ ~IsNum(cmd.args[1]) -> Failed("invalid")
                  [] OTHER -> LET price == parse_int(cmd.args[1])
                              IN IF InRange(price) THEN Levels(bid_qty[price], ask_qty[price])
                                 ELSE Failed("range"))
  /\ UNCHANGED <<config, kv, bookVars>>

\* An empty line is ignored; a value that is no array, or whose first element
\* is no bulk string, and a name not in command_table are errors.
no_command(cmd) ==
  /\ cmd.name \in {"empty", "format", "unknown"}
  /\ Reply(cmd, IF cmd.name = "empty" THEN <<>> ELSE Failed(cmd.name))
  /\ UNCHANGED <<config, kv, bookVars>>

server_handle_command(cmd) ==
  \/ ping_command(cmd) \/ echo_command(cmd)
  \/ set_command(cmd) \/ get_command(cmd) \/ del_command(cmd)
  \/ bid_command(cmd) \/ ask_command(cmd) \/ book_command(cmd)
  \/ no_command(cmd)

Init ==
  /\ config \in Configs
  /\ kv = << >> /\ log = <<>>
  /\ BookInit

Next == Len(log) < config.most /\ \E cmd \in config.commands : server_handle_command(cmd)

Spec == Init /\ [][Next]_vars
-----------------------------------------------------------------------------
(* The reference: what the history of commands calls for *)

Before(n) == 1..(n - 1)
Did(n, name) == log[n].cmd.name = name
Args(n) == log[n].cmd.args
Bulks(n, k) == \A i \in 1..k : IsBulk(log[n].cmd, i)

\* The writes to a key before command n, and whether they leave it stored.
Writes(key, n) ==
  {m \in Before(n) : \/ Did(m, "SET") /\ log[m].reply = Simple("OK") /\ Args(m)[1] = key
                     \/ Did(m, "DEL") /\ Bulks(m, 1) /\ Args(m)[1] = key}
Stored(key, n) == Writes(key, n) # {} /\ Did(Max(Writes(key, n)), "SET")
Keys == {Args(n)[1] : n \in {m \in DOMAIN log : Did(m, "SET") /\ Bulks(m, 1)}}

\* What command m adds to one side at a price: the quantity of an order that
\* was accepted.
Added(name, price, m) ==
  IF /\ Did(m, name) /\ log[m].reply # <<>> /\ log[m].reply[1].type = "integer"
     /\ parse_int(Args(m)[1]) = price
  THEN parse_i64(Args(m)[2]) ELSE 0
\* The sums of the first m commands.
Totals(name, price) ==
  LET t[m \in 0..Len(log)] == IF m = 0 THEN 0 ELSE t[m - 1] + Added(name, price, m)
  IN t
\* The net quantity before command n, where taking back more than there is
\* leaves nothing: how far the sum stands above the lowest it has been.
Net(name, price, n) ==
  LET t == Totals(name, price) IN Max({t[n - 1] - t[j] : j \in 0..(n - 1)})
Fits(name, price, n) == \A m \in 1..n : Net(name, price, m) < QtyHalf
-----------------------------------------------------------------------------
(* Properties *)

\* The most that reply_bulk sends; SET takes ten bytes more.
MaxSent == 4086

\* What GET of a key has to send at command n.
Current(key, n) == Args(Max(Writes(key, n)))[2]

Silent(n) ==
  \/ Did(n, "empty")
  \/ Did(n, "PING") /\ Args(n) # <<>> /\ ~Bulks(n, 1)
  \/ (Did(n, "PING") \/ Did(n, "ECHO")) /\ Bulks(n, 1) /\ Args(n)[1].len > MaxSent
  \/ /\ Did(n, "GET") /\ Bulks(n, 1) /\ Stored(Args(n)[1], n)
     /\ Current(Args(n)[1], n).len > MaxSent

\* Types; every key is stored under the length the table takes.
TypeOK ==
  /\ config \in Configs
  /\ BookTypeOK
  /\ Len(log) <= config.most
  /\ \A key \in DOMAIN kv : key.len <= ZEDIS_HT_MAX_KEY /\ kv[key].len <= ZEDIS_HT_MAX_VALUE

\* A client that pipelines commands can match replies to commands by
\* counting, as long as it sends no empty line, no PING whose argument is no
\* bulk string and no value longer than the 4086 bytes README.md:35 allows:
\* those, a GET of a longer value included, and no other command go without
\* a reply (server_handle_command, the handlers, resp_format_bulk's limit).
EveryCommandAnswered ==
  \A n \in DOMAIN log : Len(log[n].reply) = IF Silent(n) THEN 0 ELSE 1

\* GET answers with the value of the last accepted SET of its key unless a
\* DEL came after it, and DEL says whether there was such a value, however
\* accepted, refused and malformed commands are mixed (set_command,
\* get_command, del_command).
ReadsLatest ==
  \A n \in DOMAIN log : Bulks(n, 1) /\ ~Silent(n) /\ (Did(n, "GET") \/ Did(n, "DEL")) =>
    LET key == Args(n)[1]
    IN log[n].reply =
         CASE Did(n, "DEL") -> IntReply(IF Stored(key, n) THEN 1 ELSE 0)
           [] Did(n, "GET") -> IF Stored(key, n) THEN BulkReply(Current(key, n)) ELSE NullReply

\* SET is refused exactly when its key or value is too long or when the keys
\* the history left stored take seven tenths of the table: a deleted key
\* makes room again (zedis_ht_set:45-51, zedis_ht_del:158).  Types included.
RefusedWhenFull ==
  /\ TypeOK
  /\ \A n \in DOMAIN log : Did(n, "SET") /\ Bulks(n, 2) =>
    (log[n].reply = Failed("full") <=>
       \/ Args(n)[1].len > 256 \/ Args(n)[2].len > 4096
       \/ Cardinality({k \in Keys : Stored(k, n)}) * 10 >= config.capacity * 7)

\* BOOK answers with the net quantities of the accepted orders at that price
\* and no other, as long as the net fits an int64_t; prices that differ by a
\* multiple of the range of int are the same price (parse_int, bid_command,
\* ask_command, book_command).
BookIsNet ==
  \A n \in DOMAIN log : Did(n, "BOOK") /\ log[n].reply[1].type = "array" =>
    LET price == parse_int(Args(n)[1])
    IN Fits("BID", price, n) /\ Fits("ASK", price, n) =>
         log[n].reply = Levels(Net("BID", price, n), Net("ASK", price, n))
=============================================================================
