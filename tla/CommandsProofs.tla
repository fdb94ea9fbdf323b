--------------------------- MODULE CommandsProofs ---------------------------
(***************************************************************************)
(* For every set of commands that clients send, every table, price range   *)
(* and width of the integers: which commands go without a reply, what GET, *)
(* DEL, SET and BOOK answer after any history, and that the book never     *)
(* promises more than was offered.                                         *)
(***************************************************************************)
EXTENDS Commands, FiniteSetTheorems, WellFoundedInduction, TLAPS

(* The order book *)

BookGood == BookTypeOK /\ NeverMoreThanOffered

\* One addition to a level (order_book.c:43-46): a sum that leaves the range
\* wraps below zero and is clamped, so the level grows by at most what a
\* positive quantity adds.
LEMMA LevelBound ==
  ASSUME NEW a \in Qtys, a >= 0, NEW q \in Qtys
  PROVE  Level(a, q) \in Qtys /\ Level(a, q) >= 0 /\ Level(a, q) <= a + Gain(q)
<1>1. QtyHalf \in Nat /\ QtyHalf > 0
  BY BookAssumption
<1>2. a \in Int /\ q \in Int /\ a < QtyHalf /\ q >= -QtyHalf /\ q < QtyHalf
  BY <1>1 DEF Qtys
<1>3. CASE a + q >= QtyHalf
  <2>1. Sum64(a, q) = a + q - 2 * QtyHalf
    BY <1>3 DEF Sum64
  <2>2. Sum64(a, q) < 0
    BY <2>1, <1>1, <1>2
  <2> QED BY <2>2, <1>1, <1>2 DEF Level, Gain, Qtys
<1>4. CASE ~(a + q >= QtyHalf)
  <2>1. Sum64(a, q) = a + q
    BY <1>4, <1>1, <1>2 DEF Sum64
  <2>2. CASE a + q < 0
    BY <2>1, <2>2, <1>1, <1>2 DEF Level, Gain, Qtys
  <2>3. CASE ~(a + q < 0)
    <3>1. Level(a, q) = a + q
      BY <2>1, <2>3 DEF Level
    <3> QED BY <3>1, <2>3, <1>1, <1>2, <1>4 DEF Gain, Qtys
  <2> QED BY <2>2, <2>3
<1> QED BY <1>3, <1>4

\* BookGood holds of the empty book.
LEMMA BookGoodInit == BookInit => BookGood
BY BookAssumption DEF BookInit, BookGood, BookTypeOK, NeverMoreThanOffered, Qtys, Prices

\* Every order and every refused order preserves BookGood.
LEMMA BookGoodNext == BookGood /\ [BookNext]_bookVars => BookGood'
<1> SUFFICES ASSUME BookGood, [BookNext]_bookVars PROVE BookGood'
  OBVIOUS
<1>1. CASE UNCHANGED bookVars
  BY <1>1 DEF bookVars, BookGood, BookTypeOK, NeverMoreThanOffered
<1>2. ASSUME NEW price \in Ints, NEW qty \in Qtys, zedis_book_bid(price, qty) PROVE BookGood'
  <2>1. price \in Prices
    BY <1>2, BookAssumption DEF zedis_book_bid, InRange, Prices, Ints
  <2>2. bid_qty[price] \in Qtys /\ bid_qty[price] >= 0 /\ bid_qty[price] <= bids[price] /\ bids[price] \in Nat
    BY <2>1 DEF BookGood, BookTypeOK, NeverMoreThanOffered
  <2>3. /\ Level(bid_qty[price], qty) \in Qtys /\ Level(bid_qty[price], qty) >= 0
        /\ Level(bid_qty[price], qty) <= bid_qty[price] + Gain(qty)
    BY <2>2, LevelBound
  <2>4. Gain(qty) \in Nat
    BY BookAssumption DEF Gain, Qtys
  <2>5. bids[price] + Gain(qty) \in Nat /\ Level(bid_qty[price], qty) \in 0..(bids[price] + Gain(qty))
    BY <2>2, <2>3, <2>4, BookAssumption DEF Qtys
  <2>6. BookTypeOK'
    BY <1>2, <2>1, <2>3, <2>5 DEF BookGood, BookTypeOK, zedis_book_bid
  <2>7. NeverMoreThanOffered'
    BY <1>2, <2>1, <2>5 DEF BookGood, BookTypeOK, NeverMoreThanOffered, zedis_book_bid
  <2> QED BY <2>6, <2>7 DEF BookGood
<1>3. ASSUME NEW price \in Ints, NEW qty \in Qtys, zedis_book_ask(price, qty) PROVE BookGood'
  <2>1. price \in Prices
    BY <1>3, BookAssumption DEF zedis_book_ask, InRange, Prices, Ints
  <2>2. ask_qty[price] \in Qtys /\ ask_qty[price] >= 0 /\ ask_qty[price] <= asks[price] /\ asks[price] \in Nat
    BY <2>1 DEF BookGood, BookTypeOK, NeverMoreThanOffered
  <2>3. /\ Level(ask_qty[price], qty) \in Qtys /\ Level(ask_qty[price], qty) >= 0
        /\ Level(ask_qty[price], qty) <= ask_qty[price] + Gain(qty)
    BY <2>2, LevelBound
  <2>4. Gain(qty) \in Nat
    BY BookAssumption DEF Gain, Qtys
  <2>5. asks[price] + Gain(qty) \in Nat /\ Level(ask_qty[price], qty) \in 0..(asks[price] + Gain(qty))
    BY <2>2, <2>3, <2>4, BookAssumption DEF Qtys
  <2>6. BookTypeOK'
    BY <1>3, <2>1, <2>3, <2>5 DEF BookGood, BookTypeOK, zedis_book_ask
  <2>7. NeverMoreThanOffered'
    BY <1>3, <2>1, <2>5 DEF BookGood, BookTypeOK, NeverMoreThanOffered, zedis_book_ask
  <2> QED BY <2>6, <2>7 DEF BookGood
<1> QED BY <1>1, <1>2, <1>3 DEF BookNext

\* At all times no level of the order book (order_book.c) is negative or
\* above what was offered at its price.
THEOREM BookSafe == BookSpec => []NeverMoreThanOffered
<1>1. BookGood => NeverMoreThanOffered
  BY DEF BookGood
<1> QED BY <1>1, BookGoodInit, BookGoodNext, PTL DEF BookSpec
-----------------------------------------------------------------------------
(* Numbers *)

\* Every set of numbers that is not empty has a least element.
LEMMA Least ==
  ASSUME NEW S \in SUBSET Nat, S # {}
  PROVE  \E n \in S : \A m \in S : n <= m
<1> DEFINE R == {ss \in Nat \X Nat : ss[1] < ss[2]}
<1>1. IsWellFoundedOn(R, Nat)
  BY NatLessThanWellFounded DEF OpToRel
<1> HIDE DEF R
<1>2. PICK x \in S : \A y \in S : ~(<<y, x>> \in R)
  BY <1>1, WFMin
<1>3. \A y \in S : ~(y < x)
  BY <1>2 DEF R
<1> QED BY <1>3

\* An element that no other exceeds is the maximum.
LEMMA MaxIs ==
  ASSUME NEW S \in SUBSET Int, NEW x \in S, \A y \in S : y <= x
  PROVE  Max(S) = x
<1>1. Max(S) \in S /\ \A y \in S : Max(S) >= y
  BY DEF Max
<1>2. Max(S) >= x /\ Max(S) <= x
  BY <1>1
<1>3. Max(S) \in Int /\ x \in Int
  BY <1>1
<1> QED BY <1>2, <1>3

\* A bounded set of numbers that is not empty has a maximum.
LEMMA MaxOf ==
  ASSUME NEW k \in Nat, NEW S \in SUBSET (1..k), S # {}
  PROVE  Max(S) \in S /\ \A y \in S : y <= Max(S)
<1> DEFINE G == {n \in Nat : k - n \in S}
<1>1. PICK z \in S : TRUE
  OBVIOUS
<1>2. k - z \in Nat /\ k - (k - z) = z
  BY <1>1
<1>3. k - z \in G
  BY <1>2
<1>4. G \in SUBSET Nat /\ G # {}
  BY <1>3
<1>5. PICK g \in G : \A m \in G : g <= m
  BY <1>4, Least
<1>6. k - g \in S /\ g \in Nat
  BY <1>5
<1>7. ASSUME NEW y \in S PROVE y <= k - g
  <2>1. k - y \in Nat /\ k - (k - y) = y
    OBVIOUS
  <2>2. k - y \in G
    BY <2>1
  <2>3. g <= k - y
    BY <1>5, <2>2
  <2> QED BY <2>3, <1>6
<1>8. Max(S) = k - g
  BY <1>6, <1>7, MaxIs
<1> QED BY <1>6, <1>7, <1>8
-----------------------------------------------------------------------------
(* reply_bulk *)

\* What reply_bulk sends (resp_format_bulk's limit): values of up to 4086
\* bytes and no others.
LEMMA BulkSent ==
  ASSUME NEW v, v.len \in Nat
  PROVE  reply_bulk(v) = IF v.len > MaxSent THEN <<>> ELSE BulkReply(v)
<1> DEFINE n == v.len
           D == {k \in {1, 10, 100, 1000} : n >= k \/ k = 1}
           All == {1, 10, 100, 1000}
<1>1. IsFiniteSet(All) /\ Cardinality(All) = 4
  <2>2. IsFiniteSet({1}) /\ Cardinality({1}) = 1
    BY FS_Singleton
  <2> DEFINE A == {1} \cup {10}
             B == A \cup {100}
  <2>3. IsFiniteSet(A) /\ Cardinality(A) = 2
    BY <2>2, FS_AddElement
  <2>4. IsFiniteSet(B) /\ Cardinality(B) = 3
    <3>1. 100 \notin A
      OBVIOUS
    <3> HIDE DEF A
    <3>2. IsFiniteSet(A \cup {100}) /\ Cardinality(A \cup {100}) = Cardinality(A) + 1
      BY <2>3, <3>1, FS_AddElement
    <3> QED BY <2>3, <3>2
  <2>5. IsFiniteSet(B \cup {1000}) /\ Cardinality(B \cup {1000}) = 4
    <3>1. 1000 \notin B
      OBVIOUS
    <3> HIDE DEF B
    <3>2. IsFiniteSet(B \cup {1000}) /\ Cardinality(B \cup {1000}) = Cardinality(B) + 1
      BY <2>4, <3>1, FS_AddElement
    <3> QED BY <2>4, <3>2
  <2>6. All = B \cup {1000}
    OBVIOUS
  <2> QED BY <2>5, <2>6
<1>2. Cardinality(D) \in Nat /\ Cardinality(D) <= 4
  <2>1. D \subseteq All
    OBVIOUS
  <2>2. IsFiniteSet(D) /\ Cardinality(D) <= Cardinality(All)
    BY <1>1, <2>1, FS_Subset
  <2>3. Cardinality(D) \in Nat
    BY <2>2, FS_CardinalityType
  <2> QED BY <1>1, <2>2, <2>3
<1>3. n >= 1000 => Cardinality(D) = 4
  <2>1. n >= 1000 => D = All
    OBVIOUS
  <2> QED BY <2>1, <1>1
<1>4. Header(n) = 3 + Cardinality(D)
  BY DEF Header
<1> HIDE DEF D
<1>5. (Header(n) + n + 3 > ReplyCap) <=> n > MaxSent
  BY <1>2, <1>3, <1>4 DEF ReplyCap, MaxSent
<1> QED BY <1>5 DEF reply_bulk
-----------------------------------------------------------------------------
(* The history: a command that is handled leaves its past as it was *)

IsLog == \E S : log \in Seq(S)

\* The command handled comes last.
LEMMA Handled ==
  ASSUME IsLog, NEW cmd, NEW r, Reply(cmd, r)
  PROVE  /\ IsLog' /\ Len(log) \in Nat /\ Len(log)' = Len(log) + 1
         /\ \A n \in 1..Len(log) : log'[n] = log[n]
         /\ log'[Len(log) + 1] = [cmd |-> cmd, reply |-> r]
<1> DEFINE e == [cmd |-> cmd, reply |-> r]
<1>1. log' = Append(log, e)
  BY DEF Reply
<1>2. PICK S : log \in Seq(S)
  BY DEF IsLog
<1> HIDE DEF e
<1>3. log \in Seq(S \cup {e}) /\ e \in S \cup {e}
  BY <1>2
<1>4. /\ log' \in Seq(S \cup {e}) /\ Len(log) \in Nat /\ Len(log)' = Len(log) + 1
      /\ \A n \in 1..Len(log) : log'[n] = log[n]
      /\ log'[Len(log) + 1] = e
  BY <1>1, <1>3
<1>5. IsLog'
  BY <1>4 DEF IsLog
<1> QED BY <1>4, <1>5 DEF e

\* The writes before a command are numbers below it.
LEMMA WritesBelow ==
  ASSUME NEW key, NEW n \in Nat \ {0}, Writes(key, n) # {}
  PROVE  /\ Max(Writes(key, n)) \in Writes(key, n) /\ Max(Writes(key, n)) \in 1..(n - 1)
         /\ \A m \in Writes(key, n) : m <= Max(Writes(key, n))
<1>1. Writes(key, n) \in SUBSET (1..(n - 1)) /\ n - 1 \in Nat
  BY DEF Writes, Before
<1>2. /\ Max(Writes(key, n)) \in Writes(key, n)
      /\ \A m \in Writes(key, n) : m <= Max(Writes(key, n))
  BY <1>1, MaxOf
<1> QED BY <1>1, <1>2

\* What the past says of the keys stays.
LEMMA PastKeys ==
  ASSUME IsLog, NEW cmd, NEW r, Reply(cmd, r), NEW n \in 1..(Len(log) + 1)
  PROVE  /\ \A key : Writes(key, n)' = Writes(key, n)
         /\ \A key : Stored(key, n)' <=> Stored(key, n)
         /\ \A key : Stored(key, n) => Current(key, n)' = Current(key, n)
<1>1. Len(log) \in Nat /\ \A m \in 1..Len(log) : log'[m] = log[m]
  BY Handled
<1>2. \A m \in Before(n) : m \in 1..Len(log) /\ log'[m] = log[m]
  BY <1>1 DEF Before
<1>3. ASSUME NEW key PROVE Writes(key, n)' = Writes(key, n)
  BY <1>2 DEF Writes, Did, Args, Bulks, IsBulk
<1>4. ASSUME NEW key, Writes(key, n) # {}
      PROVE  LET m == Max(Writes(key, n)) IN log'[m] = log[m]
  <2>1. n \in Nat \ {0}
    BY <1>1
  <2>2. Max(Writes(key, n)) \in Before(n)
    BY <1>4, <2>1, WritesBelow DEF Before
  <2> QED BY <2>2, <1>2
<1>5. ASSUME NEW key PROVE Stored(key, n)' <=> Stored(key, n)
  BY <1>3, <1>4 DEF Stored, Did
<1>6. ASSUME NEW key, Stored(key, n) PROVE Current(key, n)' = Current(key, n)
  BY <1>3, <1>4, <1>6 DEF Stored, Current, Args
<1> QED BY <1>3, <1>5, <1>6

\* Which of the past commands go without a reply stays.
LEMMA PastSilent ==
  ASSUME IsLog, NEW cmd, NEW r, Reply(cmd, r), NEW n \in 1..Len(log)
  PROVE  Silent(n)' <=> Silent(n)
<1>0. Len(log) \in Nat /\ \A m \in 1..Len(log) : log'[m] = log[m]
  BY Handled
<1>1. log'[n] = log[n] /\ n \in 1..(Len(log) + 1)
  BY <1>0
<1>2. /\ \A key : Stored(key, n)' <=> Stored(key, n)
      /\ \A key : Stored(key, n) => Current(key, n)' = Current(key, n)
  BY <1>1, PastKeys
<1>3. Args(n)' = Args(n) /\ (Bulks(n, 1)' <=> Bulks(n, 1))
  <2>1. \A i : IsBulk(log'[n].cmd, i) <=> IsBulk(log[n].cmd, i)
    BY <1>1
  <2>2. Bulks(n, 1)' <=> Bulks(n, 1)
    BY <2>1 DEF Bulks
  <2> QED BY <1>1, <2>2 DEF Args
<1>4. \A name : Did(n, name)' <=> Did(n, name)
  BY <1>1 DEF Did
<1> QED BY <1>2, <1>3, <1>4 DEF Silent

\* A command with reply r is a write to key.
Touches(cmd, r, key) ==
  \/ cmd.name = "SET" /\ r = Simple("OK") /\ cmd.args[1] = key
  \/ cmd.name = "DEL" /\ IsBulk(cmd, 1) /\ cmd.args[1] = key

\* The last command decides about the key it writes to, and about no other.
LEMMA LastWrite ==
  ASSUME IsLog, NEW cmd, NEW r, Reply(cmd, r), NEW n, n = Len(log) + 1, NEW key
  PROVE  IF Touches(cmd, r, key)
         THEN (Stored(key, n + 1)' <=> cmd.name = "SET") /\ Current(key, n + 1)' = cmd.args[2]
         ELSE /\ Stored(key, n + 1)' <=> Stored(key, n)
              /\ Stored(key, n) => Current(key, n + 1)' = Current(key, n)
<1> DEFINE W == Writes(key, n)
           V == Writes(key, n + 1)'
<1>1. /\ Len(log) \in Nat /\ (\A m \in 1..Len(log) : log'[m] = log[m])
      /\ log'[n] = [cmd |-> cmd, reply |-> r]
  BY Handled
<1>2. n \in Nat \ {0} /\ Before(n) = 1..Len(log) /\ Before(n + 1) = Before(n) \cup {n} /\ n \notin Before(n)
  BY <1>1 DEF Before
<1>3. \A m \in Before(n) : m \in V <=> m \in W
  BY <1>1, <1>2 DEF Writes, Did, Args, Bulks, IsBulk
<1>4. n \in V <=> Touches(cmd, r, key)
  <2>1. n \in Before(n + 1)
    BY <1>2
  <2>2. log'[n].cmd = cmd /\ log'[n].reply = r
    BY <1>1
  <2>3. Bulks(n, 1)' <=> IsBulk(cmd, 1)
    BY <2>2 DEF Bulks
  <2> QED BY <2>1, <2>2, <2>3 DEF Writes, Did, Args, Touches
<1>5. V \subseteq Before(n) \cup {n} /\ W \subseteq Before(n)
  BY <1>2 DEF Writes
<1>6. CASE Touches(cmd, r, key)
  <2>1. V \in SUBSET Int /\ n \in V /\ \A m \in V : m <= n
    BY <1>2, <1>4, <1>5, <1>6 DEF Before
  <2>2. Max(V) = n
    <3> HIDE DEF V
    <3> QED BY <2>1, MaxIs
  <2>3. log'[n].cmd = cmd
    BY <1>1
  <2> QED BY <1>6, <2>1, <2>2, <2>3 DEF Stored, Current, Did, Args
<1>7. CASE ~Touches(cmd, r, key)
  <2>1. V = W
    BY <1>3, <1>4, <1>5, <1>7
  <2>2. W # {} => log'[Max(W)] = log[Max(W)]
    BY <1>1, <1>2, WritesBelow DEF Before
  <2> QED BY <1>7, <2>1, <2>2 DEF Stored, Current, Did, Args
<1> QED BY <1>6, <1>7
-----------------------------------------------------------------------------
(* The invariant *)

\* The table holds what the history leaves stored, under the lengths the
\* table takes.
Kept ==
  /\ \A key : key \in DOMAIN kv <=> Stored(key, Len(log) + 1)
  /\ \A key \in DOMAIN kv :
       /\ kv[key] = Current(key, Len(log) + 1)
       /\ key.len \in Nat /\ key.len <= ZEDIS_HT_MAX_KEY
       /\ kv[key].len \in Nat /\ kv[key].len <= ZEDIS_HT_MAX_VALUE

\* The properties, command by command.
Answered(n) == Len(log[n].reply) = IF Silent(n) THEN 0 ELSE 1

Latest(n) ==
  Bulks(n, 1) /\ ~Silent(n) /\ (Did(n, "GET") \/ Did(n, "DEL")) =>
    LET key == Args(n)[1]
    IN log[n].reply =
         CASE Did(n, "DEL") -> IntReply(IF Stored(key, n) THEN 1 ELSE 0)
           [] Did(n, "GET") -> IF Stored(key, n) THEN BulkReply(Current(key, n)) ELSE NullReply

StoredBefore(n) == {k \in Keys : Stored(k, n)}
Crowded(n) == Cardinality(StoredBefore(n)) * 10 >= config.capacity * 7

Full(n) ==
  Did(n, "SET") /\ Bulks(n, 2) =>
    (log[n].reply = Failed("full") <=>
       Args(n)[1].len > 256 \/ Args(n)[2].len > 4096 \/ Crowded(n))

\* An accepted SET has a key.
HasKey(n) == Did(n, "SET") /\ log[n].reply = Simple("OK") => Bulks(n, 1)

Entry(n) == Answered(n) /\ Latest(n) /\ Full(n) /\ HasKey(n)

CommandInv ==
  /\ IsLog /\ config \in Configs /\ Len(log) <= config.most
  /\ Kept /\ \A n \in 1..Len(log) : Entry(n)

\* A key that is stored was set.
LEMMA StoredIsKey ==
  ASSUME CommandInv, NEW n \in 1..(Len(log) + 1), NEW key, Stored(key, n)
  PROVE  key \in Keys
<1> DEFINE m == Max(Writes(key, n))
<1>1. Len(log) \in Nat /\ DOMAIN log = 1..Len(log)
  BY DEF CommandInv, IsLog
<1>2. n \in Nat \ {0} /\ Writes(key, n) # {}
  BY <1>1 DEF Stored
<1>3. m \in Writes(key, n) /\ m \in 1..(n - 1)
  BY <1>2, WritesBelow
<1>4. Did(m, "SET")
  BY DEF Stored
<1> HIDE DEF m
<1>5. log[m].reply = Simple("OK") /\ Args(m)[1] = key
  BY <1>3, <1>4 DEF Writes, Did
<1>6. m \in DOMAIN log /\ HasKey(m)
  BY <1>1, <1>3 DEF CommandInv, Entry
<1> QED BY <1>4, <1>5, <1>6 DEF HasKey, Keys

\* The keys stored before a past command stay those.
LEMMA PastStored ==
  ASSUME CommandInv, NEW cmd, NEW r, Reply(cmd, r), NEW n \in 1..(Len(log) + 1)
  PROVE  StoredBefore(n)' = StoredBefore(n)
<1>1. IsLog
  BY DEF CommandInv
<1>2. /\ IsLog' /\ Len(log) \in Nat /\ Len(log)' = Len(log) + 1
      /\ \A m \in 1..Len(log) : log'[m] = log[m]
  BY <1>1, Handled
<1>3. \A key : Stored(key, n)' <=> Stored(key, n)
  BY <1>1, PastKeys
<1>4. DOMAIN log = 1..Len(log) /\ DOMAIN log' = 1..(Len(log) + 1)
  BY <1>1, <1>2 DEF IsLog
<1>5. Keys \subseteq Keys'
  <2>1. \A m \in DOMAIN log : m \in DOMAIN log' /\ log'[m] = log[m]
    BY <1>2, <1>4
  <2> QED BY <2>1 DEF Keys, Did, Args, Bulks, IsBulk
<1>6. \A key : Stored(key, n) => key \in Keys
  BY StoredIsKey
<1> QED BY <1>3, <1>5, <1>6 DEF StoredBefore

\* What held of a past command still holds.
LEMMA PastEntry ==
  ASSUME CommandInv, NEW cmd, NEW r, Reply(cmd, r), config' = config, NEW n \in 1..Len(log)
  PROVE  Entry(n)'
<1>0. IsLog /\ Entry(n)
  BY DEF CommandInv
<1>1. Len(log) \in Nat /\ \A m \in 1..Len(log) : log'[m] = log[m]
  BY <1>0, Handled
<1>2. log'[n] = log[n] /\ n \in 1..(Len(log) + 1)
  BY <1>1
<1>3. /\ \A key : Stored(key, n)' <=> Stored(key, n)
      /\ \A key : Stored(key, n) => Current(key, n)' = Current(key, n)
  BY <1>0, <1>2, PastKeys
<1>4. Silent(n)' <=> Silent(n)
  BY <1>0, PastSilent
<1>5. Args(n)' = Args(n) /\ \A name : Did(n, name)' <=> Did(n, name)
  BY <1>2 DEF Args, Did
<1>6. \A k : Bulks(n, k)' <=> Bulks(n, k)
  BY <1>2 DEF Bulks, IsBulk
<1>7. Answered(n)'
  BY <1>0, <1>2, <1>4 DEF Entry, Answered
<1>8. Latest(n)'
  BY <1>0, <1>2, <1>3, <1>4, <1>5, <1>6 DEF Entry, Latest
<1>9. Full(n)'
  <2>1. Crowded(n)' <=> Crowded(n)
    BY <1>2, PastStored DEF Crowded
  <2> QED BY <1>0, <1>2, <1>5, <1>6, <2>1 DEF Entry, Full
<1>10. HasKey(n)'
  BY <1>0, <1>2, <1>5, <1>6 DEF Entry, HasKey
<1> QED BY <1>7, <1>8, <1>9, <1>10 DEF Entry
-----------------------------------------------------------------------------
(* A command *)

\* Nothing is sent for the command.
Mute(cmd) ==
  \/ cmd.name = "empty"
  \/ cmd.name = "PING" /\ cmd.args # <<>> /\ ~IsBulk(cmd, 1)
  \/ cmd.name \in {"PING", "ECHO"} /\ IsBulk(cmd, 1) /\ cmd.args[1].len > MaxSent
  \/ cmd.name = "GET" /\ IsBulk(cmd, 1) /\ cmd.args[1] \in DOMAIN kv /\ kv[cmd.args[1]].len > MaxSent

\* r is the right reply to the command.
Right(cmd, r) ==
  /\ Len(r) = IF Mute(cmd) THEN 0 ELSE 1
  /\ cmd.name = "GET" /\ IsBulk(cmd, 1) /\ ~Mute(cmd) =>
       r = IF cmd.args[1] \in DOMAIN kv THEN BulkReply(kv[cmd.args[1]]) ELSE NullReply
  /\ cmd.name = "DEL" /\ IsBulk(cmd, 1) => r = IntReply(IF cmd.args[1] \in DOMAIN kv THEN 1 ELSE 0)
  /\ cmd.name = "SET" /\ IsBulk(cmd, 1) /\ IsBulk(cmd, 2) =>
       (r = Failed("full") <=> Refuses(cmd.args[1], cmd.args[2]))
  /\ cmd.name = "SET" /\ r = Simple("OK") => IsBulk(cmd, 1)

\* The table changes at the key the command writes to, and nowhere else.
Moved(cmd, r) ==
  /\ \A key :
       IF Touches(cmd, r, key)
       THEN /\ key \in DOMAIN kv' <=> cmd.name = "SET"
            /\ key \in DOMAIN kv' => kv'[key] = cmd.args[2]
       ELSE /\ key \in DOMAIN kv' <=> key \in DOMAIN kv
            /\ key \in DOMAIN kv => kv'[key] = kv[key]
  /\ \A key \in DOMAIN kv' :
       /\ key.len \in Nat /\ key.len <= ZEDIS_HT_MAX_KEY
       /\ kv'[key].len \in Nat /\ kv'[key].len <= ZEDIS_HT_MAX_VALUE

\* After such a command the table holds what the longer history says.
LEMMA KeptNext ==
  ASSUME CommandInv, NEW cmd, NEW r, Reply(cmd, r), Moved(cmd, r)
  PROVE  Kept'
<1>1. PICK n : n = Len(log) + 1
  OBVIOUS
<1>2. IsLog /\ Kept
  BY DEF CommandInv
<1>3. Len(log)' + 1 = n + 1
  BY <1>1, <1>2, Handled
<1>4. \A key : IF Touches(cmd, r, key)
               THEN (Stored(key, n + 1)' <=> cmd.name = "SET") /\ Current(key, n + 1)' = cmd.args[2]
               ELSE /\ Stored(key, n + 1)' <=> Stored(key, n)
                    /\ Stored(key, n) => Current(key, n + 1)' = Current(key, n)
  BY <1>1, <1>2, LastWrite
<1>5. /\ \A key : key \in DOMAIN kv <=> Stored(key, n)
      /\ \A key \in DOMAIN kv : kv[key] = Current(key, n)
  BY <1>1, <1>2 DEF Kept
<1>6. ASSUME NEW key PROVE key \in DOMAIN kv' <=> Stored(key, n + 1)'
  BY <1>4, <1>5 DEF Moved
<1>7. ASSUME NEW key \in DOMAIN kv' PROVE kv'[key] = Current(key, n + 1)'
  <2>1. CASE Touches(cmd, r, key)
    BY <2>1, <1>4 DEF Moved
  <2>2. CASE ~Touches(cmd, r, key)
    BY <2>2, <1>4, <1>5 DEF Moved
  <2> QED BY <2>1, <2>2
<1> QED BY <1>3, <1>6, <1>7 DEF Kept, Moved

\* The right reply makes the command's entry in the history right.
LEMMA EntryNow ==
  ASSUME CommandInv, NEW cmd, NEW r, Reply(cmd, r), Right(cmd, r), config' = config,
         NEW n, n = Len(log) + 1
  PROVE  Entry(n)'
<1>1. IsLog /\ Kept
  BY DEF CommandInv
<1>2. Len(log) \in Nat /\ log'[n].cmd = cmd /\ log'[n].reply = r /\ n \in 1..(Len(log) + 1)
  <2>1. Len(log) \in Nat /\ log'[n] = [cmd |-> cmd, reply |-> r]
    BY <1>1, Handled
  <2> QED BY <2>1
<1>3. Args(n)' = cmd.args /\ \A name : Did(n, name)' <=> cmd.name = name
  BY <1>2 DEF Args, Did
<1>4. (Bulks(n, 1)' <=> IsBulk(cmd, 1)) /\ (Bulks(n, 2)' <=> IsBulk(cmd, 1) /\ IsBulk(cmd, 2))
  <2>1. \A k : Bulks(n, k)' <=> \A i \in 1..k : IsBulk(cmd, i)
    BY <1>2 DEF Bulks
  <2>2. 1..1 = {1} /\ 1..2 = {1, 2}
    OBVIOUS
  <2> QED BY <2>1, <2>2
<1>5. /\ \A key : Stored(key, n)' <=> key \in DOMAIN kv
      /\ \A key \in DOMAIN kv : Current(key, n)' = kv[key]
  <2>1. /\ \A key : Stored(key, n)' <=> Stored(key, n)
        /\ \A key : Stored(key, n) => Current(key, n)' = Current(key, n)
    BY <1>1, <1>2, PastKeys
  <2> QED BY <1>1, <2>1 DEF Kept
<1>6. Silent(n)' <=> Mute(cmd)
  BY <1>3, <1>4, <1>5 DEF Silent, Mute
<1>7. Answered(n)'
  BY <1>2, <1>6 DEF Answered, Right
<1>8. Latest(n)'
  <2> SUFFICES ASSUME IsBulk(cmd, 1), ~Mute(cmd), cmd.name = "GET" \/ cmd.name = "DEL"
               PROVE  Latest(n)'
    BY <1>3, <1>4, <1>6 DEF Latest
  <2>1. CASE cmd.name = "DEL"
    BY <2>1, <1>2, <1>3, <1>5 DEF Latest, Right
  <2>2. CASE cmd.name = "GET"
    BY <2>2, <1>2, <1>3, <1>5 DEF Latest, Right
  <2> QED BY <2>1, <2>2
<1>9. Full(n)'
  <2>1. StoredBefore(n)' = DOMAIN kv
    <3>1. StoredBefore(n)' = StoredBefore(n)
      BY <1>2, PastStored
    <3>2. \A key : key \in DOMAIN kv <=> Stored(key, n)
      BY <1>1 DEF Kept
    <3>3. \A key : Stored(key, n) => key \in Keys
      BY <1>2, StoredIsKey
    <3> QED BY <3>1, <3>2, <3>3 DEF StoredBefore
  <2>2. Crowded(n)' <=> Cardinality(DOMAIN kv) * 10 >= config.capacity * 7
    BY <2>1 DEF Crowded
  <2> QED BY <1>2, <1>3, <1>4, <2>2 DEF Full, Right, Refuses, ZEDIS_HT_MAX_KEY, ZEDIS_HT_MAX_VALUE
<1>10. HasKey(n)'
  BY <1>2, <1>3, <1>4 DEF HasKey, Right
<1> QED BY <1>7, <1>8, <1>9, <1>10 DEF Entry
-----------------------------------------------------------------------------
(* The handlers *)

\* A bulk argument has a length.
LEMMA ArgLen ==
  ASSUME config \in Configs, NEW cmd \in config.commands, NEW i \in Nat \ {0}, IsBulk(cmd, i)
  PROVE  cmd.args[i] \in Arg /\ cmd.args[i].len \in Nat
<1>1. cmd.args \in Seq(Arg)
  BY CommandsAssumption
<1>2. i \in 1..Len(cmd.args)
  BY <1>1 DEF IsBulk
<1>3. cmd.args[i] \in Arg
  BY <1>1, <1>2
<1> QED BY <1>3 DEF Arg

\* The table stays as it is when the command writes to no key.
LEMMA Unmoved ==
  ASSUME CommandInv, NEW cmd, NEW r, kv' = kv, \A key : ~Touches(cmd, r, key)
  PROVE  Moved(cmd, r)
BY DEF CommandInv, Kept, Moved

\* Every reply that is sent is one reply.
LEMMA OneReply ==
  /\ Len(<<>>) = 0 /\ Len(NullReply) = 1
  /\ \A x : Len(Simple(x)) = 1 /\ Len(Failed(x)) = 1 /\ Len(IntReply(x)) = 1 /\ Len(BulkReply(x)) = 1
  /\ \A x, y : Len(Levels(x, y)) = 1 /\ Simple(x) # Failed(y)
  /\ Failed("arguments") # Failed("full")
<1>1. \A x : Len(<<x>>) = 1 /\ <<x>>[1] = x
  OBVIOUS
<1>2. \A x, y : Simple(x) # Failed(y)
  <2> SUFFICES ASSUME NEW x, NEW y, Simple(x) = Failed(y) PROVE FALSE
    OBVIOUS
  <2>1. Simple(x)[1].type = "simple" /\ Failed(y)[1].type = "error"
    BY DEF Simple, Failed
  <2> QED BY <2>1
<1>3. Failed("arguments") # Failed("full")
  <2> SUFFICES ASSUME Failed("arguments") = Failed("full") PROVE FALSE
    OBVIOUS
  <2>1. Failed("arguments")[1].of = "arguments" /\ Failed("full")[1].of = "full"
    BY DEF Failed
  <2> QED BY <2>1
<1> QED BY <1>1, <1>2, <1>3 DEF Simple, Failed, IntReply, NullReply, Levels, BulkReply

\* What a command must do to its reply and to the table.
Done(cmd) == \E r : Reply(cmd, r) /\ Right(cmd, r) /\ Moved(cmd, r) /\ config' = config

\* PING and ECHO send back what fits.
LEMMA PingRight ==
  ASSUME CommandInv, NEW cmd \in config.commands, ping_command(cmd) \/ echo_command(cmd)
  PROVE  Done(cmd)
<1>0. config \in Configs /\ config' = config /\ kv' = kv /\ cmd.name \in {"PING", "ECHO"}
  BY DEF CommandInv, ping_command, echo_command
<1>1. PICK r : Reply(cmd, r) /\ Len(r) = IF Mute(cmd) THEN 0 ELSE 1
  <2>1. IsBulk(cmd, 1) => reply_bulk(cmd.args[1]) = IF cmd.args[1].len > MaxSent THEN <<>> ELSE BulkReply(cmd.args[1])
    BY <1>0, ArgLen, BulkSent
  <2>2. cmd.args \in Seq(Arg) /\ (cmd.args = <<>> => ~IsBulk(cmd, 1))
    <3>1. cmd.args \in Seq(Arg)
      BY <1>0, CommandsAssumption
    <3>2. cmd.args = <<>> => Len(cmd.args) = 0
      OBVIOUS
    <3> QED BY <3>1, <3>2 DEF IsBulk
  <2>3. CASE ping_command(cmd)
    <3> DEFINE r == IF cmd.args = <<>> THEN Simple("PONG")
                    ELSE IF IsBulk(cmd, 1) THEN reply_bulk(cmd.args[1]) ELSE <<>>
    <3>1. Reply(cmd, r) /\ cmd.name = "PING"
      BY <2>3 DEF ping_command
    <3>2. Len(r) = IF Mute(cmd) THEN 0 ELSE 1
      <4>1. Mute(cmd) <=> cmd.args # <<>> /\ (IsBulk(cmd, 1) => cmd.args[1].len > MaxSent)
        BY <2>2, <3>1 DEF Mute
      <4>2. CASE cmd.args = <<>>
        BY <4>1, <4>2, OneReply
      <4>3. CASE cmd.args # <<>> /\ ~IsBulk(cmd, 1)
        BY <4>1, <4>3, OneReply
      <4>4. CASE cmd.args # <<>> /\ IsBulk(cmd, 1)
        <5>1. CASE cmd.args[1].len > MaxSent
          <6>1. r = <<>> /\ Mute(cmd)
            BY <4>1, <4>4, <5>1, <2>1
          <6> QED BY <6>1, OneReply
        <5>2. CASE ~(cmd.args[1].len > MaxSent)
          <6>1. r = BulkReply(cmd.args[1]) /\ ~Mute(cmd)
            BY <4>1, <4>4, <5>2, <2>1
          <6> QED BY <6>1, OneReply
        <5> QED BY <5>1, <5>2
      <4> QED BY <4>2, <4>3, <4>4
    <3> QED BY <3>1, <3>2
  <2>4. CASE echo_command(cmd)
    <3> DEFINE r == IF IsBulk(cmd, 1) THEN reply_bulk(cmd.args[1]) ELSE Failed("arguments")
    <3>1. Reply(cmd, r) /\ cmd.name = "ECHO"
      BY <2>4 DEF echo_command
    <3>2. Len(r) = IF Mute(cmd) THEN 0 ELSE 1
      <4>1. Mute(cmd) <=> IsBulk(cmd, 1) /\ cmd.args[1].len > MaxSent
        BY <3>1 DEF Mute
      <4>2. CASE ~IsBulk(cmd, 1)
        BY <4>1, <4>2, OneReply
      <4>3. CASE IsBulk(cmd, 1)
        <5>1. CASE cmd.args[1].len > MaxSent
          <6>1. r = <<>> /\ Mute(cmd)
            BY <4>1, <4>3, <5>1, <2>1
          <6> QED BY <6>1, OneReply
        <5>2. CASE ~(cmd.args[1].len > MaxSent)
          <6>1. r = BulkReply(cmd.args[1]) /\ ~Mute(cmd)
            BY <4>1, <4>3, <5>2, <2>1
          <6> QED BY <6>1, OneReply
        <5> QED BY <5>1, <5>2
      <4> QED BY <4>2, <4>3
    <3> QED BY <3>1, <3>2
  <2> QED BY <2>3, <2>4
<1>2. Moved(cmd, r)
  BY <1>0, Unmoved DEF Touches
<1>3. Right(cmd, r)
  BY <1>0, <1>1 DEF Right
<1> QED BY <1>0, <1>1, <1>2, <1>3 DEF Done

\* GET sends the stored value if it fits, and null for a key that is not there.
LEMMA GetRight ==
  ASSUME CommandInv, NEW cmd \in config.commands, get_command(cmd)
  PROVE  Done(cmd)
<1> DEFINE key == cmd.args[1]
           r == IF ~IsBulk(cmd, 1) THEN Failed("arguments")
                ELSE IF key \in DOMAIN kv THEN reply_bulk(kv[key]) ELSE NullReply
<1>0. config' = config /\ kv' = kv /\ cmd.name = "GET" /\ Reply(cmd, r)
  BY DEF get_command
<1>1. key \in DOMAIN kv => reply_bulk(kv[key]) = IF kv[key].len > MaxSent THEN <<>> ELSE BulkReply(kv[key])
  BY BulkSent DEF CommandInv, Kept
<1>2. Moved(cmd, r)
  <2> HIDE DEF r
  <2> QED BY <1>0, Unmoved DEF Touches
<1>3. Len(r) = IF Mute(cmd) THEN 0 ELSE 1
  <2>1. Mute(cmd) <=> IsBulk(cmd, 1) /\ key \in DOMAIN kv /\ kv[key].len > MaxSent
    BY <1>0 DEF Mute
  <2>2. CASE ~IsBulk(cmd, 1)
    BY <2>1, <2>2, OneReply
  <2>3. CASE IsBulk(cmd, 1) /\ key \notin DOMAIN kv
    BY <2>1, <2>3, OneReply
  <2>4. CASE IsBulk(cmd, 1) /\ key \in DOMAIN kv
    <3>1. CASE kv[key].len > MaxSent
      <4>1. r = <<>> /\ Mute(cmd)
        BY <2>1, <2>4, <3>1, <1>1
      <4> QED BY <4>1, OneReply
    <3>2. CASE ~(kv[key].len > MaxSent)
      <4>1. r = BulkReply(kv[key]) /\ ~Mute(cmd)
        BY <2>1, <2>4, <3>2, <1>1
      <4> QED BY <4>1, OneReply
    <3> QED BY <3>1, <3>2
  <2> QED BY <2>2, <2>3, <2>4
<1>4. IsBulk(cmd, 1) /\ ~Mute(cmd) => r = IF key \in DOMAIN kv THEN BulkReply(kv[key]) ELSE NullReply
  BY <1>0, <1>1 DEF Mute
<1>5. Right(cmd, r)
  <2> HIDE DEF r
  <2> QED BY <1>0, <1>3, <1>4 DEF Right
<1> HIDE DEF r
<1> QED BY <1>0, <1>2, <1>5 DEF Done

\* SET stores the value, or refuses and stores nothing.
LEMMA SetRight ==
  ASSUME CommandInv, NEW cmd \in config.commands, set_command(cmd)
  PROVE  Done(cmd)
<1> DEFINE key == cmd.args[1]
           val == cmd.args[2]
<1>0. config \in Configs /\ config' = config /\ cmd.name = "SET" /\ ~Mute(cmd)
  BY DEF CommandInv, set_command, Mute
<1>1. CASE ~(IsBulk(cmd, 1) /\ IsBulk(cmd, 2))
  <2>1. Reply(cmd, Failed("arguments")) /\ kv' = kv
    BY <1>1 DEF set_command
  <2>2. Moved(cmd, Failed("arguments"))
    BY <1>0, <2>1, OneReply, Unmoved DEF Touches
  <2>3. Right(cmd, Failed("arguments"))
    BY <1>0, <1>1, OneReply DEF Right
  <2> QED BY <1>0, <2>1, <2>2, <2>3 DEF Done
<1>2. CASE IsBulk(cmd, 1) /\ IsBulk(cmd, 2) /\ Refuses(key, val)
  <2>1. Reply(cmd, Failed("full")) /\ kv' = kv
    BY <1>2 DEF set_command
  <2>2. Moved(cmd, Failed("full"))
    BY <1>0, <2>1, OneReply, Unmoved DEF Touches
  <2>3. Right(cmd, Failed("full"))
    BY <1>0, <1>2, OneReply DEF Right
  <2> QED BY <1>0, <2>1, <2>2, <2>3 DEF Done
<1>3. CASE IsBulk(cmd, 1) /\ IsBulk(cmd, 2) /\ ~Refuses(key, val)
  <2>1. Reply(cmd, Simple("OK")) /\ kv' = Store(key, val)
    BY <1>3 DEF set_command
  <2>2. key.len \in Nat /\ val.len \in Nat
    BY <1>0, <1>3, ArgLen
  <2>3. key.len <= ZEDIS_HT_MAX_KEY /\ val.len <= ZEDIS_HT_MAX_VALUE
    BY <1>3, <2>2 DEF Refuses, ZEDIS_HT_MAX_KEY, ZEDIS_HT_MAX_VALUE
  <2>4. \A k : Touches(cmd, Simple("OK"), k) <=> k = key
    BY <1>0 DEF Touches
  <2> HIDE DEF key, val
  <2>5. /\ DOMAIN kv' = DOMAIN kv \cup {key} /\ kv'[key] = val
        /\ \A k \in DOMAIN kv : k # key => kv'[k] = kv[k]
    BY <2>1 DEF Store
  <2>6. \A k \in DOMAIN kv :
          /\ k.len \in Nat /\ k.len <= ZEDIS_HT_MAX_KEY
          /\ kv[k].len \in Nat /\ kv[k].len <= ZEDIS_HT_MAX_VALUE
    BY DEF CommandInv, Kept
  <2>7. ASSUME NEW k \in DOMAIN kv'
        PROVE  /\ k.len \in Nat /\ k.len <= ZEDIS_HT_MAX_KEY
               /\ kv'[k].len \in Nat /\ kv'[k].len <= ZEDIS_HT_MAX_VALUE
    <3>1. CASE k = key
      BY <3>1, <2>2, <2>3, <2>5
    <3>2. CASE k # key
      BY <3>2, <2>5, <2>6
    <3> QED BY <3>1, <3>2
  <2>8. Moved(cmd, Simple("OK"))
    BY <1>0, <2>4, <2>5, <2>7 DEF Moved, val
  <2>9. Right(cmd, Simple("OK"))
    BY <1>0, <1>3, OneReply DEF Right, key, val
  <2> QED BY <1>0, <2>1, <2>8, <2>9 DEF Done
<1> QED BY <1>1, <1>2, <1>3

\* DEL says whether the key was there and takes it out.
LEMMA DelRight ==
  ASSUME CommandInv, NEW cmd \in config.commands, del_command(cmd)
  PROVE  Done(cmd)
<1> DEFINE key == cmd.args[1]
<1>0. config' = config /\ cmd.name = "DEL" /\ ~Mute(cmd)
  BY DEF del_command, Mute
<1>1. CASE ~IsBulk(cmd, 1)
  <2>1. Reply(cmd, Failed("arguments")) /\ kv' = kv
    BY <1>1 DEF del_command
  <2>2. Moved(cmd, Failed("arguments"))
    BY <1>0, <1>1, <2>1, Unmoved DEF Touches
  <2>3. Right(cmd, Failed("arguments"))
    BY <1>0, <1>1, OneReply DEF Right
  <2> QED BY <1>0, <2>1, <2>2, <2>3 DEF Done
<1>2. CASE IsBulk(cmd, 1)
  <2> DEFINE r == IntReply(IF key \in DOMAIN kv THEN 1 ELSE 0)
  <2>1. Reply(cmd, r) /\ kv' = [k \in DOMAIN kv \ {key} |-> kv[k]]
    BY <1>2 DEF del_command
  <2>2. \A k : Touches(cmd, r, k) <=> k = key
    BY <1>0, <1>2 DEF Touches
  <2>3. Right(cmd, r)
    BY <1>0, OneReply DEF Right
  <2> HIDE DEF r, key
  <2>4. DOMAIN kv' = DOMAIN kv \ {key} /\ \A k \in DOMAIN kv \ {key} : kv'[k] = kv[k]
    BY <2>1
  <2>5. \A k \in DOMAIN kv :
          /\ k.len \in Nat /\ k.len <= ZEDIS_HT_MAX_KEY
          /\ kv[k].len \in Nat /\ kv[k].len <= ZEDIS_HT_MAX_VALUE
    BY DEF CommandInv, Kept
  <2>6. Moved(cmd, r)
    BY <1>0, <2>2, <2>4, <2>5 DEF Moved
  <2> QED BY <1>0, <2>1, <2>3, <2>6 DEF Done
<1> QED BY <1>1, <1>2

\* The order book's commands and what is no command send one reply, unless
\* the line is empty, and leave the table alone.
LEMMA OtherRight ==
  ASSUME CommandInv, NEW cmd \in config.commands,
         bid_command(cmd) \/ ask_command(cmd) \/ book_command(cmd) \/ no_command(cmd)
  PROVE  Done(cmd)
<1>0. config' = config /\ kv' = kv /\ cmd.name \in {"BID", "ASK", "BOOK", "empty", "format", "unknown"}
  BY DEF bid_command, ask_command, book_command, no_command
<1>1. Mute(cmd) <=> cmd.name = "empty"
  BY <1>0 DEF Mute
<1>2. PICK r : Reply(cmd, r) /\ Len(r) = IF cmd.name = "empty" THEN 0 ELSE 1
  <2>1. CASE bid_command(cmd)
    BY <2>1, OneReply DEF bid_command
  <2>2. CASE ask_command(cmd)
    BY <2>2, OneReply DEF ask_command
  <2>3. CASE book_command(cmd)
    <3> DEFINE price == parse_int(cmd.args[1])
               b == bid_qty[price]
               a == ask_qty[price]
    <3>1. \/ Reply(cmd, Failed("arguments")) \/ Reply(cmd, Failed("invalid"))
          \/ Reply(cmd, Failed("range")) \/ Reply(cmd, Levels(b, a))
      <4> HIDE DEF price
      <4> QED BY <2>3 DEF book_command, price
    <3> QED BY <2>3, <3>1, OneReply DEF book_command
  <2>4. CASE no_command(cmd)
    <3>1. CASE cmd.name = "empty"
      <4>1. Reply(cmd, <<>>)
        BY <2>4, <3>1 DEF no_command
      <4>2. Len(<<>>) = IF cmd.name = "empty" THEN 0 ELSE 1
        BY <3>1, OneReply
      <4> QED BY <4>1, <4>2
    <3>2. CASE cmd.name # "empty"
      <4>1. Reply(cmd, Failed(cmd.name))
        BY <2>4, <3>2 DEF no_command
      <4> QED BY <3>2, <4>1, OneReply
    <3> QED BY <3>1, <3>2
  <2> QED BY <2>1, <2>2, <2>3, <2>4
<1>3. Moved(cmd, r)
  BY <1>0, Unmoved DEF Touches
<1>4. Right(cmd, r)
  BY <1>0, <1>1, <1>2 DEF Right
<1> QED BY <1>0, <1>2, <1>3, <1>4 DEF Done

\* Every handled command keeps the invariant.
LEMMA CommandKeeps ==
  ASSUME CommandInv, Len(log) < config.most, NEW cmd \in config.commands, server_handle_command(cmd)
  PROVE  CommandInv'
<1>1. Done(cmd)
  BY PingRight, GetRight, SetRight, DelRight, OtherRight DEF server_handle_command
<1>2. PICK r : Reply(cmd, r) /\ Right(cmd, r) /\ Moved(cmd, r) /\ config' = config
  BY <1>1 DEF Done
<1>3. IsLog /\ config \in Configs
  BY DEF CommandInv
<1>4. IsLog' /\ Len(log) \in Nat /\ Len(log)' = Len(log) + 1
  BY <1>2, <1>3, Handled
<1>5. Len(log)' <= config'.most
  <2>1. config.most \in Nat
    BY <1>3, CommandsAssumption
  <2> QED BY <1>2, <1>4, <2>1
<1>6. Kept'
  BY <1>2, KeptNext
<1>7. PICK n : n = Len(log) + 1
  OBVIOUS
<1>8. Entry(n)'
  BY <1>2, <1>7, EntryNow
<1>9. ASSUME NEW m \in 1..Len(log) PROVE Entry(m)'
  BY <1>2, PastEntry
<1>10. \A m \in 1..Len(log)' : Entry(m)'
  <2>1. \A m \in 1..Len(log)' : m = n \/ m \in 1..Len(log)
    BY <1>4, <1>7
  <2> QED BY <2>1, <1>8, <1>9
<1> QED BY <1>2, <1>3, <1>4, <1>5, <1>6, <1>10 DEF CommandInv

\* CommandInv holds in every state the server can reach.
LEMMA CommandInvariant == Spec => []CommandInv
<1>1. Init => CommandInv
  <2> SUFFICES ASSUME Init PROVE CommandInv
    OBVIOUS
  <2>1. log = <<>> /\ kv = << >> /\ config \in Configs
    BY DEF Init
  <2>2. log \in Seq({}) /\ Len(log) = 0
    BY <2>1
  <2>3. IsLog
    BY <2>2 DEF IsLog
  <2>4. Len(log) <= config.most
    BY <2>1, <2>2, CommandsAssumption
  <2>5. DOMAIN kv = {}
    BY <2>1
  <2>6. \A key : ~Stored(key, Len(log) + 1)
    BY <2>2 DEF Stored, Writes, Before
  <2>7. Kept
    BY <2>5, <2>6 DEF Kept
  <2> QED BY <2>1, <2>2, <2>3, <2>4, <2>7 DEF CommandInv
<1>2. CommandInv /\ [Next]_vars => CommandInv'
  <2> SUFFICES ASSUME CommandInv, [Next]_vars PROVE CommandInv'
    OBVIOUS
  <2>1. CASE Next
    BY <2>1, CommandKeeps DEF Next
  <2>2. CASE UNCHANGED vars
    <3>1. config' = config /\ kv' = kv /\ log' = log
      BY <2>2 DEF vars
    <3>2. \A key, n : Writes(key, n)' = Writes(key, n)
      BY <3>1 DEF Writes, Did, Args, Bulks
    <3>3. /\ \A key, n : Stored(key, n)' <=> Stored(key, n)
          /\ \A key, n : Current(key, n)' = Current(key, n)
      BY <3>1, <3>2 DEF Stored, Current, Did, Args
    <3>4. \A n : Silent(n)' <=> Silent(n)
      BY <3>1, <3>3 DEF Silent, Did, Args, Bulks
    <3>5. \A n : Crowded(n)' <=> Crowded(n)
      BY <3>1, <3>3 DEF Crowded, StoredBefore, Keys, Did, Args, Bulks
    <3>6. \A n : Entry(n)' <=> Entry(n)
      BY <3>1, <3>3, <3>4, <3>5 DEF Entry, Answered, Latest, Full, HasKey, Did, Args, Bulks
    <3>7. Kept'
      BY <3>1, <3>3 DEF CommandInv, Kept
    <3> QED BY <3>1, <3>6, <3>7 DEF CommandInv, IsLog
  <2> QED BY <2>1, <2>2
<1> QED BY <1>1, <1>2, PTL DEF Spec
-----------------------------------------------------------------------------
(* The string commands *)

\* For every mix of commands: an empty line, a PING whose argument is no bulk
\* string and what is longer than 4086 bytes go without a reply, and every
\* other command gets exactly one (server_handle_command, reply_bulk).
THEOREM RepliesCounted == Spec => []EveryCommandAnswered
<1>1. CommandInv => EveryCommandAnswered
  <2> SUFFICES ASSUME CommandInv PROVE EveryCommandAnswered
    OBVIOUS
  <2>1. DOMAIN log = 1..Len(log)
    BY DEF CommandInv, IsLog
  <2> QED BY <2>1 DEF CommandInv, Entry, Answered, EveryCommandAnswered
<1> QED BY <1>1, CommandInvariant, PTL

\* For every mix of commands: GET and DEL answer by the last accepted SET of
\* their key unless a DEL came after it (get_command, del_command).
THEOREM ReadsRight == Spec => []ReadsLatest
<1>1. CommandInv => ReadsLatest
  <2> SUFFICES ASSUME CommandInv PROVE ReadsLatest
    OBVIOUS
  <2>1. DOMAIN log = 1..Len(log)
    BY DEF CommandInv, IsLog
  <2>2. \A n \in DOMAIN log : Latest(n)
    BY <2>1 DEF CommandInv, Entry
  <2> QED BY <2>2 DEF Latest, ReadsLatest
<1> QED BY <1>1, CommandInvariant, PTL
-----------------------------------------------------------------------------
(* BID and ASK drive the order book *)

\* A number that is cut to a width has that width.
LEMMA TruncRange ==
  ASSUME NEW n \in Int, NEW half \in Nat \ {0}
  PROVE  Trunc(n, half) \in -half .. (half - 1)
<1> DEFINE m == (n + half) % (2 * half)
<1>1. m \in 0..(2 * half - 1)
  OBVIOUS
<1> HIDE DEF m
<1>2. m - half \in -half .. (half - 1)
  BY <1>1
<1> QED BY <1>2 DEF Trunc, m

\* An argument whose digits write a number has a price and a quantity.
LEMMA NumArg ==
  ASSUME NEW a \in Arg, IsNum(a)
  PROVE  parse_i64(a) \in Qtys /\ parse_int(a) \in Ints
<1>1. a.num[1] \in Int
  BY DEF Arg, IsNum
<1>2. parse_i64(a) \in Qtys
  BY <1>1, TruncRange, BookAssumption DEF parse_i64, Qtys
<1>3. parse_i64(a) \in Int
  BY <1>2, BookAssumption DEF Qtys
<1>4. parse_int(a) \in Ints
  BY <1>3, TruncRange, BookAssumption DEF parse_int, Ints
<1> QED BY <1>2, <1>4

\* An order that is not refused has a price of the book and a quantity.
LEMMA OrderArgs ==
  ASSUME config \in Configs, NEW cmd \in config.commands, Refusal(cmd) = "none"
  PROVE  /\ parse_int(cmd.args[1]) \in Ints /\ InRange(parse_int(cmd.args[1]))
         /\ parse_i64(cmd.args[2]) \in Qtys
<1>1. /\ IsBulk(cmd, 1) /\ IsBulk(cmd, 2) /\ IsNum(cmd.args[1]) /\ IsNum(cmd.args[2])
      /\ InRange(parse_int(cmd.args[1]))
  BY DEF Refusal
<1>2. cmd.args[1] \in Arg /\ cmd.args[2] \in Arg
  BY <1>1, ArgLen
<1> QED BY <1>1, <1>2, NumArg

\* A step of the server is a step of the book or leaves it alone.
LEMMA BookSteps == CommandInv /\ [Next]_vars => [BookNext]_bookVars
<1> SUFFICES ASSUME CommandInv, [Next]_vars PROVE [BookNext]_bookVars
  OBVIOUS
<1>1. CASE UNCHANGED vars
  BY <1>1 DEF vars, bookVars
<1>2. CASE Next
  <2>1. PICK cmd \in config.commands : server_handle_command(cmd)
    BY <1>2 DEF Next
  <2>2. config \in Configs
    BY DEF CommandInv
  <2>3. CASE bid_command(cmd) \/ ask_command(cmd)
    <3>1. CASE Refusal(cmd) # "none"
      BY <2>3, <3>1 DEF bid_command, ask_command
    <3>2. CASE Refusal(cmd) = "none"
      <4> DEFINE price == parse_int(cmd.args[1])
                 qty == parse_i64(cmd.args[2])
      <4>1. price \in Ints /\ qty \in Qtys
        BY <2>2, <3>2, OrderArgs
      <4>2. zedis_book_bid(price, qty) \/ zedis_book_ask(price, qty)
        BY <2>3, <3>2 DEF bid_command, ask_command
      <4> HIDE DEF price, qty
      <4> QED BY <4>1, <4>2 DEF BookNext
    <3> QED BY <3>1, <3>2
  <2>4. CASE ~(bid_command(cmd) \/ ask_command(cmd))
    <3>1. UNCHANGED bookVars
      BY <2>1, <2>4 DEF server_handle_command, ping_command, echo_command, set_command, get_command,
                       del_command, book_command, no_command, bookVars
    <3> QED BY <3>1
  <2> QED BY <2>3, <2>4
<1> QED BY <1>1, <1>2

\* What the server does to the order book, whatever the clients send, is what
\* the specification of the order book alone allows (bid_command,
\* ask_command: every call is in range and every quantity fits its width).
THEOREM CommandsDriveBook == Spec => BookSpec
<1>1. Init => BookInit
  BY DEF Init
<1> QED BY <1>1, BookSteps, CommandInvariant, PTL DEF Spec, BookSpec

\* No level the server keeps is negative or above what clients offered.
THEOREM BookHonest == Spec => []NeverMoreThanOffered
BY CommandsDriveBook, BookSafe, PTL

\* The book keeps its types.
LEMMA BookTypes == Spec => []BookGood
<1>1. BookSpec => []BookGood
  BY BookGoodInit, BookGoodNext, PTL DEF BookSpec
<1> QED BY <1>1, CommandsDriveBook, PTL

\* For every table and mix of commands: SET is refused exactly when its key
\* or value is too long or the keys the history left stored take seven tenths
\* of the table (zedis_ht_set, zedis_ht_del).
THEOREM RefusalsRight == Spec => []RefusedWhenFull
<1>1. CommandInv /\ BookGood => RefusedWhenFull
  <2> SUFFICES ASSUME CommandInv, BookGood PROVE RefusedWhenFull
    OBVIOUS
  <2>1. DOMAIN log = 1..Len(log)
    BY DEF CommandInv, IsLog
  <2>2. TypeOK
    BY DEF CommandInv, Kept, BookGood, TypeOK
  <2>3. \A n \in DOMAIN log : Full(n)
    BY <2>1 DEF CommandInv, Entry
  <2> QED BY <2>2, <2>3 DEF Full, Crowded, StoredBefore, RefusedWhenFull
<1> QED BY <1>1, CommandInvariant, BookTypes, PTL
-----------------------------------------------------------------------------
(* BOOK: sums of the past and how far they stand above their lowest *)

\* t holds the sums of the first m of the numbers a.
Sums(t, a, k) == \A m \in 0..k : t[m] = IF m = 0 THEN 0 ELSE t[m - 1] + a[m]

\* The sums exist.
LEMMA SumsExist ==
  ASSUME NEW k \in Nat, NEW a, \A m \in 1..k : a[m] \in Int
  PROVE  \E t \in [0..k -> Int] : Sums(t, a, k)
<1> DEFINE Has(i) == \E t \in [0..i -> Int] : Sums(t, a, i)
           Bad == {i \in Nat : i <= k /\ ~Has(i)}
<1> SUFFICES ASSUME Bad # {} PROVE FALSE
  OBVIOUS
<1>1. PICK i \in Bad : \A j \in Bad : i <= j
  <2>1. Bad \in SUBSET Nat
    OBVIOUS
  <2> HIDE DEF Bad
  <2> QED BY <2>1, Least
<1>2. i \in Nat /\ i <= k /\ ~Has(i)
  BY <1>1
<1>3. i # 0
  <2> SUFFICES Has(0)
    BY <1>2
  <2> DEFINE t == [m \in 0..0 |-> 0]
  <2>1. t \in [0..0 -> Int] /\ Sums(t, a, 0)
    BY DEF Sums
  <2> QED BY <2>1
<1>4. Has(i - 1)
  <2>1. i - 1 \in Nat /\ i - 1 <= k /\ ~(i <= i - 1)
    BY <1>2, <1>3
  <2>2. i - 1 \notin Bad
    BY <1>1, <2>1
  <2> QED BY <2>1, <2>2
<1>5. PICK t \in [0..(i - 1) -> Int] : Sums(t, a, i - 1)
  BY <1>4
<1> DEFINE u == [m \in 0..i |-> IF m = i THEN t[i - 1] + a[i] ELSE t[m]]
<1>6. t[i - 1] \in Int /\ a[i] \in Int /\ i - 1 \in 0..(i - 1)
  BY <1>2, <1>3, <1>5
<1>7. u \in [0..i -> Int]
  BY <1>2, <1>5, <1>6
<1>8. Sums(u, a, i)
  <2> SUFFICES ASSUME NEW m \in 0..i PROVE u[m] = IF m = 0 THEN 0 ELSE u[m - 1] + a[m]
    BY DEF Sums
  <2>1. CASE m = i
    <3>1. u[i] = t[i - 1] + a[i] /\ u[i - 1] = t[i - 1]
      BY <1>2, <1>3
    <3> QED BY <2>1, <3>1, <1>3
  <2>2. CASE m # i
    <3>1. m \in 0..(i - 1) /\ u[m] = t[m]
      BY <2>2, <1>2
    <3>2. m # 0 => m - 1 \in 0..(i - 1) /\ m - 1 \in 0..i /\ m - 1 # i
      BY <3>1, <1>2
    <3>3. m # 0 => u[m - 1] = t[m - 1]
      BY <3>2
    <3> QED BY <3>1, <3>3, <1>5 DEF Sums
  <2> QED BY <2>1, <2>2
<1>9. Has(i)
  <2> HIDE DEF u
  <2> QED BY <1>7, <1>8
<1> QED BY <1>2, <1>9

\* Sums of the same numbers are the same.
LEMMA SumsSame ==
  ASSUME NEW k \in Nat, NEW a, NEW t, NEW u, Sums(t, a, k), Sums(u, a, k)
  PROVE  \A m \in 0..k : t[m] = u[m]
<1> DEFINE Bad == {m \in 0..k : t[m] # u[m]}
<1> SUFFICES ASSUME Bad # {} PROVE FALSE
  OBVIOUS
<1>1. PICK i \in Bad : \A j \in Bad : i <= j
  <2>1. Bad \in SUBSET Nat
    OBVIOUS
  <2> HIDE DEF Bad
  <2> QED BY <2>1, Least
<1>2. i \in 0..k /\ t[i] # u[i]
  BY <1>1
<1>3. i # 0
  BY <1>2 DEF Sums
<1>4. i - 1 \in 0..k /\ ~(i <= i - 1) /\ i \in 1..k
  BY <1>2, <1>3
<1>5. t[i - 1] = u[i - 1]
  BY <1>1, <1>4
<1>6. t[i] = t[i - 1] + a[i] /\ u[i] = u[i - 1] + a[i]
  BY <1>2, <1>3 DEF Sums
<1> QED BY <1>2, <1>4, <1>5, <1>6

\* How far the sums t stand above their lowest after k numbers.
Gap(t, k) == Max({t[k] - t[j] : j \in 0..k})

\* The sums have a lowest.
LEMMA Lowest ==
  ASSUME NEW k \in Nat, NEW t, \A m \in 0..k : t[m] \in Int
  PROVE  \E j \in 0..k : \A i \in 0..k : t[j] <= t[i]
<1> DEFINE Has(n) == \E j \in 0..n : \A i \in 0..n : t[j] <= t[i]
           Bad == {n \in Nat : n <= k /\ ~Has(n)}
<1> SUFFICES ASSUME Bad # {} PROVE FALSE
  OBVIOUS
<1>1. PICK n \in Bad : \A m \in Bad : n <= m
  <2>1. Bad \in SUBSET Nat
    OBVIOUS
  <2> HIDE DEF Bad
  <2> QED BY <2>1, Least
<1>2. n \in Nat /\ n <= k /\ ~Has(n)
  BY <1>1
<1>3. n # 0
  <2>1. 0..0 = {0} /\ t[0] \in Int
    OBVIOUS
  <2>2. Has(0)
    BY <2>1
  <2> QED BY <1>2, <2>2
<1>4. Has(n - 1)
  <2>1. n - 1 \in Nat /\ n - 1 <= k /\ ~(n <= n - 1)
    BY <1>2, <1>3
  <2>2. n - 1 \notin Bad
    BY <1>1, <2>1
  <2> QED BY <2>1, <2>2
<1>5. PICK j \in 0..(n - 1) : \A i \in 0..(n - 1) : t[j] <= t[i]
  BY <1>4
<1>6. j \in 0..n /\ n \in 0..n /\ (\A i \in 0..n : t[i] \in Int) /\ \A i \in 0..n : i = n \/ i \in 0..(n - 1)
  BY <1>2, <1>3
<1>7. CASE t[j] <= t[n]
  <2>1. \A i \in 0..n : t[j] <= t[i]
    BY <1>5, <1>6, <1>7
  <2> QED BY <1>2, <1>6, <2>1
<1>8. CASE t[n] < t[j]
  <2>1. ASSUME NEW i \in 0..n PROVE t[n] <= t[i]
    <3>1. t[i] \in Int /\ t[j] \in Int /\ t[n] \in Int
      BY <1>6
    <3>2. CASE i = n
      BY <3>1, <3>2
    <3>3. CASE i # n
      <4>1. t[j] <= t[i]
        BY <3>3, <1>5, <1>6
      <4> QED BY <3>1, <4>1, <1>8
    <3> QED BY <3>2, <3>3
  <2> QED BY <1>2, <1>6, <2>1
<1> QED BY <1>6, <1>7, <1>8

\* The gap is reached at the lowest sum, and is never negative.
LEMMA GapIs ==
  ASSUME NEW k \in Nat, NEW t, \A m \in 0..k : t[m] \in Int
  PROVE  Gap(t, k) \in Nat /\ \E j \in 0..k : Gap(t, k) = t[k] - t[j] /\ \A i \in 0..k : t[j] <= t[i]
<1>1. PICK j \in 0..k : \A i \in 0..k : t[j] <= t[i]
  BY Lowest
<1> DEFINE S == {t[k] - t[i] : i \in 0..k}
           x == t[k] - t[j]
<1>2. k \in 0..k /\ t[k] \in Int /\ t[j] \in Int /\ t[j] <= t[k]
  BY <1>1
<1>3. S \in SUBSET Int /\ x \in S
  BY <1>1, <1>2
<1>4. \A y \in S : y <= x
  <2> SUFFICES ASSUME NEW i \in 0..k PROVE t[k] - t[i] <= x
    OBVIOUS
  <2>1. t[i] \in Int /\ t[j] <= t[i]
    BY <1>1
  <2> QED BY <2>1, <1>2
<1>5. Max(S) = x
  <2> HIDE DEF S, x
  <2> QED BY <1>3, <1>4, MaxIs
<1>6. x \in Nat
  BY <1>2
<1> QED BY <1>1, <1>5, <1>6 DEF Gap

\* One more number moves the gap as an order moves a level that stops at zero.
LEMMA GapStep ==
  ASSUME NEW k \in Nat, NEW t, \A m \in 0..(k + 1) : t[m] \in Int, NEW q \in Int, t[k + 1] = t[k] + q
  PROVE  Gap(t, k + 1) = IF Gap(t, k) + q < 0 THEN 0 ELSE Gap(t, k) + q
<1>0. k \in 0..(k + 1) /\ k + 1 \in 0..(k + 1) /\ \A m \in 0..k : m \in 0..(k + 1)
  OBVIOUS
<1>1. PICK j \in 0..k : Gap(t, k) = t[k] - t[j] /\ \A i \in 0..k : t[j] <= t[i]
  BY <1>0, GapIs
<1>2. PICK l \in 0..(k + 1) : Gap(t, k + 1) = t[k + 1] - t[l] /\ \A i \in 0..(k + 1) : t[l] <= t[i]
  BY GapIs
<1>3. t[j] \in Int /\ t[k] \in Int /\ t[l] \in Int /\ t[l] <= t[j] /\ t[l] <= t[k + 1]
  BY <1>0, <1>1, <1>2
<1>4. CASE l = k + 1
  BY <1>1, <1>2, <1>3, <1>4
<1>5. CASE l # k + 1
  <2>1. l \in 0..k
    BY <1>5
  <2>2. t[j] <= t[l]
    BY <1>1, <2>1
  <2> QED BY <1>1, <1>2, <1>3, <2>2
<1> QED BY <1>4, <1>5

\* Equal sums have equal gaps.
LEMMA GapSame ==
  ASSUME NEW k \in Nat, NEW t, NEW u, \A m \in 0..k : t[m] = u[m]
  PROVE  Gap(t, k) = Gap(u, k)
<1>1. k \in 0..k
  OBVIOUS
<1>2. {t[k] - t[j] : j \in 0..k} = {u[k] - u[j] : j \in 0..k}
  BY <1>1
<1> QED BY <1>2 DEF Gap
-----------------------------------------------------------------------------
(* BOOK: the net of the accepted orders *)

Sides == {"BID", "ASK"}

\* Every accepted order has a quantity.
Quantities == \A n \in 1..Len(log), name \in Sides : \A price : Added(name, price, n) \in Qtys

\* The sums that Net takes are the sums of what was added.
Summed(name, price) ==
  /\ \A m \in 0..Len(log) : Totals(name, price)[m] \in Int
  /\ Totals(name, price)[0] = 0
  /\ \A m \in 1..Len(log) : Totals(name, price)[m] = Totals(name, price)[m - 1] + Added(name, price, m)

\* The recursion of Totals has a solution, so Totals is one.
LEMMA TotalsSummed ==
  IsLog /\ Quantities => \A name \in Sides : \A price : Summed(name, price)
<1> SUFFICES ASSUME IsLog, Quantities, NEW name \in Sides, NEW price PROVE Summed(name, price)
  OBVIOUS
<1> DEFINE k == Len(log)
           a == [m \in 1..k |-> Added(name, price, m)]
           Eq(t) == [m \in 0..k |-> IF m = 0 THEN 0 ELSE t[m - 1] + Added(name, price, m)]
           T == Totals(name, price)
<1>1. k \in Nat
  BY DEF IsLog
<1>2. \A m \in 1..k : Added(name, price, m) \in Int
  <2>1. \A q \in Qtys : q \in Int
    BY BookAssumption DEF Qtys
  <2> QED BY <2>1 DEF Quantities
<1>3. PICK t \in [0..k -> Int] : Sums(t, a, k)
  <2>1. \A m \in 1..k : a[m] \in Int
    BY <1>2
  <2> HIDE DEF a, k
  <2> QED BY <1>1, <2>1, SumsExist
<1>4. t = Eq(t)
  <2>1. \A m \in 0..k : t[m] = IF m = 0 THEN 0 ELSE t[m - 1] + Added(name, price, m)
    <3> SUFFICES ASSUME NEW m \in 0..k PROVE t[m] = IF m = 0 THEN 0 ELSE t[m - 1] + Added(name, price, m)
      OBVIOUS
    <3>1. m # 0 => m \in 1..k
      BY <1>1
    <3>2. m # 0 => a[m] = Added(name, price, m)
      BY <3>1
    <3> HIDE DEF a
    <3> QED BY <3>2, <1>3 DEF Sums
  <2> QED BY <2>1
<1>5. T = CHOOSE u : u = Eq(u)
  BY DEF Totals
<1>6. T = Eq(T)
  BY <1>4, <1>5
<1>7. Sums(T, a, k)
  <2> SUFFICES ASSUME NEW m \in 0..k PROVE T[m] = IF m = 0 THEN 0 ELSE T[m - 1] + a[m]
    BY DEF Sums
  <2>1. T[m] = IF m = 0 THEN 0 ELSE T[m - 1] + Added(name, price, m)
    BY <1>6
  <2>2. m # 0 => m \in 1..k
    BY <1>1
  <2>3. m # 0 => a[m] = Added(name, price, m)
    BY <2>2
  <2> HIDE DEF a, T
  <2> QED BY <2>1, <2>3
<1>8. \A m \in 0..k : T[m] = t[m]
  <2> HIDE DEF a, T, k
  <2>1. Sums(t, a, k)
    BY <1>3
  <2> QED BY <1>1, <1>7, <2>1, SumsSame
<1>9. \A m \in 1..k : T[m] = T[m - 1] + a[m] /\ a[m] = Added(name, price, m)
  <2>1. \A m \in 1..k : m \in 0..k /\ m # 0
    BY <1>1
  <2>2. \A m \in 1..k : a[m] = Added(name, price, m)
    OBVIOUS
  <2> HIDE DEF a, T
  <2> QED BY <2>1, <2>2, <1>7 DEF Sums
<1>10. T[0] = 0
  <2> HIDE DEF a, T
  <2> QED BY <1>1, <1>7 DEF Sums
<1>11. \A m \in 0..k : T[m] \in Int
  BY <1>3, <1>8
<1> QED BY <1>9, <1>10, <1>11 DEF Summed

\* The same of the state after a step.
LEMMA TotalsSummedNext ==
  (IsLog /\ Quantities => \A name \in Sides : \A price : Summed(name, price))'
BY TotalsSummed, PTL

\* A handled command adds its order to the sums and changes no earlier one.
LEMMA TotalsNext ==
  ASSUME IsLog, Quantities, Quantities', NEW cmd, NEW r, Reply(cmd, r), NEW n, n = Len(log) + 1,
         NEW name \in Sides, NEW price
  PROVE  /\ \A m \in 0..Len(log) : Totals(name, price)'[m] = Totals(name, price)[m]
         /\ Totals(name, price)'[n] = Totals(name, price)[n - 1] + Added(name, price, n)'
         /\ \A m \in 0..n : Totals(name, price)'[m] \in Int
<1> DEFINE k == Len(log)
           T == Totals(name, price)
           U == Totals(name, price)'
           a == [m \in 1..k |-> Added(name, price, m)]
<1>1. /\ IsLog' /\ k \in Nat /\ Len(log)' = n
      /\ \A m \in 1..k : log'[m] = log[m]
  BY Handled
<1>2. Summed(name, price)
  BY TotalsSummed
<1>3. Summed(name, price)'
  BY <1>1, TotalsSummedNext
<1>4. \A m \in 1..k : Added(name, price, m)' = Added(name, price, m)
  BY <1>1 DEF Added, Did, Args
<1>5. Sums(T, a, k)
  <2>1. \A m \in 0..k : m # 0 => m \in 1..k
    BY <1>1
  <2>2. T[0] = 0 /\ \A m \in 1..k : T[m] = T[m - 1] + a[m]
    BY <1>2 DEF Summed
  <2> HIDE DEF T, a
  <2> QED BY <2>1, <2>2 DEF Sums
<1>6. U[0] = 0 /\ (\A m \in 0..n : U[m] \in Int) /\ \A m \in 1..n : U[m] = U[m - 1] + Added(name, price, m)'
  BY <1>1, <1>3 DEF Summed
<1>7. Sums(U, a, k)
  <2>1. \A m \in 0..k : m # 0 => m \in 1..k /\ m \in 1..n
    BY <1>1
  <2>2. \A m \in 1..k : a[m] = Added(name, price, m)'
    BY <1>4
  <2> HIDE DEF U, a
  <2> QED BY <2>1, <2>2, <1>6 DEF Sums
<1>8. \A m \in 0..k : U[m] = T[m]
  <2> HIDE DEF T, U, a, k
  <2> QED BY <1>1, <1>5, <1>7, SumsSame
<1>9. U[n] = T[n - 1] + Added(name, price, n)'
  <2>1. n \in 1..n /\ n - 1 \in 0..k
    BY <1>1
  <2> HIDE DEF T, U
  <2> QED BY <2>1, <1>6, <1>8
<1> QED BY <1>6, <1>8, <1>9

\* Net is the gap of the sums.
LEMMA NetIsGap ==
  ASSUME NEW name, NEW price, NEW m
  PROVE  /\ Net(name, price, m) = Gap(Totals(name, price), m - 1)
         /\ Net(name, price, m)' = Gap(Totals(name, price)', m - 1)
BY DEF Net, Gap

\* A handled command moves the net by its order, down to zero at most, and
\* changes no earlier net.
LEMMA NetNext ==
  ASSUME IsLog, Quantities, Quantities', NEW cmd, NEW r, Reply(cmd, r), NEW n, n = Len(log) + 1,
         NEW name \in Sides, NEW price
  PROVE  /\ \A m \in 1..n : Net(name, price, m)' = Net(name, price, m)
         /\ Net(name, price, n) \in Nat
         /\ LET x == Net(name, price, n) + Added(name, price, n)'
            IN Net(name, price, n + 1)' = IF x < 0 THEN 0 ELSE x
<1> DEFINE k == Len(log)
           T == Totals(name, price)
           U == Totals(name, price)'
           q == Added(name, price, n)'
<1>1. k \in Nat /\ Len(log)' = n
  BY Handled
<1>2. /\ \A m \in 0..k : U[m] = T[m]
      /\ U[n] = T[n - 1] + q
      /\ \A m \in 0..n : U[m] \in Int
  BY TotalsNext
<1>3. q \in Int
  <2>1. n \in 1..Len(log)'
    BY <1>1
  <2>2. q \in Qtys
    BY <2>1 DEF Quantities
  <2> QED BY <2>2, BookAssumption DEF Qtys
<1>4. /\ \A m : Net(name, price, m) = Gap(T, m - 1)
      /\ \A m : Net(name, price, m)' = Gap(U, m - 1)
  BY NetIsGap
<1> HIDE DEF T, U, q, k
<1>5. n = k + 1 /\ n - 1 = k /\ (n + 1) - 1 = k + 1
  BY <1>1 DEF k
<1>6. ASSUME NEW m \in 1..n PROVE Net(name, price, m)' = Net(name, price, m)
  <2>1. m - 1 \in Nat /\ m - 1 <= k
    BY <1>1, <1>5
  <2>2. \A i \in 0..(m - 1) : U[i] = T[i]
    BY <1>1, <1>2, <2>1
  <2> QED BY <1>4, <2>1, <2>2, GapSame
<1>7. Gap(U, k) = Gap(T, k) /\ Gap(U, k) \in Nat
  <2>1. Gap(U, k) = Gap(T, k)
    BY <1>1, <1>2, GapSame
  <2>2. \A m \in 0..k : U[m] \in Int
    BY <1>1, <1>2, <1>5
  <2> QED BY <1>1, <2>1, <2>2, GapIs
<1>8. Gap(U, k + 1) = IF Gap(U, k) + q < 0 THEN 0 ELSE Gap(U, k) + q
  <2>1. U[k] = T[k] /\ U[k + 1] = U[k] + q
    BY <1>1, <1>2, <1>5
  <2>2. \A m \in 0..(k + 1) : U[m] \in Int
    BY <1>2, <1>5
  <2> QED BY <1>1, <1>3, <2>1, <2>2, GapStep
<1>9. Net(name, price, n) = Gap(U, k) /\ Net(name, price, n + 1)' = Gap(U, k + 1)
  BY <1>4, <1>5, <1>7
<1> QED BY <1>6, <1>7, <1>8, <1>9 DEF q

\* A level moves like the net while that fits its width (order_book.c:43-46).
LEMMA LevelIsNet ==
  ASSUME NEW a \in Nat, NEW q \in Qtys, (IF a + q < 0 THEN 0 ELSE a + q) < QtyHalf
  PROVE  Level(a, q) = IF a + q < 0 THEN 0 ELSE a + q
<1>1. QtyHalf \in Nat /\ QtyHalf > 0 /\ q \in Int /\ q >= -QtyHalf
  BY BookAssumption DEF Qtys
<1>2. a + q < QtyHalf /\ a + q >= -QtyHalf
  BY <1>1
<1>3. Sum64(a, q) = a + q
  BY <1>1, <1>2 DEF Sum64
<1> QED BY <1>3 DEF Level

\* What the command with reply r adds.
Adds(cmd, r, name, price) ==
  IF cmd.name = name /\ r # <<>> /\ r[1].type = "integer" /\ parse_int(cmd.args[1]) = price
  THEN parse_i64(cmd.args[2]) ELSE 0

\* The command moves both sides by what it adds, and BOOK shows the levels.
Booked(cmd, r) ==
  /\ \A name \in Sides : \A price : Adds(cmd, r, name, price) \in Qtys
  /\ \A p \in Prices : /\ bid_qty'[p] = Level(bid_qty[p], Adds(cmd, r, "BID", p))
                       /\ ask_qty'[p] = Level(ask_qty[p], Adds(cmd, r, "ASK", p))
  /\ cmd.name = "BOOK" /\ r[1].type = "array" =>
       LET price == parse_int(cmd.args[1])
       IN price \in Prices /\ r = Levels(bid_qty[price], ask_qty[price])

\* Adding nothing leaves a level as it is.
LEMMA LevelZero ==
  ASSUME BookGood
  PROVE  /\ 0 \in Qtys
         /\ \A p \in Prices : Level(bid_qty[p], 0) = bid_qty[p] /\ Level(ask_qty[p], 0) = ask_qty[p]
<1>1. QtyHalf \in Nat /\ QtyHalf > 0
  BY BookAssumption
<1>2. \A a \in Qtys : a >= 0 => Level(a, 0) = a
  BY <1>1 DEF Level, Sum64, Qtys
<1>3. \A p \in Prices : /\ bid_qty[p] \in Qtys /\ bid_qty[p] >= 0
                        /\ ask_qty[p] \in Qtys /\ ask_qty[p] >= 0
  BY DEF BookGood, BookTypeOK, NeverMoreThanOffered
<1>4. 0 \in Qtys
  BY <1>1 DEF Qtys
<1> QED BY <1>2, <1>3, <1>4

\* A command that adds nothing and leaves the book alone.
LEMMA NotBooked ==
  ASSUME BookGood, NEW cmd, NEW r, UNCHANGED bookVars,
         cmd.name \notin Sides \/ r = <<>> \/ r[1].type # "integer",
         cmd.name # "BOOK"
  PROVE  Booked(cmd, r)
<1>1. \A name \in Sides : \A price : Adds(cmd, r, name, price) = 0
  BY DEF Adds
<1>2. "BID" \in Sides /\ "ASK" \in Sides
  BY DEF Sides
<1>3. bid_qty' = bid_qty /\ ask_qty' = ask_qty
  BY DEF bookVars
<1> QED BY <1>1, <1>2, <1>3, LevelZero DEF Booked

\* An order that is accepted.
LEMMA BidBooked ==
  ASSUME CommandInv, BookGood, NEW cmd \in config.commands, bid_command(cmd) \/ ask_command(cmd)
  PROVE  \E r : Reply(cmd, r) /\ Booked(cmd, r)
<1>0. config \in Configs /\ cmd.name \in Sides /\ cmd.name # "BOOK"
  BY DEF CommandInv, bid_command, ask_command, Sides
<1>1. CASE Refusal(cmd) # "none"
  <2> DEFINE r == Failed(Refusal(cmd))
  <2>1. Reply(cmd, r) /\ UNCHANGED bookVars
    BY <1>1 DEF bid_command, ask_command
  <2>2. r[1].type # "integer"
    BY DEF Failed
  <2>3. Booked(cmd, r)
    <3> HIDE DEF r
    <3> QED BY <1>0, <2>1, <2>2, NotBooked
  <2> QED BY <2>1, <2>3
<1>2. CASE Refusal(cmd) = "none"
  <2> DEFINE price == parse_int(cmd.args[1])
             q == parse_i64(cmd.args[2])
             r == IntReply(q)
  <2>1. price \in Ints /\ InRange(price) /\ q \in Qtys
    BY <1>0, <1>2, OrderArgs
  <2>2. price \in Prices
    BY <2>1, BookAssumption DEF InRange, Prices, Ints
  <2>3. Reply(cmd, r)
    BY <1>2 DEF bid_command, ask_command
  <2>4. r # <<>> /\ r[1].type = "integer"
    BY DEF IntReply
  <2> HIDE DEF r
  <2>5. \A name, p : Adds(cmd, r, name, p) = IF cmd.name = name /\ p = price THEN q ELSE 0
    BY <2>4 DEF Adds
  <2>6. bid_qty \in [Prices -> Qtys] /\ ask_qty \in [Prices -> Qtys]
    BY DEF BookGood, BookTypeOK
  <2>7. /\ 0 \in Qtys
        /\ \A p \in Prices : Level(bid_qty[p], 0) = bid_qty[p] /\ Level(ask_qty[p], 0) = ask_qty[p]
    BY LevelZero
  <2>8. CASE bid_command(cmd)
    <3>1. cmd.name = "BID" /\ bid_qty' = [bid_qty EXCEPT ![price] = Level(@, q)] /\ ask_qty' = ask_qty
      BY <1>2, <2>8 DEF bid_command, zedis_book_bid
    <3> HIDE DEF price, q
    <3>2. \A p \in Prices : bid_qty'[p] = IF p = price THEN Level(bid_qty[p], q) ELSE bid_qty[p]
      BY <2>6, <3>1
    <3>3. \A p \in Prices : bid_qty'[p] = Level(bid_qty[p], Adds(cmd, r, "BID", p))
      <4>1. \A p : Adds(cmd, r, "BID", p) = IF p = price THEN q ELSE 0
        BY <2>5, <3>1
      <4> QED BY <4>1, <2>7, <3>2
    <3>4. \A p \in Prices : ask_qty'[p] = Level(ask_qty[p], Adds(cmd, r, "ASK", p))
      <4>1. \A p : Adds(cmd, r, "ASK", p) = 0
        BY <2>5, <3>1
      <4> QED BY <4>1, <2>7, <3>1
    <3>5. \A name, p : Adds(cmd, r, name, p) \in Qtys
      BY <2>1, <2>5, <2>7
    <3> QED BY <1>0, <2>3, <3>3, <3>4, <3>5 DEF Booked
  <2>9. CASE ask_command(cmd)
    <3>1. cmd.name = "ASK" /\ ask_qty' = [ask_qty EXCEPT ![price] = Level(@, q)] /\ bid_qty' = bid_qty
      BY <1>2, <2>9 DEF ask_command, zedis_book_ask
    <3> HIDE DEF price, q
    <3>2. \A p \in Prices : ask_qty'[p] = IF p = price THEN Level(ask_qty[p], q) ELSE ask_qty[p]
      BY <2>6, <3>1
    <3>3. \A p \in Prices : ask_qty'[p] = Level(ask_qty[p], Adds(cmd, r, "ASK", p))
      <4>1. \A p : Adds(cmd, r, "ASK", p) = IF p = price THEN q ELSE 0
        BY <2>5, <3>1
      <4> QED BY <4>1, <2>7, <3>2
    <3>4. \A p \in Prices : bid_qty'[p] = Level(bid_qty[p], Adds(cmd, r, "BID", p))
      <4>1. \A p : Adds(cmd, r, "BID", p) = 0
        BY <2>5, <3>1
      <4> QED BY <4>1, <2>7, <3>1
    <3>5. \A name, p : Adds(cmd, r, name, p) \in Qtys
      BY <2>1, <2>5, <2>7
    <3> QED BY <1>0, <2>3, <3>3, <3>4, <3>5 DEF Booked
  <2> QED BY <2>8, <2>9
<1> QED BY <1>1, <1>2

\* BOOK leaves the book alone and shows the levels of a price it has.
LEMMA BookBooked ==
  ASSUME CommandInv, BookGood, NEW cmd \in config.commands, book_command(cmd)
  PROVE  \E r : Reply(cmd, r) /\ Booked(cmd, r)
<1> DEFINE price == parse_int(cmd.args[1])
           l == Levels(bid_qty[price], ask_qty[price])
<1>0. config \in Configs /\ cmd.name = "BOOK" /\ bid_qty' = bid_qty /\ ask_qty' = ask_qty
  BY DEF CommandInv, book_command, bookVars
<1>1. PICK r : /\ Reply(cmd, r)
               /\ \/ \E x : r = Failed(x)
                  \/ r = l /\ IsBulk(cmd, 1) /\ IsNum(cmd.args[1]) /\ InRange(price)
  <2> HIDE DEF price
  <2> QED BY DEF book_command, price
<1>2. \A name \in Sides : \A p : Adds(cmd, r, name, p) = 0
  BY <1>0 DEF Adds, Sides
<1>3. "BID" \in Sides /\ "ASK" \in Sides
  BY DEF Sides
<1>4. r[1].type = "array" => price \in Prices /\ r = l
  <2>1. CASE r = l /\ IsBulk(cmd, 1) /\ IsNum(cmd.args[1]) /\ InRange(price)
    <3>1. price \in Ints
      <4>1. cmd.args[1] \in Arg
        BY <1>0, <2>1, ArgLen
      <4> QED BY <2>1, <4>1, NumArg
    <3>2. price \in Prices
      BY <2>1, <3>1, BookAssumption DEF InRange, Prices, Ints
    <3> QED BY <2>1, <3>2
  <2>2. ASSUME NEW x, r = Failed(x) PROVE r[1].type # "array"
    BY <2>2 DEF Failed
  <2> QED BY <1>1, <2>1, <2>2
<1>5. Booked(cmd, r)
  BY <1>0, <1>2, <1>3, <1>4, LevelZero DEF Booked
<1> QED BY <1>1, <1>5

\* Every command.
LEMMA AllBooked ==
  ASSUME CommandInv, BookGood, NEW cmd \in config.commands, server_handle_command(cmd)
  PROVE  \E r : Reply(cmd, r) /\ Booked(cmd, r)
<1>1. CASE bid_command(cmd) \/ ask_command(cmd)
  BY <1>1, BidBooked
<1>2. CASE book_command(cmd)
  BY <1>2, BookBooked
<1>3. CASE \/ ping_command(cmd) \/ echo_command(cmd) \/ set_command(cmd) \/ get_command(cmd)
           \/ del_command(cmd) \/ no_command(cmd)
  <2>1. UNCHANGED bookVars /\ cmd.name # "BOOK" /\ cmd.name \notin Sides
    BY <1>3 DEF ping_command, echo_command, set_command, get_command, del_command, no_command, Sides, bookVars
  <2>2. PICK r : Reply(cmd, r)
    <3>1. Done(cmd)
      BY <1>3, PingRight, GetRight, SetRight, DelRight, OtherRight
    <3> QED BY <3>1 DEF Done
  <2>3. Booked(cmd, r)
    BY <2>1, NotBooked
  <2> QED BY <2>2, <2>3
<1> QED BY <1>1, <1>2, <1>3 DEF server_handle_command

\* The levels are the net of the orders so far, where that fits.
LevelsNet(n) ==
  \A p \in Prices : /\ Fits("BID", p, n) => bid_qty[p] = Net("BID", p, n)
                    /\ Fits("ASK", p, n) => ask_qty[p] = Net("ASK", p, n)

BookRight(n) ==
  Did(n, "BOOK") /\ log[n].reply[1].type = "array" =>
    LET price == parse_int(Args(n)[1])
    IN Fits("BID", price, n) /\ Fits("ASK", price, n) =>
         log[n].reply = Levels(Net("BID", price, n), Net("ASK", price, n))

NetInv == Quantities /\ LevelsNet(Len(log) + 1) /\ \A n \in 1..Len(log) : BookRight(n)

\* Every handled command keeps the levels at the net.
LEMMA NetKeeps ==
  ASSUME CommandInv, BookGood, NetInv, NEW cmd \in config.commands, server_handle_command(cmd)
  PROVE  NetInv'
<1>1. PICK n : n = Len(log) + 1
  OBVIOUS
<1>2. PICK r : Reply(cmd, r) /\ Booked(cmd, r)
  BY AllBooked
<1>3. IsLog /\ Quantities /\ LevelsNet(n) /\ \A m \in 1..Len(log) : BookRight(m)
  BY <1>1 DEF CommandInv, NetInv
<1>4. /\ Len(log) \in Nat /\ Len(log)' = n /\ (\A m \in 1..Len(log) : log'[m] = log[m])
      /\ log'[n] = [cmd |-> cmd, reply |-> r]
  BY <1>1, <1>2, <1>3, Handled
<1>5. \A name, price : Added(name, price, n)' = Adds(cmd, r, name, price)
  BY <1>4 DEF Added, Adds, Did, Args
<1>6. Quantities'
  <2> SUFFICES ASSUME NEW m \in 1..n, NEW name \in Sides, NEW price PROVE Added(name, price, m)' \in Qtys
    BY <1>4 DEF Quantities
  <2>1. CASE m = n
    <3>1. Adds(cmd, r, name, price) \in Qtys
      BY <1>2 DEF Booked
    <3> QED BY <2>1, <3>1, <1>5
  <2>2. CASE m # n
    <3>1. m \in 1..Len(log)
      BY <2>2, <1>1, <1>4
    <3>2. Added(name, price, m)' = Added(name, price, m)
      BY <3>1, <1>4 DEF Added, Did, Args
    <3> QED BY <3>1, <3>2, <1>3 DEF Quantities
  <2> QED BY <2>1, <2>2
<1>7. ASSUME NEW name \in Sides, NEW price
      PROVE  /\ \A m \in 1..n : Net(name, price, m)' = Net(name, price, m)
             /\ Net(name, price, n) \in Nat
             /\ LET x == Net(name, price, n) + Adds(cmd, r, name, price)
                IN Net(name, price, n + 1)' = IF x < 0 THEN 0 ELSE x
  BY <1>1, <1>2, <1>3, <1>5, <1>6, NetNext
<1>8. ASSUME NEW name \in Sides, NEW price, NEW m \in 1..n
      PROVE  Fits(name, price, m)' <=> Fits(name, price, m)
  <2>1. \A i \in 1..m : i \in 1..n
    BY <1>1, <1>4
  <2> QED BY <2>1, <1>7 DEF Fits
<1>9. ASSUME NEW name \in Sides, NEW p \in Prices, Fits(name, p, n + 1)'
      PROVE  /\ Fits(name, p, n) /\ Net(name, p, n) \in Nat
             /\ Level(Net(name, p, n), Adds(cmd, r, name, p)) = Net(name, p, n + 1)'
  <2>1. n + 1 \in 1..(n + 1) /\ n \in 1..n /\ \A i \in 1..n : i \in 1..(n + 1)
    BY <1>1, <1>4
  <2>2. Fits(name, p, n)' /\ Net(name, p, n + 1)' < QtyHalf
    BY <2>1, <1>9 DEF Fits
  <2>3. Fits(name, p, n)
    BY <2>1, <2>2, <1>8
  <2>4. Adds(cmd, r, name, p) \in Qtys
    BY <1>2 DEF Booked
  <2> QED BY <2>2, <2>3, <2>4, <1>7, LevelIsNet
<1>10. "BID" \in Sides /\ "ASK" \in Sides
  BY DEF Sides
<1>11. LevelsNet(n + 1)'
  <2> SUFFICES ASSUME NEW p \in Prices
               PROVE  /\ Fits("BID", p, n + 1)' => bid_qty'[p] = Net("BID", p, n + 1)'
                      /\ Fits("ASK", p, n + 1)' => ask_qty'[p] = Net("ASK", p, n + 1)'
    BY DEF LevelsNet
  <2>1. ASSUME Fits("BID", p, n + 1)' PROVE bid_qty'[p] = Net("BID", p, n + 1)'
    <3>1. /\ Fits("BID", p, n)
          /\ Level(Net("BID", p, n), Adds(cmd, r, "BID", p)) = Net("BID", p, n + 1)'
      BY <2>1, <1>9, <1>10
    <3>2. bid_qty[p] = Net("BID", p, n)
      BY <3>1, <1>3 DEF LevelsNet
    <3>3. bid_qty'[p] = Level(bid_qty[p], Adds(cmd, r, "BID", p))
      BY <1>2 DEF Booked
    <3> QED BY <3>1, <3>2, <3>3
  <2>2. ASSUME Fits("ASK", p, n + 1)' PROVE ask_qty'[p] = Net("ASK", p, n + 1)'
    <3>1. /\ Fits("ASK", p, n)
          /\ Level(Net("ASK", p, n), Adds(cmd, r, "ASK", p)) = Net("ASK", p, n + 1)'
      BY <2>2, <1>9, <1>10
    <3>2. ask_qty[p] = Net("ASK", p, n)
      BY <3>1, <1>3 DEF LevelsNet
    <3>3. ask_qty'[p] = Level(ask_qty[p], Adds(cmd, r, "ASK", p))
      BY <1>2 DEF Booked
    <3> QED BY <3>1, <3>2, <3>3
  <2> QED BY <2>1, <2>2
<1>12. BookRight(n)'
  <2> DEFINE price == parse_int(cmd.args[1])
  <2>1. n \in 1..n /\ log'[n].cmd = cmd /\ log'[n].reply = r
    <3>1. n \in 1..n
      BY <1>1, <1>4
    <3>2. log'[n] = [cmd |-> cmd, reply |-> r]
      BY <1>4
    <3>3. log'[n].cmd = cmd /\ log'[n].reply = r
      BY <3>2
    <3> QED BY <3>1, <3>3
  <2> SUFFICES ASSUME cmd.name = "BOOK", r[1].type = "array",
                      Fits("BID", price, n)', Fits("ASK", price, n)'
               PROVE  r = Levels(Net("BID", price, n)', Net("ASK", price, n)')
    BY <2>1 DEF BookRight, Did, Args
  <2>2. price \in Prices /\ r = Levels(bid_qty[price], ask_qty[price])
    BY <1>2 DEF Booked
  <2> HIDE DEF price
  <2>3. Fits("BID", price, n) /\ Fits("ASK", price, n)
    <3>1. \A name \in Sides : Fits(name, price, n)' <=> Fits(name, price, n)
      BY <2>1, <1>8
    <3> QED BY <3>1, <1>10
  <2>4. bid_qty[price] = Net("BID", price, n) /\ ask_qty[price] = Net("ASK", price, n)
    BY <2>2, <2>3, <1>3 DEF LevelsNet
  <2> QED BY <2>1, <2>2, <2>4, <1>7, <1>10
<1>13. ASSUME NEW m \in 1..Len(log) PROVE BookRight(m)'
  <2>1. log'[m] = log[m] /\ m \in 1..n
    BY <1>1, <1>4
  <2>2. /\ \A price : Fits("BID", price, m)' <=> Fits("BID", price, m)
        /\ \A price : Fits("ASK", price, m)' <=> Fits("ASK", price, m)
    BY <2>1, <1>8, <1>10
  <2>3. /\ \A price : Net("BID", price, m)' = Net("BID", price, m)
        /\ \A price : Net("ASK", price, m)' = Net("ASK", price, m)
    BY <2>1, <1>7, <1>10
  <2>4. BookRight(m)
    BY <1>3
  <2> QED BY <2>1, <2>2, <2>3, <2>4 DEF BookRight, Did, Args
<1>14. \A m \in 1..Len(log)' : BookRight(m)'
  <2>1. \A m \in 1..n : m = n \/ m \in 1..Len(log)
    BY <1>1, <1>4
  <2> QED BY <2>1, <1>4, <1>12, <1>13
<1> QED BY <1>4, <1>6, <1>11, <1>14 DEF NetInv

\* For every mix of commands and every width of the integers: BOOK answers
\* with the net of the orders accepted at its price, where that fits
\* (bid_command, ask_command, book_command).
THEOREM BookAnswers == Spec => []BookIsNet
<1>1. Init => NetInv
  <2> SUFFICES ASSUME Init PROVE NetInv
    OBVIOUS
  <2>1. log = <<>> /\ bid_qty = [p \in Prices |-> 0] /\ ask_qty = [p \in Prices |-> 0]
    BY DEF Init, BookInit
  <2>2. Len(log) = 0 /\ log \in Seq({})
    BY <2>1
  <2>3. IsLog /\ Quantities
    BY <2>2 DEF IsLog, Quantities
  <2>4. ASSUME NEW name \in Sides, NEW price PROVE Net(name, price, 1) = 0
    <3> DEFINE T == Totals(name, price)
    <3>1. T[0] = 0
      BY <2>3, TotalsSummed DEF Summed
    <3>2. Net(name, price, 1) = Gap(T, 1 - 1)
      BY NetIsGap
    <3> HIDE DEF T
    <3>3. \A m \in 0..0 : m = 0 /\ T[m] \in Int
      BY <3>1
    <3>4. Gap(T, 0) = 0
      <4>1. PICK j \in 0..0 : Gap(T, 0) = T[0] - T[j]
        BY <3>3, GapIs
      <4> QED BY <4>1, <3>1, <3>3
    <3> QED BY <3>2, <3>4
  <2>5. LevelsNet(Len(log) + 1)
    <3>1. Len(log) + 1 = 1 /\ "BID" \in Sides /\ "ASK" \in Sides
      BY <2>2 DEF Sides
    <3> QED BY <2>1, <2>4, <3>1 DEF LevelsNet
  <2> QED BY <2>2, <2>3, <2>5 DEF NetInv
<1>2. CommandInv /\ BookGood /\ NetInv /\ [Next]_vars => NetInv'
  <2> SUFFICES ASSUME CommandInv, BookGood, NetInv, [Next]_vars PROVE NetInv'
    OBVIOUS
  <2>1. CASE Next
    BY <2>1, NetKeeps DEF Next
  <2>2. CASE UNCHANGED vars
    <3>1. log' = log /\ bid_qty' = bid_qty /\ ask_qty' = ask_qty
      BY <2>2 DEF vars, bookVars
    <3>2. \A name, price, m : Added(name, price, m)' = Added(name, price, m)
      BY <3>1 DEF Added, Did, Args
    <3>3. \A name, price, m : Net(name, price, m)' = Net(name, price, m)
      <4>1. \A name, price : Totals(name, price)' = Totals(name, price)
        BY <3>1 DEF Totals, Added, Did, Args
      <4> QED BY <4>1 DEF Net
    <3>4. \A name, price, m : Fits(name, price, m)' <=> Fits(name, price, m)
      BY <3>3 DEF Fits
    <3>5. Quantities' /\ LevelsNet(Len(log) + 1)'
      BY <3>1, <3>2, <3>3, <3>4 DEF NetInv, Quantities, LevelsNet
    <3>6. \A m : BookRight(m)' <=> BookRight(m)
      BY <3>1, <3>3, <3>4 DEF BookRight, Did, Args
    <3> QED BY <3>1, <3>5, <3>6 DEF NetInv
  <2> QED BY <2>1, <2>2
<1>3. CommandInv /\ NetInv => BookIsNet
  <2> SUFFICES ASSUME CommandInv, NetInv PROVE BookIsNet
    OBVIOUS
  <2>1. DOMAIN log = 1..Len(log)
    BY DEF CommandInv, IsLog
  <2>2. \A n \in DOMAIN log : BookRight(n)
    BY <2>1 DEF NetInv
  <2> QED BY <2>2 DEF BookRight, BookIsNet
<1> QED BY <1>1, <1>2, <1>3, CommandInvariant, BookTypes, PTL DEF Spec
=============================================================================
