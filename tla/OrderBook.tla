----------------------------- MODULE OrderBook ------------------------------
(***************************************************************************)
(* The order book (order_book.c): a bid and an ask quantity for every      *)
(* price of a fixed range.  A quantity is an int64_t, a price an int; both *)
(* are given here by half the size of their range.                         *)
(***************************************************************************)
EXTENDS Integers

CONSTANTS IntHalf,              \* int is -IntHalf .. IntHalf - 1
          QtyHalf,              \* int64_t is -QtyHalf .. QtyHalf - 1
          price_min, price_max

ASSUME BookAssumption ==
  /\ IntHalf \in Nat \ {0} /\ QtyHalf \in Nat \ {0}
  /\ price_min \in -IntHalf .. (IntHalf - 1)
  /\ price_max \in price_min .. (IntHalf - 1)

VARIABLES bid_qty, ask_qty,     \* the levels
          bids, asks            \* history: what was ever added at each price

bookVars == <<bid_qty, ask_qty, bids, asks>>

Ints == -IntHalf .. (IntHalf - 1)
Qtys == -QtyHalf .. (QtyHalf - 1)
Prices == price_min .. price_max

\* The sum of two quantities, as the compiled addition leaves it.
Sum64(a, b) ==
  IF a + b >= QtyHalf THEN a + b - 2 * QtyHalf
  ELSE IF a + b < -QtyHalf THEN a + b + 2 * QtyHalf ELSE a + b

\* Mutant: a level that would become negative stays.
Level_Keep(level, qty) == IF Sum64(level, qty) < 0 THEN level ELSE Sum64(level, qty)

\* A level after qty: never below zero.
Level(level, qty) == IF Sum64(level, qty) < 0 THEN 0 ELSE Sum64(level, qty)

Gain(qty) == IF qty > 0 THEN qty ELSE 0

\* price_to_index succeeds.
InRange(price) == price >= price_min /\ price <= price_max

BookInit ==
  /\ bid_qty = [p \in Prices |-> 0] /\ ask_qty = [p \in Prices |-> 0]
  /\ bids = [p \in Prices |-> 0] /\ asks = [p \in Prices |-> 0]

zedis_book_bid(price, qty) ==
  /\ InRange(price)
  /\ bid_qty' = [bid_qty EXCEPT ![price] = Level(@, qty)]
  /\ bids' = [bids EXCEPT ![price] = @ + Gain(qty)]
  /\ UNCHANGED <<ask_qty, asks>>

\* Mutant: the ask is booked as a bid.
zedis_book_ask_Bid(price, qty) ==
  /\ InRange(price)
  /\ bid_qty' = [bid_qty EXCEPT ![price] = Level(@, qty)]
  /\ asks' = [asks EXCEPT ![price] = @ + Gain(qty)]
  /\ UNCHANGED <<ask_qty, bids>>

zedis_book_ask(price, qty) ==
  /\ InRange(price)
  /\ ask_qty' = [ask_qty EXCEPT ![price] = Level(@, qty)]
  /\ asks' = [asks EXCEPT ![price] = @ + Gain(qty)]
  /\ UNCHANGED <<bid_qty, bids>>

BookNext ==
  \E price \in Ints, qty \in Qtys : zedis_book_bid(price, qty) \/ zedis_book_ask(price, qty)

BookSpec == BookInit /\ [][BookNext]_bookVars
-----------------------------------------------------------------------------
BookTypeOK ==
  /\ bid_qty \in [Prices -> Qtys] /\ ask_qty \in [Prices -> Qtys]
  /\ bids \in [Prices -> Nat] /\ asks \in [Prices -> Nat]

\* A level is never negative and never promises more than was ever offered
\* at its price, also when a sum left the range of int64_t on the way and
\* when quantities were taken back beyond zero (zedis_book_bid and
\* zedis_book_ask, order_book.c:43-46 and 56-59).
NeverMoreThanOffered ==
  \A p \in Prices : bid_qty[p] \in 0..bids[p] /\ ask_qty[p] \in 0..asks[p]
=============================================================================
