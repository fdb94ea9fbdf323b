----------------------------- MODULE RobinHood ------------------------------
(***************************************************************************)
(* What the loops of zedis_ht_set and zedis_ht_get know of the slots they  *)
(* have passed: a written key is found again by its own search, and in a   *)
(* table nobody deletes from the entries are in Robin Hood order and agree *)
(* with the answers.  Step by step, from Placed; HashTableProofs shows     *)
(* that Placed holds and draws the conclusions.                            *)
(***************************************************************************)
EXTENDS HashTable, TLAPS

-----------------------------------------------------------------------------
\* Arithmetic of a probe: (idx + 1) % capacity walks the slots.

\* Euclidean division, as the provers know it.
LEMMA DivDef ==
  ASSUME NEW a \in Nat, NEW c \in Nat \ {0}
  PROVE  /\ a % c \in 0..(c - 1)
         /\ a \div c \in Nat
         /\ a = c * (a \div c) + (a % c)
BY Z3

\* Two remainders of c differ by a multiple of c only when they are equal.
LEMMA RemaindersEqual ==
  ASSUME NEW c \in Nat \ {0}, NEW d \in Int, NEW r \in Nat, NEW s \in Nat, r < c, s < c, c * d = r - s
  PROVE  d = 0
<1>1. CASE d >= 1
  <2>1. c * d >= c
    BY <1>1, Z3
  <2> QED BY <2>1
<1>2. CASE d <= -1
  <2>1. c * d <= -c
    BY <1>2, Z3
  <2> QED BY <2>1
<1> QED BY <1>1, <1>2

\* The remainder is unique.
LEMMA DivUnique ==
  ASSUME NEW c \in Nat \ {0}, NEW q \in Nat, NEW r \in Nat, r < c
  PROVE  (c * q + r) % c = r
<1> DEFINE n == c * q + r
<1>0. n \in Nat
  BY Z3
<1> DEFINE p == n \div c
           s == n % c
<1>1. p \in Nat /\ s \in 0..(c-1) /\ n = c * p + s
  BY <1>0, DivDef
<1>. HIDE DEF p, s
<1>2. c * (q - p) = s - r
  <2>1. c * q - c * p = s - r
     BY <1>1, Z3
  <2>2. c * (q - p) = c * q - c * p
     BY <1>1, Z3
  <2> QED BY <2>1, <2>2
<1>3. q - p = 0
  BY <1>1, <1>2, RemaindersEqual
<1>4. q = p
  BY <1>1, <1>3
<1> QED BY <1>1, <1>4 DEF s, n

\* idx = (idx + 1) % capacity: stepping one slot further commutes with the
\* wrap-around of the table.
LEMMA StepWraps ==
  ASSUME NEW a \in Nat, NEW c \in Nat \ {0}
  PROVE  ((a % c) + 1) % c = (a + 1) % c
<1> DEFINE q == a \div c
           r == a % c
<1>1. q \in Nat /\ r \in 0..(c-1) /\ a = c * q + r
  BY DivDef
<1> HIDE DEF q, r
<1>2. CASE r + 1 < c
  <2>1. a + 1 = c * q + (r + 1)
    BY <1>1
  <2>2. (c * q + (r + 1)) % c = r + 1
    BY <1>1, <1>2, DivUnique
  <2>3. (c * 0 + (r + 1)) % c = r + 1
    BY <1>1, <1>2, DivUnique
  <2>4. c * 0 + (r + 1) = r + 1
    BY <1>1
  <2> QED BY <2>1, <2>2, <2>3, <2>4 DEF r
<1>3. CASE r + 1 = c
  <2>1. a + 1 = c * (q + 1) + 0
    BY <1>1, <1>3, Z3
  <2>2. (c * (q + 1) + 0) % c = 0
    BY <1>1, DivUnique
  <2>3. (c * 1 + 0) % c = 0
    BY DivUnique
  <2>4. c * 1 + 0 = r + 1
    BY <1>3
  <2> QED BY <2>1, <2>2, <2>3, <2>4 DEF r
<1> QED BY <1>1, <1>2, <1>3

\* Fewer than c steps apart, two different numbers have different remainders:
\* a window of c slots never meets itself.
LEMMA WindowDistinct ==
  ASSUME NEW c \in Nat \ {0}, NEW a \in Nat, NEW b \in Nat, a < b, b < a + c
  PROVE  a % c # b % c
<1> DEFINE p == a \div c
           q == b \div c
           r == a % c
           s == b % c
<1>1. /\ p \in Nat /\ r \in 0..(c - 1) /\ a = c * p + r
      /\ q \in Nat /\ s \in 0..(c - 1) /\ b = c * q + s
  BY DivDef
<1> HIDE DEF p, q, r, s
<1> SUFFICES ASSUME r = s PROVE FALSE
  BY DEF r, s
<1>2. c * (q - p) = b - a
  <2>1. c * (q - p) = c * q - c * p
    BY <1>1, Z3
  <2> QED BY <1>1, <2>1
<1>3. q - p = 0
  BY <1>1, <1>2, RemaindersEqual
<1> QED BY <1>1, <1>2, <1>3

\* From any slot, c steps meet every slot.
LEMMA WindowCovers ==
  ASSUME NEW c \in Nat \ {0}, NEW h \in 0..(c - 1), NEW s \in 0..(c - 1)
  PROVE  \E q \in 0..(c - 1) : (h + q) % c = s
<1>1. (c * 0 + s) % c = s /\ (c * 1 + s) % c = s
  BY DivUnique
<1>2. CASE h <= s
  <2>1. s - h \in 0..(c - 1) /\ h + (s - h) = c * 0 + s
    BY <1>2
  <2> QED BY <1>1, <2>1
<1>3. CASE s < h
  <2>1. s + c - h \in 0..(c - 1) /\ h + (s + c - h) = c * 1 + s
    BY <1>3
  <2> QED BY <1>1, <2>1
<1> QED BY <1>2, <1>3

\* One step back, as the index of a circular array is decremented.
LEMMA BackWraps ==
  ASSUME NEW c \in Nat \ {0}, NEW a \in Nat
  PROVE  (((a + 1) % c) + c - 1) % c = a % c
<1> DEFINE q == a \div c
           r == a % c
<1>1. q \in Nat /\ r \in 0..(c - 1) /\ a = c * q + r
  BY DivDef
<1>2. ((r + 1) % c) = (a + 1) % c
  BY StepWraps
<1> HIDE DEF q, r
<1>3. CASE r + 1 < c
  <2>1. (c * 0 + (r + 1)) % c = r + 1 /\ c * 0 + (r + 1) = r + 1
    BY <1>1, <1>3, DivUnique
  <2>2. (c * 1 + r) % c = r
    BY <1>1, DivUnique
  <2>3. (r + 1) + c - 1 = c * 1 + r
    BY <1>1
  <2> QED BY <1>2, <2>1, <2>2, <2>3 DEF r
<1>4. CASE r + 1 = c
  <2>1. (c * 1 + 0) % c = 0 /\ c * 1 + 0 = r + 1
    BY <1>4, DivUnique
  <2>2. (c * 0 + r) % c = r /\ c * 0 + r = 0 + c - 1
    BY <1>1, <1>4, DivUnique
  <2> QED BY <1>2, <2>1, <2>2 DEF r
<1> QED BY <1>1, <1>3, <1>4
-----------------------------------------------------------------------------

\* hash % capacity is a slot of the table.
LEMMA HomeInSlots ==
  ASSUME NEW k \in Keys
  PROVE  Home(k) \in Nat /\ Home(k) \in Slots
BY TableAssumption, DivDef DEF Home, Slots

\* A key at distance 0 sits at home.
LEMMA HomeFixed ==
  ASSUME NEW k \in Keys
  PROVE  (Home(k) + 0) % Cap = Home(k)
<1>1. Home(k) \in Nat /\ Home(k) < Cap /\ Cap \in Nat \ {0}
  BY HomeInSlots, TableAssumption DEF Slots
<1>2. (Cap * 0 + Home(k)) % Cap = Home(k)
  BY <1>1, DivUnique
<1> QED BY <1>1, <1>2

\* Moving on by one slot keeps "the index is the distance from home".
LEMMA AdvanceKeepsDistance ==
  ASSUME NEW k \in Keys, NEW p \in Nat, NEW i, i = (Home(k) + p) % Cap
  PROVE  (i + 1) % Cap = (Home(k) + (p + 1)) % Cap
<1>1. Home(k) + p \in Nat /\ Cap \in Nat \ {0}
  BY HomeInSlots, TableAssumption
<1>2. (((Home(k) + p) % Cap) + 1) % Cap = ((Home(k) + p) + 1) % Cap
  BY <1>1, StepWraps
<1>3. (Home(k) + p) + 1 = Home(k) + (p + 1)
  BY HomeInSlots
<1> QED BY <1>2, <1>3

\* (idx + 1) % capacity is a slot of the table.
LEMMA NextSlot ==
  ASSUME NEW i \in Slots
  PROVE  (i + 1) % Cap \in Slots
BY TableAssumption, DivDef DEF Slots
-----------------------------------------------------------------------------
(* What the probing arguments need to know of the table *)

\* Every psl is a distance, and a running SET has a slot to stop at.
Placed == TypeOK /\ PslIsDistance /\ FreeSlotDuringSet

-----------------------------------------------------------------------------
(* Probing an array of entries *)

Full(es, s) == es[s].state = "OCCUPIED"

\* The slot q steps from the home of k.
Slot(k, q) == (Home(k) + q) % Cap

\* A search for k in es passes the first p slots: none of them is empty, and
\* none holds an entry closer to its home than the search is to k's.
Reaches(es, k, p) ==
  \A q \in 0..(p - 1) : Full(es, Slot(k, q)) /\ es[Slot(k, q)].psl >= q

\* None of the first p slots holds k.
Unmatched(es, k, p) ==
  \A q \in 0..(p - 1) : Full(es, Slot(k, q)) => es[Slot(k, q)].item.key # k

\* A search for k comes to an entry that holds v, and to no other of k before.
Found(es, k, v) ==
  \E p \in Nat :
    /\ Full(es, Slot(k, p)) /\ es[Slot(k, p)].item = [key |-> k, value |-> v]
    /\ Reaches(es, k, p) /\ Unmatched(es, k, p)

\* What the turns of a SET do to an entry: it stays occupied, and its psl
\* does not fall.
Grown(es, fs) ==
  \A s \in Slots : Full(es, s) => Full(fs, s) /\ fs[s].psl >= es[s].psl

\* The probe sequence stays in the table.
LEMMA SlotInSlots ==
  ASSUME NEW k \in Keys, NEW q \in Nat
  PROVE  Slot(k, q) \in Slots
BY HomeInSlots, TableAssumption, DivDef DEF Slot, Slots

\* A table that has grown is passed as far as before.
LEMMA ReachesGrown ==
  ASSUME NEW es \in [Slots -> Entry], NEW fs \in [Slots -> Entry], Grown(es, fs),
         NEW k \in Keys, NEW p \in Nat, Reaches(es, k, p)
  PROVE  Reaches(fs, k, p)
<1> SUFFICES ASSUME NEW q \in 0..(p - 1)
             PROVE  Full(fs, Slot(k, q)) /\ fs[Slot(k, q)].psl >= q
  BY DEF Reaches
<1> DEFINE s == Slot(k, q)
<1>1. s \in Slots
  BY SlotInSlots
<1>2. Full(es, s) /\ es[s].psl >= q
  BY DEF Reaches
<1>3. Full(fs, s) /\ fs[s].psl >= es[s].psl
  BY <1>1, <1>2 DEF Grown
<1>4. es[s].psl \in Nat /\ fs[s].psl \in Nat
  BY <1>1 DEF Entry
<1> HIDE DEF s
<1>5. fs[s].psl >= q
  BY <1>2, <1>3, <1>4
<1> QED BY <1>3, <1>5 DEF s

\* Passing one slot more.
LEMMA ReachesNext ==
  ASSUME NEW es, NEW k, NEW p \in Nat, Reaches(es, k, p),
         Full(es, Slot(k, p)), es[Slot(k, p)].psl >= p
  PROVE  Reaches(es, k, p + 1)
<1> SUFFICES ASSUME NEW q \in 0..((p + 1) - 1)
             PROVE  Full(es, Slot(k, q)) /\ es[Slot(k, q)].psl >= q
  BY DEF Reaches
<1>1. CASE q = p
  BY <1>1
<1>2. CASE q # p
  <2>1. q \in 0..(p - 1)
    BY <1>2
  <2> QED BY <2>1 DEF Reaches
<1> QED BY <1>1, <1>2

\* Comparing one key more.
LEMMA UnmatchedNext ==
  ASSUME NEW es, NEW k, NEW p \in Nat, Unmatched(es, k, p),
         Full(es, Slot(k, p)) => es[Slot(k, p)].item.key # k
  PROVE  Unmatched(es, k, p + 1)
<1> SUFFICES ASSUME NEW q \in 0..((p + 1) - 1)
             PROVE  Full(es, Slot(k, q)) => es[Slot(k, q)].item.key # k
  BY DEF Unmatched
<1>1. CASE q = p
  BY <1>1
<1>2. CASE q # p
  <2>1. q \in 0..(p - 1)
    BY <1>2
  <2> QED BY <2>1 DEF Unmatched
<1> QED BY <1>1, <1>2

\* A search that has not started.
LEMMA AtHome ==
  ASSUME NEW es, NEW k
  PROVE  Reaches(es, k, 0) /\ Unmatched(es, k, 0)
BY DEF Reaches, Unmatched

\* While some slot is free no search goes round the table: it visits no slot
\* twice.
LEMMA NoSlotTwice ==
  ASSUME NEW es, NEW k \in Keys, NEW p \in Nat, Reaches(es, k, p),
         NEW f \in Slots, ~Full(es, f), NEW q \in 0..(p - 1)
  PROVE  Slot(k, q) # Slot(k, p)
<1>1. Home(k) \in 0..(Cap - 1) /\ f \in 0..(Cap - 1) /\ Cap \in Nat \ {0} /\ Home(k) \in Nat
  BY HomeInSlots, TableAssumption DEF Slots
<1>2. PICK g \in 0..(Cap - 1) : (Home(k) + g) % Cap = f
  BY <1>1, WindowCovers
<1>3. g \notin 0..(p - 1)
  BY <1>2 DEF Reaches, Slot
<1>4. p < Cap
  BY <1>1, <1>2, <1>3
<1>5. Home(k) + q \in Nat /\ Home(k) + p \in Nat /\ Home(k) + q < Home(k) + p
      /\ Home(k) + p < (Home(k) + q) + Cap
  BY <1>1, <1>4
<1> QED BY <1>1, <1>5, WindowDistinct DEF Slot
\* fs is es with the item it stored in slot x at distance p.
Writes(es, fs, x, p, it) ==
  /\ es \in [Slots -> Entry] /\ x \in Slots /\ p \in Nat /\ it \in Item
  /\ Full(es, x) => p >= es[x].psl
  /\ fs = [es EXCEPT ![x] = Stored(p, it)]

\* What that does to the table: it grows, and only in x.
Written(es, fs, x, p, it) ==
  /\ fs \in [Slots -> Entry] /\ Grown(es, fs)
  /\ Full(fs, x) /\ fs[x].psl = p /\ fs[x].item = it
  /\ \A s \in Slots : s # x => fs[s] = es[s]

\* Writing one entry leaves the others alone.
LEMMA StoreOne ==
  ASSUME NEW es, NEW fs, NEW x, NEW p, NEW it, Writes(es, fs, x, p, it)
  PROVE  Written(es, fs, x, p, it)
<1> USE DEF Writes
<1>1. Stored(p, it) \in Entry
  BY DEF Stored, Entry, States
<1>2. fs \in [Slots -> Entry] /\ fs[x] = Stored(p, it) /\ \A s \in Slots : s # x => fs[s] = es[s]
  BY <1>1
<1>3. Full(fs, x) /\ fs[x].psl = p /\ fs[x].item = it
  BY <1>2 DEF Stored, Full
<1>4. Grown(es, fs)
  <2> SUFFICES ASSUME NEW s \in Slots, Full(es, s)
               PROVE  Full(fs, s) /\ fs[s].psl >= es[s].psl
    BY DEF Grown
  <2>1. CASE s = x
    BY <1>3, <2>1
  <2>2. CASE s # x
    <3>1. es[s].psl \in Nat /\ fs[s] = es[s]
      BY <1>2, <2>2 DEF Entry
    <3> QED BY <3>1 DEF Full
  <2> QED BY <2>1, <2>2
<1> QED BY <1>2, <1>3, <1>4 DEF Written

\* A key that is found stays found when another key's entry is written, and
\* when its own is overwritten in place.
LEMMA FoundKept ==
  ASSUME NEW es, NEW fs, NEW x, NEW p, NEW it, Writes(es, fs, x, p, it),
         NEW k \in Keys, NEW v, Found(es, k, v),
         Full(es, x) /\ es[x].item.key = k => it = [key |-> k, value |-> v],
         it.key = k => Full(es, x) /\ es[x].item.key = k
  PROVE  Found(fs, k, v)
<1>0. es \in [Slots -> Entry]
  BY DEF Writes
<1>w. Written(es, fs, x, p, it)
  BY StoreOne
<1>1. /\ fs \in [Slots -> Entry] /\ Grown(es, fs)
      /\ Full(fs, x) /\ fs[x].item = it
      /\ \A s \in Slots : s # x => fs[s] = es[s]
  BY <1>w DEF Written
<1>2. PICK r \in Nat : /\ Full(es, Slot(k, r))
                       /\ es[Slot(k, r)].item = [key |-> k, value |-> v]
                       /\ Reaches(es, k, r) /\ Unmatched(es, k, r)
  BY DEF Found
<1>3. Reaches(fs, k, r)
  BY <1>0, <1>1, <1>2, ReachesGrown
<1>4. Full(fs, Slot(k, r)) /\ fs[Slot(k, r)].item = [key |-> k, value |-> v]
  <2>1. CASE Slot(k, r) = x
    BY <1>1, <1>2, <2>1
  <2>2. CASE Slot(k, r) # x
    BY <1>1, <1>2, <2>2, SlotInSlots DEF Full
  <2> QED BY <2>1, <2>2
<1>5. Unmatched(fs, k, r)
  <2> SUFFICES ASSUME NEW q \in 0..(r - 1), Full(fs, Slot(k, q))
               PROVE  fs[Slot(k, q)].item.key # k
    BY DEF Unmatched
  <2>1. Slot(k, q) \in Slots
    BY SlotInSlots
  <2>2. Full(es, Slot(k, q)) => es[Slot(k, q)].item.key # k
    BY <1>2 DEF Unmatched
  <2>3. CASE Slot(k, q) = x
    BY <1>1, <2>2, <2>3
  <2>4. CASE Slot(k, q) # x
    BY <1>1, <2>1, <2>2, <2>4 DEF Full
  <2> QED BY <2>3, <2>4
<1> QED BY <1>3, <1>4, <1>5 DEF Found

\* A key is found once it is written where its search has come to.
LEMMA FoundNew ==
  ASSUME NEW es, NEW fs, NEW x, NEW p, NEW it, Writes(es, fs, x, p, it),
         NEW k \in Keys, NEW v, it = [key |-> k, value |-> v],
         NEW r \in Nat, x = Slot(k, r), Reaches(es, k, r), Unmatched(es, k, r),
         \A q \in 0..(r - 1) : Slot(k, q) # x
  PROVE  Found(fs, k, v)
<1>0. es \in [Slots -> Entry]
  BY DEF Writes
<1>w. Written(es, fs, x, p, it)
  BY StoreOne
<1>1. /\ fs \in [Slots -> Entry] /\ Grown(es, fs)
      /\ Full(fs, x) /\ fs[x].item = it
      /\ \A s \in Slots : s # x => fs[s] = es[s]
  BY <1>w DEF Written
<1>2. Reaches(fs, k, r)
  BY <1>0, <1>1, ReachesGrown
<1>3. Unmatched(fs, k, r)
  <2> SUFFICES ASSUME NEW q \in 0..(r - 1), Full(fs, Slot(k, q))
               PROVE  fs[Slot(k, q)].item.key # k
    BY DEF Unmatched
  <2>1. Slot(k, q) \in Slots /\ Slot(k, q) # x
    BY SlotInSlots
  <2>2. fs[Slot(k, q)] = es[Slot(k, q)]
    BY <1>1, <2>1
  <2> QED BY <2>2 DEF Unmatched, Full
<1> QED BY <1>1, <1>2, <1>3 DEF Found
-----------------------------------------------------------------------------
(* What a search knows of the slots behind it, with deletions or without *)

Search ==
  /\ op = "set" /\ incoming.key = key => incoming.value = value /\ Reaches(entries, key, psl)
  /\ op = "set" /\ incoming.key # key => Found(entries, key, value)
  /\ op # "idle" /\ (op = "set" => incoming.key = key) => Unmatched(entries, key, psl)
  /\ op # "set" /\ last.op = "set" /\ last.ret = "ok" =>
       last.key \in Keys /\ Found(entries, last.key, last.value)

\* The three turns of zedis_ht_set that write an entry.
LEMMA SetWrites ==
  ASSUME TypeOK
  PROVE  /\ SetPlace => Writes(entries, entries', idx, psl, incoming)
         /\ SetOverwrite => Writes(entries, entries', idx, entries[idx].psl,
                                   [key |-> key, value |-> value])
         /\ SetSwap => Writes(entries, entries', idx, psl, incoming)
<1> USE DEF TypeOK
<1>1. entries[idx].psl \in Nat
  BY DEF Entry
<1>2. SetPlace => Writes(entries, entries', idx, psl, incoming)
  BY DEF SetPlace, Writes, Full
<1>3. [key |-> key, value |-> value] \in Item
  BY DEF Item
<1>4. SetOverwrite => Writes(entries, entries', idx, entries[idx].psl,
                             [key |-> key, value |-> value])
  BY <1>1, <1>3 DEF SetOverwrite, Writes
<1>5. SetSwap => Writes(entries, entries', idx, psl, incoming)
  BY <1>1 DEF SetSwap, Writes
<1> QED BY <1>2, <1>4, <1>5

\* Where the running call is: its keys are keys, idx is the slot psl steps
\* from home, and a SET that still carries its own item carries the arguments.
LEMMA CallPlace ==
  ASSUME Placed, Search
  PROVE  /\ entries \in [Slots -> Entry] /\ psl \in Nat /\ idx \in Slots
         /\ entries[idx].psl \in Nat
         /\ op # "idle" => key \in Keys
         /\ op = "set" => incoming.key \in Keys /\ idx = Slot(incoming.key, psl)
         /\ op \in {"get", "del"} => idx = Slot(key, psl)
         /\ op = "set" /\ incoming.key = key => incoming = [key |-> key, value |-> value]
<1>1. entries \in [Slots -> Entry] /\ psl \in Nat /\ idx \in Slots /\ (op # "idle" => key \in Keys)
      /\ incoming \in Item
  BY DEF Placed, TypeOK
<1>2. entries[idx].psl \in Nat
  BY <1>1 DEF Entry
<1>3. /\ op = "set" => incoming.key \in Keys /\ idx = Slot(incoming.key, psl)
      /\ op \in {"get", "del"} => idx = Slot(key, psl)
  BY DEF Placed, PslIsDistance, Slot
<1>4. op = "set" /\ incoming.key = key => incoming = [key |-> key, value |-> value]
  BY <1>1 DEF Search, Item
<1> QED BY <1>1, <1>2, <1>3, <1>4

\* An empty table, before the first call.
LEMMA InitSearch == Init => Search
BY DEF Init, Search

\* Every step keeps what a search knows.
LEMMA NextSearch == Placed /\ Search /\ [Next]_vars => Search'
<1> SUFFICES ASSUME Placed, Search, [Next]_vars PROVE Search'
  OBVIOUS
<1> USE CallPlace
<1>t. TypeOK
  BY DEF Placed
<1>1. ASSUME NEW k \in Keys, NEW v \in Values, SetRefuse(k, v) PROVE Search'
  BY <1>1 DEF SetRefuse, Search
<1>2. ASSUME NEW k \in Keys, NEW v \in Values, SetCall(k, v) PROVE Search'
  BY <1>2, AtHome DEF SetCall, Start, Search
<1>3. ASSUME NEW k \in Keys, NEW o \in {"get", "del"}, LookupCall(o, k) PROVE Search'
  BY <1>3, AtHome DEF LookupCall, Start, Search
<1>4. CASE SetPlace
  <2>1. op = "set" /\ ~Full(entries, idx) /\ Writes(entries, entries', idx, psl, incoming)
    BY <1>t, <1>4, SetWrites DEF SetPlace, Full
  <2>2. ASSUME incoming.key = key PROVE Found(entries', key, value)
    <3>1. Reaches(entries, key, psl) /\ Unmatched(entries, key, psl)
      BY <2>1, <2>2 DEF Search
    <3>2. \A q \in 0..(psl - 1) : Slot(key, q) # idx
      BY <2>1, <3>1 DEF Reaches
    <3> QED BY <2>1, <2>2, <3>1, <3>2, FoundNew
  <2>3. ASSUME incoming.key # key PROVE Found(entries', key, value)
    BY <2>1, <2>3, FoundKept DEF Search
  <2> QED BY <1>4, <2>1, <2>2, <2>3 DEF SetPlace, Return, Search
<1>5. CASE SetOverwrite
  <2>1. op = "set" /\ Full(entries, idx) /\ entries[idx].item.key = key
        /\ Writes(entries, entries', idx, entries[idx].psl, [key |-> key, value |-> value])
    BY <1>t, <1>5, SetWrites DEF SetOverwrite, KeyMatch, Full
  <2>2. ASSUME incoming.key = key PROVE Found(entries', key, value)
    <3>1. Reaches(entries, key, psl) /\ Unmatched(entries, key, psl)
      BY <2>1, <2>2 DEF Search
    <3>2. \A q \in 0..(psl - 1) : Slot(key, q) # idx
      BY <2>1, <3>1 DEF Unmatched
    <3> QED BY <2>1, <2>2, <3>1, <3>2, FoundNew
  <2>3. ASSUME incoming.key # key PROVE Found(entries', key, value)
    BY <2>1, <2>3, FoundKept DEF Search
  <2> QED BY <1>5, <2>1, <2>2, <2>3 DEF SetOverwrite, Return, Search
<1>6. CASE SetSwap
  <2>1. op = "set" /\ Full(entries, idx) /\ entries[idx].item.key # key
        /\ Writes(entries, entries', idx, psl, incoming)
    BY <1>t, <1>6, SetWrites DEF SetSwap, KeyMatch, Full
  <2>2. ASSUME incoming.key = key PROVE Found(entries', key, value)
    <3>1. Reaches(entries, key, psl) /\ Unmatched(entries, key, psl)
      BY <2>1, <2>2 DEF Search
    <3>2. PICK f \in Slots : ~Full(entries, f)
      BY <2>1 DEF Placed, FreeSlotDuringSet, Occupied, Full
    <3>3. \A q \in 0..(psl - 1) : Slot(key, q) # idx
      BY <2>1, <2>2, <3>1, <3>2, NoSlotTwice
    <3> QED BY <2>1, <2>2, <3>1, <3>3, FoundNew
  <2>3. ASSUME incoming.key # key PROVE Found(entries', key, value)
    BY <2>1, <2>3, FoundKept DEF Search
  <2> QED BY <1>6, <2>1, <2>2, <2>3 DEF SetSwap, Search
<1>7. CASE SetPass
  <2>1. op = "set" /\ Full(entries, idx) /\ entries[idx].item.key # key
        /\ entries[idx].psl >= psl /\ psl' = psl + 1
    BY <1>7 DEF SetPass, KeyMatch, Full, Advance
  <2>2. ASSUME incoming.key = key
        PROVE  Reaches(entries, key, psl + 1) /\ Unmatched(entries, key, psl + 1)
    BY <2>1, <2>2, ReachesNext, UnmatchedNext DEF Search
  <2> QED BY <1>7, <2>1, <2>2 DEF SetPass, Search
<1>8. CASE LookupPass
  <2>1. op \in {"get", "del"} /\ (Full(entries, idx) => entries[idx].item.key # key)
        /\ psl' = psl + 1
    BY <1>8 DEF LookupPass, KeyMatch, Full, Advance
  <2>2. Unmatched(entries, key, psl + 1)
    BY <2>1, UnmatchedNext DEF Search
  <2> QED BY <1>8, <2>1, <2>2 DEF LookupPass, Search
<1>9. CASE GetHit \/ DelHit \/ LookupMiss
  BY <1>9 DEF GetHit, DelHit, LookupMiss, Return, Search
<1>10. CASE UNCHANGED vars
  BY <1>10 DEF vars, Search
<1> QED
  BY <1>1, <1>2, <1>3, <1>4, <1>5, <1>6, <1>7, <1>8, <1>9, <1>10 DEF Next, Probe

\* The last turn of a GET that follows a successful SET of its key: the
\* search cannot end before the entry the SET wrote, and answers there.
LEMMA ReadStep ==
  Placed /\ Search /\ [Next]_vars =>
    [(op = "get" /\ op' = "idle" /\ last.op = "set" /\ last.ret = "ok"
        /\ last.key = key) => last'.ret = last.value]_vars
<1> SUFFICES ASSUME Placed, Search, [Next]_vars,
                    op = "get", op' = "idle", last.op = "set", last.ret = "ok", last.key = key
             PROVE  last'.ret = last.value
  OBVIOUS
<1>1. GetHit \/ LookupMiss
  BY DEF Next, Probe, vars, SetRefuse, SetCall, LookupCall, SetPlace, SetOverwrite,
         SetSwap, SetPass, DelHit, LookupPass
<1>2. key \in Keys /\ psl \in Nat /\ idx = Slot(key, psl) /\ entries[idx].psl \in Nat
      /\ Unmatched(entries, key, psl)
  BY CallPlace DEF Search
<1>3. PICK p \in Nat : /\ Full(entries, Slot(key, p))
                       /\ entries[Slot(key, p)].item = [key |-> key, value |-> last.value]
                       /\ Reaches(entries, key, p) /\ Unmatched(entries, key, p)
  BY DEF Search, Found
<1>4. psl <= p
  <2> SUFFICES ASSUME p < psl PROVE FALSE
    BY <1>2
  <2>1. p \in 0..(psl - 1)
    BY <1>2
  <2> QED BY <1>2, <1>3, <2>1 DEF Unmatched
<1>5. CASE psl = p
  BY <1>1, <1>2, <1>3, <1>5 DEF GetHit, LookupMiss, KeyMatch, Full, Return
<1>6. CASE psl # p
  <2>1. psl \in 0..(p - 1)
    BY <1>2, <1>4, <1>6
  <2>2. Full(entries, idx) /\ entries[idx].psl >= psl /\ entries[idx].item.key # key
    BY <1>2, <1>3, <2>1 DEF Reaches, Unmatched
  <2>3. ~KeyMatch(idx) /\ entries[idx].state # "EMPTY" /\ ~(psl > entries[idx].psl)
    BY <1>2, <2>2 DEF KeyMatch, Full
  <2> QED BY <1>1, <2>3 DEF GetHit, LookupMiss
<1> QED BY <1>5, <1>6
-----------------------------------------------------------------------------
(* A table nobody deletes from *)

Carries == op = "set" /\ incoming.key # key

\* Every entry is where a search for its key comes to, the carried one is
\* carried to where its own search leads, and no key is held twice.
Order ==
  /\ op # "del" /\ \A i \in Slots : entries[i].state # "TOMBSTONE"
  /\ \A i \in Occupied : Reaches(entries, entries[i].item.key, entries[i].psl)
  /\ op = "set" => Reaches(entries, incoming.key, psl)
  /\ \A i, j \in Occupied : entries[i].item.key = entries[j].item.key => i = j
  /\ Carries => \A i \in Occupied : entries[i].item.key # incoming.key

\* While a SET carries another key's entry, its own key was stored at i, n
\* turns ago, and every slot since then is occupied.
Run ==
  Carries => \E i \in Occupied, n \in Nat \ {0} :
    /\ entries[i].item.key = key
    /\ idx = (i + n) % Cap
    /\ \A m \in 0..(n - 1) : (i + m) % Cap \in Occupied

\* The table and the carried entry together hold what the answers say, but
\* for the key of a SET that has not answered yet.
Agrees ==
  /\ \A i \in Occupied :
       /\ entries[i].item.value \in Values
       /\ \/ Carries /\ entries[i].item.key = key
          \/ acked[entries[i].item.key] = entries[i].item.value
  /\ Carries => incoming.value \in Values /\ acked[incoming.key] = incoming.value
  /\ \A k \in Keys : acked[k] # None =>
       (\E i \in Occupied : entries[i].item.key = k) \/ (Carries /\ incoming.key = k)

OrderInv == ~Deletes => Order /\ Run /\ Agrees

\* A search that has met an empty slot, or an entry closer to its home than
\* the search is, shows that the key is not in the table.
LEMMA NotStored ==
  ASSUME Placed, Order, NEW k \in Keys, NEW p \in Nat, Unmatched(entries, k, p),
         ~(Full(entries, Slot(k, p)) /\ entries[Slot(k, p)].psl >= p),
         NEW j \in Occupied
  PROVE  entries[j].item.key # k
<1> SUFFICES ASSUME entries[j].item.key = k PROVE FALSE
  OBVIOUS
<1> DEFINE r == entries[j].psl
<1>1. r \in Nat
  BY DEF Placed, TypeOK, Entry, Occupied
<1>2. j = Slot(k, r) /\ Full(entries, j)
  BY DEF Placed, PslIsDistance, Slot, Occupied, Full
<1>3. Reaches(entries, k, r)
  BY DEF Order
<1>4. entries[j].psl = r
  OBVIOUS
<1> HIDE DEF r
<1>5. CASE r < p
  <2>1. r \in 0..(p - 1)
    BY <1>1, <1>5
  <2> QED BY <1>2, <2>1 DEF Unmatched
<1>6. CASE r = p
  BY <1>1, <1>2, <1>4, <1>6
<1>7. CASE p < r
  <2>1. p \in 0..(r - 1)
    BY <1>1, <1>7
  <2> QED BY <1>3, <2>1 DEF Reaches
<1> QED BY <1>1, <1>5, <1>6, <1>7

\* Writing an entry of a key that is nowhere else, or at home with the same
\* key, keeps the entries reachable and the keys distinct.
LEMMA WriteKeepsOrder ==
  ASSUME Placed, Order, NEW p, NEW it, Writes(entries, entries', idx, p, it),
         it.key \in Keys, Reaches(entries, it.key, p),
         \A j \in Occupied : j # idx => entries[j].item.key # it.key
  PROVE  /\ \A i \in Slots : entries'[i].state # "TOMBSTONE"
         /\ \A i \in Occupied' : Reaches(entries', entries'[i].item.key, entries'[i].psl)
         /\ \A i, j \in Occupied' : entries'[i].item.key = entries'[j].item.key => i = j
<1>1. Written(entries, entries', idx, p, it)
  BY StoreOne
<1>2. entries \in [Slots -> Entry] /\ p \in Nat /\ idx \in Slots
  BY DEF Writes
<1>3. /\ entries' \in [Slots -> Entry] /\ Grown(entries, entries')
      /\ Full(entries', idx) /\ entries'[idx].psl = p /\ entries'[idx].item = it
      /\ \A s \in Slots : s # idx => entries'[s] = entries[s]
  BY <1>1 DEF Written
<1>4. \A i \in Occupied' : i # idx => i \in Occupied /\ entries'[i] = entries[i]
  BY <1>3 DEF Occupied
<1>5. \A i \in Slots : entries'[i].state # "TOMBSTONE"
  BY <1>3 DEF Order, Full
<1>6. ASSUME NEW i \in Occupied'
      PROVE  Reaches(entries', entries'[i].item.key, entries'[i].psl)
  <2>1. CASE i = idx
    BY <1>2, <1>3, <2>1, ReachesGrown
  <2>2. CASE i # idx
    <3>1. entries[i].psl \in Nat /\ entries[i].item.key \in Keys
          /\ Reaches(entries, entries[i].item.key, entries[i].psl)
      BY <1>2, <1>4, <2>2 DEF Order, Placed, PslIsDistance, Occupied, Entry
    <3>2. Reaches(entries', entries[i].item.key, entries[i].psl)
      BY <1>2, <1>3, <3>1, ReachesGrown
    <3> QED BY <1>4, <2>2, <3>2
  <2> QED BY <2>1, <2>2
<1>7. ASSUME NEW i \in Occupied', NEW j \in Occupied',
             entries'[i].item.key = entries'[j].item.key
      PROVE  i = j
  <2>1. CASE i = idx
    BY <1>3, <1>4, <1>7, <2>1
  <2>2. CASE j = idx
    BY <1>3, <1>4, <1>7, <2>2
  <2>3. CASE i # idx /\ j # idx
    BY <1>4, <1>7, <2>3 DEF Order
  <2> QED BY <2>1, <2>2, <2>3
<1> QED BY <1>5, <1>6, <1>7

\* Until it displaces an entry, a SET that finds a free slot or a richer
\* entry has shown that its key is not stored; afterwards the carried key is
\* not.
LEMMA CarriedIsNew ==
  ASSUME Placed, Search, Order, SetPlace \/ SetSwap, NEW j \in Occupied
  PROVE  entries[j].item.key # incoming.key
<1>1. op = "set" /\ ~(Full(entries, idx) /\ entries[idx].psl >= psl)
  BY CallPlace DEF SetPlace, SetSwap, Full
<1>2. CASE incoming.key = key
  <2>1. key \in Keys /\ psl \in Nat /\ idx = Slot(key, psl) /\ Unmatched(entries, key, psl)
    BY <1>1, <1>2, CallPlace DEF Search
  <2> QED BY <1>1, <1>2, <2>1, NotStored
<1>3. CASE incoming.key # key
  BY <1>1, <1>3 DEF Order, Carries
<1> QED BY <1>2, <1>3

\* Every step keeps the order of a table nobody deletes from.
LEMMA NextOrder ==
  Placed /\ Search /\ ~Deletes /\ Order /\ [Next]_vars => Order'
<1> SUFFICES ASSUME Placed, Search, ~Deletes, Order, [Next]_vars PROVE Order'
  OBVIOUS
<1> USE CallPlace
<1>t. TypeOK
  BY DEF Placed
<1>1. ASSUME UNCHANGED entries, op' # "set", op' # "del" PROVE Order'
  BY <1>1 DEF Order, Occupied, Carries
<1>2. ASSUME NEW k \in Keys, NEW v \in Values, SetRefuse(k, v) \/ SetCall(k, v) PROVE Order'
  <2>1. CASE SetRefuse(k, v)
    BY <1>1, <2>1 DEF SetRefuse
  <2>2. CASE SetCall(k, v)
    BY <2>2, AtHome DEF SetCall, Start, Order, Occupied, Carries
  <2> QED BY <1>2, <2>1, <2>2
<1>3. ASSUME NEW k \in Keys, NEW o \in {"get", "del"}, LookupCall(o, k) PROVE Order'
  BY <1>1, <1>3 DEF LookupCall, Start, Deletes
<1>4. CASE SetPlace
  <2>1. op' = "idle" /\ op = "set" /\ Writes(entries, entries', idx, psl, incoming)
    BY <1>t, <1>4, SetWrites DEF SetPlace, Return
  <2>2. \A j \in Occupied : j # idx => entries[j].item.key # incoming.key
    BY <1>4, CarriedIsNew
  <2>3. Reaches(entries, incoming.key, psl)
    BY <2>1 DEF Order
  <2> QED BY <2>1, <2>2, <2>3, WriteKeepsOrder DEF Order, Carries
<1>5. CASE SetOverwrite
  <2> DEFINE it == [key |-> key, value |-> value]
  <2>1. op' = "idle" /\ op = "set" /\ idx \in Occupied /\ entries[idx].item.key = key
        /\ Writes(entries, entries', idx, entries[idx].psl, it)
    BY <1>t, <1>5, SetWrites DEF SetOverwrite, Return, KeyMatch, Occupied
  <2>2. it.key = key
    OBVIOUS
  <2> HIDE DEF it
  <2>3. \A j \in Occupied : j # idx => entries[j].item.key # it.key
    BY <2>1, <2>2 DEF Order
  <2>4. Reaches(entries, it.key, entries[idx].psl)
    BY <2>1, <2>2 DEF Order
  <2> QED BY <2>1, <2>2, <2>3, <2>4, WriteKeepsOrder DEF Order, Carries
<1>6. CASE SetSwap
  <2> DEFINE e == entries[idx]
  <2>1. op' = "set" /\ op = "set" /\ idx \in Occupied /\ psl > e.psl
        /\ incoming' = e.item /\ psl' = e.psl + 1 /\ key' = key
        /\ Writes(entries, entries', idx, psl, incoming)
    BY <1>t, <1>6, SetWrites DEF SetSwap, Advance, Occupied
  <2>2. \A j \in Occupied : entries[j].item.key # incoming.key
    BY <1>6, CarriedIsNew
  <2>3. Reaches(entries, incoming.key, psl)
    BY <2>1 DEF Order
  <2>4. /\ \A i \in Slots : entries'[i].state # "TOMBSTONE"
        /\ \A i \in Occupied' : Reaches(entries', entries'[i].item.key, entries'[i].psl)
        /\ \A i, j \in Occupied' : entries'[i].item.key = entries'[j].item.key => i = j
    BY <2>1, <2>2, <2>3, WriteKeepsOrder
  <2>w. Written(entries, entries', idx, psl, incoming)
    BY <2>1, StoreOne
  <2>5. /\ entries' \in [Slots -> Entry] /\ Grown(entries, entries')
        /\ Full(entries', idx) /\ entries'[idx].psl = psl /\ entries'[idx].item = incoming
        /\ \A s \in Slots : s # idx => entries'[s] = entries[s]
    BY <2>w DEF Written
  <2>6. e.psl \in Nat /\ e.item.key \in Keys /\ idx = Slot(e.item.key, e.psl)
        /\ Reaches(entries, e.item.key, e.psl)
    BY <2>1 DEF Placed, PslIsDistance, Slot, Order
  <2> HIDE DEF e
  <2>7. Reaches(entries', e.item.key, e.psl)
    BY <2>5, <2>6, ReachesGrown
  <2>8. Reaches(entries', e.item.key, e.psl + 1)
    <3>1. psl >= e.psl
      BY <2>1, <2>6
    <3> QED BY <2>5, <2>6, <2>7, <3>1, ReachesNext
  <2>9. \A i \in Occupied' : entries'[i].item.key # e.item.key
    <3> SUFFICES ASSUME NEW i \in Occupied' PROVE entries'[i].item.key # e.item.key
      OBVIOUS
    <3>1. CASE i = idx
      BY <2>1, <2>2, <2>5, <3>1 DEF e
    <3>2. CASE i # idx
      BY <2>1, <2>5, <3>2 DEF e, Order, Occupied
    <3> QED BY <3>1, <3>2
  <2> QED BY <2>1, <2>4, <2>8, <2>9 DEF Order, Carries
<1>7. CASE SetPass
  <2>1. op = "set" /\ op' = "set" /\ Full(entries, idx) /\ entries[idx].psl >= psl
        /\ psl' = psl + 1 /\ UNCHANGED <<entries, incoming, key>>
    BY <1>7 DEF SetPass, Full, Advance
  <2>2. Reaches(entries, incoming.key, psl + 1)
    BY <2>1, ReachesNext DEF Order
  <2> QED BY <2>1, <2>2 DEF Order, Occupied, Carries
<1>8. CASE DelHit \/ LookupPass \/ LookupMiss \/ GetHit
  BY <1>1, <1>8 DEF DelHit, LookupPass, LookupMiss, GetHit, Return, table, Order
<1>9. CASE UNCHANGED vars
  BY <1>9 DEF vars, Order, Occupied, Carries
<1> QED
  BY <1>2, <1>3, <1>4, <1>5, <1>6, <1>7, <1>8, <1>9 DEF Next, Probe

\* Every step keeps the run of occupied slots behind a SET.
LEMMA NextRun == Placed /\ Search /\ Run /\ [Next]_vars => Run'
<1> SUFFICES ASSUME Placed, Search, Run, [Next]_vars, Carries' PROVE Run'
  BY DEF Run
<1>c. Cap \in Nat \ {0} /\ Slots = 0..(Cap - 1)
  BY TableAssumption DEF Slots
<1>1. ASSUME SetPass \/ SetSwap, NEW i \in Occupied', NEW n \in Nat,
             entries'[i].item.key = key, idx = (i + n) % Cap,
             \A m \in 0..(n - 1) : (i + m) % Cap \in Occupied'
      PROVE  Run'
  <2>1. i \in Nat /\ idx \in Occupied' /\ idx' = (idx + 1) % Cap /\ key' = key
    BY <1>c, <1>1 DEF SetPass, SetSwap, Advance, Occupied, Stored, Placed, TypeOK
  <2>2. idx' = (i + (n + 1)) % Cap
    <3>1. i + n \in Nat /\ (i + n) + 1 = i + (n + 1)
      BY <2>1
    <3>2. (((i + n) % Cap) + 1) % Cap = ((i + n) + 1) % Cap
      BY <1>c, <3>1, StepWraps
    <3> QED BY <1>1, <2>1, <3>1, <3>2
  <2>3. \A m \in 0..((n + 1) - 1) : (i + m) % Cap \in Occupied'
    <3> SUFFICES ASSUME NEW m \in 0..((n + 1) - 1) PROVE (i + m) % Cap \in Occupied'
      OBVIOUS
    <3>1. CASE m = n
      BY <1>1, <2>1, <3>1
    <3>2. CASE m # n
      <4>1. m \in 0..(n - 1)
        BY <3>2
      <4> QED BY <1>1, <4>1
    <3> QED BY <3>1, <3>2
  <2>4. n + 1 \in Nat \ {0}
    OBVIOUS
  <2> QED BY <1>1, <2>1, <2>2, <2>3, <2>4 DEF Run
<1>2. ASSUME Carries, SetPass \/ SetSwap PROVE Run'
  <2>1. PICK i \in Occupied, n \in Nat \ {0} :
          /\ entries[i].item.key = key /\ idx = (i + n) % Cap
          /\ \A m \in 0..(n - 1) : (i + m) % Cap \in Occupied
    BY <1>2 DEF Run
  <2>2. Occupied' = Occupied
    BY <1>2 DEF SetPass, SetSwap, Occupied, Stored, Placed, TypeOK
  <2>3. entries'[i].item.key = key
    BY <1>2, <2>1 DEF SetPass, SetSwap, KeyMatch, Occupied, Placed, TypeOK
  <2> QED BY <1>1, <1>2, <2>1, <2>2, <2>3
<1>3. ASSUME ~Carries, SetSwap PROVE Run'
  <2>1. idx \in Occupied' /\ entries'[idx].item.key = key /\ idx \in Nat
    BY <1>c, <1>3 DEF SetSwap, Carries, Occupied, Stored, Placed, TypeOK
  <2>2. idx = (idx + 0) % Cap
    <3>1. idx < Cap /\ idx \in Nat
      BY <1>c DEF Placed, TypeOK
    <3>2. (Cap * 0 + idx) % Cap = idx
      BY <1>c, <3>1, DivUnique
    <3> QED BY <1>c, <3>1, <3>2
  <2> QED BY <1>1, <1>3, <2>1, <2>2
<1>4. SetPass => Carries
  BY DEF SetPass, Carries
<1>5. CASE UNCHANGED vars
  BY <1>5 DEF vars, Run, Carries, Occupied
<1>6. (\E k \in Keys, v \in Values : SetRefuse(k, v) \/ SetCall(k, v)) => FALSE
  BY DEF SetRefuse, SetCall, Start, Carries
<1>7. (\E k \in Keys, o \in {"get", "del"} : LookupCall(o, k)) => FALSE
  BY DEF LookupCall, Start, Carries
<1>8. SetPlace \/ SetOverwrite \/ GetHit \/ DelHit \/ LookupMiss \/ LookupPass => FALSE
  BY DEF SetPlace, SetOverwrite, GetHit, DelHit, LookupMiss, LookupPass, Return, Carries
<1> QED BY <1>2, <1>3, <1>4, <1>5, <1>6, <1>7, <1>8 DEF Next, Probe

\* A SET that carries another key's entry never comes back to its own key:
\* it would have gone round a table without a free slot.
LEMMA OverwriteOnlyFirst ==
  ASSUME Placed, Order, Run, SetOverwrite
  PROVE  incoming.key = key
<1> SUFFICES ASSUME incoming.key # key PROVE FALSE
  OBVIOUS
<1>c. Cap \in Nat \ {0} /\ Slots = 0..(Cap - 1)
  BY TableAssumption DEF Slots
<1>1. Carries /\ idx \in Occupied /\ entries[idx].item.key = key
  BY DEF SetOverwrite, KeyMatch, Carries, Occupied, Placed, TypeOK
<1>2. PICK i \in Occupied, n \in Nat \ {0} :
        /\ entries[i].item.key = key /\ idx = (i + n) % Cap
        /\ \A m \in 0..(n - 1) : (i + m) % Cap \in Occupied
  BY <1>1 DEF Run
<1>3. i = idx
  BY <1>1, <1>2 DEF Order
<1>4. i \in 0..(Cap - 1)
  BY <1>c DEF Occupied
<1>5. i % Cap = i
  <2>1. (Cap * 0 + i) % Cap = i
    BY <1>c, <1>4, DivUnique
  <2> QED BY <1>c, <1>4, <2>1
<1>6. ~(n < Cap)
  <2> SUFFICES ASSUME n < Cap PROVE FALSE
    OBVIOUS
  <2>1. i \in Nat /\ i + n \in Nat /\ i < i + n /\ i + n < i + Cap
    BY <1>c, <1>4
  <2>2. i % Cap # (i + n) % Cap
    BY <1>c, <2>1, WindowDistinct
  <2> QED BY <1>2, <1>3, <1>5, <2>2
<1>7. PICK f \in Slots : f \notin Occupied
  BY <1>1 DEF Placed, FreeSlotDuringSet, Carries
<1>8. PICK q \in 0..(Cap - 1) : (i + q) % Cap = f
  BY <1>c, <1>4, WindowCovers
<1>9. q \in 0..(n - 1)
  BY <1>c, <1>6
<1> QED BY <1>2, <1>7, <1>8, <1>9

\* Every step keeps the table and the answers together.
LEMMA NextAgrees ==
  Placed /\ Search /\ ~Deletes /\ Order /\ Run /\ Agrees /\ [Next]_vars => Agrees'
<1> SUFFICES ASSUME Placed, Search, ~Deletes, Order, Run, Agrees, [Next]_vars
             PROVE  Agrees'
  OBVIOUS
<1> USE CallPlace
<1>t. TypeOK /\ acked \in [Keys -> Values \cup {None}]
  BY DEF Placed, TypeOK
<1>k. \A i \in Occupied : entries[i].item.key \in Keys
  BY DEF Placed, PslIsDistance
<1>1. ASSUME UNCHANGED <<entries, acked>>, ~Carries, ~Carries' PROVE Agrees'
  BY <1>1 DEF Agrees, Occupied
<1>2. ASSUME NEW k \in Keys, NEW v \in Values, SetRefuse(k, v) \/ SetCall(k, v) PROVE Agrees'
  <2>1. ~Carries /\ ~Carries' /\ UNCHANGED <<entries, acked>>
    BY <1>2 DEF SetRefuse, SetCall, Start, Carries
  <2> QED BY <1>1, <2>1
<1>3. ASSUME NEW k \in Keys, NEW o \in {"get", "del"}, LookupCall(o, k) PROVE Agrees'
  BY <1>1, <1>3 DEF LookupCall, Start, Carries
<1>4. CASE SetPlace
  <2>1. op = "set" /\ idx \notin Occupied /\ ~Carries' /\ acked' = [acked EXCEPT ![key] = value]
        /\ Writes(entries, entries', idx, psl, incoming) /\ value \in Values
    BY <1>t, <1>4, SetWrites DEF SetPlace, Return, Carries, Occupied, TypeOK
  <2>w. Written(entries, entries', idx, psl, incoming)
    BY <2>1, StoreOne
  <2>2. Full(entries', idx) /\ entries'[idx].item = incoming
        /\ \A s \in Slots : s # idx => entries'[s] = entries[s]
    BY <2>w DEF Written
  <2>3. Occupied' = Occupied \cup {idx} /\ \A i \in Occupied : entries'[i] = entries[i]
    BY <2>1, <2>2 DEF Occupied, Full
  <2>4. incoming.value \in Values /\ acked'[incoming.key] = incoming.value
    <3>1. CASE Carries
      BY <1>t, <2>1, <3>1 DEF Carries, Agrees
    <3>2. CASE ~Carries
      BY <1>t, <2>1, <3>2 DEF Carries, Search
    <3> QED BY <3>1, <3>2
  <2>5. ASSUME NEW i \in Occupied
        PROVE  entries[i].item.value \in Values
               /\ acked'[entries[i].item.key] = entries[i].item.value
    <3>1. CASE entries[i].item.key # key
      BY <1>t, <1>k, <2>1, <3>1 DEF Agrees
    <3>2. CASE entries[i].item.key = key
      <4>1. Carries
        BY <1>4, <2>1, <3>2, CarriedIsNew DEF Carries
      <4>2. PICK j \in Occupied : entries[j].item = [key |-> key, value |-> value]
        BY <4>1, SlotInSlots DEF Carries, Search, Found, Occupied, Full
      <4>3. i = j
        BY <3>2, <4>2 DEF Order
      <4> QED BY <1>t, <1>k, <2>1, <3>2, <4>2, <4>3
    <3> QED BY <3>1, <3>2
  <2>6. ASSUME NEW k \in Keys, acked'[k] # None
        PROVE  \E i \in Occupied' : entries'[i].item.key = k
    <3>1. CASE k = incoming.key
      BY <2>2, <2>3, <3>1
    <3>2. CASE k # incoming.key /\ k = key
      <4>1. Carries
        BY <2>1, <3>2 DEF Carries
      <4>2. PICK j \in Occupied : entries[j].item = [key |-> key, value |-> value]
        BY <4>1, SlotInSlots DEF Carries, Search, Found, Occupied, Full
      <4> QED BY <2>3, <3>2, <4>2
    <3>3. CASE k # incoming.key /\ k # key
      <4>1. acked[k] # None
        BY <1>t, <2>1, <2>6, <3>3
      <4>2. PICK j \in Occupied : entries[j].item.key = k
        BY <3>3, <4>1 DEF Agrees
      <4> QED BY <2>3, <4>2
    <3> QED BY <3>1, <3>2, <3>3
  <2> QED BY <2>1, <2>2, <2>3, <2>4, <2>5, <2>6 DEF Agrees
<1>5. CASE SetOverwrite
  <2> DEFINE it == [key |-> key, value |-> value]
  <2>1. op = "set" /\ idx \in Occupied /\ entries[idx].item.key = key /\ ~Carries'
        /\ acked' = [acked EXCEPT ![key] = value] /\ value \in Values
        /\ Writes(entries, entries', idx, entries[idx].psl, it)
    BY <1>t, <1>5, SetWrites
       DEF SetOverwrite, Return, Carries, Occupied, KeyMatch, TypeOK
  <2>w. Written(entries, entries', idx, entries[idx].psl, it)
    BY <2>1, StoreOne
  <2>2. Full(entries', idx) /\ entries'[idx].item = it
        /\ \A s \in Slots : s # idx => entries'[s] = entries[s]
    BY <2>w DEF Written
  <2>3. it.key = key /\ it.value = value
    OBVIOUS
  <2> HIDE DEF it
  <2>4. Occupied' = Occupied /\ \A i \in Occupied : i # idx => entries'[i] = entries[i]
    BY <2>1, <2>2 DEF Occupied, Full
  <2>5. ~Carries
    BY <1>5, OverwriteOnlyFirst DEF Carries
  <2>6. ASSUME NEW i \in Occupied
        PROVE  entries'[i].item.value \in Values
               /\ acked'[entries'[i].item.key] = entries'[i].item.value
    <3>1. CASE i = idx
      BY <1>t, <2>1, <2>2, <2>3, <3>1
    <3>2. CASE i # idx
      <4>1. entries[i].item.key # key
        BY <2>1, <3>2 DEF Order
      <4> QED BY <1>t, <1>k, <2>1, <2>4, <2>5, <3>2, <4>1 DEF Agrees
    <3> QED BY <3>1, <3>2
  <2>7. ASSUME NEW k \in Keys, acked'[k] # None
        PROVE  \E i \in Occupied' : entries'[i].item.key = k
    <3>1. CASE k = key
      BY <2>1, <2>2, <2>3, <2>4, <3>1
    <3>2. CASE k # key
      <4>1. acked[k] # None
        BY <1>t, <2>1, <2>7, <3>2
      <4>2. PICK j \in Occupied : entries[j].item.key = k
        BY <2>5, <4>1 DEF Agrees
      <4> QED BY <2>1, <2>4, <3>2, <4>2
    <3> QED BY <3>1, <3>2
  <2> QED BY <2>1, <2>4, <2>6, <2>7 DEF Agrees
<1>6. CASE SetSwap
  <2> DEFINE e == entries[idx]
  <2>1. op = "set" /\ op' = "set" /\ key' = key /\ incoming' = e.item /\ acked' = acked
        /\ idx \in Occupied /\ e.item.key # key
        /\ Writes(entries, entries', idx, psl, incoming) /\ value \in Values
    BY <1>t, <1>6, SetWrites DEF SetSwap, KeyMatch, Occupied, TypeOK
  <2>w. Written(entries, entries', idx, psl, incoming)
    BY <2>1, StoreOne
  <2>2. Full(entries', idx) /\ entries'[idx].item = incoming
        /\ \A s \in Slots : s # idx => entries'[s] = entries[s]
    BY <2>w DEF Written
  <2>3. Occupied' = Occupied /\ \A i \in Occupied : i # idx => entries'[i] = entries[i]
    BY <2>1, <2>2 DEF Occupied, Full
  <2>4. Carries'
    BY <2>1 DEF Carries
  <2>5. e.item.value \in Values /\ acked[e.item.key] = e.item.value
    BY <2>1 DEF Agrees
  <2> HIDE DEF e
  <2>6. ASSUME NEW i \in Occupied
        PROVE  /\ entries'[i].item.value \in Values
               /\ \/ entries'[i].item.key = key
                  \/ acked[entries'[i].item.key] = entries'[i].item.value
    <3>1. CASE i = idx /\ Carries
      BY <2>2, <3>1 DEF Agrees
    <3>2. CASE i = idx /\ ~Carries
      BY <2>1, <2>2, <3>2 DEF Carries, Search
    <3>3. CASE i # idx
      BY <2>3, <3>3 DEF Agrees
    <3> QED BY <3>1, <3>2, <3>3
  <2>7. ASSUME NEW k \in Keys, acked[k] # None
        PROVE  (\E i \in Occupied : entries'[i].item.key = k) \/ e.item.key = k
    <3>1. CASE Carries /\ incoming.key = k
      BY <2>1, <2>2, <3>1
    <3>2. CASE ~(Carries /\ incoming.key = k)
      <4>1. PICK j \in Occupied : entries[j].item.key = k
        BY <2>7, <3>2 DEF Agrees
      <4> QED BY <2>3, <4>1 DEF e
    <3> QED BY <3>1, <3>2
  <2> QED BY <2>1, <2>3, <2>4, <2>5, <2>6, <2>7 DEF Agrees
<1>7. CASE SetPass
  BY <1>7 DEF SetPass, Agrees, Carries, Occupied
<1>8. CASE GetHit \/ DelHit \/ LookupMiss \/ LookupPass
  BY <1>1, <1>8 DEF GetHit, DelHit, LookupMiss, LookupPass, Return, table, Carries, Order
<1>9. CASE UNCHANGED vars
  BY <1>9 DEF vars, Agrees, Occupied, Carries
<1> QED
  BY <1>2, <1>3, <1>4, <1>5, <1>6, <1>7, <1>8, <1>9 DEF Next, Probe

\* An empty table is in order.
LEMMA InitOrder == Init => OrderInv
<1> SUFFICES ASSUME Init PROVE Order /\ Run /\ Agrees
  BY DEF OrderInv
<1>1. Occupied = {} /\ op = "idle" /\ \A i \in Slots : entries[i].state # "TOMBSTONE"
  BY DEF Init, Occupied, Vacant
<1>2. \A k \in Keys : acked[k] = None
  BY DEF Init
<1> QED BY <1>1, <1>2 DEF Order, Run, Agrees, Carries

\* Nobody starts to delete from a table that is not deleted from.
LEMMA OwnerFixed == [Next]_vars => owner' = owner
BY DEF Next, vars, SetRefuse, SetCall, Start, LookupCall, Probe, SetPlace, SetOverwrite,
       SetSwap, SetPass, GetHit, DelHit, LookupMiss, LookupPass, Return, Advance

\* A GET of a table nobody deletes from returns what the answers say.
LEMMA GetAnswers ==
  ASSUME Placed, Search, Order, Agrees, op = "get"
  PROVE  /\ GetHit => entries[idx].item.value = acked[key]
         /\ LookupMiss => acked[key] = None
<1>1. key \in Keys /\ psl \in Nat /\ idx \in Slots /\ idx = Slot(key, psl)
      /\ entries[idx].psl \in Nat /\ Unmatched(entries, key, psl) /\ ~Carries
  BY CallPlace DEF Search, Carries
<1>2. ASSUME GetHit PROVE entries[idx].item.value = acked[key]
  <2>1. idx \in Occupied /\ entries[idx].item.key = key
    BY <1>1, <1>2 DEF GetHit, KeyMatch, Occupied
  <2> QED BY <1>1, <2>1 DEF Agrees
<1>3. ASSUME LookupMiss PROVE acked[key] = None
  <2>1. ~(Full(entries, Slot(key, psl)) /\ entries[Slot(key, psl)].psl >= psl)
    BY <1>1, <1>3 DEF LookupMiss, Full
  <2>2. \A j \in Occupied : entries[j].item.key # key
    BY <1>1, <2>1, NotStored
  <2> QED BY <1>1, <2>2 DEF Agrees
<1> QED BY <1>2, <1>3

\* The slot before an entry away from home is on the entry's own search.
LEMMA OrderIsRobinHood ==
  ASSUME Placed, OrderInv
  PROVE  RobinHoodOrder
<1> SUFFICES ASSUME Order PROVE RobinHoodOrder
  BY DEF OrderInv, RobinHoodOrder
<1>c. Cap \in Nat \ {0}
  BY TableAssumption
<1>1. ASSUME NEW i \in Occupied, entries[i].psl > 0
      PROVE  LET j == (i + Cap - 1) % Cap
             IN  j \in Occupied /\ entries[j].psl + 1 >= entries[i].psl
  <2> DEFINE k == entries[i].item.key
             p == entries[i].psl - 1
             h == Home(k)
  <2>1. k \in Keys /\ p \in Nat /\ entries[i].psl = p + 1 /\ i = (h + (p + 1)) % Cap
    BY <1>1 DEF Placed, TypeOK, PslIsDistance, Entry, Occupied
  <2>2. h \in Nat
    BY <2>1, HomeInSlots
  <2>3. Reaches(entries, k, p + 1)
    BY <2>1 DEF Order
  <2> HIDE DEF k, p, h
  <2>4. p \in 0..((p + 1) - 1)
    BY <2>1
  <2>5. Full(entries, Slot(k, p)) /\ entries[Slot(k, p)].psl >= p
    BY <2>3, <2>4 DEF Reaches
  <2>6. (i + Cap - 1) % Cap = Slot(k, p)
    <3>1. h + p \in Nat /\ h + (p + 1) = (h + p) + 1
      BY <2>1, <2>2
    <3>2. ((((h + p) + 1) % Cap) + Cap - 1) % Cap = (h + p) % Cap
      BY <1>c, <3>1, BackWraps
    <3> QED BY <2>1, <3>1, <3>2 DEF Slot, h
  <2>7. Slot(k, p) \in Slots
    BY <2>1, SlotInSlots
  <2>8. entries[Slot(k, p)].psl \in Nat
    BY <2>7 DEF Placed, TypeOK, Entry
  <2>9. entries[Slot(k, p)].psl + 1 >= entries[i].psl
    BY <2>1, <2>5, <2>8
  <2> QED BY <2>5, <2>6, <2>7, <2>9 DEF Occupied, Full
<1> QED BY <1>1 DEF RobinHoodOrder, Order, Carries
=============================================================================
