-------------------------- MODULE HashTableProofs --------------------------
(***************************************************************************)
(* For every capacity, hash function, set of keys and use of the table:    *)
(* the count is exact, a SET always has a slot to stop at, every psl is    *)
(* the distance from home, and a GET reads the write before it.  A table   *)
(* nobody deletes from is in Robin Hood order and refines the map.         *)
(***************************************************************************)
EXTENDS RobinHood, FiniteSetTheorems

-----------------------------------------------------------------------------
(* The inductive invariant *)

\* The load check of zedis_ht_set still holds while its loop runs: only the
\* last turn changes the count.
BelowLoadLimit == op = "set" => ~AtLoadLimit

TableInv == TypeOK /\ CountIsOccupied /\ BelowLoadLimit /\ PslIsDistance

\* The occupied entries can be counted.
LEMMA OccupiedFinite == IsFiniteSet(Occupied) /\ Cardinality(Occupied) \in Nat
<1>1. IsFiniteSet(Slots)
  BY TableAssumption, FS_Interval DEF Slots
<1>2. Occupied \subseteq Slots
  BY DEF Occupied
<1> QED BY <1>1, <1>2, FS_Subset, FS_CardinalityType

\* A table as zedis_ht_init leaves it satisfies the invariant.
LEMMA InitInv == Init => TableInv
<1> SUFFICES ASSUME Init PROVE TableInv
  OBVIOUS
<1>1. TypeOK
  BY TableAssumption DEF Init, TypeOK, Vacant, NoItem, Item, Entry, States, Slots
<1>2. Occupied = {}
  BY DEF Init, Occupied, Vacant
<1>3. CountIsOccupied
  BY <1>2, FS_EmptySet DEF Init, CountIsOccupied
<1>4. BelowLoadLimit /\ PslIsDistance
  BY <1>2 DEF Init, BelowLoadLimit, PslIsDistance
<1> QED BY <1>1, <1>3, <1>4 DEF TableInv

\* The types, but for the count, survive every step.
LEMMA NextTypes == TypeOK /\ [Next]_vars /\ count' \in Nat => TypeOK'
<1> SUFFICES ASSUME TypeOK, [Next]_vars, count' \in Nat PROVE TypeOK'
  OBVIOUS
<1> USE TableAssumption DEF TypeOK, Item, Entry, States
<1>1. ASSUME NEW k \in Keys, NEW v \in Values, SetRefuse(k, v) PROVE TypeOK'
  BY <1>1 DEF SetRefuse
<1>2. ASSUME NEW k \in Keys, NEW v \in Values, SetCall(k, v) PROVE TypeOK'
  BY <1>2, HomeInSlots DEF SetCall, Start
<1>3. ASSUME NEW k \in Keys, NEW o \in {"get", "del"}, LookupCall(o, k) PROVE TypeOK'
  BY <1>3, HomeInSlots DEF LookupCall, Start
<1>4. CASE SetPlace
  BY <1>4 DEF SetPlace, Return, NoItem, Slots, Stored
<1>5. CASE SetOverwrite
  BY <1>5 DEF SetOverwrite, Return, NoItem, Slots, KeyMatch, Stored
<1>6. CASE SetSwap
  BY <1>6, NextSlot DEF SetSwap, Advance, Stored
<1>7. CASE SetPass
  BY <1>7, NextSlot DEF SetPass, Advance
<1>8. CASE GetHit
  BY <1>8 DEF GetHit, Return, NoItem, Slots
<1>9. CASE DelHit
  BY <1>9 DEF DelHit, Return, NoItem, Slots, Vacant
<1>10. CASE LookupMiss
  BY <1>10 DEF LookupMiss, Return, NoItem, Slots, table
<1>11. CASE LookupPass
  BY <1>11, NextSlot DEF LookupPass, Advance
<1>12. CASE UNCHANGED vars
  BY <1>12 DEF vars
<1> QED
  BY <1>1, <1>2, <1>3, <1>4, <1>5, <1>6, <1>7, <1>8, <1>9, <1>10, <1>11, <1>12
     DEF Next, Probe

\* Inserting, overwriting and deleting move the count with the occupied set.
LEMMA NextCount ==
  TypeOK /\ CountIsOccupied /\ [Next]_vars => CountIsOccupied' /\ count' \in Nat
<1> SUFFICES ASSUME TypeOK, CountIsOccupied, [Next]_vars
             PROVE  CountIsOccupied' /\ count' \in Nat
  OBVIOUS
<1> USE DEF CountIsOccupied
<1>1. ASSUME UNCHANGED <<entries, count>> PROVE CountIsOccupied' /\ count' \in Nat
  BY <1>1 DEF Occupied, TypeOK
<1>2. CASE SetPlace
  <2>1. idx \notin Occupied /\ Occupied' = Occupied \cup {idx}
    BY <1>2 DEF SetPlace, Occupied, TypeOK, Stored
  <2>2. Cardinality(Occupied') = Cardinality(Occupied) + 1
    BY <2>1, OccupiedFinite, FS_AddElement
  <2> QED BY <1>2, <2>2 DEF SetPlace, TypeOK
<1>3. CASE SetOverwrite
  <2>1. Occupied' = Occupied
    BY <1>3 DEF SetOverwrite, KeyMatch, Occupied, TypeOK, Stored
  <2> QED BY <1>3, <2>1 DEF SetOverwrite, TypeOK
<1>4. CASE SetSwap
  <2>1. Occupied' = Occupied
    BY <1>4 DEF SetSwap, Occupied, TypeOK, Stored
  <2> QED BY <1>4, <2>1 DEF SetSwap, TypeOK
<1>5. CASE DelHit
  <2>1. idx \in Occupied /\ Occupied' = Occupied \ {idx}
    BY <1>5 DEF DelHit, KeyMatch, Occupied, TypeOK, Vacant
  <2>2. Cardinality(Occupied') = Cardinality(Occupied) - 1
        /\ Cardinality(Occupied') \in Nat
    BY <2>1, OccupiedFinite, FS_RemoveElement, FS_CardinalityType
  <2> QED BY <1>5, <2>2 DEF DelHit
<1> QED
  BY <1>1, <1>2, <1>3, <1>4, <1>5
     DEF Next, Probe, SetRefuse, SetCall, LookupCall, SetPass, GetHit, LookupMiss,
         LookupPass, table, vars

\* The loop of a SET leaves the count alone until its last turn.
LEMMA NextLoad == BelowLoadLimit /\ [Next]_vars => BelowLoadLimit'
BY DEF BelowLoadLimit, AtLoadLimit, Next, vars, SetRefuse, SetCall, Start, LookupCall,
       Probe, SetPlace, SetOverwrite, SetSwap, SetPass, GetHit, DelHit, LookupMiss,
       LookupPass, Return, table

\* Placing, displacing and advancing keep every psl a distance from home.
LEMMA NextDistance ==
  TypeOK /\ PslIsDistance /\ [Next]_vars => PslIsDistance'
<1> SUFFICES ASSUME TypeOK, PslIsDistance, [Next]_vars PROVE PslIsDistance'
  OBVIOUS
<1>1. ASSUME NEW k \in Keys, NEW v \in Values, SetRefuse(k, v) PROVE PslIsDistance'
  BY <1>1 DEF SetRefuse, PslIsDistance, Occupied, Home
<1>2. ASSUME NEW k \in Keys, NEW v \in Values, SetCall(k, v) PROVE PslIsDistance'
  BY <1>2, HomeFixed DEF SetCall, Start, PslIsDistance, Occupied
<1>3. ASSUME NEW k \in Keys, NEW o \in {"get", "del"}, LookupCall(o, k) PROVE PslIsDistance'
  BY <1>3, HomeFixed DEF LookupCall, Start, PslIsDistance, Occupied
<1>4. CASE SetPlace
  BY <1>4 DEF SetPlace, Return, Stored, PslIsDistance, Occupied, TypeOK
<1>5. CASE SetOverwrite
  BY <1>5 DEF SetOverwrite, KeyMatch, Return, Stored, PslIsDistance, Occupied, TypeOK
<1>6. CASE SetSwap
  <2> DEFINE e == entries[idx]
  <2>1. e.item.key \in Keys /\ idx = (Home(e.item.key) + e.psl) % Cap /\ e.psl \in Nat
    BY <1>6 DEF SetSwap, PslIsDistance, Occupied, TypeOK, Entry
  <2>2. (idx + 1) % Cap = (Home(e.item.key) + (e.psl + 1)) % Cap
    BY <2>1, AdvanceKeepsDistance
  <2>3. incoming' = e.item /\ psl' = e.psl + 1 /\ idx' = (idx + 1) % Cap /\ op' = "set"
    BY <1>6 DEF SetSwap, Advance
  <2>4. \A i \in Occupied' :
          entries'[i].item.key \in Keys
          /\ i = (Home(entries'[i].item.key) + entries'[i].psl) % Cap
    BY <1>6 DEF SetSwap, Stored, PslIsDistance, Occupied, TypeOK
  <2> QED BY <2>1, <2>2, <2>3, <2>4 DEF PslIsDistance, Occupied, Home
<1>7. CASE SetPass \/ LookupPass
  <2> DEFINE k == IF op = "set" THEN incoming.key ELSE key
  <2>1. k \in Keys /\ idx = (Home(k) + psl) % Cap /\ psl \in Nat
    BY <1>7 DEF SetPass, LookupPass, PslIsDistance, TypeOK
  <2>2. (idx + 1) % Cap = (Home(k) + (psl + 1)) % Cap
    BY <2>1, AdvanceKeepsDistance
  <2> QED BY <1>7, <2>1, <2>2 DEF SetPass, LookupPass, Advance, PslIsDistance, Occupied, Home
<1>8. CASE DelHit
  BY <1>8 DEF DelHit, Return, Vacant, PslIsDistance, Occupied, TypeOK
<1>9. CASE GetHit \/ LookupMiss
  BY <1>9 DEF GetHit, LookupMiss, table, Return, PslIsDistance, Occupied, Home
<1>10. CASE UNCHANGED vars
  BY <1>10 DEF vars, PslIsDistance, Occupied, Home
<1> QED
  BY <1>1, <1>2, <1>3, <1>4, <1>5, <1>6, <1>7, <1>8, <1>9, <1>10 DEF Next, Probe

\* Every step keeps the invariant.
LEMMA NextInv == TableInv /\ [Next]_vars => TableInv'
BY NextTypes, NextCount, NextLoad, NextDistance DEF TableInv

\* Below the load limit some slot is not occupied.
LEMMA FreeSlot == TableInv => FreeSlotDuringSet
<1> SUFFICES ASSUME TableInv, op = "set", Slots \subseteq Occupied PROVE FALSE
  BY DEF FreeSlotDuringSet
<1>1. Occupied = Slots
  BY DEF Occupied
<1>2. Cardinality(Slots) = Cap
  BY TableAssumption, FS_Interval DEF Slots
<1>3. count = Cap /\ count * 10 < Cap * 7
  BY <1>1, <1>2, TableAssumption
     DEF TableInv, CountIsOccupied, BelowLoadLimit, AtLoadLimit, TypeOK
<1> QED BY <1>3, TableAssumption

\* The invariant holds in every reachable state.
LEMMA TableInvariant == Spec => []TableInv
BY InitInv, NextInv, PTL DEF Spec

\* What the probing arguments of RobinHood start from.
LEMMA TablePlaced == TableInv => Placed
BY FreeSlot DEF TableInv, Placed

\* What a search knows holds in every reachable state.
LEMMA SearchInvariant == Spec => [](TableInv /\ Search)
<1>1. TableInv /\ Search /\ [Next]_vars => Search'
  BY TablePlaced, NextSearch
<1> QED BY <1>1, InitInv, InitSearch, NextInv, PTL DEF Spec

\* So does the order of a table nobody deletes from.
LEMMA OrderInvariant == Spec => [](TableInv /\ Search /\ OrderInv)
<1>1. TableInv /\ Search /\ OrderInv /\ [Next]_vars => OrderInv'
  BY TablePlaced, OwnerFixed, NextOrder, NextRun, NextAgrees DEF OrderInv, Deletes
<1> QED BY <1>1, SearchInvariant, InitOrder, PTL DEF Spec

\* Between two calls the count is the number of distinct keys that hold a
\* value: the load limit counts keys.
LEMMA CountIsHeld ==
  ASSUME TableInv, Order, Agrees, op = "idle"
  PROVE  count = Cardinality({k \in Keys : acked[k] # None})
<1> DEFINE held == {k \in Keys : acked[k] # None}
           f == [i \in Occupied |-> entries[i].item.key]
<1>1. \A i \in Occupied : entries[i].item.key \in held
  <2> SUFFICES ASSUME NEW i \in Occupied PROVE entries[i].item.key \in held
    OBVIOUS
  <2>1. entries[i].item.key \in Keys
    BY DEF TableInv, PslIsDistance
  <2>2. entries[i].item.value \in Values /\ acked[entries[i].item.key] = entries[i].item.value
    BY DEF Agrees, Carries
  <2> QED BY <2>1, <2>2, TableAssumption
<1>2. \A k \in held : \E i \in Occupied : entries[i].item.key = k
  BY DEF Agrees, Carries
<1> HIDE DEF held
<1>3. f \in [Occupied -> held]
  BY <1>1
<1>4. \A i, j \in Occupied : f[i] = f[j] => i = j
  BY DEF Order
<1>5. \A k \in held : \E i \in Occupied : f[i] = k
  BY <1>2
<1> HIDE DEF f
<1>6. ExistsBijection(Occupied, held)
  BY <1>3, <1>4, <1>5
     DEF ExistsBijection, Bijection, Injection, IsInjective, Surjection
<1>7. Cardinality(held) = Cardinality(Occupied)
  BY <1>6, OccupiedFinite, FS_Bijection
<1> QED BY <1>7 DEF held, TableInv, CountIsOccupied

\* Seen through its answers the table refines the map: a call and a refusal
\* are its calls, the turn that returns is its Set or Get, and every other
\* turn of the loops, displacements included, is invisible.
LEMMA StepRefines ==
  TableInv /\ Search /\ OrderInv /\ [Next]_vars => [Map!Next]_(Map!vars)
<1> SUFFICES ASSUME TableInv, Search, OrderInv, [Next]_vars PROVE [Map!Next]_(Map!vars)
  OBVIOUS
<1>p. Placed
  BY TablePlaced
<1>o. Deletes' = Deletes
  BY OwnerFixed DEF Deletes
<1>d. CASE Deletes
  BY <1>o, <1>d DEF Map!vars
<1>n. CASE ~Deletes
  <2>o. Order /\ Agrees
    BY <1>n DEF OrderInv
  <2>1. ASSUME UNCHANGED <<op, key, value, last, acked>> PROVE UNCHANGED Map!vars
    BY <1>o, <1>n, <2>1 DEF Map!vars
  <2>2. ASSUME NEW k \in Keys, NEW v \in Values, SetRefuse(k, v) PROVE Map!Refuse(k, v)
    <3>1. AtLoadLimit => Cardinality({x \in Keys : acked[x] # None}) * 10 >= Cap * 7
      BY <2>2, <2>o, CountIsHeld DEF SetRefuse, AtLoadLimit
    <3>2. Map!Held = {x \in Keys : acked[x] # None}
      BY <1>n DEF Map!Held
    <3>3. Map!Cardinality(Map!Held) = Cardinality(Map!Held)
      BY DEF Map!Cardinality, Cardinality
    <3>4. k \in LongKeys \/ v \in LongValues \/ Map!Cardinality(Map!Held) * 10 >= Cap * 7
      BY <2>2, <3>1, <3>2, <3>3 DEF SetRefuse
    <3> QED BY <1>o, <1>n, <2>2, <3>4 DEF SetRefuse, Map!Refuse
  <2>3. ASSUME NEW k \in Keys, NEW v \in Values, SetCall(k, v) PROVE Map!Call("set", k, v)
    BY <1>o, <1>n, <2>3 DEF SetCall, Start, Map!Call
  <2>4. ASSUME NEW k \in Keys, NEW o \in {"get", "del"}, LookupCall(o, k)
        PROVE  Map!Call(o, k, None)
    BY <1>o, <1>n, <2>4 DEF LookupCall, Start, Map!Call
  <2>5. CASE SetPlace \/ SetOverwrite
    <3>1. Map!Set
      BY <1>o, <1>n, <2>5
         DEF SetPlace, SetOverwrite, Return, Map!Set, Map!Answer, Map!NoReq
    <3> QED BY <3>1 DEF Map!Next
  <2>6. CASE SetSwap \/ SetPass \/ LookupPass
    BY <2>1, <2>6 DEF SetSwap, SetPass, LookupPass
  <2>7. CASE GetHit
    <3>1. entries[idx].item.value = acked[key]
      BY <2>o, <2>7, <1>p, GetAnswers DEF GetHit
    <3>2. Map!Get
      BY <1>o, <1>n, <2>7, <3>1 DEF GetHit, Return, Map!Get, Map!Answer, Map!NoReq
    <3> QED BY <3>2 DEF Map!Next
  <2>8. CASE LookupMiss
    <3>0. op = "get"
      BY <2>o, <2>8 DEF LookupMiss, Order
    <3>1. acked[key] = None
      BY <2>o, <2>8, <3>0, <1>p, GetAnswers
    <3>2. Map!Get
      BY <1>o, <1>n, <2>8, <3>0, <3>1 DEF LookupMiss, Return, Map!Get, Map!Answer, Map!NoReq
    <3> QED BY <3>2 DEF Map!Next
  <2>9. CASE DelHit
    BY <2>o, <2>9 DEF DelHit, Order
  <2>10. CASE UNCHANGED vars
    BY <2>1, <2>10 DEF vars
  <2> QED
    BY <2>2, <2>3, <2>4, <2>5, <2>6, <2>7, <2>8, <2>9, <2>10 DEF Next, Probe, Map!Next
<1> QED BY <1>d, <1>n
-----------------------------------------------------------------------------
\* Every reachable state of the table and of the running call is well typed.
THEOREM TypeCorrect == Spec => []TypeOK
<1>1. TableInv => TypeOK
  BY DEF TableInv
<1> QED BY <1>1, TableInvariant, PTL

\* ht->count is the number of occupied entries; it never wraps below zero.
THEOREM CountExact == Spec => []CountIsOccupied
<1>1. TableInv => CountIsOccupied
  BY DEF TableInv
<1> QED BY <1>1, TableInvariant, PTL

\* The unbounded loop of zedis_ht_set always has a slot to stop at, for every
\* capacity: 10 * count < 7 * capacity leaves one that is not occupied.
THEOREM SetHasFreeSlot == Spec => []FreeSlotDuringSet
BY FreeSlot, TableInvariant, PTL

\* Every stored and carried psl is the distance from the entry's home slot.
THEOREM PslExact == Spec => []PslIsDistance
<1>1. TableInv => PslIsDistance
  BY DEF TableInv
<1> QED BY <1>1, TableInvariant, PTL

\* A GET that directly follows a successful SET of its key answers with the
\* value just set, for every table, with deletions and tombstones too.
THEOREM ReadsItsWrite == Spec => ReadYourWrite
<1>1. TableInv /\ Search /\ [Next]_vars =>
        [(op = "get" /\ op' = "idle" /\ last.op = "set" /\ last.ret = "ok"
            /\ last.key = key) => last'.ret = last.value]_vars
  BY TablePlaced, ReadStep
<1> QED BY <1>1, SearchInvariant, PTL DEF Spec, ReadYourWrite

\* Robin Hood order, on which the early exit of the lookups rests, and no key
\* twice: for every table nobody deletes from, of every capacity.
THEOREM RobinHoodOrdered == Spec => []RobinHoodOrder
<1>1. TableInv /\ Search /\ OrderInv => RobinHoodOrder
  BY TablePlaced, OrderIsRobinHood
<1> QED BY <1>1, OrderInvariant, PTL

\* Without deletions zedis_ht_set and zedis_ht_get answer like a map, for every
\* capacity, hash function and set of keys.
THEOREM TableIsMap == Spec => MapSpec
<1>1. Init => Map!Init
  BY DEF Init, Map!Init, Map!NoReq, NoCall
<1> QED BY <1>1, StepRefines, OrderInvariant, PTL DEF Spec, MapSpec, Map!Spec
=============================================================================
