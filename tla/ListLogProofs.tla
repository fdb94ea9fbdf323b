--------------------------- MODULE ListLogProofs ---------------------------
(***************************************************************************)
(* For every set of keys and values, every size of the log and any number  *)
(* of restarts: what LRANGE and LLEN say of a key is what was pushed to    *)
(* it, and the records of all lists lie side by side in the log.           *)
(***************************************************************************)
EXTENDS ListLog, WellFoundedInduction, TLAPS

List == [head : Offsets \cup {None}, tail : Offsets \cup {None}, count : Nat]

Types ==
  /\ disk \in [Offsets -> Record \cup {None}] /\ write_pos \in 0..LogCap
  /\ lists \in [Indices -> List] /\ index \in [Keys -> Indices \cup {None}]
  /\ used \in 0..MaxLists /\ pushed \in [Keys -> Seq(Values)]

\* Every record in the file, those of an earlier life included, points back.
PointsBack(d) == \A o \in Offsets : d[o] # None /\ d[o].prev # None => d[o].prev < o

End(d, o) == o + record_size(d[o].val)

\* The part of d before w is a row of records: they do not overlap, and what
\* they point to is a record.
Row(d, w) ==
  \A o \in Offsets : o < w /\ d[o] # None =>
    /\ End(d, o) <= w
    /\ d[o].prev # None => d[d[o].prev] # None
    /\ \A p \in Offsets : o < p /\ p < w /\ d[p] # None => End(d, o) <= p

\* Every key with a list has one of its own; lists not given out are empty.
Owners ==
  /\ \A j, k \in Keys : index[k] # None => index[k] < used /\ (index[j] = index[k] => j = k)
  /\ \A i \in Indices : i >= used => lists[i] = Empty
  /\ \A i \in Indices : lists[i].head # None =>
       lists[i].head < write_pos /\ disk[lists[i].head] # None

\* From offset h back, the log d holds the elements of s.
Holds(d, h, s) ==
  IF h = None THEN s = <<>>
  ELSE LET c == Backward(d)[h]
       IN Len(c) = Len(s) /\ \A n \in 1..Len(s) : d[c[n]].val = s[n]

Faithful ==
  \A k \in Keys :
    IF index[k] = None THEN pushed[k] = <<>>
    ELSE LET l == lists[index[k]]
         IN l.count = Len(pushed[k]) /\ Holds(disk, l.head, pushed[k])

LogInv == Types /\ PointsBack(disk) /\ Row(disk, write_pos) /\ Owners /\ Faithful
-----------------------------------------------------------------------------
(* Walking back through the log *)

Disk == [Offsets -> Record \cup {None}]

\* A turn of the loop of zedis_aol_lrange that goes on.
Linked(d, o) == d[o] # None /\ hdr_at(d[o].prev)

\* One equation of the walk g.
Step(d, g, o) == <<o>> \o (IF Linked(d, o) THEN g[d[o].prev] ELSE <<>>)

\* Every set of numbers that is not empty has a least element.
LEMMA Least ==
  ASSUME NEW S \in SUBSET Nat, S # {}
  PROVE  \E n \in S : \A m \in S : n <= m
<1> DEFINE R == {ss \in Nat \X Nat : ss[1] < ss[2]}
<1>1. IsWellFoundedOn(R, Nat)
  BY NatLessThanWellFounded DEF OpToRel
<1> HIDE DEF R
<1>2. PICK x \in S : \A y \in S : ~(<<y, x>> \in R)
  BY <1>1, WFMin
<1>3. \A y \in S : ~(y < x)
  BY <1>2 DEF R
<1> QED BY <1>3

\* A link leads to a lower offset.
LEMMA LinkDown ==
  ASSUME NEW d \in Disk, PointsBack(d), NEW o \in Offsets, Linked(d, o)
  PROVE  d[o].prev \in Offsets /\ d[o].prev < o
<1>1. d[o] \in Record
  BY DEF Disk, Linked
<1>2. d[o].prev \in Offsets \cup {None}
  BY <1>1 DEF Record
<1> QED BY <1>2 DEF Linked, hdr_at, PointsBack

\* One turn gives a sequence of offsets, its own first.
LEMMA StepTyped ==
  ASSUME NEW d, NEW g, NEW o \in Offsets, Linked(d, o) => g[d[o].prev] \in Seq(Offsets)
  PROVE  Step(d, g, o) \in Seq(Offsets)
<1>1. <<o>> \in Seq(Offsets) /\ <<>> \in Seq(Offsets)
  OBVIOUS
<1>2. CASE Linked(d, o)
  <2>1. g[d[o].prev] \in Seq(Offsets)
    BY <1>2
  <2>2. Step(d, g, o) = <<o>> \o g[d[o].prev]
    BY <1>2 DEF Step
  <2> QED BY <1>1, <2>1, <2>2
<1>3. CASE ~Linked(d, o)
  <2>1. Step(d, g, o) = <<o>> \o <<>>
    BY <1>3 DEF Step
  <2> QED BY <1>1, <2>1
<1> QED BY <1>2, <1>3

\* The walks over the first n offsets exist.
LEMMA WalkExists ==
  ASSUME NEW d \in Disk, PointsBack(d)
  PROVE  \E g \in [Offsets -> Seq(Offsets)] : \A o \in Offsets : g[o] = Step(d, g, o)
<1> DEFINE Walk(n) == \E g \in [0..(n - 1) -> Seq(Offsets)] : \A o \in 0..(n - 1) : g[o] = Step(d, g, o)
           S == {n \in 0..LogCap : ~Walk(n)}
<1>1. SUFFICES ASSUME ~Walk(LogCap) PROVE FALSE
  BY DEF Offsets
<1>2. LogCap \in S /\ S \in SUBSET Nat
  BY <1>1, ListAssumption
<1>3. PICK n \in S : \A m \in S : n <= m
  BY <1>2, Least
<1>4. n \in Nat /\ n <= LogCap /\ ~Walk(n) /\ LogCap \in Nat
  BY <1>3, ListAssumption
<1>5. n # 0
  <2> SUFFICES ASSUME n = 0 PROVE FALSE
    OBVIOUS
  <2> DEFINE g == [o \in 0..(n - 1) |-> <<>>]
  <2>1. 0..(n - 1) = {}
    OBVIOUS
  <2>2. g \in [0..(n - 1) -> Seq(Offsets)] /\ \A o \in 0..(n - 1) : g[o] = Step(d, g, o)
    BY <2>1
  <2> QED BY <2>2, <1>4
<1>6. Walk(n - 1)
  BY <1>3, <1>4, <1>5
<1> DEFINE last == n - 1
<1>7. last \in Nat /\ last \in Offsets /\ n - 1 = last /\ last - 1 \in Int
  BY <1>4, <1>5 DEF Offsets
<1> HIDE DEF S
<1>8. PICK g \in [0..(last - 1) -> Seq(Offsets)] : \A o \in 0..(last - 1) : g[o] = Step(d, g, o)
  BY <1>6
<1> HIDE DEF last
<1> DEFINE h == [o \in 0..last |-> IF o = last THEN Step(d, g, last) ELSE g[o]]
<1>9. \A o \in 0..last : Linked(d, o) => d[o].prev \in 0..(last - 1) /\ h[d[o].prev] = g[d[o].prev]
  <2> SUFFICES ASSUME NEW o \in 0..last, Linked(d, o)
               PROVE  d[o].prev \in 0..(last - 1) /\ h[d[o].prev] = g[d[o].prev]
    OBVIOUS
  <2>1. o \in Offsets
    BY <1>4, <1>7 DEF Offsets
  <2>2. d[o].prev \in Offsets /\ d[o].prev < o
    BY <2>1, LinkDown
  <2>3. d[o].prev \in 0..(last - 1) /\ d[o].prev \in 0..last /\ d[o].prev # last
    BY <2>2, <1>7 DEF Offsets
  <2> QED BY <2>3
<1>10. \A o \in 0..last : Step(d, h, o) = Step(d, g, o)
  BY <1>9 DEF Step
<1>11. Step(d, g, last) \in Seq(Offsets)
  <2>1. last \in 0..last
    BY <1>7
  <2>2. Linked(d, last) => d[last].prev \in 0..(last - 1)
    BY <2>1, <1>9
  <2>3. Linked(d, last) => g[d[last].prev] \in Seq(Offsets)
    BY <2>2, <1>8
  <2> QED BY <2>3, <1>7, StepTyped
<1>12. h \in [0..last -> Seq(Offsets)]
  BY <1>7, <1>11
<1>13. \A o \in 0..last : h[o] = Step(d, h, o)
  <2> SUFFICES ASSUME NEW o \in 0..last PROVE h[o] = Step(d, g, o)
    BY <1>10
  <2>1. CASE o = last
    BY <2>1
  <2>2. CASE o # last
    <3>1. o \in 0..(last - 1)
      BY <2>2, <1>7
    <3> QED BY <3>1, <1>8
  <2> QED BY <2>1, <2>2
<1> QED BY <1>4, <1>7, <1>12, <1>13

\* zedis_aol_lrange's walk ends, and satisfies its equation everywhere.
LEMMA BackwardDef ==
  ASSUME NEW d \in Disk, PointsBack(d)
  PROVE  /\ Backward(d) \in [Offsets -> Seq(Offsets)]
         /\ \A o \in Offsets : Backward(d)[o] = Step(d, Backward(d), o)
<1> DEFINE Solves(g) == g = [o \in Offsets |->
             <<o>> \o (IF d[o] # None /\ hdr_at(d[o].prev) THEN g[d[o].prev] ELSE <<>>)]
<1>1. Backward(d) = CHOOSE g : Solves(g)
  BY DEF Backward
<1>2. PICK g \in [Offsets -> Seq(Offsets)] : \A o \in Offsets : g[o] = Step(d, g, o)
  BY WalkExists
<1>3. Solves(g)
  BY <1>2 DEF Step, Linked
<1>4. Solves(Backward(d))
  BY <1>1, <1>3
<1> DEFINE b == Backward(d)
<1>5. DOMAIN b = Offsets /\ b = [o \in Offsets |-> b[o]] /\ \A o \in Offsets : b[o] = Step(d, b, o)
  BY <1>4 DEF Step, Linked
<1> HIDE DEF b, Solves
<1>6. \A o \in Offsets : b[o] \in Seq(Offsets)
  <2> DEFINE S == {o \in Offsets : b[o] \notin Seq(Offsets)}
  <2> SUFFICES ASSUME S # {} PROVE FALSE
    OBVIOUS
  <2>1. S \in SUBSET Nat
    BY ListAssumption DEF Offsets
  <2>2. PICK o \in S : \A p \in S : o <= p
    BY <2>1, Least
  <2>3. o \in Offsets /\ o \in Nat
    BY <2>1
  <2>4. Linked(d, o) => b[d[o].prev] \in Seq(Offsets)
    <3> SUFFICES ASSUME Linked(d, o) PROVE b[d[o].prev] \in Seq(Offsets)
      OBVIOUS
    <3>1. d[o].prev \in Offsets /\ d[o].prev < o
      BY <2>3, LinkDown
    <3>2. d[o].prev \in Nat /\ ~(o <= d[o].prev)
      BY <3>1, <2>3 DEF Offsets
    <3> QED BY <3>1, <3>2, <2>2
  <2>5. Step(d, b, o) \in Seq(Offsets)
    BY <2>3, <2>4, StepTyped
  <2> QED BY <2>5, <2>3, <1>5
<1> QED BY <1>5, <1>6 DEF b

\* What lies below an offset decides the walks from there.
LEMMA SameBelow ==
  ASSUME NEW d \in Disk, NEW e \in Disk, PointsBack(d), PointsBack(e), NEW w \in Nat,
         \A o \in Offsets : o < w => d[o] = e[o]
  PROVE  \A o \in Offsets : o < w => Backward(d)[o] = Backward(e)[o]
<1> DEFINE S == {o \in Offsets : o < w /\ Backward(d)[o] # Backward(e)[o]}
<1> SUFFICES ASSUME S # {} PROVE FALSE
  OBVIOUS
<1>1. S \in SUBSET Nat
  BY ListAssumption DEF Offsets
<1>2. PICK o \in S : \A p \in S : o <= p
  BY <1>1, Least
<1>3. o \in Offsets /\ o \in Nat /\ o < w /\ d[o] = e[o]
  BY <1>1
<1>4. Linked(d, o) => Backward(d)[d[o].prev] = Backward(e)[e[o].prev]
  <2> SUFFICES ASSUME Linked(d, o) PROVE Backward(d)[d[o].prev] = Backward(e)[d[o].prev]
    BY <1>3
  <2>1. d[o].prev \in Offsets /\ d[o].prev < o
    BY <1>3, LinkDown
  <2>2. d[o].prev \in Nat /\ ~(o <= d[o].prev) /\ d[o].prev < w
    BY <2>1, <1>3 DEF Offsets
  <2> QED BY <2>1, <2>2, <1>2
<1>5. Step(d, Backward(d), o) = Step(e, Backward(e), o)
  BY <1>3, <1>4 DEF Step, Linked
<1> QED BY <1>3, <1>5, BackwardDef

\* In a row of records a walk meets records of the row only.
LEMMA WalkInRow ==
  ASSUME NEW d \in Disk, PointsBack(d), NEW w \in Nat, Row(d, w),
         NEW h \in Offsets, h < w, d[h] # None
  PROVE  \A n \in 1..Len(Backward(d)[h]) :
           LET o == Backward(d)[h][n] IN o \in Offsets /\ o < w /\ d[o] # None
<1> DEFINE b == Backward(d)
           Good(o) == o \in Offsets /\ o < w /\ d[o] # None
           S == {o \in Offsets : Good(o) /\ \E n \in 1..Len(b[o]) : ~Good(b[o][n])}
<1> SUFFICES ASSUME S # {} PROVE FALSE
  OBVIOUS
<1>1. S \in SUBSET Nat
  BY ListAssumption DEF Offsets
<1>2. PICK o \in S : \A p \in S : o <= p
  BY <1>1, Least
<1>3. Good(o) /\ o \in Nat
  BY <1>1
<1>4. PICK n \in 1..Len(b[o]) : ~Good(b[o][n])
  BY <1>2
<1>5. b[o] = Step(d, b, o) /\ b \in [Offsets -> Seq(Offsets)]
  BY <1>3, BackwardDef
<1>6. CASE ~Linked(d, o)
  <2>1. b[o] = <<o>> \o <<>>
    BY <1>5, <1>6 DEF Step
  <2>2. Len(b[o]) = 1 /\ b[o][1] = o
    BY <2>1
  <2> QED BY <2>2, <1>3, <1>4
<1>7. CASE Linked(d, o)
  <2> DEFINE p == d[o].prev
  <2>1. p \in Offsets /\ p < o
    BY <1>3, <1>7, LinkDown
  <2>2. d[p] # None
    BY <1>3, <1>7 DEF Linked, hdr_at, Row
  <2>3. p \in Nat /\ p < w /\ ~(o <= p)
    BY <2>1, <1>3 DEF Offsets
  <2>4. \A m \in 1..Len(b[p]) : Good(b[p][m])
    BY <2>1, <2>2, <2>3, <1>2
  <2>5. b[o] = <<o>> \o b[p] /\ b[p] \in Seq(Offsets)
    BY <1>5, <1>7, <2>1 DEF Step
  <2>6. /\ o \in Offsets /\ Len(b[o]) = 1 + Len(b[p]) /\ b[o][1] = o
        /\ \A m \in 1..Len(b[p]) : b[o][m + 1] = b[p][m]
    <3> HIDE DEF b, p
    <3> QED BY <2>5, <1>3
  <2>7. CASE n = 1
    BY <2>6, <2>7, <1>3, <1>4
  <2>8. CASE n # 1
    <3> HIDE DEF b, p, Good
    <3>1. n - 1 \in 1..Len(b[p]) /\ (n - 1) + 1 = n
      BY <2>5, <2>6, <2>8
    <3>2. b[o][n] = b[p][n - 1]
      BY <3>1, <2>6
    <3> QED BY <3>1, <3>2, <2>4, <1>4
  <2> QED BY <2>7, <2>8
<1> QED BY <1>6, <1>7

\* What a list holds it still holds when the log changes above it only.
LEMMA HoldsKept ==
  ASSUME NEW d \in Disk, NEW e \in Disk, PointsBack(d), PointsBack(e), NEW w \in Nat, Row(d, w),
         \A o \in Offsets : o < w => d[o] = e[o],
         NEW h \in Offsets \cup {None}, h # None => h < w /\ d[h] # None,
         NEW s \in Seq(Values), Holds(d, h, s)
  PROVE  Holds(e, h, s)
<1>1. CASE h = None
  BY <1>1 DEF Holds
<1>2. CASE h # None
  <2> DEFINE c == Backward(d)[h]
  <2>1. h \in Offsets /\ h < w /\ d[h] # None
    BY <1>2
  <2>2. Backward(e)[h] = c
    BY <2>1, SameBelow
  <2>3. \A n \in 1..Len(c) : c[n] \in Offsets /\ c[n] < w
    BY <2>1, WalkInRow
  <2>4. Len(c) = Len(s) /\ \A n \in 1..Len(s) : d[c[n]].val = s[n]
    BY <1>2 DEF Holds
  <2> HIDE DEF c
  <2>5. \A n \in 1..Len(s) : e[c[n]].val = s[n]
    BY <2>3, <2>4
  <2> QED BY <1>2, <2>2, <2>4, <2>5 DEF Holds
<1> QED BY <1>1, <1>2

\* A record in front of a list, which points back to it, adds its value.
LEMMA HoldsPushed ==
  ASSUME NEW e \in Disk, PointsBack(e), NEW h \in Offsets \cup {None}, NEW s \in Seq(Values),
         Holds(e, h, s), NEW w \in Offsets, e[w] # None, e[w].prev = h, NEW v \in Values, e[w].val = v
  PROVE  Holds(e, w, <<v>> \o s)
<1> DEFINE b == Backward(e)
<1>0. w # None
  BY ListAssumption DEF Offsets
<1>1. b[w] = Step(e, b, w) /\ b \in [Offsets -> Seq(Offsets)]
  BY BackwardDef
<1>2. CASE h = None
  <2>1. s = <<>>
    BY <1>2 DEF Holds
  <2>2. b[w] = <<w>> \o <<>>
    BY <1>1, <1>2 DEF Step, Linked, hdr_at
  <2>3. Len(b[w]) = 1 /\ b[w][1] = w
    BY <2>2
  <2>4. Len(<<v>> \o s) = 1 /\ (<<v>> \o s)[1] = v
    BY <2>1
  <2> QED BY <1>0, <2>3, <2>4 DEF Holds
<1>3. CASE h # None
  <2>1. h \in Offsets /\ b[h] \in Seq(Offsets) /\ Len(b[h]) = Len(s) /\ \A n \in 1..Len(s) : e[b[h][n]].val = s[n]
    BY <1>1, <1>3 DEF Holds
  <2>2. Linked(e, w)
    BY <2>1, <1>3, ListAssumption DEF Linked, hdr_at, Offsets
  <2>3. b[w] = <<w>> \o b[h]
    BY <1>1, <2>2 DEF Step
  <2> HIDE DEF b
  <2>4. Len(b[w]) = 1 + Len(b[h]) /\ b[w][1] = w /\ \A m \in 1..Len(b[h]) : b[w][m + 1] = b[h][m]
    BY <2>1, <2>3
  <2>5. Len(<<v>> \o s) = 1 + Len(s) /\ (<<v>> \o s)[1] = v /\ \A m \in 1..Len(s) : (<<v>> \o s)[m + 1] = s[m]
    OBVIOUS
  <2> DEFINE t == <<v>> \o s
  <2>6. ASSUME NEW n \in 1..Len(t) PROVE e[b[w][n]].val = t[n]
    <3>1. CASE n = 1
      BY <3>1, <2>4, <2>5
    <3>2. CASE n # 1
      <4>1. n - 1 \in 1..Len(s) /\ (n - 1) + 1 = n
        BY <2>5, <3>2
      <4>2. b[w][n] = b[h][n - 1] /\ t[n] = s[n - 1]
        BY <4>1, <2>1, <2>4, <2>5
      <4> QED BY <4>1, <4>2, <2>1
    <3> QED BY <3>1, <3>2
  <2>7. Len(b[w]) = Len(t)
    BY <2>1, <2>4, <2>5
  <2> QED BY <1>0, <2>6, <2>7 DEF Holds, b
<1> QED BY <1>2, <1>3
-----------------------------------------------------------------------------
(* zedis_aol_lpush *)

\* A record written at the end extends the row, and touches nothing before.
LEMMA WrittenRow ==
  ASSUME Types, PointsBack(disk), Row(disk, write_pos), NEW rec \in Record,
         write_pos + record_size(rec.val) <= LogCap,
         rec.prev # None => rec.prev < write_pos /\ disk[rec.prev] # None
  PROVE  LET e == Written(rec, record_size(rec.val))
             w == write_pos + record_size(rec.val)
         IN  /\ e \in Disk /\ PointsBack(e) /\ Row(e, w)
             /\ w \in 0..LogCap /\ write_pos < w /\ write_pos \in Offsets /\ e[write_pos] = rec
             /\ \A o \in Offsets : o < write_pos => e[o] = disk[o]
<1> DEFINE n == record_size(rec.val)
           e == Written(rec, n)
           w == write_pos + n
<1>1. n \in Nat \ {0} /\ write_pos \in Nat /\ LogCap \in Nat /\ write_pos + n <= LogCap
  <2>1. rec.val \in Values
    BY DEF Record
  <2>2. Size[rec.val] \in Nat /\ Hdr \in Nat \ {0} /\ LogCap \in Nat
    BY <2>1, ListAssumption
  <2> QED BY <2>2 DEF record_size, Types
<1>2. w \in 0..LogCap /\ write_pos < w /\ write_pos \in Offsets
  BY <1>1 DEF Offsets
<1>3. rec # None
  BY ListAssumption
<1> HIDE DEF n
<1>4. /\ e \in Disk /\ e[write_pos] = rec
      /\ \A o \in Offsets : o < write_pos => e[o] = disk[o]
      /\ \A o \in Offsets : write_pos < o /\ o < w => e[o] = None
      /\ \A o \in Offsets : w <= o => e[o] = disk[o]
  BY <1>1, <1>2 DEF Written, Types, Disk, Offsets
<1> HIDE DEF e
<1>5. PointsBack(e)
  <2> SUFFICES ASSUME NEW o \in Offsets, e[o] # None, e[o].prev # None PROVE e[o].prev < o
    BY DEF PointsBack
  <2>1. CASE o = write_pos
    BY <2>1, <1>4
  <2>2. CASE o # write_pos
    <3>1. e[o] = disk[o]
      BY <2>2, <1>1, <1>4 DEF Offsets
    <3> QED BY <3>1 DEF PointsBack
  <2> QED BY <2>1, <2>2
<1>6. Row(e, w)
  <2> SUFFICES ASSUME NEW o \in Offsets, o < w, e[o] # None
               PROVE  /\ End(e, o) <= w
                      /\ e[o].prev # None => e[e[o].prev] # None
                      /\ \A p \in Offsets : o < p /\ p < w /\ e[p] # None => End(e, o) <= p
    BY DEF Row
  <2>1. CASE o = write_pos
    <3>1. End(e, o) = w
      BY <2>1, <1>4 DEF End, n
    <3>2. rec.prev # None => e[rec.prev] # None
      <4> SUFFICES ASSUME rec.prev # None PROVE e[rec.prev] # None
        OBVIOUS
      <4>1. rec.prev \in Offsets /\ rec.prev < write_pos
        BY DEF Record
      <4> QED BY <4>1, <1>4
    <3>3. \A p \in Offsets : ~(o < p /\ p < w /\ e[p] # None)
      BY <2>1, <1>4
    <3> QED BY <2>1, <3>1, <3>2, <3>3, <1>1, <1>4
  <2>2. CASE o < write_pos
    <3>1. e[o] = disk[o] /\ End(e, o) = End(disk, o)
      BY <2>2, <1>4 DEF End
    <3>2. /\ End(disk, o) <= write_pos /\ (disk[o].prev # None => disk[disk[o].prev] # None)
          /\ \A p \in Offsets : o < p /\ p < write_pos /\ disk[p] # None => End(disk, o) <= p
      BY <2>2, <3>1 DEF Row
    <3>3. End(disk, o) \in Int
      <4>1. disk[o] \in Record
        BY <3>1 DEF Types
      <4>2. Size[disk[o].val] \in Nat /\ Hdr \in Nat
        BY <4>1, ListAssumption DEF Record
      <4> QED BY <4>2 DEF End, record_size, Offsets
    <3>4. disk[o].prev # None => e[disk[o].prev] # None
      <4> SUFFICES ASSUME disk[o].prev # None PROVE e[disk[o].prev] # None
        OBVIOUS
      <4>1. disk[o] \in Record /\ disk[o].prev < o
        BY <3>1 DEF Types, PointsBack
      <4>2. disk[o].prev \in Offsets
        BY <4>1 DEF Record
      <4>3. disk[o].prev < write_pos
        BY <4>1, <4>2, <2>2, <1>1 DEF Offsets
      <4> QED BY <4>2, <4>3, <3>2, <1>4
    <3>5. ASSUME NEW p \in Offsets, o < p, p < w, e[p] # None PROVE End(disk, o) <= p
      <4>1. p <= write_pos
        BY <3>5, <1>1, <1>4 DEF Offsets
      <4>2. CASE p = write_pos
        BY <4>2, <3>2
      <4>3. CASE p < write_pos
        BY <4>3, <3>2, <3>5, <1>4
      <4> QED BY <4>1, <4>2, <4>3, <1>1 DEF Offsets
    <3>6. End(disk, o) <= w
      BY <3>2, <3>3, <1>1
    <3> QED BY <3>1, <3>4, <3>5, <3>6
  <2>3. ~(write_pos < o)
    BY <1>4
  <2> QED BY <2>1, <2>2, <2>3, <1>1 DEF Offsets
<1> QED BY <1>2, <1>4, <1>5, <1>6 DEF e, n
-----------------------------------------------------------------------------
(* The steps *)

Apart == \A j, k \in Keys : index[k] # None => index[k] < used /\ (index[j] = index[k] => j = k)

\* A key that is given a list gets one that nobody has, and that is empty.
LEMMA SlotGiven ==
  ASSUME LogInv, NEW k \in Keys, Slot(k)
  PROVE  /\ index' \in [Keys -> Indices \cup {None}] /\ used' \in 0..MaxLists /\ used <= used'
         /\ Apart' /\ index'[k] \in Indices
         /\ \A j \in Keys : j # k => index'[j] = index[j] /\ index'[j] # index'[k]
         /\ lists[index'[k]].count = Len(pushed[k])
         /\ Holds(disk, lists[index'[k]].head, pushed[k])
<1>0. /\ index \in [Keys -> Indices \cup {None}] /\ used \in 0..MaxLists /\ Apart
      /\ lists \in [Indices -> List] /\ MaxLists \in Nat
  BY ListAssumption DEF LogInv, Types, Owners, Apart
<1>1. CASE index[k] # None
  <2>1. index' = index /\ used' = used
    BY <1>1 DEF Slot
  <2>2. Apart' /\ index[k] \in Indices
    BY <2>1, <1>0, <1>1 DEF Apart
  <2>3. \A j \in Keys : j # k => index[j] # index[k]
    BY <1>0, <1>1 DEF Apart
  <2>4. lists[index[k]].count = Len(pushed[k]) /\ Holds(disk, lists[index[k]].head, pushed[k])
    BY <1>1 DEF LogInv, Faithful
  <2> QED BY <1>0, <2>1, <2>2, <2>3, <2>4
<1>2. CASE index[k] = None
  <2>1. used < MaxLists /\ index' = [index EXCEPT ![k] = used] /\ used' = used + 1
    BY <1>2 DEF Slot
  <2>2. used \in Indices /\ used # None
    BY <1>0, <2>1, ListAssumption DEF Indices
  <2>3. index' \in [Keys -> Indices \cup {None}] /\ index'[k] = used /\ \A j \in Keys : j # k => index'[j] = index[j]
    BY <1>0, <2>1, <2>2
  <2>4. \A j \in Keys : j # k => index'[j] # used
    BY <1>0, <2>2, <2>3 DEF Apart, Indices
  <2>5. Apart'
    <3> SUFFICES ASSUME NEW i \in Keys, NEW j \in Keys, index'[j] # None
                 PROVE  index'[j] < used' /\ (index'[i] = index'[j] => i = j)
      BY DEF Apart
    <3>1. CASE j = k
      BY <3>1, <1>0, <2>1, <2>3, <2>4
    <3>2. CASE j # k
      <4>1. index[j] # None /\ index'[j] = index[j] /\ index[j] \in Indices
        BY <3>2, <2>3, <1>0
      <4>2. index[j] < used /\ (index[i] = index[j] => i = j)
        BY <4>1, <1>0 DEF Apart
      <4>3. index[j] < used'
        BY <4>1, <4>2, <2>1, <1>0 DEF Indices
      <4>4. i # k => index'[i] = index[i]
        BY <2>3
      <4>5. i = k => index'[i] # index'[j]
        BY <2>3, <2>4, <3>2
      <4> QED BY <4>1, <4>2, <4>3, <4>4, <4>5
    <3> QED BY <3>1, <3>2
  <2>6. lists[used] = Empty /\ pushed[k] = <<>>
    BY <1>0, <1>2, <2>2 DEF LogInv, Owners, Faithful
  <2>7. lists[used].count = Len(pushed[k]) /\ Holds(disk, lists[used].head, pushed[k])
    BY <2>6 DEF Empty, Holds
  <2> QED BY <1>0, <2>1, <2>2, <2>3, <2>4, <2>5, <2>7
<1> QED BY <1>1, <1>2

\* A push that the log takes.
LEMMA LpushKeeps ==
  ASSUME LogInv, NEW k \in Keys, NEW v \in Values, Lpush(k, v)
  PROVE  LogInv'
<1> DEFINE i == index'[k]
           l == lists[i]
           rec == [prev |-> l.head, key |-> k, val |-> v]
           w == write_pos + record_size(v)
<1>1. /\ Types /\ PointsBack(disk) /\ Row(disk, write_pos) /\ Owners /\ Faithful
      /\ LogCap \in Nat /\ MaxLists \in Nat
  BY ListAssumption DEF LogInv
<1>2. /\ index' \in [Keys -> Indices \cup {None}] /\ used' \in 0..MaxLists /\ used <= used'
      /\ Apart' /\ i \in Indices
      /\ \A j \in Keys : j # k => index'[j] = index[j] /\ index'[j] # i
      /\ l.count = Len(pushed[k]) /\ Holds(disk, l.head, pushed[k])
  <2>1. Slot(k)
    BY DEF Lpush
  <2> QED BY <2>1, SlotGiven
<1>3. l \in List /\ (l.head # None => l.head < write_pos /\ disk[l.head] # None)
  BY <1>1, <1>2 DEF Types, Owners
<1>4. rec \in Record /\ rec.val = v /\ rec.prev = l.head
  BY <1>3 DEF Record, List
<1>5. /\ disk' = Written(rec, record_size(v)) /\ write_pos' = w
      /\ lists' = [lists EXCEPT ![i] = [head |-> write_pos,
                     tail |-> IF l.head = None THEN write_pos ELSE l.tail, count |-> l.count + 1]]
      /\ pushed' = [pushed EXCEPT ![k] = <<v>> \o @]
  BY DEF Lpush, aol_lpush
<1>6. w <= LogCap
  <2>1. record_size(v) \in Nat
    BY ListAssumption DEF record_size
  <2> QED BY <2>1, <1>1 DEF Lpush, Refused, Types
<1> HIDE DEF rec, i
<1>7. /\ disk' \in Disk /\ PointsBack(disk') /\ Row(disk', w)
      /\ w \in 0..LogCap /\ write_pos < w /\ write_pos \in Offsets /\ disk'[write_pos] = rec
      /\ \A o \in Offsets : o < write_pos => disk'[o] = disk[o]
  BY <1>1, <1>3, <1>4, <1>5, <1>6, WrittenRow
<1> HIDE DEF w
<1>8. /\ lists' \in [Indices -> List] /\ lists'[i].head = write_pos /\ lists'[i].count = Len(pushed[k]) + 1
      /\ \A j \in Indices : j # i => lists'[j] = lists[j]
  <2>1. lists \in [Indices -> List] /\ l.tail \in Offsets \cup {None} /\ l.count \in Nat
    BY <1>1, <1>3 DEF Types, List
  <2> DEFINE t == IF l.head = None THEN write_pos ELSE l.tail
             n == l.count + 1
             m == [head |-> write_pos, tail |-> t, count |-> n]
  <2>2. m \in List /\ m.head = write_pos /\ m.count = l.count + 1
    <3>1. t \in Offsets \cup {None} /\ n \in Nat /\ write_pos \in Offsets
      BY <2>1, <1>7
    <3> HIDE DEF t, n
    <3>2. m \in List /\ m.head = write_pos /\ m.count = n
      BY <3>1 DEF List
    <3> QED BY <3>2 DEF n
  <2>3. lists' = [lists EXCEPT ![i] = m]
    BY <1>5
  <2> HIDE DEF m
  <2>4. lists' \in [Indices -> List] /\ lists'[i] = m /\ \A j \in Indices : j # i => lists'[j] = lists[j]
    BY <2>1, <2>2, <2>3, <1>2
  <2> QED BY <2>2, <2>4, <1>2
<1>9. /\ pushed' \in [Keys -> Seq(Values)] /\ pushed'[k] = <<v>> \o pushed[k]
      /\ \A j \in Keys : j # k => pushed'[j] = pushed[j]
  <2>1. pushed \in [Keys -> Seq(Values)] /\ pushed[k] \in Seq(Values)
    BY <1>1 DEF Types
  <2>2. <<v>> \o pushed[k] \in Seq(Values)
    BY <2>1
  <2> QED BY <2>1, <2>2, <1>5
<1>10. disk \in Disk /\ write_pos \in Nat /\ write_pos' = w /\ pushed \in [Keys -> Seq(Values)] /\ used \in Nat
  <2>1. disk \in Disk /\ write_pos \in 0..LogCap /\ pushed \in [Keys -> Seq(Values)] /\ used \in 0..MaxLists
    BY <1>1 DEF Types, Disk
  <2>2. write_pos \in Nat /\ used \in Nat
    BY <2>1, <1>1
  <2> QED BY <2>1, <2>2, <1>5
<1>11. Types'
  BY <1>2, <1>7, <1>8, <1>9, <1>10 DEF Types, Disk
<1>12. Owners'
  <2>1. \A j \in Indices : j >= used' => lists'[j] = Empty
    <3> SUFFICES ASSUME NEW j \in Indices, j >= used' PROVE lists'[j] = Empty
      OBVIOUS
    <3>1. index'[k] < used'
      <4>1. index'[k] # None
        BY <1>2, ListAssumption DEF i, Indices
      <4> QED BY <4>1, <1>2 DEF Apart
    <3>2. j # i /\ j >= used
      BY <3>1, <1>2, <1>10 DEF i, Indices
    <3> QED BY <3>2, <1>1, <1>8 DEF Owners
  <2>2. ASSUME NEW j \in Indices, lists'[j].head # None
        PROVE  lists'[j].head < w /\ disk'[lists'[j].head] # None
    <3>1. CASE j = i
      <4>1. rec # None
        BY <1>4, ListAssumption
      <4> QED BY <3>1, <4>1, <1>7, <1>8
    <3>2. CASE j # i
      <4>1. lists[j] \in List /\ lists'[j] = lists[j] /\ lists[j].head < write_pos /\ disk[lists[j].head] # None
        BY <3>2, <2>2, <1>1, <1>8 DEF Owners, Types
      <4>2. lists[j].head \in Offsets
        BY <4>1, <2>2 DEF List
      <4>3. lists[j].head < w
        BY <4>1, <4>2, <1>7, <1>10 DEF Offsets
      <4> QED BY <4>1, <4>2, <4>3, <1>7
    <3> QED BY <3>1, <3>2
  <2> QED BY <2>1, <2>2, <1>2, <1>10 DEF Owners, Apart
<1>13. ASSUME NEW h \in Offsets \cup {None}, h # None => h < write_pos /\ disk[h] # None,
              NEW s \in Seq(Values), Holds(disk, h, s)
       PROVE  Holds(disk', h, s)
  BY <1>13, <1>1, <1>7, <1>10, HoldsKept
<1>14. Holds(disk', write_pos, <<v>> \o pushed[k])
  <2>1. pushed[k] \in Seq(Values) /\ l.head \in Offsets \cup {None}
    BY <1>10, <1>3 DEF List
  <2>2. Holds(disk', l.head, pushed[k])
    BY <2>1, <1>2, <1>3, <1>13
  <2>3. disk'[write_pos] # None /\ disk'[write_pos].prev = l.head /\ disk'[write_pos].val = v
    BY <1>4, <1>7, ListAssumption
  <2> HIDE DEF l
  <2> QED BY <2>1, <2>2, <2>3, <1>7, HoldsPushed
<1>15. Faithful'
  <2> SUFFICES ASSUME NEW j \in Keys
               PROVE  IF index'[j] = None THEN pushed'[j] = <<>>
                      ELSE LET m == lists'[index'[j]]
                           IN m.count = Len(pushed'[j]) /\ Holds(disk', m.head, pushed'[j])
    BY DEF Faithful
  <2>1. CASE j = k
    <3>1. i # None
      BY <1>2, ListAssumption DEF Indices
    <3>2. pushed[k] \in Seq(Values) /\ Len(<<v>> \o pushed[k]) = Len(pushed[k]) + 1
      BY <1>10
    <3> QED BY <2>1, <3>1, <3>2, <1>8, <1>9, <1>14 DEF i
  <2>2. CASE j # k
    <3>1. index'[j] = index[j] /\ index[j] # i /\ pushed'[j] = pushed[j] /\ pushed[j] \in Seq(Values)
      BY <2>2, <1>2, <1>9, <1>10
    <3>2. CASE index[j] = None
      BY <3>1, <3>2, <1>1 DEF Faithful
    <3>3. CASE index[j] # None
      <4>1. index[j] \in Indices
        BY <3>3, <1>1 DEF Types
      <4>2. lists'[index[j]] = lists[index[j]] /\ lists[index[j]] \in List
        BY <4>1, <3>1, <1>1, <1>8 DEF Types
      <4> DEFINE m == lists[index[j]]
      <4>3. m.head \in Offsets \cup {None} /\ (m.head # None => m.head < write_pos /\ disk[m.head] # None)
        BY <4>1, <4>2, <1>1 DEF Owners, List
      <4>4. m.count = Len(pushed[j]) /\ Holds(disk, m.head, pushed[j])
        BY <3>3, <1>1 DEF Faithful
      <4>5. Holds(disk', m.head, pushed[j])
        BY <4>3, <4>4, <3>1, <1>13
      <4> QED BY <4>2, <4>4, <4>5, <3>1, <3>3
    <3> QED BY <3>2, <3>3
  <2> QED BY <2>1, <2>2
<1> QED BY <1>7, <1>10, <1>11, <1>12, <1>15 DEF LogInv

\* The log refuses the element; the key may have been given its list.
LEMMA RefusedKeeps ==
  ASSUME LogInv, NEW k \in Keys, NEW v \in Values, LpushRefused(k, v)
  PROVE  LogInv'
<1>1. Types /\ PointsBack(disk) /\ Row(disk, write_pos) /\ Owners /\ Faithful
  BY DEF LogInv
<1>2. Slot(k) /\ disk' = disk /\ write_pos' = write_pos /\ lists' = lists /\ pushed' = pushed
  BY DEF LpushRefused
<1>3. /\ index' \in [Keys -> Indices \cup {None}] /\ used' \in 0..MaxLists /\ used <= used'
      /\ Apart' /\ index'[k] \in Indices
      /\ \A j \in Keys : j # k => index'[j] = index[j] /\ index'[j] # index'[k]
      /\ lists[index'[k]].count = Len(pushed[k])
      /\ Holds(disk, lists[index'[k]].head, pushed[k])
  BY <1>2, SlotGiven
<1>4. Types'
  BY <1>1, <1>2, <1>3 DEF Types
<1>5. Owners'
  <2>1. \A j \in Indices : j >= used' => j >= used
    BY <1>1, <1>3, ListAssumption DEF Types, Indices
  <2> QED BY <2>1, <1>1, <1>2, <1>3 DEF Owners, Apart
<1>6. Faithful'
  <2> SUFFICES ASSUME NEW j \in Keys
               PROVE  IF index'[j] = None THEN pushed[j] = <<>>
                      ELSE LET m == lists[index'[j]]
                           IN m.count = Len(pushed[j]) /\ Holds(disk, m.head, pushed[j])
    BY <1>2 DEF Faithful
  <2>1. CASE j = k
    <3>1. index'[k] # None
      BY <1>3, ListAssumption DEF Indices
    <3> QED BY <2>1, <3>1, <1>3
  <2>2. CASE j # k
    BY <2>2, <1>1, <1>3 DEF Faithful
  <2> QED BY <2>1, <2>2
<1> QED BY <1>1, <1>2, <1>4, <1>5, <1>6 DEF LogInv

\* The hash table refuses the key: a list is given out and lost.
LEMMA LongKeyKeeps ==
  ASSUME LogInv, NEW k \in Keys, LpushLongKey(k)
  PROVE  LogInv'
<1>1. Types /\ PointsBack(disk) /\ Row(disk, write_pos) /\ Owners /\ Faithful /\ MaxLists \in Nat
  BY ListAssumption DEF LogInv
<1>2. /\ used < MaxLists /\ used' = used + 1 /\ disk' = disk /\ write_pos' = write_pos
      /\ lists' = lists /\ index' = index /\ pushed' = pushed
  BY DEF LpushLongKey
<1>3. used \in Nat /\ used' \in 0..MaxLists
  BY <1>1, <1>2 DEF Types
<1>4. Types'
  BY <1>1, <1>2, <1>3 DEF Types
<1>5. Owners'
  <2>1. \A j \in Keys : index[j] # None /\ index[j] < used => index[j] < used'
    BY <1>1, <1>2, <1>3 DEF Types, Indices
  <2>2. \A j \in Indices : j >= used' => j >= used
    BY <1>2, <1>3 DEF Indices
  <2> QED BY <2>1, <2>2, <1>1, <1>2 DEF Owners
<1>6. Faithful'
  BY <1>1, <1>2 DEF Faithful
<1> QED BY <1>1, <1>2, <1>4, <1>5, <1>6 DEF LogInv

\* The lists are right at the first start: there are none.
LEMMA LogInit == Init => LogInv
<1> SUFFICES ASSUME Init PROVE LogInv
  OBVIOUS
<1>1. MaxLists \in Nat /\ LogCap \in Nat /\ Empty \in List /\ Empty.head = None /\ <<>> \in Seq(Values)
  BY ListAssumption DEF Empty, List
<1>2. Types
  BY <1>1 DEF Init, Types
<1>3. PointsBack(disk) /\ Row(disk, write_pos)
  BY DEF Init, PointsBack, Row
<1>4. Owners
  BY <1>1 DEF Init, Owners
<1>5. Faithful
  BY DEF Init, Faithful
<1> QED BY <1>2, <1>3, <1>4, <1>5 DEF LogInv

\* A restarted server has no lists and nothing before its write position,
\* whatever the file holds.
LEMMA RestartKeeps ==
  ASSUME LogInv, Restart
  PROVE  LogInv'
<1>1. disk' = disk /\ disk \in Disk /\ PointsBack(disk)
  BY DEF LogInv, Types, Disk, Restart
<1>2. disk' \in Disk /\ PointsBack(disk')
  BY <1>1
<1>3. /\ write_pos' = 0 /\ lists' = [i \in Indices |-> Empty]
      /\ index' = [k \in Keys |-> None] /\ used' = 0 /\ pushed' = [k \in Keys |-> <<>>]
  BY DEF Restart, Started
<1>4. MaxLists \in Nat /\ LogCap \in Nat /\ Empty \in List /\ Empty.head = None
  BY ListAssumption DEF Empty, List
<1>5. Types'
  <2>1. <<>> \in Seq(Values)
    OBVIOUS
  <2> QED BY <1>2, <1>3, <1>4, <2>1 DEF Types, Disk
<1>6. Row(disk', write_pos')
  BY <1>3 DEF Row, Offsets
<1>7. Owners'
  BY <1>3, <1>4 DEF Owners
<1>8. Faithful'
  BY <1>3 DEF Faithful
<1> QED BY <1>2, <1>5, <1>6, <1>7, <1>8 DEF LogInv

\* LogInv holds in every state the server can reach.
LEMMA LogInvariant == Spec => []LogInv
<1>1. LogInv /\ [Next]_vars => LogInv'
  <2> SUFFICES ASSUME LogInv, [Next]_vars PROVE LogInv'
    OBVIOUS
  <2>1. ASSUME NEW k \in Keys, NEW v \in Values, Lpush(k, v) \/ LpushRefused(k, v) PROVE LogInv'
    BY <2>1, LpushKeeps, RefusedKeeps
  <2>2. ASSUME NEW k \in Keys, LpushLongKey(k) PROVE LogInv'
    BY <2>2, LongKeyKeeps
  <2>3. CASE Restart
    BY <2>3, RestartKeeps
  <2>4. CASE UNCHANGED vars
    BY <2>4 DEF vars, LogInv, Types, Owners, Faithful, Row
  <2> QED BY <2>1, <2>2, <2>3, <2>4 DEF Next
<1> QED BY <1>1, LogInit, PTL DEF Spec
-----------------------------------------------------------------------------
(* What the clients see *)

Lesser(m, n) == IF m < n THEN m ELSE n

\* The offsets an LRANGE collects from a list's head are the first of the
\* walk back from it.
LEMMA ChainOfWalk ==
  ASSUME LogInv, NEW h \in Offsets \cup {None}
  PROVE  LET all == IF h = None THEN <<>> ELSE Backward(disk)[h]
         IN  /\ all \in Seq(Offsets) /\ Chain(h) \in Seq(Offsets)
             /\ Len(Chain(h)) = Lesser(Len(all), ChainMax)
             /\ \A n \in 1..Len(Chain(h)) : n \in 1..Len(all) /\ Chain(h)[n] = all[n]
<1> DEFINE all == IF h = None THEN <<>> ELSE Backward(disk)[h]
           m == Lesser(Len(all), ChainMax)
<1>1. hdr_at(h) <=> h # None
  BY ListAssumption DEF hdr_at, Offsets
<1>2. all \in Seq(Offsets)
  <2>1. disk \in Disk /\ PointsBack(disk)
    BY DEF LogInv, Types, Disk
  <2>2. h # None => Backward(disk)[h] \in Seq(Offsets)
    BY <2>1, BackwardDef
  <2> QED BY <2>2
<1>3. Chain(h) = SubSeq(all, 1, m)
  BY <1>1 DEF Chain, Lesser
<1> HIDE DEF all
<1>4. m \in Nat /\ m <= Len(all) /\ ChainMax \in Nat
  BY <1>2, ListAssumption DEF Lesser
<1> HIDE DEF m
<1>5. SubSeq(all, 1, m) \in Seq(Offsets) /\ Len(SubSeq(all, 1, m)) = m
  BY <1>2, <1>4
<1>6. \A n \in 1..m : n \in 1..Len(all) /\ SubSeq(all, 1, m)[n] = all[n]
  BY <1>2, <1>4
<1> QED BY <1>2, <1>3, <1>5, <1>6 DEF all, m

\* What LRANGE reads for a whole list is what was pushed to the key last.
LEMMA ReadsPushed ==
  ASSUME LogInv, NEW k \in Keys
  PROVE  lrange(k, 0, -1) \in {None, Newest(pushed[k], ChainMax)}
<1> DEFINE c == IF index[k] = None THEN <<>> ELSE Chain(lists[index[k]].head)
           p == pushed[k]
           m == Lesser(Len(p), ChainMax)
<1>0. p \in Seq(Values) /\ ChainMax \in Nat
  BY ListAssumption DEF LogInv, Types
<1>1. c \in Seq(Offsets) /\ Len(c) = m /\ \A n \in 1..m : disk[c[n]].val = p[n]
  <2>1. CASE index[k] = None
    <3>1. p = <<>> /\ c = <<>>
      BY <2>1 DEF LogInv, Faithful
    <3>2. Len(c) = 0 /\ c \in Seq(Offsets) /\ Len(p) = 0
      <4> HIDE DEF c, p
      <4>1. <<>> \in Seq(Offsets) /\ Len(<<>>) = 0
        OBVIOUS
      <4> QED BY <3>1, <4>1
    <3>3. m = 0
      <4> HIDE DEF p
      <4> QED BY <3>2, <1>0 DEF Lesser
    <3> HIDE DEF m, c
    <3> QED BY <3>2, <3>3
  <2>2. CASE index[k] # None
    <3> DEFINE h == lists[index[k]].head
               all == IF h = None THEN <<>> ELSE Backward(disk)[h]
    <3>1. h \in Offsets \cup {None} /\ Holds(disk, h, p)
      BY <2>2 DEF LogInv, Types, Faithful, List
    <3>2. Len(all) = Len(p) /\ \A n \in 1..Len(p) : disk[all[n]].val = p[n]
      <4>1. CASE h = None
        <5>1. p = <<>> /\ all = <<>>
          BY <3>1, <4>1 DEF Holds
        <5> HIDE DEF p, all
        <5> QED BY <5>1
      <4>2. CASE h # None
        BY <3>1, <4>2 DEF Holds
      <4> QED BY <4>1, <4>2
    <3>3. /\ all \in Seq(Offsets) /\ Chain(h) \in Seq(Offsets)
          /\ Len(Chain(h)) = Lesser(Len(all), ChainMax)
          /\ \A n \in 1..Len(Chain(h)) : n \in 1..Len(all) /\ Chain(h)[n] = all[n]
      BY <3>1, ChainOfWalk
    <3>4. c = Chain(h)
      BY <2>2
    <3> HIDE DEF c, all, h, p
    <3> QED BY <3>2, <3>3, <3>4
  <2> QED BY <2>1, <2>2
<1> DEFINE vs == [i \in 1..m |-> disk[c[i]].val]
<1>2. lrange(k, 0, -1) \in {None, vs}
  <2> HIDE DEF c, p
  <2>1. m \in Nat
    BY <1>0 DEF Lesser
  <2> DEFINE s == IF 0 < 0 THEN 0 ELSE 0
             t == IF -1 < 0 \/ -1 >= Len(c) THEN Len(c) - 1 ELSE -1
             us == [i \in 1..(IF s > t THEN 0 ELSE t - s + 1) |-> disk[c[s + i]].val]
  <2>2. s = 0 /\ t = m - 1
    BY <1>1, <2>1
  <2>3. (IF s > t THEN 0 ELSE t - s + 1) = m
    BY <2>1, <2>2
  <2>4. \A i \in 1..m : s + i = i
    BY <2>2
  <2> HIDE DEF s, t
  <2>5. us = vs
    BY <2>3, <2>4
  <2>6. lrange(k, 0, -1) = IF ReplySize(us) >= ReplyCap THEN None ELSE us
    BY DEF lrange, c, s, t
  <2> QED BY <2>5, <2>6
<1>3. vs = Newest(p, ChainMax)
  <2> HIDE DEF c, p
  <2>1. m \in Nat /\ m <= Len(p)
    BY <1>0 DEF Lesser
  <2>2. vs = [i \in 1..m |-> p[i]]
    BY <1>1
  <2>3. Newest(p, ChainMax) = SubSeq(p, 1, m)
    BY DEF Newest, Lesser
  <2> HIDE DEF m
  <2>4. SubSeq(p, 1, m) = [i \in 1..m |-> p[i]]
    BY <2>1, <1>0
  <2> QED BY <2>2, <2>3, <2>4
<1> QED BY <1>2, <1>3

\* For every log, set of keys and number of restarts: LRANGE returns what was
\* pushed to the key since the start, newest first and ChainMax at most (or
\* it does not fit the reply), LLEN counts it, and no two keys share a list.
THEOREM ListsRight == Spec => []ListsFaithful
<1>1. LogInv => ListsFaithful
  <2> SUFFICES ASSUME LogInv PROVE ListsFaithful
    OBVIOUS
  <2>1. TypeOK
    BY DEF LogInv, Types, TypeOK, List
  <2>2. \A j, k \in Keys : index[k] # None => index[k] < used /\ (index[j] = index[k] => j = k)
    BY DEF LogInv, Owners
  <2>3. \A k \in Keys : llen(k) = Len(pushed[k])
    BY DEF LogInv, Faithful, llen
  <2>4. \A k \in Keys : lrange(k, 0, -1) \in {None, Newest(pushed[k], ChainMax)}
    BY ReadsPushed
  <2> QED BY <2>1, <2>2, <2>3, <2>4 DEF ListsFaithful
<1> QED BY <1>1, LogInvariant, PTL

\* For every log and any number of restarts: the records the lists can reach
\* lie side by side before the write position; none overwrites another.
THEOREM RecordsApart == Spec => []RecordsDisjoint
<1>1. LogInv => RecordsDisjoint
  <2> SUFFICES ASSUME LogInv PROVE RecordsDisjoint
    OBVIOUS
  <2>1. ASSUME NEW i \in Indices, NEW n \in 1..Len(Chain(lists[i].head))
        PROVE  LET o == Chain(lists[i].head)[n]
               IN  o \in Offsets /\ o < write_pos /\ disk[o] # None
    <3> DEFINE h == lists[i].head
               all == IF h = None THEN <<>> ELSE Backward(disk)[h]
    <3>1. h \in Offsets \cup {None} /\ (h # None => h < write_pos /\ disk[h] # None)
      BY DEF LogInv, Types, Owners, List
    <3>2. n \in 1..Len(all) /\ Chain(h)[n] = all[n]
      BY <3>1, ChainOfWalk
    <3>3. h # None
      BY <3>2
    <3>4. disk \in Disk /\ PointsBack(disk) /\ Row(disk, write_pos) /\ write_pos \in Nat
      BY ListAssumption DEF LogInv, Types, Disk
    <3>5. h \in Offsets /\ h < write_pos /\ disk[h] # None
      BY <3>1, <3>3
    <3>6. \A x \in 1..Len(Backward(disk)[h]) :
            LET o == Backward(disk)[h][x] IN o \in Offsets /\ o < write_pos /\ disk[o] # None
      BY <3>4, <3>5, WalkInRow
    <3> QED BY <3>2, <3>3, <3>6
  <2> DEFINE Live == UNION {{Chain(lists[i].head)[n] : n \in 1..Len(Chain(lists[i].head))} : i \in Indices}
  <2>2. \A o \in Live : o \in Offsets /\ o < write_pos /\ disk[o] # None
    BY <2>1
  <2>3. \A o \in Live : End(disk, o) <= write_pos /\ \A p \in Live : o < p => End(disk, o) <= p
    <3> HIDE DEF Live
    <3> QED BY <2>2 DEF LogInv, Row
  <2> QED BY <2>3 DEF RecordsDisjoint, End
<1> QED BY <1>1, LogInvariant, PTL
=============================================================================
