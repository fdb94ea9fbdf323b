-------------------------- MODULE RingBufferProofs --------------------------
(***************************************************************************)
(* For every capacity, every set of messages and any number of them: the   *)
(* producer and the consumer never meet in a slot, what is polled was      *)
(* published whole and in order, and the ring implements a bounded queue.  *)
(***************************************************************************)
EXTENDS RingBuffer, TLAPS

\* Euclidean division, as the provers know it.
LEMMA DivDef ==
  ASSUME NEW a \in Nat, NEW c \in Nat \ {0}
  PROVE  /\ a % c \in 0..(c - 1)
         /\ a \div c \in Nat
         /\ a = c * (a \div c) + (a % c)
BY Z3

\* Two remainders of c differ by a multiple of c only when they are equal.
LEMMA RemaindersEqual ==
  ASSUME NEW c \in Nat \ {0}, NEW d \in Int, NEW r \in Nat, NEW s \in Nat, r < c, s < c, c * d = r - s
  PROVE  d = 0
<1>1. CASE d >= 1
  <2>1. c * d >= c
    BY <1>1, Z3
  <2> QED BY <2>1
<1>2. CASE d <= -1
  <2>1. c * d <= -c
    BY <1>2, Z3
  <2> QED BY <2>1
<1> QED BY <1>1, <1>2

\* Fewer than c steps apart, two different numbers have different remainders:
\* a window of c slots never meets itself.
LEMMA WindowDistinct ==
  ASSUME NEW c \in Nat \ {0}, NEW a \in Nat, NEW b \in Nat, a < b, b < a + c
  PROVE  a % c # b % c
<1> DEFINE p == a \div c
           q == b \div c
           r == a % c
           s == b % c
<1>1. /\ p \in Nat /\ r \in 0..(c - 1) /\ a = c * p + r
      /\ q \in Nat /\ s \in 0..(c - 1) /\ b = c * q + s
  BY DivDef
<1> HIDE DEF p, q, r, s
<1> SUFFICES ASSUME r = s PROVE FALSE
  BY DEF r, s
<1>2. c * (q - p) = b - a
  <2>1. c * (q - p) = c * q - c * p
    BY <1>1, Z3
  <2> QED BY <1>1, <2>1
<1>3. q - p = 0
  BY <1>1, <1>2, RemaindersEqual
<1> QED BY <1>1, <1>2, <1>3

PC == {"idle", "check", "channel", "payload", "store"}
Slot == [channel : Names \cup {None}, payload : Payloads \cup {None}]

\* The types, with those of the two threads' local variables.
Types ==
  /\ slots \in [0..(Cap - 1) -> Slot]
  /\ write_seq \in 0..MaxSeq /\ read_seq \in 0..MaxSeq
  /\ pub \in [pc : PC, msg : Msgs \cup {Blank}, seq : Nat, read : Nat]
  /\ poll \in [pc : PC, copy : Slot, read : Nat]
  /\ out \in Msgs \cup {None} /\ sent \in Seq(Msgs)

\* The ring never holds more than Cap messages, and holds fewer whenever the
\* producer is filling a slot: the read_seq it loaded is at most today's.
Occupancy ==
  /\ write_seq = Len(sent) /\ read_seq <= write_seq /\ write_seq - read_seq <= Cap
  /\ pub.pc # "idle" => pub.seq = write_seq /\ pub.msg \in Msgs /\ write_seq < MaxSeq
  /\ Filling => pub.read <= read_seq /\ ~Full(pub.seq, pub.read)
  /\ poll.pc # "idle" => poll.read = read_seq
  /\ Copying => poll.read < write_seq

\* Every message between the two sequence numbers lies in its slot, and so
\* does as much of the next one as the producer has written.
Contents ==
  /\ \A n \in read_seq..(write_seq - 1) : slots[Index(n)] = sent[n + 1]
  /\ pub.pc \in {"payload", "store"} => slots[Index(pub.seq)].channel = pub.msg.channel
  /\ pub.pc = "store" => slots[Index(pub.seq)].payload = pub.msg.payload

\* The consumer's copy is, half by half, the oldest message; what it returned
\* last is the message before.
Copied ==
  /\ poll.pc \in {"payload", "store"} => poll.copy.channel = sent[read_seq + 1].channel
  /\ poll.pc = "store" => poll.copy.payload = sent[read_seq + 1].payload
  /\ out = IF read_seq = 0 THEN None ELSE sent[read_seq]

RingInv == Types /\ Occupancy /\ Contents /\ Copied
-----------------------------------------------------------------------------
\* seq & (capacity - 1) is a slot of the ring.
LEMMA IndexInRing ==
  ASSUME NEW n \in Nat
  PROVE  Index(n) \in 0..(Cap - 1)
BY RingAssumption, DivDef DEF Index

\* A slot with the two halves of a message is that message.
LEMMA HalvesMakeSlot ==
  ASSUME NEW s \in Slot, NEW m \in Msgs, s.channel = m.channel, s.payload = m.payload
  PROVE  s = m
BY DEF Slot, Msgs

\* A slot can hold every message and the blank one.
LEMMA MsgsAreSlots == Msgs \subseteq Slot /\ Blank \in Slot
BY DEF Msgs, Slot, Blank

\* The slot being filled is none of those that hold a message.
LEMMA FillsFreeSlot ==
  ASSUME Types, Occupancy, Filling, NEW n \in read_seq..(write_seq - 1)
  PROVE  Index(n) # Index(pub.seq)
<1>1. /\ write_seq \in Nat /\ read_seq \in Nat /\ pub.read \in Nat
      /\ pub.seq = write_seq /\ pub.read <= read_seq /\ ~(pub.seq - pub.read >= Cap)
      /\ Cap \in Nat \ {0}
  BY RingAssumption DEF Types, Occupancy, Filling, Full
<1>2. n \in Nat /\ n < pub.seq /\ pub.seq < n + Cap
  BY <1>1
<1> QED BY <1>1, <1>2, WindowDistinct DEF Index

\* The messages numbered are messages.
LEMMA SentTyped ==
  ASSUME Types, Occupancy, NEW n \in 1..write_seq
  PROVE  sent[n] \in Msgs
BY DEF Types, Occupancy

\* The ring starts empty.
LEMMA RingInit == Init => RingInv
<1> SUFFICES ASSUME Init PROVE RingInv
  OBVIOUS
<1>1. Types
  BY RingAssumption, MsgsAreSlots DEF Init, Types, Idle, Waiting, PC
<1>2. Occupancy
  BY RingAssumption DEF Init, Occupancy, Idle, Waiting, Filling, Copying
<1>3. Contents /\ Copied
  BY DEF Init, Contents, Copied, Idle, Waiting
<1> QED BY <1>1, <1>2, <1>3 DEF RingInv

\* Each access to the ring keeps the invariant.
LEMMA RingStep == RingInv /\ [Next]_vars => RingInv'
<1> SUFFICES ASSUME RingInv, [Next]_vars PROVE RingInv'
  OBVIOUS
<1> USE DEF RingInv
<1>0. Cap \in Nat \ {0} /\ MaxSeq \in Nat /\ write_seq \in Nat /\ read_seq \in Nat
  BY RingAssumption DEF Types
<1>1. ASSUME NEW m \in Msgs, PublishCall(m) PROVE RingInv'
  <2>1. Types'
    BY <1>0, <1>1 DEF PublishCall, Types, PC
  <2>2. Occupancy'
    BY <1>0, <1>1 DEF PublishCall, Types, Occupancy, Filling, Copying
  <2>3. Contents' /\ Copied'
    BY <1>1 DEF PublishCall, Types, Contents, Copied, Index
  <2> QED BY <2>1, <2>2, <2>3
<1>2. ASSUME PublishCheck PROVE RingInv'
  <2>1. Types'
    BY <1>0, <1>2 DEF PublishCheck, Types, PC, Idle
  <2>2. Occupancy'
    BY <1>0, <1>2 DEF PublishCheck, Types, Occupancy, Filling, Copying, Idle, Full
  <2>3. Contents' /\ Copied'
    BY <1>2 DEF PublishCheck, Types, Contents, Copied, Index, Idle
  <2> QED BY <2>1, <2>2, <2>3
<1>3. ASSUME PublishChannel PROVE RingInv'
  <2>1. Filling /\ pub.seq \in Nat /\ Index(pub.seq) \in 0..(Cap - 1) /\ pub.msg \in Msgs
    BY <1>3, IndexInRing DEF PublishChannel, Filling, Types, Occupancy
  <2>2. Types'
    BY <1>0, <1>3, <2>1 DEF PublishChannel, Types, PC, Slot, Msgs
  <2>3. Occupancy'
    BY <1>0, <1>3 DEF PublishChannel, Types, Occupancy, Filling, Copying, Full
  <2>4. \A n \in read_seq..(write_seq - 1) : slots'[Index(n)] = slots[Index(n)]
    BY <1>0, <1>3, <2>1, FillsFreeSlot, IndexInRing DEF PublishChannel, Types
  <2>5. slots'[Index(pub.seq)].channel = pub.msg.channel
    BY <1>3, <2>1 DEF PublishChannel, Types, Slot
  <2>6. Contents'
    BY <1>0, <1>3, <2>4, <2>5 DEF PublishChannel, Types, Contents, Index
  <2>7. Copied'
    BY <1>3 DEF PublishChannel, Copied
  <2> QED BY <2>2, <2>3, <2>6, <2>7
<1>4. ASSUME PublishPayload PROVE RingInv'
  <2>1. Filling /\ pub.seq \in Nat /\ Index(pub.seq) \in 0..(Cap - 1) /\ pub.msg \in Msgs
    BY <1>4, IndexInRing DEF PublishPayload, Filling, Types, Occupancy
  <2>2. Types'
    BY <1>0, <1>4, <2>1 DEF PublishPayload, Types, PC, Slot, Msgs
  <2>3. Occupancy'
    BY <1>0, <1>4 DEF PublishPayload, Types, Occupancy, Filling, Copying, Full
  <2>4. \A n \in read_seq..(write_seq - 1) : slots'[Index(n)] = slots[Index(n)]
    BY <1>0, <1>4, <2>1, FillsFreeSlot, IndexInRing DEF PublishPayload, Types
  <2>5. /\ slots'[Index(pub.seq)].payload = pub.msg.payload
        /\ slots'[Index(pub.seq)].channel = pub.msg.channel
    BY <1>4, <2>1 DEF PublishPayload, Types, Slot, Contents
  <2>6. Contents'
    BY <1>0, <1>4, <2>4, <2>5 DEF PublishPayload, Types, Contents, Index
  <2>7. Copied'
    BY <1>4 DEF PublishPayload, Copied
  <2> QED BY <2>2, <2>3, <2>6, <2>7
<1>5. ASSUME PublishStore PROVE RingInv'
  <2>1. /\ Filling /\ pub.seq = write_seq /\ pub.msg \in Msgs /\ write_seq < MaxSeq
        /\ write_seq - read_seq < Cap /\ Index(write_seq) \in 0..(Cap - 1)
    <3>1. pub.pc = "store" /\ Filling /\ pub.read \in Nat
      BY <1>5 DEF PublishStore, Filling, Types
    <3>2. /\ pub.seq = write_seq /\ pub.msg \in Msgs /\ write_seq < MaxSeq
          /\ pub.read <= read_seq /\ ~(pub.seq - pub.read >= Cap)
      BY <3>1 DEF Occupancy, Full
    <3>3. write_seq - read_seq < Cap
      BY <1>0, <3>1, <3>2
    <3> QED BY <1>0, <3>1, <3>2, <3>3, IndexInRing
  <2>2. /\ sent' \in Seq(Msgs) /\ Len(sent') = write_seq + 1 /\ write_seq' = write_seq + 1
        /\ sent'[write_seq + 1] = pub.msg
        /\ \A n \in 1..write_seq : sent'[n] = sent[n]
    BY <1>0, <1>5, <2>1 DEF PublishStore, Types, Occupancy
  <2>3. Types'
    BY <1>0, <1>5, <2>1, <2>2 DEF PublishStore, Types, PC, Idle
  <2>4. Occupancy'
    BY <1>0, <1>5, <2>1, <2>2 DEF PublishStore, Types, Occupancy, Filling, Copying, Idle
  <2>5. slots[Index(write_seq)] = pub.msg
    BY <1>5, <2>1, HalvesMakeSlot DEF PublishStore, Types, Contents
  <2>6. Contents'
    <3>1. \A n \in read_seq..(write_seq - 1) : slots[Index(n)] = sent'[n + 1]
      BY <1>0, <2>2 DEF Contents
    <3>2. \A n \in read_seq..(write_seq' - 1) : slots[Index(n)] = sent'[n + 1]
      BY <1>0, <2>2, <2>5, <3>1
    <3> QED BY <1>5, <3>2 DEF PublishStore, Contents, Idle
  <2>7. Copied'
    <3>1. poll.pc \in {"payload", "store"} => read_seq + 1 \in 1..write_seq
      BY <1>0 DEF Occupancy, Copying
    <3>2. read_seq # 0 => read_seq \in 1..write_seq
      BY <1>0 DEF Occupancy
    <3> QED BY <1>5, <2>2, <3>1, <3>2 DEF PublishStore, Copied
  <2> QED BY <2>3, <2>4, <2>6, <2>7
<1>6. ASSUME PollCall PROVE RingInv'
  <2>1. Types'
    BY <1>0, <1>6 DEF PollCall, Types, PC
  <2>2. Occupancy'
    BY <1>0, <1>6 DEF PollCall, Types, Occupancy, Filling, Copying
  <2>3. Contents' /\ Copied'
    BY <1>6 DEF PollCall, Types, Contents, Copied, Index
  <2> QED BY <2>1, <2>2, <2>3
<1>7. ASSUME PollCheck PROVE RingInv'
  <2>1. Types'
    BY <1>0, <1>7, MsgsAreSlots DEF PollCheck, Types, PC, Waiting
  <2>2. Occupancy'
    BY <1>0, <1>7 DEF PollCheck, Types, Occupancy, Filling, Copying, Waiting
  <2>3. Contents' /\ Copied'
    BY <1>7 DEF PollCheck, Types, Contents, Copied, Index, Waiting
  <2> QED BY <2>1, <2>2, <2>3
\* Both halves are copied from the slot of the oldest message.
<1>8. Copying => /\ poll.read = read_seq /\ read_seq + 1 \in 1..write_seq
                 /\ slots[Index(poll.read)] = sent[read_seq + 1]
                 /\ sent[read_seq + 1] \in Msgs
  <2> SUFFICES ASSUME Copying PROVE /\ poll.read = read_seq /\ read_seq + 1 \in 1..write_seq
                                    /\ slots[Index(poll.read)] = sent[read_seq + 1]
                                    /\ sent[read_seq + 1] \in Msgs
    OBVIOUS
  <2>1. poll.read = read_seq /\ read_seq \in read_seq..(write_seq - 1)
    BY <1>0 DEF Occupancy, Copying
  <2> QED BY <1>0, <2>1, SentTyped DEF Contents
<1>9. ASSUME PollChannel PROVE RingInv'
  <2>0. Copying
    BY <1>9 DEF PollChannel, Copying
  <2>1. Types'
    BY <1>0, <1>8, <1>9, <2>0 DEF PollChannel, Types, PC, Slot, Msgs
  <2>2. Occupancy'
    BY <1>0, <1>9 DEF PollChannel, Types, Occupancy, Filling, Copying
  <2>3. Contents'
    BY <1>9 DEF PollChannel, Contents, Index
  <2>4. Copied'
    BY <1>8, <1>9, <2>0 DEF PollChannel, Types, Slot, Copied
  <2> QED BY <2>1, <2>2, <2>3, <2>4
<1>10. ASSUME PollPayload PROVE RingInv'
  <2>0. Copying
    BY <1>10 DEF PollPayload, Copying
  <2>1. Types'
    BY <1>0, <1>8, <1>10, <2>0 DEF PollPayload, Types, PC, Slot, Msgs
  <2>2. Occupancy'
    BY <1>0, <1>10 DEF PollPayload, Types, Occupancy, Filling, Copying
  <2>3. Contents'
    BY <1>10 DEF PollPayload, Contents, Index
  <2>4. Copied'
    BY <1>8, <1>10, <2>0 DEF PollPayload, Types, Slot, Copied
  <2> QED BY <2>1, <2>2, <2>3, <2>4
<1>11. ASSUME PollStore PROVE RingInv'
  <2>0. Copying
    BY <1>11 DEF PollStore, Copying
  <2>1. poll.copy = sent[read_seq + 1]
    BY <1>8, <1>11, <2>0, HalvesMakeSlot DEF PollStore, Types, Copied
  <2>2. Types'
    BY <1>0, <1>8, <1>11, <2>0, <2>1, MsgsAreSlots DEF PollStore, Types, PC, Waiting
  <2>3. Occupancy'
    BY <1>0, <1>8, <1>11, <2>0 DEF PollStore, Types, Occupancy, Filling, Copying, Waiting, Full
  <2>4. Contents'
    BY <1>0, <1>8, <1>11, <2>0 DEF PollStore, Types, Contents, Index
  <2>5. Copied'
    BY <1>0, <1>8, <1>11, <2>0, <2>1 DEF PollStore, Copied, Waiting
  <2> QED BY <2>2, <2>3, <2>4, <2>5
<1>12. CASE UNCHANGED vars
  BY <1>12 DEF vars, Types, Occupancy, Contents, Copied, Filling, Copying, Full, Index
<1> QED BY <1>1, <1>2, <1>3, <1>4, <1>5, <1>6, <1>7, <1>9, <1>10, <1>11, <1>12
        DEF Next, Publish, Poll

\* The invariant holds in every reachable state.
LEMMA RingInvariant == Spec => []RingInv
BY RingInit, RingStep, PTL DEF Spec

\* For every capacity: zedis_ring_publish never fills the slot that
\* zedis_ring_poll is copying, however old the read_seq it decided on.
THEOREM SlotsExclusive == Spec => []SlotExclusive
<1>1. RingInv => SlotExclusive
  <2> SUFFICES ASSUME RingInv, Filling, Copying PROVE Index(pub.seq) # Index(poll.read)
    BY DEF SlotExclusive
  <2>1. poll.read \in read_seq..(write_seq - 1)
    BY DEF RingInv, Types, Occupancy, Copying
  <2> QED BY <2>1, FillsFreeSlot DEF RingInv
<1> QED BY <1>1, RingInvariant, PTL

\* For every capacity: the message zedis_ring_poll returned last was published
\* whole, and it is the one numbered read_seq.
THEOREM PolledPublished == Spec => []PolledIsPublished
<1>1. RingInv => PolledIsPublished
  <2> SUFFICES ASSUME RingInv PROVE PolledIsPublished
    OBVIOUS
  <2>1. TypeOK
    BY DEF RingInv, Types, TypeOK, PC, Slot
  <2> QED BY <2>1 DEF RingInv, Types, Occupancy, Copied, PolledIsPublished
<1> QED BY <1>1, RingInvariant, PTL
-----------------------------------------------------------------------------
(* The ring implements a bounded queue *)

\* The messages sent and not yet polled.
Pending == [i \in 1..(write_seq - read_seq) |-> sent[read_seq + i]]

\* Two sequences of the same length with the same elements are the same.
LEMMA SameSequence ==
  ASSUME NEW S, NEW s \in Seq(S), NEW t \in Seq(S), Len(s) = Len(t),
         \A i \in 1..Len(s) : s[i] = t[i]
  PROVE  s = t
OBVIOUS

\* What appending returns, element by element.
LEMMA Appended ==
  ASSUME NEW S, NEW s \in Seq(S), NEW x \in S
  PROVE  /\ Append(s, x) \in Seq(S) /\ Len(Append(s, x)) = Len(s) + 1
         /\ Append(s, x)[Len(s) + 1] = x
         /\ \A i \in 1..Len(s) : Append(s, x)[i] = s[i]
OBVIOUS

\* In a state of the ring, the slots between the two sequence numbers hold them.
LEMMA QueueIsPending ==
  RingInv => /\ queue = Pending /\ queue \in Seq(Msgs)
             /\ Len(queue) = write_seq - read_seq
<1> SUFFICES ASSUME RingInv
             PROVE  queue = Pending /\ queue \in Seq(Msgs) /\ Len(queue) = write_seq - read_seq
  OBVIOUS
<1>1. write_seq \in Nat /\ read_seq \in Nat /\ read_seq <= write_seq
  BY DEF RingInv, Types, Occupancy
<1>2. ASSUME NEW i \in 1..(write_seq - read_seq)
      PROVE  slots[Index(read_seq + i - 1)] = sent[read_seq + i] /\ sent[read_seq + i] \in Msgs
  <2>1. read_seq + i - 1 \in read_seq..(write_seq - 1) /\ (read_seq + i - 1) + 1 = read_seq + i
    BY <1>1
  <2>2. read_seq + i \in 1..write_seq
    BY <1>1
  <2>3. slots[Index(read_seq + i - 1)] = sent[(read_seq + i - 1) + 1]
    BY <2>1 DEF RingInv, Contents
  <2> QED BY <2>1, <2>2, <2>3, SentTyped DEF RingInv
<1>3. queue = Pending
  BY <1>2 DEF queue, Pending
<1> DEFINE n == write_seq - read_seq
<1>4. n \in Nat
  BY <1>1
<1>5. Pending \in [1..n -> Msgs]
  BY <1>2 DEF Pending
<1> HIDE DEF n
<1>6. Pending \in Seq(Msgs) /\ Len(Pending) = n
  BY <1>4, <1>5
<1> QED BY <1>3, <1>6 DEF n

\* For every capacity and every interleaving of the two threads, the ring is a
\* bounded first-in first-out queue: the store of write_seq appends a message,
\* the store of read_seq takes the oldest and returns it, every other access
\* to a slot or a sequence number is invisible.
THEOREM RingIsFifo == Spec => F!Spec
<1>1. Init => F!Init
  <2> SUFFICES ASSUME Init PROVE F!Init
    OBVIOUS
  <2>1. write_seq - read_seq = 0
    BY DEF Init
  <2>2. queue = <<>>
    BY <2>1 DEF queue
  <2> QED BY <2>2 DEF Init, F!Init
<1>2. RingInv' => (queue = Pending /\ queue \in Seq(Msgs) /\ Len(queue) = write_seq - read_seq)'
  BY QueueIsPending, PTL
<1>3. RingInv /\ RingInv' /\ [Next]_vars => [F!Next]_<<queue, out>>
  <2> SUFFICES ASSUME RingInv, RingInv', [Next]_vars PROVE [F!Next]_<<queue, out>>
    OBVIOUS
  <2>0. /\ write_seq \in Nat /\ read_seq \in Nat /\ read_seq <= write_seq
        /\ write_seq = Len(sent) /\ sent \in Seq(Msgs)
    BY DEF RingInv, Types, Occupancy
  <2>1. /\ queue \in Seq(Msgs) /\ Len(queue) = write_seq - read_seq
        /\ \A i \in 1..(write_seq - read_seq) : queue[i] = sent[read_seq + i]
    BY QueueIsPending DEF Pending
  <2>2. /\ queue' \in Seq(Msgs) /\ Len(queue') = write_seq' - read_seq'
        /\ \A i \in 1..(write_seq' - read_seq') : queue'[i] = sent'[read_seq' + i]
    BY <1>2 DEF Pending
  <2>3. CASE PublishStore
    <3>1. /\ pub.seq = write_seq /\ pub.msg \in Msgs /\ Filling /\ pub.read \in Nat
          /\ pub.read <= read_seq /\ ~(pub.seq - pub.read >= Cap)
      BY <2>3 DEF PublishStore, RingInv, Types, Occupancy, Filling, Full
    <3>2. Len(queue) < Cap
      BY <2>0, <2>1, <3>1, RingAssumption
    <3>3. /\ read_seq' = read_seq /\ write_seq' = write_seq + 1
          /\ sent' = Append(sent, pub.msg) /\ UNCHANGED out
      BY <2>3, <3>1 DEF PublishStore
    <3>4. ASSUME NEW i \in 1..Len(queue') PROVE queue'[i] = Append(queue, pub.msg)[i]
      <4>1. i \in 1..(Len(queue) + 1) /\ queue'[i] = sent'[read_seq + i]
        <5>1. write_seq' - read_seq' = Len(queue) + 1
          BY <2>0, <2>1, <3>3
        <5> QED BY <2>2, <3>3, <5>1
      <4>2. CASE i <= Len(queue)
        <5>1. read_seq + i \in 1..Len(sent) /\ queue[i] = sent[read_seq + i]
          BY <2>0, <2>1, <4>1, <4>2
        <5>2. sent'[read_seq + i] = sent[read_seq + i]
          BY <2>0, <3>1, <3>3, <5>1
        <5> QED BY <2>1, <3>1, <4>1, <4>2, <5>1, <5>2
      <4>3. CASE i = Len(queue) + 1
        <5>1. read_seq + i = Len(sent) + 1
          BY <2>0, <2>1, <4>3
        <5>2. sent'[read_seq + i] = pub.msg
          BY <2>0, <3>1, <3>3, <5>1, Appended
        <5> QED BY <2>1, <3>1, <4>1, <4>3, <5>2, Appended
      <4> QED BY <2>1, <4>1, <4>2, <4>3
    <3>5. queue' = Append(queue, pub.msg)
      <4>1. Append(queue, pub.msg) \in Seq(Msgs) /\ Len(queue') = Len(Append(queue, pub.msg))
        BY <2>0, <2>1, <2>2, <3>1, <3>3, Appended
      <4> QED BY <2>2, <3>4, <4>1, SameSequence
    <3> QED BY <3>1, <3>2, <3>3, <3>5 DEF F!Next, F!Put
  <2>4. CASE PollStore
    <3>1. /\ poll.read = read_seq /\ read_seq < write_seq /\ poll.copy \in Slot
          /\ poll.copy.channel = sent[read_seq + 1].channel
          /\ poll.copy.payload = sent[read_seq + 1].payload
      BY <2>4 DEF PollStore, RingInv, Types, Occupancy, Copied, Copying
    <3>2. poll.copy = sent[read_seq + 1]
      BY <2>0, <3>1, HalvesMakeSlot
    <3>3. /\ read_seq' = read_seq + 1 /\ write_seq' = write_seq
          /\ sent' = sent /\ out' = sent[read_seq + 1]
      BY <2>4, <3>1, <3>2 DEF PollStore
    <3>4. queue # <<>> /\ Head(queue) = sent[read_seq + 1]
      BY <2>0, <2>1, <3>1
    <3>5. /\ Tail(queue) \in Seq(Msgs) /\ Len(Tail(queue)) = Len(queue')
          /\ \A i \in 1..Len(queue') : queue'[i] = Tail(queue)[i]
      <4>1. Tail(queue) \in Seq(Msgs) /\ Len(Tail(queue)) = Len(queue) - 1
        BY <2>1, <3>4
      <4>2. Len(queue') = Len(queue) - 1 /\ Len(queue') = write_seq' - read_seq'
        BY <2>0, <2>1, <2>2, <3>3
      <4>3. ASSUME NEW i \in 1..Len(queue') PROVE queue'[i] = Tail(queue)[i]
        <5>1. queue'[i] = sent[(read_seq + 1) + i]
          BY <2>2, <3>3, <4>2
        <5>2. Len(queue) \in Nat /\ i \in 1..(Len(queue) - 1) /\ i + 1 \in 1..Len(queue)
          BY <2>1, <4>2
        <5>3. Tail(queue)[i] = queue[i + 1]
          BY <2>1, <3>4, <5>2
        <5>4. queue[i + 1] = sent[read_seq + (i + 1)] /\ read_seq + (i + 1) = (read_seq + 1) + i
          BY <2>0, <2>1, <5>2
        <5> QED BY <5>1, <5>3, <5>4
      <4> QED BY <4>1, <4>2, <4>3
    <3>6. queue' = Tail(queue)
      BY <2>2, <3>5, SameSequence
    <3> QED BY <3>3, <3>4, <3>6 DEF F!Next, F!Take
  <2>5. CASE ~PublishStore /\ ~PollStore
    <3>1. UNCHANGED <<write_seq, read_seq, sent, out>>
      BY <2>5 DEF Next, Publish, Poll, PublishCall, PublishCheck, PublishChannel, PublishPayload,
                  PollCall, PollCheck, PollChannel, PollPayload, vars
    <3>2. queue' = queue
      BY <2>1, <2>2, <3>1, SameSequence
    <3> QED BY <3>1, <3>2
  <2> QED BY <2>3, <2>4, <2>5
<1> QED BY <1>1, <1>3, RingInvariant, PTL DEF Spec, F!Spec
=============================================================================
