----------------------------- MODULE RingBuffer -----------------------------
(***************************************************************************)
(* The message ring of src/ring_buffer.c: one producer in                  *)
(* zedis_ring_publish, one consumer in zedis_ring_poll, no lock.  A step   *)
(* is one access to memory the two share: the loads of the two sequence    *)
(* numbers, each half of the slot, the store that hands the slot over.     *)
(* The server's thread only publishes; poll is the library's other half.   *)
(* Sequence numbers stay far below 2^64 and are not wrapped here.          *)
(*                                                                         *)
(* The accesses are in program order, as x86-64 keeps them: poll's store   *)
(* of read_seq is memory_order_relaxed and other processors may reorder it.*)
(***************************************************************************)
EXTENDS Integers, Sequences

CONSTANTS
  Names, Payloads,  \* a message: a channel, a payload of at most ZEDIS_RING_MSG_MAX
  Cap,              \* ring->capacity, a power of two
  MaxSeq,           \* bound: messages published
  None

ASSUME RingAssumption ==
  /\ Cap \in Nat \ {0} /\ MaxSeq \in Nat
  /\ None \notin Names \cup Payloads

VARIABLES
  slots, write_seq, read_seq,
  pub,   \* the producer: where it is, its message and its loads
  poll,  \* the consumer: where it is, its loads and its copy
  out,   \* what the last successful poll returned
  sent   \* history: the messages published

vars == <<slots, write_seq, read_seq, pub, poll, out, sent>>

Blank == [channel |-> None, payload |-> None]
Msgs == [channel : Names, payload : Payloads]

\* seq & (capacity - 1)
Index(seq) == seq % Cap

Idle == [pc |-> "idle", msg |-> Blank, seq |-> 0, read |-> 0]
Waiting == [pc |-> "idle", copy |-> Blank, read |-> 0]

Init ==
  /\ slots = [i \in 0..(Cap - 1) |-> Blank]
  /\ write_seq = 0 /\ read_seq = 0
  /\ pub = Idle /\ poll = Waiting
  /\ out = None /\ sent = <<>>
-----------------------------------------------------------------------------
(* zedis_ring_publish *)

\* Mutant: one message too many is let in.
Full_OffByOne(seq, read) == seq - read > Cap

Full(seq, read) == seq - read >= Cap

\* A longer payload is refused before anything is read and changes nothing.
PublishCall(m) ==
  /\ pub.pc = "idle" /\ write_seq < MaxSeq
  /\ pub' = [pc |-> "check", msg |-> m, seq |-> write_seq, read |-> 0]
  /\ UNCHANGED <<slots, write_seq, read_seq, poll, out, sent>>

PublishCheck ==
  /\ pub.pc = "check"
  /\ pub' = IF Full(pub.seq, read_seq) THEN Idle
            ELSE [pub EXCEPT !.pc = "channel", !.read = read_seq]
  /\ UNCHANGED <<slots, write_seq, read_seq, poll, out, sent>>

\* Mutant: the sequence number is stored before the payload is written.
PublishChannel_Early ==
  /\ pub.pc = "channel"
  /\ slots' = [slots EXCEPT ![Index(pub.seq)].channel = pub.msg.channel]
  /\ write_seq' = pub.seq + 1
  /\ pub' = [pub EXCEPT !.pc = "payload"]
  /\ UNCHANGED <<read_seq, poll, out, sent>>

PublishChannel ==
  /\ pub.pc = "channel"
  /\ slots' = [slots EXCEPT ![Index(pub.seq)].channel = pub.msg.channel]
  /\ pub' = [pub EXCEPT !.pc = "payload"]
  /\ UNCHANGED <<write_seq, read_seq, poll, out, sent>>

PublishPayload ==
  /\ pub.pc = "payload"
  /\ slots' = [slots EXCEPT ![Index(pub.seq)].payload = pub.msg.payload]
  /\ pub' = [pub EXCEPT !.pc = "store"]
  /\ UNCHANGED <<write_seq, read_seq, poll, out, sent>>

PublishStore ==
  /\ pub.pc = "store"
  /\ write_seq' = pub.seq + 1
  /\ sent' = Append(sent, pub.msg)
  /\ pub' = Idle
  /\ UNCHANGED <<slots, read_seq, poll, out>>
-----------------------------------------------------------------------------
(* zedis_ring_poll *)

PollCall ==
  /\ poll.pc = "idle"
  /\ poll' = [poll EXCEPT !.pc = "check", !.read = read_seq]
  /\ UNCHANGED <<slots, write_seq, read_seq, pub, out, sent>>

\* Mutant: the last message is left in the ring.
PollCheck_KeepLast ==
  /\ poll.pc = "check"
  /\ poll' = IF poll.read + 1 >= write_seq THEN Waiting
             ELSE [poll EXCEPT !.pc = "channel"]
  /\ UNCHANGED <<slots, write_seq, read_seq, pub, out, sent>>

PollCheck ==
  /\ poll.pc = "check"
  /\ poll' = IF poll.read >= write_seq THEN Waiting
             ELSE [poll EXCEPT !.pc = "channel"]
  /\ UNCHANGED <<slots, write_seq, read_seq, pub, out, sent>>

PollChannel ==
  /\ poll.pc = "channel"
  /\ poll' = [poll EXCEPT !.pc = "payload",
                          !.copy.channel = slots[Index(poll.read)].channel]
  /\ UNCHANGED <<slots, write_seq, read_seq, pub, out, sent>>

PollPayload ==
  /\ poll.pc = "payload"
  /\ poll' = [poll EXCEPT !.pc = "store",
                          !.copy.payload = slots[Index(poll.read)].payload]
  /\ UNCHANGED <<slots, write_seq, read_seq, pub, out, sent>>

PollStore ==
  /\ poll.pc = "store"
  /\ read_seq' = poll.read + 1
  /\ out' = poll.copy
  /\ poll' = Waiting
  /\ UNCHANGED <<slots, write_seq, pub, sent>>
-----------------------------------------------------------------------------
Publish == PublishCheck \/ PublishChannel \/ PublishPayload \/ PublishStore
Poll == PollCheck \/ PollChannel \/ PollPayload \/ PollStore

Next == (\E m \in Msgs : PublishCall(m)) \/ Publish \/ PollCall \/ Poll

Spec == Init /\ [][Next]_vars

\* The consumer keeps calling poll, and neither side stops inside a call.
FairSpec == Spec /\ WF_vars(Publish) /\ WF_vars(PollCall \/ Poll)
-----------------------------------------------------------------------------
Filling == pub.pc \in {"channel", "payload", "store"}
Copying == poll.pc \in {"channel", "payload", "store"}

\* Types.
TypeOK ==
  /\ slots \in [0..(Cap - 1) -> [channel : Names \cup {None}, payload : Payloads \cup {None}]]
  /\ write_seq \in 0..MaxSeq /\ read_seq \in 0..MaxSeq
  /\ pub.pc \in {"idle", "check", "channel", "payload", "store"}
  /\ poll.pc \in {"idle", "check", "channel", "payload", "store"}
  /\ out \in Msgs \cup {None}

\* The producer never fills the slot the consumer is copying, although it
\* decided on a read_seq that may be old and the two run without a lock.
SlotExclusive == Filling /\ Copying => Index(pub.seq) # Index(poll.read)

\* What poll returns was published whole, and in order: the last message
\* returned is the one numbered read_seq; and the types are right.
PolledIsPublished ==
  /\ TypeOK
  /\ read_seq <= write_seq /\ write_seq = Len(sent)
  /\ read_seq > 0 => out = sent[read_seq]

\* The ring is a bounded FIFO queue: the store of write_seq puts a message,
\* the store of read_seq takes one, every other step is invisible; and what
\* is in it is taken, by a consumer that keeps calling zedis_ring_poll.
queue == [i \in 1..(write_seq - read_seq) |-> slots[Index(read_seq + i - 1)]]
F == INSTANCE Fifo WITH q <- queue, Bound <- Cap
FifoSpec == F!Spec /\ F!FairTake
=============================================================================
