-------------------------------- MODULE Fifo --------------------------------
(* What the message ring promises its two users: a bounded first-in        *)
(* first-out queue of messages.                                             *)
EXTENDS Naturals, Sequences
CONSTANTS Msgs, Bound, None
VARIABLES q,   \* published and not yet polled, oldest first
          out  \* what the last successful poll returned

Init == q = <<>> /\ out = None

Put(m) == Len(q) < Bound /\ q' = Append(q, m) /\ UNCHANGED out
Take == q # <<>> /\ out' = Head(q) /\ q' = Tail(q)

Next == (\E m \in Msgs : Put(m)) \/ Take
Spec == Init /\ [][Next]_<<q, out>>

\* Weak fairness of Take, which is enabled exactly when q is not empty.
FairTake == []<>(q = <<>>) \/ []<><<Take>>_<<q, out>>
=============================================================================
