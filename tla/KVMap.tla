------------------------------- MODULE KVMap -------------------------------
(***************************************************************************)
(* What a fixed-capacity key-value table promises its caller: one call is  *)
(* outstanding at a time, a SET stores, a GET answers with the value of    *)
(* the last successful SET, a DEL removes, and a SET is refused only when  *)
(* an argument is too long or the distinct keys reach the load limit.      *)
(* HashTable (src/hash_table.c) is compared with this specification.       *)
(***************************************************************************)
EXTENDS Integers, FiniteSets

CONSTANTS Keys, Values, LongKeys, LongValues, Cap, None

VARIABLES
  store,   \* the value each key holds, None when absent
  req,     \* the outstanding call, op = "idle" when there is none
  last     \* the last completed call and its answer

vars == <<store, req, last>>

NoReq == [op |-> "idle", key |-> None, value |-> None]

Held == {k \in Keys : store[k] # None}

Init ==
  /\ store = [k \in Keys |-> None]
  /\ req = NoReq
  /\ last = [op |-> "idle", key |-> None, value |-> None, ret |-> None]

Answer(r) ==
  /\ last' = [op |-> req.op, key |-> req.key, value |-> req.value, ret |-> r]
  /\ req' = NoReq

Call(o, k, v) ==
  /\ req.op = "idle"
  /\ req' = [op |-> o, key |-> k, value |-> v]
  /\ UNCHANGED <<store, last>>

\* The caller sees a refusal and a call in one step.
Refuse(k, v) ==
  /\ req.op = "idle"
  /\ k \in LongKeys \/ v \in LongValues \/ Cardinality(Held) * 10 >= Cap * 7
  /\ last' = [op |-> "set", key |-> k, value |-> v, ret |-> "err"]
  /\ UNCHANGED <<store, req>>

Set ==
  /\ req.op = "set"
  /\ store' = [store EXCEPT ![req.key] = req.value]
  /\ Answer("ok")

Get ==
  /\ req.op = "get"
  /\ Answer(store[req.key])
  /\ UNCHANGED store

Del ==
  /\ req.op = "del"
  /\ store' = [store EXCEPT ![req.key] = None]
  /\ Answer(IF store[req.key] = None THEN None ELSE "ok")

Next ==
  \/ \E k \in Keys, v \in Values : Refuse(k, v) \/ Call("set", k, v)
  \/ \E k \in Keys, o \in {"get", "del"} : Call(o, k, None)
  \/ Set \/ Get \/ Del

Spec == Init /\ [][Next]_vars
=============================================================================
