----------------------------- MODULE MCListLog -----------------------------
(* Small instances of ListLog: one short and one long element, one element  *)
(* the log refuses, one key the registry refuses.                           *)
EXTENDS ListLog, TLC

SizeOf == [v \in Values |-> IF v = "w" THEN 2 ELSE 1]
=============================================================================
