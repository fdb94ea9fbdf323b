---------------------------- MODULE MCRingBuffer ----------------------------
(* Small instances of RingBuffer. *)
EXTENDS RingBuffer, TLC
=============================================================================
