---------------------------- MODULE MCRespBuffer ----------------------------
(* Small instances of RespBuffer. *)
EXTENDS RespBuffer, TLC
=============================================================================
