----------------------------- MODULE MCWsSession -----------------------------
(* Small instances of WsSession for TLC. *)
EXTENDS WsSession, TLC

Symmetry == Permutations(Requests)
=============================================================================
