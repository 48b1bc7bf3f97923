----------------------------- MODULE MCTemplates -----------------------------
(* Templates of a few pieces, for TLC. *)
EXTENDS Templates, TLC

=============================================================================
