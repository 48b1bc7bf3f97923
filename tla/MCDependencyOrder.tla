-------------------------- MODULE MCDependencyOrder --------------------------
(* Every configuration of a few services, for TLC. *)
EXTENDS DependencyOrder, TLC

=============================================================================
