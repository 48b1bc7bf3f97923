-------------------------- MODULE MCServiceRegistry --------------------------
(* Small instances of ServiceRegistry for TLC. *)
EXTENDS ServiceRegistry, TLC

Symmetry ==
  Permutations(Names) \cup Permutations(Callers) \cup Permutations(Unreliable)
    \cup Permutations(Conns \ Unreliable)
=============================================================================
