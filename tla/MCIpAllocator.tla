---------------------------- MODULE MCIpAllocator ----------------------------
(* Small instances of IpAllocator for TLC. *)
EXTENDS IpAllocator, TLC

Symmetry == Permutations(Services \ {Gateway})
=============================================================================
