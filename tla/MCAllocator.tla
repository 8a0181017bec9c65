---------------------------- MODULE MCAllocator ----------------------------
(* Small instances of Allocator and its clients for TLC.                   *)
EXTENDS AllocatorInvariant, AllocatorClients, TLC

Symmetry == Permutations(Conses) \cup Permutations(Arrays) \cup Permutations(Handles)
=============================================================================
