------------------------------ MODULE MCGcVm ------------------------------
(* Small instances of GcVm and its clients for TLC.                        *)
EXTENDS GcVmClients, GcStatistics, TLC

Symmetry == Permutations(Conses) \cup Permutations(Arrays) \cup Permutations(RootCells)
=============================================================================
