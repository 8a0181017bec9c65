---------------------------- MODULE GcVmClients ----------------------------
(***************************************************************************)
(* The calls of the C library that GcVm's Next leaves out: arrays that     *)
(* hold conses, and lisp_vm_gc_full_cycle() at any time.                   *)
(***************************************************************************)
EXTENDS GcVm

\* An array with conses in its cells.
ArrayCalls ==
  \E x \in Reachable \cap Arrays :
    \/ \E i \in 1 .. Len(cells[x]) :
         \/ \E c \in Value : SetChild(x, i, c)
         \/ \E o \in Conses : AddBulkCons(x, i, o)
    \/ \E c \in Value : AppendCell(x, c)

SpecArrays == Init /\ [][Next \/ ArrayCalls]_vars
SpecFullCycle == Init /\ [][Next \/ FullCycleAt]_vars
============================================================================
