-------------------------- MODULE AllocatorClients --------------------------
(***************************************************************************)
(* Calls of the public interface that Allocator's Next leaves out because  *)
(* the collector does not survive all of them: cycle() while an array is   *)
(* scanned in part, and assignment from a cell that only the old object of *)
(* the same handle reaches.                                                *)
(***************************************************************************)
EXTENDS Allocator

\* Allocator::cycle() at any time.
CycleAnyTime == FullCycle

\* obj = cons->getCarCell(): operator=(const Cell &) roots the cell's object
\* only after the old object was unset and the collector ran.
AssignCell(h, c) ==
  /\ Program
  /\ Unroot(h)
  /\ Collect(GarbageSteps, RecycleSteps,
             [Idle EXCEPT !.op = "assignCell", !.h = h, !.car = c])
  /\ UNCHANGED <<cells, gcPosition>>

FinishAssignCell ==
  /\ Finishes("assignCell")
  /\ Root(todo.h, todo.car)
  /\ UNCHANGED <<cells, gcPosition>>

SpecCycleAnyTime == Init /\ [][Next \/ CycleAnyTime]_vars
SpecAssignCell ==
  Init /\ [][\/ Next \/ FinishAssignCell
             \/ \E h \in Handles, c \in Reachable : AssignCell(h, c)]_vars

\* test_core/memory/allocator.cpp:873 ("Allocator::step() does not remove
\* it"): what a handle reaches is never removed by the collector's steps.
StepKeepsReachable == Reachable \subseteq Live

\* object.cpp:80 and 82 assert, when a handle takes an object from a cell, that this
\* object still is where its container says: it was not disposed of by the
\* step the assignment made.
AssignsLive ==
  Returning /\ todo.op = "assignCell" => place[todo.car] \in LivePlaces
=============================================================================
