------------------------- MODULE AllocatorInvariant -------------------------
(***************************************************************************)
(* The inductive invariant behind the safety properties of Allocator.      *)
(***************************************************************************)
EXTENDS Allocator

Unscanned(K) == {o \in K : place[o] \in {"whiteRoot", "greyRoot", "grey"}}

\* gcPosition points into the array, and is 0 unless the scan has begun and
\* not ended; a cons has none.
PositionsOK ==
  /\ \A o \in Live : gcPosition[o] = 0 \/ gcPosition[o] < Len(cells[o])
  /\ \A o \in Obj : o \in Conses \/ place[o] \in {"white", "black", "blackRoot"}
                      => gcPosition[o] = 0

\* A colour map that answered "nothing to do" has nothing to do.
MarkingDone ==
  /\ pc \in {"containers", "swap"} => Unscanned(Conses) = {}
  /\ pc = "swap" => Unscanned(Arrays) = {}
  /\ pc \in {"containers", "containersOnly", "swap"} => steps > 0

\* What a call will need at its end is reachable while it runs; an assignment
\* from a cell is the exception (see PendingCell).
TodoOK ==
  /\ todo.op # "assignCell" => {todo.x, todo.car, todo.cdr} \cap Obj \subseteq Reachable
  /\ pc = "program" => todo = Idle
  /\ todo.op \in {"makeCons", "makeArray"} => todo.x \in Obj /\ todo.i \in DOMAIN cells[todo.x]
  /\ todo.op \in {"makeRootCons", "makeRootArray", "assign"} =>
       todo.h \in Handles /\ handle[todo.h] = Nil
  /\ todo.op = "assign" => todo.car \in Rooted

\* An assignment from a cell takes an object that no handle may reach any more:
\* it is alive, and the one increment of the assignment swaps only when it has
\* found nothing to scan, so that what was reachable before it is not white.
PendingCell ==
  todo.op = "assignCell" =>
    /\ todo.h \in Handles /\ handle[todo.h] = Nil
    /\ todo.car \in Live /\ todo.x = Nil /\ todo.cdr = Nil
    /\ steps <= 1
    /\ pc # "containersOnly" /\ steps = 1 /\ Unscanned(Obj) = {} => place[todo.car] # "white"

IInv == /\ TypeOK /\ RootsCounted /\ LiveClosed /\ PositionsOK
        /\ ScannedIsNotWhite /\ MarkingDone /\ TodoOK
=============================================================================
