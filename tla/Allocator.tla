----------------------------- MODULE Allocator -----------------------------
(***************************************************************************)
(* The incremental collector of lpp/core/memory: one Lisp::Allocator with  *)
(* its two colour maps (conses and containers), the write barriers of      *)
(* BasicCons and Array, and the handles (Lisp::Object) that root objects   *)
(* and drive the collector.                                                *)
(*                                                                         *)
(* The program is single threaded.  Creating an object and dropping a      *)
(* handle run Allocator::step() and Allocator::recycle() before they       *)
(* finish; pc says where such a call stands, and the program acts again    *)
(* when pc is "program".  The vectors of a CollectibleContainer are sets   *)
(* here: the collector takes any element where the code takes back().      *)
(***************************************************************************)
EXTENDS Naturals, Sequences, FiniteSets, Functions, Reachability

CONSTANTS
  Conses, Arrays,    \* the storage: bounds how many objects exist at once
  Handles,           \* the Lisp::Object variables of the program
  Nil,
  GarbageSteps, RecycleSteps,
  MaxSize            \* bound on the size of an Array

ASSUME StorageAssumption == /\ Conses \cap Arrays = {}
                            /\ Nil \notin Conses \cup Arrays \cup Handles
ASSUME BoundsAssumption == /\ GarbageSteps \in Nat /\ RecycleSteps \in Nat
                           /\ MaxSize \in Nat
                           /\ IsFiniteSet(Handles)

Obj == Conses \cup Arrays
Cell == Obj \cup {Nil}

VARIABLES
  place,      \* the CollectibleContainer (or list) an object is in
  refCount,   \* Collectible::refCount
  cells,      \* car and cdr of a cons, the data of an array
  gcPosition, \* Array::gcPosition
  handle,     \* the object a Lisp::Object holds, or Nil
  pc,         \* where the running library call stands
  steps,      \* iterations left in Allocator::step()
  budget,     \* Allocator::recycle()'s i
  todo        \* what the running call does when the collector is through

vars == <<place, refCount, cells, gcPosition, handle, pc, steps, budget, todo>>
heap == <<refCount, cells, handle>>
control == <<pc, steps, budget, todo>>

---------------------------------------------------------------------------
(* Containers of a colour map, and the moves its constructor links.        *)

BulkPlaces == {"white", "grey", "black"}
RootPlaces == {"whiteRoot", "greyRoot", "blackRoot"}
LivePlaces == BulkPlaces \cup RootPlaces
Places == LivePlaces \cup {"void", "disposed", "recycling"}

\* greyElements: only a white object moves.
GreyElements(p) == CASE p = "white"     -> "grey"
                     [] p = "whiteRoot" -> "greyRoot"
                     [] OTHER           -> p
\* toElements, as BasicCons::gcStep() uses it.
ToElements(p) == CASE p = "white"     -> "grey"
                   [] p = "grey"      -> "black"
                   [] p = "whiteRoot" -> "greyRoot"
                   [] p = "greyRoot"  -> "blackRoot"
                   [] OTHER           -> p
\* Mutant: a root that loses its last handle turns white.
OtherElementsToWhite(p) == CASE p \in BulkPlaces -> "whiteRoot"
                             [] p \in RootPlaces -> "white"
                             [] OTHER            -> p
\* otherElements: a root that loses its last handle never turns white.
OtherElements(p) == CASE p \in BulkPlaces   -> "whiteRoot"
                      [] p = "blackRoot"    -> "black"
                      [] p \in {"whiteRoot", "greyRoot"} -> "grey"
                      [] OTHER              -> p
\* Where step() puts an object whose children have all been greyed.
Scanned(p) == IF p \in RootPlaces THEN "blackRoot" ELSE "black"
\* Mutants: swap() exchanges the roles before it disposes of white; it forgets
\* to exchange them.
SwappedFirst(p) == CASE p = "white"     -> "black"
                     [] p = "black"     -> "disposed"
                     [] p = "blackRoot" -> "whiteRoot"
                     [] p = "whiteRoot" -> "blackRoot"
                     [] OTHER           -> p
SwappedNothing(p) == IF p = "white" THEN "disposed" ELSE p
\* ColorMap::swap(): white is disposed, black and white change their roles.
Swapped(p) == CASE p = "white"     -> "disposed"
                [] p = "black"     -> "white"
                [] p = "blackRoot" -> "whiteRoot"
                [] p = "whiteRoot" -> "blackRoot"
                [] OTHER           -> p

In(ps) == {o \in Obj : place[o] \in ps}
Live == In(LivePlaces)
Kids == [o \in Obj |-> Range(cells[o]) \cap Obj]
Rooted == In(RootPlaces)

\* Allocator::forEachReachable(), which starts from the root containers.
Reachable == Reach(Rooted, Kids)
\* What the program can name: the cells it gets to from its handles.
Value == Reachable \cup {Nil}

\* The containers p after Cell::grey() on every object of S.
GreyAll(p, S) == [o \in Obj |-> IF o \in S THEN GreyElements(p[o]) ELSE p[o]]

\* Mutant: step() looks at the root containers only.
NextScanRoots(K) ==
  LET first(p) == {o \in K : place[o] = p}
  IN  IF first("whiteRoot") # {} THEN first("whiteRoot") ELSE first("greyRoot")

\* The objects the next ColorMap::step() may take.
NextScan(K) ==
  LET first(p) == {o \in K : place[o] = p}
  IN  IF first("whiteRoot") # {} THEN first("whiteRoot")
      ELSE IF first("greyRoot") # {} THEN first("greyRoot")
      ELSE first("grey")

---------------------------------------------------------------------------
(* The collector.                                                          *)

Idle == [op |-> "none", h |-> Nil, x |-> Nil, i |-> 0, car |-> Nil, cdr |-> Nil]

\* A library call that collects first and finishes with t.
Collect(n, r, t) == /\ pc' = "conses" /\ steps' = n /\ budget' = r /\ todo' = t

Init ==
  /\ place = [o \in Obj |-> "void"]
  /\ refCount = [o \in Obj |-> 0]
  /\ cells = [o \in Obj |-> <<>>]
  /\ gcPosition = [o \in Obj |-> 0]
  /\ handle = [h \in Handles |-> Nil]
  /\ pc = "program" /\ steps = 0 /\ budget = 0 /\ todo = Idle

\* consMap.step() on a cons: grey both children, then blacken it.
ScanCons(o) ==
  /\ pc = "conses" /\ steps > 0
  /\ o \in NextScan(Conses)
  /\ place' = [GreyAll(place, Kids[o]) EXCEPT ![o] = Scanned(place[o])]
  /\ pc' = "containersOnly"
  /\ UNCHANGED <<gcPosition, steps, budget, todo, heap>>

NoConsToScan ==
  /\ pc = "conses" /\ steps > 0
  /\ NextScan(Conses) = {}
  /\ pc' = "containers"
  /\ UNCHANGED <<place, gcPosition, steps, budget, todo, heap>>

\* Mutant: greyChildren() leaves gcPosition at the end of the array.
NextPositionKept(p, n) == IF p >= n THEN p ELSE p + 1

\* gcPosition after greyChildren() on n cells.
NextPosition(p, n) == IF p >= n THEN p ELSE IF p + 1 = n THEN 0 ELSE p + 1

\* containerMap.step() on an array: grey one child, blacken it after the last.
ScanArray(o) ==
  /\ pc \in {"containers", "containersOnly"}
  /\ o \in NextScan(Arrays)
  /\ LET p == gcPosition[o]
         n == Len(cells[o])
         greyed == GreyAll(place, IF p < n THEN {cells[o][p + 1]} ELSE {})
         done == p + 1 >= n
     IN  /\ place' = IF done THEN [greyed EXCEPT ![o] = Scanned(place[o])]
                             ELSE greyed
         /\ gcPosition' = [gcPosition EXCEPT ![o] = NextPosition(p, n)]
  /\ pc' = "conses" /\ steps' = steps - 1
  /\ UNCHANGED <<budget, todo, heap>>

\* Nothing left to scan in the containers; swap if there was none in either.
NoArrayToScan ==
  /\ pc \in {"containers", "containersOnly"}
  /\ NextScan(Arrays) = {}
  /\ IF pc = "containers" THEN pc' = "swap" /\ UNCHANGED steps
                          ELSE pc' = "conses" /\ steps' = steps - 1
  /\ UNCHANGED <<place, gcPosition, budget, todo, heap>>

Swap ==
  /\ pc = "swap"
  /\ place' = [o \in Obj |-> Swapped(place[o])]
  /\ pc' = "conses" /\ steps' = steps - 1
  /\ UNCHANGED <<gcPosition, budget, todo, heap>>

\* Storage that goes back; what it held is never read again.
Freed(S) ==
  /\ place' = [o \in Obj |-> IF o \in S THEN "void" ELSE place[o]]
  /\ refCount' = [o \in Obj |-> IF o \in S THEN 0 ELSE refCount[o]]
  /\ cells' = [o \in Obj |-> IF o \in S THEN <<>> ELSE cells[o]]
  /\ gcPosition' = [o \in Obj |-> IF o \in S THEN 0 ELSE gcPosition[o]]

\* Allocator::recycle() gives a disposed cons back to its page ...
RecycleCons(o) ==
  /\ pc = "conses" /\ steps = 0 /\ budget > 0
  /\ o \in Conses /\ place[o] = "disposed"
  /\ Freed({o})
  /\ budget' = budget - 1
  /\ UNCHANGED <<handle, pc, steps, todo>>

\* ... and, when no cons is left, unsets one child of the array at work.
RecycleArray(o) ==
  /\ pc = "conses" /\ steps = 0 /\ budget > 0
  /\ \A c \in Conses : place[c] # "disposed"
  /\ o \in Arrays
  /\ place[o] = IF In({"recycling"}) = {} THEN "disposed" ELSE "recycling"
  /\ LET p == IF place[o] = "recycling" THEN gcPosition[o] ELSE 0
         done == p + 1 >= Len(cells[o])
     IN  IF done THEN Freed({o})
         ELSE /\ place' = [place EXCEPT ![o] = "recycling"]
              /\ gcPosition' = [gcPosition EXCEPT ![o] = p + 1]
              /\ UNCHANGED <<refCount, cells>>
  /\ budget' = budget - 1
  /\ UNCHANGED <<handle, pc, steps, todo>>

\* Mutant: recycle() looks at toBeRecycled only.
CollectorIsThroughEarly == budget = 0 \/ In({"recycling"}) = {}

CollectorIsThrough ==
  \/ budget = 0
  \/ In({"disposed", "recycling"}) = {}

Collector ==
  \/ NoConsToScan \/ NoArrayToScan \/ Swap
  \/ \E o \in Obj : ScanCons(o) \/ ScanArray(o) \/ RecycleCons(o) \/ RecycleArray(o)

---------------------------------------------------------------------------
(* The end of the running call.                                            *)

Returning == pc = "conses" /\ steps = 0 /\ CollectorIsThrough

Finishes(op) ==
  /\ Returning
  /\ todo.op = op
  /\ pc' = "program" /\ budget' = 0 /\ todo' = Idle /\ UNCHANGED steps

\* A handle was dropped, or the program called step() or recycle() itself.
FinishCollect ==
  /\ Finishes("none")
  /\ UNCHANGED <<place, gcPosition, heap>>

\* The cells a new object of the kind of o starts with.
NewCells(o) == IF o \in Conses THEN <<todo.car, todo.cdr>> ELSE <<>>

\* makeRoot<Cons>(car, cdr) and makeRoot<Array>(), kept by a handle.
FinishMakeRoot(o) ==
  /\ \/ o \in Conses /\ Finishes("makeRootCons")
     \/ o \in Arrays /\ Finishes("makeRootArray")
  /\ place[o] = "void"
  /\ place' = [place EXCEPT ![o] = "whiteRoot"]
  /\ refCount' = [refCount EXCEPT ![o] = 1]
  /\ cells' = [cells EXCEPT ![o] = NewCells(o)]
  /\ gcPosition' = [gcPosition EXCEPT ![o] = 0]
  /\ handle' = [handle EXCEPT ![todo.h] = o]

\* Mutant: gcStep() does not grey car and cdr.
GcStepNoGrey(p, x, now) == [p EXCEPT ![x] = ToElements(@)]

\* BasicCons::gcStep() on a cons x whose cells are now.
GcStep(p, x, now) == [GreyAll(p, Range(now) \cap Obj) EXCEPT ![x] = ToElements(@)]

\* Mutant: Array::set() and append() do not grey.
BarrierConsOnly(p, x, now, c) ==
  IF c \notin Obj \/ x \in Arrays THEN p ELSE GcStep(p, x, now)

\* The containers p after a cell of x got c and its cells are now: Array::set()
\* greys c, BasicCons::setCarCdr() greys c and runs gcStep(); storing a plain
\* value moves nothing.
Barrier(p, x, now, c) ==
  IF c \notin Obj THEN p
  ELSE IF x \in Arrays THEN GreyAll(p, {c})
  ELSE GcStep(p, x, now)

\* make<Cons>() and make<Array>(): the new object is white and no handle
\* keeps it; GcSim::addBulk() stores it in a cell of x at once.
FinishMakeChild(o) ==
  /\ \/ o \in Conses /\ Finishes("makeCons")
     \/ o \in Arrays /\ Finishes("makeArray")
  /\ place[o] = "void"
  /\ LET x == todo.x
         now == [cells[x] EXCEPT ![todo.i] = o]
     IN  /\ place' = Barrier([place EXCEPT ![o] = "white"], x, now, o)
         /\ cells' = [cells EXCEPT ![o] = NewCells(o), ![x] = now]
  /\ refCount' = [refCount EXCEPT ![o] = 1]
  /\ gcPosition' = [gcPosition EXCEPT ![o] = 0]
  /\ UNCHANGED handle

\* Mutant: root() resets the count of a root.
RootResets(h, c) ==
  /\ handle' = [handle EXCEPT ![h] = c]
  /\ refCount' = [refCount EXCEPT ![c] = 1]
  /\ place' = IF place[c] \in RootPlaces THEN place
              ELSE [place EXCEPT ![c] = OtherElements(@)]

\* CollectibleContainer::root(): a handle h starts to hold c.
Root(h, c) ==
  /\ handle' = [handle EXCEPT ![h] = c]
  /\ IF place[c] \in RootPlaces
     THEN refCount' = [refCount EXCEPT ![c] = @ + 1] /\ UNCHANGED place
     ELSE /\ refCount' = [refCount EXCEPT ![c] = 1]
          /\ place' = [place EXCEPT ![c] = OtherElements(@)]

\* Mutant: operator=(const Object &) does not count.
FinishAssignUncounted ==
  /\ Finishes("assign")
  /\ handle' = [handle EXCEPT ![todo.h] = todo.car]
  /\ UNCHANGED <<place, refCount, cells, gcPosition>>

\* The end of operator=(const Object &): the object is a root already, so it
\* is only counted.
FinishAssign ==
  /\ Finishes("assign")
  /\ handle' = [handle EXCEPT ![todo.h] = todo.car]
  /\ refCount' = [refCount EXCEPT ![todo.car] = @ + 1]
  /\ UNCHANGED <<place, cells, gcPosition>>

---------------------------------------------------------------------------
(* The program.                                                            *)

Program == pc = "program"
HasVoid(K) == \E o \in K : place[o] = "void"

MakeRootCons(h, car, cdr) ==
  /\ Program /\ handle[h] = Nil /\ HasVoid(Conses)
  /\ Collect(GarbageSteps, RecycleSteps,
             [Idle EXCEPT !.op = "makeRootCons", !.h = h, !.car = car, !.cdr = cdr])
  /\ UNCHANGED <<place, gcPosition, heap>>

MakeRootArray(h) ==
  /\ Program /\ handle[h] = Nil /\ HasVoid(Arrays)
  /\ Collect(GarbageSteps, RecycleSteps, [Idle EXCEPT !.op = "makeRootArray", !.h = h])
  /\ UNCHANGED <<place, gcPosition, heap>>

MakeCons(x, i, car, cdr) ==
  /\ Program /\ i \in DOMAIN cells[x] /\ HasVoid(Conses)
  /\ Collect(GarbageSteps, RecycleSteps,
             [Idle EXCEPT !.op = "makeCons", !.x = x, !.i = i, !.car = car, !.cdr = cdr])
  /\ UNCHANGED <<place, gcPosition, heap>>

MakeArray(x, i) ==
  /\ Program /\ i \in DOMAIN cells[x] /\ HasVoid(Arrays)
  /\ Collect(GarbageSteps, RecycleSteps, [Idle EXCEPT !.op = "makeArray", !.x = x, !.i = i])
  /\ UNCHANGED <<place, gcPosition, heap>>

\* BasicCons::setCar(), setCdr() and Array::set().
SetCell(x, i, c) ==
  /\ Program /\ i \in DOMAIN cells[x]
  /\ cells' = [cells EXCEPT ![x][i] = c]
  /\ place' = Barrier(place, x, cells'[x], c)
  /\ UNCHANGED <<refCount, gcPosition, handle, control>>

\* A ManagedType (a string, a symbol) goes into a cons: it is no object of
\* the collector, but setCarCdr() runs gcStep() all the same.
SetManaged(x, i) ==
  /\ Program /\ x \in Conses /\ i \in DOMAIN cells[x]
  /\ cells' = [cells EXCEPT ![x][i] = Nil]
  /\ place' = GcStep(place, x, cells'[x])
  /\ UNCHANGED <<refCount, gcPosition, handle, control>>

\* Array::append().
AppendCell(x, c) ==
  /\ Program /\ x \in Arrays /\ Len(cells[x]) < MaxSize
  /\ cells' = [cells EXCEPT ![x] = Append(@, c)]
  /\ place' = Barrier(place, x, cells'[x], c)
  /\ UNCHANGED <<refCount, gcPosition, handle, control>>

\* Object(const Cell &) and Object(const Object &).
Copy(h, c) ==
  /\ Program /\ handle[h] = Nil
  /\ Root(h, c)
  /\ UNCHANGED <<cells, gcPosition, control>>

\* CollectibleContainer::unroot(), the first half of Object::unsetCons().
Unroot(h) ==
  LET o == handle[h]
      last == refCount[o] = 1
  IN  /\ o \in Obj
      /\ refCount' = [refCount EXCEPT ![o] = @ - 1]
      /\ place' = IF last THEN [place EXCEPT ![o] = OtherElements(@)] ELSE place
      /\ handle' = [handle EXCEPT ![h] = Nil]

\* ~Object().
Drop(h) ==
  /\ Program
  /\ Unroot(h)
  /\ Collect(GarbageSteps, RecycleSteps, Idle)
  /\ UNCHANGED <<cells, gcPosition>>

\* operator=(const Object &) from another handle: the old object is unset,
\* with a collector step, before the new one is counted.
Assign(h, g) ==
  /\ Program /\ g # h /\ handle[g] \in Obj
  /\ Unroot(h)
  /\ Collect(GarbageSteps, RecycleSteps,
             [Idle EXCEPT !.op = "assign", !.h = h, !.car = handle[g]])
  /\ UNCHANGED <<cells, gcPosition>>

\* Allocator::step() and recycle() called by the program.
CallStep ==
  /\ Program
  /\ Collect(GarbageSteps, 0, Idle)
  /\ UNCHANGED <<place, gcPosition, heap>>

CallRecycle ==
  /\ Program
  /\ Collect(0, RecycleSteps, Idle)
  /\ UNCHANGED <<place, gcPosition, heap>>

\* No surviving array has been scanned in part.
NoHalfScannedArray == \A o \in Reachable : gcPosition[o] = 0

\* Allocator::cycle(): mark and sweep in one go.  gcPosition of a surviving
\* array stays what it is.
FullCycle ==
  /\ Program
  /\ place' = [o \in Obj |-> IF o \notin Reachable THEN "void"
                             ELSE IF place[o] \in RootPlaces THEN "whiteRoot"
                             ELSE "white"]
  /\ cells' = [o \in Obj |-> IF o \in Reachable THEN cells[o] ELSE <<>>]
  /\ gcPosition' = [o \in Obj |-> IF o \in Reachable THEN gcPosition[o] ELSE 0]
  /\ refCount' = [o \in Obj |-> IF o \in Reachable THEN refCount[o] ELSE 0]
  /\ UNCHANGED <<handle, control>>

\* Mutant: cycle() called while an array is scanned in part.
CycleUnguarded == FullCycle

\* cycle() as the program may call it: see NoHalfScannedArray.
Cycle == NoHalfScannedArray /\ FullCycle

Mutator ==
  \/ \E h \in Handles :
       \/ \E a, b \in Value : MakeRootCons(h, a, b)
       \/ MakeRootArray(h)
       \/ \E c \in Reachable : Copy(h, c)
       \/ Drop(h)
       \/ \E g \in Handles : Assign(h, g)
  \/ \E x \in Reachable :
       \/ \E i \in 1 .. Len(cells[x]) :
            \/ \E a, b \in Value : MakeCons(x, i, a, b)
            \/ MakeArray(x, i) \/ SetManaged(x, i)
            \/ \E c \in Value : SetCell(x, i, c)
       \/ \E c \in Value : AppendCell(x, c)
  \/ Cycle

Finish ==
  \/ FinishCollect \/ FinishAssign
  \/ \E o \in Obj : FinishMakeRoot(o) \/ FinishMakeChild(o)

Next == Mutator \/ CallStep \/ CallRecycle \/ Collector \/ Finish

Spec == Init /\ [][Next]_vars

---------------------------------------------------------------------------
(* Properties.                                                             *)

Ops == {"none", "makeRootCons", "makeRootArray", "makeCons", "makeArray",
        "assign", "assignCell"}

Calls == [op : Ops, h : Handles \cup {Nil}, x : Cell, i : Nat, car : Cell, cdr : Cell]

\* Every variable has its type; a cons in use has two cells.
TypeOK ==
  /\ place \in [Obj -> Places]
  /\ refCount \in [Obj -> Nat]
  /\ cells \in [Obj -> Seq(Cell)]
  /\ gcPosition \in [Obj -> Nat]
  /\ handle \in [Handles -> Cell]
  /\ pc \in {"program", "conses", "containers", "containersOnly", "swap"}
  /\ steps \in Nat /\ budget \in Nat
  /\ todo \in Calls
  /\ \A o \in Conses \cap Live : Len(cells[o]) = 2

\* Nothing the program can get to from a handle, and nothing a running call
\* was given, has been disposed of or recycled: neither by the increments of
\* Allocator::step() (allocator.h:640) nor by cycle() (allocator.cpp:91).
NoDangling ==
  Reachable \cup ({todo.x, todo.car, todo.cdr} \cap Obj) \subseteq Live

\* The pointer a live object holds is to a live object even when the holder
\* is garbage that was not swept yet: grey() (cell.cpp:47) is called on the
\* children of such objects too.
LiveClosed == \A o \in Live : Kids[o] \subseteq Live

\* The incremental marking invariant: a black object points to no object
\* that the next swap disposes of, and neither does the part of an array
\* before gcPosition (array.h:192), whatever the program did between two
\* increments.
ScannedPart(o) ==
  IF place[o] \in {"black", "blackRoot"} THEN Kids[o]
  ELSE {cells[o][i] : i \in 1 .. gcPosition[o]} \cap Obj
ScannedIsNotWhite ==
  \A o \in Live : \A c \in ScannedPart(o) : place[c] # "white"

\* The assertions of ColorMap::swap() (color_map.h:214): both maps have been
\* scanned to the end when the allocator swaps them.
SwapOnlyWhenScanned ==
  pc = "swap" => In({"grey", "greyRoot", "whiteRoot"}) = {}

\* An object is in a root container exactly while some Lisp::Object holds
\* it, and refCount (collectible_container.h:166) counts those handles.
HandlesOf(o) == {h \in Handles : handle[h] = o}
RootsCounted ==
  \A o \in Obj : /\ place[o] \in RootPlaces <=> HandlesOf(o) # {}
                 /\ place[o] \in RootPlaces => refCount[o] = Cardinality(HandlesOf(o))

\* object.cpp:111, 112, 119 and 120 assert that the object a handle takes from
\* another handle is a root and is counted: it must still be one after the
\* collector step that the assignment made.
AssignsRoots ==
  Returning /\ todo.op = "assign" =>
    place[todo.car] \in RootPlaces /\ refCount[todo.car] > 0

\* The collector implements the heap of GcHeap: storage is only taken from
\* objects that no handle reaches, and no reachable cell ever changes but
\* by the program.
Heap == INSTANCE GcHeap WITH alloc <- Live
ImplementsHeap == Heap!Spec
============================================================================
