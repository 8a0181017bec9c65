------------------------------- MODULE GcVm -------------------------------
(***************************************************************************)
(* The collector of the C library (lisp/core/vm.c): conses and complex     *)
(* objects (arrays) in twelve linked lists, one for each colour and root   *)
(* status, and the calls of its clients (lisp/simul/gc_sim.c).  Nothing    *)
(* drives it but explicit calls, each of which runs to its end.            *)
(*                                                                         *)
(* Next holds the uses the collector was finished for: conses point to     *)
(* conses, arrays hold plain values (see the @todo of _lisp_grey_cell()),  *)
(* and a full cycle finds every survivor in its white list.  GcVmClients   *)
(* has the rest.  The linked lists are sets: a step takes any element      *)
(* where the code takes the first.                                         *)
(***************************************************************************)
EXTENDS Naturals, Sequences, FiniteSets, Functions, Reachability

CONSTANTS
  Conses, Arrays,   \* the storage
  RootCells,        \* the lisp_cell_t variables that own an object
  Nil,
  MaxSize           \* bound on the size of an array

ASSUME VmAssumption == /\ Conses \cap Arrays = {}
                       /\ Nil \notin Conses \cup Arrays
                       /\ MaxSize \in Nat

Obj == Conses \cup Arrays

VARIABLES
  where,      \* the list an object is linked into, and the one its gc_list names
  refCount,   \* ref_count
  cells,      \* car and cdr of a cons, data of an array
  gcPos,      \* gc_pos of an array
  root        \* the object of a root cell, or Nil

vars == <<where, refCount, cells, gcPos, root>>

---------------------------------------------------------------------------
(* The lists and their links (gc_color_map.c).                             *)

BulkLists == {"white", "grey", "black"}
RootLists == {"whiteRoot", "greyRoot", "blackRoot"}
LiveLists == BulkLists \cup RootLists
Lists == LiveLists \cup {"fresh", "disposed", "recycled"}

\* grey_elements; a list that has none stays what it is.
GreyElements(l) == CASE l = "white"     -> "grey"
                     [] l = "whiteRoot" -> "greyRoot"
                     [] OTHER           -> l
\* Mutant: a root that is given up turns white.
OtherElementsToWhite(l) == IF l \in BulkLists THEN "whiteRoot" ELSE "white"
\* other_elements.
OtherElements(l) == CASE l \in BulkLists -> "whiteRoot"
                      [] l = "blackRoot" -> "black"
                      [] OTHER           -> "grey"
Scanned(l) == IF l \in RootLists THEN "blackRoot" ELSE "black"
\* The role a list has after the swap: black and white change theirs.
Swapped(l) == CASE l = "white"     -> "black"
                [] l = "black"     -> "white"
                [] l = "blackRoot" -> "whiteRoot"
                [] l = "whiteRoot" -> "blackRoot"
                [] OTHER           -> l

\* An object is linked into l and its gc_list is set.
At(l) == [list |-> l, gcList |-> l]
ListOf(w, o) == w[o].list
In(ls) == {o \in Obj : ListOf(where, o) \in ls}
Live == In(LiveLists)
Kids == [o \in Obj |-> Range(cells[o]) \cap Obj]
Rooted == In(RootLists)

\* lisp_gc_reachable_first() and _next().
Reachable == Reach(Rooted, Kids)
Value == (Reachable \cap Conses) \cup {Nil}

\* lisp_cons_grey() and _lisp_complex_object_grey() look at gc_list only.
GreyAll(w, S) ==
  [o \in Obj |-> IF o \in S /\ GreyElements(w[o].gcList) # w[o].gcList
                 THEN At(GreyElements(w[o].gcList)) ELSE w[o]]

NextScan(w, K) ==
  LET first(l) == {o \in K : ListOf(w, o) = l}
  IN  IF first("whiteRoot") # {} THEN first("whiteRoot")
      ELSE IF first("greyRoot") # {} THEN first("greyRoot")
      ELSE first("grey")

---------------------------------------------------------------------------
(* The steps of the collector, as what they make of w and p (gc_pos).      *)

\* _lisp_vm_gc_cons_step(): both children of a cons are greyed.
AfterConsStep(w) ==
  IF NextScan(w, Conses) = {} THEN {w}
  ELSE {[GreyAll(w, Kids[o] \cap Conses) EXCEPT ![o] = At(Scanned(ListOf(w, o)))] :
          o \in NextScan(w, Conses)}

\* _lisp_vm_gc_object_step(): one child of an array, which only a cons can be,
\* or the end of the array.
ObjectDone(p, a) == p[a] >= Len(cells[a])
AfterObjectStep(w, p) ==
  IF NextScan(w, Arrays) = {} THEN {[where |-> w, gcPos |-> p, done |-> TRUE]}
  ELSE {IF ObjectDone(p, a)
        THEN LET v == [w EXCEPT ![a] = At(Scanned(ListOf(w, a)))]
             IN  [where |-> v, gcPos |-> p, done |-> NextScan(v, Arrays) = {}]
        ELSE [where |-> GreyAll(w, {cells[a][p[a] + 1]} \cap Conses),
              gcPos |-> [p EXCEPT ![a] = @ + 1], done |-> FALSE] :
          a \in NextScan(w, Arrays)}

\* _lisp_vm_gc_swappable().
Swappable(w) == NextScan(w, Obj) = {}

\* _lisp_vm_gc_swap(): white is disposed of, then the lists exchange their
\* roles, and what gc_list points to goes with them.
AfterSwap(w) ==
  [o \in Obj |-> IF ListOf(w, o) = "white" THEN At("disposed")
                 ELSE [list |-> Swapped(w[o].list), gcList |-> Swapped(w[o].gcList)]]

---------------------------------------------------------------------------
(* The calls.                                                              *)

Init ==
  /\ where = [o \in Obj |-> At("fresh")]
  /\ refCount = [o \in Obj |-> 0]
  /\ cells = [o \in Obj |-> <<>>]
  /\ gcPos = [o \in Obj |-> 0]
  /\ root = [r \in RootCells |-> Nil]

\* lisp_vm_gc_step(): the answer of the cons step is from before the object
\* step.
GcStep ==
  /\ \E w \in AfterConsStep(where) : \E s \in AfterObjectStep(w, gcPos) :
       /\ where' = IF NextScan(w, Conses) = {} /\ s.done THEN AfterSwap(s.where) ELSE s.where
       /\ gcPos' = s.gcPos
  /\ UNCHANGED <<refCount, cells, root>>

\* lisp_vm_gc_cons_step(), lisp_vm_gc_object_step() and lisp_vm_gc_swap().
ConsStep ==
  /\ where' \in AfterConsStep(where)
  /\ UNCHANGED <<refCount, cells, gcPos, root>>

ObjectStep ==
  /\ \E s \in AfterObjectStep(where, gcPos) : where' = s.where /\ gcPos' = s.gcPos
  /\ UNCHANGED <<refCount, cells, root>>

GcSwap ==
  /\ Swappable(where)
  /\ where' = AfterSwap(where)
  /\ UNCHANGED <<refCount, cells, gcPos, root>>

\* Every survivor has the gc_list it will be put into.
SurvivorsAreWhite == \A o \in Reachable \ Rooted : where[o] = At("white")

\* lisp_vm_gc_full_cycle(): _move_cons_list() sets gc_list, _move_conses()
\* does not; _move_objects() looks an object up as if it were a cons and
\* never finds it.
FullCycleAt ==
  /\ where' = [o \in Obj |->
                 IF o \in Rooted THEN At("whiteRoot")
                 ELSE IF o \in Conses \cap Reachable THEN [where[o] EXCEPT !.list = "white"]
                 ELSE IF o \in Live THEN At("disposed")
                 ELSE where[o]]
  /\ UNCHANGED <<refCount, cells, gcPos, root>>

FullCycle == SurvivorsAreWhite /\ FullCycleAt

\* The cons _lisp_gc_alloc_cons() returns: a recycled one if there is one.
NextCons(o) ==
  /\ o \in Conses
  /\ ListOf(where, o) = IF In({"recycled"}) # {} THEN "recycled" ELSE "fresh"

\* Mutant: a new object is not counted as owned.
NewUncounted(o, l, n, c) ==
  /\ where' = [GreyAll(where, Range(c) \cap Obj) EXCEPT ![o] = At(l)]
  /\ refCount' = [refCount EXCEPT ![o] = 0]
  /\ cells' = [cells EXCEPT ![o] = c]
  /\ gcPos' = [gcPos EXCEPT ![o] = 0]

\* A new object o with cells c goes to list l with count n.
New(o, l, n, c) ==
  /\ where' = [GreyAll(where, Range(c) \cap Obj) EXCEPT ![o] = At(l)]
  /\ refCount' = [refCount EXCEPT ![o] = n]
  /\ cells' = [cells EXCEPT ![o] = c]
  /\ gcPos' = [gcPos EXCEPT ![o] = 0]

\* lisp_make_cons(), whose cell the program keeps.
MakeCons(r, o, car, cdr) ==
  /\ root[r] = Nil /\ NextCons(o)
  /\ New(o, "whiteRoot", 1, <<car, cdr>>)
  /\ root' = [root EXCEPT ![r] = o]

\* lisp_make_array(): n cells with the value c.
MakeArray(r, o, n, c) ==
  /\ root[r] = Nil /\ o \in Arrays /\ ListOf(where, o) = "fresh"
  /\ New(o, "whiteRoot", 1, [i \in 1 .. n |-> c])
  /\ root' = [root EXCEPT ![r] = o]

\* Mutant: the new child is not greyed.
SetChildNoGrey(x, i, c) ==
  /\ i \in DOMAIN cells[x]
  /\ cells' = [cells EXCEPT ![x][i] = c]
  /\ UNCHANGED <<where, refCount, gcPos, root>>

\* lisp_cons_set_car(), set_cdr(), unset_car(), unset_cdr(), lisp_array_set()
\* and lisp_array_unset(): lisp_set_child_cell() greys the new child.
SetChild(x, i, c) ==
  /\ i \in DOMAIN cells[x]
  /\ cells' = [cells EXCEPT ![x][i] = c]
  /\ where' = GreyAll(where, {c} \cap Obj)
  /\ UNCHANGED <<refCount, gcPos, root>>

\* lisp_sim_add_bulk(): a temporary cons, stored in a cell of x at once.
AddBulkCons(x, i, o) ==
  /\ i \in DOMAIN cells[x] /\ NextCons(o)
  /\ where' = [where EXCEPT ![o] = At("grey")]
  /\ refCount' = [refCount EXCEPT ![o] = 1]
  /\ cells' = [cells EXCEPT ![o] = <<Nil, Nil>>, ![x][i] = o]
  /\ UNCHANGED <<gcPos, root>>

\* lisp_array_append().
AppendCell(x, c) ==
  /\ x \in Arrays /\ Len(cells[x]) < MaxSize
  /\ cells' = [cells EXCEPT ![x] = Append(@, c)]
  /\ where' = GreyAll(where, {c} \cap Obj)
  /\ UNCHANGED <<refCount, gcPos, root>>

\* What lisp_array_resize() keeps of s when it makes it n long: the cells
\* _lisp_array_unset_cells() clears are counted from the front.
Shrunk(s, n) == [i \in 1 .. n |-> IF i <= Len(s) - n THEN Nil ELSE s[i]]

\* lisp_array_resize() to a smaller size.
Shrink(x, n) ==
  /\ x \in Arrays /\ n < Len(cells[x])
  /\ cells' = [cells EXCEPT ![x] = Shrunk(@, n)]
  /\ UNCHANGED <<where, refCount, gcPos, root>>

\* lisp_unset() of a root cell.
Unset(r) ==
  /\ root[r] # Nil
  /\ LET o == root[r] IN
       /\ refCount' = [refCount EXCEPT ![o] = @ - 1]
       /\ where' = IF refCount[o] = 1
                   THEN [where EXCEPT ![o] = At(OtherElements(where[o].gcList))] ELSE where
  /\ root' = [root EXCEPT ![r] = Nil]
  /\ UNCHANGED <<cells, gcPos>>

Recycled(S) ==
  /\ where' = [o \in Obj |-> IF o \in S THEN At("recycled") ELSE where[o]]
  /\ cells' = [o \in Obj |-> IF o \in S THEN <<Nil, Nil>> ELSE cells[o]]
  /\ UNCHANGED <<refCount, gcPos, root>>

\* lisp_vm_recycle_next_cons() and lisp_vm_recycle_all_conses().
RecycleNextCons(o) == o \in Conses /\ ListOf(where, o) = "disposed" /\ Recycled({o})
RecycleAllConses == Recycled(In({"disposed"}) \cap Conses)

\* lisp_vm_recycle_next_object(): the memory is freed.
RecycleNextObject(o) ==
  /\ o \in Arrays /\ ListOf(where, o) = "disposed"
  /\ where' = [where EXCEPT ![o] = At("fresh")]
  /\ refCount' = [refCount EXCEPT ![o] = 0]
  /\ cells' = [cells EXCEPT ![o] = <<>>]
  /\ gcPos' = [gcPos EXCEPT ![o] = 0]
  /\ UNCHANGED root

Collector ==
  \/ GcStep \/ ConsStep \/ ObjectStep \/ GcSwap \/ FullCycle \/ RecycleAllConses
  \/ \E o \in Obj : RecycleNextCons(o) \/ RecycleNextObject(o)

Program ==
  \/ \E r \in RootCells :
       \/ \E o \in Obj : \/ \E a, b \in Value : MakeCons(r, o, a, b)
                         \/ \E n \in 0 .. MaxSize : MakeArray(r, o, n, Nil)
       \/ Unset(r)
  \/ \E x \in Reachable :
       \/ \E i \in 1 .. Len(cells[x]) :
            \/ x \in Conses /\ \E c \in Value : SetChild(x, i, c)
            \/ x \in Conses /\ \E o \in Conses : AddBulkCons(x, i, o)
       \/ AppendCell(x, Nil)
       \/ \E n \in 0 .. MaxSize : Shrink(x, n)

Next == Collector \/ Program

Spec == Init /\ [][Next]_vars

---------------------------------------------------------------------------
(* Properties.                                                             *)

TypeOK ==
  /\ where \in [Obj -> [list : Lists, gcList : Lists]]
  /\ refCount \in [Obj -> Nat]
  /\ cells \in [Obj -> Seq(Obj \cup {Nil})]
  /\ gcPos \in [Obj -> Nat]
  /\ root \in [RootCells -> Obj \cup {Nil}]
  /\ \A o \in Conses \cap Live : Len(cells[o]) = 2

\* "white objects are not reachable -> dispose them" (vm.c:681): no disposed
\* object is one that a root cell still gets to.
DisposedIsUnreachable == In({"disposed", "recycled", "fresh"}) \cap Reachable = {}

\* The list that gc_list names is the one the object is linked into, as
\* _lisp_vm_check_object_list() demands (vm.c:846) and as every
\* lisp_dl_list_remove(&cons->gc_list->objects, ...) needs.
ListsAgree == \A o \in Live : where[o].gcList = where[o].list

\* An object is in a root list exactly while a root cell owns it, and only
\* one does.
RootsOwned ==
  \A o \in Obj : ListOf(where, o) \in RootLists
                   <=> Cardinality({r \in RootCells : root[r] = o}) = 1

(* The inductive invariant, about lists w and children kids.               *)

\* A live object points to live ones, and a black one to none that is white.
Closed(w, kids) ==
  \A o \in Obj : w[o].list \in LiveLists => \A c \in kids[o] : w[c].list \in LiveLists
BlackIsNotWhite(w, kids) ==
  \A o \in Obj : w[o].list \in {"black", "blackRoot"} =>
                 \A c \in kids[o] : w[c].list \notin {"white", "whiteRoot"}
ListsOK(w, kids) ==
  /\ w \in [Obj -> [list : Lists, gcList : Lists]]
  /\ \A o \in Obj : w[o].gcList = w[o].list
  /\ Closed(w, kids) /\ BlackIsNotWhite(w, kids)

\* An object in a root list is owned by one root cell and has the count 1.
RootsHeld ==
  /\ \A r \in RootCells : root[r] # Nil => /\ ListOf(where, root[r]) \in RootLists
                                           /\ refCount[root[r]] = 1
                                           /\ \A q \in RootCells : root[q] = root[r] => q = r
  /\ Rooted \subseteq Range(root)

VmInv ==
  /\ TypeOK /\ ListsOK(where, Kids) /\ RootsHeld
  /\ \A o \in Obj : Kids[o] \subseteq Conses
  /\ \A a \in Arrays : Kids[a] = {}

\* The collector implements the heap of GcHeap.
Heap == INSTANCE GcHeap WITH alloc <- Live, handle <- root, Handles <- RootCells
ImplementsHeap == Heap!Spec
============================================================================
