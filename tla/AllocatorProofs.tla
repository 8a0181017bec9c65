-------------------------- MODULE AllocatorProofs --------------------------
(***************************************************************************)
(* Proofs about Allocator, for every set of conses, arrays and handles and *)
(* all values of GarbageSteps, RecycleSteps and MaxSize: the invariant IInv *)
(* is inductive, the safety properties follow from it, and Allocator       *)
(* implements GcHeap.                                                      *)
(***************************************************************************)
EXTENDS AllocatorInvariant, AllocatorClients, AllocatorProgress, ReachabilityTheorems,
        FiniteSetTheorems

\* How an object may move between two swaps, as far as the invariant is
\* concerned: its root status and its being alive do not change, nothing
\* turns white, and black stays black.
Marks(p, q) ==
  /\ q \in Places
  /\ q \in RootPlaces <=> p \in RootPlaces
  /\ q \in LivePlaces <=> p \in LivePlaces
  /\ q = "white" => p = "white"
  /\ p \in {"black", "blackRoot"} \/ p \notin LivePlaces => q = p

Marking == /\ place' \in [Obj -> Places]
           /\ \A o \in Obj : Marks(place[o], place'[o])

---------------------------------------------------------------------------
(* The moves between containers.                                           *)

\* greyElements and toElements only move objects forward.
LEMMA MovesMark ==
  ASSUME NEW p \in Places
  PROVE  /\ Marks(p, p) /\ Marks(p, GreyElements(p)) /\ Marks(p, ToElements(p))
         /\ GreyElements(p) # "white"
         /\ ToElements(p) # "white"
         /\ p \in {"whiteRoot", "greyRoot", "grey"} => Marks(p, Scanned(p))
         /\ Scanned(p) \in {"black", "blackRoot"}
  BY DEF Marks, GreyElements, ToElements, Scanned, Places, LivePlaces, BulkPlaces, RootPlaces

\* Two marking moves are one.
LEMMA MarksTransitive ==
  ASSUME NEW p, NEW q, NEW r, Marks(p, q), Marks(q, r)
  PROVE  Marks(p, r)
  BY DEF Marks

\* Greying a set of objects marks, and leaves none of them white.
LEMMA GreyAllMoves ==
  ASSUME NEW p \in [Obj -> Places], NEW S
  PROVE  /\ GreyAll(p, S) \in [Obj -> Places]
         /\ \A o \in Obj : Marks(p[o], GreyAll(p, S)[o])
         /\ \A o \in Obj \cap S : GreyAll(p, S)[o] # "white"
         /\ \A o \in Obj : GreyAll(p, S)[o] \in {"black", "blackRoot"} => GreyAll(p, S)[o] = p[o]
  BY MovesMark DEF GreyAll, Marks, GreyElements

\* The same for the containers of all objects after Cell::grey().
LEMMA GreyAllMarks ==
  ASSUME TypeOK, NEW S
  PROVE  /\ GreyAll(place, S) \in [Obj -> Places]
         /\ \A o \in Obj : Marks(place[o], GreyAll(place, S)[o])
         /\ \A o \in Obj \cap S : GreyAll(place, S)[o] # "white"
<1>1. place \in [Obj -> Places]
  BY DEF TypeOK
<1> QED BY <1>1, GreyAllMoves

---------------------------------------------------------------------------
(* Reachability in a state of the collector.                               *)

\* The live, rooted and reachable objects are objects; what they hold are cells.
LEMMA HeapShape ==
  ASSUME TypeOK
  PROVE  /\ Kids \in [Obj -> SUBSET Obj]
         /\ Rooted \subseteq Live /\ Live \subseteq Obj
  BY DEF Kids, Rooted, Live, In, LivePlaces

\* The scanned part of an object is a part of its children.
LEMMA ScannedPartIsKids ==
  ASSUME TypeOK, PositionsOK, NEW o \in Live
  PROVE  ScannedPart(o) \subseteq Kids[o]
<1>1. /\ o \in Obj /\ cells[o] \in Seq(Cell) /\ gcPosition[o] \in Nat
      /\ gcPosition[o] = 0 \/ gcPosition[o] < Len(cells[o])
  BY HeapShape DEF TypeOK, PositionsOK
<1>2. 1 .. gcPosition[o] \subseteq DOMAIN cells[o]
  BY <1>1
<1>3. {cells[o][i] : i \in 1 .. gcPosition[o]} \cap Obj \subseteq Kids[o]
  BY <1>1, <1>2 DEF Kids, Range
<1> QED BY <1>3 DEF ScannedPart

\* Roots are reachable, children of reachable objects are, and all are live.
LEMMA ReachableFacts ==
  ASSUME TypeOK, LiveClosed
  PROVE  /\ Rooted \subseteq Reachable /\ Reachable \subseteq Live
         /\ \A x \in Reachable : Kids[x] \subseteq Reachable
<1>1. Rooted \in SUBSET Obj
  BY HeapShape
<1>2. Rooted \subseteq Reachable /\ \A x \in Reachable : Kids[x] \subseteq Reachable
  BY <1>1, HeapShape, ReachIsClosed DEF Reachable
<1>3. ClosedUnder(Live, Kids)
  BY DEF LiveClosed, ClosedUnder
<1>4. Reachable \subseteq Live
  BY <1>3, HeapShape, ReachIsLeast DEF Reachable
<1> QED BY <1>2, <1>4

\* The collector's own steps do not change what is reachable.
LEMMA ReachableUnchanged ==
  ASSUME TypeOK, TypeOK', LiveClosed, Rooted' = Rooted,
         \A o \in Live : cells'[o] = cells[o]
  PROVE  Reachable' = Reachable
<1>1. Kids' \in [Obj -> SUBSET Obj] /\ Kids \in [Obj -> SUBSET Obj]
  BY DEF Kids
<1>2. \A o \in Live : Kids[o] = Kids'[o]
  BY HeapShape DEF Kids
<1>3. ClosedUnder(Live, Kids)
  BY DEF LiveClosed, ClosedUnder
<1>4. Reach(Rooted, Kids) = Reach(Rooted, Kids')
  BY <1>1, <1>2, <1>3, HeapShape, ReachIgnoresOutside
<1> QED BY <1>4 DEF Reachable

\* Marking keeps roots and live objects what they are.
LEMMA MarkingFacts ==
  ASSUME TypeOK, Marking
  PROVE  Rooted' = Rooted /\ Live' = Live
  BY DEF Marking, Marks, Rooted, Live, In, TypeOK

\* Marking keeps refCount exact and every live object's children live.
LEMMA MarkingKeepsRoots ==
  ASSUME TypeOK, RootsCounted, Marking, UNCHANGED <<refCount, handle>>
  PROVE  RootsCounted'
  BY DEF Marking, Marks, RootsCounted, HandlesOf

Blackened(o) == place[o] \in {"black", "blackRoot"}

\* An object that was not blackened and not touched keeps its scanned part.
LEMMA ScannedPartKept ==
  ASSUME Marking, TypeOK, ScannedIsNotWhite, NEW o \in Live,
         cells'[o] = cells[o], gcPosition'[o] = gcPosition[o],
         Blackened(o)' => Blackened(o)
  PROVE  \A c \in ScannedPart(o)' : place'[c] # "white"
<1>1. o \in Obj /\ Kids[o] \subseteq Obj /\ Kids'[o] = Kids[o]
  BY HeapShape DEF Kids
<1>2. Blackened(o)' <=> Blackened(o)
  BY <1>1 DEF Blackened, Marking, Marks
<1>3. ScannedPart(o)' = ScannedPart(o)
  <2>1. CASE Blackened(o)
    BY <2>1, <1>1, <1>2 DEF ScannedPart, Blackened
  <2>2. CASE ~Blackened(o)
    BY <2>2, <1>2 DEF ScannedPart, Blackened
  <2> QED BY <2>1, <2>2
<1>4. ScannedPart(o) \subseteq Obj
  BY <1>1 DEF ScannedPart
<1> QED BY <1>3, <1>4 DEF ScannedIsNotWhite, Marking, Marks

\* Greying blackens nothing.
LEMMA GreyAllBlackensNothing ==
  ASSUME TypeOK, NEW S, NEW o \in Obj,
         GreyAll(place, S)[o] \in {"black", "blackRoot"}
  PROVE  Blackened(o)
  BY DEF GreyAll, GreyElements, Blackened

---------------------------------------------------------------------------
(* The collector's steps.                                                  *)

\* What step() takes is live and not scanned yet (color_map.h:166).
LEMMA NextScanIsUnscanned ==
  ASSUME NEW K, NEW o \in NextScan(K)
  PROVE  o \in K /\ place[o] \in {"whiteRoot", "greyRoot", "grey"}
  BY DEF NextScan

\* step() finds nothing only when nothing is left to scan.
LEMMA NothingToScan ==
  ASSUME NEW K, NextScan(K) = {}
  PROVE  Unscanned(K) = {}
  BY DEF NextScan, Unscanned

\* step() on a cons keeps the invariant: both children are greyed first.
LEMMA ScanConsInv ==
  ASSUME IInv, NEW o \in Obj, ScanCons(o)
  PROVE  IInv'
<1> USE DEF IInv
<1>1. /\ o \in Conses /\ place[o] \in {"whiteRoot", "greyRoot", "grey"}
      /\ place' = [GreyAll(place, Kids[o]) EXCEPT ![o] = Scanned(place[o])]
      /\ UNCHANGED <<refCount, cells, handle, gcPosition, todo>> /\ pc' = "containersOnly"
  BY NextScanIsUnscanned DEF ScanCons, heap
<1>2. Marking
  BY <1>1, GreyAllMarks, MovesMark DEF Marking, TypeOK, Marks
<1>3. TypeOK'
  BY <1>1, <1>2, MarkingFacts DEF ScanCons, TypeOK, Marking
<1>4. Live' = Live /\ Rooted' = Rooted /\ Kids' = Kids
  BY <1>1, <1>2, MarkingFacts DEF Kids
<1>5. Reachable' = Reachable
  BY <1>4 DEF Reachable
<1>6. RootsCounted' /\ LiveClosed' /\ MarkingDone' /\ TodoOK'
  BY <1>1, <1>2, <1>4, <1>5, MarkingKeepsRoots DEF LiveClosed, MarkingDone, TodoOK, ScanCons
<1>7. \A x \in Obj \ {o} : Blackened(x)' => Blackened(x)
  BY <1>1, GreyAllMarks, GreyAllBlackensNothing DEF Blackened, TypeOK
<1>8. PositionsOK'
  BY <1>1, <1>2, <1>4, <1>7 DEF PositionsOK, Marking, Marks, Blackened
<1>9. ScannedIsNotWhite'
  <2> SUFFICES ASSUME NEW x \in Live, NEW c \in ScannedPart(x)'
               PROVE  place'[c] # "white"
    BY <1>4 DEF ScannedIsNotWhite
  <2>1. CASE x = o
    <3>1. c \in Kids[o] /\ Kids[o] \subseteq Obj
      BY <2>1, <1>1, <1>4, HeapShape, MovesMark DEF ScannedPart, TypeOK, GreyAll, Scanned
    <3>2. GreyAll(place, Kids[o])[c] # "white"
      BY <3>1, GreyAllMarks
    <3> QED BY <3>1, <3>2, <1>1, GreyAllMarks, MovesMark DEF TypeOK
  <2>2. CASE x # o
    BY <2>2, <1>1, <1>2, <1>7, ScannedPartKept, HeapShape
  <2> QED BY <2>1, <2>2
<1> QED BY <1>3, <1>6, <1>8, <1>9

\* Steps that only move the control from one phase to the next.
LEMMA NoConsToScanInv ==
  ASSUME IInv, NoConsToScan
  PROVE  IInv'
<1> USE DEF IInv
<1>1. UNCHANGED <<place, refCount, cells, handle, gcPosition, todo>> /\ pc' = "containers"
  BY DEF NoConsToScan, heap
<1>2. Unscanned(Conses)' = {}
  BY <1>1, NothingToScan DEF NoConsToScan, Unscanned
<1>3. Live' = Live /\ Kids' = Kids /\ Reachable' = Reachable /\ Rooted' = Rooted
  BY <1>1 DEF Live, In, Kids, Reachable, Rooted
<1>4. TypeOK' /\ MarkingDone' /\ TodoOK'
  BY <1>1, <1>2, <1>3 DEF TypeOK, MarkingDone, TodoOK, NoConsToScan
<1>5. RootsCounted' /\ LiveClosed'
  BY <1>1, <1>3 DEF RootsCounted, HandlesOf, LiveClosed
<1>6. PositionsOK' /\ ScannedIsNotWhite'
  BY <1>1, <1>3 DEF PositionsOK, ScannedIsNotWhite, ScannedPart
<1> QED BY <1>4, <1>5, <1>6

\* The containers answered: what was said of the conses still holds.
LEMMA NoArrayToScanInv ==
  ASSUME IInv, NoArrayToScan
  PROVE  IInv'
<1> USE DEF IInv
<1>1. UNCHANGED <<place, refCount, cells, handle, gcPosition, todo>>
  BY DEF NoArrayToScan, heap
<1>2. Unscanned(Arrays)' = {} /\ Unscanned(Conses)' = Unscanned(Conses)
  BY <1>1, NothingToScan DEF NoArrayToScan, Unscanned
<1>3. Live' = Live /\ Kids' = Kids /\ Reachable' = Reachable /\ Rooted' = Rooted
  BY <1>1 DEF Live, In, Kids, Reachable, Rooted
<1>4. TypeOK' /\ MarkingDone' /\ TodoOK'
  BY <1>1, <1>2, <1>3 DEF TypeOK, MarkingDone, TodoOK, NoArrayToScan
<1>5. RootsCounted' /\ LiveClosed'
  BY <1>1, <1>3 DEF RootsCounted, HandlesOf, LiveClosed
<1>6. PositionsOK' /\ ScannedIsNotWhite'
  BY <1>1, <1>3 DEF PositionsOK, ScannedIsNotWhite, ScannedPart
<1> QED BY <1>4, <1>5, <1>6

\* step() on an array keeps the invariant: the part before gcPosition has no white
\* child, and the array is blackened only when that part is all of it.
LEMMA ScanArrayInv ==
  ASSUME IInv, NEW o \in Obj, ScanArray(o)
  PROVE  IInv'
<1> USE DEF IInv
<1> DEFINE p == gcPosition[o]
           n == Len(cells[o])
           S == IF p < n THEN {cells[o][p + 1]} ELSE {}
           done == p + 1 >= n
<1>1. /\ o \in Arrays /\ place[o] \in {"whiteRoot", "greyRoot", "grey"}
      /\ place' = IF done THEN [GreyAll(place, S) EXCEPT ![o] = Scanned(place[o])] ELSE GreyAll(place, S)
      /\ gcPosition' = [gcPosition EXCEPT ![o] = IF p >= n THEN p ELSE IF done THEN 0 ELSE p + 1]
      /\ UNCHANGED <<refCount, cells, handle, todo>>
      /\ pc' = "conses" /\ steps' = steps - 1 /\ UNCHANGED budget
      /\ pc \in {"containers", "containersOnly"}
  <2>1. p \in Nat /\ n \in Nat
    BY DEF TypeOK
  <2>2. NextPosition(p, n) = IF p >= n THEN p ELSE IF done THEN 0 ELSE p + 1
    BY <2>1 DEF NextPosition
  <2>3. gcPosition' = [gcPosition EXCEPT ![o] = NextPosition(p, n)]
    BY DEF ScanArray
  <2> QED BY <2>2, <2>3, NextScanIsUnscanned DEF ScanArray, heap
<1>2. /\ p \in Nat /\ n \in Nat /\ cells[o] \in Seq(Cell) /\ o \in Live
      /\ p = 0 \/ p < n
      /\ \A i \in 1 .. n : cells[o][i] \in Cell
  BY <1>1 DEF TypeOK, PositionsOK, Live, In, LivePlaces, BulkPlaces, RootPlaces
<1>3. Marking
  BY <1>1, GreyAllMarks, MovesMark DEF Marking, TypeOK, Marks
<1>4. gcPosition' \in [Obj -> Nat] /\ steps' \in Nat
  BY <1>1, <1>2 DEF TypeOK, MarkingDone
<1>5. TypeOK'
  BY <1>1, <1>3, <1>4, MarkingFacts DEF TypeOK, Marking
<1>6. Live' = Live /\ Rooted' = Rooted /\ Kids' = Kids
  BY <1>1, <1>3, MarkingFacts DEF Kids
<1>7. Reachable' = Reachable
  BY <1>6 DEF Reachable
<1>8. RootsCounted' /\ LiveClosed' /\ MarkingDone' /\ TodoOK'
  BY <1>1, <1>3, <1>6, <1>7, MarkingKeepsRoots DEF LiveClosed, MarkingDone, TodoOK
<1>9. \A x \in Obj \ {o} : Blackened(x)' => Blackened(x)
  BY <1>1, GreyAllMarks, GreyAllBlackensNothing DEF Blackened, TypeOK
<1>10. o \notin Conses /\ (Blackened(o)' <=> done)
  <2>1. o \notin Conses
    BY <1>1, StorageAssumption
  <2>2. CASE done
    BY <2>1, <2>2, <1>1, GreyAllMarks, MovesMark DEF Blackened, TypeOK
  <2>3. CASE ~done
    <3>1. place'[o] = GreyAll(place, S)[o] /\ ~Blackened(o)
      BY <2>3, <1>1 DEF Blackened
    <3> QED BY <3>1, <2>1, <2>3, GreyAllBlackensNothing DEF Blackened
  <2> QED BY <2>2, <2>3
<1>11. PositionsOK'
  <2>1. place'[o] # "white" /\ (gcPosition'[o] = 0 \/ gcPosition'[o] < n) /\ (done => gcPosition'[o] = 0)
    <3>1. gcPosition'[o] = IF p >= n THEN p ELSE IF done THEN 0 ELSE p + 1
      BY <1>1 DEF TypeOK
    <3>2. (gcPosition'[o] = 0 \/ gcPosition'[o] < n) /\ (done => gcPosition'[o] = 0)
      BY <3>1, <1>2
    <3>3. place'[o] # "white"
      BY <1>1, <1>3 DEF Marking, Marks
    <3> QED BY <3>2, <3>3
  <2>2. ASSUME NEW x \in Obj, x # o
        PROVE  /\ x \in Live => gcPosition'[x] = 0 \/ gcPosition'[x] < Len(cells[x])
               /\ x \in Conses \/ place'[x] \in {"white", "black", "blackRoot"}
                    => gcPosition'[x] = 0
    BY <2>2, <1>1, <1>3, <1>9 DEF PositionsOK, Marking, Marks, Blackened, TypeOK
  <2> QED BY <2>1, <2>2, <1>1, <1>6, <1>10, HeapShape DEF PositionsOK, Blackened
<1>12. \A i \in 1 .. n : i <= p + 1 /\ cells[o][i] \in Obj => place'[cells[o][i]] # "white"
  <2> SUFFICES ASSUME NEW i \in 1 .. n, i <= p + 1, cells[o][i] \in Obj
               PROVE  place'[cells[o][i]] # "white"
    OBVIOUS
  <2>1. CASE i <= p
    <3>1. ~Blackened(o) /\ cells[o][i] \in ScannedPart(o)
      BY <2>1, <1>1, <1>2 DEF ScannedPart, Blackened
    <3> QED BY <3>1, <1>2, <1>3 DEF ScannedIsNotWhite, Marking, Marks
  <2>2. CASE i = p + 1
    <3>1. cells[o][i] \in S
      BY <2>2, <1>2
    <3>2. GreyAll(place, S)[cells[o][i]] # "white"
      BY <3>1, GreyAllMarks
    <3> QED BY <3>2, <1>1, MovesMark, GreyAllMarks DEF TypeOK
  <2> QED BY <2>1, <2>2, <1>2
<1>13. ScannedIsNotWhite'
  <2> SUFFICES ASSUME NEW x \in Live, NEW c \in ScannedPart(x)'
               PROVE  place'[c] # "white"
    BY <1>6 DEF ScannedIsNotWhite
  <2>1. CASE x = o /\ done
    <3>1. c \in Kids[o]
      BY <2>1, <1>6, <1>10 DEF ScannedPart, Blackened
    <3>2. PICK i \in 1 .. n : c = cells[o][i]
      BY <3>1, <1>2 DEF Kids, Range
    <3> QED BY <3>1, <3>2, <2>1, <1>2, <1>12, HeapShape
  <2>2. CASE x = o /\ ~done
    <3>1. p < n /\ gcPosition'[o] = p + 1
      BY <2>2, <1>1, <1>2 DEF TypeOK
    <3>2. c \in {cells[o][i] : i \in 1 .. (p + 1)} \cap Obj
      BY <3>1, <2>2, <1>1, <1>10 DEF ScannedPart, Blackened
    <3> QED BY <3>1, <3>2, <1>2, <1>12
  <2>3. CASE x # o
    <3>1. gcPosition'[x] = gcPosition[x]
      BY <2>3, <1>1, HeapShape DEF TypeOK
    <3> QED BY <3>1, <2>3, <1>1, <1>3, <1>9, ScannedPartKept, HeapShape
  <2> QED BY <2>1, <2>2, <2>3
<1> QED BY <1>5, <1>8, <1>11, <1>13

\* The swap disposes of white objects: no black object points to one, and
\* only black objects stay.
LEMMA SwapInv ==
  ASSUME IInv, Swap
  PROVE  IInv'
<1> USE DEF IInv
<1>1. /\ place' = [o \in Obj |-> Swapped(place[o])]
      /\ UNCHANGED <<refCount, cells, handle, gcPosition, todo, budget>>
      /\ pc = "swap" /\ pc' = "conses" /\ steps' = steps - 1 /\ steps' \in Nat
  BY DEF Swap, heap, MarkingDone, TypeOK
<1>2. \A o \in Obj : place[o] \notin {"grey", "greyRoot", "whiteRoot"}
  BY <1>1 DEF MarkingDone, Unscanned, Obj
<1>3. \A o \in Obj : /\ place'[o] \in Places
                     /\ place'[o] \in RootPlaces <=> place[o] \in RootPlaces
                     /\ o \in Live' <=> Blackened(o)
                     /\ place'[o] = "white" <=> place[o] = "black"
                     /\ ~Blackened(o)'
  BY <1>1, <1>2 DEF Swapped, Places, LivePlaces, BulkPlaces, RootPlaces, Live, In, Blackened, TypeOK
<1>4. Rooted' = Rooted /\ Kids' = Kids /\ Live' \subseteq Live
  <2>1. Rooted' = Rooted
    BY <1>3 DEF Rooted, In
  <2>2. Kids' = Kids
    BY <1>1 DEF Kids
  <2>3. Live' \subseteq Obj
    BY DEF Live, In
  <2>4. \A o \in Obj : Blackened(o) => o \in Live
    BY DEF Live, In, Blackened, LivePlaces, BulkPlaces, RootPlaces
  <2> QED BY <1>3, <2>1, <2>2, <2>3, <2>4
<1>5. Reachable' = Reachable
  BY <1>4 DEF Reachable
<1>6. TypeOK'
  BY <1>1, <1>3, <1>4 DEF TypeOK
<1>7. RootsCounted' /\ MarkingDone' /\ TodoOK'
  BY <1>1, <1>3, <1>4, <1>5 DEF RootsCounted, HandlesOf, MarkingDone, TodoOK
<1>8. LiveClosed'
  <2> SUFFICES ASSUME NEW o \in Live', NEW c \in Kids[o]
               PROVE  c \in Live'
    BY <1>4 DEF LiveClosed
  <2>1. o \in Live /\ Blackened(o) /\ c \in Live
    BY <1>3, <1>4, HeapShape DEF LiveClosed
  <2>2. place[c] # "white"
    BY <2>1 DEF ScannedIsNotWhite, ScannedPart, Blackened
  <2>3. Blackened(c)
    BY <2>1, <2>2, <1>2, HeapShape
       DEF Live, In, LivePlaces, BulkPlaces, RootPlaces, Blackened
  <2> QED BY <2>3, <1>3, HeapShape, <2>1
<1>9. PositionsOK' /\ ScannedIsNotWhite'
  <2>1. \A o \in Live' : gcPosition'[o] = 0
    BY <1>1, <1>3, <1>4, HeapShape DEF PositionsOK, Blackened
  <2>2. PositionsOK'
    BY <2>1, <1>1, <1>3 DEF PositionsOK, Live, In, Blackened, LivePlaces, BulkPlaces
  <2>3. \A o \in Live' : ScannedPart(o)' = {}
    BY <2>1, <1>3, <1>4, HeapShape DEF ScannedPart, Blackened
  <2> QED BY <2>2, <2>3 DEF ScannedIsNotWhite
<1> QED BY <1>6, <1>7, <1>8, <1>9

\* Steps that only touch objects that are not alive, while the collector
\* recycles.
LEMMA OnlyDeadChange ==
  ASSUME IInv, TypeOK', pc' = "conses", UNCHANGED <<handle, todo>>,
         \A o \in Live : /\ place'[o] = place[o] /\ cells'[o] = cells[o]
                         /\ refCount'[o] = refCount[o] /\ gcPosition'[o] = gcPosition[o],
         \A o \in Obj \ Live : /\ place'[o] \in {"void", "disposed", "recycling"}
                               /\ o \in Conses => gcPosition'[o] = 0
  PROVE  IInv'
<1> USE DEF IInv
<1>1. Live' = Live /\ Rooted' = Rooted
  BY HeapShape DEF Live, Rooted, In, LivePlaces, BulkPlaces, RootPlaces
<1>2. Reachable' = Reachable
  BY <1>1, ReachableUnchanged
<1>3. \A o \in Live : Kids'[o] = Kids[o]
  BY HeapShape DEF Kids
<1>4. RootsCounted'
  BY <1>1, HeapShape DEF RootsCounted, HandlesOf, Rooted, In
<1>5. LiveClosed' /\ MarkingDone'
  BY <1>1, <1>3 DEF LiveClosed, MarkingDone
<1>6. PositionsOK'
  BY <1>1, HeapShape DEF PositionsOK
<1>7. ScannedIsNotWhite'
  <2>1. ASSUME NEW o \in Live PROVE ScannedPart(o)' = ScannedPart(o)
    <3>1. /\ place'[o] = place[o] /\ cells'[o] = cells[o]
          /\ gcPosition'[o] = gcPosition[o] /\ Kids'[o] = Kids[o]
      BY <1>3
    <3> HIDE DEF IInv
    <3> QED BY <3>1 DEF ScannedPart
  <2>2. \A o \in Live : ScannedPart(o) \subseteq Live
    BY ScannedPartIsKids DEF LiveClosed
  <2> QED BY <2>1, <2>2, <1>1 DEF ScannedIsNotWhite
<1>8. TodoOK'
  <2>1. todo.op # "assignCell" /\ todo.x \in Obj => cells'[todo.x] = cells[todo.x]
    BY ReachableFacts DEF TodoOK
  <2> QED BY <1>1, <1>2, <2>1 DEF TodoOK
<1> QED BY <1>4, <1>5, <1>6, <1>7, <1>8

\* recycle() of a cons touches a disposed object only.
LEMMA RecycleConsInv ==
  ASSUME IInv, NEW o \in Obj, RecycleCons(o)
  PROVE  IInv'
<1>1. TypeOK'
  BY DEF IInv, TypeOK, RecycleCons, Freed, Places, Live, In, LivePlaces, BulkPlaces, RootPlaces
<1>2. \A x \in Obj \ Live : place[x] \in {"void", "disposed", "recycling"}
  BY DEF IInv, TypeOK, Live, In, Places
<1>3. o \notin Live
  BY DEF RecycleCons, Live, In, LivePlaces, BulkPlaces, RootPlaces
<1> QED BY <1>1, <1>2, <1>3, OnlyDeadChange, HeapShape DEF IInv, PositionsOK, RecycleCons, Freed

\* recycle() of one child of an array touches a disposed object only.
LEMMA RecycleArrayInv ==
  ASSUME IInv, NEW o \in Obj, RecycleArray(o)
  PROVE  IInv'
<1>1. o \in Arrays /\ o \notin Live
  BY DEF RecycleArray, Live, In, LivePlaces, BulkPlaces, RootPlaces, Obj
<1>2. o \notin Conses
  BY <1>1, StorageAssumption
<1>3. UNCHANGED <<handle, pc, steps, todo>> /\ pc = "conses" /\ budget' \in Nat
  BY DEF RecycleArray, IInv, TypeOK
<1>4. \A x \in Obj \ Live : place[x] \in {"void", "disposed", "recycling"}
  BY DEF IInv, TypeOK, Live, In, Places
<1>5. \/ Freed({o})
      \/ /\ place' = [place EXCEPT ![o] = "recycling"] /\ UNCHANGED <<refCount, cells>>
         /\ \E p \in Nat : gcPosition' = [gcPosition EXCEPT ![o] = p]
  BY DEF RecycleArray, IInv, TypeOK
<1>6. CASE Freed({o})
  <2>1. TypeOK'
    BY <1>1, <1>2, <1>3, <1>6 DEF IInv, TypeOK, Freed, Places, Live, In, LivePlaces, BulkPlaces, RootPlaces
  <2> QED BY <1>1, <1>2, <1>3, <1>4, <1>6, <2>1, OnlyDeadChange, HeapShape
          DEF IInv, PositionsOK, Freed
<1>7. CASE /\ place' = [place EXCEPT ![o] = "recycling"] /\ UNCHANGED <<refCount, cells>>
           /\ \E p \in Nat : gcPosition' = [gcPosition EXCEPT ![o] = p]
  <2>1. TypeOK'
    BY <1>1, <1>2, <1>3, <1>7 DEF IInv, TypeOK, Places, Live, In, LivePlaces, BulkPlaces, RootPlaces
  <2> QED BY <1>1, <1>2, <1>3, <1>4, <1>7, <2>1, OnlyDeadChange, HeapShape
          DEF IInv, PositionsOK, TypeOK
<1> QED BY <1>5, <1>6, <1>7

---------------------------------------------------------------------------
(* Calls that begin or end without touching the heap.                      *)

\* Nil is neither an object nor a handle.
LEMMA NilIsNoObj == Nil \notin Obj /\ Nil \notin Handles
  BY StorageAssumption DEF Obj

\* The record of a call that finishes with nothing is a call.
LEMMA IdleOK ==
  /\ Idle \in Calls
  /\ {Idle.x, Idle.car, Idle.cdr} \cap Obj = {} /\ Idle.op = "none"
  BY NilIsNoObj DEF Idle, Calls, Ops, Cell

\* A step that leaves the heap alone needs only its control to be right.
LEMMA OnlyControlChanges ==
  ASSUME IInv, UNCHANGED <<place, gcPosition, heap>>,
         pc' = "conses" \/ (pc' = "program" /\ todo' = Idle),
         steps' \in Nat, budget' \in Nat, todo' \in Calls,
         {todo'.x, todo'.car, todo'.cdr} \cap Obj \subseteq Reachable,
         todo'.op \in {"makeCons", "makeArray"} =>
           todo'.x \in Obj /\ todo'.i \in DOMAIN cells[todo'.x],
         todo'.op \in {"makeRootCons", "makeRootArray", "assign"} =>
           todo'.h \in Handles /\ handle[todo'.h] = Nil,
         todo'.op = "assign" => todo'.car \in Rooted
  PROVE  IInv'
<1> USE DEF IInv
<1>1. UNCHANGED <<place, gcPosition, refCount, cells, handle>>
  BY DEF heap
<1>2. Live' = Live /\ Kids' = Kids /\ Reachable' = Reachable /\ Rooted' = Rooted
  BY <1>1 DEF Live, In, Kids, Reachable, Rooted
<1>3. TypeOK' /\ MarkingDone' /\ TodoOK'
  BY <1>1, <1>2 DEF TypeOK, MarkingDone, TodoOK
<1>4. RootsCounted' /\ LiveClosed'
  BY <1>1, <1>2 DEF RootsCounted, HandlesOf, LiveClosed
<1>5. PositionsOK' /\ ScannedIsNotWhite'
  BY <1>1, <1>2 DEF PositionsOK, ScannedIsNotWhite, ScannedPart
<1> QED BY <1>3, <1>4, <1>5

\* A dropped handle's call ends.
LEMMA FinishCollectInv ==
  ASSUME IInv, FinishCollect
  PROVE  IInv'
  BY IdleOK, OnlyControlChanges DEF FinishCollect, Finishes, IInv, TypeOK

\* The program calls step() or recycle().
LEMMA CallStepInv ==
  ASSUME IInv, CallStep \/ CallRecycle
  PROVE  IInv'
  BY IdleOK, BoundsAssumption, OnlyControlChanges DEF CallStep, CallRecycle, Collect

\* makeRoot<Cons>() begins: its arguments are reachable while it collects.
LEMMA MakeRootConsInv ==
  ASSUME IInv, NEW h \in Handles, NEW a \in Value, NEW b \in Value, MakeRootCons(h, a, b)
  PROVE  IInv'
<1>1. a \in Cell /\ b \in Cell /\ {Nil, a, b} \cap Obj \subseteq Reachable
  BY ReachableFacts, HeapShape, NilIsNoObj DEF IInv, Value, Cell
<1>2. todo' = [op |-> "makeRootCons", h |-> h, x |-> Nil, i |-> 0, car |-> a, cdr |-> b]
  BY DEF MakeRootCons, Collect, Idle
<1>3. todo' \in Calls
  BY <1>1, <1>2 DEF Calls, Ops, Cell
<1>4. /\ todo'.op = "makeRootCons" /\ todo'.h = h
      /\ {todo'.x, todo'.car, todo'.cdr} = {Nil, a, b}
  BY <1>2
<1>5. /\ pc' = "conses" /\ steps' \in Nat /\ budget' \in Nat /\ handle[h] = Nil
      /\ UNCHANGED <<place, gcPosition, heap>>
  BY BoundsAssumption DEF MakeRootCons, Collect
<1> QED BY <1>1, <1>3, <1>4, <1>5, OnlyControlChanges

\* makeRoot<Array>() begins.
LEMMA MakeRootArrayInv ==
  ASSUME IInv, NEW h \in Handles, MakeRootArray(h)
  PROVE  IInv'
<1>1. todo' = [op |-> "makeRootArray", h |-> h, x |-> Nil, i |-> 0, car |-> Nil, cdr |-> Nil]
  BY DEF MakeRootArray, Collect, Idle
<1>2. todo' \in Calls /\ {todo'.x, todo'.car, todo'.cdr} \cap Obj = {}
  BY <1>1, NilIsNoObj DEF Calls, Ops, Cell
<1> QED BY <1>1, <1>2, BoundsAssumption, OnlyControlChanges DEF MakeRootArray, Collect

\* make<Cons>() begins: the object that will hold it is reachable.
LEMMA MakeConsInv ==
  ASSUME IInv, NEW x \in Reachable, NEW i \in 1 .. Len(cells[x]),
         NEW a \in Value, NEW b \in Value, MakeCons(x, i, a, b)
  PROVE  IInv'
<1>1. /\ x \in Obj /\ x \in Cell /\ i \in Nat /\ i \in DOMAIN cells[x]
      /\ a \in Cell /\ b \in Cell /\ {x, a, b} \cap Obj \subseteq Reachable
  BY ReachableFacts, HeapShape, NilIsNoObj DEF IInv, Value, Cell, MakeCons
<1>2. todo' = [op |-> "makeCons", h |-> Nil, x |-> x, i |-> i, car |-> a, cdr |-> b]
  BY DEF MakeCons, Collect, Idle
<1>3. todo' \in Calls /\ {todo'.x, todo'.car, todo'.cdr} \cap Obj \subseteq Reachable
  BY <1>1, <1>2 DEF Calls, Ops, Cell
<1>4. todo'.op = "makeCons" /\ todo'.i \in DOMAIN cells[todo'.x] /\ todo'.x \in Obj
  BY <1>1, <1>2
<1>5. pc' = "conses" /\ steps' \in Nat /\ budget' \in Nat /\ UNCHANGED <<place, gcPosition, heap>>
  BY BoundsAssumption DEF MakeCons, Collect
<1> QED BY <1>3, <1>4, <1>5, OnlyControlChanges

\* make<Array>() begins.
LEMMA MakeArrayInv ==
  ASSUME IInv, NEW x \in Reachable, NEW i \in 1 .. Len(cells[x]), MakeArray(x, i)
  PROVE  IInv'
<1>1. x \in Obj /\ x \in Cell /\ i \in Nat /\ i \in DOMAIN cells[x]
  BY ReachableFacts, HeapShape DEF IInv, Cell, MakeArray
<1>2. todo' = [op |-> "makeArray", h |-> Nil, x |-> x, i |-> i, car |-> Nil, cdr |-> Nil]
  BY DEF MakeArray, Collect, Idle
<1>3. todo' \in Calls /\ {todo'.x, todo'.car, todo'.cdr} \cap Obj \subseteq Reachable
  BY <1>1, <1>2, NilIsNoObj DEF Calls, Ops, Cell
<1>4. todo'.op = "makeArray" /\ todo'.i \in DOMAIN cells[todo'.x] /\ todo'.x \in Obj
  BY <1>1, <1>2
<1>5. pc' = "conses" /\ steps' \in Nat /\ budget' \in Nat /\ UNCHANGED <<place, gcPosition, heap>>
  BY BoundsAssumption DEF MakeArray, Collect
<1> QED BY <1>3, <1>4, <1>5, OnlyControlChanges

---------------------------------------------------------------------------
(* Handles.                                                                *)

\* The handles of an object can be counted.
LEMMA HandlesAreFinite ==
  ASSUME NEW o
  PROVE  IsFiniteSet(HandlesOf(o)) /\ IsFiniteSet(HandlesOf(o)')
  BY BoundsAssumption, FS_Subset DEF HandlesOf

\* A place an object can move to when a handle takes or leaves it: never
\* white unless it was white, and black stays black unless it is rooted.
LEMMA OtherElementsPlaces ==
  ASSUME NEW p \in LivePlaces
  PROVE  /\ OtherElements(p) \in LivePlaces /\ OtherElements(p) # "white"
         /\ p \in RootPlaces <=> OtherElements(p) \notin RootPlaces
         /\ OtherElements(p) \in {"black", "blackRoot"} => p = "blackRoot"
  BY DEF OtherElements, LivePlaces, BulkPlaces, RootPlaces

\* What a change of root status of one live object leaves intact.
LEMMA OneMoves ==
  ASSUME IInv, NEW c \in Live, NEW q \in LivePlaces, UNCHANGED <<cells, gcPosition>>,
         place' = [place EXCEPT ![c] = q], q # "white",
         q \in {"black", "blackRoot"} => Blackened(c)
  PROVE  /\ Live' = Live /\ Kids' = Kids
         /\ LiveClosed' /\ PositionsOK' /\ ScannedIsNotWhite'
<1> USE DEF IInv
<1>1. c \in Obj /\ place'[c] = q /\ \A x \in Obj \ {c} : place'[x] = place[x]
  BY HeapShape DEF TypeOK
<1>2. Live' = Live /\ Kids' = Kids
  BY <1>1 DEF Live, In, Kids
<1>3. LiveClosed' /\ PositionsOK'
  BY <1>1, <1>2, HeapShape DEF LiveClosed, PositionsOK, Blackened
<1>4. \A x \in Live : ScannedPart(x)' \subseteq ScannedPart(x)
  <2> SUFFICES ASSUME NEW x \in Live PROVE ScannedPart(x)' \subseteq ScannedPart(x)
    OBVIOUS
  <2>1. CASE x # c
    BY <2>1, <1>1, <1>2, HeapShape DEF ScannedPart
  <2>2. CASE x = c /\ ~Blackened(c)
    BY <2>2, <1>1, <1>2 DEF ScannedPart, Blackened
  <2>3. CASE x = c /\ Blackened(c)
    <3>1. gcPosition[c] = 0
      BY <2>3, <1>1 DEF PositionsOK, Blackened
    <3>2. {cells[c][i] : i \in 1 .. gcPosition[c]} = {}
      BY <3>1
    <3> QED BY <2>3, <3>2, <1>1, <1>2 DEF ScannedPart, Blackened
  <2> QED BY <2>1, <2>2, <2>3
<1>5. ScannedIsNotWhite'
  <2>1. \A x \in Live : ScannedPart(x) \subseteq Obj
    BY ScannedPartIsKids, HeapShape
  <2> QED BY <1>1, <1>2, <1>4, <2>1 DEF ScannedIsNotWhite
<1> QED BY <1>2, <1>3, <1>5

\* A handle takes a live object (collectible_container.h:166).
LEMMA RootFacts ==
  ASSUME IInv, NEW h \in Handles, NEW c \in Live, handle[h] = Nil,
         Root(h, c), UNCHANGED <<cells, gcPosition>>
  PROVE  /\ place' \in [Obj -> Places] /\ refCount' \in [Obj -> Nat]
         /\ handle' \in [Handles -> Cell]
         /\ Live' = Live /\ Kids' = Kids
         /\ RootsCounted' /\ LiveClosed' /\ PositionsOK' /\ ScannedIsNotWhite'
<1> USE DEF IInv
<1> DEFINE q == IF place[c] \in RootPlaces THEN place[c] ELSE OtherElements(place[c])
<1>1. c \in Live /\ c \in Obj /\ c \in Cell /\ place[c] \in LivePlaces /\ c # Nil
  BY HeapShape, NilIsNoObj DEF Live, In, Cell
<1>2. q \in LivePlaces /\ q \in RootPlaces /\ q # "white"
      /\ (q \in {"black", "blackRoot"} => Blackened(c))
  BY <1>1, OtherElementsPlaces DEF RootPlaces, LivePlaces, Blackened
<1>3. place' = [place EXCEPT ![c] = q]
  BY <1>1 DEF Root, TypeOK
<1>4. Live' = Live /\ Kids' = Kids /\ LiveClosed' /\ PositionsOK' /\ ScannedIsNotWhite'
  BY <1>1, <1>2, <1>3, OneMoves
<1>5. /\ handle' = [handle EXCEPT ![h] = c]
      /\ HandlesOf(c)' = HandlesOf(c) \cup {h} /\ h \notin HandlesOf(c)
      /\ \A o \in Obj \ {c} : HandlesOf(o)' = HandlesOf(o)
  BY <1>1, NilIsNoObj DEF Root, HandlesOf, TypeOK
<1>6. Cardinality(HandlesOf(c)') = Cardinality(HandlesOf(c)) + 1
  BY <1>5, HandlesAreFinite, FS_AddElement
<1>7. refCount' = [refCount EXCEPT ![c] = Cardinality(HandlesOf(c)')]
      /\ Cardinality(HandlesOf(c)') \in Nat
  <2>1. CASE place[c] \in RootPlaces
    BY <2>1, <1>1, <1>6, HandlesAreFinite, FS_CardinalityType DEF Root, RootsCounted, TypeOK
  <2>2. CASE place[c] \notin RootPlaces
    <3>1. HandlesOf(c) = {}
      BY <2>2, <1>1 DEF RootsCounted
    <3>2. Cardinality(HandlesOf(c)') = 1
      BY <3>1, <1>6, FS_EmptySet
    <3> QED BY <2>2, <3>2 DEF Root
  <2> QED BY <2>1, <2>2
<1>8. RootsCounted'
  <2> SUFFICES ASSUME NEW o \in Obj
               PROVE  /\ place'[o] \in RootPlaces <=> HandlesOf(o)' # {}
                      /\ place'[o] \in RootPlaces => refCount'[o] = Cardinality(HandlesOf(o)')
    BY DEF RootsCounted
  <2>1. CASE o = c
    BY <2>1, <1>1, <1>2, <1>3, <1>5, <1>7 DEF TypeOK
  <2>2. CASE o # c
    BY <2>2, <1>1, <1>3, <1>5, <1>7 DEF TypeOK, RootsCounted
  <2> QED BY <2>1, <2>2
<1>9. place' \in [Obj -> Places] /\ refCount' \in [Obj -> Nat] /\ handle' \in [Handles -> Cell]
  BY <1>1, <1>2, <1>3, <1>5, <1>7 DEF TypeOK, Places
<1> QED BY <1>4, <1>8, <1>9

\* A handle gives its object up (collectible_container.h:183).
LEMMA UnrootFacts ==
  ASSUME IInv, NEW h \in Handles, Unroot(h), UNCHANGED <<cells, gcPosition>>
  PROVE  /\ place' \in [Obj -> Places] /\ refCount' \in [Obj -> Nat]
         /\ handle' = [handle EXCEPT ![h] = Nil] /\ handle' \in [Handles -> Cell]
         /\ Live' = Live /\ Kids' = Kids
         /\ RootsCounted' /\ LiveClosed' /\ PositionsOK' /\ ScannedIsNotWhite'
<1> USE DEF IInv
<1>0. PICK o \in Obj : o = handle[h]
  BY DEF Unroot
<1> DEFINE last == refCount[o] = 1
           q == IF last THEN OtherElements(place[o]) ELSE place[o]
<1>1. o \in Obj /\ h \in HandlesOf(o) /\ place[o] \in RootPlaces
      /\ refCount[o] = Cardinality(HandlesOf(o))
  BY <1>0 DEF Unroot, HandlesOf, RootsCounted
<1>2. o \in Live /\ place[o] \in LivePlaces /\ o # Nil
  BY <1>1, NilIsNoObj DEF Live, In, LivePlaces
<1>3. /\ q \in LivePlaces /\ q # "white"
      /\ q \in {"black", "blackRoot"} => Blackened(o)
      /\ q \in RootPlaces <=> ~last
  BY <1>1, <1>2, OtherElementsPlaces DEF RootPlaces, LivePlaces, Blackened
<1>4. place' = [place EXCEPT ![o] = q] /\ refCount' = [refCount EXCEPT ![o] = @ - 1]
  BY <1>0, <1>1 DEF Unroot, TypeOK
<1>5. Live' = Live /\ Kids' = Kids /\ LiveClosed' /\ PositionsOK' /\ ScannedIsNotWhite'
  BY <1>2, <1>3, <1>4, OneMoves
<1>6. /\ handle' = [handle EXCEPT ![h] = Nil]
      /\ HandlesOf(o)' = HandlesOf(o) \ {h}
      /\ \A x \in Obj \ {o} : HandlesOf(x)' = HandlesOf(x)
  BY <1>0, <1>1, <1>2, NilIsNoObj DEF Unroot, HandlesOf, TypeOK
<1>7. /\ Cardinality(HandlesOf(o)') = refCount[o] - 1
      /\ Cardinality(HandlesOf(o)') \in Nat
      /\ last <=> HandlesOf(o)' = {}
  <2>1. Cardinality(HandlesOf(o)') = refCount[o] - 1
    BY <1>1, <1>6, HandlesAreFinite, FS_RemoveElement
  <2>2. Cardinality(HandlesOf(o)') \in Nat /\ (Cardinality(HandlesOf(o)') = 0 <=> HandlesOf(o)' = {})
    BY HandlesAreFinite, FS_CardinalityType, FS_EmptySet
  <2> QED BY <2>1, <2>2, <1>1 DEF TypeOK
<1>8. RootsCounted'
  <2> SUFFICES ASSUME NEW x \in Obj
               PROVE  /\ place'[x] \in RootPlaces <=> HandlesOf(x)' # {}
                      /\ place'[x] \in RootPlaces => refCount'[x] = Cardinality(HandlesOf(x)')
    BY DEF RootsCounted
  <2>1. CASE x = o
    BY <2>1, <1>1, <1>3, <1>4, <1>7 DEF TypeOK
  <2>2. CASE x # o
    BY <2>2, <1>1, <1>4, <1>6 DEF TypeOK, RootsCounted
  <2> QED BY <2>1, <2>2
<1>9. place' \in [Obj -> Places] /\ refCount' \in [Obj -> Nat] /\ handle' \in [Handles -> Cell]
  BY <1>1, <1>3, <1>4, <1>6, <1>7 DEF TypeOK, Places, Cell
<1> QED BY <1>5, <1>6, <1>8, <1>9

\* Copying a handle, or making one from a cell, keeps the invariant.
LEMMA CopyInv ==
  ASSUME IInv, NEW h \in Handles, NEW c \in Reachable, Copy(h, c)
  PROVE  IInv'
<1>1. /\ handle[h] = Nil /\ Root(h, c) /\ UNCHANGED <<cells, gcPosition, pc, steps, budget, todo>>
      /\ pc = "program" /\ todo = Idle /\ c \in Live
  BY ReachableFacts DEF Copy, Program, control, IInv, TodoOK
<1>2. RootsCounted' /\ LiveClosed' /\ PositionsOK' /\ ScannedIsNotWhite'
  BY <1>1, RootFacts
<1>3. TypeOK'
  BY <1>1, RootFacts DEF IInv, TypeOK
<1>4. MarkingDone' /\ TodoOK'
  BY <1>1, IdleOK DEF MarkingDone, TodoOK
<1> QED BY <1>2, <1>3, <1>4 DEF IInv

\* The end of an assignment counts an object that is a root.
LEMMA FinishAssignInv ==
  ASSUME IInv, FinishAssign
  PROVE  IInv'
<1>1. /\ todo.op = "assign" /\ UNCHANGED <<place, cells, gcPosition>>
      /\ pc' = "program" /\ todo' = Idle /\ UNCHANGED steps /\ budget' = 0
  BY DEF FinishAssign, Finishes
<1>2. /\ todo.h \in Handles /\ todo.car \in Rooted /\ handle[todo.h] = Nil
      /\ todo.car \in Live
  BY <1>1, ReachableFacts, NilIsNoObj DEF IInv, TodoOK, Rooted, In
<1>6. Root(todo.h, todo.car)
  BY <1>1, <1>2 DEF FinishAssign, Root, Rooted, In
<1>3. RootsCounted' /\ LiveClosed' /\ PositionsOK' /\ ScannedIsNotWhite'
  BY <1>1, <1>2, <1>6, RootFacts
<1>4. TypeOK'
  BY <1>1, <1>2, <1>6, IdleOK, RootFacts DEF IInv, TypeOK
<1>5. MarkingDone' /\ TodoOK'
  BY <1>1, IdleOK DEF MarkingDone, TodoOK
<1> QED BY <1>3, <1>4, <1>5 DEF IInv

\* ~Object() keeps the invariant.
LEMMA DropInv ==
  ASSUME IInv, NEW h \in Handles, Drop(h)
  PROVE  IInv'
<1>1. /\ Unroot(h) /\ UNCHANGED <<cells, gcPosition>>
      /\ pc' = "conses" /\ todo' = Idle /\ steps' \in Nat /\ budget' \in Nat
  BY BoundsAssumption DEF Drop, Collect
<1>2. RootsCounted' /\ LiveClosed' /\ PositionsOK' /\ ScannedIsNotWhite'
  BY <1>1, UnrootFacts
<1>3. TypeOK'
  BY <1>1, IdleOK, UnrootFacts DEF IInv, TypeOK
<1>4. MarkingDone' /\ TodoOK'
  BY <1>1, IdleOK DEF MarkingDone, TodoOK
<1> QED BY <1>2, <1>3, <1>4 DEF IInv

\* The first half of an assignment: the other handle keeps the object a root.
LEMMA AssignInv ==
  ASSUME IInv, NEW h \in Handles, NEW g \in Handles, Assign(h, g)
  PROVE  IInv'
<1>1. /\ Unroot(h) /\ UNCHANGED <<cells, gcPosition>> /\ g # h /\ handle[g] \in Obj
      /\ pc' = "conses" /\ steps' \in Nat /\ budget' \in Nat
      /\ todo' = [op |-> "assign", h |-> h, x |-> Nil, i |-> 0, car |-> handle[g], cdr |-> Nil]
  BY BoundsAssumption DEF Assign, Collect, Idle
<1>2. RootsCounted' /\ LiveClosed' /\ PositionsOK' /\ ScannedIsNotWhite'
  BY <1>1, UnrootFacts
<1>3. todo' \in Calls
  BY <1>1 DEF Calls, Ops, Cell
<1>4. TypeOK'
  BY <1>1, <1>3, UnrootFacts DEF IInv, TypeOK
<1>5. handle'[g] = handle[g] /\ handle'[h] = Nil
  BY <1>1, UnrootFacts DEF IInv, TypeOK
<1>6. handle[g] \in Rooted'
  BY <1>1, <1>2, <1>5 DEF RootsCounted, HandlesOf, Rooted, In
<1>7. Rooted' \subseteq Reachable'
  <2>1. Kids' \in [Obj -> SUBSET Obj] /\ Rooted' \subseteq Obj
    BY DEF Kids, Rooted, In
  <2> QED BY <2>1, ReachIsClosed DEF Reachable
<1>8. MarkingDone' /\ TodoOK'
  BY <1>1, <1>5, <1>6, <1>7, NilIsNoObj DEF MarkingDone, TodoOK
<1> QED BY <1>2, <1>4, <1>8 DEF IInv

---------------------------------------------------------------------------
(* New objects.                                                            *)

\* The arguments of a makeRoot<Cons>() are live when the cons is there.
LEMMA FinishMakeRootInv ==
  ASSUME IInv, NEW o \in Obj, FinishMakeRoot(o)
  PROVE  IInv'
<1> USE DEF IInv
<1> DEFINE h == todo.h
<1>1. /\ place[o] = "void" /\ place' = [place EXCEPT ![o] = "whiteRoot"]
      /\ refCount' = [refCount EXCEPT ![o] = 1]
      /\ cells' = [cells EXCEPT ![o] = NewCells(o)]
      /\ gcPosition' = [gcPosition EXCEPT ![o] = 0]
      /\ handle' = [handle EXCEPT ![todo.h] = o]
      /\ todo.op \in {"makeRootCons", "makeRootArray"}
      /\ pc' = "program" /\ todo' = Idle /\ UNCHANGED steps /\ budget' = 0
  BY DEF FinishMakeRoot, Finishes
<1>2. /\ todo.h \in Handles /\ handle[todo.h] = Nil /\ o \in Cell /\ o # Nil
      /\ {todo.car, todo.cdr} \subseteq Cell /\ {todo.car, todo.cdr} \cap Obj \subseteq Live
  BY <1>1, ReachableFacts, NilIsNoObj DEF TodoOK, TypeOK, Calls, Cell
<1>3. o \notin Live /\ Live' = Live \cup {o}
  BY <1>1 DEF Live, In, LivePlaces, BulkPlaces, RootPlaces, TypeOK
<1>4. /\ NewCells(o) \in Seq(Cell)
      /\ o \in Conses => Len(NewCells(o)) = 2
      /\ Range(NewCells(o)) \cap Obj \subseteq Live
  <2>1. CASE o \in Conses
    BY <2>1, <1>2 DEF NewCells, Range
  <2>2. CASE o \notin Conses
    BY <2>2 DEF NewCells, Range
  <2> QED BY <2>1, <2>2
<1>5. Kids'[o] \subseteq Live /\ \A x \in Obj \ {o} : Kids'[x] = Kids[x]
  BY <1>1, <1>4 DEF Kids, TypeOK
<1>6. TypeOK'
  BY <1>1, <1>2, <1>3, <1>4, IdleOK DEF TypeOK, Places, LivePlaces, RootPlaces
<1>7. LiveClosed'
  BY <1>3, <1>5, HeapShape DEF LiveClosed
<1>8. PositionsOK'
  BY <1>1, <1>3, HeapShape DEF PositionsOK, TypeOK
<1>9. ScannedIsNotWhite'
  <2>1. gcPosition'[o] = 0 /\ place'[o] = "whiteRoot"
    BY <1>1 DEF TypeOK
  <2>2. ScannedPart(o)' = {}
    BY <2>1 DEF ScannedPart
  <2>3. ASSUME NEW x \in Live PROVE ScannedPart(x)' = ScannedPart(x) /\ ScannedPart(x) \subseteq Live
    <3>1. x \in Obj /\ x # o /\ gcPosition'[x] = gcPosition[x] /\ place'[x] = place[x]
          /\ cells'[x] = cells[x]
      BY <1>1, <1>3, HeapShape DEF TypeOK
    <3> QED BY <3>1, <1>5, ScannedPartIsKids DEF ScannedPart, LiveClosed
  <2>4. \A x \in Live : place'[x] = place[x]
    BY <1>1, <1>3, HeapShape DEF TypeOK
  <2> QED BY <1>3, <2>2, <2>3, <2>4 DEF ScannedIsNotWhite
<1>10. RootsCounted'
  <2>1. HandlesOf(o) = {} /\ HandlesOf(o)' = {todo.h}
    BY <1>1, <1>2 DEF HandlesOf, TypeOK, RootsCounted, RootPlaces
  <2>2. \A x \in Obj \ {o} : HandlesOf(x)' = HandlesOf(x)
    BY <1>1, <1>2, NilIsNoObj DEF HandlesOf, TypeOK
  <2>3. Cardinality({todo.h}) = 1
    BY FS_Singleton
  <2> QED BY <1>1, <2>1, <2>2, <2>3 DEF RootsCounted, TypeOK, RootPlaces
<1>11. MarkingDone' /\ TodoOK'
  BY <1>1, IdleOK DEF MarkingDone, TodoOK
<1> QED BY <1>6, <1>7, <1>8, <1>9, <1>10, <1>11

---------------------------------------------------------------------------
(* Writes.                                                                 *)

\* What a write barrier q of the old places p does when x is written: it
\* marks; if it turns x black, no child of x is white.
Barred(p, q, x, now) ==
  /\ q \in [Obj -> Places]
  /\ \A o \in Obj : Marks(p[o], q[o])
  /\ \A o \in Obj \ {x} : q[o] \in {"black", "blackRoot"} => p[o] \in {"black", "blackRoot"}
  /\ p[x] \notin {"black", "blackRoot"} /\ q[x] \in {"black", "blackRoot"} =>
       x \notin Arrays /\ \A k \in Range(now) \cap Obj : q[k] # "white"

\* gcStep() greys every child of x.
LEMMA GcStepMoves ==
  ASSUME NEW p \in [Obj -> Places], NEW x \in Obj, NEW now \in Seq(Cell), x \notin Arrays
  PROVE  /\ Barred(p, GcStep(p, x, now), x, now)
         /\ \A k \in Range(now) \cap Obj : GcStep(p, x, now)[k] # "white"
<1> DEFINE K == Range(now) \cap Obj
           g == GreyAll(p, K)
<1>1. GcStep(p, x, now) = [g EXCEPT ![x] = ToElements(@)]
  BY DEF GcStep
<1>2. /\ g \in [Obj -> Places] /\ \A o \in Obj : Marks(p[o], g[o])
      /\ \A o \in K : g[o] # "white"
      /\ \A o \in Obj : g[o] \in {"black", "blackRoot"} => p[o] \in {"black", "blackRoot"}
  BY GreyAllMoves
<1>3. Marks(g[x], ToElements(g[x])) /\ ToElements(g[x]) # "white"
      /\ Marks(p[x], ToElements(g[x])) /\ ToElements(g[x]) \in Places
  <2>1. g[x] \in Places /\ Marks(p[x], g[x])
    BY <1>2
  <2>2. Marks(g[x], ToElements(g[x])) /\ ToElements(g[x]) # "white"
    BY <2>1, MovesMark
  <2> QED BY <2>1, <2>2, MarksTransitive DEF Marks
<1> HIDE DEF g, K
<1>4. DEFINE q == [g EXCEPT ![x] = ToElements(@)]
<1>5. q \in [Obj -> Places] /\ q[x] = ToElements(g[x]) /\ \A o \in Obj \ {x} : q[o] = g[o]
  BY <1>2, <1>3
<1>6. \A k \in K : q[k] # "white"
  BY <1>2, <1>3, <1>5 DEF K
<1> HIDE DEF q
<1>7. /\ \A o \in Obj : Marks(p[o], q[o])
      /\ \A o \in Obj \ {x} : q[o] \in {"black", "blackRoot"} => p[o] \in {"black", "blackRoot"}
  BY <1>2, <1>3, <1>5
<1>8. Barred(p, q, x, now)
  BY <1>5, <1>6, <1>7 DEF Barred, K
<1> QED BY <1>1, <1>6, <1>8 DEF q, K

\* The barrier of setCar(), setCdr(), set() and append(): the child that was
\* stored is not white afterwards.
LEMMA BarrierMoves ==
  ASSUME NEW p \in [Obj -> Places], NEW x \in Obj, NEW now \in Seq(Cell), NEW c \in Cell,
         c \in Range(now)
  PROVE  /\ Barred(p, Barrier(p, x, now, c), x, now)
         /\ c \in Obj => Barrier(p, x, now, c)[c] # "white"
<1>1. CASE c \notin Obj
  BY <1>1, MovesMark DEF Barrier, Barred
<1>2. CASE c \in Obj /\ x \in Arrays
  <2>1. Barrier(p, x, now, c) = GreyAll(p, {c})
    BY <1>2 DEF Barrier
  <2> QED BY <1>2, <2>1, GreyAllMoves DEF Barred
<1>3. CASE c \in Obj /\ x \notin Arrays
  <2>1. Barrier(p, x, now, c) = GcStep(p, x, now)
    BY <1>3 DEF Barrier
  <2> QED BY <1>3, <2>1, GcStepMoves
<1> QED BY <1>1, <1>2, <1>3

\* The barriers keep live objects alive.
LEMMA BarriersKeepLive ==
  ASSUME IInv, NEW x \in Obj, NEW now, NEW c,
         place' = Barrier(place, x, now, c) \/ place' = GcStep(place, x, now)
  PROVE  Live' = Live
<1>1. place \in [Obj -> Places]
  BY DEF IInv, TypeOK
<1>2. ASSUME NEW S, NEW q \in [Obj -> Places],
             q = GreyAll(place, S) \/ q = [GreyAll(place, S) EXCEPT ![x] = ToElements(@)]
      PROVE  \A o \in Obj : q[o] \in LivePlaces <=> place[o] \in LivePlaces
  BY <1>1, <1>2, GreyAllMoves, MovesMark DEF Marks
<1>3. ASSUME NEW S
      PROVE  /\ GreyAll(place, S) \in [Obj -> Places]
             /\ [GreyAll(place, S) EXCEPT ![x] = ToElements(@)] \in [Obj -> Places]
  BY <1>1, GreyAllMoves, MovesMark DEF Marks
<1>4. \/ place' = place
      \/ \E S : \/ place' = GreyAll(place, S)
                \/ place' = [GreyAll(place, S) EXCEPT ![x] = ToElements(@)]
  BY DEF Barrier, GcStep
<1>5. \A o \in Obj : place'[o] \in LivePlaces <=> place[o] \in LivePlaces
  BY <1>2, <1>3, <1>4
<1> QED BY <1>5 DEF Live, In

\* A write with a barrier: cell i of x, or a new last cell, gets c.
LEMMA WriteKeepsInv ==
  ASSUME IInv, NEW x \in Reachable, NEW now \in Seq(Cell), NEW c \in Value,
         Len(now) >= Len(cells[x]), x \in Conses => Len(now) = Len(cells[x]),
         \E j \in 1 .. Len(now) :
           now[j] = c /\ \A i \in 1 .. Len(now) : i # j => i <= Len(cells[x]) /\ now[i] = cells[x][i],
         cells' = [cells EXCEPT ![x] = now],
         Barred(place, place', x, now), c \in Obj => place'[c] # "white",
         UNCHANGED <<refCount, gcPosition, handle, control>>, pc = "program"
  PROVE  IInv'
<1> USE DEF IInv
<1>1. /\ x \in Live /\ x \in Obj /\ c \in Cell /\ c \in Live \cup {Nil} /\ todo = Idle
      /\ UNCHANGED <<refCount, gcPosition, handle, pc, steps, budget, todo>>
  BY ReachableFacts, HeapShape DEF Value, Cell, TodoOK, control
<1>2. Marking
  BY DEF Marking, Barred
<1>3. Live' = Live /\ Rooted' = Rooted
  BY <1>2, MarkingFacts
<1>4. cells'[x] = now /\ \A o \in Obj \ {x} : cells'[o] = cells[o] /\ Kids'[o] = Kids[o]
  BY <1>1 DEF TypeOK, Kids
<1>5. PICK j \in 1 .. Len(now) :
        now[j] = c /\ \A i \in 1 .. Len(now) : i # j => i <= Len(cells[x]) /\ now[i] = cells[x][i]
  OBVIOUS
<1>6. cells[x] \in Seq(Cell) /\ Len(cells[x]) \in Nat /\ Len(now) \in Nat /\ gcPosition[x] \in Nat
  BY <1>1 DEF TypeOK
<1>7. \A i \in 1 .. Len(now) : now[i] = c \/ (i \in 1 .. Len(cells[x]) /\ now[i] = cells[x][i])
  BY <1>5, <1>6
<1>8. Kids'[x] = Range(now) \cap Obj /\ Kids'[x] \subseteq Live
  <2>1. Kids'[x] = Range(now) \cap Obj
    BY <1>1, <1>4 DEF Kids
  <2>2. \A i \in 1 .. Len(cells[x]) : cells[x][i] \in Obj => cells[x][i] \in Live
    <3>1. Kids[x] \subseteq Live /\ Kids[x] = Range(cells[x]) \cap Obj
      BY <1>1 DEF LiveClosed, Kids
    <3>2. \A i \in 1 .. Len(cells[x]) : cells[x][i] \in Range(cells[x])
      BY <1>6 DEF Range
    <3> QED BY <3>1, <3>2
  <2>3. \A i \in 1 .. Len(now) : now[i] \in Obj => now[i] \in Live
    BY <2>2, <1>1, <1>7, NilIsNoObj
  <2> QED BY <2>1, <2>3 DEF Range
<1>9. TypeOK'
  <2>1. cells' \in [Obj -> Seq(Cell)]
    BY <1>1 DEF TypeOK
  <2>2. \A o \in Conses \cap Live : Len(cells'[o]) = 2
    BY <1>4, HeapShape DEF TypeOK
  <2> QED BY <1>1, <1>2, <1>3, <2>1, <2>2 DEF TypeOK, Marking
<1>10. RootsCounted' /\ MarkingDone' /\ TodoOK'
  BY <1>1, <1>2, MarkingKeepsRoots, IdleOK DEF MarkingDone, TodoOK
<1>11. LiveClosed'
  BY <1>3, <1>4, <1>8, HeapShape DEF LiveClosed
<1>12. \A o \in Obj \ {x} : Blackened(o)' => Blackened(o)
  BY <1>1 DEF Blackened, Barred
<1>13. c \in Obj => place'[c] # "white"
  OBVIOUS
<1>14. Blackened(x)' => Blackened(x) \/ (x \notin Arrays /\ \A k \in Range(now) \cap Obj : place'[k] # "white")
  BY <1>1 DEF Blackened, Barred
<1>15. PositionsOK'
  <2>1. gcPosition'[x] = 0 \/ gcPosition'[x] < Len(cells'[x])
    BY <1>1, <1>4, <1>6 DEF PositionsOK
  <2>2. x \in Conses \/ place'[x] \in {"white", "black", "blackRoot"} => gcPosition'[x] = 0
    BY <1>1, <1>2, <1>14 DEF PositionsOK, Marking, Marks, Blackened, Obj
  <2>3. ASSUME NEW o \in Obj, o # x
        PROVE  /\ o \in Live => gcPosition'[o] = 0 \/ gcPosition'[o] < Len(cells'[o])
               /\ o \in Conses \/ place'[o] \in {"white", "black", "blackRoot"} => gcPosition'[o] = 0
    BY <2>3, <1>1, <1>2, <1>4, <1>12 DEF PositionsOK, Marking, Marks, Blackened
  <2> QED BY <2>1, <2>2, <2>3, <1>3, HeapShape DEF PositionsOK
<1>16. \A k \in ScannedPart(x) : place[k] # "white"
  BY <1>1 DEF ScannedIsNotWhite
<1>17. \A i \in 1 .. Len(now) :
         (i \in 1 .. Len(cells[x]) => (cells[x][i] \in ScannedPart(x) \/ cells[x][i] \notin Obj))
           => (now[i] \in Obj => place'[now[i]] # "white")
  BY <1>2, <1>7, <1>13, <1>16 DEF Marking, Marks
<1>18. ScannedIsNotWhite'
  <2> SUFFICES ASSUME NEW o \in Live, NEW k \in ScannedPart(o)'
               PROVE  place'[k] # "white"
    BY <1>3 DEF ScannedIsNotWhite
  <2>1. CASE o # x
    BY <2>1, <1>1, <1>2, <1>4, <1>12, ScannedPartKept, HeapShape
  <2>2. CASE o = x /\ Blackened(x)
    <3>1. Blackened(x)'
      BY <2>2, <1>1, <1>2 DEF Blackened, Marking, Marks
    <3>2. PICK i \in 1 .. Len(now) : k = now[i] /\ k \in Obj
      BY <2>2, <3>1, <1>8 DEF ScannedPart, Blackened, Range
    <3>3. i \in 1 .. Len(cells[x]) => (cells[x][i] \in ScannedPart(x) \/ cells[x][i] \notin Obj)
      BY <2>2, <1>1, <1>6 DEF ScannedPart, Blackened, Kids, Range
    <3> QED BY <3>2, <3>3, <1>17
  <2>3. CASE o = x /\ ~Blackened(x) /\ Blackened(x)'
    BY <2>3, <1>8, <1>14 DEF ScannedPart, Blackened
  <2>4. CASE o = x /\ ~Blackened(x) /\ ~Blackened(x)'
    <3>1. PICK i \in 1 .. gcPosition[x] : k = now[i] /\ k \in Obj
      BY <2>4, <1>1, <1>4 DEF ScannedPart, Blackened
    <3>2. i \in 1 .. Len(now) /\ cells[x][i] \in {cells[x][n] : n \in 1 .. gcPosition[x]}
      BY <3>1, <1>1, <1>6 DEF PositionsOK
    <3>3. cells[x][i] \in ScannedPart(x) \/ cells[x][i] \notin Obj
      BY <2>4, <3>2 DEF ScannedPart, Blackened
    <3> QED BY <3>1, <3>2, <3>3, <1>17
  <2> QED BY <2>1, <2>2, <2>3, <2>4
<1> QED BY <1>9, <1>10, <1>11, <1>15, <1>18

\* Writing a cell keeps the invariant, thanks to the barrier.
LEMMA SetCellInv ==
  ASSUME IInv, NEW x \in Reachable, NEW i \in 1 .. Len(cells[x]), NEW c \in Value, SetCell(x, i, c)
  PROVE  IInv'
<1>1. /\ x \in Obj /\ cells[x] \in Seq(Cell) /\ c \in Cell
  BY ReachableFacts, HeapShape DEF IInv, TypeOK, Value, Cell
<1> DEFINE now == [cells[x] EXCEPT ![i] = c]
<1>2. /\ now \in Seq(Cell) /\ Len(now) = Len(cells[x])
      /\ now[i] = c /\ \A n \in 1 .. Len(now) : n # i => n <= Len(cells[x]) /\ now[n] = cells[x][n]
  BY <1>1
<1>3. /\ cells' = [cells EXCEPT ![x] = now] /\ cells'[x] = now /\ place' = Barrier(place, x, now, c)
      /\ UNCHANGED <<refCount, gcPosition, handle, control>> /\ pc = "program"
  BY <1>1 DEF SetCell, Program, IInv, TypeOK
<1>4. \E k \in 1 .. Len(now) :
        now[k] = c /\ \A n \in 1 .. Len(now) : n # k => n <= Len(cells[x]) /\ now[n] = cells[x][n]
  BY <1>2
<1>5. Len(now) >= Len(cells[x]) /\ (x \in Conses => Len(now) = Len(cells[x]))
  BY <1>1, <1>2
<1> HIDE DEF now
<1>6. c \in Range(now) /\ place \in [Obj -> Places]
  <2>1. c \in Range(now)
    BY <1>2, <1>4 DEF Range
  <2> QED BY <2>1 DEF IInv, TypeOK
<1>7. Barred(place, place', x, now) /\ (c \in Obj => place'[c] # "white")
  BY <1>1, <1>2, <1>3, <1>6, BarrierMoves
<1> QED BY <1>2, <1>3, <1>4, <1>5, <1>7, WriteKeepsInv

\* So does writing a plain managed value.
LEMMA SetManagedInv ==
  ASSUME IInv, NEW x \in Reachable, NEW i \in 1 .. Len(cells[x]), SetManaged(x, i)
  PROVE  IInv'
<1>1. /\ x \in Obj /\ cells[x] \in Seq(Cell) /\ Nil \in Cell /\ Nil \in Value /\ x \notin Arrays
  BY ReachableFacts, HeapShape, StorageAssumption DEF IInv, TypeOK, Value, Cell, SetManaged
<1> DEFINE now == [cells[x] EXCEPT ![i] = Nil]
<1>2. /\ now \in Seq(Cell) /\ Len(now) = Len(cells[x])
      /\ now[i] = Nil /\ \A n \in 1 .. Len(now) : n # i => n <= Len(cells[x]) /\ now[n] = cells[x][n]
  BY <1>1
<1>3. /\ cells' = [cells EXCEPT ![x] = now] /\ cells'[x] = now /\ place' = GcStep(place, x, now)
      /\ UNCHANGED <<refCount, gcPosition, handle, control>> /\ pc = "program"
  BY <1>1 DEF SetManaged, Program, IInv, TypeOK
<1>4. \E k \in 1 .. Len(now) :
        now[k] = Nil /\ \A n \in 1 .. Len(now) : n # k => n <= Len(cells[x]) /\ now[n] = cells[x][n]
  BY <1>2
<1>5. Len(now) >= Len(cells[x]) /\ (x \in Conses => Len(now) = Len(cells[x]))
  BY <1>1, <1>2
<1>6. place \in [Obj -> Places]
  BY DEF IInv, TypeOK
<1> HIDE DEF now
<1>7. Barred(place, place', x, now) /\ Nil \notin Obj
  BY <1>1, <1>2, <1>3, <1>6, GcStepMoves, NilIsNoObj
<1> QED BY <1>1, <1>2, <1>3, <1>4, <1>5, <1>7, WriteKeepsInv

\* So does making an array longer.
LEMMA AppendCellInv ==
  ASSUME IInv, NEW x \in Reachable, NEW c \in Value, AppendCell(x, c)
  PROVE  IInv'
<1>1. /\ x \in Obj /\ cells[x] \in Seq(Cell) /\ c \in Cell /\ x \in Arrays /\ x \notin Conses
  BY ReachableFacts, HeapShape, StorageAssumption DEF IInv, TypeOK, Value, Cell, AppendCell
<1> DEFINE now == Append(cells[x], c)
           j == Len(cells[x]) + 1
<1>2. /\ now \in Seq(Cell) /\ Len(now) = j /\ j \in 1 .. Len(now)
      /\ now[j] = c /\ \A n \in 1 .. Len(now) : n # j => n <= Len(cells[x]) /\ now[n] = cells[x][n]
      /\ Len(now) >= Len(cells[x])
  BY <1>1
<1>3. /\ cells' = [cells EXCEPT ![x] = now] /\ cells'[x] = now /\ place' = Barrier(place, x, now, c)
      /\ UNCHANGED <<refCount, gcPosition, handle, control>> /\ pc = "program"
  BY <1>1 DEF AppendCell, Program, IInv, TypeOK
<1>4. \E k \in 1 .. Len(now) :
        now[k] = c /\ \A n \in 1 .. Len(now) : n # k => n <= Len(cells[x]) /\ now[n] = cells[x][n]
  BY <1>2
<1>5. Len(now) >= Len(cells[x]) /\ (x \in Conses => Len(now) = Len(cells[x]))
  BY <1>1, <1>2
<1> HIDE DEF now
<1>6. c \in Range(now) /\ place \in [Obj -> Places]
  <2>1. c \in Range(now)
    BY <1>2, <1>4 DEF Range
  <2> QED BY <2>1 DEF IInv, TypeOK
<1>7. Barred(place, place', x, now) /\ (c \in Obj => place'[c] # "white")
  BY <1>1, <1>2, <1>3, <1>6, BarrierMoves
<1> QED BY <1>2, <1>3, <1>4, <1>5, <1>7, WriteKeepsInv

\* A new white object goes into a cell of x: the barrier greys it at once.
LEMMA FinishMakeChildInv ==
  ASSUME IInv, NEW o \in Obj, FinishMakeChild(o)
  PROVE  IInv'
<1> USE DEF IInv
<1>0. PICK x \in Obj : x = todo.x
  BY DEF FinishMakeChild, Finishes, TodoOK
<1>1. PICK i \in Nat : i = todo.i
  BY DEF TypeOK, Calls
<1> DEFINE now == [cells[x] EXCEPT ![i] = o]
           fresh == NewCells(o)
           p1 == [place EXCEPT ![o] = "white"]
<1>2. /\ place[o] = "void" /\ place' = Barrier(p1, x, now, o)
      /\ refCount' = [refCount EXCEPT ![o] = 1]
      /\ cells' = [cells EXCEPT ![o] = fresh, ![x] = now]
      /\ gcPosition' = [gcPosition EXCEPT ![o] = 0]
      /\ todo.op \in {"makeCons", "makeArray"}
      /\ UNCHANGED <<handle, steps>> /\ pc' = "program" /\ todo' = Idle /\ budget' = 0
  BY <1>0, <1>1 DEF FinishMakeChild, Finishes
<1>3. /\ x \in Reachable /\ i \in DOMAIN cells[x] /\ o \in Cell /\ x \in Live
      /\ {todo.car, todo.cdr} \subseteq Cell /\ {todo.car, todo.cdr} \cap Obj \subseteq Live
  BY <1>0, <1>1, <1>2, ReachableFacts DEF TodoOK, TypeOK, Calls, Cell
<1>4. o \notin Live /\ o # x
  BY <1>2, <1>3 DEF Live, In, LivePlaces, BulkPlaces, RootPlaces
<1>5. /\ cells[x] \in Seq(Cell) /\ now \in Seq(Cell) /\ Len(now) = Len(cells[x])
      /\ i \in 1 .. Len(now) /\ now[i] = o
      /\ \A n \in 1 .. Len(now) : n # i => now[n] = cells[x][n]
  BY <1>3 DEF TypeOK
<1>6. /\ fresh \in Seq(Cell)
      /\ o \in Conses => Len(fresh) = 2
      /\ Range(fresh) \cap Obj \subseteq Live
  <2>1. CASE o \in Conses
    BY <2>1, <1>3 DEF NewCells, Range
  <2>2. CASE o \notin Conses
    BY <2>2 DEF NewCells, Range
  <2> QED BY <2>1, <2>2
<1> HIDE DEF now, fresh
<1>7. /\ p1 \in [Obj -> Places] /\ p1[o] = "white" /\ \A y \in Obj \ {o} : p1[y] = place[y]
  BY DEF TypeOK, Places, LivePlaces, BulkPlaces
<1> HIDE DEF p1
<1>8. /\ place' \in [Obj -> Places] /\ \A y \in Obj : Marks(p1[y], place'[y])
      /\ \A y \in Obj \ {x} : place'[y] \in {"black", "blackRoot"} => p1[y] \in {"black", "blackRoot"}
      /\ place'[o] # "white"
      /\ p1[x] \notin {"black", "blackRoot"} /\ place'[x] \in {"black", "blackRoot"} =>
           x \notin Arrays /\ \A k \in Range(now) \cap Obj : place'[k] # "white"
  <2>1. o \in Range(now)
    BY <1>5 DEF Range
  <2>2. Barred(p1, place', x, now) /\ place'[o] # "white"
    BY <2>1, <1>2, <1>3, <1>5, <1>7, BarrierMoves
  <2> QED BY <2>2 DEF Barred
<1>9. /\ place'[o] \in LivePlaces /\ place'[o] \notin RootPlaces
      /\ place'[o] \notin {"black", "blackRoot"}
      /\ \A y \in Obj \ {o} : Marks(place[y], place'[y])
      /\ \A y \in Obj \ {x} : Blackened(y)' => Blackened(y)
  BY <1>4, <1>7, <1>8 DEF Marks, LivePlaces, BulkPlaces, RootPlaces, Blackened
<1>10. Live' = Live \cup {o}
  BY <1>4, <1>9 DEF Live, In, Marks
<1>11. /\ cells'[x] = now /\ cells'[o] = fresh
       /\ \A y \in Obj \ {x, o} : cells'[y] = cells[y] /\ Kids'[y] = Kids[y]
  BY <1>2, <1>4 DEF TypeOK, Kids
<1>12. TypeOK'
  <2>1. cells' \in [Obj -> Seq(Cell)]
    BY <1>2, <1>5, <1>6 DEF TypeOK
  <2>2. \A y \in Conses \cap Live' : Len(cells'[y]) = 2
    <3>1. x \in Conses => Len(now) = 2
      BY <1>3, <1>5 DEF TypeOK
    <3>2. \A y \in (Conses \cap Live) \ {x} : Len(cells'[y]) = 2
      BY <1>4, <1>11, HeapShape DEF TypeOK
    <3> HIDE DEF IInv
    <3> QED BY <3>1, <3>2, <1>6, <1>10, <1>11
  <2> QED BY <1>2, <1>8, <2>1, <2>2, IdleOK DEF TypeOK
<1>13. Kids'[x] \subseteq Live \cup {o} /\ Kids'[o] \subseteq Live
  <2>1. \A n \in 1 .. Len(cells[x]) : cells[x][n] \in Obj => cells[x][n] \in Live
    <3>1. Kids[x] \subseteq Live /\ Kids[x] = Range(cells[x]) \cap Obj
      BY <1>3 DEF LiveClosed, Kids
    <3>2. \A n \in 1 .. Len(cells[x]) : cells[x][n] \in Range(cells[x])
      BY <1>5 DEF Range
    <3> QED BY <3>1, <3>2
  <2>2. Kids'[x] = Range(now) \cap Obj /\ Kids'[o] = Range(fresh) \cap Obj
    BY <1>11 DEF Kids
  <2>3. \A n \in 1 .. Len(now) : now[n] \in Obj => now[n] \in Live \cup {o}
    BY <2>1, <1>5
  <2> QED BY <2>2, <2>3, <1>5, <1>6 DEF Range
<1>14. LiveClosed'
  BY <1>10, <1>11, <1>13, HeapShape DEF LiveClosed
<1>15. RootsCounted'
  <2>1. \A y \in Obj : HandlesOf(y)' = HandlesOf(y)
    BY <1>2 DEF HandlesOf
  <2>2. place[o] \notin RootPlaces
    BY <1>2 DEF RootPlaces
  <2> QED BY <2>1, <2>2, <1>2, <1>9 DEF RootsCounted, Marks, TypeOK
<1>16. MarkingDone' /\ TodoOK'
  BY <1>2, IdleOK DEF MarkingDone, TodoOK
<1>17. Blackened(x)' => Blackened(x) \/ (x \notin Arrays /\ \A k \in Range(now) \cap Obj : place'[k] # "white")
  BY <1>4, <1>7, <1>8 DEF Blackened
<1>18. gcPosition'[o] = 0 /\ \A y \in Obj \ {o} : gcPosition'[y] = gcPosition[y]
  BY <1>2 DEF TypeOK
<1>19. PositionsOK'
  <2>1. gcPosition'[x] = 0 \/ gcPosition'[x] < Len(cells'[x])
    BY <1>3, <1>4, <1>5, <1>11, <1>18 DEF PositionsOK
  <2>2. x \in Conses \/ place'[x] \in {"white", "black", "blackRoot"} => gcPosition'[x] = 0
    BY <1>4, <1>9, <1>17, <1>18 DEF PositionsOK, Marks, Blackened, Obj
  <2>3. ASSUME NEW y \in Obj, y # x, y # o
        PROVE  /\ y \in Live => gcPosition'[y] = 0 \/ gcPosition'[y] < Len(cells'[y])
               /\ y \in Conses \/ place'[y] \in {"white", "black", "blackRoot"} => gcPosition'[y] = 0
    BY <2>3, <1>9, <1>11, <1>18 DEF PositionsOK, Marks, Blackened
  <2> QED BY <2>1, <2>2, <2>3, <1>10, <1>18, HeapShape DEF PositionsOK
<1>20. ScannedIsNotWhite'
  <2> SUFFICES ASSUME NEW y \in Live \cup {o}, NEW k \in ScannedPart(y)'
               PROVE  place'[k] # "white"
    BY <1>10 DEF ScannedIsNotWhite
  <2>0. \A z \in Live : place[z] # "white" => place'[z] # "white"
    BY <1>4, <1>9, HeapShape DEF Marks
  <2>1. CASE y = o
    BY <2>1, <1>9, <1>18 DEF ScannedPart
  <2>2. CASE y \notin {o, x}
    <3>1. ScannedPart(y)' = ScannedPart(y)
      <4>1. Blackened(y)' <=> Blackened(y)
        BY <2>2, <1>9, HeapShape DEF Blackened, Marks
      <4>2. y \in Obj /\ Kids'[y] = Kids[y] /\ gcPosition'[y] = gcPosition[y] /\ cells'[y] = cells[y]
        BY <2>2, <1>11, <1>18, HeapShape
      <4> QED BY <4>1, <4>2 DEF ScannedPart, Blackened
    <3>2. ScannedPart(y) \subseteq Live
      BY <2>2, ScannedPartIsKids DEF LiveClosed
    <3> QED BY <2>0, <2>2, <3>1, <3>2 DEF ScannedIsNotWhite
  <2>3. CASE y = x
    <3>1. \A n \in 1 .. Len(now) : now[n] = o \/ now[n] = cells[x][n]
      BY <1>5
    <3>2. k = o \/ k \in ScannedPart(x) \/ (~Blackened(x) /\ Blackened(x)')
      <4>1. CASE Blackened(x)
        <5>1. Blackened(x)' /\ Kids'[x] = Range(now) \cap Obj /\ Kids[x] = Range(cells[x]) \cap Obj
          BY <4>1, <1>4, <1>9, <1>11 DEF Blackened, Marks, Kids
        <5>2. PICK n \in 1 .. Len(now) : k = now[n] /\ k \in Obj
          BY <2>3, <5>1, <1>5 DEF ScannedPart, Blackened, Range
        <5> QED BY <4>1, <5>1, <5>2, <3>1, <1>5 DEF ScannedPart, Blackened, Range
      <4>2. CASE ~Blackened(x) /\ ~Blackened(x)'
        <5>1. PICK n \in 1 .. gcPosition[x] : k = now[n] /\ k \in Obj
          BY <2>3, <4>2, <1>4, <1>11, <1>18 DEF ScannedPart, Blackened
        <5>2. n \in 1 .. Len(now)
          <6>1. gcPosition[x] \in Nat
            BY DEF TypeOK
          <6>2. gcPosition[x] = 0 \/ gcPosition[x] < Len(cells[x])
            BY <1>3 DEF PositionsOK
          <6>3. Len(cells[x]) \in Nat
            BY <1>5
          <6> HIDE DEF IInv
          <6> QED BY <5>1, <6>1, <6>2, <6>3, <1>5
        <5>3. now[n] = cells[x][n] => k \in {cells[x][m] : m \in 1 .. gcPosition[x]} \cap Obj
          BY <5>1
        <5>4. ScannedPart(x) = {cells[x][m] : m \in 1 .. gcPosition[x]} \cap Obj
          BY <4>2 DEF ScannedPart, Blackened
        <5>5. CASE now[n] = o
          BY <5>1, <5>5
        <5>6. CASE now[n] = cells[x][n]
          BY <5>3, <5>4, <5>6
        <5> QED BY <5>2, <5>5, <5>6, <3>1
      <4> QED BY <4>1, <4>2
    <3>3. CASE k = o
      BY <3>3, <1>8
    <3>4. CASE k \in ScannedPart(x)
      BY <3>4, <2>0, <1>3, ScannedPartIsKids DEF ScannedIsNotWhite, LiveClosed
    <3>5. CASE ~Blackened(x) /\ Blackened(x)'
      <4>1. k \in Range(now) \cap Obj
        BY <3>5, <2>3, <1>11 DEF ScannedPart, Blackened, Kids
      <4> QED BY <4>1, <3>5, <1>17
    <3> QED BY <3>2, <3>3, <3>4, <3>5
  <2> QED BY <2>1, <2>2, <2>3
<1> QED BY <1>12, <1>14, <1>15, <1>16, <1>19, <1>20

---------------------------------------------------------------------------
(* The full cycle.                                                         *)

\* cycle() keeps the invariant when no surviving array is scanned in part.
LEMMA CycleInv ==
  ASSUME IInv, Cycle
  PROVE  IInv'
<1> USE DEF IInv
<1>1. /\ place' = [o \in Obj |-> IF o \notin Reachable THEN "void"
                                 ELSE IF place[o] \in RootPlaces THEN "whiteRoot"
                                 ELSE "white"]
      /\ cells' = [o \in Obj |-> IF o \in Reachable THEN cells[o] ELSE <<>>]
      /\ gcPosition' = [o \in Obj |-> IF o \in Reachable THEN gcPosition[o] ELSE 0]
      /\ refCount' = [o \in Obj |-> IF o \in Reachable THEN refCount[o] ELSE 0]
      /\ UNCHANGED <<handle, pc, steps, budget, todo>> /\ pc = "program" /\ todo = Idle
      /\ \A o \in Reachable : gcPosition[o] = 0
  BY DEF Cycle, FullCycle, NoHalfScannedArray, control, Program, TodoOK
<1>2. Rooted \subseteq Reachable /\ Reachable \subseteq Live /\ Reachable \subseteq Obj
      /\ \A x \in Reachable : Kids[x] \subseteq Reachable
  BY ReachableFacts, HeapShape
<1>3. Live' = Reachable
  BY <1>1, <1>2 DEF Live, In, LivePlaces, BulkPlaces, RootPlaces
<1>4. \A o \in Obj : place'[o] \in RootPlaces <=> place[o] \in RootPlaces
  BY <1>1, <1>2 DEF Rooted, In, RootPlaces
<1>5. TypeOK'
  BY <1>1, <1>2, <1>3 DEF TypeOK, Places, LivePlaces, BulkPlaces, RootPlaces
<1>6. RootsCounted'
  BY <1>1, <1>2, <1>4 DEF RootsCounted, HandlesOf, Rooted, In
<1>7. LiveClosed'
  <2>1. \A o \in Reachable : Kids'[o] = Kids[o]
    BY <1>1, <1>2 DEF Kids
  <2> QED BY <2>1, <1>2, <1>3 DEF LiveClosed
<1>8. \A o \in Obj : gcPosition'[o] = 0 /\ ~Blackened(o)'
  BY <1>1 DEF Blackened
<1>9. PositionsOK'
  BY <1>8, <1>3, <1>2 DEF PositionsOK
<1>10. ScannedIsNotWhite'
  BY <1>8, <1>3, <1>2 DEF ScannedIsNotWhite, ScannedPart, Blackened
<1>11. MarkingDone' /\ TodoOK'
  BY <1>1, IdleOK DEF MarkingDone, TodoOK
<1> QED BY <1>5, <1>6, <1>7, <1>9, <1>10, <1>11

---------------------------------------------------------------------------
(* The invariant, and the theorems.                                        *)

\* No object exists at the start.
LEMMA InitInv == Init => IInv
<1> SUFFICES ASSUME Init PROVE IInv
  OBVIOUS
<1>1. Live = {} /\ Rooted = {}
  BY DEF Init, Live, Rooted, In, LivePlaces, BulkPlaces, RootPlaces
<1>2. TypeOK
  BY <1>1, IdleOK DEF Init, TypeOK, Places, Cell
<1>3. RootsCounted
  BY NilIsNoObj DEF Init, RootsCounted, HandlesOf, RootPlaces
<1>4. LiveClosed /\ PositionsOK /\ ScannedIsNotWhite
  BY <1>1 DEF Init, LiveClosed, PositionsOK, ScannedIsNotWhite
<1>5. MarkingDone /\ TodoOK
  BY IdleOK DEF Init, MarkingDone, TodoOK
<1> QED BY <1>2, <1>3, <1>4, <1>5 DEF IInv

\* A step that changes nothing keeps the invariant.
LEMMA StutterInv ==
  ASSUME IInv, UNCHANGED vars
  PROVE  IInv'
<1>1. /\ TypeOK' /\ RootsCounted' /\ LiveClosed'
  BY DEF IInv, vars, TypeOK, RootsCounted, HandlesOf, LiveClosed, Live, In, Kids
<1>2. /\ PositionsOK' /\ ScannedIsNotWhite' /\ MarkingDone'
  BY DEF IInv, vars, PositionsOK, ScannedIsNotWhite, ScannedPart, MarkingDone, Unscanned,
         Live, In, Kids
<1>3. TodoOK'
  BY DEF IInv, vars, TodoOK, Reachable, Rooted, In, Kids
<1> QED BY <1>1, <1>2, <1>3 DEF IInv

\* Every step of the program keeps the invariant, ...
LEMMA MutatorInv ==
  ASSUME IInv, Mutator
  PROVE  IInv'
<1>1. ASSUME NEW h \in Handles, NEW a \in Value, NEW b \in Value, MakeRootCons(h, a, b)
      PROVE  IInv'
  BY <1>1, MakeRootConsInv
<1>2. ASSUME NEW h \in Handles, MakeRootArray(h) PROVE IInv'
  BY <1>2, MakeRootArrayInv
<1>3. ASSUME NEW h \in Handles, NEW c \in Reachable, Copy(h, c) PROVE IInv'
  BY <1>3, CopyInv
<1>4. ASSUME NEW h \in Handles, Drop(h) PROVE IInv'
  BY <1>4, DropInv
<1>5. ASSUME NEW h \in Handles, NEW g \in Handles, Assign(h, g) PROVE IInv'
  BY <1>5, AssignInv
<1>6. ASSUME NEW x \in Reachable, NEW i \in 1 .. Len(cells[x]),
             \/ \E a, b \in Value : MakeCons(x, i, a, b)
             \/ MakeArray(x, i) \/ SetManaged(x, i)
      PROVE  IInv'
  BY <1>6, MakeConsInv, MakeArrayInv, SetManagedInv
<1>7. ASSUME NEW x \in Reachable, NEW i \in 1 .. Len(cells[x]), NEW c \in Value, SetCell(x, i, c)
      PROVE  IInv'
  BY <1>7, SetCellInv
<1>8. ASSUME NEW x \in Reachable, NEW c \in Value, AppendCell(x, c) PROVE IInv'
  BY <1>8, AppendCellInv
<1>9. CASE Cycle
  BY <1>9, CycleInv
<1> QED BY <1>1, <1>2, <1>3, <1>4, <1>5, <1>6, <1>7, <1>8, <1>9 DEF Mutator

\* ... and so does every step of the collector and every end of a call.
LEMMA CollectorInv ==
  ASSUME IInv, Collector \/ Finish
  PROVE  IInv'
<1>1. CASE NoConsToScan
  BY <1>1, NoConsToScanInv
<1>2. CASE NoArrayToScan
  BY <1>2, NoArrayToScanInv
<1>3. CASE Swap
  BY <1>3, SwapInv
<1>4. ASSUME NEW o \in Obj, ScanCons(o) PROVE IInv'
  BY <1>4, ScanConsInv
<1>5. ASSUME NEW o \in Obj, ScanArray(o) PROVE IInv'
  BY <1>5, ScanArrayInv
<1>6. ASSUME NEW o \in Obj, RecycleCons(o) PROVE IInv'
  BY <1>6, RecycleConsInv
<1>7. ASSUME NEW o \in Obj, RecycleArray(o) PROVE IInv'
  BY <1>7, RecycleArrayInv
<1>8. CASE FinishCollect
  BY <1>8, FinishCollectInv
<1>9. CASE FinishAssign
  BY <1>9, FinishAssignInv
<1>10. ASSUME NEW o \in Obj, FinishMakeRoot(o) PROVE IInv'
  BY <1>10, FinishMakeRootInv
<1>11. ASSUME NEW o \in Obj, FinishMakeChild(o) PROVE IInv'
  BY <1>11, FinishMakeChildInv
<1> QED BY <1>1, <1>2, <1>3, <1>4, <1>5, <1>6, <1>7, <1>8, <1>9, <1>10, <1>11
        DEF Collector, Finish

\* The invariant is inductive.
LEMMA NextInv == IInv /\ [Next]_vars => IInv'
<1> SUFFICES ASSUME IInv, [Next]_vars PROVE IInv'
  OBVIOUS
<1>1. CASE Mutator
  BY <1>1, MutatorInv
<1>2. CASE CallStep \/ CallRecycle
  BY <1>2, CallStepInv
<1>3. CASE Collector \/ Finish
  BY <1>3, CollectorInv
<1>4. CASE UNCHANGED vars
  BY <1>4, StutterInv
<1> QED BY <1>1, <1>2, <1>3, <1>4 DEF Next

\* The inductive invariant holds in every reachable state.
THEOREM InvariantHolds == Spec => []IInv
<1>1. Init => IInv
  BY InitInv
<1>2. IInv /\ [Next]_vars => IInv'
  BY NextInv
<1> QED BY <1>1, <1>2, PTL DEF Spec

\* Every variable of the collector keeps its type, and a live cons keeps its
\* two cells (cons.h).
THEOREM TypeCorrect == Spec => []TypeOK
<1>1. IInv => TypeOK
  BY DEF IInv
<1> QED BY <1>1, InvariantHolds, PTL

\* What an object in the part of the heap that was not disposed of points to
\* is not disposed of either.
THEOREM LiveIsClosed == Spec => []LiveClosed
<1>1. IInv => LiveClosed
  BY DEF IInv
<1> QED BY <1>1, InvariantHolds, PTL

\* Whatever the program writes between two increments, no black object and
\* no scanned part of an array points to a white one (cell.cpp:47).
THEOREM MarkingIsKept == Spec => []ScannedIsNotWhite
<1>1. IInv => ScannedIsNotWhite
  BY DEF IInv
<1> QED BY <1>1, InvariantHolds, PTL

\* refCount counts the handles of every object in a root container
\* (collectible_container.h:166-193).
THEOREM RootsAreCounted == Spec => []RootsCounted
<1>1. IInv => RootsCounted
  BY DEF IInv
<1> QED BY <1>1, InvariantHolds, PTL

\* The assertions of operator=(const Object &) hold (object.cpp:111-120): what
\* one handle takes from another is a counted root after the collector ran.
THEOREM AssignmentsTakeRoots == Spec => []AssignsRoots
<1>1. IInv => AssignsRoots
  <2> SUFFICES ASSUME IInv, todo.op = "assign"
               PROVE  place[todo.car] \in RootPlaces /\ refCount[todo.car] > 0
    BY DEF AssignsRoots
  <2>1. PICK c \in Obj : c = todo.car /\ place[c] \in RootPlaces
    BY DEF IInv, TodoOK, Rooted, In
  <2>2. HandlesOf(c) # {} /\ refCount[c] = Cardinality(HandlesOf(c))
    BY <2>1 DEF IInv, RootsCounted
  <2>3. Cardinality(HandlesOf(c)) \in Nat /\ Cardinality(HandlesOf(c)) # 0
    BY <2>2, HandlesAreFinite, FS_CardinalityType, FS_EmptySet
  <2> QED BY <2>1, <2>2, <2>3
<1> QED BY <1>1, InvariantHolds, PTL

\* ColorMap::swap() finds nothing left to scan (color_map.h:214).
THEOREM SwapsAreDue == Spec => []SwapOnlyWhenScanned
<1>1. IInv => SwapOnlyWhenScanned
  BY DEF IInv, MarkingDone, Unscanned, SwapOnlyWhenScanned, In, Obj
<1> QED BY <1>1, InvariantHolds, PTL

\* The end of every call of Next leaves nothing to finish, ...
LEMMA FinishLeavesIdle ==
  ASSUME Finish
  PROVE  todo' = Idle
<1>1. ASSUME NEW op, Finishes(op) PROVE todo' = Idle
  BY <1>1 DEF Finishes
<1>2. CASE FinishCollect \/ FinishAssign
  BY <1>1, <1>2 DEF FinishCollect, FinishAssign
<1>3. ASSUME NEW o \in Obj, FinishMakeRoot(o) \/ FinishMakeChild(o) PROVE todo' = Idle
  BY <1>1, <1>3 DEF FinishMakeRoot, FinishMakeChild
<1> QED BY <1>2, <1>3 DEF Finish

\* ... and no call of Mutator is an assignment from a cell.
LEMMA MutatorBegins ==
  ASSUME Mutator
  PROVE  todo' = todo \/ todo'.op # "assignCell"
<1> DEFINE Other == todo' = todo \/ todo'.op # "assignCell"
<1>1. ASSUME NEW h \in Handles,
             \/ \E a, b \in Value : MakeRootCons(h, a, b)
             \/ MakeRootArray(h)
             \/ Drop(h)
             \/ \E g \in Handles : Assign(h, g)
      PROVE  Other
  <2>1. ASSUME NEW a, NEW b, MakeRootCons(h, a, b) PROVE todo'.op = "makeRootCons"
    BY <2>1 DEF MakeRootCons, Collect, Idle
  <2>2. ASSUME MakeRootArray(h) PROVE todo'.op = "makeRootArray"
    BY <2>2 DEF MakeRootArray, Collect, Idle
  <2>3. ASSUME Drop(h) PROVE todo'.op = "none"
    BY <2>3 DEF Drop, Collect, Idle
  <2>4. ASSUME NEW g, Assign(h, g) PROVE todo'.op = "assign"
    BY <2>4 DEF Assign, Collect, Idle
  <2> QED BY <1>1, <2>1, <2>2, <2>3, <2>4
<1>5. ASSUME NEW h \in Handles, NEW c \in Reachable, Copy(h, c) PROVE Other
  BY <1>5 DEF Copy, control
<1>2. ASSUME NEW x \in Reachable, NEW i \in 1 .. Len(cells[x]),
             \/ \E a, b \in Value : MakeCons(x, i, a, b)
             \/ MakeArray(x, i) \/ SetManaged(x, i)
             \/ \E c \in Value : SetCell(x, i, c)
      PROVE  Other
  BY <1>2 DEF MakeCons, MakeArray, SetManaged, SetCell, Collect, control, Idle
<1>3. ASSUME NEW x \in Reachable, NEW c \in Value, AppendCell(x, c) PROVE Other
  BY <1>3 DEF AppendCell, control
<1>4. CASE Cycle
  BY <1>4 DEF Cycle, FullCycle, control
<1> QED BY <1>1, <1>2, <1>3, <1>4, <1>5 DEF Mutator

\* The collector's steps keep what the running call will do.
LEMMA CollectorKeepsTodo ==
  ASSUME Collector
  PROVE  UNCHANGED todo
  BY DEF Collector, NoConsToScan, NoArrayToScan, Swap, ScanCons, ScanArray, RecycleCons, RecycleArray

\* Next has no assignment from a cell.
NoCellPending == todo.op # "assignCell"

\* No object that a handle or a running call can get to is ever disposed of:
\* the promise of the collector.
THEOREM NothingDangles == Spec => []NoDangling
<1>1. Init => NoCellPending
  BY DEF Init, NoCellPending, Idle
<1>2. NoCellPending /\ [Next]_vars => NoCellPending'
  <2> SUFFICES ASSUME NoCellPending, [Next]_vars PROVE NoCellPending'
    OBVIOUS
  <2>1. CASE UNCHANGED vars
    BY <2>1 DEF NoCellPending, vars
  <2>2. CASE CallStep \/ CallRecycle
    BY <2>2 DEF CallStep, CallRecycle, Collect, NoCellPending, Idle
  <2>3. CASE Collector
    BY <2>3, CollectorKeepsTodo DEF NoCellPending
  <2>4. CASE Finish
    BY <2>4, FinishLeavesIdle, IdleOK DEF NoCellPending
  <2>5. CASE Mutator
    BY <2>5, MutatorBegins DEF NoCellPending
  <2> QED BY <2>1, <2>2, <2>3, <2>4, <2>5 DEF Next
<1>3. IInv /\ NoCellPending => NoDangling
  BY ReachableFacts DEF IInv, NoDangling, TodoOK, NoCellPending
<1> QED BY <1>1, <1>2, <1>3, InvariantHolds, PTL DEF Spec

---------------------------------------------------------------------------
(* The collector implements GcHeap: every step of it is invisible to the   *)
(* program or takes back storage that no handle reaches, and every call of *)
(* the program does to the heap what it says.                              *)

\* What the heap sees of a step.
Unseen == Live' = Live /\ UNCHANGED <<cells, handle>>

---------------------------------------------------------------------------
(* The two heaps reach the same objects.                                   *)

\* The handles hold exactly what is in the root containers.
LEMMA HeldIsRooted ==
  ASSUME TypeOK, RootsCounted
  PROVE  Heap!Held = Rooted
<1>1. ASSUME NEW o \in Obj
      PROVE  o \in Range(handle) <=> HandlesOf(o) # {}
  BY DEF Range, HandlesOf, TypeOK
<1>2. ASSUME NEW o \in Obj
      PROVE  o \in Rooted <=> HandlesOf(o) # {}
  BY DEF Rooted, In, RootsCounted
<1>3. Rooted \subseteq Obj
  BY DEF Rooted, In
<1>4. Heap!Held = {o \in Obj : o \in Range(handle)}
  BY DEF Heap!Held, Heap!Range, Range, Obj
<1> QED BY <1>1, <1>2, <1>3, <1>4

\* So reachability from the handles is reachability from the root containers.
LEMMA SameReach ==
  ASSUME IInv
  PROVE  /\ Heap!Kids = Kids /\ Heap!Reachable = Reachable /\ Heap!Value = Value
<1>1. Heap!Kids = Kids
  BY DEF Heap!Kids, Kids, Heap!Range, Range
<1>2. Heap!Held = Rooted
  BY HeldIsRooted DEF IInv
<1>3. Heap!Reachable = Reachable
  BY <1>1, <1>2 DEF Heap!Reachable, Reachable, Heap!Reach, Reach, Heap!ClosedUnder, ClosedUnder
<1> QED BY <1>1, <1>3 DEF Heap!Value, Value

\* What a reachable object holds is what the program can name.
LEMMA CellsAreValues ==
  ASSUME IInv, NEW x \in Reachable
  PROVE  /\ x \in Obj /\ x \in Live /\ cells[x] \in Seq(Value) /\ cells[x] \in Seq(Cell)
<1>1. x \in Obj /\ x \in Live /\ cells[x] \in Seq(Cell) /\ Kids[x] \subseteq Reachable
  BY ReachableFacts, HeapShape DEF IInv, TypeOK
<1>2. \A i \in 1 .. Len(cells[x]) : cells[x][i] \in Value
  <2> SUFFICES ASSUME NEW i \in 1 .. Len(cells[x]), cells[x][i] # Nil
               PROVE  cells[x][i] \in Reachable
    BY DEF Value
  <2>1. cells[x][i] \in Obj
    BY <1>1 DEF Cell
  <2>2. cells[x][i] \in Kids[x]
    BY <1>1, <2>1 DEF Kids, Range
  <2> QED BY <1>1, <2>2
<1> QED BY <1>1, <1>2

---------------------------------------------------------------------------
(* Steps the heap does not see.                                            *)

\* Such a step is a stutter.
LEMMA UnseenStutters ==
  ASSUME Unseen
  PROVE  UNCHANGED Heap!vars
  BY DEF Unseen, Heap!vars

\* Scanning moves live objects among the live places.
LEMMA ScansAreUnseen ==
  ASSUME IInv, NEW o \in Obj, ScanCons(o) \/ ScanArray(o)
  PROVE  Unseen
<1>1. /\ TypeOK
      /\ place[o] \in {"whiteRoot", "greyRoot", "grey"}
  BY NextScanIsUnscanned DEF IInv, ScanCons, ScanArray, Unscanned
<1>2. ASSUME NEW S, NEW q \in [Obj -> Places],
             q = GreyAll(place, S) \/ q = [GreyAll(place, S) EXCEPT ![o] = Scanned(place[o])],
             place' = q
      PROVE  Live' = Live
  <2>1. \A x \in Obj : q[x] \in LivePlaces <=> place[x] \in LivePlaces
    BY <1>1, <1>2, GreyAllMarks
       DEF Marks, Scanned, LivePlaces, BulkPlaces, RootPlaces
  <2> QED BY <1>2, <2>1 DEF Live, In
<1>3. ASSUME NEW S
      PROVE  /\ GreyAll(place, S) \in [Obj -> Places]
             /\ [GreyAll(place, S) EXCEPT ![o] = Scanned(place[o])] \in [Obj -> Places]
  BY <1>1, GreyAllMarks DEF Scanned, Places, LivePlaces, BulkPlaces, RootPlaces
<1>4. CASE ScanCons(o)
  <2>1. place' = [GreyAll(place, Kids[o]) EXCEPT ![o] = Scanned(place[o])] /\ UNCHANGED heap
    BY <1>4 DEF ScanCons
  <2> QED BY <1>2, <1>3, <2>1 DEF Unseen, heap
<1>5. CASE ScanArray(o)
  <2>1. PICK S : \/ place' = GreyAll(place, S)
                 \/ place' = [GreyAll(place, S) EXCEPT ![o] = Scanned(place[o])]
    BY <1>5 DEF ScanArray
  <2>2. UNCHANGED heap
    BY <1>5 DEF ScanArray
  <2> QED BY <1>2, <1>3, <2>1, <2>2 DEF Unseen, heap
<1> QED BY <1>4, <1>5

\* So are the beginnings of calls and the end of one that only collected.
LEMMA ControlIsUnseen ==
  ASSUME IInv, UNCHANGED <<place, heap>>
  PROVE  Unseen
  BY DEF Unseen, heap, Live, In

---------------------------------------------------------------------------
(* Storage that goes back.                                                 *)

\* A step that keeps the reachable objects and their cells reclaims storage.
LEMMA ReclaimsStorage ==
  ASSUME IInv, TypeOK', Reachable \subseteq Live', Live' \subseteq Live,
         \A o \in Reachable : cells'[o] = cells[o],
         handle' = handle
  PROVE  Heap!Reclaim
<1>1. cells' \in [Obj -> Seq(Obj \cup {Nil})]
  BY DEF TypeOK, Cell
<1> QED BY <1>1, SameReach DEF Heap!Reclaim

\* swap() disposes of white objects only, and white is not reachable.
LEMMA SwapReclaims ==
  ASSUME IInv, IInv', Swap
  PROVE  Heap!Reclaim
<1>1. /\ place' = [o \in Obj |-> Swapped(place[o])]
      /\ UNCHANGED <<cells, handle>>
  BY DEF Swap, heap
<1>2. Rooted' = Rooted /\ Kids' = Kids
  <2>1. \A p \in Places : Swapped(p) \in RootPlaces <=> p \in RootPlaces
    BY DEF Swapped, Places, LivePlaces, BulkPlaces, RootPlaces
  <2>2. \A o \in Obj : place'[o] \in RootPlaces <=> place[o] \in RootPlaces
    BY <1>1, <2>1 DEF IInv, TypeOK
  <2> QED BY <1>1, <2>2 DEF Rooted, In, Kids
<1>3. Reachable' = Reachable
  BY <1>2 DEF Reachable
<1>4. Reachable \subseteq Live'
  <2>1. Rooted \subseteq Live' /\ Live' \subseteq Obj
    BY <1>2 DEF Rooted, Live, In, LivePlaces
  <2>2. ClosedUnder(Live', Kids)
    BY <1>2 DEF IInv, LiveClosed, ClosedUnder
  <2> QED BY <2>1, <2>2, HeapShape, ReachIsLeast DEF Reachable, IInv
<1>5. Live' \subseteq Live
  BY <1>1 DEF Live, In, Swapped, LivePlaces, BulkPlaces, RootPlaces
<1> QED BY <1>1, <1>4, <1>5, ReclaimsStorage DEF IInv

\* recycle() clears cells of what has been disposed of.
LEMMA RecyclingReclaims ==
  ASSUME IInv, IInv', NEW o \in Obj, RecycleCons(o) \/ RecycleArray(o)
  PROVE  Heap!Reclaim
<1>1. place[o] \in {"disposed", "recycling"} /\ o \notin Live
  BY DEF RecycleCons, RecycleArray, Live, In, LivePlaces, BulkPlaces, RootPlaces
<1>2. /\ place'[o] \in {"void", "recycling"} /\ handle' = handle
      /\ \A x \in Obj \ {o} : place'[x] = place[x] /\ cells'[x] = cells[x]
  BY DEF RecycleCons, RecycleArray, Freed, IInv, TypeOK
<1>3. Live' = Live
  BY <1>1, <1>2 DEF Live, In, LivePlaces, BulkPlaces, RootPlaces
<1>4. Reachable \subseteq Live /\ Reachable \subseteq Obj
  BY ReachableFacts, HeapShape DEF IInv
<1>5. \A x \in Reachable : cells'[x] = cells[x]
  BY <1>1, <1>2, <1>4
<1> QED BY <1>2, <1>3, <1>4, <1>5, ReclaimsStorage DEF IInv

\* cycle() keeps exactly what is reachable.
LEMMA CycleReclaims ==
  ASSUME IInv, IInv', Cycle
  PROVE  Heap!Reclaim
<1>1. Reachable \subseteq Live /\ Reachable \subseteq Obj
  BY ReachableFacts, HeapShape DEF IInv
<1>2. /\ \A o \in Obj : place'[o] \in LivePlaces <=> o \in Reachable
      /\ \A o \in Reachable : cells'[o] = cells[o]
      /\ handle' = handle
  BY <1>1 DEF Cycle, FullCycle, LivePlaces, BulkPlaces, RootPlaces
<1>3. Live' = Reachable
  BY <1>1, <1>2 DEF Live, In
<1> QED BY <1>1, <1>2, <1>3, ReclaimsStorage DEF IInv

---------------------------------------------------------------------------
(* Calls of the program.                                                   *)

\* A call that fills a reachable object with values is a write.
LEMMA Writes ==
  ASSUME IInv, NEW x \in Reachable, NEW now \in Seq(Value),
         cells' = [cells EXCEPT ![x] = now], Live' = Live, handle' = handle
  PROVE  Heap!Write(x)
<1>1. cells'[x] = now
  BY CellsAreValues DEF IInv, TypeOK
<1> QED BY <1>1, SameReach DEF Heap!Write

\* setCar(), setCdr(), Array::set() and append() are writes.
LEMMA SetsWrite ==
  ASSUME IInv, NEW x \in Reachable, NEW c \in Value, NEW i \in 1 .. Len(cells[x]),
         SetCell(x, i, c) \/ SetManaged(x, i)
  PROVE  Heap!Write(x)
<1>1. x \in Obj /\ cells[x] \in Seq(Value) /\ Nil \in Value
  BY CellsAreValues DEF Value
<1>2. PICK v \in Value : cells' = [cells EXCEPT ![x] = [cells[x] EXCEPT ![i] = v]]
  BY <1>1 DEF SetCell, SetManaged
<1>3. [cells[x] EXCEPT ![i] = v] \in Seq(Value)
  BY <1>1
<1>4. handle' = handle /\ Live' = Live
  BY <1>1, BarriersKeepLive DEF SetCell, SetManaged
<1> QED BY <1>2, <1>3, <1>4, Writes

LEMMA AppendWrites ==
  ASSUME IInv, NEW x \in Reachable, NEW c \in Value, AppendCell(x, c)
  PROVE  Heap!Write(x)
<1>1. x \in Obj /\ cells[x] \in Seq(Value)
  BY CellsAreValues
<1>2. cells' = [cells EXCEPT ![x] = Append(cells[x], c)] /\ Append(cells[x], c) \in Seq(Value)
  BY <1>1 DEF AppendCell
<1>3. handle' = handle /\ Live' = Live
  BY <1>1, BarriersKeepLive DEF AppendCell
<1> QED BY <1>2, <1>3, Writes

\* Handles that take or give up an object move.
LEMMA CopyMoves ==
  ASSUME IInv, NEW h \in Handles, NEW c \in Reachable, Copy(h, c)
  PROVE  Heap!Move(h)
<1>1. handle[h] = Nil /\ Root(h, c) /\ UNCHANGED <<cells, gcPosition>>
  BY DEF Copy
<1>2. Live' = Live /\ handle' = [handle EXCEPT ![h] = c]
  BY <1>1, RootFacts, ReachableFacts DEF Root, IInv
<1> QED BY <1>1, <1>2, SameReach DEF Heap!Move, Value

LEMMA UnrootMoves ==
  ASSUME IInv, NEW h \in Handles, Unroot(h), UNCHANGED <<cells, gcPosition>>
  PROVE  Heap!Move(h)
<1>1. Live' = Live /\ handle' = [handle EXCEPT ![h] = Nil]
  BY UnrootFacts
<1> QED BY <1>1, SameReach DEF Heap!Move, Value

\* The second half of an assignment.
LEMMA AssignMoves ==
  ASSUME IInv, FinishAssign
  PROVE  \E h \in Handles : Heap!Move(h)
<1>1. /\ todo.op = "assign" /\ UNCHANGED <<place, cells>>
      /\ handle' = [handle EXCEPT ![todo.h] = todo.car]
  BY DEF FinishAssign, Finishes
<1>2. todo.h \in Handles /\ todo.car \in Rooted
  BY <1>1 DEF IInv, TodoOK
<1>3. todo.car \in Value
  BY <1>2, ReachableFacts DEF IInv, Value
<1>4. Live' = Live
  BY <1>1 DEF Live, In
<1> QED BY <1>1, <1>2, <1>3, <1>4, SameReach DEF Heap!Move

\* The cells a new object starts with are values.
LEMMA NewCellsAreValues ==
  ASSUME IInv, NEW o, todo.op # "assignCell"
  PROVE  NewCells(o) \in Seq(Value)
<1>1. todo.car \in Value /\ todo.cdr \in Value
  BY DEF IInv, TypeOK, TodoOK, Calls, Cell, Value
<1> QED BY <1>1 DEF NewCells

\* makeRoot() makes an object that a free handle holds.
LEMMA MakeRootIsNew ==
  ASSUME IInv, NEW o \in Obj, FinishMakeRoot(o)
  PROVE  \E h \in Handles : Heap!New(o, h)
<1>1. /\ place[o] = "void" /\ place' = [place EXCEPT ![o] = "whiteRoot"]
      /\ cells' = [cells EXCEPT ![o] = NewCells(o)]
      /\ handle' = [handle EXCEPT ![todo.h] = o]
      /\ todo.op \in {"makeRootCons", "makeRootArray"}
  BY DEF FinishMakeRoot, Finishes
<1>2. todo.h \in Handles /\ handle[todo.h] = Nil
  BY <1>1 DEF IInv, TodoOK
<1>3. o \notin Live /\ Live' = Live \cup {o}
  BY <1>1 DEF Live, In, LivePlaces, BulkPlaces, RootPlaces, IInv, TypeOK
<1>4. cells'[o] = NewCells(o) /\ NewCells(o) \in Seq(Value)
  BY <1>1, NewCellsAreValues DEF IInv, TypeOK
<1>5. Heap!New(o, todo.h)
  BY <1>1, <1>2, <1>3, <1>4, SameReach DEF Heap!New
<1> QED BY <1>2, <1>5

\* make() makes an object that is stored in a reachable one at once.
LEMMA MakeChildIsNew ==
  ASSUME IInv, NEW o \in Obj, FinishMakeChild(o)
  PROVE  \E x \in Obj : Heap!NewChild(o, x)
<1> DEFINE x == todo.x
           now == [cells[x] EXCEPT ![todo.i] = o]
           new == [place EXCEPT ![o] = "white"]
<1>1. /\ place[o] = "void" /\ place' = Barrier(new, x, now, o)
      /\ cells' = [cells EXCEPT ![o] = NewCells(o), ![x] = now]
      /\ handle' = handle
      /\ todo.op \in {"makeCons", "makeArray"}
  BY DEF FinishMakeChild, Finishes
<1>2. x \in Obj /\ x \in Reachable /\ todo.i \in DOMAIN cells[x]
  BY <1>1 DEF IInv, TodoOK
<1>3. x \in Live /\ o \notin Live /\ x # o
  BY <1>1, <1>2, CellsAreValues DEF Live, In, LivePlaces, BulkPlaces, RootPlaces
<1>4. new \in [Obj -> Places] /\ \A y \in Obj : new[y] \in LivePlaces <=> y \in Live \cup {o}
  BY <1>1 DEF IInv, TypeOK, Live, In, Places, LivePlaces, BulkPlaces, RootPlaces
<1>5. Live' = Live \cup {o}
  <2>1. ASSUME NEW S, NEW q,
               q = GreyAll(new, S) \/ q = [GreyAll(new, S) EXCEPT ![x] = ToElements(@)]
        PROVE  \A y \in Obj : q[y] \in LivePlaces <=> new[y] \in LivePlaces
    <3>1. GreyAll(new, S) \in [Obj -> Places]
      BY <1>4, GreyAllMoves
    <3>2. \A y \in Obj : GreyAll(new, S)[y] \in LivePlaces <=> new[y] \in LivePlaces
      BY <1>4, GreyAllMoves DEF Marks
    <3>3. ToElements(GreyAll(new, S)[x]) \in LivePlaces <=> GreyAll(new, S)[x] \in LivePlaces
      BY <1>2, <3>1, MovesMark DEF Marks
    <3> QED BY <1>2, <2>1, <3>1, <3>2, <3>3
  <2>2. PICK S : \/ place' = GreyAll(new, S)
                 \/ place' = [GreyAll(new, S) EXCEPT ![x] = ToElements(@)]
    BY <1>1 DEF Barrier, GcStep
  <2>3. \A y \in Obj : place'[y] \in LivePlaces <=> y \in Live \cup {o}
    BY <2>1, <2>2, <1>4
  <2> QED BY <2>3 DEF Live, In
<1>6. cells'[o] = NewCells(o) /\ NewCells(o) \in Seq(Value)
  BY <1>1, <1>2, <1>3, NewCellsAreValues DEF IInv, TypeOK
<1>7. cells' = [cells EXCEPT ![o] = cells'[o], ![x][todo.i] = o]
  BY <1>1, <1>2, <1>3, <1>6 DEF IInv, TypeOK
<1>8. Heap!NewChild(o, x)
  BY <1>1, <1>2, <1>3, <1>5, <1>6, <1>7, SameReach DEF Heap!NewChild
<1> QED BY <1>2, <1>8

---------------------------------------------------------------------------
(* All steps.                                                              *)

LEMMA MutatorImplements ==
  ASSUME IInv, IInv', Mutator
  PROVE  [Heap!Next]_(Heap!vars)
<1>1. ASSUME NEW h \in Handles,
             (\E a, b \in Value : MakeRootCons(h, a, b)) \/ MakeRootArray(h)
      PROVE  UNCHANGED Heap!vars
  BY <1>1, ControlIsUnseen, UnseenStutters DEF MakeRootCons, MakeRootArray
<1>2. ASSUME NEW h \in Handles, NEW c \in Reachable, Copy(h, c) PROVE Heap!Next
  BY <1>2, CopyMoves DEF Heap!Next
<1>3. ASSUME NEW h \in Handles, Drop(h) \/ \E g \in Handles : Assign(h, g) PROVE Heap!Next
  BY <1>3, UnrootMoves DEF Drop, Assign, Heap!Next
<1>4. ASSUME NEW x \in Reachable, NEW i \in 1 .. Len(cells[x]),
             (\E a, b \in Value : MakeCons(x, i, a, b)) \/ MakeArray(x, i)
      PROVE  UNCHANGED Heap!vars
  BY <1>4, ControlIsUnseen, UnseenStutters DEF MakeCons, MakeArray
<1>5. ASSUME NEW x \in Reachable, NEW i \in 1 .. Len(cells[x]),
             SetManaged(x, i) \/ \E c \in Value : SetCell(x, i, c)
      PROVE  Heap!Next
  <2>1. Nil \in Value /\ x \in Obj
    BY CellsAreValues DEF Value
  <2>2. Heap!Write(x)
    BY <1>5, <2>1, SetsWrite
  <2> QED BY <2>1, <2>2 DEF Heap!Next
<1>6. ASSUME NEW x \in Reachable, NEW c \in Value, AppendCell(x, c) PROVE Heap!Next
  BY <1>6, AppendWrites, CellsAreValues DEF Heap!Next
<1>7. CASE Cycle
  BY <1>7, CycleReclaims DEF Heap!Next
<1> QED BY <1>1, <1>2, <1>3, <1>4, <1>5, <1>6, <1>7 DEF Mutator

LEMMA CollectorImplements ==
  ASSUME IInv, IInv', Collector \/ Finish
  PROVE  [Heap!Next]_(Heap!vars)
<1>1. CASE NoConsToScan \/ NoArrayToScan \/ FinishCollect
  BY <1>1, ControlIsUnseen, UnseenStutters DEF NoConsToScan, NoArrayToScan, FinishCollect
<1>2. CASE Swap
  BY <1>2, SwapReclaims DEF Heap!Next
<1>3. ASSUME NEW o \in Obj, ScanCons(o) \/ ScanArray(o) PROVE UNCHANGED Heap!vars
  BY <1>3, ScansAreUnseen, UnseenStutters
<1>4. ASSUME NEW o \in Obj, RecycleCons(o) \/ RecycleArray(o) PROVE Heap!Next
  BY <1>4, RecyclingReclaims DEF Heap!Next
<1>5. CASE FinishAssign
  BY <1>5, AssignMoves DEF Heap!Next
<1>6. ASSUME NEW o \in Obj, FinishMakeRoot(o) PROVE Heap!Next
  BY <1>6, MakeRootIsNew DEF Heap!Next
<1>7. ASSUME NEW o \in Obj, FinishMakeChild(o) PROVE Heap!Next
  BY <1>7, MakeChildIsNew DEF Heap!Next
<1> QED BY <1>1, <1>2, <1>3, <1>4, <1>5, <1>6, <1>7 DEF Collector, Finish

\* Every step is one of the heap or a stutter.
LEMMA NextImplements ==
  IInv /\ IInv' /\ [Next]_vars => [Heap!Next]_(Heap!vars)
<1> SUFFICES ASSUME IInv, IInv', [Next]_vars PROVE [Heap!Next]_(Heap!vars)
  OBVIOUS
<1>1. CASE Mutator
  BY <1>1, MutatorImplements
<1>2. CASE CallStep \/ CallRecycle
  BY <1>2, ControlIsUnseen, UnseenStutters DEF CallStep, CallRecycle
<1>3. CASE Collector \/ Finish
  BY <1>3, CollectorImplements
<1>4. CASE UNCHANGED vars
  BY <1>4, ControlIsUnseen, UnseenStutters DEF vars, heap
<1> QED BY <1>1, <1>2, <1>3, <1>4 DEF Next

\* The incremental collector, its write barriers and its handles implement a
\* heap without colours: storage goes back only from objects that no handle
\* reaches, and what a handle reaches changes by the program's calls alone
\* (allocator.h, color_map.h, object.cpp, types/cons.h, types/array.h).
THEOREM HeapIsImplemented == Spec => ImplementsHeap
<1>1. Init => Heap!Init
  BY DEF Init, Heap!Init, Live, In, LivePlaces, BulkPlaces, RootPlaces
<1>2. IInv /\ IInv' /\ [Next]_vars => [Heap!Next]_(Heap!vars)
  BY NextImplements
<1> QED BY <1>1, <1>2, InvariantHolds, PTL DEF Spec, ImplementsHeap, Heap!Spec

---------------------------------------------------------------------------
(* What the extensions of Allocator add.  An assignment from a cell keeps  *)
(* the invariant, and with one increment for each handle that is dropped   *)
(* (GarbageSteps <= 1, the default of allocator.cpp) the object it takes   *)
(* is never disposed of under way (AllocatorClients).  Garbage survives    *)
(* one swap at most (AllocatorProgress).                                   *)

CellInv == IInv /\ PendingCell

---------------------------------------------------------------------------
(* What the one increment of an assignment may dispose of.                 *)

\* Nothing is left to scan exactly when both maps have nothing.
LEMMA NothingUnscanned ==
  Unscanned(Obj) = {} <=> Unscanned(Conses) = {} /\ Unscanned(Arrays) = {}
  BY DEF Unscanned, Obj

\* When nothing is left to scan, what is reachable is black.
LEMMA ReachableIsScanned ==
  ASSUME IInv, Unscanned(Obj) = {}
  PROVE  \A c \in Reachable : Blackened(c)
<1> DEFINE B == {o \in Live : Blackened(o)}
<1>1. \A o \in Live : place[o] # "white" => o \in B
  BY HeapShape DEF Unscanned, Blackened, Live, In, LivePlaces, BulkPlaces, RootPlaces
<1>2. Rooted \subseteq B
  BY <1>1, HeapShape DEF IInv, Rooted, In, RootPlaces
<1>3. \A o \in B : Kids[o] \subseteq B
  <2> SUFFICES ASSUME NEW o \in B, NEW k \in Kids[o] PROVE k \in B
    OBVIOUS
  <2>1. k \in Live /\ k \in ScannedPart(o)
    BY DEF IInv, LiveClosed, ScannedPart, Blackened
  <2> QED BY <2>1, <1>1 DEF IInv, ScannedIsNotWhite
<1>4. ClosedUnder(B, Kids) /\ B \subseteq Obj
  BY <1>3, HeapShape DEF ClosedUnder, IInv
<1>5. Reachable \subseteq B
  BY <1>2, <1>4, HeapShape, ReachIsLeast DEF Reachable, IInv
<1> QED BY <1>5

\* A handle that gives its object up leaves something to scan, unless every
\* object that could be reached is black already.
LEMMA UnrootLeavesWhite ==
  ASSUME IInv, NEW h \in Handles, Unroot(h), NEW c \in Reachable, Unscanned(Obj)' = {}
  PROVE  place'[c] # "white"
<1> USE DEF IInv
<1>1. PICK o \in Obj : o = handle[h]
  BY DEF Unroot
<1>2. place[o] \in RootPlaces /\ c \in Obj
  BY <1>1, ReachableFacts, HeapShape DEF RootsCounted, HandlesOf
<1>3. place' = [place EXCEPT ![o] = IF refCount[o] = 1 THEN OtherElements(@) ELSE @]
  BY <1>1 DEF Unroot, TypeOK
<1>4. place'[o] # "white" /\ \A x \in Obj \ {o} : place'[x] = place[x]
  BY <1>2, <1>3 DEF OtherElements, BulkPlaces, RootPlaces, TypeOK
<1>5. place[o] = "blackRoot"
  BY <1>2, <1>3 DEF OtherElements, BulkPlaces, RootPlaces, Unscanned, TypeOK
<1>6. Unscanned(Obj) = {}
  BY <1>4, <1>5 DEF Unscanned
<1>7. Blackened(c)
  BY <1>6, ReachableIsScanned
<1> QED BY <1>2, <1>4, <1>7 DEF Blackened

---------------------------------------------------------------------------
(* The steps of an assignment from a cell.                                 *)

\* The assignment begins.
LEMMA AssignCellInv ==
  ASSUME GarbageSteps <= 1, CellInv, NEW h \in Handles, NEW c \in Reachable, AssignCell(h, c)
  PROVE  CellInv'
<1>1. /\ Unroot(h) /\ UNCHANGED <<cells, gcPosition>>
      /\ pc' = "conses" /\ steps' = GarbageSteps /\ budget' = RecycleSteps
      /\ todo' = [op |-> "assignCell", h |-> h, x |-> Nil, i |-> 0, car |-> c, cdr |-> Nil]
  BY DEF AssignCell, Collect, Idle
<1>2. c \in Live /\ c \in Obj /\ steps' \in Nat /\ budget' \in Nat /\ steps' <= 1
  BY <1>1, ReachableFacts, HeapShape, BoundsAssumption DEF CellInv, IInv
<1>3. RootsCounted' /\ LiveClosed' /\ PositionsOK' /\ ScannedIsNotWhite' /\ Live' = Live
      /\ handle'[h] = Nil
  BY <1>1, UnrootFacts DEF CellInv, IInv, TypeOK
<1>4. todo' \in Calls
  BY <1>1, <1>2 DEF Calls, Ops, Cell
<1>5. TypeOK'
  BY <1>1, <1>2, <1>4, UnrootFacts DEF CellInv, IInv, TypeOK
<1>6. MarkingDone' /\ TodoOK'
  BY <1>1, NilIsNoObj DEF MarkingDone, TodoOK
<1>7. Unscanned(Obj)' = {} => place'[c] # "white"
  BY <1>1, UnrootLeavesWhite DEF CellInv
<1>8. PendingCell'
  BY <1>1, <1>2, <1>3, <1>7 DEF PendingCell
<1> QED BY <1>3, <1>5, <1>6, <1>8 DEF CellInv, IInv

\* The assignment ends: its object is alive.
LEMMA FinishAssignCellInv ==
  ASSUME CellInv, FinishAssignCell
  PROVE  CellInv'
<1>1. /\ todo.op = "assignCell" /\ Root(todo.h, todo.car) /\ UNCHANGED <<cells, gcPosition>>
      /\ pc' = "program" /\ todo' = Idle /\ UNCHANGED steps /\ budget' = 0
  BY DEF FinishAssignCell, Finishes
<1>2. todo.h \in Handles /\ todo.car \in Live /\ handle[todo.h] = Nil
  BY <1>1 DEF CellInv, PendingCell
<1>3. RootsCounted' /\ LiveClosed' /\ PositionsOK' /\ ScannedIsNotWhite'
  BY <1>1, <1>2, RootFacts DEF CellInv
<1>4. TypeOK'
  BY <1>1, <1>2, IdleOK, RootFacts DEF CellInv, IInv, TypeOK
<1>5. MarkingDone' /\ TodoOK' /\ PendingCell'
  BY <1>1, IdleOK DEF MarkingDone, TodoOK, PendingCell
<1> QED BY <1>3, <1>4, <1>5 DEF CellInv, IInv

\* The collector's steps while the assignment runs.
LEMMA PendingScans ==
  ASSUME CellInv, todo.op = "assignCell", NEW o \in Obj, ScanCons(o) \/ ScanArray(o)
  PROVE  PendingCell'
<1> USE DEF CellInv, IInv
<1>1. CASE ScanCons(o)
  <2>1. /\ place' = [GreyAll(place, Kids[o]) EXCEPT ![o] = Scanned(place[o])]
        /\ UNCHANGED <<handle, steps, todo>> /\ pc' = "containersOnly"
        /\ place[o] \in {"whiteRoot", "greyRoot", "grey"}
    BY <1>1, NextScanIsUnscanned DEF ScanCons, heap
  <2>2. Marking
    BY <2>1, GreyAllMarks, MovesMark DEF Marking, TypeOK, Marks
  <2>3. Live' = Live
    BY <2>2, MarkingFacts
  <2> QED BY <2>1, <2>3 DEF PendingCell
<1>2. CASE ScanArray(o)
  <2>1. /\ UNCHANGED <<handle, todo>> /\ steps' = steps - 1 /\ steps > 0
        /\ \E S : \/ place' = [GreyAll(place, S) EXCEPT ![o] = Scanned(place[o])]
                  \/ place' = GreyAll(place, S)
        /\ place[o] \in {"whiteRoot", "greyRoot", "grey"}
    BY <1>2, NextScanIsUnscanned DEF ScanArray, heap, MarkingDone
  <2>2. Marking
    <3>1. PICK S : \/ place' = [GreyAll(place, S) EXCEPT ![o] = Scanned(place[o])]
                   \/ place' = GreyAll(place, S)
      BY <2>1
    <3> QED BY <2>1, <3>1, GreyAllMarks, MovesMark DEF Marking, TypeOK, Marks
  <2>3. Live' = Live
    BY <2>2, MarkingFacts
  <2>4. steps \in Nat /\ steps <= 1
    BY DEF TypeOK, PendingCell
  <2>5. steps' = 0
    BY <2>1, <2>4
  <2> QED BY <2>1, <2>3, <2>5 DEF PendingCell
<1> QED BY <1>1, <1>2

LEMMA PendingPhases ==
  ASSUME CellInv, todo.op = "assignCell", NoConsToScan \/ NoArrayToScan \/ Swap
  PROVE  PendingCell'
<1> USE DEF CellInv, IInv
<1>0. steps \in Nat /\ steps <= 1
  BY DEF TypeOK, PendingCell
<1>1. CASE NoConsToScan
  <2>1. UNCHANGED <<place, handle, steps, todo>> /\ pc = "conses" /\ pc' = "containers"
    BY <1>1 DEF NoConsToScan, heap
  <2> QED BY <2>1 DEF PendingCell, Unscanned, Live, In
<1>2. CASE NoArrayToScan
  <2>1. UNCHANGED <<place, handle, todo>>
    BY <1>2 DEF NoArrayToScan, heap
  <2>2. \/ pc = "containers" /\ pc' = "swap" /\ UNCHANGED steps
        \/ pc' = "conses" /\ steps' = steps - 1 /\ steps > 0
    BY <1>2 DEF NoArrayToScan, MarkingDone
  <2>3. CASE pc = "containers" /\ pc' = "swap" /\ UNCHANGED steps
    BY <2>1, <2>3 DEF PendingCell, Unscanned, Live, In
  <2>4. CASE pc' = "conses" /\ steps' = steps - 1 /\ steps > 0
    <3>1. steps' = 0
      BY <1>0, <2>4
    <3> QED BY <2>1, <3>1 DEF PendingCell, Live, In
  <2> QED BY <2>2, <2>3, <2>4
<1>3. CASE Swap
  <2>1. /\ pc = "swap" /\ UNCHANGED <<handle, todo>> /\ steps' = steps - 1 /\ steps > 0
        /\ place' = [x \in Obj |-> Swapped(place[x])]
    BY <1>3 DEF Swap, heap, MarkingDone
  <2>2. steps' = 0 /\ steps = 1
    BY <1>0, <2>1
  <2>3. Unscanned(Obj) = {}
    BY <2>1, NothingUnscanned DEF MarkingDone
  <2>4. todo.car \in Live /\ place[todo.car] # "white"
    BY <2>1, <2>2, <2>3 DEF PendingCell
  <2>5. Swapped(place[todo.car]) \in LivePlaces
    BY <2>4 DEF Live, In, Swapped, LivePlaces, BulkPlaces, RootPlaces
  <2>6. todo.car \in Live'
    BY <2>1, <2>4, <2>5 DEF Live, In
  <2> QED BY <2>1, <2>2, <2>6 DEF PendingCell
<1> QED BY <1>1, <1>2, <1>3

LEMMA PendingRecycles ==
  ASSUME CellInv, todo.op = "assignCell", NEW o \in Obj, RecycleCons(o) \/ RecycleArray(o)
  PROVE  PendingCell'
<1>1. o \notin Live /\ UNCHANGED <<handle, steps, todo>> /\ steps = 0
  BY DEF RecycleCons, RecycleArray, Live, In, LivePlaces, BulkPlaces, RootPlaces
<1>2. \A x \in Obj \ {o} : place'[x] = place[x]
  BY DEF RecycleCons, RecycleArray, Freed, CellInv, IInv, TypeOK
<1>3. Live \subseteq Live'
  BY <1>1, <1>2 DEF Live, In
<1> QED BY <1>1, <1>3 DEF CellInv, PendingCell

\* The program acts between the calls only.
LEMMA MutatorFromProgram ==
  ASSUME Mutator
  PROVE  pc = "program"
<1>1. \A h, a, b : MakeRootCons(h, a, b) \/ MakeRootArray(h) \/ Copy(h, a) \/ Drop(h) \/ Assign(h, a)
                   => pc = "program"
  BY DEF MakeRootCons, MakeRootArray, Copy, Drop, Assign, Program
<1>2. \A x, i, a, b : \/ MakeCons(x, i, a, b) \/ MakeArray(x, i) \/ SetManaged(x, i)
                      \/ SetCell(x, i, a) \/ AppendCell(x, a)
                      => pc = "program"
  BY DEF MakeCons, MakeArray, SetManaged, SetCell, AppendCell, Program
<1>3. CASE Cycle
  BY <1>3 DEF Cycle, FullCycle, Program
<1> QED BY <1>1, <1>2, <1>3 DEF Mutator

\* Every other step leaves no such assignment pending.
LEMMA OthersDoNotPend ==
  ASSUME IInv, Mutator \/ CallStep \/ CallRecycle \/ Finish
  PROVE  PendingCell'
<1>1. pc = "program" => todo.op = "none"
  BY IdleOK DEF IInv, TodoOK
<1>2. CASE CallStep \/ CallRecycle
  BY <1>2 DEF CallStep, CallRecycle, Collect, PendingCell, Idle
<1>3. CASE Finish
  BY <1>3, FinishLeavesIdle, IdleOK DEF PendingCell
<1>4. CASE Mutator
  <2>1. pc = "program"
    BY <1>4, MutatorFromProgram
  <2> QED BY <1>1, <1>4, <2>1, MutatorBegins DEF PendingCell
<1> QED BY <1>2, <1>3, <1>4

\* The invariant is inductive for the program that also assigns from cells.
CellNext == \/ Next \/ FinishAssignCell
            \/ \E h \in Handles, c \in Reachable : AssignCell(h, c)

LEMMA CellNextInv ==
  ASSUME GarbageSteps <= 1
  PROVE  CellInv /\ [CellNext]_vars => CellInv'
<1> SUFFICES ASSUME CellInv, [CellNext]_vars PROVE CellInv'
  OBVIOUS
<1>1. CASE Mutator \/ CallStep \/ CallRecycle \/ Finish
  BY <1>1, NextInv, OthersDoNotPend DEF CellInv, Next
<1>2. CASE Collector
  <2>1. IInv'
    BY <1>2, NextInv DEF CellInv, Next
  <2>2. UNCHANGED todo
    BY <1>2, CollectorKeepsTodo
  <2>3. ASSUME todo.op # "assignCell" PROVE PendingCell'
    BY <2>2, <2>3 DEF PendingCell
  <2>4. ASSUME todo.op = "assignCell" PROVE PendingCell'
    BY <1>2, <2>4, PendingScans, PendingPhases, PendingRecycles DEF Collector
  <2>5. PendingCell'
    BY <2>3, <2>4
  <2> QED BY <2>1, <2>5 DEF CellInv
<1>3. CASE FinishAssignCell
  BY <1>3, FinishAssignCellInv
<1>4. ASSUME NEW h \in Handles, NEW c \in Reachable, AssignCell(h, c) PROVE CellInv'
  BY <1>4, AssignCellInv
<1>5. CASE UNCHANGED vars
  <2>1. IInv'
    BY <1>5, StutterInv DEF CellInv
  <2> QED BY <1>5, <2>1 DEF vars, CellInv, PendingCell, Unscanned, Live, In
<1> QED BY <1>1, <1>2, <1>3, <1>4, <1>5 DEF CellNext, Next

\* The inductive invariant of the assignments.
THEOREM CellInvariantHolds == GarbageSteps <= 1 /\ SpecAssignCell => []CellInv
<1>1. Init => CellInv
  BY InitInv DEF CellInv, PendingCell, Init, Idle
<1>2. GarbageSteps <= 1 => (CellInv /\ [CellNext]_vars => CellInv')
  BY CellNextInv
<1>3. SpecAssignCell <=> Init /\ [][CellNext]_vars
  BY DEF SpecAssignCell, CellNext
<1>4. CASE GarbageSteps <= 1
  <2>1. CellInv /\ [CellNext]_vars => CellInv'
    BY <1>2, <1>4
  <2> QED BY <1>1, <1>3, <2>1, PTL
<1> QED BY <1>4

\* object.cpp:80 and 82: the object a handle takes from a cell is still where
\* its container says.
THEOREM AssignmentsTakeLive == GarbageSteps <= 1 /\ SpecAssignCell => []AssignsLive
<1>1. CellInv => AssignsLive
  BY DEF CellInv, PendingCell, AssignsLive, Live, In
<1> QED BY <1>1, CellInvariantHolds, PTL

\* Neither does anything else dangle, with these assignments among the calls.
THEOREM NothingDanglesWithCells == GarbageSteps <= 1 /\ SpecAssignCell => []NoDangling
<1>1. CellInv => NoDangling
  <2> SUFFICES ASSUME CellInv PROVE NoDangling
    OBVIOUS
  <2>1. Reachable \subseteq Live
    BY ReachableFacts DEF CellInv, IInv
  <2>2. {todo.x, todo.car, todo.cdr} \cap Obj \subseteq Live
    BY <2>1, NilIsNoObj DEF CellInv, IInv, TodoOK, PendingCell
  <2> QED BY <2>1, <2>2 DEF NoDangling
<1> QED BY <1>1, CellInvariantHolds, PTL

---------------------------------------------------------------------------
(* How long garbage floats (AllocatorProgress).                            *)

\* What has been garbage at a swap is white, and so is all that points to it:
\* nothing is left that could grey it.
AgeInv ==
  /\ age \in [Obj -> Nat]
  /\ \A o \in Obj \ Garbage : age[o] = 0
  /\ \A o \in Garbage :
       /\ age[o] <= 1
       /\ age[o] = 1 => /\ place[o] = "white"
                        /\ \A x \in Live : o \in Kids[x] => age[x] = 1

\* A step leaves garbage that has survived a swap where it is, and makes
\* nothing new point to it.
KeepsOld ==
  \A o \in Garbage \cap Live' : age[o] = 1 =>
    /\ place'[o] = place[o]
    /\ \A x \in Live' : o \in Kids'[x] => x \in Live /\ o \in Kids[x]

\* Garbage is alive, and only garbage points to it.
LEMMA GarbageFacts ==
  ASSUME IInv, NEW o \in Garbage
  PROVE  /\ o \in Obj /\ o \in Live /\ o \notin Reachable /\ o \notin Rooted
         /\ \A x \in Live : o \in Kids[x] => x \in Garbage
  BY ReachableFacts, HeapShape DEF IInv, Garbage

\* Steps that change only what is reachable or dead, and store only what is
\* reachable or new, keep old garbage.
LEMMA ReachableChanges ==
  ASSUME IInv,
         \A o \in Live \ Reachable : place'[o] = place[o] /\ Kids'[o] = Kids[o],
         \A x \in Reachable \cup (Live' \ Live) : Kids'[x] \cap Live \subseteq Reachable
  PROVE  KeepsOld
<1> SUFFICES ASSUME NEW o \in Garbage, o \in Live', NEW x \in Live', o \in Kids'[x]
             PROVE  x \in Live /\ o \in Kids[x]
  BY DEF KeepsOld, Garbage
<1>1. o \in Live /\ o \notin Reachable
  BY DEF Garbage
<1>2. x \notin Reachable \cup (Live' \ Live)
  BY <1>1
<1> QED BY <1>2

\* So do steps that change nothing that is alive.
LEMMA StillSteps ==
  ASSUME IInv, \A o \in Live : place'[o] = place[o] /\ cells'[o] = cells[o], Live' = Live
  PROVE  KeepsOld
<1>1. \A o \in Live : Kids'[o] = Kids[o]
  BY HeapShape DEF Kids, IInv
<1>2. \A x \in Reachable : Kids[x] \subseteq Reachable /\ x \in Live
  BY ReachableFacts DEF IInv
<1> QED BY <1>1, <1>2, ReachableChanges

\* The ages after a step that keeps old garbage.
LEMMA AgesKept ==
  ASSUME IInv, IInv', AgeInv, KeepsOld, pc # "swap", Aged
  PROVE  AgeInv'
<1>1. age' = [o \in Obj |-> IF o \notin Garbage \/ o \notin Garbage' THEN 0 ELSE age[o]]
  BY DEF Aged
<1>2. age' \in [Obj -> Nat] /\ \A o \in Obj : o \notin Garbage' => age'[o] = 0
  BY <1>1 DEF AgeInv
<1>3. ASSUME NEW o \in Garbage', age'[o] # 0
      PROVE  /\ age'[o] = 1 /\ place'[o] = "white"
             /\ \A x \in Live' : o \in Kids'[x] => age'[x] = 1
  <2>1. o \in Obj /\ o \in Live'
    BY <1>3, GarbageFacts DEF Garbage, Live, In
  <2>2. o \in Garbage /\ age'[o] = age[o] /\ age[o] = 1
    BY <1>1, <1>3, <2>1 DEF AgeInv
  <2>3. place'[o] = "white"
    BY <2>1, <2>2 DEF AgeInv, KeepsOld
  <2>4. ASSUME NEW x \in Live', o \in Kids'[x] PROVE age'[x] = 1
    <3>1. x \in Live /\ o \in Kids[x] /\ x \in Obj
      BY <2>1, <2>2, <2>4, HeapShape DEF KeepsOld, IInv
    <3>2. age[x] = 1 /\ x \in Garbage
      BY <2>2, <3>1 DEF AgeInv
    <3>3. x \in Garbage'
      <4>1. Kids' \in [Obj -> SUBSET Obj] /\ Rooted' \in SUBSET Obj
        BY DEF Kids, Rooted, In
      <4>2. x \in Reachable' => o \in Reachable'
        BY <2>4, <4>1, ReachIsClosed DEF Reachable
      <4> QED BY <2>4, <1>3, <4>2 DEF Garbage
    <3> QED BY <1>1, <3>1, <3>2, <3>3
  <2> QED BY <2>2, <2>3, <2>4
<1>4. \A o \in Garbage' : age'[o] \in Nat
  BY <1>2 DEF Garbage, Live, In
<1> QED BY <1>2, <1>3, <1>4 DEF AgeInv

\* The swap itself: what it leaves as garbage was black, and turns white.
LEMMA SwapAges ==
  ASSUME IInv, IInv', AgeInv, Swap, Aged
  PROVE  AgeInv'
<1>1. /\ pc = "swap" /\ UNCHANGED cells
      /\ place' = [o \in Obj |-> Swapped(place[o])]
  BY DEF Swap, heap
<1>2. \A o \in Obj : place[o] \notin {"grey", "greyRoot", "whiteRoot"}
  BY <1>1 DEF IInv, MarkingDone, Unscanned, Obj
<1>3. \A o \in Obj : /\ place'[o] \in RootPlaces <=> place[o] \in RootPlaces
                     /\ o \in Live' <=> Blackened(o)
                     /\ place'[o] = "white" <=> place[o] = "black"
  BY <1>1, <1>2 DEF Swapped, Places, LivePlaces, BulkPlaces, RootPlaces, Live, In, Blackened, IInv, TypeOK
<1>4. Rooted' = Rooted /\ Kids' = Kids
  BY <1>1, <1>3 DEF Rooted, In, Kids
<1>5. Reachable' = Reachable
  BY <1>4 DEF Reachable
<1>6. \A o \in Live' : o \in Live /\ o \in Obj /\ Blackened(o)
  BY <1>3 DEF Live, In, Blackened, LivePlaces, BulkPlaces, RootPlaces
<1>7. \A o \in Garbage' : o \in Garbage /\ Blackened(o) /\ o \in Obj /\ age[o] = 0
  <2>1. \A o \in Garbage' : o \in Garbage /\ Blackened(o) /\ o \in Obj
    BY <1>5, <1>6 DEF Garbage
  <2> QED BY <2>1 DEF AgeInv, Blackened
<1>8. \A o \in Garbage' : place'[o] = "white"
  BY <1>3, <1>6, <1>7, GarbageFacts DEF Blackened, Rooted, In, RootPlaces
<1>9. \A o \in Garbage' : age'[o] = IF 0 < MaxAge THEN 1 ELSE 0
  BY <1>1, <1>7, MaxAgeAssumption DEF Aged, AgeInv
<1>10. age' \in [Obj -> Nat] /\ \A o \in Obj \ Garbage' : age'[o] = 0
  BY DEF Aged, AgeInv
<1>11. ASSUME NEW o \in Garbage', NEW x \in Live', o \in Kids'[x]
       PROVE  x \in Garbage'
  BY <1>11, GarbageFacts, <1>4, <1>5, <1>6, <1>7 DEF Garbage
<1> QED BY <1>8, <1>9, <1>10, <1>11 DEF AgeInv

\* Scanning greys nothing that has been garbage at a swap, because what would
\* grey it is white itself.
LEMMA ScanKeepsOld ==
  ASSUME IInv, AgeInv, NEW o \in Obj, ScanCons(o) \/ ScanArray(o)
  PROVE  KeepsOld /\ pc # "swap"
<1> USE DEF IInv
<1>1. /\ UNCHANGED cells /\ place[o] \in {"whiteRoot", "greyRoot", "grey"} /\ pc # "swap"
  BY NextScanIsUnscanned DEF ScanCons, ScanArray, heap
<1>2. PICK S \in SUBSET Kids[o] :
        \/ place' = [GreyAll(place, S) EXCEPT ![o] = Scanned(place[o])]
        \/ place' = GreyAll(place, S)
  <2>1. CASE ScanCons(o)
    BY <2>1 DEF ScanCons
  <2>2. CASE ScanArray(o)
    <3> DEFINE p == gcPosition[o]
               n == Len(cells[o])
               S == (IF p < n THEN {cells[o][p + 1]} ELSE {}) \cap Obj
    <3>1. \/ place' = [GreyAll(place, IF p < n THEN {cells[o][p + 1]} ELSE {}) EXCEPT ![o] = Scanned(place[o])]
          \/ place' = GreyAll(place, IF p < n THEN {cells[o][p + 1]} ELSE {})
      BY <2>2 DEF ScanArray
    <3>2. GreyAll(place, IF p < n THEN {cells[o][p + 1]} ELSE {}) = GreyAll(place, S)
      BY DEF GreyAll
    <3>3. p \in Nat /\ n \in Nat /\ cells[o] \in Seq(Cell)
      BY DEF TypeOK
    <3>4. p < n => cells[o][p + 1] \in Range(cells[o])
      BY <3>3 DEF Range
    <3>5. S \subseteq Kids[o]
      BY <3>4 DEF Kids
    <3> QED BY <3>1, <3>2, <3>5
  <2> QED BY <2>1, <2>2
<1>3. Marking
  BY <1>1, <1>2, GreyAllMarks, MovesMark DEF Marking, TypeOK, Marks
<1>4. Live' = Live /\ Kids' = Kids
  BY <1>1, <1>3, MarkingFacts DEF Kids
<1>5. o \in Live
  BY <1>1 DEF Live, In, LivePlaces, BulkPlaces, RootPlaces
<1>6. ASSUME NEW g \in Garbage, age[g] = 1 PROVE place'[g] = place[g]
  <2>1. g \in Obj /\ place[g] = "white" /\ g # o
    BY <1>1, <1>6, GarbageFacts DEF AgeInv
  <2>2. g \notin Kids[o]
    <3> SUFFICES ASSUME g \in Kids[o] PROVE FALSE
      OBVIOUS
    <3>1. age[o] = 1
      BY <1>5, <1>6 DEF AgeInv
    <3>2. o \in Garbage
      BY <3>1 DEF AgeInv
    <3> QED BY <1>1, <3>1, <3>2 DEF AgeInv
  <2> QED BY <1>2, <2>1, <2>2 DEF GreyAll
<1> QED BY <1>1, <1>4, <1>6 DEF KeepsOld

\* The other steps of the collector touch nothing that is alive.
LEMMA CollectorKeepsOld ==
  ASSUME IInv, \/ NoConsToScan \/ NoArrayToScan \/ CallStep \/ CallRecycle
               \/ \E o \in Obj : RecycleCons(o) \/ RecycleArray(o)
  PROVE  KeepsOld /\ pc # "swap"
<1>1. CASE NoConsToScan \/ NoArrayToScan \/ CallStep \/ CallRecycle
  <2>1. UNCHANGED <<place, cells>> /\ pc # "swap"
    BY <1>1 DEF NoConsToScan, NoArrayToScan, CallStep, CallRecycle, Program, heap
  <2>2. Live' = Live
    BY <2>1 DEF Live, In
  <2> QED BY <2>1, <2>2, StillSteps
<1>2. ASSUME NEW o \in Obj, RecycleCons(o) \/ RecycleArray(o) PROVE KeepsOld /\ pc # "swap"
  <2>1. o \notin Live /\ pc # "swap"
    BY <1>2 DEF RecycleCons, RecycleArray, Live, In, LivePlaces, BulkPlaces, RootPlaces
  <2>2. /\ \A x \in Obj \ {o} : place'[x] = place[x] /\ cells'[x] = cells[x]
        /\ place'[o] \in {"void", "recycling"}
    BY <1>2 DEF RecycleCons, RecycleArray, Freed, IInv, TypeOK
  <2>3. Live' = Live
    BY <2>1, <2>2 DEF Live, In, LivePlaces, BulkPlaces, RootPlaces
  <2> QED BY <2>1, <2>2, <2>3, HeapShape, StillSteps DEF IInv
<1> QED BY <1>1, <1>2

\* A barrier touches the object that is written and what it holds.
LEMMA BarrierTouches ==
  ASSUME NEW p \in [Obj -> Places], NEW x \in Obj, NEW now, NEW c \in Range(now),
         NEW y \in Obj, y # x, y \notin Range(now)
  PROVE  Barrier(p, x, now, c)[y] = p[y] /\ GcStep(p, x, now)[y] = p[y]
  BY DEF Barrier, GcStep, GreyAll

\* A write of a reachable value to a reachable object keeps old garbage.
LEMMA WriteKeepsOld ==
  ASSUME IInv, NEW x \in Reachable, NEW now \in Seq(Cell), NEW c \in Value, c \in Range(now),
         Range(now) \subseteq Range(cells[x]) \cup {c},
         cells' = [cells EXCEPT ![x] = now],
         place' = Barrier(place, x, now, c) \/ place' = GcStep(place, x, now),
         Live' = Live
  PROVE  KeepsOld
<1>1. /\ x \in Obj /\ Kids[x] \subseteq Reachable /\ Kids[x] = Range(cells[x]) \cap Obj
      /\ place \in [Obj -> Places] /\ \A y \in Reachable : Kids[y] \subseteq Reachable
  BY ReachableFacts, HeapShape DEF IInv, Kids, TypeOK
<1>2. Range(now) \cap Obj \subseteq Reachable
  BY <1>1, NilIsNoObj DEF Value
<1>3. Kids'[x] = Range(now) \cap Obj /\ \A y \in Obj \ {x} : Kids'[y] = Kids[y]
  BY <1>1 DEF Kids, IInv, TypeOK
<1>4. \A y \in Live \ Reachable : place'[y] = place[y] /\ Kids'[y] = Kids[y]
  BY <1>1, <1>2, <1>3, BarrierTouches, HeapShape DEF IInv
<1>5. \A y \in Reachable : Kids'[y] \subseteq Reachable
  BY <1>1, <1>2, <1>3, ReachableFacts, HeapShape DEF IInv
<1> QED BY <1>4, <1>5, ReachableChanges

\* The calls that write a cell.
LEMMA SetsKeepOld ==
  ASSUME IInv, NEW x \in Reachable, NEW i \in 1 .. Len(cells[x]), NEW c \in Value,
         SetCell(x, i, c) \/ SetManaged(x, i)
  PROVE  KeepsOld /\ pc # "swap"
<1>1. x \in Obj /\ cells[x] \in Seq(Cell) /\ Nil \in Value /\ Nil \in Cell /\ c \in Cell
  BY ReachableFacts, HeapShape DEF IInv, TypeOK, Value, Cell
<1>2. PICK v \in Value : /\ cells' = [cells EXCEPT ![x] = [cells[x] EXCEPT ![i] = v]] /\ v \in Cell
                         /\ \/ place' = Barrier(place, x, cells'[x], v)
                            \/ place' = GcStep(place, x, cells'[x])
  BY <1>1 DEF SetCell, SetManaged
<1> DEFINE now == [cells[x] EXCEPT ![i] = v]
<1>3. now \in Seq(Cell) /\ v \in Range(now) /\ Range(now) \subseteq Range(cells[x]) \cup {v}
  BY <1>1, <1>2 DEF Range
<1>4. cells'[x] = now /\ Live' = Live
  BY <1>1, <1>2, BarriersKeepLive DEF IInv, TypeOK
<1>5. pc # "swap"
  BY DEF SetCell, SetManaged, Program
<1> QED BY <1>2, <1>3, <1>4, <1>5, WriteKeepsOld

LEMMA AppendKeepsOld ==
  ASSUME IInv, NEW x \in Reachable, NEW c \in Value, AppendCell(x, c)
  PROVE  KeepsOld /\ pc # "swap"
<1>1. x \in Obj /\ cells[x] \in Seq(Cell) /\ c \in Cell
  BY ReachableFacts, HeapShape DEF IInv, TypeOK, Value, Cell
<1> DEFINE now == Append(cells[x], c)
<1>2. now \in Seq(Cell) /\ c \in Range(now) /\ Range(now) \subseteq Range(cells[x]) \cup {c}
  <2>1. /\ now \in Seq(Cell) /\ Len(now) = Len(cells[x]) + 1 /\ now[Len(cells[x]) + 1] = c
        /\ \A n \in 1 .. Len(cells[x]) : now[n] = cells[x][n]
        /\ Len(cells[x]) \in Nat /\ DOMAIN cells[x] = 1 .. Len(cells[x])
        /\ DOMAIN now = 1 .. Len(now)
    BY <1>1
  <2> HIDE DEF now
  <2>2. Len(cells[x]) + 1 \in DOMAIN now
    BY <2>1
  <2>3. \A n \in DOMAIN now : n \in DOMAIN cells[x] \/ n = Len(cells[x]) + 1
    BY <2>1
  <2> QED BY <2>1, <2>2, <2>3 DEF Range
<1>3. cells' = [cells EXCEPT ![x] = now] /\ cells'[x] = now /\ place' = Barrier(place, x, now, c)
      /\ pc # "swap"
  BY <1>1 DEF AppendCell, Program, IInv, TypeOK
<1> HIDE DEF now
<1>4. Live' = Live
  BY <1>1, <1>3, BarriersKeepLive
<1> QED BY <1>2, <1>3, <1>4, WriteKeepsOld

\* Handles that take or give up an object move that object only.
LEMMA HandlesKeepOld ==
  ASSUME IInv, NEW h \in Handles,
         \/ \E c \in Reachable : Copy(h, c)
         \/ Drop(h)
         \/ \E g \in Handles : Assign(h, g)
  PROVE  KeepsOld /\ pc # "swap"
<1>1. CASE \E c \in Reachable : Copy(h, c)
  <2>1. PICK c \in Reachable : Copy(h, c)
    BY <1>1
  <2>2. /\ Root(h, c) /\ handle[h] = Nil /\ UNCHANGED <<cells, gcPosition>> /\ pc # "swap" /\ c \in Live
    BY <2>1, ReachableFacts DEF Copy, Program, IInv
  <2>3. Live' = Live /\ Kids' = Kids
    BY <2>2, RootFacts
  <2>4. \A o \in Live \ Reachable : place'[o] = place[o]
    BY <2>2, HeapShape DEF Root, IInv, TypeOK
  <2> QED BY <2>2, <2>3, <2>4, ReachableChanges, ReachableFacts DEF IInv
<1>2. CASE Drop(h) \/ \E g \in Handles : Assign(h, g)
  <2>1. Unroot(h) /\ UNCHANGED <<cells, gcPosition>> /\ pc # "swap"
    BY <1>2 DEF Drop, Assign, Program
  <2>2. Live' = Live /\ Kids' = Kids
    BY <2>1, UnrootFacts
  <2>3. handle[h] \in Rooted
    BY <2>1 DEF Unroot, IInv, RootsCounted, HandlesOf, Rooted, In
  <2>4. \A o \in Live \ Reachable : place'[o] = place[o]
    BY <2>1, <2>3, ReachableFacts, HeapShape DEF Unroot, IInv, TypeOK
  <2> QED BY <2>1, <2>2, <2>4, ReachableChanges, ReachableFacts DEF IInv
<1> QED BY <1>1, <1>2

\* cycle() leaves no garbage.
LEMMA CycleKeepsOld ==
  ASSUME IInv, Cycle
  PROVE  KeepsOld /\ pc # "swap"
<1>1. Reachable \subseteq Live /\ Reachable \subseteq Obj
  BY ReachableFacts, HeapShape DEF IInv
<1>2. \A o \in Obj : place'[o] \in LivePlaces <=> o \in Reachable
  BY <1>1 DEF Cycle, FullCycle, LivePlaces, BulkPlaces, RootPlaces
<1>3. Live' = Reachable
  BY <1>1, <1>2 DEF Live, In
<1> QED BY <1>3 DEF KeepsOld, Garbage, Cycle, FullCycle, Program

\* The ends of the calls that make an object.
LEMMA MakeRootKeepsOld ==
  ASSUME IInv, NEW o \in Obj, FinishMakeRoot(o)
  PROVE  KeepsOld /\ pc # "swap"
<1>1. /\ place[o] = "void" /\ place' = [place EXCEPT ![o] = "whiteRoot"]
      /\ cells' = [cells EXCEPT ![o] = NewCells(o)]
      /\ todo.op \in {"makeRootCons", "makeRootArray"} /\ pc # "swap"
  BY DEF FinishMakeRoot, Finishes, Returning
<1>2. {todo.car, todo.cdr} \cap Obj \subseteq Reachable
  BY <1>1 DEF IInv, TodoOK
<1>3. o \notin Live /\ Live' = Live \cup {o}
  BY <1>1 DEF Live, In, LivePlaces, BulkPlaces, RootPlaces, IInv, TypeOK
<1>4. Range(NewCells(o)) \cap Obj \subseteq Reachable
  <2>1. CASE o \in Conses
    BY <2>1, <1>2 DEF NewCells, Range
  <2>2. CASE o \notin Conses
    BY <2>2 DEF NewCells, Range
  <2> QED BY <2>1, <2>2
<1>5. /\ Kids'[o] \subseteq Reachable /\ \A x \in Obj \ {o} : Kids'[x] = Kids[x]
      /\ \A x \in Obj \ {o} : place'[x] = place[x]
  BY <1>1, <1>4 DEF Kids, IInv, TypeOK
<1>6. /\ \A x \in Live : x \in Obj /\ x # o
      /\ Reachable \subseteq Live /\ \A x \in Reachable : Kids[x] \subseteq Reachable
  BY <1>3, HeapShape, ReachableFacts DEF IInv
<1> QED BY <1>1, <1>3, <1>5, <1>6, ReachableChanges

LEMMA MakeChildKeepsOld ==
  ASSUME IInv, NEW o \in Obj, FinishMakeChild(o)
  PROVE  KeepsOld /\ pc # "swap"
<1>0. PICK x \in Obj : x = todo.x
  BY DEF FinishMakeChild, Finishes, IInv, TodoOK
<1>1. PICK i \in Nat : i = todo.i
  BY DEF IInv, TypeOK, Calls
<1> DEFINE now == [cells[x] EXCEPT ![i] = o]
           p1 == [place EXCEPT ![o] = "white"]
<1>2. /\ place[o] = "void" /\ place' = Barrier(p1, x, now, o)
      /\ cells' = [cells EXCEPT ![o] = NewCells(o), ![x] = now]
      /\ todo.op \in {"makeCons", "makeArray"} /\ pc # "swap"
  BY <1>0, <1>1 DEF FinishMakeChild, Finishes, Returning
<1>3. /\ x \in Reachable /\ {todo.car, todo.cdr} \cap Obj \subseteq Reachable
      /\ x \in Live /\ i \in DOMAIN cells[x] /\ cells[x] \in Seq(Cell) /\ o \in Cell
      /\ place \in [Obj -> Places] /\ cells \in [Obj -> Seq(Cell)]
  BY <1>0, <1>1, <1>2, ReachableFacts DEF IInv, TodoOK, TypeOK, Cell
<1>4. o \notin Live /\ o # x
  BY <1>2, <1>3 DEF Live, In, LivePlaces, BulkPlaces, RootPlaces
<1>5. now \in Seq(Cell) /\ o \in Range(now) /\ Range(now) \subseteq Range(cells[x]) \cup {o}
  BY <1>3 DEF Range
<1>6. Range(NewCells(o)) \cap Obj \subseteq Reachable
  <2>1. CASE o \in Conses
    BY <2>1, <1>3 DEF NewCells, Range
  <2>2. CASE o \notin Conses
    BY <2>2 DEF NewCells, Range
  <2> QED BY <2>1, <2>2
<1> HIDE DEF now
<1>7. p1 \in [Obj -> Places] /\ \A y \in Obj \ {o} : p1[y] = place[y]
  BY <1>3 DEF Places, LivePlaces, BulkPlaces
<1>8. p1[o] = "white"
  BY <1>3
<1> HIDE DEF p1
<1>9. \A y \in Obj : Marks(p1[y], place'[y])
  BY <1>2, <1>3, <1>5, <1>7, BarrierMoves DEF Barred
<1>10. Live' = Live \cup {o}
  BY <1>7, <1>8, <1>9 DEF Live, In, Marks, LivePlaces, BulkPlaces
<1>11. /\ Kids'[x] \subseteq Kids[x] \cup {o} /\ Kids'[o] \subseteq Reachable
       /\ \A y \in Obj \ {o, x} : Kids'[y] = Kids[y]
  BY <1>2, <1>3, <1>4, <1>5, <1>6 DEF Kids
<1>12. /\ \A y \in Live : y \in Obj /\ y # o
       /\ Reachable \subseteq Live /\ \A y \in Reachable : Kids[y] \subseteq Reachable
       /\ Kids[x] = Range(cells[x]) \cap Obj
  BY <1>4, HeapShape, ReachableFacts DEF IInv, Kids
<1>13. ASSUME NEW y \in Live, y \notin Reachable
       PROVE  place'[y] = place[y] /\ Kids'[y] = Kids[y]
  <2>1. y \in Obj /\ y # o /\ y # x /\ y \notin Kids[x]
    BY <1>3, <1>12, <1>13
  <2>2. y \notin Range(now)
    BY <1>5, <1>12, <2>1
  <2>3. place'[y] = p1[y]
    BY <1>2, <1>5, <1>7, <2>1, <2>2, BarrierTouches
  <2> QED BY <1>7, <1>11, <2>1, <2>3
<1>14. \A y \in Reachable \cup (Live' \ Live) : Kids'[y] \cap Live \subseteq Reachable
  BY <1>3, <1>4, <1>10, <1>11, <1>12
<1> QED BY <1>2, <1>13, <1>14, ReachableChanges

\* The program's calls keep old garbage, ...
LEMMA MutatorKeepsOld ==
  ASSUME IInv, Mutator
  PROVE  KeepsOld /\ pc # "swap"
<1> DEFINE Kept == KeepsOld /\ pc # "swap"
<1>0. ASSUME UNCHANGED <<place, heap>>, pc = "program" PROVE Kept
  <2>1. Live' = Live /\ UNCHANGED <<place, cells>>
    BY <1>0 DEF Live, In, heap
  <2> QED BY <1>0, <2>1, StillSteps
<1>1. ASSUME NEW h \in Handles,
             \/ \E c \in Reachable : Copy(h, c)
             \/ Drop(h)
             \/ \E g \in Handles : Assign(h, g)
      PROVE  Kept
  BY <1>1, HandlesKeepOld
<1>2. ASSUME NEW h \in Handles, NEW a \in Value, NEW b \in Value, MakeRootCons(h, a, b) PROVE Kept
  BY <1>0, <1>2 DEF MakeRootCons, Program
<1>3. ASSUME NEW h \in Handles, MakeRootArray(h) PROVE Kept
  BY <1>0, <1>3 DEF MakeRootArray, Program
<1>4. ASSUME NEW x \in Reachable, NEW i \in 1 .. Len(cells[x]),
             (\E a, b \in Value : MakeCons(x, i, a, b)) \/ MakeArray(x, i)
      PROVE  Kept
  <2>1. UNCHANGED <<place, heap>> /\ pc = "program"
    BY <1>4 DEF MakeCons, MakeArray, Program
  <2> QED BY <1>0, <2>1
<1>5. ASSUME NEW x \in Reachable, NEW i \in 1 .. Len(cells[x]),
             SetManaged(x, i) \/ \E c \in Value : SetCell(x, i, c)
      PROVE  Kept
  BY <1>5, SetsKeepOld DEF Value
<1>6. ASSUME NEW x \in Reachable, NEW c \in Value, AppendCell(x, c) PROVE Kept
  BY <1>6, AppendKeepsOld
<1>7. ASSUME Cycle PROVE Kept
  BY <1>7, CycleKeepsOld
<1> HIDE DEF Kept
<1>8. Kept
  <2>1. ASSUME NEW h \in Handles,
               \/ \E a, b \in Value : MakeRootCons(h, a, b)
               \/ MakeRootArray(h)
               \/ \E c \in Reachable : Copy(h, c)
               \/ Drop(h)
               \/ \E g \in Handles : Assign(h, g)
        PROVE  Kept
    BY <1>1, <1>2, <1>3, <2>1
  <2>2. ASSUME NEW x \in Reachable, NEW i \in 1 .. Len(cells[x]),
               \/ \E a, b \in Value : MakeCons(x, i, a, b)
               \/ MakeArray(x, i) \/ SetManaged(x, i)
               \/ \E c \in Value : SetCell(x, i, c)
        PROVE  Kept
    BY <1>4, <1>5, <2>2
  <2>3. CASE \E h \in Handles :
               \/ \E a, b \in Value : MakeRootCons(h, a, b)
               \/ MakeRootArray(h)
               \/ \E c \in Reachable : Copy(h, c)
               \/ Drop(h)
               \/ \E g \in Handles : Assign(h, g)
    BY <2>1, <2>3
  <2>4. ASSUME NEW x \in Reachable,
               \/ \E i \in 1 .. Len(cells[x]) :
                    \/ \E a, b \in Value : MakeCons(x, i, a, b)
                    \/ MakeArray(x, i) \/ SetManaged(x, i)
                    \/ \E c \in Value : SetCell(x, i, c)
               \/ \E c \in Value : AppendCell(x, c)
        PROVE  Kept
    BY <1>6, <2>2, <2>4
  <2> QED BY <1>7, <2>3, <2>4 DEF Mutator
<1> QED BY <1>8 DEF Kept

\* ... and so do the ends of its calls.
LEMMA FinishKeepsOld ==
  ASSUME IInv, Finish
  PROVE  KeepsOld /\ pc # "swap"
<1>1. CASE FinishCollect \/ FinishAssign
  <2>1. UNCHANGED <<place, cells>> /\ pc # "swap"
    BY <1>1 DEF FinishCollect, FinishAssign, Finishes, Returning, heap
  <2>2. Live' = Live
    BY <2>1 DEF Live, In
  <2> QED BY <2>1, <2>2, StillSteps
<1>2. ASSUME NEW o \in Obj, FinishMakeRoot(o) \/ FinishMakeChild(o) PROVE KeepsOld /\ pc # "swap"
  BY <1>2, MakeRootKeepsOld, MakeChildKeepsOld
<1> QED BY <1>1, <1>2 DEF Finish

\* Ages stay right at every step.
LEMMA AgeNext ==
  ASSUME IInv, AgeInv, [PNext]_pvars
  PROVE  IInv' /\ AgeInv'
<1>1. CASE UNCHANGED <<vars, age>>
  <2>1. IInv'
    BY <1>1, StutterInv
  <2>2. AgeInv'
    BY <1>1 DEF vars, AgeInv, Garbage, Reachable, Rooted, Live, In, Kids
  <2> QED BY <2>1, <2>2
<1>2. CASE (Mutator \/ CallStep \/ CallRecycle \/ Collector \/ Finish) /\ Aged
  <2>1. IInv'
    BY <1>2, NextInv DEF Next
  <2>2. CASE Swap
    BY <1>2, <2>1, <2>2, SwapAges
  <2>3. CASE ~Swap
    <3>1. KeepsOld /\ pc # "swap"
      BY <1>2, <2>3, MutatorKeepsOld, FinishKeepsOld, CollectorKeepsOld, ScanKeepsOld DEF Collector
    <3> QED BY <1>2, <2>1, <3>1, AgesKept
  <2> QED BY <2>1, <2>2, <2>3
<1> QED BY <1>1, <1>2 DEF PNext, GoQuiet, pvars

\* color_map.h:211: an object that is garbage is disposed of by the second
\* swap after it became garbage, whatever the program does in between.
THEOREM GarbageIsOldOnce == PSpec => []GarbageSurvivesOneSwap
<1>1. PInit => IInv /\ AgeInv
  <2> SUFFICES ASSUME PInit PROVE IInv /\ AgeInv
    OBVIOUS
  <2>1. IInv
    BY InitInv DEF PInit
  <2>2. Live = {}
    BY DEF PInit, Init, Live, In, LivePlaces, BulkPlaces, RootPlaces
  <2> QED BY <2>1, <2>2 DEF PInit, AgeInv, Garbage
<1>2. (IInv /\ AgeInv) /\ [PNext]_pvars => (IInv /\ AgeInv)'
  BY AgeNext
<1>3. IInv /\ AgeInv => GarbageSurvivesOneSwap
  BY DEF AgeInv, GarbageSurvivesOneSwap
<1> QED BY <1>1, <1>2, <1>3, PTL DEF PSpec
===========================================================================
