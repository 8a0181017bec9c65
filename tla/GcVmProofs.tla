----------------------------- MODULE GcVmProofs -----------------------------
(***************************************************************************)
(* Proofs about GcVm, for every set of conses, arrays and root cells: the  *)
(* invariant VmInv is inductive, no disposed object is reachable, the      *)
(* collector of the C library implements GcHeap, its statistics count what *)
(* the root cells lead to, and the simulation that drives it draws that.   *)
(***************************************************************************)
EXTENDS GcSim, ReachabilityTheorems, FiniteSetTheorems

KidsType == [Obj -> SUBSET Conses]

\* What greying and scanning do to the list of an object: its root status
\* stays, live stays live, and nothing turns white.
Marks(p, q) ==
  /\ q \in Lists
  /\ q \in RootLists <=> p \in RootLists
  /\ q \in LiveLists <=> p \in LiveLists
  /\ q \in {"white", "whiteRoot"} => p = q

\* From lists w to lists v: nobody gets a root or a life.
Follows(w, v) ==
  \A o \in Obj : /\ v[o].list \in RootLists <=> w[o].list \in RootLists
                 /\ v[o].list \in LiveLists => w[o].list \in LiveLists

\* Nothing is left to scan.
NothingLeft(w) == \A o \in Obj : w[o].list \notin {"whiteRoot", "greyRoot", "grey"}

---------------------------------------------------------------------------
(* The moves between lists.                                                *)

LEMMA MovesMark ==
  ASSUME NEW p \in Lists
  PROVE  /\ Marks(p, p) /\ Marks(p, GreyElements(p))
         /\ GreyElements(p) \notin {"white", "whiteRoot"}
         /\ GreyElements(p) \in {"black", "blackRoot"} => GreyElements(p) = p
         /\ p \in {"whiteRoot", "greyRoot", "grey"} => Marks(p, Scanned(p))
         /\ p \in LiveLists => Scanned(p) \in {"black", "blackRoot"}
  BY DEF Marks, GreyElements, Scanned, Lists, LiveLists, BulkLists, RootLists

\* lisp_cons_grey() on all objects of S.
LEMMA GreyAllMoves ==
  ASSUME NEW kids, NEW w, ListsOK(w, kids), NEW S
  PROVE  /\ GreyAll(w, S) \in [Obj -> [list : Lists, gcList : Lists]]
         /\ \A o \in Obj : /\ GreyAll(w, S)[o].gcList = GreyAll(w, S)[o].list
                           /\ Marks(w[o].list, GreyAll(w, S)[o].list)
                           /\ o \in S => GreyAll(w, S)[o].list \notin {"white", "whiteRoot"}
                           /\ GreyAll(w, S)[o].list \in {"black", "blackRoot"}
                                => w[o].list \in {"black", "blackRoot"}
                           /\ o \notin S => GreyAll(w, S)[o] = w[o]
<1> DEFINE g == GreyAll(w, S)
<1>1. \A o \in Obj : /\ w[o] \in [list : Lists, gcList : Lists]
                     /\ w[o].gcList = w[o].list /\ w[o].list \in Lists
                     /\ GreyElements(w[o].list) \in Lists
  BY MovesMark DEF ListsOK, Marks
<1>2. ASSUME NEW o \in Obj
      PROVE  /\ g[o] = w[o] \/ (o \in S /\ g[o] = At(GreyElements(w[o].list)))
             /\ o \in S => g[o] = At(GreyElements(w[o].list)) \/ GreyElements(w[o].list) = w[o].list
  BY <1>1 DEF GreyAll
<1>3. ASSUME NEW l \in Lists
      PROVE  At(l) \in [list : Lists, gcList : Lists] /\ At(l).list = l /\ At(l).gcList = l
  BY DEF At
<1>4. g \in [Obj -> [list : Lists, gcList : Lists]]
  <2>1. \A o \in Obj : g[o] \in [list : Lists, gcList : Lists]
    BY <1>1, <1>2, <1>3
  <2> QED BY <2>1 DEF GreyAll
<1>5. \A o \in Obj : g[o].list = IF o \in S THEN GreyElements(w[o].list) ELSE w[o].list
  BY <1>1, <1>2, <1>3
<1>6. \A o \in Obj : g[o].gcList = g[o].list
  BY <1>1, <1>2, <1>3
<1> HIDE DEF g
<1>7. \A o \in Obj : /\ Marks(w[o].list, g[o].list)
                     /\ o \in S => g[o].list \notin {"white", "whiteRoot"}
                     /\ g[o].list \in {"black", "blackRoot"} => w[o].list \in {"black", "blackRoot"}
  BY <1>1, <1>5, MovesMark
<1>8. \A o \in Obj \ S : g[o] = w[o]
  BY <1>2
<1> QED BY <1>4, <1>6, <1>7, <1>8 DEF g

\* Greying what cells are given keeps the lists right.
LEMMA GreyKeepsLists ==
  ASSUME NEW kids, NEW now, NEW w, NEW S \in SUBSET Obj, ListsOK(w, kids),
         \A o \in S : w[o].list \in LiveLists,
         \A o \in Obj : kids[o] \subseteq Obj /\ now[o] \subseteq kids[o] \cup S
  PROVE  ListsOK(GreyAll(w, S), now) /\ Follows(w, GreyAll(w, S)) /\ Follows(GreyAll(w, S), w)
<1> DEFINE g == GreyAll(w, S)
<1>1. /\ g \in [Obj -> [list : Lists, gcList : Lists]]
      /\ \A o \in Obj : /\ g[o].gcList = g[o].list
                        /\ Marks(w[o].list, g[o].list)
                        /\ o \in S => g[o].list \notin {"white", "whiteRoot"}
                        /\ g[o].list \in {"black", "blackRoot"} => w[o].list \in {"black", "blackRoot"}
  BY GreyAllMoves
<1> HIDE DEF g
<1>2. Closed(g, now)
  BY <1>1 DEF Closed, ListsOK, Marks
<1>3. BlackIsNotWhite(g, now)
  BY <1>1 DEF BlackIsNotWhite, ListsOK, Marks
<1> QED BY <1>1, <1>2, <1>3 DEF ListsOK, Follows, Marks, g

LEMMA GreyNothing ==
  ASSUME NEW kids, NEW w, ListsOK(w, kids)
  PROVE  GreyAll(w, {}) = w
  BY DEF GreyAll, ListsOK

\* The lists whose first element is scanned.
LEMMA NextScanFacts ==
  ASSUME NEW w, NEW K
  PROVE  /\ NextScan(w, K) \subseteq {o \in K : w[o].list \in {"whiteRoot", "greyRoot", "grey"}}
         /\ NextScan(w, K) = {} => \A o \in K : w[o].list \notin {"whiteRoot", "greyRoot", "grey"}
  BY DEF NextScan, ListOf

---------------------------------------------------------------------------
(* The steps of the collector.                                             *)

\* An object whose children are not white turns black.
LEMMA BlackenKeepsLists ==
  ASSUME NEW kids, NEW w, NEW o \in Obj, ListsOK(w, kids),
         \A x \in Obj : kids[x] \subseteq Obj,
         w[o].list \in {"whiteRoot", "greyRoot", "grey", "blackRoot", "black"},
         \A c \in kids[o] : w[c].list \notin {"white", "whiteRoot"} \/ c = o,
         NEW l \in {"black", "blackRoot"}, l \in RootLists <=> w[o].list \in RootLists
  PROVE  LET v == [w EXCEPT ![o] = At(l)]
         IN  ListsOK(v, kids) /\ Follows(w, v) /\ Follows(v, w)
<1> DEFINE v == [w EXCEPT ![o] = At(l)]
<1>1. /\ v \in [Obj -> [list : Lists, gcList : Lists]]
      /\ \A x \in Obj : v[x].gcList = v[x].list /\ v[x].list = IF x = o THEN l ELSE w[x].list
  BY DEF ListsOK, At, Lists, LiveLists, BulkLists, RootLists
<1>2. l \in LiveLists /\ w[o].list \in LiveLists /\ l \notin {"white", "whiteRoot"}
  BY DEF LiveLists, BulkLists, RootLists
<1> HIDE DEF v
<1>3. Closed(v, kids)
  BY <1>1, <1>2 DEF Closed, ListsOK
<1>4. BlackIsNotWhite(v, kids)
  BY <1>1, <1>2 DEF BlackIsNotWhite, ListsOK
<1>5. Follows(w, v) /\ Follows(v, w)
  BY <1>1, <1>2 DEF Follows
<1> QED BY <1>1, <1>3, <1>4, <1>5 DEF ListsOK, v

\* lisp_vm_gc_cons_step(): both children are greyed before the cons is black.
LEMMA ConsStepKeepsLists ==
  ASSUME NEW w, NEW v \in AfterConsStep(w), ListsOK(w, Kids), \A o \in Obj : Kids[o] \subseteq Conses
  PROVE  ListsOK(v, Kids) /\ Follows(w, v) /\ Follows(v, w)
<1>1. CASE NextScan(w, Conses) = {}
  BY <1>1 DEF AfterConsStep, Follows
<1>2. CASE NextScan(w, Conses) # {}
  <2>1. PICK o \in NextScan(w, Conses) :
          v = [GreyAll(w, Kids[o] \cap Conses) EXCEPT ![o] = At(Scanned(ListOf(w, o)))]
    BY <1>2 DEF AfterConsStep
  <2> DEFINE g == GreyAll(w, Kids[o])
  <2>2. o \in Obj /\ w[o].list \in {"whiteRoot", "greyRoot", "grey"} /\ Kids[o] \cap Conses = Kids[o]
    BY NextScanFacts DEF Obj
  <2>3. \A c \in Kids[o] : c \in Obj /\ w[c].list \in LiveLists
    BY <2>2 DEF ListsOK, Closed, LiveLists, BulkLists, RootLists, Kids
  <2>4. ListsOK(g, Kids) /\ Follows(w, g) /\ Follows(g, w)
    BY <2>3, GreyKeepsLists DEF Obj
  <2>5. /\ \A c \in Kids[o] : g[c].list \notin {"white", "whiteRoot"}
        /\ g[o].list \in {"whiteRoot", "greyRoot", "grey", "blackRoot", "black"}
        /\ g[o].list \in RootLists <=> w[o].list \in RootLists
    BY <2>2, <2>3, GreyAllMoves DEF Marks, Lists, LiveLists, BulkLists, RootLists
  <2> DEFINE l == Scanned(w[o].list)
  <2>6. l \in {"black", "blackRoot"} /\ (l \in RootLists <=> g[o].list \in RootLists)
    BY <2>5 DEF Scanned, RootLists
  <2>7. v = [g EXCEPT ![o] = At(l)]
    BY <2>1, <2>2 DEF ListOf
  <2>9. \A x \in Obj : Kids[x] \subseteq Obj
    BY DEF Kids
  <2> HIDE DEF g, l
  <2>8. ListsOK(v, Kids) /\ Follows(g, v) /\ Follows(v, g)
    BY <2>2, <2>4, <2>5, <2>6, <2>7, <2>9, BlackenKeepsLists
  <2> QED BY <2>4, <2>8 DEF Follows
<1> QED BY <1>1, <1>2

\* lisp_vm_gc_object_step(): an array holds nothing to grey.
LEMMA ObjectStepKeepsLists ==
  ASSUME TypeOK, NEW w, NEW p \in [Obj -> Nat], NEW s \in AfterObjectStep(w, p), ListsOK(w, Kids),
         \A o \in Obj : Kids[o] \subseteq Conses, \A a \in Arrays : Kids[a] = {}
  PROVE  /\ ListsOK(s.where, Kids) /\ Follows(w, s.where) /\ Follows(s.where, w)
         /\ s.gcPos \in [Obj -> Nat]
         /\ s.done => /\ NextScan(s.where, Arrays) = {}
                      /\ \A c \in Conses : s.where[c].list = w[c].list
<1>1. CASE NextScan(w, Arrays) = {}
  BY <1>1 DEF AfterObjectStep, Follows
<1>2. CASE NextScan(w, Arrays) # {}
  <2>1. PICK a \in NextScan(w, Arrays) :
          s = IF ObjectDone(p, a)
              THEN LET v == [w EXCEPT ![a] = At(Scanned(ListOf(w, a)))]
                   IN  [where |-> v, gcPos |-> p, done |-> NextScan(v, Arrays) = {}]
              ELSE [where |-> GreyAll(w, {cells[a][p[a] + 1]} \cap Conses),
                    gcPos |-> [p EXCEPT ![a] = @ + 1], done |-> FALSE]
    BY <1>2 DEF AfterObjectStep
  <2>2. /\ a \in Arrays /\ a \in Obj /\ Kids[a] = {}
        /\ w[a].list \in {"whiteRoot", "greyRoot", "grey"}
    BY NextScanFacts DEF Obj
  <2>3. CASE ObjectDone(p, a)
    <3> DEFINE l == Scanned(w[a].list)
               v == [w EXCEPT ![a] = At(l)]
    <3>1. s.where = v /\ s.gcPos = p /\ s.done = (NextScan(v, Arrays) = {})
      BY <2>1, <2>3 DEF ListOf
    <3>2. l \in {"black", "blackRoot"} /\ (l \in RootLists <=> w[a].list \in RootLists)
      BY <2>2 DEF Scanned, RootLists
    <3>3. \A x \in Obj : Kids[x] \subseteq Obj
      BY DEF Kids
    <3> HIDE DEF l
    <3>4. ListsOK(v, Kids) /\ Follows(w, v) /\ Follows(v, w)
      BY <2>2, <3>2, <3>3, BlackenKeepsLists
    <3>5. \A c \in Conses : v[c].list = w[c].list
      BY <2>2, VmAssumption DEF ListsOK, Obj
    <3> QED BY <3>1, <3>4, <3>5
  <2>4. CASE ~ObjectDone(p, a)
    <3>1. cells[a] \in Seq(Obj \cup {Nil}) /\ p[a] + 1 \in 1 .. Len(cells[a])
      BY <2>2, <2>4 DEF ObjectDone, TypeOK
    <3>2. {cells[a][p[a] + 1]} \cap Conses = {}
      BY <2>2, <3>1 DEF Kids, Range, Obj
    <3>3. s.where = w /\ s.gcPos = [p EXCEPT ![a] = @ + 1] /\ ~s.done
      BY <2>1, <2>4, <3>2, GreyNothing
    <3> QED BY <2>2, <3>3 DEF Follows
  <2> QED BY <2>3, <2>4
<1> QED BY <1>1, <1>2

\* _lisp_vm_gc_swap(), when nothing is left to scan: white is disposed of, and
\* no object that is left points there.
LEMMA SwapKeepsLists ==
  ASSUME NEW w, ListsOK(w, Kids), NothingLeft(w)
  PROVE  ListsOK(AfterSwap(w), Kids) /\ Follows(w, AfterSwap(w))
<1> DEFINE v == AfterSwap(w)
<1>1. ASSUME NEW o \in Obj
      PROVE  /\ v[o].list = IF w[o].list = "white" THEN "disposed" ELSE Swapped(w[o].list)
             /\ v[o].gcList = v[o].list
    BY DEF AfterSwap, ListOf, At, ListsOK
<1>2. \A p \in Lists \ {"white"} : Swapped(p) \in Lists
  BY DEF Swapped, Lists, LiveLists, BulkLists, RootLists
<1>3. v \in [Obj -> [list : Lists, gcList : Lists]]
  <2>1. ASSUME NEW o \in Obj PROVE v[o] \in [list : Lists, gcList : Lists]
    BY <1>2 DEF AfterSwap, ListOf, At, ListsOK, Lists
  <2> QED BY <2>1 DEF AfterSwap
<1> HIDE DEF v
<1>4. ASSUME NEW o \in Obj
      PROVE  /\ v[o].list \in LiveLists <=> w[o].list \in {"black", "blackRoot"}
             /\ v[o].list \notin {"black", "blackRoot"}
             /\ v[o].list \in RootLists <=> w[o].list \in RootLists
  <2>1. w[o].list \in Lists \ {"whiteRoot", "greyRoot", "grey"}
    BY DEF ListsOK, NothingLeft
  <2> QED BY <1>1, <2>1 DEF Swapped, Lists, LiveLists, BulkLists, RootLists
<1>5. Closed(v, Kids)
  <2> SUFFICES ASSUME NEW o \in Obj, v[o].list \in LiveLists, NEW c \in Kids[o]
               PROVE  v[c].list \in LiveLists
    BY DEF Closed
  <2>1. c \in Obj /\ w[o].list \in {"black", "blackRoot"}
    BY <1>4 DEF Kids
  <2>2. w[o].list \in LiveLists
    BY <2>1 DEF LiveLists, BulkLists, RootLists
  <2>3. w[c].list \in LiveLists /\ w[c].list # "white"
    BY <2>1, <2>2 DEF ListsOK, Closed, BlackIsNotWhite
  <2>4. w[c].list \in {"black", "blackRoot"}
    BY <2>1, <2>3 DEF NothingLeft, LiveLists, BulkLists, RootLists
  <2> QED BY <1>4, <2>1, <2>4
<1>6. BlackIsNotWhite(v, Kids)
  BY <1>4 DEF BlackIsNotWhite
<1>7. Follows(w, v)
  BY <1>4 DEF Follows, LiveLists, BulkLists, RootLists
<1> QED BY <1>1, <1>3, <1>5, <1>6, <1>7 DEF ListsOK, v

\* A step that only moves objects between lists.
Moved ==
  /\ ListsOK(where', Kids) /\ Follows(where, where') /\ gcPos' \in [Obj -> Nat]
  /\ UNCHANGED <<refCount, cells, root>>

\* It keeps the invariant.
LEMMA MovedInv ==
  ASSUME VmInv, Moved
  PROVE  VmInv'
<1> USE DEF Moved
<1>1. Kids' = Kids
  BY DEF Kids
<1>2. ListsOK(where, Kids)'
  BY <1>1
<1>3. Rooted' = Rooted /\ Live' \subseteq Live
  BY DEF Follows, Rooted, Live, In, ListOf
<1>4. TypeOK'
  BY <1>3 DEF VmInv, TypeOK, ListsOK
<1>5. RootsHeld'
  <2>1. \A r \in RootCells : root[r] # Nil => root[r] \in Obj
    BY DEF VmInv, TypeOK
  <2> QED BY <1>3, <2>1 DEF VmInv, RootsHeld, Follows, ListOf
<1> QED BY <1>1, <1>2, <1>4, <1>5 DEF VmInv

\* Reachability in a state of the collector.
LEMMA ReachableFacts ==
  ASSUME VmInv
  PROVE  /\ Rooted \subseteq Reachable /\ Reachable \subseteq Live /\ Live \subseteq Obj
         /\ \A x \in Reachable : Kids[x] \subseteq Reachable
         /\ Reachable \subseteq Rooted \cup Conses
<1>1. Kids \in [Obj -> SUBSET Obj] /\ Rooted \in SUBSET Obj /\ Live \in SUBSET Obj
  BY DEF Kids, Rooted, Live, In
<1>2. Rooted \subseteq Live
  BY DEF Rooted, Live, In, LiveLists
<1>3. ClosedUnder(Live, Kids)
  BY DEF VmInv, ListsOK, Closed, ClosedUnder, Live, In, ListOf, Kids
<1>4. Rooted \cup Conses \in SUBSET Obj /\ ClosedUnder(Rooted \cup Conses, Kids)
  BY <1>1 DEF VmInv, ClosedUnder, Obj
<1>5. Reachable \subseteq Live
  BY <1>1, <1>2, <1>3, ReachIsLeast DEF Reachable
<1>6. Reachable \subseteq Rooted \cup Conses
  BY <1>1, <1>4, ReachIsLeast DEF Reachable
<1>7. Rooted \subseteq Reachable /\ \A x \in Reachable : Kids[x] \subseteq Reachable
  BY <1>1, ReachIsClosed DEF Reachable
<1> QED BY <1>1, <1>5, <1>6, <1>7

LEMMA ConsStepMoves ==
  ASSUME VmInv, ConsStep
  PROVE  Moved
  BY ConsStepKeepsLists DEF VmInv, TypeOK, ConsStep, Moved

LEMMA ObjectStepMoves ==
  ASSUME VmInv, ObjectStep
  PROVE  Moved
<1>1. PICK s \in AfterObjectStep(where, gcPos) : where' = s.where /\ gcPos' = s.gcPos
  BY DEF ObjectStep
<1>2. gcPos \in [Obj -> Nat]
  BY DEF VmInv, TypeOK
<1>3. ListsOK(s.where, Kids) /\ Follows(where, s.where) /\ s.gcPos \in [Obj -> Nat]
  BY <1>1, <1>2, ObjectStepKeepsLists DEF VmInv
<1> QED BY <1>1, <1>3 DEF ObjectStep, Moved

\* Nothing but a step that left no cons and no array to scan may swap.
LEMMA GcStepMoves ==
  ASSUME VmInv, GcStep
  PROVE  Moved
<1>0. PICK w \in AfterConsStep(where) :
        \E s \in AfterObjectStep(w, gcPos) :
          /\ where' = IF NextScan(w, Conses) = {} /\ s.done THEN AfterSwap(s.where) ELSE s.where
          /\ gcPos' = s.gcPos
  BY DEF GcStep
<1>1. PICK s \in AfterObjectStep(w, gcPos) :
        /\ where' = IF NextScan(w, Conses) = {} /\ s.done THEN AfterSwap(s.where) ELSE s.where
        /\ gcPos' = s.gcPos
  BY <1>0
<1>2. gcPos \in [Obj -> Nat]
  BY DEF VmInv, TypeOK
<1>3. ListsOK(w, Kids) /\ Follows(where, w) /\ Follows(w, where)
  BY ConsStepKeepsLists DEF VmInv
<1>4. /\ ListsOK(s.where, Kids) /\ Follows(w, s.where) /\ s.gcPos \in [Obj -> Nat]
      /\ s.done => /\ NextScan(s.where, Arrays) = {}
                   /\ \A c \in Conses : s.where[c].list = w[c].list
  BY <1>2, <1>3, ObjectStepKeepsLists DEF VmInv
<1>5. Follows(where, s.where)
  BY <1>3, <1>4 DEF Follows
<1>6. CASE NextScan(w, Conses) = {} /\ s.done
  <2>2. NothingLeft(s.where)
    BY <1>4, <1>6, NextScanFacts DEF NothingLeft, Obj
  <2>3. ListsOK(where', Kids) /\ Follows(s.where, where')
    BY <1>1, <1>4, <1>6, <2>2, SwapKeepsLists
  <2>4. Follows(where, where')
    BY <1>5, <2>3 DEF Follows
  <2> QED BY <1>1, <1>4, <2>3, <2>4 DEF Moved, GcStep
<1>7. CASE ~(NextScan(w, Conses) = {} /\ s.done)
  BY <1>1, <1>4, <1>5, <1>7 DEF Moved, GcStep
<1> QED BY <1>6, <1>7

LEMMA GcSwapMoves ==
  ASSUME VmInv, GcSwap
  PROVE  Moved
<1>1. NothingLeft(where)
  BY NextScanFacts DEF GcSwap, Swappable, NothingLeft
<1> QED BY <1>1, SwapKeepsLists DEF VmInv, TypeOK, GcSwap, Moved

\* lisp_vm_gc_full_cycle() keeps what is reachable, and only that.
LEMMA FullCycleMoves ==
  ASSUME VmInv, FullCycle
  PROVE  Moved
<1>1. \A o \in Obj : where'[o] = IF o \in Rooted THEN At("whiteRoot")
                                ELSE IF o \in Reachable THEN At("white")
                                ELSE IF o \in Live THEN At("disposed") ELSE where[o]
  <2> SUFFICES ASSUME NEW o \in Obj, o \in Reachable \ Rooted
               PROVE  o \in Conses /\ [where[o] EXCEPT !.list = "white"] = At("white")
    BY DEF FullCycle, FullCycleAt
  <2> QED BY ReachableFacts DEF FullCycle, SurvivorsAreWhite, At
<1>2. where' \in [Obj -> [list : Lists, gcList : Lists]]
  <2>1. At("whiteRoot") \in [list : Lists, gcList : Lists] /\ At("white") \in [list : Lists, gcList : Lists]
        /\ At("disposed") \in [list : Lists, gcList : Lists]
    BY DEF At, Lists, LiveLists, BulkLists, RootLists
  <2>2. \A o \in Obj : where'[o] \in [list : Lists, gcList : Lists]
    BY <1>1, <2>1 DEF VmInv, ListsOK
  <2> QED BY <2>2 DEF FullCycle, FullCycleAt
<1>3. \A o \in Obj : where'[o].gcList = where'[o].list
  BY <1>1 DEF VmInv, ListsOK, At
<1>4. \A o \in Obj : /\ where'[o].list \in LiveLists <=> o \in Reachable
                     /\ where'[o].list \notin {"black", "blackRoot"}
                     /\ where'[o].list \in RootLists <=> where[o].list \in RootLists
  BY <1>1, ReachableFacts DEF At, Live, Rooted, In, ListOf, LiveLists, BulkLists, RootLists
<1>5. Closed(where', Kids)
  BY <1>4, ReachableFacts DEF Closed, Kids
<1>6. BlackIsNotWhite(where', Kids)
  BY <1>4 DEF BlackIsNotWhite
<1>7. Follows(where, where')
  BY <1>4, ReachableFacts DEF Follows, Live, In, ListOf
<1> QED BY <1>2, <1>3, <1>5, <1>6, <1>7 DEF ListsOK, Moved, FullCycle, FullCycleAt, VmInv, TypeOK

---------------------------------------------------------------------------
(* Recycling.                                                              *)

\* What becomes of objects that are not live does not matter.
LEMMA OnlyDeadChange ==
  ASSUME VmInv, TypeOK', root' = root, NEW S \in SUBSET (Obj \ Live),
         \A o \in Obj \ S : where'[o] = where[o] /\ cells'[o] = cells[o] /\ refCount'[o] = refCount[o],
         \A o \in S : /\ where'[o].list \notin LiveLists /\ where'[o].gcList = where'[o].list
                      /\ cells'[o] = <<>> \/ cells'[o] = <<Nil, Nil>>
  PROVE  VmInv'
<1>1. \A o \in S : Kids'[o] = {}
  BY VmAssumption DEF Kids, Range, Obj
<1>2. \A o \in Obj \ S : Kids'[o] = Kids[o]
  BY DEF Kids
<1>3. \A o \in Obj : where'[o].list \in LiveLists <=> where[o].list \in LiveLists
  BY DEF Live, In, ListOf
<1>4. Closed(where', Kids')
  BY <1>1, <1>2, <1>3 DEF VmInv, ListsOK, Closed, Kids
<1>5. BlackIsNotWhite(where', Kids')
  <2> SUFFICES ASSUME NEW o \in Obj, where'[o].list \in {"black", "blackRoot"}, NEW c \in Kids'[o]
               PROVE  where'[c].list \notin {"white", "whiteRoot"}
    BY DEF BlackIsNotWhite
  <2>1. o \notin S /\ c \in Obj /\ c \in Kids[o] /\ where[o].list \in {"black", "blackRoot"}
    BY <1>1, <1>2 DEF Kids
  <2>2. where[c].list \notin {"white", "whiteRoot"}
    BY <2>1 DEF VmInv, ListsOK, BlackIsNotWhite
  <2>3. c \in S => where'[c].list \notin LiveLists
    OBVIOUS
  <2> QED BY <2>1, <2>2, <2>3 DEF LiveLists, BulkLists, RootLists
<1>6. ListsOK(where', Kids')
  BY <1>4, <1>5 DEF VmInv, ListsOK, TypeOK
<1>7. Rooted' = Rooted
  <2>1. \A o \in S : where[o].list \notin LiveLists
    BY DEF Live, In, ListOf
  <2> QED BY <2>1 DEF Rooted, In, ListOf, LiveLists
<1>8. RootsHeld'
  <2>1. \A r \in RootCells : root[r] # Nil => root[r] \in Rooted
    BY DEF VmInv, TypeOK, RootsHeld, Rooted, In
  <2>2. Rooted \subseteq Obj \ S
    BY DEF Rooted, Live, In, ListOf, LiveLists
  <2>3. Range(root') = Range(root)
    OBVIOUS
  <2> QED BY <1>7, <2>1, <2>2, <2>3 DEF VmInv, RootsHeld, ListOf
<1>9. \A o \in Obj : Kids'[o] \subseteq Conses /\ (o \in Arrays => Kids'[o] = {})
  BY <1>1, <1>2 DEF VmInv, Obj
<1> QED BY <1>6, <1>8, <1>9 DEF VmInv, Obj

\* Disposed objects are not live.
LEMMA DisposedIsDead == In({"disposed"}) \subseteq Obj \ Live
  BY DEF In, Live, LiveLists, BulkLists, RootLists, ListOf

LEMMA RecycledInv ==
  ASSUME VmInv, NEW S \in SUBSET In({"disposed"}), Recycled(S)
  PROVE  VmInv'
<1>1. At("recycled") \in [list : Lists, gcList : Lists] /\ "recycled" \notin LiveLists
      /\ At("recycled").list = "recycled" /\ At("recycled").gcList = "recycled"
  BY DEF At, Lists, LiveLists, BulkLists, RootLists
<1>2. <<Nil, Nil>> \in Seq(Obj \cup {Nil})
  OBVIOUS
<1>3. S \subseteq Obj \ Live
  BY DisposedIsDead
<1>4. Live' \subseteq Live
  BY <1>1 DEF Recycled, Live, In, ListOf
<1>5. TypeOK'
  <2>1. where' \in [Obj -> [list : Lists, gcList : Lists]] /\ cells' \in [Obj -> Seq(Obj \cup {Nil})]
    BY <1>1, <1>2 DEF Recycled, VmInv, TypeOK
  <2>2. \A o \in Conses \cap Live' : Len(cells'[o]) = 2
    BY <1>4 DEF Recycled, VmInv, TypeOK, Obj
  <2> QED BY <2>1, <2>2 DEF Recycled, VmInv, TypeOK
<1> QED BY <1>1, <1>3, <1>5, OnlyDeadChange DEF Recycled

LEMMA RecycleNextObjectInv ==
  ASSUME VmInv, NEW o \in Obj, RecycleNextObject(o)
  PROVE  VmInv'
<1>1. At("fresh") \in [list : Lists, gcList : Lists] /\ "fresh" \notin LiveLists
      /\ At("fresh").list = "fresh" /\ At("fresh").gcList = "fresh"
  BY DEF At, Lists, LiveLists, BulkLists, RootLists
<1>2. o \in Obj \ Live /\ o \notin Conses
  BY DisposedIsDead, VmAssumption DEF RecycleNextObject, In
<1>3. TypeOK'
  <2>1. \A x \in Live' : x \in Live /\ x # o
    BY <1>1 DEF RecycleNextObject, VmInv, TypeOK, Live, In, ListOf
  <2>2. \A x \in Conses \cap Live' : Len(cells'[x]) = 2
    BY <2>1 DEF RecycleNextObject, VmInv, TypeOK, Obj
  <2> QED BY <1>1, <2>2 DEF RecycleNextObject, VmInv, TypeOK
<1>4. \A x \in Obj \ {o} : where'[x] = where[x] /\ cells'[x] = cells[x] /\ refCount'[x] = refCount[x]
  BY DEF RecycleNextObject, VmInv, TypeOK
<1>5. where'[o] = At("fresh") /\ cells'[o] = <<>> /\ root' = root
  BY DEF RecycleNextObject, VmInv, TypeOK
<1> DEFINE S == {o}
<1>6. /\ S \in SUBSET (Obj \ Live)
      /\ \A x \in Obj \ S : where'[x] = where[x] /\ cells'[x] = cells[x] /\ refCount'[x] = refCount[x]
      /\ \A x \in S : /\ where'[x].list \notin LiveLists /\ where'[x].gcList = where'[x].list
                      /\ cells'[x] = <<>> \/ cells'[x] = <<Nil, Nil>>
  BY <1>1, <1>2, <1>4, <1>5
<1> HIDE DEF S
<1> QED BY <1>3, <1>5, <1>6, OnlyDeadChange

---------------------------------------------------------------------------
(* The calls of the program.                                               *)

\* A sequence of cells with another value in one.
LEMMA OneCellReplaced ==
  ASSUME NEW T, NEW s \in Seq(T), NEW i \in 1 .. Len(s), NEW c \in T
  PROVE  /\ [s EXCEPT ![i] = c] \in Seq(T) /\ Len([s EXCEPT ![i] = c]) = Len(s)
         /\ Range([s EXCEPT ![i] = c]) \subseteq Range(s) \cup {c}
  BY DEF Range

\* A call that gives x the cells now and greys what is new in them.
LEMMA WriteInv ==
  ASSUME VmInv, NEW x \in Obj, NEW S \in SUBSET (Live \cap Conses), where' = GreyAll(where, S),
         NEW now \in Seq(Obj \cup {Nil}), cells' = [cells EXCEPT ![x] = now],
         Range(now) \cap Obj \subseteq Kids[x] \cup S,
         x \in Arrays => Range(now) \cap Obj = {},
         x \in Conses => Len(now) = Len(cells[x]),
         UNCHANGED <<refCount, gcPos, root>>
  PROVE  VmInv' /\ Live' = Live
<1>1. Kids' = [Kids EXCEPT ![x] = Range(now) \cap Obj]
  BY DEF VmInv, TypeOK, Kids
<1>2. /\ \A o \in Obj : Kids[o] \subseteq Obj /\ Kids'[o] \subseteq Kids[o] \cup S
      /\ \A o \in S : where[o].list \in LiveLists
      /\ S \in SUBSET Obj
  BY <1>1 DEF Kids, Live, In, ListOf
<1>3. ListsOK(where', Kids') /\ Follows(where, where') /\ Follows(where', where)
  BY <1>2, GreyKeepsLists DEF VmInv
<1>4. Live' = Live /\ Rooted' = Rooted
  BY <1>3 DEF Follows, Live, Rooted, In, ListOf
<1>5. TypeOK'
  <2>1. cells' \in [Obj -> Seq(Obj \cup {Nil})]
    BY DEF VmInv, TypeOK
  <2>2. \A o \in Conses \cap Live' : Len(cells'[o]) = 2
    BY <1>4 DEF VmInv, TypeOK, Obj
  <2> QED BY <1>3, <2>1, <2>2 DEF VmInv, TypeOK, ListsOK
<1>6. RootsHeld'
  <2>1. \A r \in RootCells : root[r] # Nil => root[r] \in Obj
    BY DEF VmInv, TypeOK
  <2> QED BY <1>3, <1>4, <2>1 DEF VmInv, RootsHeld, Follows, ListOf
<1>7. \A o \in Obj : Kids'[o] \subseteq Conses /\ (o \in Arrays => Kids'[o] = {})
  BY <1>1 DEF VmInv, Obj
<1> QED BY <1>3, <1>4, <1>5, <1>6, <1>7 DEF VmInv, Obj

\* What a call writes into a cell is a live cons or nothing.
LEMMA ValuesAreLive ==
  ASSUME VmInv, NEW c \in Value
  PROVE  /\ {c} \cap Obj \in SUBSET (Live \cap Conses) /\ c \in Obj \cup {Nil}
         /\ c \in Reachable \cup {Nil} /\ {Nil} \cap Obj = {}
  BY ReachableFacts, VmAssumption DEF Value, Obj

LEMMA SetChildInv ==
  ASSUME VmInv, NEW x \in Conses, NEW i \in 1 .. Len(cells[x]), NEW c \in Value, SetChild(x, i, c)
  PROVE  /\ VmInv' /\ Live' = Live
         /\ cells' = [cells EXCEPT ![x] = [cells[x] EXCEPT ![i] = c]]
<1> DEFINE now == [cells[x] EXCEPT ![i] = c]
<1>1. x \in Obj /\ x \notin Arrays /\ cells[x] \in Seq(Obj \cup {Nil})
  BY VmAssumption DEF VmInv, TypeOK, Obj
<1>2. /\ now \in Seq(Obj \cup {Nil}) /\ Len(now) = Len(cells[x])
      /\ Range(now) \cap Obj \subseteq Kids[x] \cup ({c} \cap Obj)
  <2>1. Kids[x] = Range(cells[x]) \cap Obj /\ c \in Obj \cup {Nil}
    BY <1>1, ValuesAreLive DEF Kids
  <2>2. /\ now \in Seq(Obj \cup {Nil}) /\ Len(now) = Len(cells[x])
        /\ Range(now) \subseteq Range(cells[x]) \cup {c}
    BY <1>1, <2>1, OneCellReplaced
  <2> HIDE DEF now
  <2> QED BY <2>1, <2>2
<1>3. /\ cells' = [cells EXCEPT ![x] = now] /\ where' = GreyAll(where, {c} \cap Obj)
      /\ UNCHANGED <<refCount, gcPos, root>>
  BY DEF SetChild
<1> HIDE DEF now
<1>4. VmInv' /\ Live' = Live
  BY <1>1, <1>2, <1>3, ValuesAreLive, WriteInv
<1> QED BY <1>3, <1>4 DEF now

\* Calls that change an array give it plain values.
LEMMA ArrayInv ==
  ASSUME VmInv, NEW x \in Arrays,
         AppendCell(x, Nil) \/ \E n \in 0 .. MaxSize : Shrink(x, n)
  PROVE  /\ VmInv' /\ Live' = Live /\ root' = root
         /\ \E now \in Seq({Nil}) : cells' = [cells EXCEPT ![x] = now]
<1>1. x \in Obj /\ x \notin Conses /\ cells[x] \in Seq(Obj \cup {Nil}) /\ {Nil} \cap Obj = {}
  BY VmAssumption DEF VmInv, TypeOK, Obj
<1>2. ASSUME NEW i \in 1 .. Len(cells[x])
      PROVE  cells[x][i] = Nil
  <2>1. cells[x][i] \in Obj \cup {Nil} /\ cells[x][i] \in Range(cells[x])
    BY <1>1 DEF Range
  <2>2. Range(cells[x]) \cap Obj = {}
    BY <1>1 DEF VmInv, Kids
  <2> QED BY <2>1, <2>2
<1>3. \E now \in Seq({Nil}) : cells' = [cells EXCEPT ![x] = now]
  <2>1. CASE AppendCell(x, Nil)
    <3>1. Append(cells[x], Nil) \in Seq({Nil})
      BY <1>1, <1>2
    <3> QED BY <2>1, <3>1 DEF AppendCell
  <2>2. ASSUME NEW n \in 0 .. MaxSize, Shrink(x, n)
        PROVE  \E now \in Seq({Nil}) : cells' = [cells EXCEPT ![x] = now]
    <3>1. Shrunk(cells[x], n) = [i \in 1 .. n |-> Nil]
      BY <1>1, <1>2, <2>2, VmAssumption DEF Shrink, Shrunk
    <3>2. [i \in 1 .. n |-> Nil] \in Seq({Nil})
      BY VmAssumption
    <3> QED BY <2>2, <3>1, <3>2 DEF Shrink
  <2> QED BY <2>1, <2>2
<1>4. where' = GreyAll(where, {}) /\ UNCHANGED <<refCount, gcPos, root>>
  BY <1>1, GreyNothing DEF AppendCell, Shrink, VmInv
<1>5. PICK now \in Seq({Nil}) : cells' = [cells EXCEPT ![x] = now]
  BY <1>3
<1>6. now \in Seq(Obj \cup {Nil}) /\ Range(now) \cap Obj = {}
  BY <1>1 DEF Range
<1>7. VmInv' /\ Live' = Live
  BY <1>1, <1>4, <1>5, <1>6, WriteInv
<1> QED BY <1>3, <1>4, <1>7

\* A new object of a free root cell.
LEMMA MakeInv ==
  ASSUME VmInv, NEW r \in RootCells, root[r] = Nil, NEW o \in Obj \ Live, NEW c \in Seq(Value),
         New(o, "whiteRoot", 1, c), root' = [root EXCEPT ![r] = o],
         o \in Conses => Len(c) = 2, o \in Arrays => Range(c) \subseteq {Nil}
  PROVE  VmInv' /\ Live' = Live \cup {o}
<1> DEFINE K == Range(c) \cap Obj
           g == GreyAll(where, K)
<1>1. /\ where' = [g EXCEPT ![o] = At("whiteRoot")] /\ refCount' = [refCount EXCEPT ![o] = 1]
      /\ cells' = [cells EXCEPT ![o] = c] /\ gcPos' = [gcPos EXCEPT ![o] = 0]
  BY DEF New
<1>2. K \in SUBSET (Live \cap Conses) /\ c \in Seq(Obj \cup {Nil})
  BY ReachableFacts, VmAssumption DEF Value, Range, Obj
<1>3. Kids' = [Kids EXCEPT ![o] = K]
  BY <1>1 DEF VmInv, TypeOK, Kids
<1>4. /\ \A x \in Obj : Kids[x] \subseteq Obj
      /\ \A x \in K : where[x].list \in LiveLists
      /\ K \in SUBSET Obj /\ o \notin K /\ where[o].list \notin LiveLists
  BY <1>2 DEF Kids, Live, In, ListOf
<1> HIDE DEF K
<1>5. ListsOK(g, Kids) /\ Follows(where, g) /\ Follows(g, where)
  BY <1>4, GreyKeepsLists DEF VmInv
<1>6. \A x \in K : g[x].list \notin {"white", "whiteRoot"}
  BY <1>4, GreyAllMoves DEF VmInv
<1> HIDE DEF g
<1>7. /\ where' \in [Obj -> [list : Lists, gcList : Lists]]
      /\ where'[o].list = "whiteRoot" /\ where'[o].gcList = "whiteRoot"
      /\ \A x \in Obj \ {o} : where'[x] = g[x]
  BY <1>1, <1>5 DEF ListsOK, At, Lists, LiveLists, BulkLists, RootLists
<1>8. "whiteRoot" \in LiveLists /\ "whiteRoot" \in RootLists /\ g[o].list \notin LiveLists
  BY <1>4, <1>5 DEF Follows, LiveLists, RootLists
<1>9. Closed(where', Kids')
  <2> SUFFICES ASSUME NEW x \in Obj, where'[x].list \in LiveLists, NEW k \in Kids'[x]
               PROVE  where'[k].list \in LiveLists
    BY DEF Closed
  <2>1. CASE x = o
    BY <2>1, <1>3, <1>4, <1>5, <1>7 DEF Follows, Kids
  <2>2. CASE x # o
    BY <2>2, <1>3, <1>4, <1>5, <1>7, <1>8 DEF ListsOK, Closed, Kids
  <2> QED BY <2>1, <2>2
<1>10. BlackIsNotWhite(where', Kids')
  <2> SUFFICES ASSUME NEW x \in Obj, where'[x].list \in {"black", "blackRoot"}, NEW k \in Kids'[x]
               PROVE  where'[k].list \notin {"white", "whiteRoot"}
    BY DEF BlackIsNotWhite
  <2>1. x # o /\ k \in Kids[x] /\ k \in Obj /\ g[x].list \in {"black", "blackRoot"}
    BY <1>3, <1>4, <1>7
  <2>2. g[x].list \in LiveLists
    BY <2>1 DEF LiveLists, BulkLists, RootLists
  <2>3. g[k].list \in LiveLists /\ g[k].list \notin {"white", "whiteRoot"}
    BY <2>1, <2>2, <1>5 DEF ListsOK, Closed, BlackIsNotWhite
  <2> QED BY <2>1, <2>3, <1>7, <1>8
<1>11. ListsOK(where', Kids')
  BY <1>5, <1>7, <1>9, <1>10 DEF ListsOK
<1>12. Live' = Live \cup {o} /\ Rooted' = Rooted \cup {o}
  <2>1. \A x \in Obj : /\ where'[x].list \in LiveLists <=> where[x].list \in LiveLists \/ x = o
                       /\ where'[x].list \in RootLists <=> where[x].list \in RootLists \/ x = o
    BY <1>5, <1>7, <1>8 DEF Follows
  <2> QED BY <2>1 DEF Live, Rooted, In, ListOf
<1>13. TypeOK'
  <2>1. cells' \in [Obj -> Seq(Obj \cup {Nil})] /\ refCount' \in [Obj -> Nat] /\ gcPos' \in [Obj -> Nat]
        /\ root' \in [RootCells -> Obj \cup {Nil}]
    BY <1>1, <1>2 DEF VmInv, TypeOK
  <2>2. \A x \in Conses \cap Live' : Len(cells'[x]) = 2
    BY <1>1, <1>12 DEF VmInv, TypeOK, Obj
  <2> QED BY <1>7, <2>1, <2>2 DEF TypeOK
<1>14. RootsHeld'
  <2>1. \A q \in RootCells : root[q] # Nil => root[q] \in Rooted /\ root[q] # o
    BY <1>4 DEF VmInv, TypeOK, RootsHeld, Rooted, In, ListOf, LiveLists
  <2>2. o # Nil /\ root \in [RootCells -> Obj \cup {Nil}] /\ refCount \in [Obj -> Nat]
    BY VmAssumption DEF VmInv, TypeOK, Obj
  <2>3. \A q \in RootCells : root'[q] # Nil =>
          /\ where'[root'[q]].list \in RootLists /\ refCount'[root'[q]] = 1
          /\ \A p \in RootCells : root'[p] = root'[q] => p = q
    BY <1>1, <1>7, <1>8, <1>12, <2>1, <2>2 DEF VmInv, RootsHeld, ListOf, Rooted, In
  <2>4. Rooted' \subseteq Range(root')
    <3>1. o \in Range(root')
      BY <2>2 DEF Range
    <3>2. ASSUME NEW x \in Rooted PROVE x \in Range(root')
      <4>1. PICK q \in RootCells : root[q] = x
        BY <2>2 DEF VmInv, RootsHeld, Range
      <4>2. q # r
        BY <4>1, VmAssumption DEF Rooted, In, Obj
      <4> QED BY <4>1, <4>2, <2>2 DEF Range
    <3> QED BY <1>12, <3>1, <3>2
  <2> QED BY <2>3, <2>4 DEF RootsHeld, ListOf
<1>15. \A x \in Obj : Kids'[x] \subseteq Conses /\ (x \in Arrays => Kids'[x] = {})
  BY <1>2, <1>3, VmAssumption DEF VmInv, K, Obj
<1> QED BY <1>11, <1>12, <1>13, <1>14, <1>15 DEF VmInv, Obj

\* The storage a cons is made in is nobody's.
LEMMA NextConsIsFree ==
  ASSUME NEW o, NextCons(o)
  PROVE  o \in Conses /\ o \in Obj \ Live
  BY DEF NextCons, Live, In, LiveLists, BulkLists, RootLists, Obj

\* lisp_sim_add_bulk(): the temporary is grey when it is stored.
LEMMA AddBulkInv ==
  ASSUME VmInv, NEW x \in Conses \cap Reachable, NEW i \in 1 .. Len(cells[x]), NEW o \in Conses,
         AddBulkCons(x, i, o)
  PROVE  VmInv' /\ Live' = Live \cup {o}
<1> DEFINE now == [cells[x] EXCEPT ![i] = o]
<1>1. /\ o \in Obj \ Live /\ x \in Live /\ x \in Obj /\ x # o
      /\ where[o].list \notin LiveLists /\ where[x].list \in LiveLists
  BY NextConsIsFree, ReachableFacts DEF AddBulkCons, Live, In, ListOf
<1>2. cells[x] \in Seq(Obj \cup {Nil}) /\ Len(cells[x]) = 2
  BY <1>1 DEF VmInv, TypeOK
<1>3. now \in Seq(Obj \cup {Nil}) /\ Len(now) = 2 /\ Range(now) \cap Obj \subseteq Kids[x] \cup {o}
  <2>1. Kids[x] = Range(cells[x]) \cap Obj /\ o \in Obj \cup {Nil}
    BY <1>1 DEF Kids
  <2> DEFINE was == cells[x]
  <2>2. was \in Seq(Obj \cup {Nil}) /\ i \in 1 .. Len(was) /\ Len(was) = 2
    BY <1>2
  <2>3. Kids[x] = Range(was) \cap Obj
    BY <2>1
  <2>4. now = [was EXCEPT ![i] = o]
    OBVIOUS
  <2> DEFINE T == Obj \cup {Nil}
  <2>5. was \in Seq(T) /\ o \in T
    BY <2>1, <2>2
  <2> HIDE DEF was, now, T
  <2>6. /\ [was EXCEPT ![i] = o] \in Seq(T) /\ Len([was EXCEPT ![i] = o]) = Len(was)
        /\ Range([was EXCEPT ![i] = o]) \subseteq Range(was) \cup {o}
    BY <2>2, <2>5, OneCellReplaced
  <2>7. now \in Seq(T) /\ Len(now) = Len(was) /\ Range(now) \subseteq Range(was) \cup {o}
    BY <2>4, <2>6
  <2> QED BY <2>2, <2>3, <2>7 DEF T
<1>4. /\ where' = [where EXCEPT ![o] = At("grey")] /\ refCount' = [refCount EXCEPT ![o] = 1]
      /\ cells' = [cells EXCEPT ![o] = <<Nil, Nil>>, ![x] = now]
      /\ gcPos' = gcPos /\ root' = root
  BY <1>1 DEF AddBulkCons, VmInv, TypeOK
<1> HIDE DEF now
<1>5. Range(<<Nil, Nil>>) \cap Obj = {} /\ <<Nil, Nil>> \in Seq(Obj \cup {Nil}) /\ Len(<<Nil, Nil>>) = 2
  BY VmAssumption DEF Range, Obj
<1>6. /\ \A y \in Obj \ {o, x} : Kids'[y] = Kids[y]
      /\ Kids'[o] = {} /\ Kids'[x] \subseteq Kids[x] \cup {o}
      /\ \A y \in Obj : Kids[y] \subseteq Obj
  BY <1>1, <1>3, <1>4, <1>5 DEF Kids, VmInv, TypeOK
<1>7. /\ where' \in [Obj -> [list : Lists, gcList : Lists]]
      /\ where'[o].list = "grey" /\ where'[o].gcList = "grey"
      /\ \A y \in Obj \ {o} : where'[y] = where[y]
  BY <1>1, <1>4 DEF VmInv, TypeOK, At, Lists, LiveLists, BulkLists, RootLists
<1>8. "grey" \in LiveLists /\ "grey" \notin RootLists
  BY DEF LiveLists, BulkLists, RootLists
<1>9. Closed(where', Kids')
  <2> SUFFICES ASSUME NEW y \in Obj, where'[y].list \in LiveLists, NEW k \in Kids'[y]
               PROVE  where'[k].list \in LiveLists
    BY DEF Closed
  <2>1. y # o /\ (k = o \/ k \in Kids[y])
    BY <1>6
  <2> QED BY <2>1, <1>6, <1>7, <1>8 DEF VmInv, ListsOK, Closed
<1>10. BlackIsNotWhite(where', Kids')
  <2> SUFFICES ASSUME NEW y \in Obj, where'[y].list \in {"black", "blackRoot"}, NEW k \in Kids'[y]
               PROVE  where'[k].list \notin {"white", "whiteRoot"}
    BY DEF BlackIsNotWhite
  <2>1. y # o /\ (k = o \/ k \in Kids[y])
    BY <1>6
  <2> QED BY <2>1, <1>6, <1>7 DEF VmInv, ListsOK, BlackIsNotWhite
<1>11. ListsOK(where', Kids')
  BY <1>7, <1>9, <1>10 DEF VmInv, ListsOK
<1>12. Live' = Live \cup {o} /\ Rooted' = Rooted
  <2>1. \A y \in Obj : /\ where'[y].list \in LiveLists <=> where[y].list \in LiveLists \/ y = o
                       /\ where'[y].list \in RootLists <=> where[y].list \in RootLists
    BY <1>1, <1>7, <1>8 DEF LiveLists
  <2> QED BY <2>1, <1>1 DEF Live, Rooted, In, ListOf
<1>13. TypeOK'
  <2>1. cells' \in [Obj -> Seq(Obj \cup {Nil})] /\ refCount' \in [Obj -> Nat]
    BY <1>3, <1>4, <1>5 DEF VmInv, TypeOK
  <2>2. \A y \in Conses \cap Live' : Len(cells'[y]) = 2
    BY <1>1, <1>3, <1>4, <1>5, <1>12 DEF VmInv, TypeOK, Obj
  <2> QED BY <1>4, <1>7, <2>1, <2>2 DEF VmInv, TypeOK
<1>14. RootsHeld'
  <2>1. \A q \in RootCells : root[q] # Nil => root[q] \in Rooted /\ root[q] \in Obj \ {o}
    BY <1>1 DEF VmInv, TypeOK, RootsHeld, Rooted, In, ListOf, LiveLists
  <2>2. \A q \in RootCells : root[q] # Nil => refCount'[root[q]] = refCount[root[q]]
    BY <1>4, <2>1 DEF VmInv, TypeOK
  <2> QED BY <1>4, <1>7, <1>12, <2>1, <2>2 DEF VmInv, RootsHeld, ListOf
<1>15. \A y \in Obj : Kids'[y] \subseteq Conses /\ (y \in Arrays => Kids'[y] = {})
  BY <1>6, VmAssumption DEF VmInv, Obj
<1> QED BY <1>11, <1>12, <1>13, <1>14, <1>15 DEF VmInv, Obj

\* lisp_unset() of a root cell: its object becomes one of the bulk.
LEMMA UnsetInv ==
  ASSUME VmInv, NEW r \in RootCells, Unset(r)
  PROVE  VmInv' /\ Live' = Live
<1> DEFINE o == root[r]
           l == OtherElements(where[o].list)
<1>1. /\ root[r] # Nil /\ o \in Obj /\ refCount[o] = 1 /\ where[o].list \in RootLists
      /\ \A q \in RootCells : root[q] = o => q = r
  BY DEF Unset, VmInv, TypeOK, RootsHeld, ListOf
<1>2. /\ where' = [where EXCEPT ![o] = At(l)] /\ refCount' = [refCount EXCEPT ![o] = 0]
      /\ root' = [root EXCEPT ![r] = Nil] /\ cells' = cells /\ gcPos' = gcPos
  <2>1. where[o].gcList = where[o].list
    BY <1>1 DEF VmInv, ListsOK
  <2>2. where' = [where EXCEPT ![o] = At(OtherElements(where[o].gcList))]
    BY <1>1 DEF Unset
  <2>3. refCount' = [refCount EXCEPT ![o] = 0]
    BY <1>1 DEF Unset
  <2> QED BY <2>1, <2>2, <2>3 DEF Unset
<1>3. /\ l \in LiveLists /\ l \notin RootLists /\ l \in Lists /\ l \notin {"white", "whiteRoot"}
      /\ l \in {"black", "blackRoot"} => where[o].list \in {"black", "blackRoot"}
      /\ where[o].list \in LiveLists
  BY <1>1 DEF OtherElements, Lists, LiveLists, BulkLists, RootLists
<1> HIDE DEF o, l
<1>4. /\ where' \in [Obj -> [list : Lists, gcList : Lists]]
      /\ where'[o].list = l /\ where'[o].gcList = l
      /\ \A y \in Obj \ {o} : where'[y] = where[y]
  BY <1>1, <1>2, <1>3 DEF VmInv, TypeOK, At
<1>5. Kids' = Kids /\ \A y \in Obj : Kids[y] \subseteq Obj
  BY <1>2 DEF Kids
<1>6. Closed(where', Kids)
  BY <1>3, <1>4, <1>5 DEF VmInv, ListsOK, Closed
<1>7. BlackIsNotWhite(where', Kids)
  BY <1>3, <1>4, <1>5 DEF VmInv, ListsOK, BlackIsNotWhite
<1>8. ListsOK(where', Kids')
  BY <1>4, <1>5, <1>6, <1>7 DEF VmInv, ListsOK
<1>9. Live' = Live /\ Rooted' = Rooted \ {o}
  <2>1. \A y \in Obj : /\ where'[y].list \in LiveLists <=> where[y].list \in LiveLists
                       /\ where'[y].list \in RootLists <=> where[y].list \in RootLists /\ y # o
    BY <1>3, <1>4
  <2> QED BY <2>1 DEF Live, Rooted, In, ListOf
<1>10. TypeOK'
  BY <1>2, <1>4, <1>9 DEF VmInv, TypeOK
<1>11. RootsHeld'
  <2>1. \A q \in RootCells : root'[q] # Nil => q # r /\ root'[q] = root[q] /\ root[q] # o /\ root[q] \in Obj
    BY <1>1, <1>2 DEF VmInv, TypeOK
  <2>2. \A q \in RootCells : root'[q] # Nil =>
          /\ where'[root'[q]].list \in RootLists /\ refCount'[root'[q]] = 1
          /\ \A p \in RootCells : root'[p] = root'[q] => p = q
    BY <1>2, <1>4, <2>1 DEF VmInv, TypeOK, RootsHeld, ListOf
  <2>3. ASSUME NEW x \in Rooted \ {o} PROVE x \in Range(root')
    <3>1. PICK q \in RootCells : root[q] = x
      BY DEF VmInv, TypeOK, RootsHeld, Range
    <3>2. q # r
      BY <3>1 DEF o
    <3> QED BY <3>1, <3>2, <1>2 DEF VmInv, TypeOK, Range
  <2> QED BY <1>9, <2>2, <2>3 DEF RootsHeld, ListOf
<1> QED BY <1>5, <1>8, <1>9, <1>10, <1>11 DEF VmInv

---------------------------------------------------------------------------
(* The invariant.                                                          *)

\* The collector's steps either move objects or recycle what is disposed of.
LEMMA CollectorInv ==
  ASSUME VmInv, Collector
  PROVE  VmInv'
<1>1. CASE GcStep \/ ConsStep \/ ObjectStep \/ GcSwap \/ FullCycle
  BY <1>1, GcStepMoves, ConsStepMoves, ObjectStepMoves, GcSwapMoves, FullCycleMoves, MovedInv
<1>2. CASE RecycleAllConses
  <2>1. In({"disposed"}) \cap Conses \in SUBSET In({"disposed"})
    OBVIOUS
  <2> QED BY <1>2, <2>1, RecycledInv DEF RecycleAllConses
<1>3. ASSUME NEW o \in Obj, RecycleNextCons(o) PROVE VmInv'
  <2>1. {o} \in SUBSET In({"disposed"})
    BY <1>3 DEF RecycleNextCons, In
  <2> QED BY <1>3, <2>1, RecycledInv DEF RecycleNextCons
<1>4. ASSUME NEW o \in Obj, RecycleNextObject(o) PROVE VmInv'
  BY <1>4, RecycleNextObjectInv
<1> QED BY <1>1, <1>2, <1>3, <1>4 DEF Collector

\* What lisp_make_cons() and lisp_make_array() make.
LEMMA MakesAreNew ==
  ASSUME VmInv, NEW r \in RootCells, NEW o \in Obj,
         \/ \E a, b \in Value : MakeCons(r, o, a, b)
         \/ \E n \in 0 .. MaxSize : MakeArray(r, o, n, Nil)
  PROVE  /\ VmInv' /\ Live' = Live \cup {o} /\ o \notin Live
         /\ root[r] = Nil /\ root' = [root EXCEPT ![r] = o]
         /\ \E c \in Seq(Value) : cells' = [cells EXCEPT ![o] = c]
<1>1. ASSUME NEW c \in Seq(Value), root[r] = Nil, o \notin Live, New(o, "whiteRoot", 1, c),
             root' = [root EXCEPT ![r] = o],
             o \in Conses => Len(c) = 2, o \in Arrays => Range(c) \subseteq {Nil}
      PROVE  /\ VmInv' /\ Live' = Live \cup {o} /\ o \notin Live
             /\ root[r] = Nil /\ root' = [root EXCEPT ![r] = o]
             /\ \E d \in Seq(Value) : cells' = [cells EXCEPT ![o] = d]
  BY <1>1, MakeInv DEF New
<1>2. ASSUME NEW a \in Value, NEW b \in Value, MakeCons(r, o, a, b)
      PROVE  /\ <<a, b>> \in Seq(Value) /\ Len(<<a, b>>) = 2 /\ o \notin Live /\ o \notin Arrays
             /\ root[r] = Nil /\ New(o, "whiteRoot", 1, <<a, b>>) /\ root' = [root EXCEPT ![r] = o]
  BY <1>2, NextConsIsFree, VmAssumption DEF MakeCons
<1>3. ASSUME NEW n \in 0 .. MaxSize, MakeArray(r, o, n, Nil)
      PROVE  LET c == [i \in 1 .. n |-> Nil] IN
             /\ c \in Seq(Value) /\ Range(c) \subseteq {Nil} /\ o \notin Live /\ o \notin Conses
             /\ root[r] = Nil /\ New(o, "whiteRoot", 1, c) /\ root' = [root EXCEPT ![r] = o]
  <2>1. o \notin Live
    BY <1>3 DEF MakeArray, Live, In, LiveLists, BulkLists, RootLists
  <2> QED BY <1>3, <2>1, VmAssumption DEF MakeArray, Value, Range
<1> QED BY <1>1, <1>2, <1>3

LEMMA ProgramInv ==
  ASSUME VmInv, Program
  PROVE  VmInv'
<1>1. ASSUME NEW r \in RootCells, Unset(r) PROVE VmInv'
  BY <1>1, UnsetInv
<1>2. ASSUME NEW x \in Reachable, x \in Conses, NEW i \in 1 .. Len(cells[x]),
             (\E c \in Value : SetChild(x, i, c)) \/ \E o \in Conses : AddBulkCons(x, i, o)
      PROVE  VmInv'
  BY <1>2, SetChildInv, AddBulkInv
<1>3. ASSUME NEW x \in Reachable, AppendCell(x, Nil) \/ \E n \in 0 .. MaxSize : Shrink(x, n)
      PROVE  VmInv'
  BY <1>3, ArrayInv DEF AppendCell, Shrink
<1> QED BY <1>1, <1>2, <1>3, MakesAreNew DEF Program

LEMMA InitInv == Init => VmInv
<1> SUFFICES ASSUME Init PROVE VmInv
  OBVIOUS
<1>1. /\ \A o \in Obj : where[o] = At("fresh") /\ cells[o] = <<>>
      /\ At("fresh") \in [list : Lists, gcList : Lists]
      /\ At("fresh").list = "fresh" /\ At("fresh").gcList = "fresh"
  BY DEF Init, At, Lists
<1>2. Live = {} /\ Rooted = {} /\ \A o \in Obj : Kids[o] = {}
  BY <1>1 DEF Live, Rooted, In, ListOf, Kids, Range, LiveLists, BulkLists, RootLists
<1>3. TypeOK
  BY <1>1, <1>2 DEF Init, TypeOK
<1>4. ListsOK(where, Kids)
  BY <1>1, <1>2, <1>3 DEF TypeOK, ListsOK, Closed, BlackIsNotWhite
<1>5. RootsHeld
  BY <1>2 DEF Init, RootsHeld
<1> QED BY <1>2, <1>3, <1>4, <1>5 DEF VmInv, Obj

\* The invariant of the C collector: types, every object in the list that its
\* gc_list names, live objects pointing to live ones, no white object behind
\* a black one, and one root cell with a count of 1 for every object in a root
\* list (vm.c, gc_color_map.c).
THEOREM InvariantHolds == Spec => []VmInv
<1>1. VmInv /\ [Next]_vars => VmInv'
  <2> SUFFICES ASSUME VmInv, [Next]_vars PROVE VmInv'
    OBVIOUS
  <2>1. CASE UNCHANGED vars
    <3>1. Kids' = Kids /\ Live' = Live /\ Rooted' = Rooted
      BY <2>1 DEF vars, Kids, Live, Rooted, In
    <3>2. ListsOK(where', Kids')
      BY <2>1, <3>1 DEF vars, VmInv
    <3> QED BY <2>1, <3>1, <3>2 DEF vars, VmInv, TypeOK, RootsHeld, ListOf
  <2> QED BY <2>1, CollectorInv, ProgramInv DEF Next
<1> QED BY <1>1, InitInv, PTL DEF Spec

\* No object that a root cell gets to is disposed of: "white objects are not
\* reachable -> dispose them" (vm.c:681).
THEOREM NothingReachableIsDisposed == Spec => []DisposedIsUnreachable
<1>1. VmInv => DisposedIsUnreachable
  BY ReachableFacts DEF DisposedIsUnreachable, Live, In, LiveLists, BulkLists, RootLists
<1> QED BY <1>1, InvariantHolds, PTL

\* gc_list is the list an object is linked into, which _lisp_vm_check_object_
\* list() demands and every removal relies on (vm.c:846).
THEOREM ListsAlwaysAgree == Spec => []ListsAgree
<1>1. VmInv => ListsAgree
  BY DEF VmInv, ListsOK, ListsAgree, Live, In
<1> QED BY <1>1, InvariantHolds, PTL

---------------------------------------------------------------------------
(* The collector of the C library implements GcHeap.                       *)

\* The root cells hold exactly the objects in root lists, so both heaps reach
\* the same objects.
LEMMA SameReach ==
  ASSUME VmInv
  PROVE  /\ Heap!Kids = Kids /\ Heap!Reachable = Reachable
         /\ Value \subseteq Heap!Value /\ Nil \in Value
<1>1. Heap!Kids = Kids
  BY DEF Heap!Kids, Kids, Heap!Range, Range
<1>2. Range(root) \cap Obj \subseteq Rooted
  BY VmAssumption DEF VmInv, TypeOK, RootsHeld, Range, Rooted, In, Obj
<1>3. Heap!Held = Rooted
  BY <1>2 DEF VmInv, RootsHeld, Rooted, In, Heap!Held, Heap!Range, Range
<1>4. Heap!Reachable = Reachable
  BY <1>1, <1>3 DEF Heap!Reachable, Reachable, Heap!Reach, Reach, Heap!ClosedUnder, ClosedUnder
<1> QED BY <1>1, <1>4 DEF Heap!Value, Value

\* Steps that move objects keep what is reachable, since the lists stay closed.
LEMMA MovedReclaims ==
  ASSUME VmInv, VmInv', Moved
  PROVE  Heap!Reclaim
<1>1. Rooted \subseteq Live' /\ Live' \subseteq Live /\ Live' \in SUBSET Obj
  BY DEF Moved, Follows, Rooted, Live, In, ListOf, LiveLists
<1>2. ClosedUnder(Live', Kids)
  BY DEF Moved, ListsOK, Closed, ClosedUnder, Live, In, ListOf, Kids
<1>3. Kids \in [Obj -> SUBSET Obj]
  BY DEF Kids
<1>4. Reachable \subseteq Live'
  BY <1>1, <1>2, <1>3, ReachIsLeast DEF Reachable
<1>5. cells' \in [Obj -> Seq(Obj \cup {Nil})] /\ cells' = cells /\ root' = root
  BY DEF VmInv, TypeOK, Moved
<1> QED BY <1>1, <1>4, <1>5, SameReach DEF Heap!Reclaim

\* Recycling changes no object that is in use.
LEMMA RecyclingReclaims ==
  ASSUME VmInv, VmInv', root' = root, Live' = Live, \A o \in Live : cells'[o] = cells[o]
  PROVE  Heap!Reclaim
<1>1. cells' \in [Obj -> Seq(Obj \cup {Nil})]
  BY DEF VmInv, TypeOK
<1> QED BY <1>1, SameReach, ReachableFacts DEF Heap!Reclaim

LEMMA RecyclesReclaim ==
  ASSUME VmInv, VmInv', NEW S \in SUBSET In({"disposed"}), Recycled(S)
  PROVE  Heap!Reclaim
<1>1. "recycled" \notin LiveLists /\ At("recycled").list = "recycled"
  BY DEF At, LiveLists, BulkLists, RootLists
<1>2. \A o \in S : where[o].list \notin LiveLists
  BY DisposedIsDead DEF Live, In, ListOf
<1>3. Live' = Live
  BY <1>1, <1>2 DEF Recycled, Live, In, ListOf
<1>4. \A o \in Live : cells'[o] = cells[o]
  BY <1>2 DEF Recycled, Live, In, ListOf
<1> QED BY <1>3, <1>4, RecyclingReclaims DEF Recycled

LEMMA CollectorImplements ==
  ASSUME VmInv, VmInv', Collector
  PROVE  Heap!Reclaim
<1>1. CASE GcStep \/ ConsStep \/ ObjectStep \/ GcSwap \/ FullCycle
  BY <1>1, GcStepMoves, ConsStepMoves, ObjectStepMoves, GcSwapMoves, FullCycleMoves, MovedReclaims
<1>2. CASE RecycleAllConses
  <2>1. In({"disposed"}) \cap Conses \in SUBSET In({"disposed"})
    OBVIOUS
  <2> QED BY <1>2, <2>1, RecyclesReclaim DEF RecycleAllConses
<1>3. ASSUME NEW o \in Obj, RecycleNextCons(o) PROVE Heap!Reclaim
  <2>1. {o} \in SUBSET In({"disposed"})
    BY <1>3 DEF RecycleNextCons, In
  <2> QED BY <1>3, <2>1, RecyclesReclaim DEF RecycleNextCons
<1>4. ASSUME NEW o \in Obj, RecycleNextObject(o) PROVE Heap!Reclaim
  <2>1. "fresh" \notin LiveLists /\ At("fresh").list = "fresh" /\ where[o].list \notin LiveLists
    BY <1>4 DEF RecycleNextObject, ListOf, At, LiveLists, BulkLists, RootLists
  <2>2. /\ \A x \in Obj \ {o} : where'[x] = where[x] /\ cells'[x] = cells[x]
        /\ where'[o] = At("fresh") /\ root' = root
    BY <1>4 DEF RecycleNextObject, VmInv, TypeOK
  <2>3. Live' = Live /\ \A x \in Live : cells'[x] = cells[x]
    BY <2>1, <2>2 DEF Live, In, ListOf
  <2> QED BY <2>2, <2>3, RecyclingReclaims
<1> QED BY <1>1, <1>2, <1>3, <1>4 DEF Collector

\* What a reachable object holds is what the program can name.
LEMMA CellsAreValues ==
  ASSUME VmInv, NEW x \in Reachable
  PROVE  x \in Obj /\ x \in Live /\ cells[x] \in Seq(Heap!Value)
<1>1. x \in Obj /\ x \in Live /\ cells[x] \in Seq(Obj \cup {Nil}) /\ Kids[x] \subseteq Reachable
  BY ReachableFacts DEF VmInv, TypeOK
<1>2. \A i \in 1 .. Len(cells[x]) : cells[x][i] \in Heap!Value
  <2> SUFFICES ASSUME NEW i \in 1 .. Len(cells[x]), cells[x][i] # Nil
               PROVE  cells[x][i] \in Reachable
    BY SameReach DEF Heap!Value
  <2>1. cells[x][i] \in Obj
    BY <1>1
  <2>2. cells[x][i] \in Kids[x]
    BY <1>1, <2>1 DEF Kids, Range
  <2> QED BY <1>1, <2>2
<1> QED BY <1>1, <1>2

LEMMA Writes ==
  ASSUME VmInv, NEW x \in Reachable, NEW now \in Seq(Heap!Value),
         cells' = [cells EXCEPT ![x] = now], root' = root, Live' = Live
  PROVE  Heap!Write(x)
<1>1. cells'[x] = now
  BY CellsAreValues DEF VmInv, TypeOK
<1> QED BY <1>1, SameReach DEF Heap!Write

LEMMA ProgramImplements ==
  ASSUME VmInv, VmInv', Program
  PROVE  Heap!Next
<1>1. ASSUME NEW r \in RootCells, NEW o \in Obj,
             \/ \E a, b \in Value : MakeCons(r, o, a, b)
             \/ \E n \in 0 .. MaxSize : MakeArray(r, o, n, Nil)
      PROVE  Heap!Next
  <2>1. PICK c \in Seq(Value) : cells' = [cells EXCEPT ![o] = c]
    BY <1>1, MakesAreNew
  <2>2. cells'[o] = c /\ c \in Seq(Heap!Value)
    BY <2>1, SameReach DEF VmInv, TypeOK
  <2>3. Heap!New(o, r)
    BY <1>1, <2>1, <2>2, MakesAreNew DEF Heap!New
  <2> QED BY <2>3 DEF Heap!Next
<1>2. ASSUME NEW r \in RootCells, Unset(r) PROVE Heap!Next
  <2>1. Live' = Live /\ cells' = cells /\ root' = [root EXCEPT ![r] = Nil]
    BY <1>2, UnsetInv DEF Unset
  <2> QED BY <2>1, SameReach DEF Heap!Move, Heap!Next
<1>3. ASSUME NEW x \in Reachable, x \in Conses, NEW i \in 1 .. Len(cells[x]),
             NEW c \in Value, SetChild(x, i, c)
      PROVE  Heap!Next
  <2>1. [cells[x] EXCEPT ![i] = c] \in Seq(Heap!Value)
    BY CellsAreValues, SameReach, OneCellReplaced
  <2>2. Heap!Write(x)
    BY <1>3, <2>1, SetChildInv, Writes DEF SetChild
  <2> QED BY <2>2, CellsAreValues DEF Heap!Next
<1>4. ASSUME NEW x \in Reachable, x \in Conses, NEW i \in 1 .. Len(cells[x]),
             NEW o \in Conses, AddBulkCons(x, i, o)
      PROVE  Heap!Next
  <2>1. /\ Live' = Live \cup {o} /\ o \in Obj \ Live /\ x \in Obj /\ x # o
        /\ cells' = [cells EXCEPT ![o] = <<Nil, Nil>>, ![x][i] = o] /\ root' = root
        /\ i \in DOMAIN cells[x]
    BY <1>4, AddBulkInv, NextConsIsFree, CellsAreValues DEF AddBulkCons
  <2>2. cells'[o] = <<Nil, Nil>> /\ <<Nil, Nil>> \in Seq(Heap!Value)
    <3>1. cells'[o] = <<Nil, Nil>>
      BY <2>1 DEF VmInv, TypeOK
    <3>2. Nil \in Heap!Value
      BY SameReach
    <3> QED BY <3>1, <3>2
  <2>3. Heap!NewChild(o, x)
    BY <2>1, <2>2, SameReach DEF Heap!NewChild
  <2> QED BY <2>1, <2>3 DEF Heap!Next
<1>5. ASSUME NEW x \in Reachable, AppendCell(x, Nil) \/ \E n \in 0 .. MaxSize : Shrink(x, n)
      PROVE  Heap!Next
  <2>1. x \in Arrays
    BY <1>5 DEF AppendCell, Shrink
  <2>2. PICK now \in Seq({Nil}) : cells' = [cells EXCEPT ![x] = now]
    BY <1>5, <2>1, ArrayInv
  <2>3. now \in Seq(Heap!Value)
    BY SameReach
  <2>4. Heap!Write(x)
    BY <1>5, <2>1, <2>2, <2>3, ArrayInv, Writes
  <2> QED BY <2>4, CellsAreValues DEF Heap!Next
<1> QED BY <1>1, <1>2, <1>3, <1>4, <1>5 DEF Program

\* The collector of the C library and the calls of its clients implement the
\* heap of GcHeap: storage goes back only from objects that no root cell
\* reaches (vm.c, cons.c, array.c).
THEOREM HeapIsImplemented == Spec => ImplementsHeap
<1>1. Init => Heap!Init
  <2>1. Init => Live = {}
    BY DEF Init, Live, In, ListOf, At, LiveLists, BulkLists, RootLists
  <2> QED BY <2>1 DEF Init, Heap!Init
<1>2. VmInv /\ VmInv' /\ [Next]_vars => [Heap!Next]_(Heap!vars)
  <2> SUFFICES ASSUME VmInv, VmInv', [Next]_vars PROVE [Heap!Next]_(Heap!vars)
    OBVIOUS
  <2>1. CASE UNCHANGED vars
    BY <2>1 DEF vars, Heap!vars, Live, In
  <2>2. CASE Collector
    BY <2>2, CollectorImplements DEF Heap!Next
  <2>3. CASE Program
    BY <2>3, ProgramImplements
  <2> QED BY <2>1, <2>2, <2>3 DEF Next
<1> QED BY <1>1, <1>2, InvariantHolds, PTL DEF Spec, ImplementsHeap, Heap!Spec

---------------------------------------------------------------------------
(* What the C library finds when it looks at its own heap: the walk of the *)
(* reachable iterator ends and visits what the root cells lead to, the     *)
(* statistics count that, and lisp_vm_gc_check() finds nothing.            *)

LEMMA ObjIsFinite ==
  /\ IsFiniteSet(Obj) /\ Cardinality(Obj) \in Nat
  /\ \A S \in SUBSET Obj : IsFiniteSet(S) /\ Cardinality(S) \in Nat
<1>1. IsFiniteSet(Obj)
  BY StatisticsAssumption, FS_Union DEF Obj
<1> QED BY <1>1, FS_Subset, FS_CardinalityType

LEMMA DisjointUnion ==
  ASSUME NEW S, NEW T, IsFiniteSet(S), IsFiniteSet(T), S \cap T = {}
  PROVE  IsFiniteSet(S \cup T) /\ Cardinality(S \cup T) = Cardinality(S) + Cardinality(T)
<1>1. Cardinality(S \cap T) = 0
  BY FS_EmptySet
<1>2. Cardinality(S) \in Nat /\ Cardinality(T) \in Nat
  BY FS_CardinalityType
<1>3. /\ IsFiniteSet(S \cup T)
      /\ Cardinality(S \cup T) = Cardinality(S) + Cardinality(T) - Cardinality(S \cap T)
  BY FS_Union
<1> QED BY <1>1, <1>2, <1>3

---------------------------------------------------------------------------
(* The walk over the reachable objects.                                    *)

Itr == [todo : SUBSET Obj, root : SUBSET Obj]

\* One turn of a loop over the iterator.
Turn == [itr \in Itr |-> IF itr.todo = {} THEN itr ELSE ReachableNext(cells, itr)]

\* A turn keeps this: what has been visited or is to be visited holds the
\* roots, is reachable, and the visited objects lead to nothing else.
WalkOK(itr) ==
  /\ itr \in Itr
  /\ Rooted \subseteq itr.todo \cup itr.root
  /\ itr.todo \cup itr.root \subseteq Reachable
  /\ itr.todo \cap itr.root = {}
  /\ \A x \in itr.root : Kids[x] \subseteq itr.todo \cup itr.root

LEMMA TurnFacts ==
  ASSUME VmInv, NEW itr \in Itr, WalkOK(itr)
  PROVE  /\ WalkOK(Turn[itr])
         /\ itr.todo = {} => Turn[itr] = itr
         /\ itr.todo # {} => Cardinality(Turn[itr].root) = Cardinality(itr.root) + 1
<1>1. CASE itr.todo = {}
  BY <1>1 DEF Turn
<1>2. CASE itr.todo # {}
  <2> DEFINE o == CHOOSE p \in itr.todo : TRUE
             done == itr.root \cup {o}
  <2>1. o \in itr.todo /\ o \in Obj /\ o \in Reachable /\ o \notin itr.root
    BY <1>2 DEF Itr, WalkOK
  <2>2. Children(cells, o) = Kids[o]
    BY <2>1 DEF Children, Kids
  <2>3. Turn[itr] = [todo |-> (itr.todo \cup Kids[o]) \ done, root |-> done]
    BY <1>2, <2>2 DEF Turn, ReachableNext
  <2>4. Kids[o] \subseteq Reachable /\ Kids[o] \subseteq Obj
    BY <2>1, ReachableFacts DEF Kids
  <2>5. Cardinality(done) = Cardinality(itr.root) + 1
    BY <2>1, ObjIsFinite, FS_AddElement DEF Itr
  <2> HIDE DEF o
  <2>6. Turn[itr] \in Itr
    BY <2>1, <2>3, <2>4 DEF Itr
  <2>7. WalkOK(Turn[itr])
    BY <2>1, <2>3, <2>4, <2>6 DEF WalkOK
  <2> QED BY <1>2, <2>3, <2>5, <2>7
<1> QED BY <1>1, <1>2

\* Visited unrolled: a loop of as many turns as there are objects.
LEMMA VisitedIsWalk ==
  ASSUME VmInv
  PROVE  \E f \in [0 .. Cardinality(Obj) -> Itr] :
           /\ f[0] = ReachableFirst(where)
           /\ \A n \in 1 .. Cardinality(Obj) : f[n] = Turn[f[n - 1]]
           /\ Visited(where, cells) = f[Cardinality(Obj)]
<1> DEFINE k == Cardinality(Obj)
           Walk(f) == f = [n \in 0 .. k |->
                IF n = 0 THEN ReachableFirst(where)
                ELSE LET itr == f[n - 1]
                     IN  IF itr.todo = {} THEN itr ELSE ReachableNext(cells, itr)]
<1>1. k \in Nat
  BY ObjIsFinite
<1>2. ReachableFirst(where) \in Itr
  BY DEF ReachableFirst, Itr, LinkedIn
<1>3. Turn \in [Itr -> Itr]
  <2>1. ASSUME NEW itr \in Itr, itr.todo # {}
        PROVE  ReachableNext(cells, itr) \in Itr
    BY <2>1 DEF Itr, ReachableNext, Children
  <2> QED BY <2>1 DEF Turn
<1>4. PICK f \in [0 .. k -> Itr] :
        f[0] = ReachableFirst(where) /\ \A n \in 1 .. k : f[n] = Turn[f[n - 1]]
  <2> HIDE DEF k, Walk
  <2> DEFINE x0 == ReachableFirst(where)
  <2>1. x0 \in Itr
    BY <1>2
  <2> HIDE DEF x0
  <2>2. PICK f : Iterates(f, Itr, x0, Turn, k)
    BY <1>1, <2>1, <1>3, IterationExists
  <2> QED BY <2>2 DEF x0, Iterates
<1>5. Walk(f)
  <2> HIDE DEF k
  <2>1. ASSUME NEW n \in 0 .. k, n # 0
        PROVE  f[n] = LET itr == f[n - 1]
                      IN  IF itr.todo = {} THEN itr ELSE ReachableNext(cells, itr)
    <3>1. n \in 1 .. k /\ n - 1 \in 0 .. k
      BY <1>1, <2>1
    <3> QED BY <3>1, <1>4 DEF Turn
  <2> QED BY <1>4, <2>1
<1>6. \A g : Walk(g) => g = f
  <2> SUFFICES ASSUME NEW g, Walk(g) PROVE g = f
    OBVIOUS
  <2> DEFINE S == {m \in Nat : m \in 0 .. k => g[m] = f[m]}
  <2> HIDE DEF k
  <2>1. \A n \in 0 .. k : g[n] = IF n = 0 THEN ReachableFirst(where)
                ELSE LET itr == g[n - 1]
                     IN  IF itr.todo = {} THEN itr ELSE ReachableNext(cells, itr)
    OBVIOUS
  <2>2. \A n \in 0 .. k : f[n] = IF n = 0 THEN ReachableFirst(where)
                ELSE LET itr == f[n - 1]
                     IN  IF itr.todo = {} THEN itr ELSE ReachableNext(cells, itr)
    BY <1>5
  <2>3. 0 \in S
    BY <2>1, <2>2
  <2>4. ASSUME NEW n \in Nat, n \in S
        PROVE  n + 1 \in S
    <3>1. CASE n + 1 \in 0 .. k
      <4>1. n \in 0 .. k /\ n + 1 # 0 /\ n + 1 - 1 = n
        BY <1>1, <3>1
      <4>2. g[n] = f[n]
        BY <2>4, <4>1
      <4> QED BY <2>1, <2>2, <3>1, <4>1, <4>2
    <3>2. CASE n + 1 \notin 0 .. k
      BY <3>2
    <3> QED BY <3>1, <3>2
  <2>5. Nat \subseteq S
    <3> HIDE DEF S
    <3> QED BY <2>3, <2>4, NatSetInduction
  <2>6. ASSUME NEW n \in 0 .. k
        PROVE  g[n] = f[n]
    <3>1. n \in Nat
      BY <1>1
    <3>2. n \in S
      <4> HIDE DEF S
      <4> QED BY <3>1, <2>5
    <3> QED BY <3>2
  <2>7. /\ g = [n \in 0 .. k |-> g[n]]
        /\ f = [n \in 0 .. k |-> f[n]]
    BY <1>5
  <2> QED BY <2>6, <2>7
<1>7. Visited(where, cells) = f[k]
  <2>1. (CHOOSE g : Walk(g)) = f
    <3> HIDE DEF Walk
    <3> QED BY <1>5, <1>6
  <2> QED BY <2>1 DEF Visited
<1> QED BY <1>4, <1>7

\* The walk is over when the loop ends: an object is visited in every turn
\* that finds one to visit, and there are no more objects than turns.
LEMMA VisitedIsReachable ==
  ASSUME VmInv
  PROVE  /\ Visited(where, cells).todo = {}
         /\ Visited(where, cells).root = Reachable
<1> DEFINE k == Cardinality(Obj)
<1>1. PICK f \in [0 .. k -> Itr] :
        /\ f[0] = ReachableFirst(where)
        /\ \A n \in 1 .. k : f[n] = Turn[f[n - 1]]
        /\ Visited(where, cells) = f[k]
  BY VisitedIsWalk
<1>2. k \in Nat
  BY ObjIsFinite
<1> DEFINE Counted(n) == f[n].todo = {} \/ n <= Cardinality(f[n].root)
           S == {n \in Nat : n \in 0 .. k => WalkOK(f[n]) /\ Counted(n)}
<1>3. 0 \in S
  <2>1. ReachableFirst(where) = [todo |-> Rooted, root |-> {}]
    BY DEF ReachableFirst, Rooted, In, LinkedIn, ListOf
  <2>2. WalkOK(ReachableFirst(where))
    BY <2>1, ReachableFacts DEF WalkOK, Itr
  <2>3. Cardinality(ReachableFirst(where).root) = 0
    BY <2>1, FS_EmptySet
  <2> QED BY <1>1, <2>2, <2>3
<1>4. ASSUME NEW n \in Nat, n \in S
      PROVE  n + 1 \in S
  <2> SUFFICES ASSUME n + 1 \in 0 .. k
               PROVE  WalkOK(f[n + 1]) /\ Counted(n + 1)
    OBVIOUS
  <2>1. n \in 0 .. k /\ n + 1 \in 1 .. k /\ n + 1 - 1 = n
    BY <1>2
  <2>2. f[n + 1] = Turn[f[n]] /\ f[n] \in Itr
    BY <1>1, <2>1
  <2>3. WalkOK(f[n]) /\ Counted(n)
    BY <1>4, <2>1
  <2>4. /\ WalkOK(f[n + 1])
        /\ f[n].todo = {} => f[n + 1] = f[n]
        /\ f[n].todo # {} => Cardinality(f[n + 1].root) = Cardinality(f[n].root) + 1
    BY <2>2, <2>3, TurnFacts
  <2>5. Cardinality(f[n].root) \in Nat
    BY <2>2, ObjIsFinite DEF Itr
  <2> QED BY <2>3, <2>4, <2>5
<1>5. WalkOK(f[k]) /\ Counted(k)
  <2>1. Nat \subseteq S
    <3> HIDE DEF S
    <3> QED BY <1>3, <1>4, NatSetInduction
  <2> HIDE DEF Counted
  <2> QED BY <1>2, <2>1
<1>6. f[k].todo = {}
  <2> SUFFICES ASSUME f[k].todo # {} PROVE FALSE
    OBVIOUS
  <2>1. /\ f[k].todo \subseteq Obj /\ f[k].root \subseteq Obj
        /\ f[k].todo \cap f[k].root = {}
    BY <1>5 DEF WalkOK, Itr
  <2>2. Cardinality(f[k].root) = k
    <3>1. Cardinality(f[k].root) <= k /\ Cardinality(f[k].root) \in Nat
      BY <2>1, ObjIsFinite, FS_Subset
    <3> QED BY <1>2, <1>5, <3>1
  <2>3. f[k].root = Obj
    BY <2>1, <2>2, ObjIsFinite, FS_Subset
  <2> QED BY <2>1, <2>3
<1>7. f[k].root = Reachable
  <2>1. Rooted \subseteq f[k].root /\ f[k].root \subseteq Reachable
        /\ f[k].root \in SUBSET Obj /\ ClosedUnder(f[k].root, Kids)
    BY <1>5, <1>6 DEF WalkOK, Itr, ClosedUnder
  <2>2. Kids \in [Obj -> SUBSET Obj]
    BY DEF Kids
  <2>3. Reachable \subseteq f[k].root
    BY <2>1, <2>2, ReachIsLeast DEF Reachable
  <2> QED BY <2>1, <2>3
<1> QED BY <1>1, <1>6, <1>7

---------------------------------------------------------------------------
(* The statistics and the checks.                                          *)

LEMMA HeldIsRooted == VmInv => Held = Rooted
  BY VmAssumption DEF VmInv, TypeOK, RootsHeld, Held, Range, Rooted, In, Obj

LEMMA OneOwner == VmInv => RootsOwned
<1> SUFFICES ASSUME VmInv, NEW o \in Obj
             PROVE  ListOf(where, o) \in RootLists
                      <=> Cardinality({r \in RootCells : root[r] = o}) = 1
  BY DEF RootsOwned
<1> DEFINE owners == {r \in RootCells : root[r] = o}
<1>1. o # Nil
  BY VmAssumption DEF Obj
<1>2. ASSUME ListOf(where, o) \in RootLists
      PROVE  Cardinality(owners) = 1
  <2>1. o \in Rooted
    BY <1>2 DEF Rooted, In
  <2>2. PICK r \in RootCells : root[r] = o
    BY <2>1 DEF VmInv, RootsHeld, TypeOK, Range
  <2>3. owners = {r}
    BY <1>1, <2>2 DEF VmInv, RootsHeld
  <2> QED BY <2>3, FS_Singleton
<1>3. ASSUME ListOf(where, o) \notin RootLists
      PROVE  Cardinality(owners) # 1
  <2>1. owners = {}
    BY <1>1, <1>3 DEF VmInv, RootsHeld
  <2>2. Cardinality(owners) = 0
    BY <2>1, FS_EmptySet
  <2> QED BY <2>2
<1> QED BY <1>2, <1>3

\* The statistics tell the truth at every moment of a collection: the walk of
\* lisp_gc_reachable_iterator_t ends and visits what the root cells lead to and
\* nothing else, its roots are the objects one root cell owns, and what it
\* counts is allocated (lisp_vm_gc_get_stats() in vm.c).
THEOREM StatisticsAreRight == Spec => []StatsAreRight
<1>1. VmInv => StatsAreRight
  <2> SUFFICES ASSUME VmInv PROVE StatsAreRight
    OBVIOUS
  <2>1. Reach(Held, Kids) = Reachable
    BY HeldIsRooted DEF Reachable
  <2>2. Stats(where, cells).num_root = Cardinality(Held)
    BY HeldIsRooted DEF Stats, Rooted, In, LinkedIn, ListOf
  <2>3. Reachable \subseteq LinkedIn(where, LiveLists) /\ LinkedIn(where, LiveLists) \in SUBSET Obj
    BY ReachableFacts DEF Live, In, LinkedIn, ListOf
  <2>4. Cardinality(Reachable) <= Cardinality(LinkedIn(where, LiveLists))
    BY <2>3, ObjIsFinite, FS_Subset
  <2>5. Stats(where, cells).num_reachable <= Stats(where, cells).num_allocated
    BY <2>4, VisitedIsReachable DEF Stats
  <2> QED BY <2>1, <2>2, <2>5, VisitedIsReachable, OneOwner DEF StatsAreRight
<1> QED BY <1>1, InvariantHolds, PTL

\* lisp_vm_gc_check() finds nothing, in whatever order steps and writes come:
\* no visited black object has a white child, the conses of the pages in use
\* are all in one list, and gc_list is that list (vm.c:846).
THEOREM CheckFindsNothing == Spec => []ChecksPass
<1>1. VmInv => ChecksPass
  <2> SUFFICES ASSUME VmInv PROVE ChecksPass
    OBVIOUS
  <2>1. ~Stats(where, cells).error_black_has_white_child
    <3>1. Reachable \subseteq Obj /\ \A o \in Obj : Children(cells, o) = Kids[o] /\ Kids[o] \subseteq Obj
      BY ReachableFacts DEF Children, Kids
    <3> QED BY <3>1, VisitedIsReachable DEF VmInv, ListsOK, BlackIsNotWhite, Stats
  <2>2. ~Stats(where, cells).error_lists
    BY DEF Stats, LinkedIn, VmInv, ListsOK
  <2> DEFINE in(ls) == LinkedIn(where, ls) \cap Conses
  <2>3. /\ Conses = in({"fresh"}) \cup in(LiveLists) \cup in({"recycled"}) \cup in({"disposed"})
        /\ in({"fresh"}) \cap (in(LiveLists) \cup in({"recycled"}) \cup in({"disposed"})) = {}
        /\ in(LiveLists) \cap in({"recycled"}) = {}
        /\ (in(LiveLists) \cup in({"recycled"})) \cap in({"disposed"}) = {}
    BY DEF LinkedIn, VmInv, ListsOK, Lists, LiveLists, BulkLists, RootLists, Obj
  <2>4. \A ls : in(ls) \in SUBSET Obj /\ IsFiniteSet(in(ls)) /\ Cardinality(in(ls)) \in Nat
    BY ObjIsFinite DEF LinkedIn
  <2>5. Conses \subseteq Obj /\ IsFiniteSet(Conses) /\ Cardinality(Conses) \in Nat
    BY ObjIsFinite DEF Obj
  <2>8. Cardinality(Conses) = Cardinality(in({"fresh"})) + (Cardinality(in(LiveLists))
          + Cardinality(in({"recycled"})) + Cardinality(in({"disposed"})))
    <3> DEFINE f == in({"fresh"})  l == in(LiveLists)  r == in({"recycled"})  d == in({"disposed"})
    <3>1. /\ Conses = f \cup (l \cup r \cup d) /\ f \cap (l \cup r \cup d) = {}
          /\ l \cap r = {} /\ (l \cup r) \cap d = {}
      BY <2>3
    <3>2. IsFiniteSet(f) /\ IsFiniteSet(l) /\ IsFiniteSet(r) /\ IsFiniteSet(d)
      BY <2>4
    <3> HIDE DEF f, l, r, d
    <3>3. IsFiniteSet(l \cup r) /\ Cardinality(l \cup r) = Cardinality(l) + Cardinality(r)
      BY <3>1, <3>2, DisjointUnion
    <3>4. /\ IsFiniteSet(l \cup r \cup d)
          /\ Cardinality(l \cup r \cup d) = Cardinality(l) + Cardinality(r) + Cardinality(d)
      BY <3>1, <3>2, <3>3, DisjointUnion
    <3>5. Cardinality(Conses) = Cardinality(f) + Cardinality(l \cup r \cup d)
      BY <3>1, <3>2, <3>4, DisjointUnion
    <3> QED BY <3>4, <3>5 DEF f, l, r, d
  <2> HIDE DEF in
  <2>9. Cardinality(Conses) - Cardinality(in({"fresh"}))
          = Cardinality(in(LiveLists)) + Cardinality(in({"recycled"})) + Cardinality(in({"disposed"}))
    BY <2>4, <2>5, <2>8
  <2> QED BY <2>1, <2>2, <2>9 DEF ChecksPass, CheckOK, in
<1> QED BY <1>1, InvariantHolds, PTL

---------------------------------------------------------------------------
(* The graph of the simulation is the heap.                                *)

\* The graph, said with what the root cells hold and not with the walk.
Snapshot ==
  LET nodes == Reach(Held, Kids) IN
  [ nodes  |-> {[cell |-> o, isRoot |-> o \in Held] : o \in nodes},
    edges  |-> UNION {{<<o, i, cells[o][i]>> : i \in Edges(cells, o)} : o \in nodes},
    leaves |-> UNION {{<<o, i>> : i \in Leaves(cells, o)} : o \in nodes} ]

\* The root cells in use, each once.
InUse == {r \in RootCells : root[r] # Nil}
Listed(q, S) == q \in Seq(S) /\ Range(q) = S /\ IsInjective(q)

SimInv == VmInv /\ graph = Graph(where, cells) /\ Listed(simRoot, InUse)

LEMMA GraphIsSnapshot == VmInv => Graph(where, cells) = Snapshot
<1> SUFFICES ASSUME VmInv PROVE Graph(where, cells) = Snapshot
  OBVIOUS
<1>1. Visited(where, cells).root = Reach(Held, Kids)
  BY VisitedIsReachable, HeldIsRooted DEF Reachable
<1>2. ASSUME NEW o \in Reach(Held, Kids)
      PROVE  (where[o].gcList \in RootLists) = (o \in Held)
  <2>1. o \in Obj
    BY <1>2, ReachableFacts, HeldIsRooted DEF Reachable
  <2>2. where[o].gcList = where[o].list
    BY <2>1 DEF VmInv, ListsOK
  <2>3. o \in Held <=> where[o].gcList \in RootLists
    BY <2>1, <2>2, HeldIsRooted DEF Rooted, In, ListOf
  <2> QED BY <2>3
<1>3. {[cell |-> o, isRoot |-> where[o].gcList \in RootLists] : o \in Reach(Held, Kids)}
        = {[cell |-> o, isRoot |-> o \in Held] : o \in Reach(Held, Kids)}
  BY <1>2
<1> QED BY <1>1, <1>3 DEF Graph, Snapshot

\* A step that leaves the root cells and the reachable objects alone leaves
\* the snapshot alone.
LEMMA SnapshotStays ==
  ASSUME VmInv, VmInv', root' = root, \A o \in Reachable : cells'[o] = cells[o]
  PROVE  Snapshot' = Snapshot
<1>1. Held' = Held /\ Held = Rooted
  BY HeldIsRooted DEF Held
<1>2. Kids \in [Obj -> SUBSET Obj] /\ Kids' \in [Obj -> SUBSET Obj]
  BY DEF Kids
<1>3. Held \subseteq Reachable /\ Reachable \in SUBSET Obj /\ ClosedUnder(Reachable, Kids)
  BY <1>1, ReachableFacts DEF ClosedUnder
<1>4. \A o \in Reachable : Kids'[o] = Kids[o]
  BY <1>3 DEF Kids
<1>5. Reach(Held, Kids) = Reach(Held, Kids')
  BY <1>2, <1>3, <1>4, ReachIgnoresOutside
<1>6. Reach(Held, Kids) = Reachable
  BY <1>1 DEF Reachable
<1>7. \A o \in Reachable : Edges(cells', o) = Edges(cells, o) /\ Leaves(cells', o) = Leaves(cells, o)
  BY DEF Edges, Leaves
<1> DEFINE edges(c) == UNION {{<<o, i, c[o][i]>> : i \in Edges(c, o)} : o \in Reachable}
           leaves(c) == UNION {{<<o, i>> : i \in Leaves(c, o)} : o \in Reachable}
<1>8. edges(cells') = edges(cells) /\ leaves(cells') = leaves(cells)
  BY <1>7
<1>9. Snapshot = [ nodes |-> {[cell |-> o, isRoot |-> o \in Held] : o \in Reachable},
                   edges |-> edges(cells), leaves |-> leaves(cells) ]
  BY <1>6 DEF Snapshot
<1>10. Snapshot' = [ nodes |-> {[cell |-> o, isRoot |-> o \in Held] : o \in Reachable},
                     edges |-> edges(cells'), leaves |-> leaves(cells') ]
  BY <1>1, <1>5, <1>6 DEF Snapshot
<1> QED BY <1>8, <1>9, <1>10

\* The collector does that.
LEMMA CollectorSpares ==
  ASSUME VmInv, Collector
  PROVE  root' = root /\ \A o \in Reachable : cells'[o] = cells[o]
<1>1. CASE GcStep \/ ConsStep \/ ObjectStep \/ GcSwap \/ FullCycle
  BY <1>1 DEF GcStep, ConsStep, ObjectStep, GcSwap, FullCycle, FullCycleAt
<1>2. ASSUME NEW S \in SUBSET In({"disposed"}), Recycled(S)
      PROVE  root' = root /\ \A o \in Reachable : cells'[o] = cells[o]
  BY <1>2, DisposedIsDead, ReachableFacts DEF Recycled
<1>3. CASE RecycleAllConses
  <2>1. In({"disposed"}) \cap Conses \in SUBSET In({"disposed"})
    OBVIOUS
  <2> QED BY <1>2, <1>3, <2>1 DEF RecycleAllConses
<1>4. ASSUME NEW o \in Obj, RecycleNextCons(o)
      PROVE  root' = root /\ \A x \in Reachable : cells'[x] = cells[x]
  <2>1. {o} \in SUBSET In({"disposed"})
    BY <1>4 DEF RecycleNextCons, In
  <2> QED BY <1>2, <1>4, <2>1 DEF RecycleNextCons
<1>5. ASSUME NEW o \in Obj, RecycleNextObject(o)
      PROVE  root' = root /\ \A x \in Reachable : cells'[x] = cells[x]
  <2>1. o \notin Live
    BY <1>5, DisposedIsDead DEF RecycleNextObject, In
  <2> QED BY <1>5, <2>1, ReachableFacts DEF RecycleNextObject, VmInv, TypeOK
<1> QED BY <1>1, <1>3, <1>4, <1>5 DEF Collector

\* A list of root cells with one more.
LEMMA ListedWith ==
  ASSUME NEW S, NEW q, Listed(q, S), NEW r, r \notin S
  PROVE  Listed(Append(q, r), S \cup {r})
<1> DEFINE p == Append(q, r)
<1>1. q \in Seq(S \cup {r}) /\ r \in S \cup {r} /\ Len(q) \in Nat
  BY DEF Listed
<1>2. /\ p \in Seq(S \cup {r}) /\ Len(p) = Len(q) + 1 /\ p[Len(q) + 1] = r
      /\ \A i \in 1 .. Len(q) : p[i] = q[i]
  BY <1>1, AppendFacts
<1> HIDE DEF p
<1>3. DOMAIN p = 1 .. Len(q) + 1 /\ DOMAIN q = 1 .. Len(q)
  BY <1>1, <1>2
<1>4. \A i \in 1 .. Len(q) : q[i] \in S
  BY DEF Listed
<1>5. IsInjective(p)
  <2> SUFFICES ASSUME NEW i \in 1 .. Len(q) + 1, NEW j \in 1 .. Len(q) + 1, p[i] = p[j]
               PROVE  i = j
    BY <1>3 DEF IsInjective
  <2>1. CASE i \in 1 .. Len(q) /\ j \in 1 .. Len(q)
    BY <1>2, <1>3, <2>1 DEF Listed, IsInjective
  <2>2. CASE i = Len(q) + 1 /\ j # Len(q) + 1
    <3>1. j \in 1 .. Len(q)
      BY <1>1, <2>2
    <3> QED BY <1>2, <1>4, <2>2, <3>1
  <2>3. CASE j = Len(q) + 1 /\ i # Len(q) + 1
    <3>1. i \in 1 .. Len(q)
      BY <1>1, <2>3
    <3> QED BY <1>2, <1>4, <2>3, <3>1
  <2> QED BY <1>1, <2>1, <2>2, <2>3
<1>6. \A x \in S : \E i \in 1 .. Len(q) + 1 : p[i] = x
  <2> SUFFICES ASSUME NEW x \in S PROVE \E i \in 1 .. Len(q) + 1 : p[i] = x
    OBVIOUS
  <2>1. PICK i \in 1 .. Len(q) : q[i] = x
    BY <1>3 DEF Listed, Range
  <2>2. i \in 1 .. Len(q) + 1 /\ p[i] = x
    BY <1>1, <1>2, <2>1
  <2> QED BY <2>2
<1>7. Len(q) + 1 \in 1 .. Len(q) + 1 /\ p[Len(q) + 1] = r
  BY <1>1, <1>2
<1>8. \A i \in 1 .. Len(q) + 1 : p[i] \in S \cup {r}
  BY <1>2
<1>9. Range(p) = S \cup {r}
  BY <1>3, <1>6, <1>7, <1>8 DEF Range
<1> QED BY <1>2, <1>5, <1>9 DEF Listed, p

\* A list of root cells whose last takes the place of another.
LEMMA ListedWithout ==
  ASSUME NEW S, NEW q, Listed(q, S), NEW k \in 1 .. Len(q)
  PROVE  Listed(SubSeq([q EXCEPT ![k] = q[Len(q)]], 1, Len(q) - 1), S \ {q[k]})
<1> DEFINE n == Len(q)  p == [q EXCEPT ![k] = q[n]]  m == SubSeq(p, 1, Len(p) - 1)
<1>1. /\ q \in Seq(S) /\ n \in Nat \ {0} /\ DOMAIN q = 1 .. n /\ k \in 1 .. n
      /\ \A i \in 1 .. n : q[i] \in S
  BY DEF Listed
<1>2. p \in Seq(S) /\ Len(p) = n /\ p[k] = q[n] /\ \A i \in 1 .. n : i # k => p[i] = q[i]
  BY <1>1
<1>3. \A i \in 1 .. n : \A j \in 1 .. n : q[i] = q[j] => i = j
  BY <1>1 DEF Listed, IsInjective
<1> HIDE DEF p, n
<1>4. p # <<>>
  BY <1>1, <1>2
<1>5. m \in Seq(S) /\ Len(m) = n - 1 /\ \A i \in 1 .. n - 1 : m[i] = p[i]
  BY <1>2, <1>4, FrontFacts
<1> HIDE DEF m
<1>6. \A i \in 1 .. n - 1 : i \in 1 .. n /\ n \in 1 .. n /\ m[i] = IF i = k THEN q[n] ELSE q[i]
  BY <1>1, <1>2, <1>5
<1>7. DOMAIN m = 1 .. n - 1
  BY <1>1, <1>5
<1>8. \A i \in 1 .. n - 1 : m[i] \in S \ {q[k]}
  BY <1>1, <1>3, <1>6
<1>9. m \in Seq(S \ {q[k]})
  BY <1>5, <1>7, <1>8
<1>10. IsInjective(m)
  <2> SUFFICES ASSUME NEW i \in 1 .. n - 1, NEW j \in 1 .. n - 1, m[i] = m[j]
               PROVE  i = j
    BY <1>7 DEF IsInjective
  <2> QED BY <1>1, <1>3, <1>6
<1>11. ASSUME NEW x \in S \ {q[k]}
       PROVE  \E i \in 1 .. n - 1 : m[i] = x
  <2>1. PICK i \in 1 .. n : q[i] = x
    BY <1>1 DEF Listed, Range
  <2>2. i # k
    BY <2>1
  <2>3. CASE i = n
    <3>1. k \in 1 .. n - 1 /\ m[k] = x
      BY <1>1, <1>6, <2>1, <2>2, <2>3
    <3> QED BY <3>1
  <2>4. CASE i # n
    <3>1. i \in 1 .. n - 1 /\ m[i] = x
      BY <1>1, <1>6, <2>1, <2>2, <2>4
    <3> QED BY <3>1
  <2> QED BY <2>3, <2>4
<1>12. Range(m) = S \ {q[k]}
  BY <1>7, <1>8, <1>11 DEF Range
<1>13. Listed(m, S \ {q[k]})
  BY <1>9, <1>10, <1>12 DEF Listed
<1> QED BY <1>2, <1>13 DEF m, p, n

\* A call of the simulation is a call of the program, and keeps the list of
\* root cells.
LEMMA SimCallsAreCalls ==
  ASSUME VmInv, Listed(simRoot, InUse), SimCalls
  PROVE  VmInv' /\ graph' = Graph(where', cells') /\ Listed(simRoot', InUse')
<1>1. ASSUME NEW r \in RootCells, NEW o \in Obj, NEW n \in {0, 2}, AddRoot(r, o, n)
      PROVE  VmInv' /\ graph' = Graph(where', cells') /\ Listed(simRoot', InUse')
  <2>1. \/ \E a, b \in Value : MakeCons(r, o, a, b)
        \/ \E i \in 0 .. MaxSize : MakeArray(r, o, i, Nil)
    <3>1. Nil \in Value /\ (n # 2 => n = 0) /\ 0 \in 0 .. MaxSize
      BY VmAssumption DEF Value
    <3> QED BY <1>1, <3>1 DEF AddRoot
  <2>2. VmInv' /\ root[r] = Nil /\ root' = [root EXCEPT ![r] = o]
    BY <2>1, MakesAreNew
  <2>3. InUse' = InUse \cup {r} /\ r \notin InUse
    BY <2>2, VmAssumption DEF InUse, VmInv, TypeOK, Obj
  <2>4. simRoot' = Append(simRoot, r) /\ graph' = Graph(where', cells')
    BY <1>1 DEF AddRoot, Refresh
  <2> QED BY <2>2, <2>3, <2>4, ListedWith
<1>2. ASSUME NEW r \in RootCells, Unroot(r)
      PROVE  VmInv' /\ graph' = Graph(where', cells') /\ Listed(simRoot', InUse')
  <2> DEFINE n == Len(simRoot)
             k == CHOOSE i \in 1 .. n : simRoot[i] = r
  <2>1. VmInv' /\ root[r] # Nil /\ root' = [root EXCEPT ![r] = Nil]
    BY <1>2, UnsetInv DEF Unroot, Unset
  <2>2. InUse' = InUse \ {r} /\ r \in InUse
    BY <2>1 DEF InUse, VmInv, TypeOK
  <2>3. \E i \in 1 .. n : simRoot[i] = r
    <3>1. DOMAIN simRoot = 1 .. n
      BY DEF Listed
    <3> QED BY <2>2, <3>1 DEF Listed, Range
  <2>4. k \in 1 .. n /\ simRoot[k] = r
    BY <2>3
  <2>5. simRoot' = SubSeq([simRoot EXCEPT ![k] = simRoot[n]], 1, n - 1) /\ graph' = Graph(where', cells')
    BY <1>2 DEF Unroot, Refresh
  <2> HIDE DEF k
  <2>6. Listed(SubSeq([simRoot EXCEPT ![k] = simRoot[n]], 1, n - 1), InUse \ {r})
    BY <2>4, ListedWithout
  <2> QED BY <2>1, <2>2, <2>5, <2>6
<1>3. ASSUME NEW x \in Reachable \cap Conses, NEW i \in 1 .. 2,
             \/ \E c \in Value \ {Nil} : AddEdge(x, i, c)
             \/ \E o \in Conses : AddBulk(x, i, o)
             \/ RemoveEdge(x, i)
      PROVE  VmInv' /\ graph' = Graph(where', cells') /\ Listed(simRoot', InUse')
  <2>1. x \in Obj /\ x \in Reachable /\ x \in Conses /\ DOMAIN cells[x] = 1 .. Len(cells[x]) /\ Nil \in Value
    BY ReachableFacts DEF VmInv, TypeOK, Value
  <2>2. CASE \E c \in Value : SetChild(x, i, c) /\ Refresh /\ UNCHANGED simRoot
    <3>1. VmInv' /\ root' = root
      BY <2>1, <2>2, SetChildInv DEF SetChild
    <3> QED BY <2>2, <3>1 DEF Refresh, InUse
  <2>3. CASE \E o \in Conses : AddBulk(x, i, o)
    <3>1. VmInv' /\ root' = root
      BY <2>1, <2>3, AddBulkInv DEF AddBulk, AddBulkCons
    <3> QED BY <2>3, <3>1 DEF AddBulk, Refresh, InUse
  <2> QED BY <1>3, <2>1, <2>2, <2>3 DEF AddEdge, RemoveEdge
<1> QED BY <1>1, <1>2, <1>3 DEF SimCalls

\* The simulation keeps the invariant of the collector it drives, its graph is
\* the one a fresh walk would give, and its root array lists the root cells in
\* use (lisp_sim_refresh_graph(), gc_sim.c).
THEOREM SimInvHolds == SimSpec => []SimInv
<1>1. SimInit => SimInv
  <2> SUFFICES ASSUME SimInit PROVE SimInv
    OBVIOUS
  <2>1. VmInv
    BY InitInv DEF SimInit
  <2>2. InUse = {} /\ Held = {}
    BY VmAssumption DEF SimInit, Init, InUse, Held, Range, Obj
  <2>3. Listed(simRoot, InUse)
    BY <2>2 DEF SimInit, Listed, IsInjective, Range
  <2>4. Reach(Held, Kids) = {}
    <3>1. Kids \in [Obj -> SUBSET Obj] /\ {} \in SUBSET Obj /\ ClosedUnder({}, Kids)
      BY DEF Kids, ClosedUnder
    <3>2. Reach({}, Kids) \subseteq {}
      BY <3>1, ReachIsLeast
    <3> QED BY <2>2, <3>2
  <2>5. Snapshot = [nodes |-> {}, edges |-> {}, leaves |-> {}]
    BY <2>4 DEF Snapshot
  <2> QED BY <2>1, <2>3, <2>5, GraphIsSnapshot DEF SimInit, SimInv
<1>2. SimInv /\ [SimNext]_simVars => SimInv'
  <2> SUFFICES ASSUME SimInv, [SimNext]_simVars PROVE SimInv'
    OBVIOUS
  <2>1. CASE UNCHANGED simVars
    <3>1. VmInv'
      <4>1. Kids' = Kids /\ Live' = Live /\ Rooted' = Rooted
        BY <2>1 DEF simVars, Kids, Live, Rooted, In
      <4>2. ListsOK(where', Kids')
        BY <2>1, <4>1 DEF simVars, VmInv, SimInv
      <4> QED BY <2>1, <4>1, <4>2 DEF simVars, SimInv, VmInv, TypeOK, RootsHeld, ListOf
    <3>2. InUse' = InUse /\ simRoot' = simRoot /\ graph' = graph /\ where' = where /\ cells' = cells
      BY <2>1 DEF simVars, InUse
    <3> QED BY <3>1, <3>2 DEF SimInv
  <2>2. CASE SimCalls
    BY <2>2, SimCallsAreCalls DEF SimInv
  <2>3. CASE Collector /\ UNCHANGED <<simRoot, graph>>
    <3>1. VmInv' /\ VmInv /\ root' = root
      BY <2>3, CollectorInv, CollectorSpares DEF SimInv
    <3>2. Snapshot' = Snapshot
      BY <2>3, <3>1, CollectorSpares, SnapshotStays
    <3>3. Graph(where, cells) = Snapshot
      BY <3>1, GraphIsSnapshot
    <3>4. Graph(where', cells') = Snapshot'
      <4>1. (VmInv => Graph(where, cells) = Snapshot)'
        BY GraphIsSnapshot, PTL
      <4> QED BY <3>1, <4>1
    <3>5. InUse' = InUse
      BY <3>1 DEF InUse
    <3> QED BY <2>3, <3>1, <3>2, <3>3, <3>4, <3>5 DEF SimInv
  <2> QED BY <2>1, <2>2, <2>3 DEF SimNext
<1> QED BY <1>1, <1>2, PTL DEF SimSpec

\* The graph the simulation of the C library draws is the heap its root cells
\* lead to at every moment, also while a collection is half done: no node has
\* been collected and every cell of a node is an edge or a leaf as it is now
\* (check_gc_sim() of the unit tests).
THEOREM SimulationIsCurrent == SimSpec => []GraphIsCurrent
<1>1. SimInv => GraphIsCurrent
  <2> SUFFICES ASSUME SimInv PROVE GraphIsCurrent
    OBVIOUS
  <2>1. VmInv /\ graph = Snapshot
    BY GraphIsSnapshot DEF SimInv
  <2> DEFINE nodes == Reach(Held, Kids)
  <2>2. /\ nodes = Reachable /\ nodes \subseteq Live /\ nodes \subseteq Obj
        /\ \A o \in nodes : Kids[o] \subseteq nodes
    BY <2>1, HeldIsRooted, ReachableFacts DEF Reachable
  <2>3. /\ graph.nodes = {[cell |-> o, isRoot |-> o \in Held] : o \in nodes}
        /\ graph.edges = UNION {{<<o, i, cells[o][i]>> : i \in Edges(cells, o)} : o \in nodes}
        /\ graph.leaves = UNION {{<<o, i>> : i \in Leaves(cells, o)} : o \in nodes}
    BY <2>1 DEF Snapshot
  <2> HIDE DEF nodes
  <2> DEFINE node(o) == [cell |-> o, isRoot |-> o \in Held]
  <2>11. /\ graph.nodes = {node(o) : o \in nodes}
         /\ \A o \in nodes : node(o).cell = o
    BY <2>3
  <2>5. \A n \in graph.nodes : n.isRoot <=> n.cell \in Held
    <3> SUFFICES ASSUME NEW n \in graph.nodes PROVE n.isRoot <=> n.cell \in Held
      OBVIOUS
    <3>1. PICK o \in nodes : n = [cell |-> o, isRoot |-> o \in Held]
      BY <2>11
    <3>2. n.isRoot = (o \in Held) /\ n.cell = o
      BY <3>1
    <3> QED BY <3>2
  <2> HIDE DEF node
  <2>4. {n.cell : n \in graph.nodes} = nodes
    BY <2>11
  <2>6. ASSUME NEW o \in nodes, NEW i \in Edges(cells, o)
        PROVE  cells[o][i] \in nodes
    <3>1. cells[o][i] \in Kids[o]
      BY <2>2, <2>6 DEF Edges, Kids, Range
    <3> QED BY <2>2, <3>1
  <2>7. \A e \in graph.edges : e[3] \in nodes /\ cells[e[1]][e[2]] = e[3]
    BY <2>3, <2>6
  <2>8. \A l \in graph.leaves : cells[l[1]][l[2]] \notin Obj
    BY <2>3 DEF Leaves, Edges
  <2>9. {<<e[1], e[2]>> : e \in graph.edges} \cup graph.leaves = CellsOf(nodes)
    <3> DEFINE edge(o, i) == <<o, i, cells[o][i]>>
    <3>3. /\ \A o \in nodes : \A i \in Edges(cells, o) : edge(o, i) \in graph.edges
          /\ \A e \in graph.edges : \E o \in nodes : \E i \in Edges(cells, o) : e = edge(o, i)
      BY <2>3
    <3>4. \A o, i : edge(o, i)[1] = o /\ edge(o, i)[2] = i
      OBVIOUS
    <3> HIDE DEF edge
    <3>1. {<<e[1], e[2]>> : e \in graph.edges} = UNION {{<<o, i>> : i \in Edges(cells, o)} : o \in nodes}
      <4>1. ASSUME NEW e \in graph.edges
            PROVE  <<e[1], e[2]>> \in UNION {{<<o, i>> : i \in Edges(cells, o)} : o \in nodes}
        <5>1. PICK o \in nodes : \E i \in Edges(cells, o) : e = edge(o, i)
          BY <3>3
        <5>2. PICK i \in Edges(cells, o) : e = edge(o, i)
          BY <5>1
        <5>3. e[1] = o /\ e[2] = i
          BY <3>4, <5>2
        <5> QED BY <5>3
      <4>2. ASSUME NEW o \in nodes, NEW i \in Edges(cells, o)
            PROVE  <<o, i>> \in {<<e[1], e[2]>> : e \in graph.edges}
        <5>1. edge(o, i) \in graph.edges /\ edge(o, i)[1] = o /\ edge(o, i)[2] = i
          BY <3>3, <3>4
        <5> QED BY <5>1
      <4> QED BY <4>1, <4>2
    <3>2. \A o \in nodes : Edges(cells, o) \cup Leaves(cells, o) = DOMAIN cells[o]
      BY DEF Edges, Leaves
    <3> QED BY <2>3, <3>1, <3>2 DEF CellsOf
  <2>10. Range(simRoot) = {r \in RootCells : root[r] # Nil} /\ IsInjective(simRoot)
    BY DEF SimInv, Listed, InUse
  <2> QED BY <2>2, <2>4, <2>5, <2>7, <2>8, <2>9, <2>10 DEF GraphIsCurrent, nodes
<1> QED BY <1>1, SimInvHolds, PTL
===========================================================================
