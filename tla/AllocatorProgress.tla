------------------------- MODULE AllocatorProgress -------------------------
(***************************************************************************)
(* What the increments of Allocator achieve over a whole cycle: how long   *)
(* garbage can float, and that it is reclaimed once the program stops      *)
(* moving pointers while it still drives the collector.                    *)
(***************************************************************************)
EXTENDS Allocator

CONSTANT MaxAge      \* bound on the history variable age

ASSUME MaxAgeAssumption == MaxAge \in Nat

VARIABLES
  age,    \* history: swaps an object has survived since it became garbage
  quiet   \* the program only calls step() and recycle() from now on

pvars == <<vars, age, quiet>>

Garbage == Live \ Reachable

Aged ==
  age' = [o \in Obj |->
            IF o \notin Garbage \/ o \notin Garbage' THEN 0
            ELSE IF pc = "swap" /\ age[o] < MaxAge THEN age[o] + 1
            ELSE age[o]]

PInit == Init /\ age = [o \in Obj |-> 0] /\ quiet = FALSE

GoQuiet == ~quiet /\ quiet' = TRUE /\ UNCHANGED <<vars, age>>

PNext ==
  \/ GoQuiet
  \/ /\ (~quiet /\ Mutator) \/ CallStep \/ CallRecycle \/ Collector \/ Finish
     /\ Aged /\ UNCHANGED quiet

PSpec == PInit /\ [][PNext]_pvars

\* Each of the two calls is made again and again, because every handle that
\* is dropped and every object that is made runs step() and recycle(); and a
\* call that has begun runs to its end.
Fairness ==
  /\ SF_pvars(CallStep /\ Aged /\ UNCHANGED quiet)
  /\ SF_pvars(CallRecycle /\ Aged /\ UNCHANGED quiet)
  /\ WF_pvars((Collector \/ Finish) /\ Aged /\ UNCHANGED quiet)

LiveSpec == PSpec /\ Fairness

\* The collector is precise enough: an object that is garbage survives at
\* most the swap that ends the cycle it became garbage in (as a black or grey
\* object); the next swap (color_map.h:211) disposes of it.  A greyed object
\* left behind, or a root that turned grey without need, would float longer.
GarbageSurvivesOneSwap == \A o \in Garbage : age[o] <= 1

\* Once the program keeps its pointers still, everything it cannot reach is
\* recycled, cycles of garbage included (allocator.cpp:142).
GarbageIsRecycled ==
  \A o \in Obj : (quiet /\ o \in Garbage) ~> (place[o] = "void")
=============================================================================
