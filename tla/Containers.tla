----------------------------- MODULE Containers -----------------------------
(***************************************************************************)
(* One colour map of the C++ collector at the level of its vectors         *)
(* (color_map.h, collectible_container.h, unmanaged_collectible_           *)
(* container.h), which Allocator takes for sets.  An object knows its      *)
(* container and its position there; to leave it swaps places with the     *)
(* last element.  The containers are linked to one another, and swap()     *)
(* exchanges black and white and sets the links anew.                      *)
(*                                                                         *)
(* The objects a scanned one points to are any, since their owner writes   *)
(* them at will; the calls are those that Allocator and Object make.       *)
(***************************************************************************)
EXTENDS Naturals, Sequences, FiniteSets, Functions, SequencesExt

CONSTANTS
  Objects,
  MaxRefs    \* bound on refCount

ASSUME ContainersAssumption == IsFiniteSet(Objects)

Roles == {"white", "grey", "black", "whiteRoot", "greyRoot", "blackRoot"}
None == "none"

VARIABLES
  map,        \* the containers of a ColorMap by the member that points to them
  elements,   \* elements of a container; a container is named for its first role
  links,      \* color, otherElements and greyElements of a container
  container, index, refCount,   \* the members of an object
  disposed    \* ColorMap::disposed, a vector of vectors

containerVars == <<map, elements, links, container, index, refCount, disposed>>

IsRoot(c) == c \in {"whiteRoot", "greyRoot", "blackRoot"}
Listed == UNION {ToSet(elements[c]) : c \in Roles}
Gone == UNION {ToSet(disposed[i]) : i \in DOMAIN disposed}
Free == Objects \ (Listed \cup Gone)

\* Mutant: swap() leaves the link from the black roots to the black objects.
LinksKept(m) ==
  LET role(c) == CHOOSE r \in Roles : m[r] = c
      other(r) == CASE r = "blackRoot" -> "black"
                    [] r \in {"whiteRoot", "greyRoot"} -> m["grey"]
                    [] OTHER -> m["whiteRoot"]
      grey(r) == CASE r = "white" -> m["grey"] [] r = "whiteRoot" -> m["greyRoot"]
                   [] OTHER -> None
  IN  [c \in Roles |-> [color |-> "Black", other |-> other(role(c)), grey |-> grey(role(c))]]

\* The links ColorMap() and swap() set, for the containers m.
Links(m) ==
  LET role(c) == CHOOSE r \in Roles : m[r] = c
      other(r) == CASE r = "blackRoot" -> m["black"]
                    [] r \in {"whiteRoot", "greyRoot"} -> m["grey"]
                    [] OTHER -> m["whiteRoot"]
      grey(r) == CASE r = "white" -> m["grey"] [] r = "whiteRoot" -> m["greyRoot"]
                   [] OTHER -> None
      color(r) == CASE r \in {"white", "whiteRoot"} -> "White"
                    [] r \in {"grey", "greyRoot"} -> "Grey" [] OTHER -> "Black"
  IN  [c \in Roles |-> [color |-> color(role(c)), other |-> other(role(c)),
                        grey |-> grey(role(c))]]

ContainersInit ==
  /\ map = [r \in Roles |-> r]
  /\ elements = [c \in Roles |-> <<>>]
  /\ links = Links(map)
  /\ container = [o \in Objects |-> None] /\ index = [o \in Objects |-> 0]
  /\ refCount = [o \in Objects |-> 0]
  /\ disposed = <<>>

---------------------------------------------------------------------------
(* What a call changes: the vectors e with the members c and i of objects. *)

State == [e |-> elements, c |-> container, i |-> index]
Becomes(s) == elements' = s.e /\ container' = s.c /\ index' = s.i

\* Mutant: the element that fills the gap keeps its old index.
RemovedStale(s, o) ==
  LET c == s.c[o]
      last == Last(s.e[c])
  IN  [s EXCEPT !.e[c] = Front([@ EXCEPT ![s.i[o] + 1] = last])]

\* remove(), with the index that o itself holds.
Removed(s, o) ==
  LET c == s.c[o]
      last == Last(s.e[c])
  IN  [s EXCEPT !.e[c] = Front([@ EXCEPT ![s.i[o] + 1] = last]), !.i[last] = s.i[o]]

\* add().
Added(s, c, o) ==
  [s EXCEPT !.e[c] = Append(@, o), !.i[o] = Len(s.e[c]), !.c[o] = c]

\* move(), and the same of two calls.
Moved(s, o, c) == Added(Removed(s, o), c, o)

\* grey().
GreyedOne(s, o) == LET g == links[s.c[o]].grey IN IF g = None THEN s ELSE Moved(s, o, g)

\* Loops over a sequence of objects: greyChildren(), and add() of each.
Greyed(s, ks) ==
  LET after[n \in 0 .. Len(ks)] == IF n = 0 THEN s ELSE GreyedOne(after[n - 1], ks[n])
  IN  after[Len(ks)]
AddedAll(s, c, os) ==
  LET after[n \in 0 .. Len(os)] == IF n = 0 THEN s ELSE Added(after[n - 1], c, os[n])
  IN  after[Len(os)]

\* ColorMap::add() and addRoot() of a new object.
Add(o, r) ==
  /\ o \in Free
  /\ Becomes(Added(State, map[r], o))
  /\ refCount' = [refCount EXCEPT ![o] = 1]
  /\ UNCHANGED <<map, links, disposed>>

\* root().
Root(o) ==
  /\ o \in Listed
  /\ IF IsRoot(container[o])
     THEN /\ refCount[o] < MaxRefs
          /\ refCount' = [refCount EXCEPT ![o] = @ + 1]
          /\ UNCHANGED <<elements, container, index>>
     ELSE /\ refCount' = [refCount EXCEPT ![o] = 1]
          /\ Becomes(Moved(State, o, links[container[o]].other))
  /\ UNCHANGED <<map, links, disposed>>

\* unroot().
Unroot(o) ==
  /\ o \in Listed /\ IsRoot(container[o])
  /\ refCount' = [refCount EXCEPT ![o] = @ - 1]
  /\ IF refCount[o] = 1 THEN Becomes(Moved(State, o, links[container[o]].other))
     ELSE UNCHANGED <<elements, container, index>>
  /\ UNCHANGED <<map, links, disposed>>

\* Cell::grey() of a child that is written.
Grey(o) ==
  /\ o \in Listed
  /\ Becomes(Greyed(State, <<o>>))
  /\ UNCHANGED <<map, links, refCount, disposed>>

\* The container step() takes the last element of.
ToScan == LET full(r) == elements[map[r]] # <<>>
          IN  IF full("whiteRoot") THEN "whiteRoot" ELSE IF full("greyRoot") THEN "greyRoot"
              ELSE IF full("grey") THEN "grey" ELSE None

\* ColorMap::step(): the object is held while its children ks are greyed.
Scanned(r, ks) ==
  Moved(Greyed(State, ks), Last(elements[map[r]]),
        map[IF r = "grey" THEN "black" ELSE "blackRoot"])

\* ... and stays if greyChildren() says that there are more.
Step(ks, more) ==
  /\ ToScan # None
  /\ Becomes(IF more THEN Greyed(State, ks) ELSE Scanned(ToScan, ks))
  /\ UNCHANGED <<map, links, refCount, disposed>>

\* UnmanagedCollectibleContainer::move(): popBack() must not meet an empty vector.
Disposed(v) == IF v = <<>> THEN disposed ELSE Append(disposed, v)

\* ColorMap::swap(), under its assertions.
Swap ==
  /\ ToScan = None
  /\ LET m == [map EXCEPT !["white"] = map["black"], !["black"] = map["white"],
                          !["whiteRoot"] = map["blackRoot"], !["blackRoot"] = map["whiteRoot"]]
     IN  map' = m /\ links' = Links(m)
  /\ disposed' = Disposed(elements[map["white"]])
  /\ elements' = [elements EXCEPT ![map["white"]] = <<>>]
  /\ UNCHANGED <<container, index, refCount>>

\* What is free again holds nothing that is read.
Reset(S) ==
  /\ container' = [o \in Objects |-> IF o \in S THEN None ELSE container[o]]
  /\ index' = [o \in Objects |-> IF o \in S THEN 0 ELSE index[o]]
  /\ refCount' = [o \in Objects |-> IF o \in S THEN 0 ELSE refCount[o]]

\* popDisposed(), and the object is recycled.
PopDisposed ==
  /\ disposed # <<>>
  /\ LET v == Last(disposed) IN
       /\ disposed' = IF Len(v) = 1 THEN Front(disposed) ELSE Front(disposed) \o <<Front(v)>>
       /\ Reset({Last(v)})
  /\ UNCHANGED <<map, elements, links>>

\* Allocator::cycle(): swap(tobekept) for any subset of the bulk, in the order
\* kept of a hash set, and popDisposed() until nothing is left.
Bulk == ToSet(elements["white"]) \cup ToSet(elements["grey"]) \cup ToSet(elements["black"])
Cycle(kept) ==
  LET cleared == [c \in Roles |-> IF c = map["whiteRoot"] THEN elements[c] ELSE <<>>]
      s == AddedAll(AddedAll([State EXCEPT !.e = cleared], map["white"], kept),
                    map["whiteRoot"], elements[map["blackRoot"]] \o elements[map["greyRoot"]])
      gone == Gone \cup (Bulk \ ToSet(kept))
  IN  /\ elements' = s.e /\ disposed' = <<>>
      /\ container' = [o \in Objects |-> IF o \in gone THEN None ELSE s.c[o]]
      /\ index' = [o \in Objects |-> IF o \in gone THEN 0 ELSE s.i[o]]
      /\ refCount' = [o \in Objects |-> IF o \in gone THEN 0 ELSE refCount[o]]
      /\ UNCHANGED <<map, links>>

ContainersNext ==
  \/ \E o \in Objects : Root(o) \/ Unroot(o) \/ Grey(o)
                          \/ \E r \in {"white", "whiteRoot"} : Add(o, r)
  \/ \E ks \in BoundedSeq(Listed, 2), more \in BOOLEAN : Step(ks, more)
  \/ Swap \/ PopDisposed
  \/ \E S \in SUBSET Bulk : \E kept \in SetToSeqs(S) : Cycle(kept)

ContainersSpec == ContainersInit /\ [][ContainersNext]_containerVars

---------------------------------------------------------------------------
(* What the statistics and checks of Allocator read, for one of its maps.  *)

Colors == {"White", "Grey", "Black"}

\* The switches of forEachBulk(), forEachRoot(), size() and rootSize().
Role(color, root) ==
  CASE color = "White" -> IF root THEN "whiteRoot" ELSE "white"
    [] color = "Grey"  -> IF root THEN "greyRoot" ELSE "grey"
    [] color = "Black" -> IF root THEN "blackRoot" ELSE "black"

size(color) == Len(elements[map[Role(color, FALSE)]])
rootSize(color) == Len(elements[map[Role(color, TRUE)]])
numCollectible ==
  (rootSize("White") + rootSize("Grey") + rootSize("Black"))
    + (size("White") + size("Grey") + size("Black"))
numDisposed ==
  LET sum[n \in 0 .. Len(disposed)] == IF n = 0 THEN 0 ELSE sum[n - 1] + Len(disposed[n])
  IN  sum[Len(disposed)]

\* The objects a call visits, in its order.
forEach(color, root) == elements[map[Role(color, root)]]
forEachCollectible ==
  LET all(root) == forEach("White", root) \o forEach("Grey", root) \o forEach("Black", root)
  IN  all(TRUE) \o all(FALSE)

getColor(o) == links[container[o]].color
isRoot(o) == IsRoot(container[o])
checkIndex(o) ==
  index[o] < Len(elements[container[o]]) /\ elements[container[o]][index[o] + 1] = o

\* checkSanity(color, root), with the result of its lambda.
checkSanity(color, root) ==
  \A i \in DOMAIN forEach(color, root) :
    LET o == forEach(color, root)[i]
    IN  getColor(o) = color /\ isRoot(o) = root /\ checkIndex(o)

---------------------------------------------------------------------------
(* Properties.                                                             *)

ContainersTypeOK ==
  /\ map \in [Roles -> Roles]
  /\ elements \in [Roles -> Seq(Objects)]
  /\ container \in [Objects -> Roles \cup {None}]
  /\ index \in [Objects -> 0 .. Cardinality(Objects) - 1]
  /\ refCount \in [Objects -> 0 .. MaxRefs]
  /\ disposed \in Seq(Seq(Objects) \ {<<>>})

\* What checkSanity() of allocator.h is there to tell, and does not since it
\* drops what its lambda answers: an object has the colour of the container it
\* is visited in, and its index, which remove() relies on, is its position.
\* Every object that has been added and not been disposed of is visited once,
\* the numbers add up, and what the root containers hold has a count.
SanityHolds ==
  LET known == {o \in Objects : container[o] # None}
      visited == forEachCollectible
  IN  /\ ToSet(visited) = known \ Gone /\ Len(visited) = numCollectible
      /\ \A color \in Colors, root \in BOOLEAN : checkSanity(color, root)
      /\ numCollectible + numDisposed = Cardinality(known)
      /\ \A o \in ToSet(visited) : isRoot(o) => refCount[o] > 0

\* The vectors move objects as Allocator moves elements of its sets: between
\* two swaps an object keeps its colour or goes the way that Allocator's
\* GreyElements, OtherElements and Scanned say, a swap is Allocator's Swapped,
\* and nothing but a swap or a cycle disposes of an object.
Place(o) == IF o \in Listed THEN CHOOSE r \in Roles : map[r] = container[o]
            ELSE IF o \in Gone THEN "disposed" ELSE "void"
Sets == INSTANCE Allocator
  WITH Conses <- Objects, Arrays <- {}, Handles <- {}, Nil <- None, GarbageSteps <- 1,
       RecycleSteps <- 1, MaxSize <- 0, place <- [o \in Objects |-> Place(o)],
       cells <- [o \in Objects |-> <<>>], gcPosition <- [o \in Objects |-> 0],
       handle <- <<>>, pc <- "program", steps <- 0, budget <- 0, todo <- None
MovesAsSets ==
  [][ \/ \A o \in Objects : Place(o)' = Sets!Swapped(Place(o))
      \/ \A o \in Objects :
           \/ Place(o)' \in {Place(o), Sets!GreyElements(Place(o)), Sets!OtherElements(Place(o))}
           \/ Place(o)' = Sets!Scanned(Place(o)) /\ Place(o) # "white"
           \/ Place(o) \in {"void", "disposed"} /\ Place(o)' \in {"white", "whiteRoot", "void"}
      \/ disposed' = <<>> /\ \A o \in Objects :
           Place(o)' = IF Place(o) \in Sets!RootPlaces THEN "whiteRoot"
                       ELSE IF Place(o)' = "white" /\ o \in Bulk THEN "white" ELSE "void"
    ]_containerVars
=============================================================================
