--------------------------- MODULE GcStatistics ---------------------------
(***************************************************************************)
(* How the C library looks at its own heap: the iterators over the children*)
(* of an object, over all objects and over the reachable ones, and the     *)
(* statistics and checks vm.c makes with them.  They only read, so they    *)
(* are expressions in w (where) and c (cells) of GcVm.                     *)
(***************************************************************************)
EXTENDS GcVm, FiniteSetsExt

ASSUME StatisticsAssumption == IsFiniteSet(Conses) /\ IsFiniteSet(Arrays)

\* The objects in a list of lisp_vm_t.
Linked(w, l) == {o \in Obj : w[o].list = l}
LinkedIn(w, ls) == {o \in Obj : w[o].list \in ls}

\* The cells of o that point to an object: what the type's child iterator of
\* lisp_static_types meets and the callers of it look for.
Edges(c, o) == {i \in DOMAIN c[o] : c[o][i] \in Obj}
Leaves(c, o) == DOMAIN c[o] \ Edges(c, o)
Children(c, o) == Range(c[o]) \cap Obj

\* The two hash tables of lisp_gc_reachable_iterator_t.
ReachableFirst(w) == [todo |-> LinkedIn(w, RootLists), root |-> {}]

\* Mutant: a child that has been visited is visited again.
ReachableNextAgain(c, itr) ==
  LET o == CHOOSE p \in itr.todo : TRUE
  IN  [todo |-> (itr.todo \cup Children(c, o)) \ {o}, root |-> itr.root \cup {o}]

\* lisp_gc_reachable_next() on any entry: cells are the same in a cell hash
\* table if they are the same object.
ReachableNext(c, itr) ==
  LET o == CHOOSE p \in itr.todo : TRUE
      done == itr.root \cup {o}
  IN  [todo |-> (itr.todo \cup Children(c, o)) \ done, root |-> done]

\* What a loop over the iterator has visited, if it ends before the bound.
Visited(w, c) ==
  LET after[n \in 0 .. Cardinality(Obj)] ==
        IF n = 0 THEN ReachableFirst(w)
        ELSE LET itr == after[n - 1]
             IN  IF itr.todo = {} THEN itr ELSE ReachableNext(c, itr)
  IN  after[Cardinality(Obj)]

Total(S, f(_)) == MapThenSumSet(f, S)

\* lisp_vm_gc_get_stats().
Stats(w, c) ==
  LET seen == Visited(w, c).root
      numRoot == Cardinality(LinkedIn(w, RootLists))
      isBlack(o) == w[o].gcList \in {"black", "blackRoot"}
      isWhite(o) == w[o].gcList \in {"white", "whiteRoot"}
  IN  [ num_conses    |-> [l \in LiveLists |-> Cardinality(Linked(w, l) \cap Conses)],
        num_objects   |-> [l \in LiveLists |-> Cardinality(Linked(w, l) \cap Arrays)],
        error_lists   |-> \E o \in LinkedIn(w, LiveLists) : w[o].gcList # w[o].list,
        num_root      |-> numRoot,
        num_allocated |-> Cardinality(LinkedIn(w, LiveLists)),
        num_reachable |-> Cardinality(seen),
        num_bulk      |-> Cardinality(seen) - numRoot,
        num_edges     |-> Total(seen, LAMBDA o : Cardinality(Edges(c, o))),
        num_leaves    |-> Total(seen, LAMBDA o : Cardinality(Leaves(c, o))),
        num_recycled  |-> Cardinality(Linked(w, "recycled")),
        num_disposed  |-> Cardinality(Linked(w, "disposed")),
        error_black_has_white_child |->
          \E o \in seen : isBlack(o) /\ \E k \in Children(c, o) : isWhite(k) ]

\* lisp_vm_gc_check(): no black object has a white child, and the conses of
\* the pages in use are all in some list.
CheckOK(w, c) ==
  LET conses(ls) == Cardinality(LinkedIn(w, ls) \cap Conses) IN
  /\ ~Stats(w, c).error_black_has_white_child
  /\ Cardinality(Conses) - conses({"fresh"})
       = conses(LiveLists) + conses({"recycled"}) + conses({"disposed"})

---------------------------------------------------------------------------
(* Properties.                                                             *)

Held == Range(root) \cap Obj

\* The statistics tell the truth at every moment of a collection: the walk
\* over the reachable objects ends and visits what the root cells lead to and
\* nothing else, the roots it starts from are the objects one root cell owns,
\* and what it counts is allocated.
StatsAreRight ==
  LET s == Stats(where, cells)
      v == Visited(where, cells)
  IN  /\ v.todo = {} /\ v.root = Reach(Held, Kids)
      /\ s.num_root = Cardinality(Held) /\ RootsOwned
      /\ s.num_reachable <= s.num_allocated

\* lisp_vm_gc_check() finds nothing, in whatever order steps and writes come:
\* no black object has a white child, a root included, and every object is
\* linked into the list its gc_list names.
ChecksPass == CheckOK(where, cells) /\ ~Stats(where, cells).error_lists
===========================================================================
