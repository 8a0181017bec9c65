------------------------------- MODULE GcSim -------------------------------
(***************************************************************************)
(* The simulation of the C library, lisp/simul/gc_sim.c: a program that    *)
(* grows and rewires a graph of objects on a GcVm, and after every call    *)
(* takes stock of it.  Arrays keep plain values, as in GcVm.               *)
(***************************************************************************)
EXTENDS GcStatistics

VARIABLES
  simRoot,   \* sim->root: the root cells in the order of the array
  graph      \* sim->nodes, sim->edges and sim->leaves, which point to nodes

simVars == <<where, refCount, cells, gcPos, root, simRoot, graph>>

\* _lisp_sim_init_reachable(), _init_nodes(), _init_edges() and _init_leaves().
Graph(w, c) ==
  LET nodes == Visited(w, c).root IN
  [ nodes  |-> {[cell |-> o, isRoot |-> w[o].gcList \in RootLists] : o \in nodes},
    edges  |-> UNION {{<<o, i, c[o][i]>> : i \in Edges(c, o)} : o \in nodes},
    leaves |-> UNION {{<<o, i>> : i \in Leaves(c, o)} : o \in nodes} ]

\* lisp_sim_refresh_graph(), at the end of every call that succeeds.
Refresh == graph' = Graph(where', cells')

SimInit == /\ Init /\ simRoot = <<>>
           /\ graph = [nodes |-> {}, edges |-> {}, leaves |-> {}]

\* lisp_sim_add_root(): two children make a cons, any other number an array.
AddRoot(r, o, n) ==
  /\ \/ n = 2 /\ MakeCons(r, o, Nil, Nil)
     \/ n # 2 /\ MakeArray(r, o, n, Nil)
  /\ simRoot' = Append(simRoot, r)
  /\ Refresh

\* lisp_sim_add_bulk() with two children, in a cell of a cons.
AddBulk(x, i, o) == AddBulkCons(x, i, o) /\ Refresh /\ UNCHANGED simRoot

\* lisp_sim_add_edge() in an empty cell of a cons.
AddEdge(x, i, c) ==
  /\ i \in DOMAIN cells[x] /\ cells[x][i] = Nil
  /\ SetChild(x, i, c) /\ Refresh /\ UNCHANGED simRoot

\* lisp_sim_remove_edge().
RemoveEdge(x, i) == SetChild(x, i, Nil) /\ Refresh /\ UNCHANGED simRoot

\* Mutant: the graph is not refreshed.
UnrootStale(r) ==
  /\ Unset(r)
  /\ simRoot' = SelectSeq(simRoot, LAMBDA q : q # r)
  /\ UNCHANGED graph

\* lisp_sim_unroot(): the last root takes the place of r.
Unroot(r) ==
  /\ root[r] # Nil /\ where[root[r]].gcList \in RootLists
  /\ Unset(r)
  /\ LET n == Len(simRoot)
         k == CHOOSE i \in 1 .. n : simRoot[i] = r
     IN  simRoot' = SubSeq([simRoot EXCEPT ![k] = simRoot[n]], 1, n - 1)
  /\ Refresh

SimCalls ==
  \/ \E r \in RootCells :
       \/ \E o \in Obj, n \in {0, 2} : AddRoot(r, o, n)
       \/ Unroot(r)
  \/ \E x \in Reachable \cap Conses, i \in 1 .. 2 :
       \/ \E c \in Value \ {Nil} : AddEdge(x, i, c)
       \/ \E o \in Conses : AddBulk(x, i, o)
       \/ RemoveEdge(x, i)

SimNext == SimCalls \/ (Collector /\ UNCHANGED <<simRoot, graph>>)

SimSpec == SimInit /\ [][SimNext]_simVars

---------------------------------------------------------------------------
(* Properties.                                                             *)

\* The cells of the objects in S, by object and place.
CellsOf(S) == UNION {{<<o, i>> : i \in DOMAIN cells[o]} : o \in S}

\* The graph the simulation draws from is the heap its root cells lead to,
\* also while a collection is half done (check_gc_sim() of the unit tests): no
\* node has been collected, every cell of a node is an edge to a node or a
\* leaf, as it is now, and the root array holds each root cell in use once.
GraphIsCurrent ==
  LET nodes == {n.cell : n \in graph.nodes} IN
  /\ nodes = Reach(Held, Kids) /\ nodes \subseteq Live
  /\ \A n \in graph.nodes : n.isRoot <=> n.cell \in Held
  /\ \A e \in graph.edges : e[3] \in nodes /\ cells[e[1]][e[2]] = e[3]
  /\ \A l \in graph.leaves : cells[l[1]][l[2]] \notin Obj
  /\ {<<e[1], e[2]>> : e \in graph.edges} \cup graph.leaves = CellsOf(nodes)
  /\ Range(simRoot) = {r \in RootCells : root[r] # Nil} /\ IsInjective(simRoot)
============================================================================
