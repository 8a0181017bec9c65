------------------------------ MODULE SimGraph ------------------------------
(***************************************************************************)
(* The simulation of the C++ library (lpp/simul): GcSimRunner grows and    *)
(* rewires a graph of objects on an Allocator, and draws the places where  *)
(* it does so from a CollectibleGraph of what is reachable.  GcSim makes   *)
(* the graph when it is asked for and drops it with every change.          *)
(*                                                                         *)
(* The Allocator is what GcHeap promises: a call that allocates or gives   *)
(* up a handle may take back any objects that no root leads to.  A cons is *)
(* an array of two cells.  Of every random draw each outcome is possible,  *)
(* whatever the targets are.  Not modelled: rootNodes and bulkNodes of the *)
(* graph, which depend on Cell::isRoot(), a function without a result.     *)
(***************************************************************************)
EXTENDS Naturals, Sequences, FiniteSets, Functions, Reachability

CONSTANTS
  Nodes, NoNode,
  Sizes,           \* numbers of cells a poisson distribution may draw
  NumBulkSteps, NumEdgeRewireSteps

ASSUME GraphAssumption ==
  IsFiniteSet(Nodes) /\ NoNode \notin Nodes /\ Sizes \subseteq Nat

VARIABLES
  allocated,   \* the objects of the Allocator that are not disposed of
  cells,
  root,        \* GcSim::root, a vector of Nodes
  graph,       \* GcSim::graph: <<>> or the one graph there is
  at           \* where run() is in its loop

graphVars == <<allocated, cells, root, graph, at>>

Round ==
  <<"root">> \o [k \in 1 .. NumBulkSteps |-> "bulk"]
    \o [k \in 1 .. 2 * NumEdgeRewireSteps |-> IF k % 2 = 1 THEN "add edge" ELSE "remove edge"]
    \o <<"record">>
Proceed == at' = (at % Len(Round)) + 1

Children(c, o) == Range(c[o]) \ {NoNode}

\* Allocator::forEachReachable() from the objects of the vector r: a turn for
\* each object there is suffices.
Visit(c, v) ==
  LET o == CHOOSE x \in v.todo : TRUE
      done == v.done \cup {o}
  IN  [todo |-> (v.todo \cup Children(c, o)) \ done, done |-> done]

Reached(c, r) ==
  LET after[n \in 0 .. Cardinality(Nodes)] ==
        IF n = 0 THEN [todo |-> Range(r), done |-> {}]
        ELSE IF after[n - 1].todo = {} THEN after[n - 1] ELSE Visit(c, after[n - 1])
  IN  after[Cardinality(Nodes)].done

\* CollectibleGraph(): an edge for every child, a leaf for every other cell.
EdgesOf(c, o) == {[parent |-> o, child |-> c[o][i], index |-> i] :
                  i \in {j \in DOMAIN c[o] : c[o][j] # NoNode}}
LeavesOf(c, o) == {<<o, i>> : i \in {j \in DOMAIN c[o] : c[o][j] = NoNode}}
Graph(c, r) ==
  LET nodes == Reached(c, r)
  IN  [ nodes  |-> nodes,
        edges  |-> UNION {EdgesOf(c, o) : o \in nodes},
        leaves |-> UNION {LeavesOf(c, o) : o \in nodes} ]

\* getGraph(): the graph that a call reads, and leaves there.
getGraph == IF graph = <<>> THEN Graph(cells, root) ELSE graph[1]
GraphIsThere == graph' = <<getGraph>>
GraphIsReset == graph' = <<>>

numRoot == Len(root)
numTotal == Cardinality(getGraph.nodes)
numBulk == numTotal - numRoot
numEdges == Cardinality(getGraph.edges)
numLeaves == Cardinality(getGraph.leaves)
numAllocated == Cardinality(allocated)

GraphInit ==
  /\ allocated = {} /\ root = <<>> /\ graph = <<>> /\ at = 1
  /\ cells = [o \in Nodes |-> <<>>]

\* The cells become c; nobody reads those of an object that is lost to root'.
CellsBecome(c) ==
  LET reached == Reached(c, root') IN
  cells' = [o \in Nodes |-> IF o \in reached THEN c[o] ELSE <<>>]

\* What an incremental collection may leave.
Collected == {A \in SUBSET allocated : Range(root) \cup Reached(cells, root) \subseteq A}

\* createNode(), or a root that is made: a collection, and the object o.
CreateNode(o) ==
  \E A \in Collected : o \notin A /\ allocated' = A \cup {o}
Empty(n) == [i \in 1 .. n |-> NoNode]

---------------------------------------------------------------------------
(* The calls of GcSim.                                                     *)

AddRoot(o, n) ==
  /\ CreateNode(o)
  /\ root' = Append(root, o)
  /\ CellsBecome([cells EXCEPT ![o] = Empty(n)])
  /\ GraphIsReset

\* Mutant: the graph stays.
UnrootKeepsGraph(k) ==
  /\ root' = SubSeq([root EXCEPT ![k] = root[Len(root)]], 1, Len(root) - 1)
  /\ CellsBecome(cells)
  /\ \E A \in SUBSET allocated : Reached(cells, root') \subseteq A /\ allocated' = A
  /\ UNCHANGED graph

\* unroot(): the last root takes the place of the k-th.
UnrootNode(k) ==
  /\ root' = SubSeq([root EXCEPT ![k] = root[Len(root)]], 1, Len(root) - 1)
  /\ CellsBecome(cells)
  /\ \E A \in SUBSET allocated : Reached(cells, root') \subseteq A /\ allocated' = A
  /\ GraphIsReset

\* addBulk() in a leaf of the graph.
AddBulk(leaf, o, n) ==
  /\ CreateNode(o)
  /\ UNCHANGED root
  /\ CellsBecome([cells EXCEPT ![leaf[1]][leaf[2]] = o, ![o] = Empty(n)])
  /\ GraphIsReset

\* addEdge() and removeEdge(): setChild(), without a collection.
SetChild(o, i, child) ==
  /\ UNCHANGED <<allocated, root>>
  /\ CellsBecome([cells EXCEPT ![o][i] = child])
  /\ GraphIsReset
AddEdge(leaf, node) == SetChild(leaf[1], leaf[2], node)
RemoveEdge(e) == SetChild(e.parent, e.index, NoNode)

---------------------------------------------------------------------------
(* GcSimRunner::run().  What selectAdd() and selectRemove() may answer:    *)

selectAdd(n) == IF n = 0 THEN {TRUE} ELSE BOOLEAN
selectRemove(n) == IF n = 0 THEN {FALSE} ELSE BOOLEAN

StepRoot ==
  /\ Round[at] = "root" /\ Proceed
  /\ \/ /\ TRUE \in selectAdd(numRoot)
        /\ \E o \in Nodes, n \in Sizes : AddRoot(o, n)
     \/ /\ FALSE \in selectAdd(numRoot) /\ TRUE \in selectRemove(numRoot)
        /\ \E k \in 1 .. numRoot : UnrootNode(k)
     \/ /\ FALSE \in selectAdd(numRoot) /\ FALSE \in selectRemove(numRoot)
        /\ UNCHANGED <<allocated, cells, root, graph>>

\* stepBulk() means to remove an object from its parents, but it looks for the
\* parents of a number, which is no node: nothing is removed.
StepBulk ==
  /\ Round[at] = "bulk" /\ Proceed
  /\ \/ /\ numLeaves > 0 /\ TRUE \in selectAdd(numBulk)
        /\ \E leaf \in getGraph.leaves, o \in Nodes, n \in Sizes : AddBulk(leaf, o, n)
     \/ /\ numLeaves = 0 \/ FALSE \in selectAdd(numBulk)
        /\ GraphIsThere
        /\ UNCHANGED <<allocated, cells, root>>

\* The two halves of stepRewire().
StepAddEdge ==
  /\ Round[at] = "add edge" /\ Proceed
  /\ \/ \E leaf \in getGraph.leaves, node \in getGraph.nodes : AddEdge(leaf, node)
     \/ GraphIsThere /\ UNCHANGED <<allocated, cells, root>>

StepRemoveEdge ==
  /\ Round[at] = "remove edge" /\ Proceed
  /\ \/ \E e \in getGraph.edges : RemoveEdge(e)
     \/ GraphIsThere /\ UNCHANGED <<allocated, cells, root>>

\* The numbers of a GcSimRecord are read.
Record ==
  /\ Round[at] = "record" /\ Proceed
  /\ GraphIsThere
  /\ UNCHANGED <<allocated, cells, root>>

GraphNext == StepRoot \/ StepBulk \/ StepAddEdge \/ StepRemoveEdge \/ Record

GraphSpec == GraphInit /\ [][GraphNext]_graphVars

---------------------------------------------------------------------------
(* Properties.                                                             *)

GraphTypeOK ==
  /\ allocated \subseteq Nodes /\ root \in Seq(Nodes) /\ at \in DOMAIN Round
  /\ \A o \in Nodes : Range(cells[o]) \subseteq Nodes \cup {NoNode}
  /\ Len(graph) <= 1

\* A graph that is there is the one of the heap as it is: its nodes are what
\* the roots lead to, its edges and leaves are all their cells, and no object
\* of it has been collected.  The differences run() and getTargetNumChildren()
\* take of unsigned numbers are none below zero.
GraphIsHeap ==
  graph # <<>> =>
    LET g == graph[1] IN
    /\ g.nodes = Reach(Range(root), [o \in Nodes |-> Children(cells, o)])
    /\ \A o \in g.nodes : \A i \in DOMAIN cells[o] :
         IF cells[o][i] = NoNode THEN <<o, i>> \in g.leaves
         ELSE [parent |-> o, child |-> cells[o][i], index |-> i] \in g.edges
    /\ \A e \in g.edges : {e.parent, e.child} \subseteq g.nodes /\ cells[e.parent][e.index] = e.child
    /\ \A leaf \in g.leaves : leaf[1] \in g.nodes /\ cells[leaf[1]][leaf[2]] = NoNode
    /\ g.nodes \subseteq allocated
    /\ numRoot <= numTotal /\ numTotal <= numAllocated
    /\ numBulk <= numEdges + numLeaves
=============================================================================
