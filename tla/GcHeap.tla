------------------------------ MODULE GcHeap ------------------------------
(***************************************************************************)
(* What both collectors promise the program that uses them: a heap of      *)
(* objects with cells, a set of handles (Lisp::Object, or the root cells   *)
(* of the C library), and storage that is taken back at any time, but only *)
(* from objects no handle reaches.  No colours, no increments, no          *)
(* reference counts.                                                       *)
(***************************************************************************)
EXTENDS Naturals, Sequences, Functions, Reachability

CONSTANTS Obj, Handles, Nil

VARIABLES alloc,   \* the objects whose storage is in use
          cells,   \* cells[o]: what the cells of o point to
          handle   \* handle[h]: the object h keeps alive, or Nil

vars == <<alloc, cells, handle>>

Kids == [o \in Obj |-> Range(cells[o]) \cap Obj]
Held == Range(handle) \cap Obj
Reachable == Reach(Held, Kids)
Value == Reachable \cup {Nil}

Init == /\ alloc = {}
        /\ cells = [o \in Obj |-> <<>>]
        /\ handle = [h \in Handles |-> Nil]

\* A new object, its cells filled with values the program holds, is kept by
\* a free handle ...
New(o, h) ==
  /\ o \in Obj \ alloc /\ handle[h] = Nil
  /\ alloc' = alloc \cup {o}
  /\ cells'[o] \in Seq(Value)
  /\ cells' = [cells EXCEPT ![o] = cells'[o]]
  /\ handle' = [handle EXCEPT ![h] = o]

\* ... or stored at once in a cell of an object the program reaches.
NewChild(o, x) ==
  /\ o \in Obj \ alloc /\ x \in Reachable
  /\ alloc' = alloc \cup {o}
  /\ cells'[o] \in Seq(Value)
  /\ \E i \in DOMAIN cells[x] :
       cells' = [cells EXCEPT ![o] = cells'[o], ![x][i] = o]
  /\ UNCHANGED handle

\* The program overwrites, adds or removes cells of an object.
Write(x) ==
  /\ x \in Reachable
  /\ cells'[x] \in Seq(Value)
  /\ cells' = [cells EXCEPT ![x] = cells'[x]]
  /\ UNCHANGED <<alloc, handle>>

\* A handle gives up its object, or takes one the program reaches.
Move(h) ==
  /\ \E v \in Value : handle' = [handle EXCEPT ![h] = v]
  /\ UNCHANGED <<alloc, cells>>

\* Storage goes back: any set of unreachable objects; what their cells hold
\* afterwards nobody can see.
Reclaim ==
  /\ alloc' \subseteq alloc
  /\ alloc \cap Reachable \subseteq alloc'
  /\ cells' \in [Obj -> Seq(Obj \cup {Nil})]
  /\ \A o \in Reachable : cells'[o] = cells[o]
  /\ UNCHANGED handle

Next == \/ \E o \in Obj, h \in Handles : New(o, h)
        \/ \E o, x \in Obj : NewChild(o, x)
        \/ \E x \in Obj : Write(x)
        \/ \E h \in Handles : Move(h)
        \/ Reclaim

Spec == Init /\ [][Next]_vars
===========================================================================
