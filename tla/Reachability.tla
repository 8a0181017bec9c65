--------------------------- MODULE Reachability ---------------------------
(***************************************************************************)
(* What "reachable" means for a heap: the least set of objects that holds  *)
(* the roots and is closed under "child of".  It is written as the         *)
(* intersection of all closed sets, so that it needs no recursion and a    *)
(* proof uses it by naming one closed set.                                 *)
(***************************************************************************)

\* kids maps every object to the set of the objects its cells point to.
ClosedUnder(S, kids) == \A x \in S : kids[x] \subseteq S

Reach(roots, kids) ==
  { o \in DOMAIN kids :
      \A S \in SUBSET DOMAIN kids :
        roots \subseteq S /\ ClosedUnder(S, kids) => o \in S }
===========================================================================
