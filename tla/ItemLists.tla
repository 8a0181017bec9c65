----------------------------- MODULE ItemLists -----------------------------
(***************************************************************************)
(* What lisp/util/dl_list.h promises: lists are sequences, and no item is  *)
(* in two of them or in one of them twice.                                 *)
(***************************************************************************)
EXTENDS Naturals, SequencesExt

CONSTANTS Items, Lists

VARIABLE contents   \* contents[l]: the items of l in their order

Init == contents = [l \in Lists |-> <<>>]

Free == Items \ UNION {ToSet(contents[l]) : l \in Lists}

\* An item that is in no list goes to place i.
InsertAtPlace(l, i, item) ==
  /\ item \in Free
  /\ contents' = [contents EXCEPT ![l] = InsertAt(@, i, item)]

RemoveItem(l, i) == contents' = [contents EXCEPT ![l] = RemoveAt(@, i)]

Concatenate(l, s) ==
  contents' = [contents EXCEPT ![l] = @ \o contents[s], ![s] = <<>>]

Next ==
  \E l \in Lists :
    \/ \E i \in 1 .. Len(contents[l]) + 1, item \in Items : InsertAtPlace(l, i, item)
    \/ \E i \in 1 .. Len(contents[l]) : RemoveItem(l, i)
    \/ \E s \in Lists \ {l} : Concatenate(l, s)

Spec == Init /\ [][Next]_contents
============================================================================
