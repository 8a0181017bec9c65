------------------------------ MODULE DlList ------------------------------
(***************************************************************************)
(* The doubly linked lists of lisp/util/dl_list.h, with their pointers:    *)
(* the lists in which the C library keeps conses and objects by colour.    *)
(* An item is linked into one list at a time; what its pointers hold while *)
(* it is in none is never reset.                                           *)
(***************************************************************************)
EXTENDS Naturals, Sequences, FiniteSets, SequencesExt

CONSTANTS
  Items,
  DlLists,     \* the lists there are
  Null

ASSUME ListsAssumption == IsFiniteSet(Items) /\ Null \notin Items

VARIABLES first, last,   \* of each list
          next, prev     \* of each item

listVars == <<first, last, next, prev>>

Pointer == Items \cup {Null}

\* The items met from p on along the pointers of link: size() and every
\* iteration walk like this.
Walk(p, link) ==
  LET item[n \in 0 .. Cardinality(Items)] ==
        IF n = 0 THEN p ELSE IF item[n - 1] = Null THEN Null ELSE link[item[n - 1]]
      met == Cardinality({n \in DOMAIN item : item[n] # Null})
  IN  [n \in 1 .. met |-> item[n - 1]]

Forward(l) == Walk(first[l], next)
Backward(l) == Walk(last[l], prev)
Chained == UNION {ToSet(Forward(l)) : l \in DlLists}

ListInit == /\ first = [l \in DlLists |-> Null] /\ last = [l \in DlLists |-> Null]
            /\ next = [i \in Items |-> Null] /\ prev = [i \in Items |-> Null]

\* The only item of an empty list.
Only(l, item) ==
  /\ first' = [first EXCEPT ![l] = item] /\ last' = [last EXCEPT ![l] = item]
  /\ next' = [next EXCEPT ![item] = Null] /\ prev' = [prev EXCEPT ![item] = Null]

\* Mutant: the item keeps the prev it had in its last list.
AppendBehind(l, item) ==
  IF first[l] = Null THEN Only(l, item)
  ELSE /\ next' = [next EXCEPT ![item] = Null, ![last[l]] = item]
       /\ last' = [last EXCEPT ![l] = item]
       /\ UNCHANGED <<first, prev>>

\* lisp_dl_list_append().
AppendItem(l, item) ==
  IF first[l] = Null THEN Only(l, item)
  ELSE /\ prev' = [prev EXCEPT ![item] = last[l]]
       /\ next' = [next EXCEPT ![item] = Null, ![last[l]] = item]
       /\ last' = [last EXCEPT ![l] = item]
       /\ UNCHANGED first

\* lisp_dl_list_prepend().
PrependItem(l, item) ==
  IF first[l] = Null THEN Only(l, item)
  ELSE /\ prev' = [prev EXCEPT ![item] = Null, ![first[l]] = item]
       /\ next' = [next EXCEPT ![item] = first[l]]
       /\ first' = [first EXCEPT ![l] = item]
       /\ UNCHANGED last

\* lisp_dl_list_insert() behind pos.  The prev of the item that follows pos
\* stays what it is.
InsertBehind(l, pos, item) ==
  /\ prev' = [prev EXCEPT ![item] = pos]
  /\ next' = [next EXCEPT ![item] = next[pos], ![pos] = item]
  /\ last' = IF next[pos] = Null THEN [last EXCEPT ![l] = item] ELSE last
  /\ UNCHANGED first

\* Mutant: the source is not emptied.
MoveListKeepsSource(l, s) ==
  /\ first[s] # Null
  /\ last' = [last EXCEPT ![l] = last[s]]
  /\ IF first[l] = Null
     THEN first' = [first EXCEPT ![l] = first[s]] /\ UNCHANGED <<next, prev>>
     ELSE /\ next' = [next EXCEPT ![last[l]] = first[s]]
          /\ prev' = [prev EXCEPT ![first[s]] = last[l]]
          /\ UNCHANGED first

\* lisp_dl_list_move_list(): an empty source changes nothing.
MoveList(l, s) ==
  /\ first[s] # Null
  /\ last' = [last EXCEPT ![l] = last[s], ![s] = Null]
  /\ IF first[l] = Null
     THEN first' = [first EXCEPT ![l] = first[s], ![s] = Null] /\ UNCHANGED <<next, prev>>
     ELSE /\ next' = [next EXCEPT ![last[l]] = first[s]]
          /\ prev' = [prev EXCEPT ![first[s]] = last[l]]
          /\ first' = [first EXCEPT ![s] = Null]

\* lisp_dl_list_remove(), and remove_first() on the first item.
Unlink(l, item) ==
  /\ IF prev[item] = Null
     THEN first' = [first EXCEPT ![l] = next[item]] /\ UNCHANGED next
     ELSE next' = [next EXCEPT ![prev[item]] = next[item]] /\ UNCHANGED first
  /\ IF next[item] = Null
     THEN last' = [last EXCEPT ![l] = prev[item]] /\ UNCHANGED prev
     ELSE prev' = [prev EXCEPT ![next[item]] = prev[item]] /\ UNCHANGED last

\* The calls on items that are where the call takes them to be.  Insertion is
\* used behind the last item, as in the unit test, and at the front.
ListCalls ==
  \E l \in DlLists :
    \/ \E item \in Items \ Chained :
         \/ AppendItem(l, item) \/ PrependItem(l, item)
         \/ last[l] # Null /\ InsertBehind(l, last[l], item)
    \/ \E item \in ToSet(Forward(l)) : Unlink(l, item)
    \/ \E s \in DlLists \ {l} : MoveList(l, s)

ListSpec == ListInit /\ [][ListCalls]_listVars

\* Insertion at every position, as the interface has it.
InsertAnywhere ==
  \E l \in DlLists, item \in Items \ Chained :
    \E pos \in ToSet(Forward(l)) : InsertBehind(l, pos, item)

SpecInsert == ListInit /\ [][ListCalls \/ InsertAnywhere]_listVars

---------------------------------------------------------------------------
(* Properties.                                                             *)

ListTypeOK ==
  /\ first \in [DlLists -> Pointer] /\ last \in [DlLists -> Pointer]
  /\ next \in [Items -> Pointer] /\ prev \in [Items -> Pointer]

\* The two directions tell the same list, and the assertions of append() and
\* remove() on its ends (dl_list.h:133, 227) hold.  The collector unlinks
\* items from the middle by their own pointers and depends on it.
BothWays ==
  \A l \in DlLists : /\ Backward(l) = Reverse(Forward(l))
                     /\ first[l] = Null <=> last[l] = Null
                     /\ last[l] # Null => next[last[l]] = Null

\* The lists are the sequences of ItemLists: no call loses an item, takes one
\* into two lists or changes an order.
Abstract == INSTANCE ItemLists
              WITH Lists <- DlLists, contents <- [l \in DlLists |-> Forward(l)]
ImplementsLists == Abstract!Spec
===========================================================================
