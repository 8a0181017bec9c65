------------------------------ MODULE HashMap ------------------------------
(***************************************************************************)
(* What lisp/util/hash_table.h promises: a map, and an answer to inserting *)
(* and removing that says whether the key was there.  Rearranging buckets  *)
(* and worlds is not to be seen.                                           *)
(***************************************************************************)
CONSTANTS Keys, Values

VARIABLES map, answer

Init == map = << >> /\ answer = FALSE

With(m, k, v) == [x \in DOMAIN m \cup {k} |-> IF x = k THEN v ELSE m[x]]

\* Answers whether the key was inserted.
FindOrInsert(k, v) ==
  /\ answer' = (k \notin DOMAIN map)
  /\ map' = IF k \in DOMAIN map THEN map ELSE With(map, k, v)

Set(k, v) == map' = With(map, k, v) /\ UNCHANGED answer

\* Answers whether there was something to remove.
RemoveKey(k) ==
  /\ answer' = (k \in DOMAIN map)
  /\ map' = [x \in DOMAIN map \ {k} |-> map[x]]

Clear == map' = << >> /\ UNCHANGED answer

Next == \/ \E k \in Keys, v \in Values : FindOrInsert(k, v) \/ Set(k, v)
        \/ \E k \in Keys : RemoveKey(k)
        \/ Clear

Spec == Init /\ [][Next]_<<map, answer>>
============================================================================
