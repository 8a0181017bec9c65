----------------------------- MODULE HashTable -----------------------------
(***************************************************************************)
(* The hash table of the C library (lisp/util/hash_table.c).  It has two   *)
(* worlds, arrays of buckets; entries are inserted into the current one    *)
(* and moved there from the other a bucket at a time: the bucket that a    *)
(* call touches, and, if autoswap is set, the first bucket of the list     *)
(* that links all buckets in use.  When the old world is empty the worlds  *)
(* may change their roles and everything is old again.                     *)
(*                                                                         *)
(* A hash code is the key itself.  TableNext keeps to tables whose         *)
(* autoswap is off while the old world holds entries; SpecAutoswap has the *)
(* rest.                                                                   *)
(***************************************************************************)
EXTENDS Naturals, Sequences, FiniteSets, SequencesExt

CONSTANTS
  Keys,        \* hash codes
  Values,      \* what is stored with a key
  MinSize,     \* min_size of hash_table_init()
  MaxSwap      \* bound on the argument of hash_table_swap()

ASSUME TableAssumption == /\ Keys \subseteq Nat
                          /\ MinSize \in Nat \ {0} /\ MaxSwap \in Nat \ {0}

Worlds == {0, 1}
None == <<>>

VARIABLES
  t,          \* the table, see Empty
  autoswap,   \* autoswap
  answer      \* *inserted of the last find_or_insert(), or what remove() returned

tableVars == <<t, autoswap, answer>>

\* chain: the buckets in use, in the order of their list, each with its
\* entries; first: first_new_world.
Empty == [chain |-> <<>>, world |-> 0, first |-> None,
          size |-> [w \in Worlds |-> IF w = 0 THEN MinSize ELSE 1],
          count |-> [w \in Worlds |-> 0]]

Old(s) == 1 - s.world
Bucket(s, w, k) == <<w, k % s.size[w]>>
IsFirst(s, b) == s.chain # <<>> /\ Head(s.chain).id = b
InUse(s, b) == \E i \in DOMAIN s.chain : s.chain[i].id = b
Position(s, b) == CHOOSE i \in DOMAIN s.chain : s.chain[i].id = b
EntriesOf(s, b) == IF InUse(s, b) THEN s.chain[Position(s, b)].entries ELSE <<>>
Holds(s, b, k) == \E i \in DOMAIN EntriesOf(s, b) : EntriesOf(s, b)[i].key = k
\* The first entry with a key.
Place(es, k) ==
  CHOOSE j \in DOMAIN es : es[j].key = k /\ \A i \in 1 .. j - 1 : es[i].key # k

---------------------------------------------------------------------------
(* The list of buckets.                                                    *)

\* Mutant: first_new_world still points to a bucket that was removed.
RemoveBucketKeepsFirst(s, b) == [s EXCEPT !.chain = RemoveAt(@, Position(s, b))]

\* _remove_bucket().
RemoveBucket(s, b) ==
  LET i == Position(s, b)
  IN  [s EXCEPT !.chain = RemoveAt(@, i),
                !.first = IF @ # b THEN @
                          ELSE IF i < Len(s.chain) THEN s.chain[i + 1].id ELSE None]

\* _add_entry_to_bucket(): an unused bucket goes to the end of the list.
AddEntry(s, b, e) ==
  IF InUse(s, b)
  THEN [s EXCEPT !.chain[Position(s, b)].entries = Append(@, e)]
  ELSE [s EXCEPT !.chain = Append(@, [id |-> b, entries |-> <<e>>]),
                 !.first = IF @ = None THEN b ELSE @]

\* _remove_entry().
RemoveEntry(s, b, k) ==
  LET i == Position(s, b)
  IN  IF Len(s.chain[i].entries) = 1 THEN RemoveBucket(s, b)
      ELSE [s EXCEPT !.chain[i].entries = RemoveAt(@, Place(@, k))]

\* An entry of the old world goes to its bucket in the current one.
MoveEntry(s, e) ==
  [AddEntry(s, Bucket(s, s.world, e.key), e)
     EXCEPT !.count[Old(s)] = @ - 1, !.count[s.world] = @ + 1]

\* The loop over the entries es of a bucket that was removed.
MoveEntries(s, es) ==
  LET after[n \in 0 .. Len(es)] ==
        IF n = 0 THEN s ELSE MoveEntry(after[n - 1], es[n])
  IN  after[Len(es)]

MoveBucket(s, b) ==
  IF InUse(s, b) THEN MoveEntries(RemoveBucket(s, b), EntriesOf(s, b)) ELSE s

---------------------------------------------------------------------------
(* Recycling and swapping.                                                 *)

\* Mutant: the new size is more than the occupancy allows.
NewSizeTooLarge(n) == 4 * n

\* resize_factor is 1.5, lower_occ 0.5 and upper_occ 2.0.
NewSize(n) == IF (3 * n) \div 2 < MinSize THEN MinSize ELSE (3 * n) \div 2
OccupancyOK(n, size) == 2 * n >= size /\ n <= 2 * size

SwapWorlds(s, n) ==
  [s EXCEPT !.world = Old(s), !.size[Old(s)] = n, !.first = None]

\* hash_table_recycle(): nothing is left to do when the first bucket is one
\* of the current world.
CanRecycle(s) == s.chain # <<>> /\ Head(s.chain).id # s.first
RecycledOnce(s) ==
  LET r == MoveBucket(s, Head(s.chain).id)
      n == r.count[r.world]
  IN  IF IsFirst(r, r.first) /\ ~OccupancyOK(n, r.size[r.world])
      THEN SwapWorlds(r, NewSize(n)) ELSE r
AfterRecycle(s) == IF CanRecycle(s) THEN RecycledOnce(s) ELSE s

\* How each call begins: with the old bucket b of the key.  b is computed
\* before hash_table_recycle() and used after it, when its array may have
\* become the current world (and have been reallocated: the model reads the
\* empty bucket that was there).
OldBucket(s, k) == Bucket(s, Old(s), k)
AfterAutoswap(s, b) == IF autoswap /\ ~IsFirst(s, b) THEN AfterRecycle(s) ELSE s

\* Mutant: the call does not look into the old world.
PreparedSkipsOld(s, k) == AfterAutoswap(s, OldBucket(s, k))

Prepared(s, k) ==
  LET b == OldBucket(s, k) IN MoveBucket(AfterAutoswap(s, b), b)

---------------------------------------------------------------------------
(* The calls.                                                              *)

TableInit == t = Empty /\ autoswap = TRUE /\ answer = FALSE

Insert(s, k, v) ==
  [AddEntry(s, Bucket(s, s.world, k), [key |-> k, value |-> v])
     EXCEPT !.count[s.world] = @ + 1]

\* Whether the call finds the key: in the old bucket or in the current one.
Found(s, k) ==
  LET b == OldBucket(s, k)
  IN  \/ Holds(AfterAutoswap(s, b), b, k)
      \/ Holds(Prepared(s, k), Bucket(Prepared(s, k), Prepared(s, k).world, k), k)

\* hash_table_find_or_insert().
FindOrInsert(k, v) ==
  /\ t' = IF Found(t, k) THEN Prepared(t, k) ELSE Insert(Prepared(t, k), k, v)
  /\ answer' = ~Found(t, k)
  /\ UNCHANGED autoswap

\* hash_table_set(): an entry that is found is overwritten where it is.
Overwrite(s, b, k, v) ==
  LET p == Position(s, b)
      j == Place(s.chain[p].entries, k)
  IN  [s EXCEPT !.chain[p].entries[j].value = v]

Set(k, v) ==
  /\ LET s == Prepared(t, k)
         b == Bucket(s, s.world, k)
     IN  t' = IF Holds(s, b, k) THEN Overwrite(s, b, k, v) ELSE Insert(s, k, v)
  /\ UNCHANGED <<autoswap, answer>>

\* Mutant: an entry that is freed while its bucket is moved stays counted.
RemoveKeepsCount(k) ==
  /\ t' = LET s == Prepared(t, k)
              b == Bucket(s, s.world, k)
          IN  IF Holds(s, b, k) THEN RemoveEntry(s, b, k) ELSE s
  /\ answer' = Found(t, k)
  /\ UNCHANGED autoswap

\* hash_table_remove(): the entry is freed while its old bucket is moved, or
\* in the current world.
RemoveKey(k) ==
  /\ LET b == OldBucket(t, k)
         r == AfterAutoswap(t, b)
         s == Prepared(t, k)
         c == Bucket(s, s.world, k)
         es == EntriesOf(r, b)
     IN  t' = IF Holds(r, b, k)
              THEN [MoveEntries(RemoveBucket(r, b), RemoveAt(es, Place(es, k)))
                      EXCEPT !.count[Old(r)] = @ - 1]
              ELSE IF Holds(s, c, k)
              THEN [RemoveEntry(s, c, k) EXCEPT !.count[s.world] = @ - 1]
              ELSE s
  /\ answer' = Found(t, k)
  /\ UNCHANGED autoswap

\* hash_table_clear(): everything is initialised, autoswap too.
Clear == t' = Empty /\ autoswap' = TRUE /\ UNCHANGED answer

\* hash_table_swap().
Swap(n) ==
  /\ t.count[Old(t)] = 0
  /\ t' = SwapWorlds(t, n)
  /\ UNCHANGED <<autoswap, answer>>

\* hash_table_recycle().
Recycle ==
  /\ t' = AfterRecycle(t)
  /\ UNCHANGED <<autoswap, answer>>

\* ht->autoswap is assigned by the program.
SetAutoswap == autoswap' = ~autoswap /\ UNCHANGED <<t, answer>>

TableCalls ==
  \/ \E k \in Keys, v \in Values : FindOrInsert(k, v) \/ Set(k, v)
  \/ \E k \in Keys : RemoveKey(k)
  \/ Clear \/ Recycle

TableNext == \/ TableCalls
             \/ ~autoswap /\ \E n \in 1 .. MaxSwap : Swap(n)
             \/ (t.count[Old(t)] = 0) /\ SetAutoswap

TableSpec == TableInit /\ [][TableNext]_tableVars

SpecAutoswap ==
  TableInit /\ [][TableCalls \/ SetAutoswap \/ \E n \in 1 .. MaxSwap : Swap(n)]_tableVars

---------------------------------------------------------------------------
(* Properties.                                                             *)

Entry == [key : Keys, value : Values]
\* The places of entries, and the entries in the buckets of a world.
Slots(s, w) ==
  UNION {{i} \X DOMAIN s.chain[i].entries : i \in {j \in DOMAIN s.chain : s.chain[j].id[1] = w}}
AllSlots == Slots(t, 0) \cup Slots(t, 1)
EntryAt(p) == t.chain[p[1]].entries[p[2]]
InChain == {t.chain[i].id : i \in DOMAIN t.chain}

TableTypeOK ==
  /\ t.chain \in Seq([id : Worlds \X Nat, entries : Seq(Entry)])
  /\ t.world \in Worlds /\ t.first \in InChain \cup {None}
  /\ t.size \in [Worlds -> Nat \ {0}] /\ t.count \in [Worlds -> Nat]
  /\ autoswap \in BOOLEAN /\ answer \in BOOLEAN

\* The list holds the buckets of the old world before those of the current
\* one, and first_new_world is the first of these: hash_table_recycle()
\* compares it with the head of the list and with nothing else.
OldBeforeNew ==
  LET new == {i \in DOMAIN t.chain : t.chain[i].id[1] = t.world}
  IN  /\ \A i \in new, j \in DOMAIN t.chain : i < j => j \in new
      /\ t.first = IF new = {} THEN None
                   ELSE t.chain[CHOOSE i \in new : \A j \in new : i <= j].id

\* n_elements of each world is the number of entries in its buckets:
\* REQUIRE_EQ_U in hash_table_recycle() (hash_table.c:665) and the test of
\* hash_table_swap() rely on it.
CountsAgree == \A w \in Worlds : t.count[w] = Cardinality(Slots(t, w))

\* Calling hash_table_recycle() until it answers 0 ends: the size it chooses
\* is one it is satisfied with when the next round is over.  This needs a
\* MinSize of at most 2: the table with one entry and min_bucket_size 3 is too
\* empty for lower_occ after every round and starts the next.
RecyclingEnds ==
  LET most == 2 * Cardinality(Keys)
      after[i \in 0 .. most] == IF i = 0 THEN t ELSE AfterRecycle(after[i - 1])
  IN  ~CanRecycle(after[most])

\* No key has two entries: a key that was inserted is found again, and
\* removing it removes it.
KeysOnce == \A p, q \in AllSlots : EntryAt(p).key = EntryAt(q).key => p = q

\* The table is the map of HashMap, and answers as it does.
Contents ==
  LET all == {EntryAt(p) : p \in AllSlots}
  IN  [k \in {e.key : e \in all} |-> (CHOOSE e \in all : e.key = k).value]
Map == INSTANCE HashMap WITH map <- Contents
ImplementsMap == Map!Spec
============================================================================
