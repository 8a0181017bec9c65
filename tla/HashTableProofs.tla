------------------------- MODULE HashTableProofs -------------------------
(***************************************************************************)
(* The proof that the hash table of the C library is a map in every stage  *)
(* of a rehash, for any keys, values and sizes.                            *)
(***************************************************************************)
EXTENDS HashTable, ReachabilityTheorems, FiniteSetTheorems, SequenceTheorems

BucketId == Worlds \X Nat
Link == [id : BucketId, entries : Seq(Entry)]
Table == [chain : Seq(Link), world : Worlds, first : BucketId \cup {None},
          size : [Worlds -> Nat \ {0}], count : [Worlds -> Int]]

\* The old buckets are the first m of the list.
Border(s, m) ==
  /\ \A i \in DOMAIN s.chain : s.chain[i].id[1] = s.world <=> i > m
  /\ s.first = IF m = Len(s.chain) THEN None ELSE s.chain[m + 1].id

\* A bucket is in the list once and not empty, an entry is in the bucket of
\* its key and the only one there with it.
Structure(s) ==
  /\ s \in Table
  /\ \A i, j \in DOMAIN s.chain : s.chain[i].id = s.chain[j].id => i = j
  /\ \A i \in DOMAIN s.chain :
       /\ s.chain[i].entries # <<>>
       /\ \A j \in DOMAIN s.chain[i].entries :
            s.chain[i].id = Bucket(s, s.chain[i].id[1], s.chain[i].entries[j].key)
       /\ \A j, n \in DOMAIN s.chain[i].entries :
            s.chain[i].entries[j].key = s.chain[i].entries[n].key => j = n
  /\ \E m \in 0 .. Len(s.chain) : Border(s, m)

\* The entries of a world.
Here(s, w) ==
  {e \in Entry : \E i \in DOMAIN s.chain : \E j \in DOMAIN s.chain[i].entries :
                   s.chain[i].id[1] = w /\ s.chain[i].entries[j] = e}

---------------------------------------------------------------------------
(* Sequences and numbers.                                                  *)

LEMMA RemoveAtFacts ==
  ASSUME NEW T, NEW q \in Seq(T), NEW i \in 1 .. Len(q)
  PROVE  /\ RemoveAt(q, i) \in Seq(T)
         /\ Len(RemoveAt(q, i)) = Len(q) - 1
         /\ \A j \in 1 .. Len(q) - 1 : RemoveAt(q, i)[j] = IF j < i THEN q[j] ELSE q[j + 1]
<1>1. RemoveAt(q, i) = Cut(q, i)
  BY DEF RemoveAt, Cut
<1>2. Cuts(T, q, Cut(q, i), i)
  BY CutFacts
<1> QED BY <1>1, <1>2 DEF Cuts

LEMMA ModIsNat ==
  ASSUME NEW k \in Nat, NEW n \in Nat \ {0}
  PROVE  k % n \in Nat
  OBVIOUS

LEMMA BucketIsId ==
  ASSUME NEW s \in Table, NEW w \in Worlds, NEW k \in Keys
  PROVE  Bucket(s, w, k) \in BucketId /\ Bucket(s, w, k)[1] = w
<1>1. k \in Nat /\ s.size[w] \in Nat \ {0}
  BY TableAssumption DEF Table
<1>2. k % s.size[w] \in Nat
  BY <1>1, ModIsNat
<1> QED BY <1>2 DEF Bucket, BucketId

LEMMA SameBuckets ==
  ASSUME NEW s, NEW r, r.size = s.size
  PROVE  \A w, k : Bucket(r, w, k) = Bucket(s, w, k)
  BY DEF Bucket

LEMMA BucketIsNotNone == None \notin BucketId
<1> SUFFICES ASSUME NEW w \in Worlds, NEW k \in Nat PROVE <<w, k>> # <<>>
  BY DEF None, BucketId
<1> QED OBVIOUS

LEMMA ChainFacts ==
  ASSUME NEW s, Structure(s)
  PROVE  /\ s \in Table /\ s.chain \in Seq(Link) /\ Len(s.chain) \in Nat
         /\ DOMAIN s.chain = 1 .. Len(s.chain)
         /\ \A i \in DOMAIN s.chain : /\ s.chain[i] \in Link /\ s.chain[i].id \in BucketId
                                      /\ s.chain[i].entries \in Seq(Entry)
<1>1. s \in Table /\ s.chain \in Seq(Link)
  BY DEF Structure, Table
<1>2. \A i \in DOMAIN s.chain : s.chain[i] \in Link
  BY <1>1
<1> QED BY <1>1, <1>2 DEF Link

LEMMA Positions ==
  ASSUME NEW s, Structure(s), NEW i \in DOMAIN s.chain
  PROVE  /\ s.chain[i] \in Link
         /\ InUse(s, s.chain[i].id) /\ Position(s, s.chain[i].id) = i
         /\ EntriesOf(s, s.chain[i].id) = s.chain[i].entries
<1>1. s.chain[i] \in Link
  BY DEF Structure, Table
<1>2. InUse(s, s.chain[i].id)
  BY DEF InUse
<1>3. \A j \in DOMAIN s.chain : s.chain[j].id = s.chain[i].id => j = i
  BY DEF Structure
<1>4. Position(s, s.chain[i].id) = i
  BY <1>3 DEF Position
<1> QED BY <1>1, <1>2, <1>4 DEF EntriesOf

---------------------------------------------------------------------------
(* A bucket leaves the list.                                               *)

\* Where the element that is at j after the removal of p was before.
Skip(p, j) == IF j < p THEN j ELSE j + 1

LEMMA SkipFacts ==
  ASSUME NEW n \in Nat, NEW p \in 1 .. n
  PROVE  /\ \A j \in 1 .. n - 1 : Skip(p, j) \in 1 .. n /\ Skip(p, j) # p
         /\ \A i, j \in 1 .. n - 1 : Skip(p, i) = Skip(p, j) => i = j
         /\ \A k \in 1 .. n : k # p => \E j \in 1 .. n - 1 : k = Skip(p, j)
<1>1. ASSUME NEW k \in 1 .. n, k # p
      PROVE  \E j \in 1 .. n - 1 : k = Skip(p, j)
  <2>1. CASE k < p
    <3>1. k \in 1 .. n - 1 /\ k = Skip(p, k)
      BY <2>1 DEF Skip
    <3> QED BY <3>1
  <2>2. CASE k > p
    <3>1. k - 1 \in 1 .. n - 1 /\ k = Skip(p, k - 1)
      BY <2>2 DEF Skip
    <3> QED BY <3>1
  <2> QED BY <1>1, <2>1, <2>2
<1> QED BY <1>1 DEF Skip

\* What RemoveBucket makes of the list, its bucket being at p.
Removal(s, p, r) ==
  LET b == s.chain[p].id
      n == Len(s.chain)
  IN  /\ r = [s EXCEPT !.chain = r.chain, !.first = r.first]
      /\ r.world = s.world /\ r.size = s.size /\ r.count = s.count
      /\ r.first = IF s.first # b THEN s.first ELSE IF p < n THEN s.chain[p + 1].id ELSE None
      /\ r.chain \in Seq(Link) /\ Len(r.chain) = n - 1 /\ DOMAIN r.chain = 1 .. n - 1
      /\ \A j \in 1 .. n - 1 : r.chain[j] = s.chain[Skip(p, j)]

LEMMA RemovalShape ==
  ASSUME NEW s, Structure(s), NEW p \in DOMAIN s.chain
  PROVE  Removal(s, p, RemoveBucket(s, s.chain[p].id))
<1> DEFINE n == Len(s.chain)  b == s.chain[p].id  r == RemoveBucket(s, b)
<1>1. /\ s \in Table /\ s.chain \in Seq(Link) /\ n \in Nat /\ p \in 1 .. n /\ Position(s, b) = p
  BY ChainFacts, Positions
<1>2. r = [s EXCEPT !.chain = RemoveAt(s.chain, p),
                    !.first = IF s.first # b THEN s.first
                              ELSE IF p < n THEN s.chain[p + 1].id ELSE None]
  BY <1>1 DEF RemoveBucket, Table
<1> HIDE DEF n, b, r
<1>3. /\ r.chain = RemoveAt(s.chain, p)
      /\ r.first = IF s.first # b THEN s.first ELSE IF p < n THEN s.chain[p + 1].id ELSE None
      /\ r.world = s.world /\ r.size = s.size /\ r.count = s.count
  BY <1>1, <1>2 DEF Table
<1>4. /\ RemoveAt(s.chain, p) \in Seq(Link) /\ Len(RemoveAt(s.chain, p)) = n - 1
      /\ \A j \in 1 .. n - 1 : RemoveAt(s.chain, p)[j] = IF j < p THEN s.chain[j] ELSE s.chain[j + 1]
  BY <1>1, RemoveAtFacts DEF n
<1>5. DOMAIN r.chain = 1 .. n - 1
  BY <1>3, <1>4
<1>6. \A j \in 1 .. n - 1 : r.chain[j] = s.chain[Skip(p, j)]
  BY <1>3, <1>4 DEF Skip
<1>7. r = [s EXCEPT !.chain = r.chain, !.first = r.first]
  BY <1>2, <1>3
<1> QED BY <1>3, <1>4, <1>5, <1>6, <1>7 DEF n, b, r, Removal

LEMMA BorderAfterRemoval ==
  ASSUME NEW s, Structure(s), NEW p \in DOMAIN s.chain, NEW m \in 0 .. Len(s.chain),
         Border(s, m)
  PROVE  LET r == RemoveBucket(s, s.chain[p].id)
             k == IF p <= m THEN m - 1 ELSE m
         IN  k \in 0 .. Len(r.chain) /\ Border(r, k)
<1> DEFINE n == Len(s.chain)  b == s.chain[p].id  r == RemoveBucket(s, b)
           k == IF p <= m THEN m - 1 ELSE m
<1>1. /\ n \in Nat /\ p \in 1 .. n /\ DOMAIN s.chain = 1 .. n /\ b \in BucketId
  BY ChainFacts
<1>0. Removal(s, p, r)
  BY RemovalShape
<1> HIDE DEF r
<1>2. /\ r.world = s.world
      /\ r.first = IF s.first # b THEN s.first ELSE IF p < n THEN s.chain[p + 1].id ELSE None
  BY <1>0 DEF Removal
<1>3. /\ Len(r.chain) = n - 1 /\ DOMAIN r.chain = 1 .. n - 1
      /\ \A j \in 1 .. n - 1 : r.chain[j] = s.chain[Skip(p, j)]
  BY <1>0 DEF Removal
<1>4. \A i, j \in 1 .. n : s.chain[i].id = s.chain[j].id => i = j
  BY <1>1 DEF Structure
<1>5. /\ \A i \in 1 .. n : s.chain[i].id[1] = s.world <=> i > m
      /\ s.first = IF m = n THEN None ELSE s.chain[m + 1].id
      /\ m \in 0 .. n
  BY <1>1 DEF Border
<1> HIDE DEF n, b, r
<1>6. k \in 0 .. n - 1
  BY <1>1, <1>5
<1>7. ASSUME NEW j \in 1 .. n - 1
      PROVE  r.chain[j].id[1] = r.world <=> j > k
  <2>1. Skip(p, j) \in 1 .. n
    BY <1>1, SkipFacts
  <2>2. Skip(p, j) > m <=> j > k
    BY <1>1, <1>5 DEF Skip
  <2> QED BY <2>1, <2>2, <1>2, <1>3, <1>5
<1>8. r.first = IF k = n - 1 THEN None ELSE r.chain[k + 1].id
  <2>0. None # b
    BY <1>1, BucketIsNotNone
  <2>1. CASE p <= m
    <3>1. s.first # b
      <4>1. m # n => m + 1 \in 1 .. n /\ m + 1 # p
        BY <1>1, <1>5, <2>1
      <4>2. m # n => s.chain[m + 1].id # s.chain[p].id
        BY <4>1, <1>1, <1>4
      <4> QED BY <4>2, <1>5, <2>0 DEF b
    <3>2. k = m - 1 /\ (k # n - 1 => k + 1 \in 1 .. n - 1 /\ Skip(p, k + 1) = m + 1)
      BY <1>1, <1>5, <2>1 DEF Skip
    <3>3. k = n - 1 <=> m = n
      BY <1>1, <1>5, <3>2
    <3> QED BY <3>1, <3>2, <3>3, <1>2, <1>3, <1>5
  <2>2. CASE p = m + 1
    <3>1. s.first = b /\ k = m
      BY <1>1, <1>5, <2>2 DEF b
    <3>2. k # n - 1 => p < n /\ k + 1 \in 1 .. n - 1 /\ Skip(p, k + 1) = p + 1
      <4>1. n \in Nat /\ p \in 1 .. n /\ m \in 0 .. n /\ k = m /\ p = m + 1
        BY <1>1, <1>5, <2>2, <3>1
      <4> HIDE DEF k
      <4>2. k # n - 1 => p < n /\ k + 1 \in 1 .. n - 1
        BY <4>1
      <4>3. Skip(p, k + 1) = p + 1
        BY <4>1 DEF Skip
      <4> QED BY <4>2, <4>3
    <3>3. k = n - 1 => ~(p < n)
      BY <1>1, <1>5, <2>2, <3>1
    <3> QED BY <3>1, <3>2, <3>3, <1>2, <1>3
  <2>3. CASE p > m + 1
    <3>1. m + 1 \in 1 .. n /\ m + 1 # p /\ m # n /\ k = m /\ k # n - 1
          /\ k + 1 \in 1 .. n - 1 /\ Skip(p, k + 1) = m + 1
      BY <1>1, <1>5, <2>3 DEF Skip
    <3>2. s.first = s.chain[m + 1].id /\ s.first # b
      BY <3>1, <1>1, <1>4, <1>5 DEF b
    <3> QED BY <3>1, <3>2, <1>2, <1>3
  <2> QED BY <1>1, <1>5, <2>1, <2>2, <2>3
<1>9. k \in 0 .. Len(r.chain) /\ Border(r, k)
  BY <1>3, <1>6, <1>7, <1>8 DEF Border
<1> QED BY <1>9 DEF r, b

\* r is s without the bucket at p and its entries.
Taken(s, p, r) ==
  /\ Structure(r) /\ ~InUse(r, s.chain[p].id)
  /\ r.world = s.world /\ r.size = s.size /\ r.count = s.count
  /\ \A w : Here(r, w) = IF w = s.chain[p].id[1]
                         THEN Here(s, w) \ ToSet(s.chain[p].entries) ELSE Here(s, w)
  /\ ToSet(s.chain[p].entries) \subseteq Here(s, s.chain[p].id[1])

LEMMA RemoveBucketFacts ==
  ASSUME NEW s, Structure(s), NEW p \in DOMAIN s.chain
  PROVE  Taken(s, p, RemoveBucket(s, s.chain[p].id))
<1> DEFINE n == Len(s.chain)  b == s.chain[p].id  r == RemoveBucket(s, b)
           es == s.chain[p].entries
<1>1. /\ n \in Nat /\ p \in 1 .. n /\ DOMAIN s.chain = 1 .. n /\ b \in BucketId
      /\ es \in Seq(Entry) /\ \A i \in 1 .. n : s.chain[i].id \in BucketId
  BY ChainFacts
<1>0. Removal(s, p, r)
  BY RemovalShape
<1> HIDE DEF r
<1>2. /\ r.world = s.world /\ r.size = s.size /\ r.count = s.count
      /\ r.first = IF s.first # b THEN s.first ELSE IF p < n THEN s.chain[p + 1].id ELSE None
      /\ r = [s EXCEPT !.chain = r.chain, !.first = r.first]
  BY <1>0 DEF Removal
<1>3. /\ r.chain \in Seq(Link) /\ Len(r.chain) = n - 1 /\ DOMAIN r.chain = 1 .. n - 1
      /\ \A j \in 1 .. n - 1 : r.chain[j] = s.chain[Skip(p, j)]
  BY <1>0 DEF Removal
<1>4. /\ \A j \in 1 .. n - 1 : Skip(p, j) \in 1 .. n /\ Skip(p, j) # p
      /\ \A i, j \in 1 .. n - 1 : Skip(p, i) = Skip(p, j) => i = j
      /\ \A k \in 1 .. n : k # p => \E j \in 1 .. n - 1 : k = Skip(p, j)
  BY <1>1, SkipFacts
<1>5. /\ \A i, j \in 1 .. n : s.chain[i].id = s.chain[j].id => i = j
      /\ \A i \in 1 .. n :
           /\ s.chain[i].entries # <<>>
           /\ \A j \in DOMAIN s.chain[i].entries :
                s.chain[i].id = Bucket(s, s.chain[i].id[1], s.chain[i].entries[j].key)
           /\ \A j, m \in DOMAIN s.chain[i].entries :
                s.chain[i].entries[j].key = s.chain[i].entries[m].key => j = m
  BY <1>1 DEF Structure
<1>6. \E k \in 0 .. Len(r.chain) : Border(r, k)
  <2>1. PICK m \in 0 .. Len(s.chain) : Border(s, m)
    BY DEF Structure
  <2> QED BY <2>1, BorderAfterRemoval DEF r
<1> HIDE DEF n, b, r, es
<1>7. r \in Table
  <2>1. r.first \in BucketId \cup {None}
    <3>1. p < n => p + 1 \in 1 .. n
      BY <1>1
    <3>2. s.first \in BucketId \cup {None}
      BY DEF Structure, Table
    <3> QED BY <3>1, <3>2, <1>1, <1>2
  <2>2. [s EXCEPT !.chain = r.chain, !.first = r.first] \in Table
    BY <1>3, <2>1 DEF Structure, Table
  <2> QED BY <1>2, <2>2
<1>8. Structure(r)
  <2>1. \A i, j \in DOMAIN r.chain : r.chain[i].id = r.chain[j].id => i = j
    BY <1>3, <1>4, <1>5
  <2>2. ASSUME NEW i \in DOMAIN r.chain
        PROVE  /\ r.chain[i].entries # <<>>
               /\ \A j \in DOMAIN r.chain[i].entries :
                    r.chain[i].id = Bucket(r, r.chain[i].id[1], r.chain[i].entries[j].key)
               /\ \A j, m \in DOMAIN r.chain[i].entries :
                    r.chain[i].entries[j].key = r.chain[i].entries[m].key => j = m
    <3>1. r.chain[i] = s.chain[Skip(p, i)] /\ Skip(p, i) \in 1 .. n
      BY <1>3, <1>4
    <3>2. \A w, k : Bucket(r, w, k) = Bucket(s, w, k)
      BY <1>2, SameBuckets
    <3> QED BY <3>1, <3>2, <1>5
  <2> QED BY <1>6, <1>7, <2>1, <2>2 DEF Structure
<1>9. ~InUse(r, b)
  <2>1. ASSUME NEW j \in 1 .. n - 1 PROVE r.chain[j].id # b
    <3>1. Skip(p, j) \in 1 .. n /\ Skip(p, j) # p /\ r.chain[j] = s.chain[Skip(p, j)]
      BY <1>3, <1>4
    <3> QED BY <3>1, <1>1, <1>5 DEF b
  <2> QED BY <2>1, <1>3 DEF InUse
<1>10. ToSet(es) \subseteq Here(s, b[1])
  BY <1>1 DEF ToSet, Here, b, es
<1>11. ASSUME NEW w, NEW e \in Entry
       PROVE  e \in Here(r, w) <=> e \in Here(s, w) /\ (w = b[1] => e \notin ToSet(es))
  <2>1. ASSUME e \in Here(r, w)
        PROVE  e \in Here(s, w) /\ (w = b[1] => e \notin ToSet(es))
    <3>1. PICK i \in DOMAIN r.chain : \E j \in DOMAIN r.chain[i].entries :
                                  r.chain[i].id[1] = w /\ r.chain[i].entries[j] = e
      BY <2>1 DEF Here
    <3>2. PICK j \in DOMAIN r.chain[i].entries :
                                  r.chain[i].id[1] = w /\ r.chain[i].entries[j] = e
      BY <3>1
    <3> DEFINE k == Skip(p, i)
    <3>3. r.chain[i] = s.chain[k] /\ k \in 1 .. n /\ k # p
      BY <1>3, <1>4, <3>1
    <3> HIDE DEF k
    <3>4. e \in Here(s, w)
      BY <3>2, <3>3, <1>1 DEF Here
    <3>5. ASSUME w = b[1], NEW m \in DOMAIN es, es[m] = e PROVE FALSE
      <4>1. b = Bucket(s, w, e.key) /\ s.chain[k].id = Bucket(s, w, e.key)
        BY <3>2, <3>3, <3>5, <1>1, <1>5 DEF b, es
      <4> QED BY <4>1, <3>3, <1>1, <1>5 DEF b
    <3> QED BY <3>4, <3>5 DEF ToSet
  <2>2. ASSUME e \in Here(s, w), w = b[1] => e \notin ToSet(es)
        PROVE  e \in Here(r, w)
    <3>1. PICK k \in 1 .. n : \E j \in DOMAIN s.chain[k].entries :
                                  s.chain[k].id[1] = w /\ s.chain[k].entries[j] = e
      BY <2>2, <1>1 DEF Here
    <3>2. k # p
      BY <3>1, <2>2 DEF ToSet, b, es
    <3>3. PICK i \in 1 .. n - 1 : k = Skip(p, i)
      BY <3>2, <1>4
    <3>4. r.chain[i] = s.chain[k] /\ i \in DOMAIN r.chain
      BY <3>3, <1>3
    <3> QED BY <3>1, <3>4 DEF Here
  <2> QED BY <2>1, <2>2
<1>12. \A w : Here(r, w) = IF w = b[1] THEN Here(s, w) \ ToSet(es) ELSE Here(s, w)
  <2>1. \A w : Here(r, w) \subseteq Entry /\ Here(s, w) \subseteq Entry
    BY DEF Here
  <2> QED BY <2>1, <1>11
<1> HIDE DEF r
<1>13. Taken(s, p, r)
  BY <1>2, <1>8, <1>9, <1>10, <1>12 DEF b, es, Taken
<1> QED BY <1>13 DEF b, r

---------------------------------------------------------------------------
(* A bucket gets other entries, or is put at the end of the list.          *)

\* Entries that the bucket b may hold.
Fits(s, b, es) ==
  /\ es \in Seq(Entry) /\ es # <<>>
  /\ \A j \in DOMAIN es : b = Bucket(s, b[1], es[j].key)
  /\ \A j, n \in DOMAIN es : es[j].key = es[n].key => j = n

LEMMA OtherBucketsDiffer ==
  ASSUME NEW s, Structure(s), NEW p \in DOMAIN s.chain, NEW i \in DOMAIN s.chain, i # p,
         s.chain[i].id[1] = s.chain[p].id[1],
         NEW j \in DOMAIN s.chain[i].entries
  PROVE  s.chain[p].id # Bucket(s, s.chain[p].id[1], s.chain[i].entries[j].key)
<1>1. s.chain[i].id = Bucket(s, s.chain[i].id[1], s.chain[i].entries[j].key)
  BY DEF Structure
<1>2. s.chain[i].id # s.chain[p].id
  BY DEF Structure
<1> QED BY <1>1, <1>2

\* r is s but for the entries es of the bucket at p.
Replaced(s, p, es, r) ==
  /\ Structure(r)
  /\ r.world = s.world /\ r.size = s.size /\ r.count = s.count
  /\ \A w : Here(r, w) =
       IF w = s.chain[p].id[1] THEN (Here(s, w) \ ToSet(s.chain[p].entries)) \cup ToSet(es)
       ELSE Here(s, w)

LEMMA ReplaceFacts ==
  ASSUME NEW s, Structure(s), NEW p \in DOMAIN s.chain, NEW es, Fits(s, s.chain[p].id, es)
  PROVE  Replaced(s, p, es, [s EXCEPT !.chain[p].entries = es])
<1> DEFINE r == [s EXCEPT !.chain[p].entries = es]
           b == s.chain[p].id
           n == Len(s.chain)
           c == [id |-> b, entries |-> es]
<1>1. /\ s \in Table /\ s.chain \in Seq(Link) /\ n \in Nat /\ DOMAIN s.chain = 1 .. n
      /\ \A i \in 1 .. n : /\ s.chain[i] \in Link /\ s.chain[i].id \in BucketId
                           /\ s.chain[i].entries \in Seq(Entry)
      /\ p \in 1 .. n
  BY ChainFacts
<1>2. c \in Link /\ c.id = b /\ c.entries = es
  BY <1>1 DEF Link, Fits
<1>3. r = [s EXCEPT !.chain = [s.chain EXCEPT ![p] = c]]
  <2> DEFINE l == s.chain[p]
  <2>0. l \in [id : BucketId, entries : Seq(Entry)] /\ l.id = b
    BY <1>1 DEF Link
  <2> HIDE DEF l
  <2>1. [l EXCEPT !.entries = es] = [id |-> l.id, entries |-> es]
    BY <2>0
  <2>2. [s.chain[p] EXCEPT !.entries = es] = c
    BY <2>0, <2>1 DEF l
  <2> QED BY <2>2
<1> HIDE DEF c, r
<1>4. /\ r.chain = [s.chain EXCEPT ![p] = c] /\ r.world = s.world /\ r.first = s.first
      /\ r.size = s.size /\ r.count = s.count
  BY <1>1, <1>3 DEF Table
<1>5. /\ r.chain \in Seq(Link) /\ Len(r.chain) = n /\ DOMAIN r.chain = 1 .. n
      /\ \A i \in 1 .. n : r.chain[i] = IF i = p THEN c ELSE s.chain[i]
  <2>1. /\ [s.chain EXCEPT ![p] = c] \in Seq(Link) /\ Len([s.chain EXCEPT ![p] = c]) = Len(s.chain)
        /\ \A i \in 1 .. Len(s.chain) : [s.chain EXCEPT ![p] = c][i] = IF i = p THEN c ELSE s.chain[i]
    BY <1>1, <1>2, ExceptSeq
  <2> HIDE DEF n
  <2> QED BY <2>1, <1>4, <1>1 DEF n
<1>6. r \in Table
  BY <1>1, <1>3, <1>4, <1>5 DEF Table
<1>7. \A i \in 1 .. n : r.chain[i].id = s.chain[i].id
  BY <1>2, <1>5 DEF b
<1>8. \E m \in 0 .. Len(r.chain) : Border(r, m)
  <2>1. PICK m \in 0 .. n : Border(s, m)
    BY <1>1 DEF Structure
  <2>2. m # n => m + 1 \in 1 .. n
    BY <1>1
  <2> HIDE DEF n, b
  <2>3. Border(r, m)
    <3>1. /\ \A i \in 1 .. n : s.chain[i].id[1] = s.world <=> i > m
          /\ s.first = IF m = n THEN None ELSE s.chain[m + 1].id
      BY <1>1, <2>1 DEF Border, n
    <3>2. \A i \in 1 .. n : r.chain[i].id[1] = r.world <=> i > m
      BY <1>4, <1>7, <3>1
    <3>3. r.first = IF m = n THEN None ELSE r.chain[m + 1].id
      BY <1>4, <1>7, <2>2, <3>1
    <3> QED BY <1>5, <3>2, <3>3 DEF Border
  <2> QED BY <1>5, <2>1, <2>3
<1> HIDE DEF n, b
<1>9. Structure(r)
  <2>1. \A i, j \in DOMAIN r.chain : r.chain[i].id = r.chain[j].id => i = j
    BY <1>1, <1>5, <1>7 DEF Structure
  <2>2. ASSUME NEW i \in DOMAIN r.chain
        PROVE  /\ r.chain[i].entries # <<>>
               /\ \A j \in DOMAIN r.chain[i].entries :
                    r.chain[i].id = Bucket(r, r.chain[i].id[1], r.chain[i].entries[j].key)
               /\ \A j, m \in DOMAIN r.chain[i].entries :
                    r.chain[i].entries[j].key = r.chain[i].entries[m].key => j = m
    <3>1. CASE i = p
      <4>1. r.chain[i].id = b /\ r.chain[i].entries = es
        BY <3>1, <1>1, <1>2, <1>5 DEF b
      <4>2. \A w, k : Bucket(r, w, k) = Bucket(s, w, k)
        BY <1>4, SameBuckets
      <4>3. /\ es # <<>> /\ \A j \in DOMAIN es : b = Bucket(s, b[1], es[j].key)
            /\ \A j, m \in DOMAIN es : es[j].key = es[m].key => j = m
        BY DEF Fits, b
      <4> QED BY <4>1, <4>2, <4>3
    <3>2. CASE i # p
      <4>1. r.chain[i] = s.chain[i] /\ i \in DOMAIN s.chain
        BY <3>2, <1>1, <1>5
      <4>2. \A w, k : Bucket(r, w, k) = Bucket(s, w, k)
        BY <1>4, SameBuckets
      <4>3. /\ s.chain[i].entries # <<>>
            /\ \A j \in DOMAIN s.chain[i].entries :
                 s.chain[i].id = Bucket(s, s.chain[i].id[1], s.chain[i].entries[j].key)
            /\ \A j, m \in DOMAIN s.chain[i].entries :
                 s.chain[i].entries[j].key = s.chain[i].entries[m].key => j = m
        BY <4>1 DEF Structure
      <4> QED BY <4>1, <4>2, <4>3
    <3> QED BY <3>1, <3>2
  <2> QED BY <1>6, <1>8, <2>1, <2>2 DEF Structure
<1>10. ASSUME NEW w, NEW e \in Entry
       PROVE  e \in Here(r, w) <=>
                IF w = b[1] THEN (e \in Here(s, w) /\ e \notin ToSet(s.chain[p].entries)) \/ e \in ToSet(es)
                ELSE e \in Here(s, w)
  <2> DEFINE Other == \E i \in 1 .. n : i # p /\ s.chain[i].id[1] = w
                         /\ \E j \in DOMAIN s.chain[i].entries : s.chain[i].entries[j] = e
  <2>1. e \in Here(r, w) <=> Other \/ (w = b[1] /\ e \in ToSet(es))
    <3>1. e \in Here(r, w) <=> \E i \in 1 .. n : r.chain[i].id[1] = w
                         /\ \E j \in DOMAIN r.chain[i].entries : r.chain[i].entries[j] = e
      BY <1>5 DEF Here
    <3>2. \A i \in 1 .. n : i # p => r.chain[i] = s.chain[i]
      BY <1>5
    <3>3. r.chain[p].id = b /\ r.chain[p].entries = es
      BY <1>1, <1>2, <1>5
    <3> QED BY <3>1, <3>2, <3>3, <1>1 DEF ToSet
  <2>2. e \in Here(s, w) <=> Other \/ (w = b[1] /\ e \in ToSet(s.chain[p].entries))
    BY <1>1 DEF Here, ToSet, b
  <2>3. ASSUME w = b[1], Other PROVE e \notin ToSet(s.chain[p].entries)
    <3>1. PICK i \in 1 .. n : i # p /\ s.chain[i].id[1] = w
                         /\ \E j \in DOMAIN s.chain[i].entries : s.chain[i].entries[j] = e
      BY <2>3
    <3>2. PICK j \in DOMAIN s.chain[i].entries : s.chain[i].entries[j] = e
      BY <3>1
    <3>3. b # Bucket(s, w, e.key)
      <4>1. /\ i \in DOMAIN s.chain /\ s.chain[i].id[1] = s.chain[p].id[1]
            /\ w = s.chain[p].id[1] /\ s.chain[i].entries[j].key = e.key
        BY <3>1, <3>2, <2>3, <1>1 DEF b
      <4>2. s.chain[p].id # Bucket(s, s.chain[p].id[1], s.chain[i].entries[j].key)
        BY <3>1, <3>2, <4>1, <1>1, OtherBucketsDiffer
      <4> QED BY <4>1, <4>2 DEF b
    <3> QED BY <3>3, <2>3, <1>1 DEF Structure, ToSet, b
  <2> HIDE DEF Other
  <2> QED BY <2>1, <2>2, <2>3
<1>11. \A w : Here(r, w) =
                  IF w = b[1] THEN (Here(s, w) \ ToSet(s.chain[p].entries)) \cup ToSet(es)
                  ELSE Here(s, w)
  <2>1. \A w : Here(r, w) \subseteq Entry /\ Here(s, w) \subseteq Entry
    BY DEF Here
  <2>2. ToSet(es) \subseteq Entry
    BY DEF Fits, ToSet
  <2> QED BY <2>1, <2>2, <1>10
<1> QED BY <1>4, <1>9, <1>11 DEF r, b, Replaced

\* An unused bucket of the current world goes to the end of the list.
LEMMA AppendBucketFacts ==
  ASSUME NEW s, Structure(s), NEW e \in Entry,
         ~InUse(s, Bucket(s, s.world, e.key))
  PROVE  LET b == Bucket(s, s.world, e.key)
             r == AddEntry(s, b, e)
         IN  /\ Structure(r)
             /\ r.world = s.world /\ r.size = s.size /\ r.count = s.count
             /\ \A w : Here(r, w) = IF w = s.world THEN Here(s, w) \cup {e} ELSE Here(s, w)
<1> DEFINE b == Bucket(s, s.world, e.key)
           r == AddEntry(s, b, e)
           n == Len(s.chain)
           c == [id |-> b, entries |-> <<e>>]
<1>1. /\ s \in Table /\ s.chain \in Seq(Link) /\ n \in Nat /\ DOMAIN s.chain = 1 .. n
      /\ \A i \in 1 .. n : /\ s.chain[i] \in Link /\ s.chain[i].id \in BucketId
                           /\ s.chain[i].entries \in Seq(Entry)
  BY ChainFacts
<1>2. b \in BucketId /\ b[1] = s.world
  <2>1. s.world \in Worlds /\ e.key \in Keys
    BY <1>1 DEF Table, Entry
  <2> QED BY <1>1, <2>1, BucketIsId
<1>3. c \in Link /\ c.id = b /\ c.entries = <<e>>
  BY <1>2 DEF Link
<1>4. r = [s EXCEPT !.chain = Append(s.chain, c), !.first = IF s.first = None THEN b ELSE s.first]
  BY <1>1 DEF AddEntry, Table
<1> HIDE DEF c, r, b
<1>5. /\ r.chain = Append(s.chain, c) /\ r.world = s.world
      /\ r.first = (IF s.first = None THEN b ELSE s.first)
      /\ r.size = s.size /\ r.count = s.count
  BY <1>1, <1>4 DEF Table
<1>6. /\ r.chain \in Seq(Link) /\ Len(r.chain) = n + 1 /\ DOMAIN r.chain = 1 .. n + 1
      /\ \A i \in 1 .. n : r.chain[i] = s.chain[i]
      /\ r.chain[n + 1] = c
  BY <1>1, <1>3, <1>5, AppendProperties
<1>7. r \in Table
  BY <1>1, <1>2, <1>4, <1>5, <1>6 DEF Table
<1> HIDE DEF n
<1>8. \A i \in 1 .. n : s.chain[i].id # b
  BY <1>1 DEF InUse, b
<1>9. \E m \in 0 .. Len(r.chain) : Border(r, m)
  <2>1. PICK m \in 0 .. n : Border(s, m)
    BY <1>1 DEF Structure, n
  <2>2. /\ \A i \in 1 .. n : s.chain[i].id[1] = s.world <=> i > m
        /\ s.first = IF m = n THEN None ELSE s.chain[m + 1].id
    BY <1>1, <2>1 DEF Border, n
  <2>3. ASSUME NEW i \in DOMAIN r.chain
        PROVE  r.chain[i].id[1] = r.world <=> i > m
    <3>1. CASE i = n + 1
      BY <3>1, <1>1, <1>2, <1>3, <1>5, <1>6, <2>1
    <3>2. CASE i # n + 1
      <4>1. i \in 1 .. n
        BY <3>2, <1>1, <1>6
      <4> QED BY <4>1, <1>5, <1>6, <2>2
    <3> QED BY <3>1, <3>2
  <2>4. m # n + 1 /\ m \in 0 .. n + 1
    BY <1>1
  <2>5. r.first = r.chain[m + 1].id
    <3>1. CASE m = n
      BY <3>1, <2>2, <1>3, <1>5, <1>6
    <3>2. CASE m # n
      <4>1. m + 1 \in 1 .. n
        BY <3>2, <1>1
      <4>2. s.chain[m + 1].id # None
        BY <4>1, <1>1, BucketIsNotNone
      <4> QED BY <3>2, <4>1, <4>2, <2>2, <1>5, <1>6
    <3> QED BY <3>1, <3>2
  <2> QED BY <2>3, <2>4, <2>5, <1>6 DEF Border
<1>10. Structure(r)
  <2>1. ASSUME NEW i \in DOMAIN r.chain, NEW j \in DOMAIN r.chain, r.chain[i].id = r.chain[j].id
        PROVE  i = j
    <3>1. i \in 1 .. n \/ i = n + 1
      BY <1>1, <1>6
    <3>2. j \in 1 .. n \/ j = n + 1
      BY <1>1, <1>6
    <3> QED BY <3>1, <3>2, <2>1, <1>1, <1>3, <1>6, <1>8 DEF Structure
  <2>2. ASSUME NEW i \in DOMAIN r.chain
        PROVE  /\ r.chain[i].entries # <<>>
               /\ \A j \in DOMAIN r.chain[i].entries :
                    r.chain[i].id = Bucket(r, r.chain[i].id[1], r.chain[i].entries[j].key)
               /\ \A j, m \in DOMAIN r.chain[i].entries :
                    r.chain[i].entries[j].key = r.chain[i].entries[m].key => j = m
    <3>1. CASE i = n + 1
      <4>1. r.chain[i].id = b /\ r.chain[i].entries = <<e>> /\ DOMAIN <<e>> = {1} /\ <<e>>[1] = e
        BY <3>1, <1>3, <1>6
      <4>2. b = Bucket(r, b[1], e.key)
        BY <1>2, <1>5 DEF b, Bucket
      <4>3. <<e>> # <<>>
        OBVIOUS
      <4> QED BY <4>1, <4>2, <4>3
    <3>2. CASE i # n + 1
      <4>1. r.chain[i] = s.chain[i] /\ i \in DOMAIN s.chain
        BY <3>2, <1>1, <1>6
      <4>2. \A w, k : Bucket(r, w, k) = Bucket(s, w, k)
        BY <1>5, SameBuckets
      <4>3. /\ s.chain[i].entries # <<>>
            /\ \A j \in DOMAIN s.chain[i].entries :
                 s.chain[i].id = Bucket(s, s.chain[i].id[1], s.chain[i].entries[j].key)
            /\ \A j, m \in DOMAIN s.chain[i].entries :
                 s.chain[i].entries[j].key = s.chain[i].entries[m].key => j = m
        BY <4>1 DEF Structure
      <4> QED BY <4>1, <4>2, <4>3
    <3> QED BY <3>1, <3>2
  <2> QED BY <1>7, <1>9, <2>1, <2>2 DEF Structure
<1>11. ASSUME NEW w, NEW f \in Entry
       PROVE  f \in Here(r, w) <=> f \in Here(s, w) \/ (w = s.world /\ f = e)
  <2> DEFINE In(i) == r.chain[i].id[1] = w
                      /\ \E j \in DOMAIN r.chain[i].entries : r.chain[i].entries[j] = f
  <2>1. f \in Here(r, w) <=> \E i \in 1 .. n + 1 : In(i)
    BY <1>6 DEF Here
  <2>2. f \in Here(s, w) <=> \E i \in 1 .. n : In(i)
    BY <1>1, <1>6 DEF Here
  <2>3. In(n + 1) <=> w = s.world /\ f = e
    <3>1. r.chain[n + 1].id = b /\ r.chain[n + 1].entries = <<e>> /\ DOMAIN <<e>> = {1} /\ <<e>>[1] = e
      BY <1>3, <1>6
    <3> QED BY <3>1, <1>2
  <2>4. \A i \in 1 .. n + 1 : i \in 1 .. n \/ i = n + 1
    BY <1>1
  <2>5. n + 1 \in 1 .. n + 1 /\ \A i \in 1 .. n : i \in 1 .. n + 1
    BY <1>1
  <2> HIDE DEF In
  <2> QED BY <2>1, <2>2, <2>3, <2>4, <2>5
<1>12. \A w : Here(r, w) = IF w = s.world THEN Here(s, w) \cup {e} ELSE Here(s, w)
  <2>1. \A w : Here(r, w) \subseteq Entry /\ Here(s, w) \subseteq Entry
    BY DEF Here
  <2> QED BY <2>1, <1>11
<1> QED BY <1>5, <1>10, <1>12 DEF r, b

---------------------------------------------------------------------------
(* What _add_entry_to_bucket(), _remove_entry() and an overwriting set()   *)
(* do to the entries of the current world.                                 *)

\* r is s but for the entries of the current world, which are here.
Holding(s, r, here) ==
  /\ Structure(r)
  /\ r.world = s.world /\ r.size = s.size /\ r.count = s.count
  /\ \A w : Here(r, w) = IF w = s.world THEN here ELSE Here(s, w)

LEMMA AddEntryFacts ==
  ASSUME NEW s, Structure(s), NEW e \in Entry, \A f \in Here(s, s.world) : f.key # e.key
  PROVE  Holding(s, AddEntry(s, Bucket(s, s.world, e.key), e), Here(s, s.world) \cup {e})
<1> DEFINE b == Bucket(s, s.world, e.key)
           r == AddEntry(s, b, e)
<1>1. CASE ~InUse(s, b)
  <2>1. /\ Structure(r)
        /\ r.world = s.world /\ r.size = s.size /\ r.count = s.count
        /\ \A w : Here(r, w) = IF w = s.world THEN Here(s, w) \cup {e} ELSE Here(s, w)
    BY <1>1, AppendBucketFacts
  <2> HIDE DEF r
  <2>2. Holding(s, r, Here(s, s.world) \cup {e})
    BY <2>1 DEF Holding
  <2> QED BY <2>2 DEF r
<1>2. CASE InUse(s, b)
  <2>1. PICK p \in DOMAIN s.chain : s.chain[p].id = b
    BY <1>2 DEF InUse
  <2> DEFINE es == s.chain[p].entries
             fs == Append(es, e)
             n == Len(es)
  <2>2. /\ s \in Table /\ es \in Seq(Entry) /\ n \in Nat /\ DOMAIN es = 1 .. n
        /\ p \in DOMAIN s.chain
    BY ChainFacts
  <2>3. /\ fs \in Seq(Entry) /\ fs # <<>> /\ Len(fs) = n + 1 /\ DOMAIN fs = 1 .. n + 1
        /\ \A j \in 1 .. n : fs[j] = es[j]
        /\ fs[n + 1] = e
    BY <2>2, AppendProperties
  <2>4. r = [s EXCEPT !.chain[p].entries = fs]
    <3>1. Position(s, b) = p
      BY <2>1, Positions
    <3> QED BY <1>2, <3>1 DEF AddEntry
  <2>5. b[1] = s.world
    <3>1. s.world \in Worlds /\ e.key \in Keys
      BY <2>2 DEF Table, Entry
    <3> QED BY <2>2, <3>1, BucketIsId
  <2>6. \A j \in 1 .. n : es[j] \in Here(s, s.world)
    BY <2>1, <2>2, <2>5 DEF Here
  <2> HIDE DEF fs, es, n, r
  <2>7. \A j \in 1 .. n + 1 : j \in 1 .. n \/ j = n + 1
    BY <2>2
  <2>8. Fits(s, s.chain[p].id, fs)
    <3>1. \A j \in 1 .. n : b = Bucket(s, b[1], es[j].key)
      BY <2>1, <2>2 DEF Structure, es
    <3>2. \A j, m \in 1 .. n : es[j].key = es[m].key => j = m
      BY <2>1, <2>2 DEF Structure, es
    <3>3. b = Bucket(s, b[1], e.key)
      BY <2>5
    <3>4. \A j \in DOMAIN fs : b = Bucket(s, b[1], fs[j].key)
      BY <3>1, <3>3, <2>3, <2>7
    <3>5. ASSUME NEW j \in DOMAIN fs, NEW m \in DOMAIN fs, fs[j].key = fs[m].key
          PROVE  j = m
      BY <3>2, <3>5, <2>3, <2>6, <2>7
    <3> HIDE DEF b
    <3> QED BY <3>4, <3>5, <2>1, <2>3 DEF Fits
  <2>9. ToSet(fs) = ToSet(es) \cup {e} /\ ToSet(es) \subseteq Here(s, s.world)
    <3>1. n + 1 \in DOMAIN fs /\ \A j \in 1 .. n : j \in DOMAIN fs
      BY <2>2, <2>3
    <3>2. ToSet(fs) \subseteq ToSet(es) \cup {e}
      BY <2>2, <2>3, <2>7 DEF ToSet
    <3>3. ToSet(es) \cup {e} \subseteq ToSet(fs)
      BY <2>2, <2>3, <3>1 DEF ToSet
    <3>4. ToSet(es) \subseteq Here(s, s.world)
      BY <2>2, <2>6 DEF ToSet
    <3> QED BY <3>2, <3>3, <3>4
  <2>10. Replaced(s, p, fs, r)
    BY <2>2, <2>4, <2>8, ReplaceFacts
  <2>11. /\ Structure(r)
         /\ r.world = s.world /\ r.size = s.size /\ r.count = s.count
         /\ \A w : Here(r, w) =
                  IF w = s.world THEN (Here(s, w) \ ToSet(es)) \cup ToSet(fs)
                  ELSE Here(s, w)
    BY <2>1, <2>5, <2>10 DEF Replaced, es
  <2>12. Holding(s, r, Here(s, s.world) \cup {e})
    BY <2>9, <2>11 DEF Holding
  <2> QED BY <2>12 DEF r
<1> QED BY <1>1, <1>2

LEMMA PlaceFacts ==
  ASSUME NEW es \in Seq(Entry), \A i, j \in DOMAIN es : es[i].key = es[j].key => i = j,
         NEW j \in DOMAIN es
  PROVE  Place(es, es[j].key) = j
<1>1. j \in 1 .. Len(es) /\ DOMAIN es = 1 .. Len(es)
  OBVIOUS
<1>2. \A i \in 1 .. j - 1 : i \in DOMAIN es /\ i # j
  BY <1>1
<1>3. \A i \in 1 .. j - 1 : es[i].key # es[j].key
  BY <1>2
<1>4. \A i \in DOMAIN es :
        (es[i].key = es[j].key /\ \A m \in 1 .. i - 1 : es[m].key # es[j].key) <=> i = j
  BY <1>3
<1> QED BY <1>4 DEF Place

LEMMA RemovedFromSet ==
  ASSUME NEW es \in Seq(Entry), \A i, j \in DOMAIN es : es[i].key = es[j].key => i = j,
         NEW j \in DOMAIN es
  PROVE  /\ RemoveAt(es, j) \in Seq(Entry) /\ Len(RemoveAt(es, j)) = Len(es) - 1
         /\ ToSet(RemoveAt(es, j)) = ToSet(es) \ {es[j]}
         /\ \A i, m \in DOMAIN RemoveAt(es, j) :
              RemoveAt(es, j)[i].key = RemoveAt(es, j)[m].key => i = m
<1> DEFINE n == Len(es)  q == RemoveAt(es, j)
<1>1. n \in Nat /\ j \in 1 .. n /\ DOMAIN es = 1 .. n
  OBVIOUS
<1> HIDE DEF q
<1>2. /\ q \in Seq(Entry) /\ Len(q) = n - 1
      /\ \A i \in 1 .. n - 1 : q[i] = IF i < j THEN es[i] ELSE es[i + 1]
  <2>1. j \in 1 .. Len(es)
    BY <1>1
  <2>2. /\ RemoveAt(es, j) \in Seq(Entry) /\ Len(RemoveAt(es, j)) = Len(es) - 1
        /\ \A i \in 1 .. Len(es) - 1 :
             RemoveAt(es, j)[i] = IF i < j THEN es[i] ELSE es[i + 1]
    <3> HIDE DEF n
    <3> QED BY <2>1, RemoveAtFacts
  <2> QED BY <2>2 DEF q
<1>3. DOMAIN q = 1 .. n - 1 /\ \A i \in 1 .. n - 1 : q[i] = es[Skip(j, i)]
  <2> HIDE DEF q
  <2> QED BY <1>2 DEF Skip
<1>4. /\ \A i \in 1 .. n - 1 : Skip(j, i) \in 1 .. n /\ Skip(j, i) # j
      /\ \A i, m \in 1 .. n - 1 : Skip(j, i) = Skip(j, m) => i = m
      /\ \A k \in 1 .. n : k # j => \E i \in 1 .. n - 1 : k = Skip(j, i)
  BY <1>1, SkipFacts
<1> HIDE DEF n, q
<1>5. \A i, m \in 1 .. n - 1 : q[i].key = q[m].key => i = m
  BY <1>1, <1>3, <1>4
<1>6. ToSet(q) \subseteq ToSet(es) \ {es[j]}
  <2>1. ASSUME NEW i \in 1 .. n - 1 PROVE q[i] \in ToSet(es) /\ q[i] # es[j]
    BY <1>1, <1>3, <1>4 DEF ToSet
  <2> QED BY <2>1, <1>3 DEF ToSet
<1>7. ToSet(es) \ {es[j]} \subseteq ToSet(q)
  <2>1. ASSUME NEW k \in 1 .. n, es[k] # es[j] PROVE es[k] \in ToSet(q)
    <3>1. PICK i \in 1 .. n - 1 : k = Skip(j, i)
      BY <2>1, <1>4
    <3> QED BY <3>1, <1>3 DEF ToSet
  <2> QED BY <2>1, <1>1 DEF ToSet
<1>8. ToSet(q) = ToSet(es) \ {es[j]}
  BY <1>6, <1>7
<1> QED BY <1>2, <1>3, <1>5, <1>8 DEF n, q

\* The entry with a key in its bucket of the current world.
LEMMA HoldsFacts ==
  ASSUME NEW s, Structure(s), NEW w \in Worlds, NEW k \in Keys
  PROVE  /\ Holds(s, Bucket(s, w, k), k) =>
              \E p \in DOMAIN s.chain : \E j \in DOMAIN s.chain[p].entries :
                /\ s.chain[p].id = Bucket(s, w, k) /\ s.chain[p].id[1] = w
                /\ s.chain[p].entries[j].key = k
         /\ (\E e \in Here(s, w) : e.key = k) => Holds(s, Bucket(s, w, k), k)
<1> DEFINE b == Bucket(s, w, k)
<1>1. b[1] = w /\ DOMAIN <<>> = {}
  BY ChainFacts, BucketIsId
<1>2. ASSUME Holds(s, b, k)
      PROVE  \E p \in DOMAIN s.chain : \E j \in DOMAIN s.chain[p].entries :
                /\ s.chain[p].id = b /\ s.chain[p].id[1] = w
                /\ s.chain[p].entries[j].key = k
  <2>1. InUse(s, b)
    BY <1>1, <1>2 DEF Holds, EntriesOf
  <2>2. PICK p \in DOMAIN s.chain : s.chain[p].id = b
    BY <2>1 DEF InUse
  <2>3. EntriesOf(s, b) = s.chain[p].entries
    BY <2>2, Positions
  <2> QED BY <1>1, <1>2, <2>2, <2>3 DEF Holds
<1>3. ASSUME NEW e \in Here(s, w), e.key = k
      PROVE  Holds(s, b, k)
  <2>1. PICK i \in DOMAIN s.chain : \E j \in DOMAIN s.chain[i].entries :
                   s.chain[i].id[1] = w /\ s.chain[i].entries[j] = e
    BY <1>3 DEF Here
  <2>2. PICK j \in DOMAIN s.chain[i].entries :
                   s.chain[i].id[1] = w /\ s.chain[i].entries[j] = e
    BY <2>1
  <2>3. s.chain[i].id = b
    BY <1>3, <2>2 DEF Structure
  <2>4. EntriesOf(s, b) = s.chain[i].entries
    BY <2>3, Positions
  <2> QED BY <1>3, <2>2, <2>4 DEF Holds
<1> QED BY <1>2, <1>3

LEMMA HoldsHere ==
  ASSUME NEW s, Structure(s), NEW w \in Worlds, NEW k \in Keys
  PROVE  Holds(s, Bucket(s, w, k), k) <=> \E e \in Here(s, w) : e.key = k
<1>1. ASSUME NEW p \in DOMAIN s.chain, NEW j \in DOMAIN s.chain[p].entries,
             s.chain[p].id[1] = w, s.chain[p].entries[j].key = k
      PROVE  \E e \in Here(s, w) : e.key = k
  <2>1. s.chain[p].entries[j] \in Entry
    BY ChainFacts
  <2> QED BY <1>1, <2>1 DEF Here
<1> QED BY <1>1, HoldsFacts

LEMMA RemoveEntryFacts ==
  ASSUME NEW s, Structure(s), NEW k \in Keys, Holds(s, Bucket(s, s.world, k), k)
  PROVE  \E e \in Here(s, s.world) :
           /\ e.key = k
           /\ Holding(s, RemoveEntry(s, Bucket(s, s.world, k), k), Here(s, s.world) \ {e})
<1> DEFINE b == Bucket(s, s.world, k)
           r == RemoveEntry(s, b, k)
<1>1. s \in Table /\ s.world \in Worlds
  BY ChainFacts DEF Table
<1>2. PICK p \in DOMAIN s.chain : \E j \in DOMAIN s.chain[p].entries :
                /\ s.chain[p].id = b /\ s.chain[p].id[1] = s.world
                /\ s.chain[p].entries[j].key = k
  BY <1>1, HoldsFacts
<1>3. PICK j \in DOMAIN s.chain[p].entries :
                /\ s.chain[p].id = b /\ s.chain[p].id[1] = s.world
                /\ s.chain[p].entries[j].key = k
  BY <1>2
<1> DEFINE es == s.chain[p].entries
           e == es[j]
<1>4. /\ es \in Seq(Entry) /\ \A i, m \in DOMAIN es : es[i].key = es[m].key => i = m
      /\ \A i \in DOMAIN es : b = Bucket(s, b[1], es[i].key)
      /\ Len(es) \in Nat /\ DOMAIN es = 1 .. Len(es) /\ j \in 1 .. Len(es)
  BY <1>3, ChainFacts DEF Structure
<1>5. Position(s, b) = p
  BY <1>3, Positions
<1> HIDE DEF es
<1>6. Place(es, k) = j /\ e \in Here(s, s.world) /\ e.key = k
  <2>1. Place(es, es[j].key) = j
    BY <1>3, <1>4, PlaceFacts
  <2>2. e \in Entry
    BY <1>4
  <2> QED BY <1>3, <2>1, <2>2 DEF Here, es
<1>7. /\ RemoveAt(es, j) \in Seq(Entry) /\ Len(RemoveAt(es, j)) = Len(es) - 1
      /\ ToSet(RemoveAt(es, j)) = ToSet(es) \ {e}
      /\ \A i, m \in DOMAIN RemoveAt(es, j) :
            RemoveAt(es, j)[i].key = RemoveAt(es, j)[m].key => i = m
  BY <1>4, RemovedFromSet
<1>8. CASE Len(es) = 1
  <2>1. r = RemoveBucket(s, s.chain[p].id)
    BY <1>3, <1>5, <1>8 DEF RemoveEntry, es
  <2>2. ToSet(es) = {e}
    <3>1. DOMAIN es = {j}
      BY <1>4, <1>8
    <3> QED BY <3>1 DEF ToSet
  <2> HIDE DEF r, e
  <2>3. /\ Structure(r) /\ r.world = s.world /\ r.size = s.size /\ r.count = s.count
        /\ \A w : Here(r, w) = IF w = s.chain[p].id[1] THEN Here(s, w) \ ToSet(es) ELSE Here(s, w)
    BY <2>1, RemoveBucketFacts DEF es, Taken
  <2>4. Holding(s, r, Here(s, s.world) \ {e})
    BY <1>3, <2>2, <2>3 DEF Holding
  <2> QED BY <1>6, <2>4 DEF r, e
<1>9. CASE Len(es) # 1
  <2> DEFINE fs == RemoveAt(es, j)
  <2>1. r = [s EXCEPT !.chain[p].entries = fs]
    BY <1>3, <1>5, <1>6, <1>9 DEF RemoveEntry, es
  <2>2. Fits(s, b, fs)
    <3>1. ASSUME NEW i \in DOMAIN fs PROVE b = Bucket(s, b[1], fs[i].key)
      <4>1. fs[i] \in ToSet(es)
        BY <1>7 DEF ToSet
      <4>2. PICK m \in DOMAIN es : fs[i] = es[m]
        BY <4>1 DEF ToSet
      <4> QED BY <4>2, <1>4
    <3>2. fs # <<>>
      <4>1. Len(fs) # 0
        BY <1>4, <1>7, <1>9
      <4> HIDE DEF fs
      <4> QED BY <4>1
    <3> HIDE DEF b
    <3> QED BY <1>7, <3>1, <3>2 DEF Fits
  <2>3. Replaced(s, p, fs, r)
    BY <1>3, <2>1, <2>2, ReplaceFacts
  <2>4. ToSet(es) \subseteq Here(s, s.world)
    BY <1>3, <1>4 DEF ToSet, Here, es
  <2> HIDE DEF r, e, fs
  <2>5. Holding(s, r, Here(s, s.world) \ {e})
    <3>1. ToSet(fs) = ToSet(es) \ {e} /\ e \in ToSet(es)
      BY <1>3, <1>7 DEF fs, e, ToSet, es
    <3>2. (Here(s, s.world) \ ToSet(es)) \cup ToSet(fs) = Here(s, s.world) \ {e}
      BY <3>1, <2>4
    <3> QED BY <1>3, <2>3, <3>2 DEF Holding, Replaced, es
  <2> QED BY <1>6, <2>5 DEF r, e
<1> QED BY <1>8, <1>9

LEMMA OverwriteFacts ==
  ASSUME NEW s, Structure(s), NEW k \in Keys, NEW v \in Values,
         Holds(s, Bucket(s, s.world, k), k)
  PROVE  \E e \in Here(s, s.world) :
           /\ e.key = k
           /\ Holding(s, Overwrite(s, Bucket(s, s.world, k), k, v),
                      (Here(s, s.world) \ {e}) \cup {[key |-> k, value |-> v]})
<1> DEFINE b == Bucket(s, s.world, k)
           r == Overwrite(s, b, k, v)
           f == [key |-> k, value |-> v]
<1>1. s \in Table /\ s.world \in Worlds
  BY ChainFacts DEF Table
<1>2. PICK p \in DOMAIN s.chain : \E j \in DOMAIN s.chain[p].entries :
                /\ s.chain[p].id = b /\ s.chain[p].id[1] = s.world
                /\ s.chain[p].entries[j].key = k
  BY <1>1, HoldsFacts
<1>3. PICK j \in DOMAIN s.chain[p].entries :
                /\ s.chain[p].id = b /\ s.chain[p].id[1] = s.world
                /\ s.chain[p].entries[j].key = k
  BY <1>2
<1> DEFINE es == s.chain[p].entries
           e == es[j]
           fs == [es EXCEPT ![j] = f]
<1>4. /\ es \in Seq(Entry) /\ \A i, m \in DOMAIN es : es[i].key = es[m].key => i = m
      /\ \A i \in DOMAIN es : b = Bucket(s, b[1], es[i].key)
      /\ Len(es) \in Nat /\ DOMAIN es = 1 .. Len(es) /\ j \in 1 .. Len(es)
      /\ es # <<>>
  BY <1>3, ChainFacts DEF Structure
<1>5. Position(s, b) = p
  BY <1>3, Positions
<1>6. Place(es, k) = j /\ e \in Here(s, s.world) /\ e.key = k /\ e \in Entry /\ f \in Entry
  <2>1. Place(es, es[j].key) = j
    BY <1>3, <1>4, PlaceFacts
  <2>2. e \in Entry
    BY <1>4
  <2> QED BY <1>3, <2>1, <2>2 DEF Here, Entry
<1>7. r = [s EXCEPT !.chain[p].entries = fs]
  <2>1. r = [s EXCEPT !.chain[p].entries[j].value = v]
    BY <1>5, <1>6 DEF Overwrite
  <2>2. [e EXCEPT !.value = v] = f
    <3> HIDE DEF e
    <3> QED BY <1>6 DEF Entry
  <2>3. [es EXCEPT ![j].value = v] = fs
    BY <2>2
  <2> QED BY <2>1, <2>3
<1> HIDE DEF es, f
<1>8. /\ fs \in Seq(Entry) /\ Len(fs) = Len(es) /\ DOMAIN fs = 1 .. Len(es)
      /\ \A i \in 1 .. Len(es) : fs[i] = IF i = j THEN f ELSE es[i]
  <2>1. /\ [es EXCEPT ![j] = f] \in Seq(Entry) /\ Len([es EXCEPT ![j] = f]) = Len(es)
        /\ \A i \in 1 .. Len(es) : [es EXCEPT ![j] = f][i] = IF i = j THEN f ELSE es[i]
    BY <1>4, <1>6, ExceptSeq
  <2> HIDE DEF fs
  <2> QED BY <2>1 DEF fs
<1>9. \A i \in 1 .. Len(es) : fs[i].key = es[i].key
  BY <1>6, <1>8 DEF f
<1> HIDE DEF r, fs, e
<1>10. Fits(s, b, fs)
  <2>1. fs # <<>>
    BY <1>4, <1>8
  <2> HIDE DEF b
  <2> QED BY <2>1, <1>4, <1>8, <1>9 DEF Fits
<1>11. Replaced(s, p, fs, r)
  BY <1>3, <1>7, <1>10, ReplaceFacts
<1>12. (Here(s, s.world) \ ToSet(es)) \cup ToSet(fs) = (Here(s, s.world) \ {e}) \cup {f}
  <2>1. ToSet(es) \subseteq Here(s, s.world)
    BY <1>3, <1>4 DEF ToSet, Here, es
  <2>2. ToSet(fs) = (ToSet(es) \ {e}) \cup {f}
    <3>1. ToSet(fs) \subseteq (ToSet(es) \ {e}) \cup {f}
      <4>1. ASSUME NEW i \in 1 .. Len(es), i # j PROVE fs[i] \in ToSet(es) /\ fs[i] # e
        BY <4>1, <1>4, <1>8 DEF ToSet, e
      <4> QED BY <4>1, <1>8 DEF ToSet
    <3>2. ToSet(es) \ {e} \subseteq ToSet(fs)
      <4>1. ASSUME NEW i \in 1 .. Len(es), es[i] # e PROVE es[i] \in ToSet(fs)
        BY <4>1, <1>8 DEF ToSet, e
      <4> QED BY <4>1, <1>4 DEF ToSet
    <3>3. f \in ToSet(fs)
      BY <1>4, <1>8 DEF ToSet
    <3> QED BY <3>1, <3>2, <3>3
  <2>3. e \in ToSet(es)
    BY <1>3 DEF e, ToSet, es
  <2> QED BY <2>1, <2>2, <2>3
<1>13. Holding(s, r, (Here(s, s.world) \ {e}) \cup {f})
  BY <1>3, <1>11, <1>12 DEF Holding, Replaced, es
<1> QED BY <1>6, <1>13 DEF r, f

---------------------------------------------------------------------------
(* The entries of a bucket move to the current world.                      *)

\* f holds the tables between the steps of the loop of MoveEntries.
Unrolled(s, es, f) ==
  /\ f[0] = s
  /\ \A n \in 1 .. Len(es) : f[n] = MoveEntry(f[n - 1], es[n])
  /\ MoveEntries(s, es) = f[Len(es)]

LEMMA MovesUnrolled ==
  ASSUME NEW s, NEW es, Len(es) \in Nat
  PROVE  \E f : Unrolled(s, es, f)
<1> DEFINE k == Len(es)
           Moves(f, m) == f = [n \in 0 .. m |-> IF n = 0 THEN s ELSE MoveEntry(f[n - 1], es[n])]
           S == {m \in Nat : \E f : Moves(f, m)}
<1>1. 0 \in S
  <2> DEFINE f == [n \in 0 .. 0 |-> s]
  <2>1. f = [n \in 0 .. 0 |-> IF n = 0 THEN s ELSE MoveEntry(f[n - 1], es[n])]
    <3>1. \A n \in 0 .. 0 : n = 0
      OBVIOUS
    <3> QED BY <3>1
  <2> QED BY <2>1
<1>2. ASSUME NEW m \in Nat, m \in S
      PROVE  m + 1 \in S
  <2>1. PICK f : Moves(f, m)
    BY <1>2
  <2>2. \A n \in 0 .. m : f[n] = IF n = 0 THEN s ELSE MoveEntry(f[n - 1], es[n])
    BY <2>1
  <2> DEFINE h == [n \in 0 .. m + 1 |-> IF n = m + 1 THEN MoveEntry(f[m], es[n]) ELSE f[n]]
  <2>3. ASSUME NEW n \in 0 .. m + 1
        PROVE  h[n] = IF n = 0 THEN s ELSE MoveEntry(h[n - 1], es[n])
    <3>1. CASE n = m + 1
      <4>1. n # 0 /\ n - 1 = m /\ m \in 0 .. m + 1 /\ m # m + 1
        BY <3>1
      <4>2. h[n] = MoveEntry(f[m], es[n]) /\ h[m] = f[m]
        BY <3>1, <4>1
      <4> QED BY <4>1, <4>2
    <3>2. CASE n # m + 1
      <4>1. n \in 0 .. m /\ h[n] = f[n]
        BY <3>2
      <4>2. n # 0 => n - 1 \in 0 .. m + 1 /\ n - 1 # m + 1
        BY <3>2
      <4>3. n # 0 => h[n - 1] = f[n - 1]
        BY <4>2
      <4> HIDE DEF h
      <4> QED BY <4>1, <4>3, <2>2
    <3> QED BY <3>1, <3>2
  <2>4. h = [n \in 0 .. m + 1 |-> h[n]]
    OBVIOUS
  <2> HIDE DEF h
  <2>5. Moves(h, m + 1)
    BY <2>3, <2>4
  <2> HIDE DEF Moves
  <2> QED BY <2>5
<1>3. k \in S
  <2> HIDE DEF S, k
  <2>1. Nat \subseteq S
    BY <1>1, <1>2, NatSetInduction
  <2>2. k \in Nat
    BY DEF k
  <2> QED BY <2>1, <2>2
<1>4. PICK f : Moves(f, k)
  BY <1>3
<1>5. ASSUME NEW g, Moves(g, k)
      PROVE  g = f
  <2> DEFINE E == {m \in Nat : m \in 0 .. k => g[m] = f[m]}
  <2>0. k \in Nat
    OBVIOUS
  <2> HIDE DEF k
  <2>1. /\ \A n \in 0 .. k : g[n] = IF n = 0 THEN s ELSE MoveEntry(g[n - 1], es[n])
        /\ \A n \in 0 .. k : f[n] = IF n = 0 THEN s ELSE MoveEntry(f[n - 1], es[n])
        /\ g = [n \in 0 .. k |-> g[n]] /\ f = [n \in 0 .. k |-> f[n]]
    BY <1>4, <1>5
  <2>6. /\ \A n \in 0 .. k : n # 0 => g[n] = MoveEntry(g[n - 1], es[n])
        /\ \A n \in 0 .. k : n # 0 => f[n] = MoveEntry(f[n - 1], es[n])
    <3> HIDE DEF Moves
    <3> QED BY <2>1
  <2>2. 0 \in E
    BY <2>0, <2>1
  <2>3. ASSUME NEW n \in Nat, n \in E
        PROVE  n + 1 \in E
    <3>1. CASE n + 1 \in 0 .. k
      <4>1. n \in 0 .. k /\ n + 1 # 0 /\ n + 1 - 1 = n
        BY <2>0, <3>1
      <4>2. g[n] = f[n]
        BY <2>3, <4>1
      <4>3. /\ g[n + 1] = MoveEntry(g[n], es[n + 1])
            /\ f[n + 1] = MoveEntry(f[n], es[n + 1])
        <5> HIDE DEF E, Moves, S
        <5>1. PICK x : x = n + 1
          OBVIOUS
        <5>2. x \in 0 .. k /\ x # 0 /\ x - 1 = n
          BY <5>1, <4>1, <3>1
        <5>3. g[x] = MoveEntry(g[x - 1], es[x])
          BY ONLY <2>6, <5>2
        <5>4. f[x] = MoveEntry(f[x - 1], es[x])
          BY ONLY <2>6, <5>2
        <5> QED BY <5>1, <5>2, <5>3, <5>4
      <4>4. g[n + 1] = f[n + 1]
        BY <4>2, <4>3
      <4> QED BY <4>4
    <3>2. CASE n + 1 \notin 0 .. k
      BY <3>2
    <3> QED BY <3>1, <3>2
  <2>4. Nat \subseteq E
    <3> HIDE DEF E
    <3> QED BY <2>2, <2>3, NatSetInduction
  <2>5. \A n \in 0 .. k : g[n] = f[n]
    <3> SUFFICES ASSUME NEW n \in 0 .. k PROVE g[n] = f[n]
      OBVIOUS
    <3>1. n \in Nat
      BY <2>0
    <3>2. n \in E
      <4> HIDE DEF E
      <4> QED BY <3>1, <2>4
    <3> QED BY <3>2
  <2> QED BY <2>1, <2>5
<1>6. MoveEntries(s, es) = f[k]
  <2>1. (CHOOSE g : Moves(g, k)) = f
    <3> HIDE DEF Moves
    <3> QED BY <1>4, <1>5
  <2> QED BY <2>1 DEF MoveEntries
<1>7. /\ f[0] = s
      /\ \A n \in 1 .. k : f[n] = MoveEntry(f[n - 1], es[n])
  <2>0. k \in Nat
    OBVIOUS
  <2> HIDE DEF k
  <2>1. \A n \in 0 .. k : f[n] = IF n = 0 THEN s ELSE MoveEntry(f[n - 1], es[n])
    BY <1>4
  <2>2. 0 \in 0 .. k /\ \A n \in 1 .. k : n \in 0 .. k /\ n # 0
    BY <2>0
  <2> QED BY <2>1, <2>2
<1>8. Unrolled(s, es, f)
  <2> HIDE DEF k
  <2>1. k = Len(es)
    BY DEF k
  <2> QED BY <1>6, <1>7, <2>1 DEF Unrolled
<1> QED BY <1>8

\* The entries of R are not in the list but still counted in the old world;
\* no two entries have one key.
All(s, R) == Here(s, s.world) \cup Here(s, Old(s)) \cup R
Sound(s, R) ==
  /\ Structure(s)
  /\ R \subseteq Entry /\ IsFiniteSet(R)
  /\ IsFiniteSet(Here(s, s.world)) /\ IsFiniteSet(Here(s, Old(s)))
  /\ Here(s, s.world) \cap Here(s, Old(s)) = {}
  /\ R \cap (Here(s, s.world) \cup Here(s, Old(s))) = {}
  /\ \A e, f \in All(s, R) : e.key = f.key => e = f
  /\ s.count[s.world] = Cardinality(Here(s, s.world))
  /\ s.count[Old(s)] = Cardinality(Here(s, Old(s))) + Cardinality(R)

LEMMA OldFacts ==
  ASSUME NEW s \in Table
  PROVE  /\ s.world \in Worlds /\ Old(s) \in Worlds /\ Old(s) # s.world
         /\ Worlds = {s.world, Old(s)}
  BY DEF Table, Old, Worlds

LEMMA RecountFacts ==
  ASSUME NEW s, Structure(s), NEW c \in [Worlds -> Int]
  PROVE  LET r == [s EXCEPT !.count = c]
         IN  /\ Structure(r)
             /\ r.world = s.world /\ r.size = s.size /\ r.count = c /\ r.chain = s.chain
             /\ \A w : Here(r, w) = Here(s, w)
<1> DEFINE r == [s EXCEPT !.count = c]
<1>1. /\ r \in Table /\ r.chain = s.chain /\ r.world = s.world /\ r.first = s.first
      /\ r.size = s.size /\ r.count = c
  BY DEF Structure, Table
<1> HIDE DEF r
<1>2. Structure(r)
  <2>1. \A w, k : Bucket(r, w, k) = Bucket(s, w, k)
    BY <1>1, SameBuckets
  <2>2. \A m : Border(r, m) <=> Border(s, m)
    BY <1>1 DEF Border
  <2> HIDE DEF Bucket, Border
  <2> QED BY <1>1, <2>1, <2>2 DEF Structure
<1>3. \A w : Here(r, w) = Here(s, w)
  BY <1>1 DEF Here
<1> QED BY <1>1, <1>2, <1>3 DEF r

LEMMA MoveEntryFacts ==
  ASSUME NEW s, NEW R, Sound(s, R), NEW e \in R
  PROVE  LET r == MoveEntry(s, e)
         IN  /\ Sound(r, R \ {e}) /\ All(r, R \ {e}) = All(s, R)
             /\ r.world = s.world /\ r.size = s.size
             /\ Here(r, Old(s)) = Here(s, Old(s))
<1> DEFINE a == AddEntry(s, Bucket(s, s.world, e.key), e)
           c == [a.count EXCEPT ![Old(s)] = @ - 1, ![s.world] = @ + 1]
           r == MoveEntry(s, e)
<1>1. Structure(s) /\ s \in Table /\ e \in Entry
  BY ChainFacts DEF Sound
<1>2. \A f \in Here(s, s.world) : f.key # e.key
  <2>1. \A f \in Here(s, s.world) : f # e /\ f \in All(s, R) /\ e \in All(s, R)
    BY DEF Sound, All
  <2> QED BY <2>1 DEF Sound
<1>3. Holding(s, a, Here(s, s.world) \cup {e})
  BY <1>1, <1>2, AddEntryFacts
<1>4. r = [a EXCEPT !.count = c]
  BY DEF MoveEntry
<1> HIDE DEF a
<1>5. /\ Structure(a) /\ a.count = s.count /\ a.world = s.world /\ a.size = s.size
      /\ Here(a, s.world) = Here(s, s.world) \cup {e} /\ Here(a, Old(s)) = Here(s, Old(s))
  BY <1>1, <1>3, OldFacts DEF Holding
<1>6. /\ c \in [Worlds -> Int] /\ c[Old(s)] = s.count[Old(s)] - 1
      /\ c[s.world] = s.count[s.world] + 1
  <2>1. s.count \in [Worlds -> Int]
    BY <1>1 DEF Table
  <2> QED BY <1>1, <1>5, <2>1, OldFacts
<1> HIDE DEF c, r
<1>7. /\ Structure(r) /\ r.world = s.world /\ r.size = s.size /\ r.count = c
      /\ Here(r, s.world) = Here(s, s.world) \cup {e} /\ Here(r, Old(s)) = Here(s, Old(s))
  BY <1>4, <1>5, <1>6, RecountFacts
<1>8. Old(r) = Old(s)
  BY <1>7 DEF Old
<1>9. All(r, R \ {e}) = All(s, R)
  BY <1>7, <1>8 DEF All
<1>10. /\ IsFiniteSet(R \ {e}) /\ Cardinality(R \ {e}) = Cardinality(R) - 1
       /\ IsFiniteSet(Here(s, s.world) \cup {e})
       /\ Cardinality(Here(s, s.world) \cup {e}) = Cardinality(Here(s, s.world)) + 1
       /\ Cardinality(R) \in Nat /\ Cardinality(Here(s, s.world)) \in Nat
       /\ Cardinality(Here(s, Old(s))) \in Nat
  <2>1. e \notin Here(s, s.world) /\ IsFiniteSet(R) /\ IsFiniteSet(Here(s, s.world))
        /\ IsFiniteSet(Here(s, Old(s)))
    BY DEF Sound
  <2> QED BY <2>1, FS_AddElement, FS_RemoveElement, FS_CardinalityType
<1>11. Sound(r, R \ {e})
  <2>1. /\ R \subseteq Entry /\ IsFiniteSet(Here(s, Old(s)))
        /\ Here(s, s.world) \cap Here(s, Old(s)) = {}
        /\ R \cap (Here(s, s.world) \cup Here(s, Old(s))) = {}
        /\ \A f, g \in All(s, R) : f.key = g.key => f = g
        /\ s.count[s.world] = Cardinality(Here(s, s.world))
        /\ s.count[Old(s)] = Cardinality(Here(s, Old(s))) + Cardinality(R)
    BY DEF Sound
  <2>2. /\ r.count[r.world] = Cardinality(Here(r, r.world))
        /\ r.count[Old(r)] = Cardinality(Here(r, Old(r))) + Cardinality(R \ {e})
    BY <2>1, <1>6, <1>7, <1>8, <1>10
  <2>3. /\ Here(r, r.world) = Here(s, s.world) \cup {e}
        /\ Here(r, Old(r)) = Here(s, Old(s))
    BY <1>7, <1>8
  <2>4. /\ Here(r, r.world) \cap Here(r, Old(r)) = {}
        /\ (R \ {e}) \cap (Here(r, r.world) \cup Here(r, Old(r))) = {}
        /\ R \ {e} \subseteq Entry
    BY <2>1, <2>3
  <2>5. \A f, g \in All(r, R \ {e}) : f.key = g.key => f = g
    BY <2>1, <1>9
  <2>6. IsFiniteSet(R \ {e}) /\ IsFiniteSet(Here(r, r.world)) /\ IsFiniteSet(Here(r, Old(r)))
    BY <2>1, <2>3, <1>10
  <2> QED BY <1>7, <2>2, <2>4, <2>5, <2>6 DEF Sound
<1> QED BY <1>7, <1>9, <1>11 DEF r

\* r has the same entries as s, those of Q in flight instead of those of R,
\* and those of here in the old world.
Moved(s, R, r, Q, here) ==
  /\ Sound(r, Q) /\ All(r, Q) = All(s, R)
  /\ r.world = s.world /\ r.size = s.size
  /\ Here(r, Old(s)) = here

LEMMA MovedOnce ==
  ASSUME NEW s, NEW R, NEW a, NEW Q, NEW here, Moved(s, R, a, Q, here), NEW e \in Q
  PROVE  Moved(s, R, MoveEntry(a, e), Q \ {e}, here)
<1> DEFINE r == MoveEntry(a, e)
<1>1. /\ Sound(a, Q) /\ All(a, Q) = All(s, R) /\ a.world = s.world /\ a.size = s.size
      /\ Here(a, Old(s)) = here /\ Old(a) = Old(s)
  BY DEF Moved, Old
<1>2. /\ Sound(r, Q \ {e}) /\ All(r, Q \ {e}) = All(a, Q)
      /\ r.world = a.world /\ r.size = a.size
      /\ Here(r, Old(a)) = Here(a, Old(a))
  BY <1>1, MoveEntryFacts
<1> HIDE DEF r
<1>3. Moved(s, R, r, Q \ {e}, here)
  BY <1>1, <1>2 DEF Moved
<1> QED BY <1>3 DEF r

LEMMA MoveEntriesFacts ==
  ASSUME NEW s, NEW R, Sound(s, R), NEW es \in Seq(Entry),
         \A i, j \in DOMAIN es : es[i].key = es[j].key => i = j, ToSet(es) \subseteq R
  PROVE  Moved(s, R, MoveEntries(s, es), R \ ToSet(es), Here(s, Old(s)))
<1> DEFINE Left(m) == R \ {es[i] : i \in 1 .. m}
           here == Here(s, Old(s))
<1>1. Len(es) \in Nat /\ DOMAIN es = 1 .. Len(es) /\ ToSet(es) = {es[i] : i \in 1 .. Len(es)}
  BY DEF ToSet
<1>2. PICK f : Unrolled(s, es, f)
  BY <1>1, MovesUnrolled
<1>3. /\ f[0] = s /\ MoveEntries(s, es) = f[Len(es)]
      /\ \A n \in 1 .. Len(es) : f[n] = MoveEntry(f[n - 1], es[n])
  BY <1>2 DEF Unrolled
<1> DEFINE S == {m \in Nat : m <= Len(es) => Moved(s, R, f[m], Left(m), here)}
<1>4. 0 \in S
  <2>1. Left(0) = R
    OBVIOUS
  <2>2. Moved(s, R, s, R, here)
    BY DEF Moved
  <2> HIDE DEF Left, here
  <2> QED BY <1>3, <2>1, <2>2
<1>5. ASSUME NEW m \in Nat, m \in S
      PROVE  m + 1 \in S
  <2> SUFFICES ASSUME m + 1 <= Len(es)
               PROVE  Moved(s, R, f[m + 1], Left(m + 1), here)
    OBVIOUS
  <2>1. m <= Len(es) /\ m + 1 \in 1 .. Len(es) /\ m + 1 - 1 = m
    BY <1>1
  <2>2. Moved(s, R, f[m], Left(m), here)
    BY <1>5, <2>1
  <2>3. f[m + 1] = MoveEntry(f[m], es[m + 1])
    BY <1>3, <2>1
  <2>4. es[m + 1] \in Left(m)
    <3>1. \A i \in 1 .. m : i \in DOMAIN es /\ m + 1 \in DOMAIN es /\ i # m + 1
      BY <1>1, <2>1
    <3>2. \A i \in 1 .. m : es[i] # es[m + 1]
      BY <3>1
    <3>3. es[m + 1] \in R
      BY <1>1, <2>1
    <3> QED BY <3>2, <3>3
  <2>5. Left(m) \ {es[m + 1]} = Left(m + 1)
    <3>1. 1 .. m + 1 = (1 .. m) \cup {m + 1}
      BY <2>1
    <3> QED BY <3>1
  <2> HIDE DEF Left, here, S
  <2> QED BY <2>2, <2>3, <2>4, <2>5, MovedOnce
<1>6. Len(es) \in S
  <2> HIDE DEF S
  <2> QED BY <1>1, <1>4, <1>5, NatSetInduction
<1>7. Moved(s, R, f[Len(es)], Left(Len(es)), here)
  <2> HIDE DEF here, Left
  <2> QED BY <1>1, <1>6
<1>8. Left(Len(es)) = R \ ToSet(es)
  BY <1>1
<1> HIDE DEF Left
<1> QED BY <1>3, <1>7, <1>8

LEMMA SplitCardinality ==
  ASSUME NEW S, IsFiniteSet(S), NEW T \in SUBSET S
  PROVE  /\ IsFiniteSet(T) /\ IsFiniteSet(S \ T)
         /\ Cardinality(S) = Cardinality(S \ T) + Cardinality(T)
<1>1. S \cap T = T
  OBVIOUS
<1> DEFINE both == S \cap T
<1>2. /\ IsFiniteSet(T) /\ IsFiniteSet(S \ T)
      /\ Cardinality(S \ T) = Cardinality(S) - Cardinality(both)
  BY FS_Subset, FS_Difference
<1>3. both = T
  BY <1>1
<1> HIDE DEF both
<1>4. /\ Cardinality(S) \in Nat /\ Cardinality(T) \in Nat
      /\ Cardinality(S \ T) = Cardinality(S) - Cardinality(T)
  BY <1>2, <1>3, FS_CardinalityType
<1>5. Cardinality(S \ T) \in Nat
  BY <1>2, FS_CardinalityType
<1> QED BY <1>2, <1>4, <1>5

\* A bucket of the old world leaves the list with its entries.
LEMMA BucketTaken ==
  ASSUME NEW s, Sound(s, {}), NEW p \in DOMAIN s.chain, s.chain[p].id[1] = Old(s)
  PROVE  Moved(s, {}, RemoveBucket(s, s.chain[p].id), ToSet(s.chain[p].entries),
               Here(s, Old(s)) \ ToSet(s.chain[p].entries))
<1> DEFINE R == ToSet(s.chain[p].entries)
           r == RemoveBucket(s, s.chain[p].id)
<1>1. Structure(s) /\ s \in Table
  BY ChainFacts DEF Sound
<1>2. /\ Structure(r) /\ r.world = s.world /\ r.size = s.size /\ r.count = s.count
      /\ \A w : Here(r, w) = IF w = Old(s) THEN Here(s, w) \ R ELSE Here(s, w)
      /\ R \subseteq Here(s, Old(s))
  <2> HIDE DEF r
  <2>1. Taken(s, p, r)
    BY <1>1, RemoveBucketFacts DEF r
  <2> QED BY <2>1 DEF Taken
<1> HIDE DEF r, R
<1>3. Old(r) = Old(s) /\ Old(s) # s.world
  BY <1>1, <1>2, OldFacts DEF Old
<1>4. /\ Here(r, r.world) = Here(s, s.world) /\ Here(r, Old(r)) = Here(s, Old(s)) \ R
      /\ Here(r, Old(s)) = Here(s, Old(s)) \ R
  BY <1>2, <1>3
<1>5. /\ Here(s, Old(s)) \subseteq Entry /\ IsFiniteSet(Here(s, Old(s)))
      /\ IsFiniteSet(Here(s, s.world))
      /\ Here(s, s.world) \cap Here(s, Old(s)) = {}
      /\ \A e, f \in All(s, {}) : e.key = f.key => e = f
      /\ s.count[s.world] = Cardinality(Here(s, s.world))
      /\ s.count[Old(s)] = Cardinality(Here(s, Old(s))) + Cardinality({})
  BY DEF Sound, Here
<1>6. All(r, R) = All(s, {})
  BY <1>2, <1>4 DEF All
<1>7. /\ IsFiniteSet(R) /\ IsFiniteSet(Here(s, Old(s)) \ R)
      /\ Cardinality(Here(s, Old(s))) = Cardinality(Here(s, Old(s)) \ R) + Cardinality(R)
  BY <1>2, <1>5, SplitCardinality
<1>8. Sound(r, R)
  <2>1. Cardinality({}) = 0 /\ Cardinality(Here(s, Old(s))) \in Nat
    BY <1>5, FS_EmptySet, FS_CardinalityType
  <2>2. /\ r.count[r.world] = Cardinality(Here(r, r.world))
        /\ r.count[Old(r)] = Cardinality(Here(r, Old(r))) + Cardinality(R)
    BY <1>2, <1>3, <1>4, <1>5, <1>7, <2>1
  <2>3. /\ R \subseteq Entry
        /\ Here(r, r.world) \cap Here(r, Old(r)) = {}
        /\ R \cap (Here(r, r.world) \cup Here(r, Old(r))) = {}
    BY <1>2, <1>4, <1>5
  <2>4. \A e, f \in All(r, R) : e.key = f.key => e = f
    BY <1>5, <1>6
  <2> QED BY <1>2, <1>4, <1>5, <1>7, <2>2, <2>3, <2>4 DEF Sound
<1>9. Moved(s, {}, r, R, Here(s, Old(s)) \ R)
  BY <1>2, <1>4, <1>6, <1>8 DEF Moved
<1> QED BY <1>9 DEF r, R

LEMMA MoveBucketFacts ==
  ASSUME NEW s, Sound(s, {}), NEW b, InUse(s, b) => b[1] = Old(s)
  PROVE  Moved(s, {}, MoveBucket(s, b), {}, Here(s, Old(s)) \ ToSet(EntriesOf(s, b)))
<1>1. CASE ~InUse(s, b)
  <2>1. MoveBucket(s, b) = s /\ ToSet(EntriesOf(s, b)) = {}
    BY <1>1 DEF MoveBucket, EntriesOf, ToSet
  <2> QED BY <2>1 DEF Moved
<1>2. CASE InUse(s, b)
  <2>1. PICK p \in DOMAIN s.chain : s.chain[p].id = b
    BY <1>2 DEF InUse
  <2>2. Structure(s)
    BY DEF Sound
  <2>3. Position(s, b) = p /\ s.chain[p].entries \in Seq(Entry)
    BY <2>1, <2>2, Positions, ChainFacts
  <2> DEFINE es == s.chain[p].entries
             a == RemoveBucket(s, b)
  <2>4. EntriesOf(s, b) = es /\ MoveBucket(s, b) = MoveEntries(a, es)
    BY <1>2, <2>3 DEF EntriesOf, MoveBucket
  <2>5. Moved(s, {}, a, ToSet(es), Here(s, Old(s)) \ ToSet(es))
    BY <1>2, <2>1, BucketTaken
  <2>6. \A i, j \in DOMAIN es : es[i].key = es[j].key => i = j
    BY <2>2 DEF Structure
  <2> DEFINE R == ToSet(es)  here == Here(s, Old(s)) \ R
  <2>7. /\ Sound(a, R) /\ All(a, R) = All(s, {}) /\ a.world = s.world /\ a.size = s.size
        /\ Here(a, Old(a)) = here /\ Old(a) = Old(s)
    BY <2>5 DEF Moved, Old
  <2> HIDE DEF a
  <2>8. Moved(a, R, MoveEntries(a, es), R \ R, Here(a, Old(a)))
    BY <2>3, <2>6, <2>7, MoveEntriesFacts
  <2> HIDE DEF es, here, R
  <2>9. R \ R = {}
    OBVIOUS
  <2>10. Moved(s, {}, MoveEntries(a, es), {}, here)
    BY <2>7, <2>8, <2>9 DEF Moved
  <2> QED BY <2>4, <2>10 DEF here, R
<1> QED BY <1>1, <1>2

---------------------------------------------------------------------------
(* What the calls are made of.                                             *)

\* r is s after a step that leaves the entries of all, and may take some
\* from the old world.
Did(s, r, all) ==
  /\ Sound(r, {}) /\ All(r, {}) = all
  /\ r.world = s.world /\ Here(r, Old(s)) \subseteq Here(s, Old(s))

LEMMA SoundFacts ==
  ASSUME NEW s, Sound(s, {})
  PROVE  /\ Structure(s) /\ s \in Table /\ s.world \in Worlds /\ Old(s) \in Worlds
         /\ Old(s) # s.world /\ Worlds = {s.world, Old(s)}
         /\ All(s, {}) = Here(s, s.world) \cup Here(s, Old(s)) /\ All(s, {}) \subseteq Entry
         /\ IsFiniteSet(Here(s, s.world)) /\ IsFiniteSet(Here(s, Old(s)))
         /\ Here(s, s.world) \cap Here(s, Old(s)) = {}
         /\ \A e, f \in All(s, {}) : e.key = f.key => e = f
         /\ s.count[s.world] = Cardinality(Here(s, s.world))
         /\ s.count[Old(s)] = Cardinality(Here(s, Old(s)))
<1>1. Structure(s) /\ s \in Table
  BY ChainFacts DEF Sound
<1>2. s.world \in Worlds /\ Old(s) \in Worlds /\ Old(s) # s.world /\ Worlds = {s.world, Old(s)}
  BY <1>1, OldFacts
<1>3. /\ IsFiniteSet(Here(s, s.world)) /\ IsFiniteSet(Here(s, Old(s)))
      /\ Here(s, s.world) \cap Here(s, Old(s)) = {}
      /\ \A e, f \in All(s, {}) : e.key = f.key => e = f
      /\ s.count[s.world] = Cardinality(Here(s, s.world))
      /\ s.count[Old(s)] = Cardinality(Here(s, Old(s))) + Cardinality({})
  BY DEF Sound
<1>4. Cardinality({}) = 0 /\ Cardinality(Here(s, Old(s))) \in Nat
  BY <1>3, FS_EmptySet, FS_CardinalityType
<1>5. s.count[Old(s)] = Cardinality(Here(s, Old(s)))
  BY <1>3, <1>4
<1>6. All(s, {}) = Here(s, s.world) \cup Here(s, Old(s)) /\ All(s, {}) \subseteq Entry
  BY DEF All, Here
<1> QED BY <1>1, <1>2, <1>3, <1>5, <1>6

LEMMA SoundIf ==
  ASSUME NEW r, Structure(r),
         IsFiniteSet(Here(r, r.world)), IsFiniteSet(Here(r, Old(r))),
         Here(r, r.world) \cap Here(r, Old(r)) = {},
         \A e, f \in Here(r, r.world) \cup Here(r, Old(r)) : e.key = f.key => e = f,
         r.count[r.world] = Cardinality(Here(r, r.world)),
         r.count[Old(r)] = Cardinality(Here(r, Old(r)))
  PROVE  Sound(r, {})
<1>1. Cardinality({}) = 0 /\ Cardinality(Here(r, Old(r))) \in Nat /\ IsFiniteSet({})
  BY FS_EmptySet, FS_CardinalityType
<1>2. r.count[Old(r)] = Cardinality(Here(r, Old(r))) + Cardinality({})
  BY <1>1
<1> QED BY <1>1, <1>2 DEF Sound, All

\* A step that gives the current world the entries here.
LEMMA DidIf ==
  ASSUME NEW s, Sound(s, {}), NEW r, NEW here, Structure(r), r.world = s.world,
         Here(r, s.world) = here, Here(r, Old(s)) = Here(s, Old(s)),
         IsFiniteSet(here), here \cap Here(s, Old(s)) = {},
         \A e, f \in here \cup Here(s, Old(s)) : e.key = f.key => e = f,
         r.count[s.world] = Cardinality(here), r.count[Old(s)] = s.count[Old(s)]
  PROVE  Did(s, r, here \cup Here(s, Old(s)))
<1>1. Old(r) = Old(s)
  BY DEF Old
<1>2. IsFiniteSet(Here(s, Old(s))) /\ s.count[Old(s)] = Cardinality(Here(s, Old(s)))
  BY SoundFacts
<1>3. Sound(r, {})
  BY <1>1, <1>2, SoundIf
<1>4. All(r, {}) = here \cup Here(s, Old(s))
  BY <1>1 DEF All
<1> QED BY <1>3, <1>4 DEF Did

LEMMA NoOldBucket ==
  ASSUME NEW s, Structure(s)
  PROVE  Here(s, Old(s)) = {} <=> \A i \in DOMAIN s.chain : s.chain[i].id[1] = s.world
<1>1. /\ s \in Table /\ Worlds = {s.world, Old(s)} /\ Old(s) # s.world
      /\ \A i \in DOMAIN s.chain : /\ s.chain[i].id[1] \in Worlds
                                   /\ s.chain[i].entries \in Seq(Entry)
                                   /\ s.chain[i].entries # <<>>
  BY ChainFacts, OldFacts DEF BucketId, Structure
<1>2. ASSUME Here(s, Old(s)) = {}, NEW i \in DOMAIN s.chain
      PROVE  s.chain[i].id[1] = s.world
  <2> DEFINE es == s.chain[i].entries
  <2>1. es \in Seq(Entry) /\ es # <<>>
    BY <1>1, <1>2
  <2>2. 1 \in DOMAIN es /\ es[1] \in Entry
    <3> HIDE DEF es
    <3> QED BY <2>1
  <2>3. s.chain[i].id[1] # Old(s)
    BY <1>2, <2>2 DEF Here
  <2> QED BY <1>1, <1>2, <2>3
<1>3. ASSUME \A i \in DOMAIN s.chain : s.chain[i].id[1] = s.world
      PROVE  Here(s, Old(s)) = {}
  BY <1>1, <1>3 DEF Here
<1> QED BY <1>2, <1>3

LEMMA NothingCounted ==
  ASSUME NEW s, Sound(s, {}), s.count[Old(s)] = 0
  PROVE  Here(s, Old(s)) = {}
<1>1. IsFiniteSet(Here(s, Old(s))) /\ Cardinality(Here(s, Old(s))) = 0
  BY SoundFacts
<1> QED BY <1>1, FS_EmptySet

LEMMA SwapFacts ==
  ASSUME NEW s, Sound(s, {}), Here(s, Old(s)) = {}, NEW n \in Nat \ {0}
  PROVE  Sound(SwapWorlds(s, n), {}) /\ All(SwapWorlds(s, n), {}) = All(s, {})
<1> DEFINE r == SwapWorlds(s, n)
<1>1. /\ Structure(s) /\ s \in Table /\ Old(s) \in Worlds /\ Old(s) # s.world
      /\ Worlds = {s.world, Old(s)} /\ s.world \in Worlds
  BY SoundFacts
<1>2. /\ r \in Table /\ r.chain = s.chain /\ r.world = Old(s) /\ r.count = s.count
      /\ r.first = None /\ r.size[s.world] = s.size[s.world]
  BY <1>1 DEF SwapWorlds, Table
<1> HIDE DEF r
<1>3. Old(r) = s.world
  BY <1>1, <1>2 DEF Old, Worlds
<1>4. \A i \in DOMAIN s.chain : s.chain[i].id[1] = s.world
  BY <1>1, NoOldBucket
<1>5. \A w : Here(r, w) = Here(s, w)
  BY <1>2 DEF Here
<1>6. Structure(r)
  <2>1. Len(s.chain) \in Nat /\ DOMAIN s.chain = 1 .. Len(s.chain)
    BY <1>1, ChainFacts
  <2>2. Border(r, Len(r.chain)) /\ Len(r.chain) \in 0 .. Len(r.chain)
    BY <1>1, <1>2, <1>4, <2>1 DEF Border
  <2>3. \A k : Bucket(r, s.world, k) = Bucket(s, s.world, k)
    BY <1>2 DEF Bucket
  <2>4. \A i \in DOMAIN r.chain :
       /\ r.chain[i].entries # <<>>
       /\ \A j \in DOMAIN r.chain[i].entries :
            r.chain[i].id = Bucket(r, r.chain[i].id[1], r.chain[i].entries[j].key)
       /\ \A j, m \in DOMAIN r.chain[i].entries :
            r.chain[i].entries[j].key = r.chain[i].entries[m].key => j = m
    BY <1>1, <1>2, <1>4, <2>3 DEF Structure
  <2>5. \A i, j \in DOMAIN r.chain : r.chain[i].id = r.chain[j].id => i = j
    BY <1>1, <1>2 DEF Structure
  <2> QED BY <1>2, <2>2, <2>4, <2>5 DEF Structure
<1>7. All(r, {}) = All(s, {})
  BY <1>2, <1>3, <1>5 DEF All
<1>8. Sound(r, {})
  <2>1. /\ IsFiniteSet(Here(s, s.world)) /\ IsFiniteSet(Here(s, Old(s)))
        /\ Here(s, s.world) \cap Here(s, Old(s)) = {}
        /\ \A e, f \in Here(s, s.world) \cup Here(s, Old(s)) : e.key = f.key => e = f
        /\ s.count[s.world] = Cardinality(Here(s, s.world))
        /\ s.count[Old(s)] = Cardinality(Here(s, Old(s)))
    BY SoundFacts
  <2>2. /\ Here(r, r.world) = Here(s, Old(s)) /\ Here(r, Old(r)) = Here(s, s.world)
        /\ r.count[r.world] = s.count[Old(s)] /\ r.count[Old(r)] = s.count[s.world]
    BY <1>2, <1>3, <1>5
  <2> QED BY <1>6, <2>1, <2>2, SoundIf
<1> QED BY <1>7, <1>8 DEF r

LEMMA NewSizeIsPositive ==
  ASSUME NEW n \in Nat
  PROVE  NewSize(n) \in Nat \ {0}
<1>1. MinSize \in Nat \ {0}
  BY TableAssumption
<1>2. (3 * n) \div 2 \in Nat
  OBVIOUS
<1> QED BY <1>1, <1>2 DEF NewSize

\* The head of the list is a bucket of the current world only if there is no
\* other, and then first_new_world.
LEMMA HeadFacts ==
  ASSUME NEW s, Structure(s), s.chain # <<>>
  PROVE  /\ 1 \in DOMAIN s.chain /\ Head(s.chain) = s.chain[1]
         /\ s.chain[1].id = s.first <=> s.chain[1].id[1] = s.world
         /\ s.chain[1].id = s.first => \A i \in DOMAIN s.chain : s.chain[i].id[1] = s.world
<1>1. /\ s.chain \in Seq(Link) /\ Len(s.chain) \in Nat /\ DOMAIN s.chain = 1 .. Len(s.chain)
      /\ \A i \in DOMAIN s.chain : s.chain[i].id \in BucketId
  BY ChainFacts
<1>2. 1 \in DOMAIN s.chain /\ Head(s.chain) = s.chain[1]
  BY <1>1
<1>3. PICK m \in 0 .. Len(s.chain) : Border(s, m)
  BY DEF Structure
<1>4. s.chain[1].id = s.first => m = 0
  <2>1. s.chain[1].id # None
    BY <1>1, <1>2, BucketIsNotNone
  <2>2. ASSUME m # Len(s.chain), s.chain[1].id = s.chain[m + 1].id
        PROVE  m = 0
    <3>1. m + 1 \in DOMAIN s.chain
      BY <1>1, <2>2
    <3>2. 1 = m + 1
      BY <1>2, <2>2, <3>1 DEF Structure
    <3> QED BY <3>2
  <2> QED BY <1>3, <2>1, <2>2 DEF Border
<1>5. m = 0 => /\ s.chain[1].id = s.first
               /\ \A i \in DOMAIN s.chain : s.chain[i].id[1] = s.world
  <2>1. Len(s.chain) # 0 /\ \A i \in DOMAIN s.chain : i > 0
    BY <1>1, <1>2
  <2> QED BY <1>3, <2>1 DEF Border
<1>6. s.chain[1].id[1] = s.world => m = 0
  BY <1>1, <1>2, <1>3 DEF Border
<1> QED BY <1>2, <1>4, <1>5, <1>6

LEMMA RecycleFacts ==
  ASSUME NEW s, Sound(s, {})
  PROVE  /\ Sound(AfterRecycle(s), {}) /\ All(AfterRecycle(s), {}) = All(s, {})
         /\ Here(s, Old(s)) = {} => AfterRecycle(s) = s
<1>1. CASE ~CanRecycle(s)
  BY <1>1 DEF AfterRecycle
<1>2. CASE CanRecycle(s)
  <2> DEFINE b == Head(s.chain).id
             r == MoveBucket(s, b)
             n == r.count[r.world]
  <2>1. Structure(s) /\ s \in Table /\ Worlds = {s.world, Old(s)}
    BY SoundFacts
  <2>2. s.chain # <<>> /\ b # s.first
    BY <1>2 DEF CanRecycle
  <2>3. 1 \in DOMAIN s.chain /\ b = s.chain[1].id /\ b \in BucketId /\ b[1] # s.world
    BY <2>1, <2>2, HeadFacts, ChainFacts
  <2>4. b[1] = Old(s)
    BY <2>1, <2>3 DEF BucketId
  <2>5. Here(s, Old(s)) # {}
    BY <2>1, <2>3, NoOldBucket
  <2>6. Sound(r, {}) /\ All(r, {}) = All(s, {})
    <3> HIDE DEF b
    <3> QED BY <2>4, MoveBucketFacts DEF Moved
  <2>7. AfterRecycle(s) = IF IsFirst(r, r.first) /\ ~OccupancyOK(n, r.size[r.world])
                          THEN SwapWorlds(r, NewSize(n)) ELSE r
    BY <1>2 DEF AfterRecycle, RecycledOnce
  <2> HIDE DEF r
  <2>8. ASSUME IsFirst(r, r.first)
        PROVE  Here(r, Old(r)) = {}
    <3>1. Structure(r) /\ r.chain # <<>> /\ Head(r.chain).id = r.first
      BY <2>6, <2>8 DEF IsFirst, Sound
    <3>2. \A i \in DOMAIN r.chain : r.chain[i].id[1] = r.world
      BY <3>1, HeadFacts
    <3> QED BY <3>1, <3>2, NoOldBucket
  <2>9. NewSize(n) \in Nat \ {0}
    <3>1. n \in Nat
      <4>1. n = Cardinality(Here(r, r.world)) /\ IsFiniteSet(Here(r, r.world))
        BY <2>6, SoundFacts
      <4> QED BY <4>1, FS_CardinalityType
    <3> HIDE DEF n
    <3> QED BY <3>1, NewSizeIsPositive
  <2> HIDE DEF n
  <2> QED BY <2>5, <2>6, <2>7, <2>8, <2>9, SwapFacts
<1> QED BY <1>1, <1>2

---------------------------------------------------------------------------
(* The calls.                                                              *)

\* The calls with the old bucket of k moved.
Ready(s, k, p) ==
  /\ Did(s, p, All(s, {})) /\ p.size = s.size
  /\ \A e \in Here(p, Old(p)) : e.key # k

LEMMA ReadyFacts ==
  ASSUME NEW s, Sound(s, {}), NEW k \in Keys
  PROVE  Ready(s, k, MoveBucket(s, OldBucket(s, k)))
<1> DEFINE b == OldBucket(s, k)  p == MoveBucket(s, b)
<1>1. Structure(s) /\ s \in Table /\ Old(s) \in Worlds
  BY SoundFacts
<1>2. b[1] = Old(s) /\ b = Bucket(s, Old(s), k)
  BY <1>1, BucketIsId DEF OldBucket
<1>3. Moved(s, {}, p, {}, Here(s, Old(s)) \ ToSet(EntriesOf(s, b)))
  <2> HIDE DEF b
  <2> QED BY <1>2, MoveBucketFacts
<1> HIDE DEF p, b
<1>4. /\ Sound(p, {}) /\ All(p, {}) = All(s, {}) /\ p.world = s.world /\ p.size = s.size
      /\ Here(p, Old(s)) = Here(s, Old(s)) \ ToSet(EntriesOf(s, b)) /\ Old(p) = Old(s)
  BY <1>3 DEF Moved, Old
<1>5. ASSUME NEW e \in Here(s, Old(s)), e.key = k
      PROVE  e \in ToSet(EntriesOf(s, b))
  <2>1. PICK i \in DOMAIN s.chain : \E j \in DOMAIN s.chain[i].entries :
               s.chain[i].id[1] = Old(s) /\ s.chain[i].entries[j] = e
    BY <1>5 DEF Here
  <2>2. s.chain[i].id = b
    BY <1>1, <1>2, <1>5, <2>1 DEF Structure
  <2>3. EntriesOf(s, b) = s.chain[i].entries
    BY <1>1, <2>2, Positions DEF EntriesOf
  <2> QED BY <2>1, <2>3 DEF ToSet
<1>6. Ready(s, k, p)
  BY <1>4, <1>5 DEF Ready, Did
<1> QED BY <1>6 DEF p, b

\* Whether a call finds the key.
LEMMA FoundFacts ==
  ASSUME NEW s, Sound(s, {}), NEW k \in Keys, NEW p, Ready(s, k, p)
  PROVE  /\ Holds(s, OldBucket(s, k), k) \/ Holds(p, Bucket(p, p.world, k), k)
              <=> \E e \in All(s, {}) : e.key = k
         /\ Holds(p, Bucket(p, p.world, k), k) <=> \E e \in All(p, {}) : e.key = k
<1>1. /\ Structure(s) /\ Old(s) \in Worlds /\ All(s, {}) = Here(s, s.world) \cup Here(s, Old(s))
  BY SoundFacts
<1>2. /\ Sound(p, {}) /\ All(p, {}) = All(s, {}) /\ p.world = s.world /\ Old(p) = Old(s)
      /\ Here(p, Old(s)) \subseteq Here(s, Old(s))
      /\ \A e \in Here(p, Old(p)) : e.key # k
  BY DEF Ready, Did, Old
<1>3. /\ Structure(p) /\ p.world \in Worlds /\ All(p, {}) = Here(p, p.world) \cup Here(p, Old(p))
  BY <1>2, SoundFacts
<1>4. Holds(s, OldBucket(s, k), k) <=> \E e \in Here(s, Old(s)) : e.key = k
  BY <1>1, HoldsHere DEF OldBucket
<1>5. Holds(p, Bucket(p, p.world, k), k) <=> \E e \in Here(p, p.world) : e.key = k
  BY <1>3, HoldsHere
<1> QED BY <1>1, <1>2, <1>3, <1>4, <1>5

LEMMA InsertFacts ==
  ASSUME NEW s, Sound(s, {}), NEW k \in Keys, NEW v \in Values,
         \A e \in All(s, {}) : e.key # k
  PROVE  Did(s, Insert(s, k, v), All(s, {}) \cup {[key |-> k, value |-> v]})
<1> DEFINE e == [key |-> k, value |-> v]
           b == Bucket(s, s.world, k)
           a == AddEntry(s, b, e)
           here == Here(s, s.world) \cup {e}
           r == [a EXCEPT !.count[s.world] = @ + 1]
<1>1. /\ Structure(s) /\ s \in Table /\ s.world \in Worlds /\ Old(s) # s.world
      /\ All(s, {}) = Here(s, s.world) \cup Here(s, Old(s))
      /\ IsFiniteSet(Here(s, s.world)) /\ Here(s, s.world) \cap Here(s, Old(s)) = {}
      /\ \A f, g \in All(s, {}) : f.key = g.key => f = g
      /\ s.count[s.world] = Cardinality(Here(s, s.world))
  BY SoundFacts
<1>2. e \in Entry /\ e.key = k
  BY DEF Entry
<1>3. Holding(s, a, here)
  <2> HIDE DEF e
  <2> QED BY <1>1, <1>2, AddEntryFacts
<1> HIDE DEF a, e
<1>4. /\ Structure(a) /\ a.count = s.count /\ a.world = s.world
      /\ Here(a, s.world) = here /\ Here(a, Old(s)) = Here(s, Old(s))
  BY <1>1, <1>3 DEF Holding
<1> DEFINE c == [a.count EXCEPT ![s.world] = @ + 1]
<1>5. c \in [Worlds -> Int] /\ c[s.world] = s.count[s.world] + 1 /\ c[Old(s)] = s.count[Old(s)]
  <2>1. s.count \in [Worlds -> Int] /\ Old(s) \in Worlds
    BY <1>1, OldFacts DEF Table
  <2> QED BY <1>1, <1>4, <2>1
<1>6. r = [a EXCEPT !.count = c]
  OBVIOUS
<1> HIDE DEF c, r
<1>7. /\ Structure(r) /\ r.world = s.world /\ r.count = c
      /\ Here(r, s.world) = here /\ Here(r, Old(s)) = Here(s, Old(s))
  BY <1>4, <1>5, <1>6, RecountFacts
<1>8. e \notin Here(s, s.world) /\ e \notin Here(s, Old(s))
  BY <1>1, <1>2
<1>9. IsFiniteSet(here) /\ Cardinality(here) = Cardinality(Here(s, s.world)) + 1
  BY <1>1, <1>8, FS_AddElement
<1>10. \A f, g \in here \cup Here(s, Old(s)) : f.key = g.key => f = g
  BY <1>1, <1>2
<1>11. here \cap Here(s, Old(s)) = {}
  BY <1>1, <1>8
<1>12. here \cup Here(s, Old(s)) = All(s, {}) \cup {e}
  BY <1>1
<1> HIDE DEF here
<1>13. Did(s, r, here \cup Here(s, Old(s)))
  BY <1>1, <1>5, <1>7, <1>9, <1>10, <1>11, DidIf
<1>14. Insert(s, k, v) = r
  BY DEF Insert, r, a, b, e
<1> QED BY <1>12, <1>13, <1>14 DEF e

LEMMA OverwriteDid ==
  ASSUME NEW s, Sound(s, {}), NEW k \in Keys, NEW v \in Values,
         Holds(s, Bucket(s, s.world, k), k)
  PROVE  Did(s, Overwrite(s, Bucket(s, s.world, k), k, v),
             {e \in All(s, {}) : e.key # k} \cup {[key |-> k, value |-> v]})
<1> DEFINE f == [key |-> k, value |-> v]
           r == Overwrite(s, Bucket(s, s.world, k), k, v)
<1>1. /\ Structure(s) /\ s \in Table /\ s.world \in Worlds /\ Old(s) # s.world
      /\ All(s, {}) = Here(s, s.world) \cup Here(s, Old(s))
      /\ IsFiniteSet(Here(s, s.world)) /\ Here(s, s.world) \cap Here(s, Old(s)) = {}
      /\ \A d, g \in All(s, {}) : d.key = g.key => d = g
      /\ s.count[s.world] = Cardinality(Here(s, s.world))
  BY SoundFacts
<1>2. PICK e \in Here(s, s.world) :
        e.key = k /\ Holding(s, r, (Here(s, s.world) \ {e}) \cup {f})
  BY <1>1, OverwriteFacts
<1>3. f.key = k
  OBVIOUS
<1> DEFINE rest == Here(s, s.world) \ {e}
           here == rest \cup {f}
<1> HIDE DEF r, f
<1>4. /\ Structure(r) /\ r.count = s.count /\ r.world = s.world
      /\ Here(r, s.world) = here /\ Here(r, Old(s)) = Here(s, Old(s))
  BY <1>1, <1>2 DEF Holding
<1>5. \A d \in rest \cup Here(s, Old(s)) : d.key # k
  <2>1. e \in All(s, {}) /\ e \notin rest \cup Here(s, Old(s))
        /\ rest \cup Here(s, Old(s)) \subseteq All(s, {})
    BY <1>1
  <2> QED BY <1>1, <1>2, <2>1
<1>6. f \notin rest /\ f \notin Here(s, Old(s))
  BY <1>3, <1>5
<1>7. IsFiniteSet(here) /\ Cardinality(here) = Cardinality(Here(s, s.world))
  <2>1. IsFiniteSet(rest) /\ Cardinality(rest) = Cardinality(Here(s, s.world)) - 1
    BY <1>1, FS_RemoveElement
  <2>2. Cardinality(Here(s, s.world)) \in Nat
    BY <1>1, FS_CardinalityType
  <2> HIDE DEF rest
  <2>3. IsFiniteSet(here) /\ Cardinality(here) = Cardinality(rest) + 1
    BY <1>6, <2>1, FS_AddElement
  <2> HIDE DEF here
  <2> QED BY <2>1, <2>2, <2>3
<1>8. \A d, g \in here \cup Here(s, Old(s)) : d.key = g.key => d = g
  BY <1>1, <1>3, <1>5
<1>9. here \cap Here(s, Old(s)) = {}
  BY <1>1, <1>6
<1>10. here \cup Here(s, Old(s)) = {d \in All(s, {}) : d.key # k} \cup {f}
  BY <1>1, <1>2, <1>5
<1> HIDE DEF here, rest
<1>11. Did(s, r, here \cup Here(s, Old(s)))
  BY <1>1, <1>4, <1>7, <1>8, <1>9, DidIf
<1> QED BY <1>10, <1>11 DEF r, f

LEMMA RemoveDid ==
  ASSUME NEW s, Sound(s, {}), NEW k \in Keys, Holds(s, Bucket(s, s.world, k), k)
  PROVE  Did(s, [RemoveEntry(s, Bucket(s, s.world, k), k) EXCEPT !.count[s.world] = @ - 1],
             {e \in All(s, {}) : e.key # k})
<1> DEFINE a == RemoveEntry(s, Bucket(s, s.world, k), k)
           r == [a EXCEPT !.count[s.world] = @ - 1]
<1>1. /\ Structure(s) /\ s \in Table /\ s.world \in Worlds /\ Old(s) # s.world
      /\ All(s, {}) = Here(s, s.world) \cup Here(s, Old(s))
      /\ IsFiniteSet(Here(s, s.world)) /\ Here(s, s.world) \cap Here(s, Old(s)) = {}
      /\ \A d, g \in All(s, {}) : d.key = g.key => d = g
      /\ s.count[s.world] = Cardinality(Here(s, s.world))
  BY SoundFacts
<1>2. PICK e \in Here(s, s.world) :
        e.key = k /\ Holding(s, a, Here(s, s.world) \ {e})
  BY <1>1, RemoveEntryFacts
<1> DEFINE here == Here(s, s.world) \ {e}
<1> HIDE DEF a
<1>4. /\ Structure(a) /\ a.count = s.count /\ a.world = s.world
      /\ Here(a, s.world) = here /\ Here(a, Old(s)) = Here(s, Old(s))
  BY <1>1, <1>2 DEF Holding
<1> DEFINE c == [a.count EXCEPT ![s.world] = @ - 1]
<1>5. c \in [Worlds -> Int] /\ c[s.world] = s.count[s.world] - 1 /\ c[Old(s)] = s.count[Old(s)]
  <2>1. s.count \in [Worlds -> Int] /\ Old(s) \in Worlds
    BY <1>1, OldFacts DEF Table
  <2> QED BY <1>1, <1>4, <2>1
<1>6. r = [a EXCEPT !.count = c]
  OBVIOUS
<1> HIDE DEF c, r
<1>7. /\ Structure(r) /\ r.world = s.world /\ r.count = c
      /\ Here(r, s.world) = here /\ Here(r, Old(s)) = Here(s, Old(s))
  BY <1>4, <1>5, <1>6, RecountFacts
<1>8. IsFiniteSet(here) /\ Cardinality(here) = Cardinality(Here(s, s.world)) - 1
  BY <1>1, FS_RemoveElement
<1>9. \A d \in here \cup Here(s, Old(s)) : d.key # k
  <2>1. e \in All(s, {}) /\ e \notin here \cup Here(s, Old(s))
        /\ here \cup Here(s, Old(s)) \subseteq All(s, {})
    BY <1>1
  <2> QED BY <1>1, <1>2, <2>1
<1>10. here \cup Here(s, Old(s)) = {d \in All(s, {}) : d.key # k}
  BY <1>1, <1>2, <1>9
<1>11. here \cap Here(s, Old(s)) = {}
  BY <1>1
<1>12. \A d, g \in here \cup Here(s, Old(s)) : d.key = g.key => d = g
  BY <1>1
<1> HIDE DEF here
<1>13. Did(s, r, here \cup Here(s, Old(s)))
  BY <1>1, <1>5, <1>7, <1>8, <1>11, <1>12, DidIf
<1> QED BY <1>10, <1>13 DEF r, a

\* The entry that hash_table_remove() frees while its old bucket is moved
\* stays in flight.
LEMMA RemoveOldDid ==
  ASSUME NEW s, Sound(s, {}), NEW k \in Keys, NEW b, b = OldBucket(s, k), Holds(s, b, k)
  PROVE  LET es == EntriesOf(s, b)
         IN  Did(s, [MoveEntries(RemoveBucket(s, b), RemoveAt(es, Place(es, k)))
                       EXCEPT !.count[Old(s)] = @ - 1],
                 {e \in All(s, {}) : e.key # k})
<1>1. /\ Structure(s) /\ s \in Table /\ Old(s) \in Worlds /\ Old(s) # s.world
      /\ \A d, g \in All(s, {}) : d.key = g.key => d = g
      /\ All(s, {}) = Here(s, s.world) \cup Here(s, Old(s))
  BY SoundFacts
<1>2. PICK p \in DOMAIN s.chain : \E j \in DOMAIN s.chain[p].entries :
         /\ s.chain[p].id = b /\ s.chain[p].id[1] = Old(s)
         /\ s.chain[p].entries[j].key = k
  BY <1>1, HoldsFacts DEF OldBucket
<1> DEFINE es == EntriesOf(s, b)
<1>3. es = s.chain[p].entries /\ es \in Seq(Entry)
      /\ \A i, m \in DOMAIN es : es[i].key = es[m].key => i = m
  BY <1>1, <1>2, Positions, ChainFacts DEF EntriesOf, Structure
<1> HIDE DEF es
<1>4. PICK j \in DOMAIN es : es[j].key = k
  BY <1>2, <1>3
<1> DEFINE e == es[j]
           R == ToSet(es)
           left == RemoveAt(es, j)
           a == RemoveBucket(s, b)
           m == MoveEntries(a, left)
           r == [m EXCEPT !.count[Old(s)] = @ - 1]
<1>5. Place(es, k) = j /\ e \in Entry /\ e \in R
  BY <1>3, <1>4, PlaceFacts DEF ToSet
<1>6. /\ left \in Seq(Entry) /\ ToSet(left) = R \ {e}
      /\ \A i, n \in DOMAIN left : left[i].key = left[n].key => i = n
  BY <1>3, RemovedFromSet
<1>7. Moved(s, {}, a, R, Here(s, Old(s)) \ R)
  BY <1>2, <1>3, BucketTaken
<1>8. e.key = k
  BY <1>4
<1> HIDE DEF a, R, left, e
<1>9. /\ Sound(a, R) /\ All(a, R) = All(s, {}) /\ a.world = s.world
      /\ Here(a, Old(a)) = Here(s, Old(s)) \ R /\ Old(a) = Old(s)
  BY <1>7 DEF Moved, Old
<1>10. ToSet(left) \subseteq R /\ R \ ToSet(left) = {e}
  BY <1>5, <1>6
<1>11. Moved(a, R, m, {e}, Here(a, Old(a)))
  <2>1. Moved(a, R, m, R \ ToSet(left), Here(a, Old(a)))
    BY <1>6, <1>9, <1>10, MoveEntriesFacts
  <2> QED BY <1>10, <2>1
<1> HIDE DEF m
<1>12. /\ Sound(m, {e}) /\ All(m, {e}) = All(s, {}) /\ m.world = s.world
       /\ Here(m, Old(m)) = Here(s, Old(s)) \ R /\ Old(m) = Old(s)
  BY <1>9, <1>11 DEF Moved, Old
<1> DEFINE c == [m.count EXCEPT ![Old(s)] = @ - 1]
<1>13. /\ Structure(m) /\ m \in Table
       /\ IsFiniteSet(Here(m, m.world)) /\ IsFiniteSet(Here(m, Old(m)))
       /\ Here(m, m.world) \cap Here(m, Old(m)) = {}
       /\ {e} \cap (Here(m, m.world) \cup Here(m, Old(m))) = {}
       /\ \A d, g \in All(m, {e}) : d.key = g.key => d = g
       /\ m.count[m.world] = Cardinality(Here(m, m.world))
       /\ m.count[Old(m)] = Cardinality(Here(m, Old(m))) + Cardinality({e})
  BY <1>12, ChainFacts DEF Sound
<1>14. /\ c \in [Worlds -> Int] /\ c[m.world] = Cardinality(Here(m, m.world))
       /\ c[Old(m)] = Cardinality(Here(m, Old(m)))
  <2>1. m.count \in [Worlds -> Int] /\ m.world \in Worlds /\ Old(m) # m.world
    BY <1>13, OldFacts DEF Table
  <2>2. Cardinality({e}) = 1 /\ Cardinality(Here(m, Old(m))) \in Nat
    BY <1>13, FS_Singleton, FS_CardinalityType
  <2>3. /\ m.count[Old(s)] = Cardinality(Here(m, Old(m))) + 1
        /\ Old(m) = Old(s) /\ m.world = s.world
    BY <1>12, <1>13, <2>2
  <2>4. /\ c \in [Worlds -> Int] /\ c[s.world] = m.count[s.world]
        /\ c[Old(s)] = m.count[Old(s)] - 1
    BY <1>1, <2>1, <2>3
  <2> HIDE DEF c
  <2>5. c[Old(s)] = Cardinality(Here(m, Old(m)))
    BY <2>2, <2>3, <2>4
  <2> QED BY <1>13, <2>3, <2>4, <2>5
<1>15. r = [m EXCEPT !.count = c]
  OBVIOUS
<1> HIDE DEF c, r
<1>16. /\ Structure(r) /\ r.world = m.world /\ r.count = c /\ Old(r) = Old(m)
       /\ \A w : Here(r, w) = Here(m, w)
  BY <1>13, <1>14, <1>15, RecountFacts DEF Old
<1>17. \A d, g \in Here(m, m.world) \cup Here(m, Old(m)) : d.key = g.key => d = g
  BY <1>13 DEF All
<1>18. Sound(r, {})
  BY <1>13, <1>14, <1>16, <1>17, SoundIf
<1>19. All(r, {}) = {d \in All(s, {}) : d.key # k}
  <2>1. All(r, {}) = Here(m, m.world) \cup Here(m, Old(m))
    BY <1>16 DEF All
  <2>2. All(s, {}) = Here(m, m.world) \cup Here(m, Old(m)) \cup {e}
    BY <1>12 DEF All
  <2>3. e \notin All(r, {}) /\ All(s, {}) = All(r, {}) \cup {e}
    BY <1>13, <2>1, <2>2
  <2>4. \A d \in All(r, {}) : d.key # k
    BY <1>1, <1>8, <2>3
  <2> QED BY <1>8, <2>3, <2>4
<1>20. Did(s, r, {d \in All(s, {}) : d.key # k})
  BY <1>12, <1>16, <1>18, <1>19 DEF Did
<1> QED BY <1>5, <1>20 DEF r, m, a, left, es

---------------------------------------------------------------------------
(* The invariant.                                                          *)

TableInv ==
  /\ Sound(t, {})
  /\ autoswap \in BOOLEAN /\ answer \in BOOLEAN
  /\ autoswap => Here(t, Old(t)) = {}

\* The calls, on the set of the entries.
Inserted(all, k, v) == all \cup {[key |-> k, value |-> v]}
Without(all, k) == {e \in all : e.key # k}
Has(all, k) == \E e \in all : e.key = k

LEMMA EmptyFacts == Sound(Empty, {}) /\ All(Empty, {}) = {} /\ Here(Empty, Old(Empty)) = {}
<1>1. MinSize \in Nat \ {0}
  BY TableAssumption
<1>2. /\ Empty.chain = <<>> /\ Empty.world = 0 /\ Empty.first = None
      /\ Empty.count = [w \in Worlds |-> 0]
      /\ Empty \in Table
  <2>1. [w \in Worlds |-> IF w = 0 THEN MinSize ELSE 1] \in [Worlds -> Nat \ {0}]
    BY <1>1
  <2> QED BY <2>1 DEF Empty, Table, Worlds
<1>3. \A w : Here(Empty, w) = {}
  BY <1>2 DEF Here
<1>4. Structure(Empty)
  <2>1. Border(Empty, 0)
    BY <1>2 DEF Border
  <2> QED BY <1>2, <2>1 DEF Structure
<1>5. /\ Empty.count[Empty.world] = 0 /\ Empty.count[Old(Empty)] = 0
  BY <1>2 DEF Old, Worlds
<1>6. Cardinality({}) = 0 /\ IsFiniteSet({})
  BY FS_EmptySet
<1>7. Sound(Empty, {})
  BY <1>3, <1>4, <1>5, <1>6, SoundIf
<1> QED BY <1>3, <1>7 DEF All

\* Autoswap is on only when nothing is left in the old world: a call then
\* begins without a step of hash_table_recycle().
LEMMA CallsBegin ==
  ASSUME TableInv, NEW k \in Keys
  PROVE  /\ AfterAutoswap(t, OldBucket(t, k)) = t
         /\ Prepared(t, k) = MoveBucket(t, OldBucket(t, k))
         /\ Ready(t, k, Prepared(t, k))
         /\ Found(t, k) <=> Has(All(t, {}), k)
<1>1. \A b : AfterAutoswap(t, b) = t
  BY RecycleFacts DEF TableInv, AfterAutoswap
<1>2. Prepared(t, k) = MoveBucket(t, OldBucket(t, k))
  BY <1>1 DEF Prepared
<1>3. Ready(t, k, Prepared(t, k))
  BY <1>2, ReadyFacts DEF TableInv
<1> DEFINE p == Prepared(t, k)
<1>4. Found(t, k) <=> Holds(t, OldBucket(t, k), k) \/ Holds(p, Bucket(p, p.world, k), k)
  BY <1>1 DEF Found
<1> HIDE DEF p
<1>5. Found(t, k) <=> Has(All(t, {}), k)
  <2>1. Sound(t, {}) /\ Ready(t, k, p)
    BY <1>3 DEF TableInv, p
  <2> QED BY <1>4, <2>1, FoundFacts DEF Has
<1> QED BY <1>1, <1>2, <1>3, <1>5

\* What a call leaves, given what it does after its beginning.
Left(all) ==
  /\ Sound(t', {}) /\ All(t', {}) = all
  /\ t'.world = t.world /\ Here(t', Old(t)) \subseteq Here(t, Old(t))

LEMMA CallEnds ==
  ASSUME NEW k \in Keys, NEW p, Ready(t, k, p), NEW all, Did(p, t', all)
  PROVE  Left(all)
<1>1. p.world = t.world /\ Here(p, Old(t)) \subseteq Here(t, Old(t))
  BY DEF Ready, Did
<1>2. Old(p) = Old(t)
  BY <1>1 DEF Old
<1> QED BY <1>1, <1>2 DEF Did, Left

LEMMA FindOrInsertLeaves ==
  ASSUME TableInv, NEW k \in Keys, NEW v \in Values, FindOrInsert(k, v)
  PROVE  /\ Left(IF Has(All(t, {}), k) THEN All(t, {}) ELSE Inserted(All(t, {}), k, v))
         /\ answer' = ~Has(All(t, {}), k)
<1> DEFINE p == Prepared(t, k)
<1>1. /\ Ready(t, k, p) /\ (Found(t, k) <=> Has(All(t, {}), k))
  BY CallsBegin
<1>2. answer' = ~Has(All(t, {}), k)
  <2>1. answer' = ~Found(t, k)
    BY DEF FindOrInsert
  <2>2. Found(t, k) \in BOOLEAN /\ Has(All(t, {}), k) \in BOOLEAN
    BY DEF Found, Has
  <2> QED BY <1>1, <2>1, <2>2
<1>3. t' = IF Has(All(t, {}), k) THEN p ELSE Insert(p, k, v)
  BY <1>1 DEF FindOrInsert
<1> HIDE DEF p
<1>4. Sound(p, {}) /\ All(p, {}) = All(t, {})
  BY <1>1 DEF Ready, Did
<1>5. CASE Has(All(t, {}), k)
  <2>1. Did(p, p, All(t, {}))
    BY <1>4 DEF Did
  <2> QED BY <1>1, <1>2, <1>3, <1>5, <2>1, CallEnds
<1>6. CASE ~Has(All(t, {}), k)
  <2>1. Did(p, Insert(p, k, v), Inserted(All(t, {}), k, v))
    BY <1>4, <1>6, InsertFacts DEF Has, Inserted
  <2> QED BY <1>1, <1>2, <1>3, <1>6, <2>1, CallEnds
<1> QED BY <1>5, <1>6

LEMMA SetLeaves ==
  ASSUME TableInv, NEW k \in Keys, NEW v \in Values, Set(k, v)
  PROVE  Left(Inserted(Without(All(t, {}), k), k, v))
<1> DEFINE p == Prepared(t, k)  b == Bucket(p, p.world, k)
<1>1. Ready(t, k, p)
  BY CallsBegin
<1>2. t' = IF Holds(p, b, k) THEN Overwrite(p, b, k, v) ELSE Insert(p, k, v)
  BY DEF Set
<1> HIDE DEF p
<1>3. Sound(p, {}) /\ All(p, {}) = All(t, {})
  BY <1>1 DEF Ready, Did
<1>4. Holds(p, b, k) <=> Has(All(p, {}), k)
  BY <1>1, FoundFacts DEF Has, TableInv
<1>5. CASE Holds(p, b, k)
  <2>1. Did(p, Overwrite(p, b, k, v), Inserted(Without(All(t, {}), k), k, v))
    BY <1>3, <1>5, OverwriteDid DEF Inserted, Without
  <2> QED BY <1>1, <1>2, <1>5, <2>1, CallEnds
<1>6. CASE ~Holds(p, b, k)
  <2>1. Without(All(t, {}), k) = All(t, {})
    BY <1>3, <1>4, <1>6 DEF Has, Without
  <2>2. Did(p, Insert(p, k, v), Inserted(All(t, {}), k, v))
    BY <1>3, <1>4, <1>6, InsertFacts DEF Has, Inserted
  <2> QED BY <1>1, <1>2, <1>6, <2>1, <2>2, CallEnds
<1> QED BY <1>5, <1>6

LEMMA RemoveKeyLeaves ==
  ASSUME TableInv, NEW k \in Keys, RemoveKey(k)
  PROVE  Left(Without(All(t, {}), k)) /\ answer' = Has(All(t, {}), k)
<1> DEFINE p == Prepared(t, k)  c == Bucket(p, p.world, k)
           b == OldBucket(t, k)  es == EntriesOf(t, b)
           m == [MoveEntries(RemoveBucket(t, b), RemoveAt(es, Place(es, k)))
                   EXCEPT !.count[Old(t)] = @ - 1]
           r == [RemoveEntry(p, c, k) EXCEPT !.count[p.world] = @ - 1]
<1>1. /\ Ready(t, k, p) /\ (Found(t, k) <=> Has(All(t, {}), k))
      /\ AfterAutoswap(t, b) = t
  BY CallsBegin
<1>2. answer' = Has(All(t, {}), k)
  <2>1. answer' = Found(t, k)
    BY DEF RemoveKey
  <2>2. Found(t, k) \in BOOLEAN /\ Has(All(t, {}), k) \in BOOLEAN
    BY DEF Found, Has
  <2> QED BY <1>1, <2>1, <2>2
<1>3. t' = IF Holds(t, b, k) THEN m ELSE IF Holds(p, c, k) THEN r ELSE p
  BY <1>1 DEF RemoveKey
<1>4. Holds(t, b, k) => Did(t, m, Without(All(t, {}), k))
  BY RemoveOldDid DEF TableInv, Without
<1> HIDE DEF p, m
<1>5. Sound(p, {}) /\ All(p, {}) = All(t, {})
  BY <1>1 DEF Ready, Did
<1>6. Holds(p, c, k) <=> Has(All(p, {}), k)
  BY <1>1, FoundFacts DEF Has, TableInv
<1>7. Holds(p, c, k) => Did(p, r, Without(All(t, {}), k))
  BY <1>5, RemoveDid DEF Without
<1> HIDE DEF r, c, b
<1>8. CASE Holds(t, b, k)
  BY <1>2, <1>3, <1>4, <1>8 DEF Did, Left
<1>9. CASE ~Holds(t, b, k) /\ Holds(p, c, k)
  BY <1>1, <1>2, <1>3, <1>7, <1>9, CallEnds
<1>10. CASE ~Holds(t, b, k) /\ ~Holds(p, c, k)
  <2>1. Did(p, p, Without(All(t, {}), k))
    BY <1>5, <1>6, <1>10 DEF Did, Has, Without
  <2> QED BY <1>1, <1>2, <1>3, <1>10, <2>1, CallEnds
<1> QED BY <1>8, <1>9, <1>10

\* A step is one of the calls of a map or leaves the entries and the answer.
MapStep ==
  \/ \E k \in Keys, v \in Values :
       \/ /\ answer' = ~Has(All(t, {}), k)
          /\ All(t', {}) = IF Has(All(t, {}), k) THEN All(t, {}) ELSE Inserted(All(t, {}), k, v)
       \/ All(t', {}) = Inserted(Without(All(t, {}), k), k, v) /\ UNCHANGED answer
  \/ \E k \in Keys : answer' = Has(All(t, {}), k) /\ All(t', {}) = Without(All(t, {}), k)
  \/ All(t', {}) = {} /\ UNCHANGED answer
  \/ All(t', {}) = All(t, {}) /\ UNCHANGED answer

LEMMA InvAfterCall ==
  ASSUME TableInv, NEW all, Left(all), answer' \in BOOLEAN, UNCHANGED autoswap
  PROVE  TableInv'
<1>1. Old(t)' = Old(t)
  BY DEF Left, Old
<1>2. Here(t', Old(t')) \subseteq Here(t, Old(t))
  BY <1>1 DEF Left
<1>3. Sound(t', {}) /\ autoswap' \in BOOLEAN
  BY DEF Left, TableInv
<1>4. autoswap' => Here(t', Old(t')) = {}
  BY <1>2 DEF TableInv
<1> QED BY <1>3, <1>4 DEF TableInv

LEMMA TableStep ==
  ASSUME TableInv, [TableNext]_tableVars
  PROVE  TableInv' /\ MapStep
<1>1. ASSUME NEW k \in Keys, NEW v \in Values, FindOrInsert(k, v)
      PROVE  TableInv' /\ MapStep
  <2> DEFINE all == IF Has(All(t, {}), k) THEN All(t, {}) ELSE Inserted(All(t, {}), k, v)
  <2>1. Left(all) /\ answer' = ~Has(All(t, {}), k)
    BY <1>1, FindOrInsertLeaves
  <2>2. UNCHANGED autoswap
    BY <1>1 DEF FindOrInsert
  <2>3. All(t', {}) = all
    BY <2>1 DEF Left
  <2>4. MapStep
    BY <2>1, <2>3 DEF MapStep
  <2>5. answer' \in BOOLEAN
    BY <2>1 DEF Has
  <2> HIDE DEF all
  <2> QED BY <2>1, <2>2, <2>4, <2>5, InvAfterCall
<1>2. ASSUME NEW k \in Keys, NEW v \in Values, Set(k, v)
      PROVE  TableInv' /\ MapStep
  <2> DEFINE all == Inserted(Without(All(t, {}), k), k, v)
  <2>1. Left(all)
    BY <1>2, SetLeaves
  <2>2. UNCHANGED <<autoswap, answer>>
    BY <1>2 DEF Set
  <2>3. All(t', {}) = all
    BY <2>1 DEF Left
  <2>4. MapStep
    BY <2>2, <2>3 DEF MapStep
  <2>5. answer' \in BOOLEAN
    BY <2>2 DEF TableInv
  <2> HIDE DEF all
  <2> QED BY <2>1, <2>2, <2>4, <2>5, InvAfterCall
<1>3. ASSUME NEW k \in Keys, RemoveKey(k)
      PROVE  TableInv' /\ MapStep
  <2>1. Left(Without(All(t, {}), k)) /\ answer' = Has(All(t, {}), k)
    BY <1>3, RemoveKeyLeaves
  <2>2. UNCHANGED autoswap
    BY <1>3 DEF RemoveKey
  <2>3. All(t', {}) = Without(All(t, {}), k)
    BY <2>1 DEF Left
  <2>4. MapStep
    BY <2>1, <2>3 DEF MapStep
  <2>5. answer' \in BOOLEAN
    BY <2>1 DEF Has
  <2> QED BY <2>1, <2>2, <2>4, <2>5, InvAfterCall
<1>4. CASE Clear
  <2>1. t' = Empty /\ autoswap' = TRUE /\ UNCHANGED answer
    BY <1>4 DEF Clear
  <2>2. Sound(t', {}) /\ All(t', {}) = {} /\ Here(t', Old(t')) = {}
    BY <2>1, EmptyFacts
  <2> QED BY <2>1, <2>2 DEF TableInv, MapStep
<1>5. CASE Recycle
  <2>1. t' = AfterRecycle(t) /\ UNCHANGED <<autoswap, answer>>
    BY <1>5 DEF Recycle
  <2>2. Sound(t', {}) /\ All(t', {}) = All(t, {}) /\ (Here(t, Old(t)) = {} => t' = t)
    BY <2>1, RecycleFacts DEF TableInv
  <2>3. autoswap' => Here(t', Old(t')) = {}
    BY <2>1, <2>2 DEF TableInv
  <2> QED BY <2>1, <2>2, <2>3 DEF TableInv, MapStep
<1>6. ASSUME ~autoswap, NEW n \in 1 .. MaxSwap, Swap(n)
      PROVE  TableInv' /\ MapStep
  <2>1. t' = SwapWorlds(t, n) /\ UNCHANGED <<autoswap, answer>> /\ t.count[Old(t)] = 0
    BY <1>6 DEF Swap
  <2>2. n \in Nat \ {0}
    BY TableAssumption
  <2>3. Here(t, Old(t)) = {}
    BY <2>1, NothingCounted DEF TableInv
  <2>4. Sound(t', {}) /\ All(t', {}) = All(t, {})
    BY <2>1, <2>2, <2>3, SwapFacts DEF TableInv
  <2> QED BY <1>6, <2>1, <2>4 DEF TableInv, MapStep
<1>7. CASE t.count[Old(t)] = 0 /\ SetAutoswap
  <2>1. autoswap' = ~autoswap /\ UNCHANGED <<t, answer>>
    BY <1>7 DEF SetAutoswap
  <2>2. Here(t, Old(t)) = {}
    BY <1>7, NothingCounted DEF TableInv
  <2> QED BY <2>1, <2>2 DEF TableInv, MapStep
<1>8. CASE UNCHANGED tableVars
  BY <1>8 DEF TableInv, MapStep, tableVars
<1> QED BY <1>1, <1>2, <1>3, <1>4, <1>5, <1>6, <1>7, <1>8 DEF TableNext, TableCalls

LEMMA TableInvHolds == TableSpec => []TableInv
<1>1. TableInit => TableInv
  BY EmptyFacts DEF TableInit, TableInv
<1>2. TableInv /\ [TableNext]_tableVars => TableInv'
  BY TableStep
<1> QED BY <1>1, <1>2, PTL DEF TableSpec

---------------------------------------------------------------------------
(* The places of the entries.                                              *)

At(s, p) == s.chain[p[1]].entries[p[2]]

LEMMA SlotFacts ==
  ASSUME NEW s, Structure(s), NEW w
  PROVE  /\ \A p \in Slots(s, w) :
              /\ p = <<p[1], p[2]>> /\ p[1] \in DOMAIN s.chain /\ s.chain[p[1]].id[1] = w
              /\ p[2] \in DOMAIN s.chain[p[1]].entries /\ At(s, p) \in Here(s, w)
         /\ \A e \in Here(s, w) : \E p \in Slots(s, w) : At(s, p) = e
         /\ \A p, q \in Slots(s, w) : At(s, p).key = At(s, q).key => p = q
<1>1. ASSUME NEW p \in Slots(s, w)
      PROVE  /\ p = <<p[1], p[2]>> /\ p[1] \in DOMAIN s.chain /\ s.chain[p[1]].id[1] = w
             /\ p[2] \in DOMAIN s.chain[p[1]].entries /\ At(s, p) \in Here(s, w)
  <2>1. PICK i \in DOMAIN s.chain :
               s.chain[i].id[1] = w /\ p \in {i} \X DOMAIN s.chain[i].entries
    BY <1>1 DEF Slots
  <2>2. p = <<p[1], p[2]>> /\ p[1] = i /\ p[2] \in DOMAIN s.chain[i].entries
    BY <2>1
  <2>3. s.chain[i].entries \in Seq(Entry)
    BY ChainFacts
  <2>4. s.chain[i].entries[p[2]] \in Entry
    BY <2>2, <2>3
  <2> QED BY <2>1, <2>2, <2>4 DEF At, Here
<1>2. ASSUME NEW e \in Here(s, w)
      PROVE  \E p \in Slots(s, w) : At(s, p) = e
  <2>1. PICK i \in DOMAIN s.chain : \E j \in DOMAIN s.chain[i].entries :
               s.chain[i].id[1] = w /\ s.chain[i].entries[j] = e
    BY DEF Here
  <2>2. PICK j \in DOMAIN s.chain[i].entries :
               s.chain[i].id[1] = w /\ s.chain[i].entries[j] = e
    BY <2>1
  <2>3. <<i, j>> \in {i} \X DOMAIN s.chain[i].entries
    OBVIOUS
  <2>4. <<i, j>> \in Slots(s, w)
    BY <2>2, <2>3 DEF Slots
  <2>5. At(s, <<i, j>>) = e
    BY <2>2 DEF At
  <2> QED BY <2>4, <2>5
<1>3. ASSUME NEW p \in Slots(s, w), NEW q \in Slots(s, w), At(s, p).key = At(s, q).key
      PROVE  p = q
  <2> DEFINE i == p[1]  j == p[2]  k == q[1]  l == q[2]
  <2>1. /\ p = <<i, j>> /\ i \in DOMAIN s.chain /\ s.chain[i].id[1] = w
        /\ j \in DOMAIN s.chain[i].entries
    BY <1>1
  <2>2. /\ q = <<k, l>> /\ k \in DOMAIN s.chain /\ s.chain[k].id[1] = w
        /\ l \in DOMAIN s.chain[k].entries
    BY <1>1
  <2>3. s.chain[i].entries[j].key = s.chain[k].entries[l].key
    BY <1>3 DEF At
  <2> HIDE DEF i, j, k, l
  <2>4. /\ s.chain[i].id = Bucket(s, w, s.chain[i].entries[j].key)
        /\ s.chain[k].id = Bucket(s, w, s.chain[k].entries[l].key)
    BY <2>1, <2>2 DEF Structure
  <2>5. i = k
    <3>1. s.chain[i].id = s.chain[k].id
      BY <2>3, <2>4
    <3> QED BY <2>1, <2>2, <3>1 DEF Structure
  <2>6. j = l
    BY <2>1, <2>2, <2>3, <2>5 DEF Structure
  <2> QED BY <2>1, <2>2, <2>5, <2>6
<1> QED BY <1>1, <1>2, <1>3

LEMMA SlotsCounted ==
  ASSUME NEW s, Structure(s), NEW w, IsFiniteSet(Here(s, w))
  PROVE  Cardinality(Slots(s, w)) = Cardinality(Here(s, w))
<1> DEFINE H == Here(s, w)  S == Slots(s, w)
           f == [e \in H |-> CHOOSE p \in S : At(s, p) = e]
<1>1. /\ \A p \in S : At(s, p) \in H
      /\ \A e \in H : \E p \in S : At(s, p) = e
      /\ \A p, q \in S : At(s, p).key = At(s, q).key => p = q
  BY SlotFacts
<1> HIDE DEF H, S
<1>2. \A e \in H : f[e] \in S /\ At(s, f[e]) = e
  BY <1>1
<1>3. f \in [H -> S]
  BY <1>2
<1>4. \A a, b \in H : f[a] = f[b] => a = b
  BY <1>2
<1>5. \A p \in S : \E e \in H : f[e] = p
  <2> SUFFICES ASSUME NEW p \in S PROVE f[At(s, p)] = p
    BY <1>1
  <2>1. At(s, p) \in H
    BY <1>1
  <2>2. f[At(s, p)] \in S /\ At(s, f[At(s, p)]) = At(s, p)
    BY <1>2, <2>1
  <2> HIDE DEF f
  <2> QED BY <1>1, <2>2
<1> HIDE DEF f
<1>6. f \in Bijection(H, S)
  BY <1>3, <1>4, <1>5 DEF Bijection, Injection, Surjection, IsInjective
<1>7. ExistsBijection(H, S) /\ IsFiniteSet(H)
  BY <1>6 DEF ExistsBijection, H
<1>8. Cardinality(S) = Cardinality(H)
  BY <1>7, FS_Bijection
<1> QED BY <1>8 DEF H, S

LEMMA EntriesAreThose ==
  ASSUME Sound(t, {})
  PROVE  /\ {EntryAt(p) : p \in AllSlots} = All(t, {})
         /\ \A p, q \in AllSlots : EntryAt(p).key = EntryAt(q).key => p = q
<1>1. /\ Structure(t) /\ Worlds = {t.world, Old(t)}
      /\ All(t, {}) = Here(t, t.world) \cup Here(t, Old(t))
      /\ Here(t, t.world) \cap Here(t, Old(t)) = {}
      /\ \A e, f \in All(t, {}) : e.key = f.key => e = f
  BY SoundFacts
<1>2. AllSlots = Slots(t, t.world) \cup Slots(t, Old(t))
  <2>1. {0, 1} = {t.world, Old(t)}
    BY <1>1 DEF Worlds
  <2>2. (t.world = 0 /\ Old(t) = 1) \/ (t.world = 1 /\ Old(t) = 0)
    BY <2>1
  <2> QED BY <2>2 DEF AllSlots
<1>3. \A p : EntryAt(p) = At(t, p)
  BY DEF EntryAt, At
<1>4. \A w : /\ \A p \in Slots(t, w) : At(t, p) \in Here(t, w)
             /\ \A e \in Here(t, w) : \E p \in Slots(t, w) : At(t, p) = e
             /\ \A p, q \in Slots(t, w) : At(t, p).key = At(t, q).key => p = q
  BY <1>1, SlotFacts
<1>5. {EntryAt(p) : p \in AllSlots} = All(t, {})
  BY <1>1, <1>2, <1>3, <1>4
<1>6. ASSUME NEW p \in AllSlots, NEW q \in AllSlots, At(t, p).key = At(t, q).key
      PROVE  p = q
  <2>1. At(t, p) \in All(t, {}) /\ At(t, q) \in All(t, {})
    BY <1>1, <1>2, <1>4
  <2>2. At(t, p) = At(t, q)
    BY <1>1, <1>6, <2>1
  <2>3. PICK w : p \in Slots(t, w) /\ w \in {t.world, Old(t)}
    BY <1>2
  <2>4. PICK v : q \in Slots(t, v) /\ v \in {t.world, Old(t)}
    BY <1>2
  <2>5. At(t, p) \in Here(t, w) /\ At(t, p) \in Here(t, v)
    BY <1>4, <2>2, <2>3, <2>4
  <2>6. w = v
    BY <1>1, <2>3, <2>4, <2>5
  <2> QED BY <1>4, <1>6, <2>3, <2>4, <2>6
<1> QED BY <1>3, <1>5, <1>6

---------------------------------------------------------------------------
(* The theorems.                                                           *)

LEMMA BorderIsOldBeforeNew ==
  ASSUME Structure(t)
  PROVE  OldBeforeNew
<1> DEFINE new == {i \in DOMAIN t.chain : t.chain[i].id[1] = t.world}
<1>1. Len(t.chain) \in Nat /\ DOMAIN t.chain = 1 .. Len(t.chain)
  BY ChainFacts
<1>2. PICK m \in 0 .. Len(t.chain) : Border(t, m)
  BY DEF Structure
<1>3. new = {i \in 1 .. Len(t.chain) : i > m}
  BY <1>1, <1>2 DEF Border
<1> HIDE DEF new
<1>4. \A i \in new, j \in DOMAIN t.chain : i < j => j \in new
  BY <1>1, <1>3
<1>5. t.first = IF new = {} THEN None
                ELSE t.chain[CHOOSE i \in new : \A j \in new : i <= j].id
  <2>1. CASE m = Len(t.chain)
    <3>1. new = {}
      BY <1>1, <1>3, <2>1
    <3> QED BY <1>2, <2>1, <3>1 DEF Border
  <2>2. CASE m # Len(t.chain)
    <3>1. m + 1 \in new /\ \A j \in new : m + 1 <= j
      BY <1>1, <1>2, <1>3, <2>2
    <3>2. \A i \in new : (\A j \in new : i <= j) => i = m + 1
      BY <1>3, <3>1
    <3>3. (CHOOSE i \in new : \A j \in new : i <= j) = m + 1
      BY <3>1, <3>2
    <3> QED BY <1>2, <2>2, <3>1, <3>3 DEF Border
  <2> QED BY <2>1, <2>2
<1> QED BY <1>4, <1>5 DEF OldBeforeNew, new

\* The list of buckets in use holds those of the old world first, and
\* first_new_world is the bucket after them: what hash_table_recycle() moves
\* is old, and it stops when there is nothing old left.
THEOREM OldBucketsFirst == TableSpec => []OldBeforeNew
<1>1. TableInv => OldBeforeNew
  BY BorderIsOldBeforeNew DEF TableInv, Sound
<1> QED BY <1>1, TableInvHolds, PTL

\* n_elements of both worlds are right after every call, whichever bucket
\* it moved: the REQUIRE of hash_table_recycle() holds and hash_table_swap()
\* refuses only a table whose old world holds something.
THEOREM CountsAreRight == TableSpec => []CountsAgree
<1>1. ASSUME TableInv PROVE CountsAgree
  <2>1. Structure(t) /\ Worlds = {t.world, Old(t)}
        /\ IsFiniteSet(Here(t, t.world)) /\ IsFiniteSet(Here(t, Old(t)))
        /\ t.count[t.world] = Cardinality(Here(t, t.world))
        /\ t.count[Old(t)] = Cardinality(Here(t, Old(t)))
    BY <1>1, SoundFacts DEF TableInv
  <2> QED BY <2>1, SlotsCounted DEF CountsAgree
<1> QED BY <1>1, TableInvHolds, PTL

\* No key has two entries, be it one in each world: removing a key removes
\* it, and what was stored last is found.
THEOREM KeysAreOnce == TableSpec => []KeysOnce
<1>1. TableInv => KeysOnce
  BY EntriesAreThose DEF TableInv, KeysOnce
<1> QED BY <1>1, TableInvHolds, PTL

---------------------------------------------------------------------------
(* The map.                                                                *)

MapOf(all) == [k \in {e.key : e \in all} |-> (CHOOSE e \in all : e.key = k).value]
Unique(all) == all \subseteq Entry /\ \A e, f \in all : e.key = f.key => e = f

LEMMA MapOfIs ==
  ASSUME NEW all, Unique(all)
  PROVE  /\ \A k : k \in DOMAIN MapOf(all) <=> Has(all, k)
         /\ \A e \in all : MapOf(all)[e.key] = e.value
<1>1. \A k : k \in DOMAIN MapOf(all) <=> Has(all, k)
  BY DEF MapOf, Has
<1>2. ASSUME NEW e \in all
      PROVE  MapOf(all)[e.key] = e.value
  <2>1. \A f \in all : f.key = e.key => f = e
    BY DEF Unique
  <2>2. (CHOOSE f \in all : f.key = e.key) = e
    BY <2>1
  <2> QED BY <2>2 DEF MapOf
<1> QED BY <1>1, <1>2

LEMMA SameMap ==
  ASSUME NEW all, Unique(all), NEW D, NEW g,
         g = [k \in D |-> g[k]],
         \A k : k \in D <=> Has(all, k),
         \A e \in all : g[e.key] = e.value
  PROVE  MapOf(all) = g
<1>1. DOMAIN MapOf(all) = D
  BY MapOfIs
<1>2. \A k \in D : MapOf(all)[k] = g[k]
  <2> SUFFICES ASSUME NEW k \in D PROVE MapOf(all)[k] = g[k]
    OBVIOUS
  <2>1. PICK e \in all : e.key = k
    BY DEF Has
  <2> QED BY <2>1, MapOfIs
<1>3. MapOf(all) = [k \in DOMAIN MapOf(all) |-> MapOf(all)[k]]
  BY DEF MapOf
<1> QED BY <1>1, <1>2, <1>3

LEMMA MapOfInserted ==
  ASSUME NEW all, Unique(all), NEW k \in Keys, NEW v \in Values
  PROVE  /\ Unique(Inserted(Without(all, k), k, v))
         /\ MapOf(Inserted(Without(all, k), k, v)) = Map!With(MapOf(all), k, v)
<1> DEFINE new == Inserted(Without(all, k), k, v)
           m == MapOf(all)
           D == DOMAIN m \cup {k}
           g == [x \in D |-> IF x = k THEN v ELSE m[x]]
           f == [key |-> k, value |-> v]
<1>1. f \in Entry /\ f.key = k /\ f.value = v
  BY DEF Entry
<1>2. new = {e \in all : e.key # k} \cup {f}
  BY DEF Inserted, Without
<1> HIDE DEF f, new
<1>3. Unique(new)
  BY <1>1, <1>2 DEF Unique
<1>4. \A x : x \in D <=> Has(new, x)
  BY <1>1, <1>2, MapOfIs DEF Has
<1>5. \A e \in new : g[e.key] = e.value
  <2>1. ASSUME NEW e \in all, e.key # k
        PROVE  g[e.key] = e.value
    <3>1. e.key \in DOMAIN m /\ m[e.key] = e.value
      BY MapOfIs DEF Has
    <3> HIDE DEF m
    <3> QED BY <2>1, <3>1
  <2>2. g[f.key] = f.value
    BY <1>1
  <2> HIDE DEF g
  <2> QED BY <1>2, <2>1, <2>2
<1>6. g = [x \in D |-> g[x]]
  OBVIOUS
<1>7. g = Map!With(MapOf(all), k, v)
  BY DEF Map!With
<1> HIDE DEF g, D, m
<1>8. MapOf(new) = g
  BY <1>3, <1>4, <1>5, <1>6, SameMap
<1> QED BY <1>3, <1>7, <1>8 DEF new

LEMMA MapOfWithout ==
  ASSUME NEW all, Unique(all), NEW k
  PROVE  MapOf(Without(all, k)) = [x \in DOMAIN MapOf(all) \ {k} |-> MapOf(all)[x]]
<1> DEFINE new == Without(all, k)
           m == MapOf(all)
           D == DOMAIN m \ {k}
           g == [x \in D |-> m[x]]
<1>1. new = {e \in all : e.key # k}
  BY DEF Without
<1> HIDE DEF new
<1>2. Unique(new)
  BY <1>1 DEF Unique
<1>3. \A x : x \in D <=> Has(new, x)
  BY <1>1, MapOfIs DEF Has
<1>4. \A e \in new : g[e.key] = e.value
  <2> SUFFICES ASSUME NEW e \in new PROVE g[e.key] = e.value
    OBVIOUS
  <2>1. e \in all /\ e.key # k /\ e.key \in DOMAIN m /\ m[e.key] = e.value
    BY <1>1, MapOfIs DEF Has
  <2> HIDE DEF m
  <2> QED BY <2>1
<1>5. g = [x \in D |-> g[x]]
  OBVIOUS
<1> HIDE DEF g, D
<1>6. MapOf(new) = g
  BY <1>2, <1>3, <1>4, <1>5, SameMap
<1> QED BY <1>6 DEF new, g, D, m

LEMMA MapOfNothing == MapOf({}) = << >>
  BY DEF MapOf

LEMMA ContentsIsMap ==
  ASSUME Sound(t, {})
  PROVE  Contents = MapOf(All(t, {})) /\ Unique(All(t, {}))
<1>1. {EntryAt(p) : p \in AllSlots} = All(t, {})
  BY EntriesAreThose
<1>2. Unique(All(t, {}))
  BY SoundFacts DEF Unique
<1> DEFINE there == {EntryAt(p) : p \in AllSlots}
<1>3. Contents = MapOf(there)
  BY DEF Contents, MapOf
<1> HIDE DEF there
<1>4. there = All(t, {})
  BY <1>1 DEF there
<1> QED BY <1>2, <1>3, <1>4

\* hash_table_find_or_insert(), hash_table_set(), hash_table_remove() and
\* hash_table_clear() do to the contents of the table, and answer, what a map
\* does; recycling, swapping and autoswap are not to be seen.
THEOREM TableIsMap == TableSpec => ImplementsMap
<1>1. TableInit => Map!Init
  <2> SUFFICES ASSUME TableInit PROVE Map!Init
    OBVIOUS
  <2>1. t = Empty /\ answer = FALSE
    BY DEF TableInit
  <2>2. Sound(t, {}) /\ All(t, {}) = {}
    BY <2>1, EmptyFacts
  <2>3. Contents = << >>
    BY <2>2, ContentsIsMap, MapOfNothing
  <2> QED BY <2>1, <2>3 DEF Map!Init
<1>2. ASSUME TableInv, TableInv', [TableNext]_tableVars
      PROVE  [Map!Next]_<<Contents, answer>>
  <2> DEFINE all == All(t, {})  new == All(t', {})
  <2>1. Contents = MapOf(all) /\ Unique(all)
    BY <1>2, ContentsIsMap DEF TableInv
  <2>2. Contents' = MapOf(new)
    <3>1. (Sound(t, {}) => Contents = MapOf(All(t, {})))'
      BY ContentsIsMap, PTL
    <3> QED BY <1>2, <3>1 DEF TableInv
  <2>3. MapStep
    BY <1>2, TableStep
  <2>4. \A k : k \in DOMAIN MapOf(all) <=> Has(all, k)
    BY <2>1, MapOfIs
  <2>5. CASE \E k \in Keys, v \in Values :
               /\ answer' = ~Has(all, k)
               /\ new = IF Has(all, k) THEN all ELSE Inserted(all, k, v)
    <3>1. PICK k \in Keys, v \in Values :
               /\ answer' = ~Has(all, k)
               /\ new = IF Has(all, k) THEN all ELSE Inserted(all, k, v)
      BY <2>5
    <3>2. ~Has(all, k) => Without(all, k) = all
      BY DEF Has, Without
    <3>3. MapOf(Inserted(Without(all, k), k, v)) = Map!With(MapOf(all), k, v)
      BY <2>1, MapOfInserted
    <3> HIDE DEF all, new
    <3>4. Map!FindOrInsert(k, v)
      BY <2>1, <2>2, <2>4, <3>1, <3>2, <3>3 DEF Map!FindOrInsert
    <3> QED BY <3>4 DEF Map!Next
  <2>6. CASE \E k \in Keys, v \in Values :
               new = Inserted(Without(all, k), k, v) /\ UNCHANGED answer
    <3>1. PICK k \in Keys, v \in Values :
               new = Inserted(Without(all, k), k, v) /\ UNCHANGED answer
      BY <2>6
    <3>2. MapOf(Inserted(Without(all, k), k, v)) = Map!With(MapOf(all), k, v)
      BY <2>1, MapOfInserted
    <3> HIDE DEF all, new
    <3>3. Map!Set(k, v)
      BY <2>1, <2>2, <3>1, <3>2 DEF Map!Set
    <3> QED BY <3>3 DEF Map!Next
  <2>7. CASE \E k \in Keys : answer' = Has(all, k) /\ new = Without(all, k)
    <3>1. PICK k \in Keys : answer' = Has(all, k) /\ new = Without(all, k)
      BY <2>7
    <3>2. MapOf(Without(all, k)) = [x \in DOMAIN MapOf(all) \ {k} |-> MapOf(all)[x]]
      BY <2>1, MapOfWithout
    <3> HIDE DEF all, new
    <3>3. answer' = (k \in DOMAIN MapOf(all))
      <4> DEFINE D == DOMAIN MapOf(all)
      <4>1. answer' = Has(all, k) /\ (k \in D <=> Has(all, k)) /\ Has(all, k) \in BOOLEAN
        BY <2>4, <3>1 DEF Has
      <4> HIDE DEF D
      <4>2. answer' = (k \in D)
        BY <4>1, SMT
      <4> QED BY <4>2 DEF D
    <3>4. Map!RemoveKey(k)
      BY <2>1, <2>2, <3>1, <3>2, <3>3 DEF Map!RemoveKey
    <3> QED BY <3>4 DEF Map!Next
  <2>8. CASE new = {} /\ UNCHANGED answer
    <3> HIDE DEF all, new
    <3>1. Map!Clear
      BY <2>2, <2>8, MapOfNothing DEF Map!Clear
    <3> QED BY <3>1 DEF Map!Next
  <2>9. CASE new = all /\ UNCHANGED answer
    <3> HIDE DEF all, new
    <3> QED BY <2>1, <2>2, <2>9
  <2> HIDE DEF all, new
  <2> QED BY <2>3, <2>5, <2>6, <2>7, <2>8, <2>9 DEF MapStep, all, new
<1>3. TableSpec => []TableInv
  BY TableInvHolds
<1> QED BY <1>1, <1>2, <1>3, PTL DEF TableSpec, ImplementsMap, Map!Spec

---------------------------------------------------------------------------
(* Recycling comes to an end.                                              *)

Total(s) == s.count[s.world] + s.count[Old(s)]
\* How many entries are to be moved yet: those of the old world, and all of
\* them once more if the current world has not the size for them.
ToMove(s) ==
  s.count[Old(s)] + IF OccupancyOK(Total(s), s.size[s.world]) THEN 0 ELSE Total(s)

\* The size that hash_table_recycle() chooses suits the number of entries.
LEMMA NewSizeFits ==
  ASSUME MinSize <= 2, NEW n \in Nat \ {0}
  PROVE  OccupancyOK(n, NewSize(n))
<1>1. MinSize \in Nat \ {0}
  BY TableAssumption
<1> DEFINE q == (3 * n) \div 2
<1>2. q \in Nat /\ 2 * q <= 3 * n /\ 3 * n <= 2 * q + 1
  OBVIOUS
<1>3. NewSize(n) = IF q < MinSize THEN MinSize ELSE q
  BY DEF NewSize
<1> HIDE DEF q
<1>4. 2 * n >= NewSize(n) /\ n <= 2 * NewSize(n)
  BY <1>1, <1>2, <1>3
<1> QED BY <1>4 DEF OccupancyOK

LEMMA TotalIsAll ==
  ASSUME NEW s, Sound(s, {})
  PROVE  /\ Total(s) \in Nat /\ s.count[Old(s)] \in Nat /\ s.count[Old(s)] <= Total(s)
         /\ IsFiniteSet(All(s, {})) /\ Total(s) = Cardinality(All(s, {}))
<1> DEFINE A == Here(s, s.world)  B == Here(s, Old(s))
<1>1. /\ All(s, {}) = A \cup B /\ IsFiniteSet(A) /\ IsFiniteSet(B) /\ A \cap B = {}
      /\ s.count[s.world] = Cardinality(A) /\ s.count[Old(s)] = Cardinality(B)
  BY SoundFacts
<1> HIDE DEF A, B
<1>2. (A \cup B) \ B = A /\ B \in SUBSET (A \cup B)
  BY <1>1
<1>3. IsFiniteSet(A \cup B)
  BY <1>1, FS_Union
<1> DEFINE S == A \cup B  T == S \ B
<1>4. Cardinality(S) = Cardinality(T) + Cardinality(B)
  BY <1>2, <1>3, SplitCardinality
<1>5. T = A
  BY <1>2
<1> HIDE DEF S, T
<1>6. Cardinality(A) \in Nat /\ Cardinality(B) \in Nat
  BY <1>1, FS_CardinalityType
<1>7. Cardinality(S) = Cardinality(A) + Cardinality(B)
  BY <1>4, <1>5
<1>8. Total(s) = Cardinality(S) /\ All(s, {}) = S /\ IsFiniteSet(S)
  BY <1>1, <1>3, <1>7 DEF Total, S
<1> QED BY <1>1, <1>6, <1>7, <1>8

LEMMA ToMoveIsNat ==
  ASSUME NEW s, Sound(s, {})
  PROVE  /\ ToMove(s) \in Nat /\ ToMove(s) <= 2 * Total(s)
         /\ ToMove(s) = 0 => ~CanRecycle(s)
<1>1. Total(s) \in Nat /\ s.count[Old(s)] \in Nat /\ s.count[Old(s)] <= Total(s)
  BY TotalIsAll
<1>2. ToMove(s) \in Nat /\ ToMove(s) <= 2 * Total(s) /\ s.count[Old(s)] <= ToMove(s)
  BY <1>1 DEF ToMove
<1>3. ASSUME s.count[Old(s)] = 0 PROVE ~CanRecycle(s)
  <2>1. Structure(s)
    BY DEF Sound
  <2>2. Here(s, Old(s)) = {}
    BY <1>3, NothingCounted
  <2>3. \A i \in DOMAIN s.chain : s.chain[i].id[1] = s.world
    BY <2>1, <2>2, NoOldBucket
  <2> QED BY <2>1, <2>3, HeadFacts DEF CanRecycle
<1>4. ToMove(s) = 0 => s.count[Old(s)] = 0
  BY <1>1, <1>2
<1> QED BY <1>2, <1>3, <1>4

\* Moving the bucket at the head of the list leaves less to move.
LEMMA MovedBucketCounts ==
  ASSUME NEW s, Sound(s, {}), CanRecycle(s)
  PROVE  LET r == MoveBucket(s, Head(s.chain).id)
         IN  /\ Sound(r, {}) /\ r.world = s.world /\ r.size = s.size
             /\ Total(r) = Total(s) /\ r.count[Old(r)] < s.count[Old(s)]
<1> DEFINE b == Head(s.chain).id
           r == MoveBucket(s, b)
           es == s.chain[1].entries
<1>1. Structure(s) /\ Worlds = {s.world, Old(s)} /\ s \in Table
  BY SoundFacts
<1>2. s.chain # <<>> /\ b # s.first
  BY DEF CanRecycle
<1>3. 1 \in DOMAIN s.chain /\ b = s.chain[1].id /\ b \in BucketId /\ b[1] # s.world
  BY <1>1, <1>2, HeadFacts, ChainFacts
<1>4. b[1] = Old(s)
  BY <1>1, <1>3 DEF BucketId
<1>5. EntriesOf(s, b) = es /\ es \in Seq(Entry) /\ es # <<>>
  BY <1>1, <1>3, Positions, ChainFacts DEF EntriesOf, Structure
<1>6. ToSet(es) \subseteq Here(s, Old(s))
  BY <1>1, <1>3, <1>4, RemoveBucketFacts DEF Taken
<1>7. Moved(s, {}, r, {}, Here(s, Old(s)) \ ToSet(es))
  <2> HIDE DEF b, es
  <2> QED BY <1>4, <1>5, MoveBucketFacts
<1> HIDE DEF r, b
<1>8. ToSet(es) # {}
  <2> HIDE DEF es
  <2>1. 1 \in DOMAIN es
    BY <1>5
  <2> QED BY <2>1 DEF ToSet
<1> DEFINE R == ToSet(es)  H == Here(s, Old(s))
<1> HIDE DEF es
<1>9. /\ Sound(r, {}) /\ All(r, {}) = All(s, {}) /\ r.world = s.world /\ r.size = s.size
      /\ Here(r, Old(r)) = H \ R
  BY <1>7 DEF Moved, Old
<1>10. /\ IsFiniteSet(H) /\ s.count[Old(s)] = Cardinality(H)
       /\ r.count[Old(r)] = Cardinality(Here(r, Old(r)))
  BY <1>9, SoundFacts
<1>11. R \in SUBSET H /\ R # {}
  BY <1>6, <1>8
<1> HIDE DEF R, H
<1>12. /\ IsFiniteSet(R) /\ IsFiniteSet(H \ R)
       /\ Cardinality(H) = Cardinality(H \ R) + Cardinality(R)
  BY <1>10, <1>11, SplitCardinality
<1>13. Cardinality(R) \in Nat /\ Cardinality(R) # 0 /\ Cardinality(H \ R) \in Nat
  BY <1>11, <1>12, FS_CardinalityType, FS_EmptySet
<1>14. r.count[Old(r)] < s.count[Old(s)]
  BY <1>9, <1>10, <1>12, <1>13
<1>15. Total(r) = Total(s)
  BY <1>9, TotalIsAll
<1> QED BY <1>9, <1>14, <1>15 DEF r, b

LEMMA RecycleMoves ==
  ASSUME NEW s, Sound(s, {}), CanRecycle(s), MinSize <= 2
  PROVE  ToMove(AfterRecycle(s)) < ToMove(s)
<1> DEFINE r == MoveBucket(s, Head(s.chain).id)
           n == r.count[r.world]
           q == SwapWorlds(r, NewSize(n))
<1>1. /\ Sound(r, {}) /\ r.world = s.world /\ r.size = s.size
      /\ Total(r) = Total(s) /\ r.count[Old(r)] < s.count[Old(s)]
  BY MovedBucketCounts
<1>2. AfterRecycle(s) = IF IsFirst(r, r.first) /\ ~OccupancyOK(n, r.size[r.world])
                        THEN q ELSE r
  BY DEF AfterRecycle, RecycledOnce
<1> HIDE DEF r
<1>3. /\ Total(s) \in Nat /\ s.count[Old(s)] \in Nat /\ s.count[Old(s)] <= Total(s)
      /\ r.count[Old(r)] \in Nat
  BY <1>1, TotalIsAll
<1>4. ToMove(r) < ToMove(s)
  BY <1>1, <1>3 DEF ToMove
<1>5. ASSUME IsFirst(r, r.first), ~OccupancyOK(n, r.size[r.world])
      PROVE  ToMove(q) < ToMove(s)
  <2>1. Structure(r) /\ r.chain # <<>> /\ Head(r.chain).id = r.first
    BY <1>1, <1>5 DEF IsFirst, Sound
  <2>2. \A i \in DOMAIN r.chain : r.chain[i].id[1] = r.world
    BY <2>1, HeadFacts
  <2>3. Here(r, Old(r)) = {}
    BY <2>1, <2>2, NoOldBucket
  <2>4. r.count[Old(r)] = 0
    BY <1>1, <2>3, SoundFacts, FS_EmptySet
  <2>5. n = Total(s) /\ n \in Nat \ {0}
    <3>1. n \in Int
      <4>1. r \in Table /\ r.world \in Worlds
        BY <1>1, SoundFacts
      <4> QED BY <4>1 DEF Table
    <3>2. Total(r) = n + 0
      BY <2>4 DEF Total
    <3> HIDE DEF n
    <3> QED BY <1>1, <1>3, <3>1, <3>2
  <2>6. ToMove(s) = s.count[Old(s)] + n
    <3>1. ~OccupancyOK(Total(s), s.size[s.world])
      BY <1>1, <1>5, <2>5
    <3> QED BY <2>5, <3>1 DEF ToMove
  <2>7. /\ q.count = r.count /\ q.world = Old(r) /\ Old(q) = r.world
        /\ q.size[q.world] = NewSize(n)
    <3>1. /\ r \in Table /\ r.world \in Worlds /\ Old(r) \in Worlds
      BY <1>1, SoundFacts
    <3>2. r.size \in [Worlds -> Nat \ {0}]
      BY <3>1 DEF Table
    <3>3. 1 - (1 - r.world) = r.world
      BY <3>1 DEF Worlds
    <3> QED BY <3>1, <3>2, <3>3 DEF SwapWorlds, Old
  <2> HIDE DEF q
  <2>8. Total(q) = n /\ q.count[Old(q)] = n
    <3> HIDE DEF n
    <3>1. Total(q) = 0 + n
      BY <2>4, <2>7 DEF Total, n
    <3> QED BY <2>5, <2>7, <3>1 DEF n
  <2>9. OccupancyOK(Total(q), q.size[q.world])
    <3> HIDE DEF n
    <3> QED BY <2>5, <2>7, <2>8, NewSizeFits
  <2>10. ToMove(q) = n + 0
    BY <2>8, <2>9 DEF ToMove
  <2> HIDE DEF n
  <2> QED BY <1>1, <1>3, <2>5, <2>6, <2>10
<1> HIDE DEF q, n
<1> QED BY <1>2, <1>4, <1>5

\* f holds the tables between the calls of hash_table_recycle().
Recyclings(s, k, f) ==
  f[0] = s /\ \A n \in 1 .. k : f[n] = AfterRecycle(f[n - 1])

LEMMA RecyclingsEnd ==
  ASSUME NEW s, Sound(s, {}), MinSize <= 2,
         NEW k \in Nat, 2 * Total(s) <= k, NEW f, Recyclings(s, k, f)
  PROVE  ~CanRecycle(f[k])
<1> DEFINE Fine(m) == /\ Sound(f[m], {})
                      /\ ~CanRecycle(f[m]) \/ ToMove(f[m]) + m <= ToMove(s)
           S == {m \in Nat : m <= k => Fine(m)}
<1>1. /\ f[0] = s /\ \A n \in 1 .. k : f[n] = AfterRecycle(f[n - 1])
      /\ ToMove(s) \in Nat
  BY ToMoveIsNat DEF Recyclings
<1>2. 0 \in S
  BY <1>1
<1>3. ASSUME NEW m \in Nat, m \in S
      PROVE  m + 1 \in S
  <2> SUFFICES ASSUME m + 1 <= k PROVE Fine(m + 1)
    OBVIOUS
  <2>1. m <= k /\ m + 1 \in 1 .. k /\ m + 1 - 1 = m
    OBVIOUS
  <2>2. Fine(m)
    BY <1>3, <2>1
  <2>3. f[m + 1] = AfterRecycle(f[m])
    BY <1>1, <2>1
  <2>4. Sound(f[m], {}) /\ Sound(f[m + 1], {})
    BY <2>2, <2>3, RecycleFacts
  <2>5. CASE ~CanRecycle(f[m])
    <3>1. f[m + 1] = f[m]
      BY <2>3, <2>5 DEF AfterRecycle
    <3> QED BY <2>4, <2>5, <3>1
  <2>6. CASE CanRecycle(f[m])
    <3>1. ToMove(f[m + 1]) < ToMove(f[m])
      BY <2>3, <2>4, <2>6, RecycleMoves
    <3>2. ToMove(f[m]) \in Nat /\ ToMove(f[m + 1]) \in Nat /\ ToMove(f[m]) + m <= ToMove(s)
      BY <2>2, <2>4, <2>6, ToMoveIsNat
    <3>3. ToMove(f[m + 1]) + (m + 1) <= ToMove(s)
      BY <1>1, <3>1, <3>2
    <3> QED BY <2>4, <3>3
  <2> QED BY <2>5, <2>6
<1>4. Nat \subseteq S
  <2> HIDE DEF S
  <2> QED BY <1>2, <1>3, NatSetInduction
<1>5. Fine(k)
  <2> HIDE DEF Fine
  <2> QED BY <1>4
<1>6. ASSUME ToMove(f[k]) + k <= ToMove(s) PROVE ~CanRecycle(f[k])
  <2>1. ToMove(f[k]) \in Nat /\ ToMove(s) <= 2 * Total(s) /\ Total(s) \in Nat
    BY <1>5, ToMoveIsNat, TotalIsAll
  <2>2. ToMove(f[k]) = 0
    BY <1>1, <1>6, <2>1
  <2> QED BY <1>5, <2>2, ToMoveIsNat
<1> QED BY <1>5, <1>6

\* The recursive function of RecyclingEnds.
LEMMA RecyclingsUnrolled ==
  ASSUME Sound(t, {}), NEW k \in Nat
  PROVE  LET after[i \in 0 .. k] == IF i = 0 THEN t ELSE AfterRecycle(after[i - 1])
         IN  Recyclings(t, k, after)
<1> DEFINE X == {s \in Table : Sound(s, {})}
           g == [s \in X |-> AfterRecycle(s)]
           Is(h) == h = [i \in 0 .. k |-> IF i = 0 THEN t ELSE AfterRecycle(h[i - 1])]
<1>1. t \in X
  BY SoundFacts
<1>2. g \in [X -> X]
  <2>1. ASSUME NEW s \in X PROVE AfterRecycle(s) \in X
    BY RecycleFacts, SoundFacts
  <2> HIDE DEF X
  <2> QED BY <2>1
<1>3. PICK f : Iterates(f, X, t, g, k)
  <2> HIDE DEF X, g
  <2> QED BY <1>1, <1>2, IterationExists
<1>4. /\ f \in [0 .. k -> X] /\ f[0] = t /\ \A n \in 1 .. k : f[n] = AfterRecycle(f[n - 1])
  <2>1. f \in [0 .. k -> X] /\ f[0] = t /\ \A n \in 1 .. k : f[n] = g[f[n - 1]]
    BY <1>3 DEF Iterates
  <2>2. ASSUME NEW n \in 1 .. k PROVE f[n] = AfterRecycle(f[n - 1])
    <3>1. n - 1 \in 0 .. k
      OBVIOUS
    <3> HIDE DEF X
    <3>2. f[n - 1] \in X
      BY <2>1, <3>1
    <3>3. f[n] = g[f[n - 1]]
      BY <2>1
    <3> QED BY <3>2, <3>3
  <2> QED BY <2>1, <2>2
<1> HIDE DEF X, g
<1>5. Is(f)
  <2>1. f = [i \in 0 .. k |-> f[i]]
    BY <1>4
  <2>2. ASSUME NEW i \in 0 .. k
        PROVE  f[i] = IF i = 0 THEN t ELSE AfterRecycle(f[i - 1])
    <3>1. i # 0 => i \in 1 .. k
      OBVIOUS
    <3> QED BY <1>4, <3>1
  <2> QED BY <2>1, <2>2
<1> DEFINE h == CHOOSE h : Is(h)
<1>6. Is(h)
  <2> HIDE DEF Is
  <2> QED BY <1>5
<1>7. h[0] = t /\ \A n \in 1 .. k : h[n] = AfterRecycle(h[n - 1])
  <2>1. PICK x : x = h
    OBVIOUS
  <2>2. x = [i \in 0 .. k |-> IF i = 0 THEN t ELSE AfterRecycle(x[i - 1])]
    BY <1>6, <2>1
  <2>3. \A i \in 0 .. k : x[i] = IF i = 0 THEN t ELSE AfterRecycle(x[i - 1])
    BY <2>2
  <2>4. 0 \in 0 .. k /\ \A n \in 1 .. k : n \in 0 .. k /\ n # 0
    OBVIOUS
  <2>5. x[0] = t /\ \A n \in 1 .. k : x[n] = AfterRecycle(x[n - 1])
    BY <2>3, <2>4
  <2> HIDE DEF h
  <2> QED BY <2>1, <2>5
<1> QED BY <1>7 DEF Recyclings, h

\* Calling hash_table_recycle() until it answers 0 ends, after at most twice
\* as many calls as there can be keys.  The tables of the C library itself
\* are made with a min_size of 1.
THEOREM RecyclingTerminates ==
  ASSUME IsFiniteSet(Keys), MinSize <= 2
  PROVE  TableSpec => []RecyclingEnds
<1>1. ASSUME TableInv PROVE RecyclingEnds
  <2> DEFINE k == 2 * Cardinality(Keys)
  <2>1. Sound(t, {})
    BY <1>1 DEF TableInv
  <2>2. Cardinality(Keys) \in Nat /\ Total(t) <= Cardinality(Keys) /\ Total(t) \in Nat
    <3> DEFINE A == All(t, {})  K == {e.key : e \in A}
               f == [e \in A |-> e.key]
    <3>1. /\ IsFiniteSet(A) /\ Total(t) = Cardinality(A) /\ A \subseteq Entry
          /\ \A d, e \in A : d.key = e.key => d = e
      BY <2>1, TotalIsAll, SoundFacts
    <3> HIDE DEF A
    <3>2. K \subseteq Keys
      BY <3>1 DEF Entry
    <3>3. f \in Bijection(A, K)
      <4>1. f \in [A -> K] /\ (\A d, e \in A : f[d] = f[e] => d = e)
            /\ \A x \in K : \E e \in A : f[e] = x
        BY <3>1
      <4> HIDE DEF f, K
      <4> QED BY <4>1 DEF Bijection, Injection, Surjection, IsInjective
    <3> HIDE DEF f, K
    <3>4. Cardinality(K) = Cardinality(A)
      BY <3>1, <3>3, FS_Bijection DEF ExistsBijection
    <3>5. Cardinality(K) <= Cardinality(Keys)
      BY <3>2, FS_Subset
    <3> QED BY <2>1, <3>1, <3>4, <3>5, FS_CardinalityType, TotalIsAll
  <2>3. k \in Nat /\ 2 * Total(t) <= k
    BY <2>2
  <2> DEFINE after[i \in 0 .. k] == IF i = 0 THEN t ELSE AfterRecycle(after[i - 1])
  <2>4. Recyclings(t, k, after)
    <3> HIDE DEF k
    <3> QED BY <2>1, <2>3, RecyclingsUnrolled
  <2>5. ~CanRecycle(after[k])
    <3> HIDE DEF k, after
    <3> QED BY <2>1, <2>3, <2>4, RecyclingsEnd
  <2> QED BY <2>5 DEF RecyclingEnds
<1> QED BY <1>1, TableInvHolds, PTL

\* The table is one of buckets, sizes and counters.
THEOREM TableTypes == TableSpec => []TableTypeOK
<1>1. ASSUME TableInv PROVE TableTypeOK
  <2>1. /\ Structure(t) /\ t \in Table /\ Worlds = {t.world, Old(t)}
        /\ t.count[t.world] = Cardinality(Here(t, t.world))
        /\ t.count[Old(t)] = Cardinality(Here(t, Old(t)))
        /\ IsFiniteSet(Here(t, t.world)) /\ IsFiniteSet(Here(t, Old(t)))
    BY <1>1, SoundFacts DEF TableInv
  <2>2. t.count \in [Worlds -> Nat]
    <3>1. t.count[t.world] \in Nat /\ t.count[Old(t)] \in Nat
      BY <2>1, FS_CardinalityType
    <3>2. t.count \in [Worlds -> Int]
      BY <2>1 DEF Table
    <3> QED BY <2>1, <3>1, <3>2
  <2>3. t.first \in InChain \cup {None}
    <3>1. PICK m \in 0 .. Len(t.chain) : Border(t, m)
      BY <2>1 DEF Structure
    <3>2. Len(t.chain) \in Nat /\ DOMAIN t.chain = 1 .. Len(t.chain)
      BY <2>1, ChainFacts
    <3>3. m # Len(t.chain) => m + 1 \in DOMAIN t.chain
      BY <3>2
    <3> QED BY <3>1, <3>3 DEF Border, InChain
  <2> QED BY <1>1, <2>1, <2>2, <2>3 DEF TableTypeOK, TableInv, Table, Link, BucketId
<1> QED BY <1>1, TableInvHolds, PTL
==========================================================================
