--------------------------- MODULE SymbolsProofs ---------------------------
(***************************************************************************)
(* Proofs about Symbols, for every set of names, addresses and cells: a    *)
(* symbol lives exactly as long as a cell holds it and its count is the    *)
(* number of those cells, and an Env gives for a name what the name was    *)
(* last defined as.                                                        *)
(***************************************************************************)
EXTENDS Symbols, ReachabilityTheorems, FiniteSetTheorems

---------------------------------------------------------------------------
(* Counting.                                                               *)

One(x, y) == IF x = y THEN 1 ELSE 0

\* The number of places in D where f is i.
Tally(f, D, i) == Cardinality({x \in D : f[x] = i})
HeldBy(f, i) == Tally(f, DOMAIN f, i)

\* One place and the others.
LEMMA HeldSplit ==
  ASSUME NEW f, NEW D, IsFiniteSet(D), NEW x \in D, NEW i
  PROVE  /\ Tally(f, D \ {x}, i) \in Nat
         /\ Tally(f, D, i)
              = Tally(f, D \ {x}, i) + One(f[x], i)
         /\ \A z \in D \ {x} : f[z] = i => Tally(f, D \ {x}, i) > 0
<1> DEFINE A == {y \in D : f[y] = i}  B == {y \in D \ {x} : f[y] = i}
<1>1. IsFiniteSet(A) /\ IsFiniteSet(B) /\ Cardinality(A) \in Nat /\ Cardinality(B) \in Nat
  <2>1. A \in SUBSET D /\ B \in SUBSET D
    OBVIOUS
  <2> HIDE DEF A, B
  <2> QED BY <2>1, FS_Subset, FS_CardinalityType
<1>2. x \notin B /\ (f[x] = i => A = B \cup {x}) /\ (f[x] # i => A = B)
  OBVIOUS
<1>3. \A z \in D \ {x} : f[z] = i => B # {}
  OBVIOUS
<1> HIDE DEF A, B
<1>4. ASSUME f[x] = i PROVE Cardinality(A) = Cardinality(B) + One(f[x], i)
  <2>1. Cardinality(B \cup {x}) = Cardinality(B) + 1
    BY <1>1, <1>2, FS_AddElement
  <2>2. One(f[x], i) = 1
    BY <1>4 DEF One
  <2> QED BY <1>2, <1>4, <2>1, <2>2
<1>5. ASSUME f[x] # i PROVE Cardinality(A) = Cardinality(B) + One(f[x], i)
  <2>1. One(f[x], i) = 0
    BY <1>5 DEF One
  <2> QED BY <1>1, <1>2, <1>5, <2>1
<1>6. Cardinality(A) = Cardinality(B) + One(f[x], i)
  BY <1>4, <1>5
<1>7. \A z \in D \ {x} : f[z] = i => Cardinality(B) > 0
  BY <1>1, <1>3, FS_EmptySet
<1> QED BY <1>1, <1>6, <1>7 DEF A, B, Tally

\* f with another value in one place.
LEMMA HeldChanged ==
  ASSUME NEW f, NEW g, IsFiniteSet(DOMAIN f), NEW x \in DOMAIN f, DOMAIN g = DOMAIN f,
         \A y \in DOMAIN f \ {x} : g[y] = f[y], NEW i
  PROVE  /\ HeldBy(f, i) \in Nat /\ HeldBy(f, i) >= One(f[x], i)
         /\ HeldBy(g, i) = HeldBy(f, i) - One(f[x], i) + One(g[x], i)
<1> DEFINE D == DOMAIN f
           n == Tally(f, D \ {x}, i)
           m == Tally(g, D \ {x}, i)
<1>1. n \in Nat /\ Tally(f, D, i) = n + One(f[x], i)
  BY HeldSplit
<1>2. m \in Nat /\ Tally(g, D, i) = m + One(g[x], i)
  BY HeldSplit
<1>3. {y \in D \ {x} : f[y] = i} = {y \in D \ {x} : g[y] = i}
  OBVIOUS
<1>4. n = m
  BY <1>3 DEF Tally
<1>5. One(f[x], i) \in Nat /\ One(g[x], i) \in Nat
  BY DEF One
<1> HIDE DEF n, m
<1> QED BY <1>1, <1>2, <1>4, <1>5 DEF HeldBy

\* f with one place more.
LEMMA HeldWith ==
  ASSUME NEW f, NEW g, IsFiniteSet(DOMAIN f), NEW x, x \notin DOMAIN f,
         DOMAIN g = DOMAIN f \cup {x}, \A y \in DOMAIN f : g[y] = f[y], NEW i
  PROVE  HeldBy(f, i) \in Nat /\ HeldBy(g, i) = HeldBy(f, i) + One(g[x], i)
<1> DEFINE D == DOMAIN f \cup {x}
           m == Tally(g, D \ {x}, i)
<1>1. IsFiniteSet(D) /\ x \in D
  BY FS_AddElement
<1>2. m \in Nat /\ Tally(g, D, i) = m + One(g[x], i)
  <2> HIDE DEF D
  <2> QED BY <1>1, HeldSplit
<1>3. {y \in D \ {x} : g[y] = i} = {y \in DOMAIN f : f[y] = i}
  OBVIOUS
<1> QED BY <1>2, <1>3 DEF HeldBy, Tally

\* What is somewhere is counted, and twice if it is in two places.
LEMMA HeldSomewhere ==
  ASSUME NEW f, IsFiniteSet(DOMAIN f), NEW x \in DOMAIN f, NEW i
  PROVE  /\ HeldBy(f, i) \in Nat /\ HeldBy(f, i) >= One(f[x], i)
         /\ \A z \in DOMAIN f \ {x} : HeldBy(f, i) >= One(f[x], i) + One(f[z], i)
<1> DEFINE n == Tally(f, DOMAIN f \ {x}, i)
<1>1. /\ n \in Nat /\ HeldBy(f, i) = n + One(f[x], i)
      /\ \A z \in DOMAIN f \ {x} : f[z] = i => n > 0
  BY HeldSplit DEF HeldBy
<1> HIDE DEF n
<1> QED BY <1>1 DEF One

---------------------------------------------------------------------------
(* The symbols and their counts.                                           *)

SymbolType == [name : Names, refCount : Nat, owned : BOOLEAN]

\* The counts h when a cell more or a cell less holds i.
Plus(h, i) == [j \in Symbols |-> h[j] + One(i, j)]
Minus(h, i) == [j \in Symbols |-> h[j] - One(i, j)]

\* The symbols of s are those that a cell holds, and count the cells; the
\* table has those and no others while there is an allocator, a.
Counted(s, h, a) ==
  /\ s = [symbol |-> s.symbol, table |-> s.table]
  /\ DOMAIN s.symbol \subseteq Symbols /\ s.symbol \in [DOMAIN s.symbol -> SymbolType]
  /\ DOMAIN s.table \subseteq Names /\ s.table \in [DOMAIN s.table -> Symbols]
  /\ h \in [Symbols -> Nat] /\ a \in BOOLEAN
  /\ \A i \in Symbols : h[i] > 0 <=> i \in DOMAIN s.symbol
  /\ \A i \in DOMAIN s.symbol : s.symbol[i].refCount = h[i] /\ s.symbol[i].owned = a
  /\ \A n \in DOMAIN s.table : s.table[n] \in DOMAIN s.symbol /\ s.symbol[s.table[n]].name = n
  /\ a => \A i \in DOMAIN s.symbol :
            s.symbol[i].name \in DOMAIN s.table /\ s.table[s.symbol[i].name] = i
  /\ ~a => DOMAIN s.table = {}

\* The symbols of t are symbols of s, of the same name.
Kept(s, t) ==
  /\ DOMAIN t.symbol \subseteq DOMAIN s.symbol
  /\ \A i \in DOMAIN t.symbol : t.symbol[i].name = s.symbol[i].name

\* One symbol counts differently.
LEMMA Recount ==
  ASSUME NEW s, NEW h, NEW a, Counted(s, h, a), NEW i \in DOMAIN s.symbol,
         NEW n \in Nat, n > 0, NEW t,
         t = [symbol |-> [s.symbol EXCEPT ![i] = [s.symbol[i] EXCEPT !.refCount = n]],
              table |-> s.table],
         NEW g, g = [j \in Symbols |-> IF j = i THEN n ELSE h[j]]
  PROVE  Counted(t, g, a) /\ Kept(s, t) /\ DOMAIN t.symbol = DOMAIN s.symbol
<1>1. /\ t.table = s.table /\ DOMAIN t.symbol = DOMAIN s.symbol
      /\ t = [symbol |-> t.symbol, table |-> t.table]
      /\ t.symbol[i] = [s.symbol[i] EXCEPT !.refCount = n]
      /\ \A j \in DOMAIN s.symbol : j # i => t.symbol[j] = s.symbol[j]
      /\ t.symbol \in [DOMAIN t.symbol -> SymbolType]
  BY DEF Counted, SymbolType
<1>2. /\ t.symbol[i].name = s.symbol[i].name /\ t.symbol[i].owned = s.symbol[i].owned
      /\ t.symbol[i].refCount = n
  BY <1>1 DEF Counted, SymbolType
<1>3. /\ \A j \in DOMAIN s.symbol : /\ t.symbol[j].name = s.symbol[j].name
                                    /\ t.symbol[j].owned = s.symbol[j].owned
                                    /\ t.symbol[j].refCount = IF j = i THEN n ELSE s.symbol[j].refCount
  BY <1>1, <1>2
<1>4. g \in [Symbols -> Nat] /\ \A j \in Symbols : g[j] = IF j = i THEN n ELSE h[j]
  BY DEF Counted
<1>5. \A j \in Symbols : g[j] > 0 <=> j \in DOMAIN t.symbol
  BY <1>1, <1>4 DEF Counted
<1>6. \A j \in DOMAIN t.symbol : t.symbol[j].refCount = g[j] /\ t.symbol[j].owned = a
  BY <1>1, <1>3, <1>4 DEF Counted
<1> QED BY <1>1, <1>3, <1>4, <1>5, <1>6 DEF Counted, Kept

\* A cell more: Cell::init() on a symbol that there is.
LEMMA RefCounts ==
  ASSUME NEW s, NEW h, NEW a, Counted(s, h, a), NEW i \in DOMAIN s.symbol \cup {NoSymbol}
  PROVE  Counted(Ref(s, i), Plus(h, i), a) /\ Kept(s, Ref(s, i))
         /\ DOMAIN Ref(s, i).symbol = DOMAIN s.symbol
<1>1. CASE i = NoSymbol
  <2>1. \A j \in Symbols : One(i, j) = 0
    BY <1>1, SymbolsAssumption DEF One
  <2>2. Plus(h, i) = h
    BY <2>1 DEF Plus, Counted
  <2> QED BY <1>1, <2>2 DEF Ref, Kept
<1>2. CASE i # NoSymbol
  <2> DEFINE n == h[i] + 1
  <2>1. i \in DOMAIN s.symbol /\ i \in Symbols /\ s.symbol[i].refCount = h[i] /\ h[i] \in Nat
    BY <1>2 DEF Counted
  <2>2. Ref(s, i) = [symbol |-> [s.symbol EXCEPT ![i] = [s.symbol[i] EXCEPT !.refCount = n]],
                     table |-> s.table]
    <3>1. s = [symbol |-> s.symbol, table |-> s.table] /\ s.symbol \in [DOMAIN s.symbol -> SymbolType]
      BY DEF Counted
    <3>2. Ref(s, i) = [s EXCEPT !.symbol = [s.symbol EXCEPT ![i] = [s.symbol[i] EXCEPT !.refCount = @ + 1]]]
      BY <1>2 DEF Ref
    <3>3. s.symbol[i].refCount + 1 = n
      BY <2>1
    <3>4. [s.symbol[i] EXCEPT !.refCount = @ + 1] = [s.symbol[i] EXCEPT !.refCount = n]
      BY <3>3
    <3> QED BY <3>1, <3>2, <3>4
  <2>3. Plus(h, i) = [j \in Symbols |-> IF j = i THEN n ELSE h[j]]
    <3>1. \A j \in Symbols : h[j] + One(i, j) = IF j = i THEN n ELSE h[j]
      BY DEF One, Counted
    <3> QED BY <3>1 DEF Plus
  <2>4. n \in Nat /\ n > 0
    BY <2>1
  <2> HIDE DEF n
  <2> QED BY <2>1, <2>2, <2>3, <2>4, Recount
<1> QED BY <1>1, <1>2

\* A cell less: Cell::unset(), which deletes the symbol with the last.
LEMMA UnrefCounts ==
  ASSUME NEW s, NEW h, NEW a, Counted(s, h, a), NEW i \in DOMAIN s.symbol \cup {NoSymbol}
  PROVE  Counted(Unref(s, i), Minus(h, i), a) /\ Kept(s, Unref(s, i))
<1>1. CASE i = NoSymbol
  <2>1. \A j \in Symbols : One(i, j) = 0
    BY <1>1, SymbolsAssumption DEF One
  <2>2. Minus(h, i) = h
    BY <2>1 DEF Minus, Counted
  <2> QED BY <1>1, <2>2 DEF Unref, Kept
<1> SUFFICES ASSUME i # NoSymbol
             PROVE  Counted(Unref(s, i), Minus(h, i), a) /\ Kept(s, Unref(s, i))
  BY <1>1
<1> DEFINE n == h[i] - 1
<1>2. i \in DOMAIN s.symbol /\ i \in Symbols /\ s.symbol[i].refCount = h[i] /\ h[i] \in Nat /\ h[i] > 0
  BY DEF Counted
<1>3. s = [symbol |-> s.symbol, table |-> s.table] /\ s.symbol \in [DOMAIN s.symbol -> SymbolType]
  BY DEF Counted
<1>4. Minus(h, i) = [j \in Symbols |-> IF j = i THEN n ELSE h[j]]
  <2>1. \A j \in Symbols : h[j] - One(i, j) = IF j = i THEN n ELSE h[j]
    BY DEF One, Counted
  <2> QED BY <2>1 DEF Minus
<1>5. CASE s.symbol[i].refCount > 1
  <2>1. Unref(s, i) = [symbol |-> [s.symbol EXCEPT ![i] = [s.symbol[i] EXCEPT !.refCount = n]],
                       table |-> s.table]
    <3>1. Unref(s, i) = [s EXCEPT !.symbol = [s.symbol EXCEPT ![i] = [s.symbol[i] EXCEPT !.refCount = @ - 1]]]
      BY <1>5 DEF Unref
    <3>2. s.symbol[i].refCount - 1 = n
      BY <1>2
    <3>3. [s.symbol[i] EXCEPT !.refCount = @ - 1] = [s.symbol[i] EXCEPT !.refCount = n]
      BY <3>2
    <3> QED BY <1>3, <3>1, <3>3
  <2>2. n \in Nat /\ n > 0
    BY <1>2, <1>5
  <2> HIDE DEF n
  <2> QED BY <1>2, <1>4, <2>1, <2>2, Recount
<1>6. CASE ~(s.symbol[i].refCount > 1)
  <2> DEFINE t == Unref(s, i)  name == s.symbol[i].name  g == Minus(h, i)
  <2>1. /\ t.symbol = Without(s.symbol, i)
        /\ t.table = IF a THEN Without(s.table, name) ELSE s.table
        /\ t = [symbol |-> t.symbol, table |-> t.table]
    <3>1. s.symbol[i].owned = a
      BY <1>2 DEF Counted
    <3> QED BY <1>3, <1>6, <3>1 DEF Unref
  <2>2. n = 0
    BY <1>2, <1>6
  <2>3. g \in [Symbols -> Nat] /\ \A j \in Symbols : g[j] = IF j = i THEN 0 ELSE h[j]
    BY <1>4, <2>2 DEF Counted
  <2> HIDE DEF t, name, g
  <2>4. /\ DOMAIN t.symbol = DOMAIN s.symbol \ {i}
        /\ \A j \in DOMAIN t.symbol : t.symbol[j] = s.symbol[j]
        /\ t.symbol \in [DOMAIN t.symbol -> SymbolType]
    BY <1>3, <2>1 DEF Without, Restrict
  <2>5. /\ DOMAIN t.table \subseteq DOMAIN s.table
        /\ \A m \in DOMAIN t.table : t.table[m] = s.table[m] /\ s.table[m] # i
        /\ \A m \in DOMAIN s.table : s.table[m] # i => m \in DOMAIN t.table
        /\ t.table \in [DOMAIN t.table -> Symbols]
    <3>1. CASE a
      <4>1. t.table = [m \in DOMAIN s.table \ {name} |-> s.table[m]]
        BY <2>1, <3>1 DEF Without, Restrict
      <4>2. \A m \in DOMAIN s.table : s.table[m] = i <=> m = name
        BY <1>2, <3>1 DEF Counted, name
      <4> QED BY <4>1, <4>2 DEF Counted
    <3>2. CASE ~a
      <4>1. t.table = s.table /\ DOMAIN s.table = {}
        BY <2>1, <3>2 DEF Counted
      <4> QED BY <4>1 DEF Counted
    <3> QED BY <3>1, <3>2
  <2>6. \A j \in Symbols : g[j] > 0 <=> j \in DOMAIN t.symbol
    BY <2>3, <2>4 DEF Counted
  <2>7. \A j \in DOMAIN t.symbol : t.symbol[j].refCount = g[j] /\ t.symbol[j].owned = a
    BY <2>3, <2>4 DEF Counted
  <2>8. \A m \in DOMAIN t.table : t.table[m] \in DOMAIN t.symbol /\ t.symbol[t.table[m]].name = m
    BY <2>4, <2>5 DEF Counted
  <2>9. a => \A j \in DOMAIN t.symbol :
               t.symbol[j].name \in DOMAIN t.table /\ t.table[t.symbol[j].name] = j
    BY <2>4, <2>5 DEF Counted
  <2>10. ~a => DOMAIN t.table = {}
    BY <2>5 DEF Counted
  <2>11. DOMAIN t.symbol \subseteq Symbols /\ DOMAIN t.table \subseteq Names /\ a \in BOOLEAN
    BY <2>4, <2>5 DEF Counted
  <2>12. Counted(t, g, a)
    BY <2>1, <2>3, <2>4, <2>5, <2>6, <2>7, <2>8, <2>9, <2>10, <2>11 DEF Counted
  <2>13. Kept(s, t)
    BY <2>4 DEF Kept
  <2> QED BY <2>12, <2>13 DEF t, g
<1> QED BY <1>5, <1>6

\* A cell holds the symbol of a name, which is made if there is none.
LEMMA NamedCounts ==
  ASSUME NEW h, Counted(SymbolState, h, TRUE), NEW n \in Names, n \in DOMAIN table \/ Room
  PROVE  LET i == Named(n)[1]  t == Named(n)[2] IN
         /\ i \in Symbols /\ i \in DOMAIN t.symbol /\ t.symbol[i].name = n
         /\ Counted(t, Plus(h, i), TRUE) /\ Kept(t, SymbolState)
<1> DEFINE s == SymbolState
<1>0. s.symbol = symbol /\ s.table = table
  BY DEF SymbolState
<1>1. CASE n \in DOMAIN table
  <2> DEFINE i == table[n]
  <2>1. Named(n)[1] = i /\ Named(n)[2] = Ref(s, i)
    BY <1>0, <1>1 DEF Named, Interned
  <2>2. i \in DOMAIN s.symbol /\ i \in Symbols /\ s.symbol[i].name = n
    BY <1>0, <1>1 DEF Counted
  <2> HIDE DEF s, i
  <2>3. Counted(Ref(s, i), Plus(h, i), TRUE) /\ Kept(s, Ref(s, i))
        /\ DOMAIN Ref(s, i).symbol = DOMAIN s.symbol
    BY <2>2, RefCounts DEF s
  <2>4. Kept(Ref(s, i), s) /\ Ref(s, i).symbol[i].name = n
    BY <2>2, <2>3 DEF Kept
  <2> QED BY <2>1, <2>2, <2>3, <2>4 DEF s
<1>2. CASE n \notin DOMAIN table
  <2> DEFINE i == CHOOSE j \in Symbols : j \notin DOMAIN s.symbol
             new == [name |-> n, refCount |-> 0, owned |-> TRUE]
             u == [symbol |-> With(s.symbol, i, new), table |-> With(s.table, n, i)]
             t == Ref(u, i)
             g == Plus(h, i)
             x == [new EXCEPT !.refCount = 1]
  <2>1. Named(n)[1] = i /\ Named(n)[2] = t
    BY <1>0, <1>2 DEF Named, Interned
  <2>2. i \in Symbols /\ i \notin DOMAIN symbol /\ i # NoSymbol
    BY <1>0, <1>2, SymbolsAssumption DEF Room
  <2> HIDE DEF i
  <2>3. /\ t = [symbol |-> t.symbol, table |-> t.table]
        /\ t.symbol = [j \in DOMAIN symbol \cup {i} |-> IF j = i THEN x ELSE symbol[j]]
        /\ t.table = [m \in DOMAIN table \cup {n} |-> IF m = n THEN i ELSE table[m]]
    <3> DEFINE f == With(s.symbol, i, new)
    <3>1. /\ f[i] = new /\ f = [j \in DOMAIN symbol \cup {i} |-> f[j]]
          /\ \A j \in DOMAIN symbol : f[j] = symbol[j]
      BY <1>0, <2>2 DEF With
    <3>2. [new EXCEPT !.refCount = @ + 1] = x
      <4>1. new.refCount + 1 = 1
        OBVIOUS
      <4> HIDE DEF new
      <4> QED BY <4>1
    <3> HIDE DEF new, f, x
    <3>3. t = [symbol |-> [f EXCEPT ![i] = [f[i] EXCEPT !.refCount = @ + 1]], table |-> With(s.table, n, i)]
      BY <2>2 DEF Ref, f
    <3>4. [f EXCEPT ![i] = [f[i] EXCEPT !.refCount = @ + 1]]
            = [j \in DOMAIN symbol \cup {i} |-> IF j = i THEN x ELSE symbol[j]]
      BY <3>1, <3>2, <2>2
    <3> HIDE DEF t
    <3> QED BY <1>0, <3>3, <3>4 DEF With
  <2> HIDE DEF t
  <2>4. /\ DOMAIN t.symbol = DOMAIN symbol \cup {i} /\ t.symbol[i] = x
        /\ \A j \in DOMAIN symbol : t.symbol[j] = symbol[j]
        /\ DOMAIN t.table = DOMAIN table \cup {n} /\ t.table[n] = i
        /\ \A m \in DOMAIN table : t.table[m] = table[m]
    BY <1>2, <2>2, <2>3
  <2>5. x \in SymbolType /\ x.name = n /\ x.refCount = 1 /\ x.owned = TRUE
    BY DEF SymbolType
  <2> HIDE DEF x
  <2>6. /\ h \in [Symbols -> Nat] /\ DOMAIN symbol \subseteq Symbols /\ DOMAIN table \subseteq Names
        /\ symbol \in [DOMAIN symbol -> SymbolType] /\ table \in [DOMAIN table -> Symbols]
        /\ \A j \in Symbols : h[j] > 0 <=> j \in DOMAIN symbol
        /\ \A j \in DOMAIN symbol : symbol[j].refCount = h[j] /\ symbol[j].owned = TRUE
        /\ \A m \in DOMAIN table : table[m] \in DOMAIN symbol /\ symbol[table[m]].name = m
        /\ \A j \in DOMAIN symbol : symbol[j].name \in DOMAIN table /\ table[symbol[j].name] = j
    BY <1>0 DEF Counted
  <2>7. h[i] = 0
    BY <2>2, <2>6
  <2>8. g \in [Symbols -> Nat] /\ \A j \in Symbols : g[j] = IF j = i THEN 1 ELSE h[j]
    BY <2>6, <2>7 DEF Plus, One
  <2> HIDE DEF g
  <2>9. t.symbol \in [DOMAIN t.symbol -> SymbolType] /\ t.table \in [DOMAIN t.table -> Symbols]
    BY <2>2, <2>3, <2>4, <2>5, <2>6
  <2>10. \A j \in Symbols : g[j] > 0 <=> j \in DOMAIN t.symbol
    BY <2>4, <2>6, <2>8
  <2>11. \A j \in DOMAIN t.symbol : t.symbol[j].refCount = g[j] /\ t.symbol[j].owned = TRUE
    BY <2>2, <2>4, <2>5, <2>6, <2>8
  <2>12. \A m \in DOMAIN t.table : t.table[m] \in DOMAIN t.symbol /\ t.symbol[t.table[m]].name = m
    BY <1>2, <2>4, <2>5, <2>6
  <2>13. \A j \in DOMAIN t.symbol : t.symbol[j].name \in DOMAIN t.table /\ t.table[t.symbol[j].name] = j
    BY <1>2, <2>2, <2>4, <2>5, <2>6
  <2>14. DOMAIN t.symbol \subseteq Symbols /\ DOMAIN t.table \subseteq Names
    BY <2>2, <2>4, <2>6
  <2>15. Counted(t, g, TRUE)
    BY <2>3, <2>8, <2>9, <2>10, <2>11, <2>12, <2>13, <2>14 DEF Counted
  <2>16. Kept(t, s)
    BY <1>0, <2>4 DEF Kept
  <2> QED BY <2>1, <2>2, <2>4, <2>5, <2>15, <2>16 DEF g
<1> QED BY <1>1, <1>2

\* A symbol of s or no symbol: something that a cell holds.
LEMMA Alive ==
  ASSUME NEW s, NEW h, NEW a, Counted(s, h, a), NEW i \in Symbols \cup {NoSymbol},
         i \in Symbols => h[i] > 0
  PROVE  i \in DOMAIN s.symbol \cup {NoSymbol}
  BY DEF Counted

LEMMA KeptTwice ==
  ASSUME NEW s, NEW t, NEW u, Kept(s, t), Kept(t, u)
  PROVE  Kept(s, u)
  BY DEF Kept

---------------------------------------------------------------------------
(* Who holds a symbol.                                                     *)

Key(i, S) == IF i \in S THEN 1 ELSE 0

\* The cells c that hold a symbol, and the keys S and values of the map b.
HeldIn(c, b, S) == [i \in Symbols |-> HeldBy(c, i) + Key(i, S) + Tally(b, S, i)]

Values == Symbols \cup {NoSymbol}

LEMMA TallyIsNat ==
  ASSUME NEW f, NEW D, IsFiniteSet(D), NEW i
  PROVE  Tally(f, D, i) \in Nat
<1> DEFINE A == {y \in D : f[y] = i}
<1>1. A \in SUBSET D
  OBVIOUS
<1> HIDE DEF A
<1>2. Cardinality(A) \in Nat
  BY <1>1, FS_Subset, FS_CardinalityType
<1> QED BY <1>2 DEF A, Tally

LEMMA HeldInFacts ==
  ASSUME NEW c \in [Cells -> Values], NEW b, NEW S \in SUBSET Symbols,
         NEW h, h = HeldIn(c, b, S)
  PROVE  /\ h \in [Symbols -> Nat] /\ h \in [Symbols -> Int]
         /\ \A i \in S : h[i] > 0
         /\ \A i \in Symbols : \A x \in Cells : h[i] >= One(c[x], i) + Key(i, S)
         /\ \A i \in Symbols : \A x \in Cells : \A y \in Cells \ {x} : h[i] >= One(c[x], i) + One(c[y], i)
         /\ \A i \in Symbols : \A j \in S : h[i] >= Key(i, S) + One(b[j], i)
         /\ \A i \in Symbols : \A x \in Cells : \A j \in S : h[i] >= One(c[x], i) + One(b[j], i)
<1>1. IsFiniteSet(S) /\ IsFiniteSet(DOMAIN c) /\ DOMAIN c = Cells
  BY SymbolsAssumption, FS_Subset
<1>2. ASSUME NEW i \in Symbols
      PROVE  /\ HeldBy(c, i) \in Nat /\ Key(i, S) \in Nat /\ Tally(b, S, i) \in Nat
             /\ h[i] = HeldBy(c, i) + Key(i, S) + Tally(b, S, i)
  BY <1>1, TallyIsNat DEF HeldBy, Key, HeldIn
<1>3. \A i \in Symbols : \A x \in Cells : HeldBy(c, i) >= One(c[x], i) /\ One(c[x], i) \in Nat
  BY <1>1, HeldSomewhere DEF One
<1>4. \A i \in Symbols : \A x \in Cells : \A y \in Cells \ {x} : HeldBy(c, i) >= One(c[x], i) + One(c[y], i)
  BY <1>1, HeldSomewhere
<1>5. ASSUME NEW i \in Symbols, NEW j \in S
      PROVE  Tally(b, S, i) >= One(b[j], i) /\ One(b[j], i) \in Nat
  <2>1. Tally(b, S \ {j}, i) \in Nat /\ Tally(b, S, i) = Tally(b, S \ {j}, i) + One(b[j], i)
    BY <1>1, HeldSplit
  <2>2. One(b[j], i) \in Nat
    BY DEF One
  <2> QED BY <2>1, <2>2
<1>6. \A i \in S : Key(i, S) = 1
  BY DEF Key
<1>7. h \in [Symbols -> Nat]
  BY <1>2 DEF HeldIn
<1>8. \A i \in S : h[i] > 0
  BY <1>2, <1>6
<1>9. \A i \in Symbols : \A x \in Cells : h[i] >= One(c[x], i) + Key(i, S)
  BY <1>2, <1>3
<1>10. \A i \in Symbols : \A x \in Cells : \A y \in Cells \ {x} : h[i] >= One(c[x], i) + One(c[y], i)
  BY <1>2, <1>3, <1>4
<1>11. \A i \in Symbols : \A j \in S : h[i] >= Key(i, S) + One(b[j], i)
  BY <1>2, <1>5
<1>12. \A i \in Symbols : \A x \in Cells : \A j \in S : h[i] >= One(c[x], i) + One(b[j], i)
  BY <1>2, <1>3, <1>5
<1> QED BY <1>7, <1>8, <1>9, <1>10, <1>11, <1>12

\* The counts when a cell holds v where it held u.
Swap(h, u, v) == [i \in Symbols |-> h[i] - One(u, i) + One(v, i)]

LEMMA OneByOne ==
  ASSUME NEW h \in [Symbols -> Int], NEW u, NEW v
  PROVE  /\ Plus(h, u) \in [Symbols -> Int] /\ \A i \in Symbols : Plus(h, u)[i] = h[i] + One(u, i)
         /\ Minus(h, u) \in [Symbols -> Int] /\ \A i \in Symbols : Minus(h, u)[i] = h[i] - One(u, i)
         /\ Swap(h, u, v) \in [Symbols -> Int]
         /\ \A i \in Symbols : Swap(h, u, v)[i] = h[i] - One(u, i) + One(v, i)
<1>1. \A x : \A i \in Symbols : One(x, i) \in Int
  BY DEF One
<1>2. Plus(h, u) \in [Symbols -> Int] /\ \A i \in Symbols : Plus(h, u)[i] = h[i] + One(u, i)
  BY <1>1 DEF Plus
<1>3. Minus(h, u) \in [Symbols -> Int] /\ \A i \in Symbols : Minus(h, u)[i] = h[i] - One(u, i)
  BY <1>1 DEF Minus
<1>4. /\ Swap(h, u, v) \in [Symbols -> Int]
      /\ \A i \in Symbols : Swap(h, u, v)[i] = h[i] - One(u, i) + One(v, i)
  BY <1>1 DEF Swap
<1> QED BY <1>2, <1>3, <1>4

Adds(f, h, u)  == f \in [Symbols -> Int] /\ \A i \in Symbols : f[i] = h[i] + One(u, i)
Takes(f, h, u) == f \in [Symbols -> Int] /\ \A i \in Symbols : f[i] = h[i] - One(u, i)

LEMMA OneMore ==
  ASSUME NEW h \in [Symbols -> Int], NEW u
  PROVE  Adds(Plus(h, u), h, u) /\ Takes(Minus(h, u), h, u)
  BY OneByOne DEF Adds, Takes

LEMMA SwapFacts ==
  ASSUME NEW h \in [Symbols -> Int], NEW u, NEW v, NEW w
  PROVE  /\ Minus(Plus(h, v), u) = Swap(h, u, v)
         /\ Plus(Minus(h, u), v) = Swap(h, u, v)
         /\ Minus(h, u) = Swap(h, u, NoSymbol)
         /\ Swap(Swap(h, u, v), v, NoSymbol) = Minus(h, u)
         /\ Minus(Minus(Plus(Plus(h, w), v), w), u) = Swap(h, u, v)
<1>1. \A x : \A i \in Symbols : One(x, i) \in Int /\ One(NoSymbol, i) = 0
  BY SymbolsAssumption DEF One
<1>2. \A i \in Symbols : h[i] \in Int
  OBVIOUS
<1>3. \A f, g \in [Symbols -> Int] : (\A i \in Symbols : f[i] = g[i]) => f = g
  OBVIOUS
<1> DEFINE plus == Plus(h, v)  less == Minus(h, u)  swap == Swap(h, u, v)
<1>4. /\ plus \in [Symbols -> Int] /\ \A i \in Symbols : plus[i] = h[i] + One(v, i)
      /\ less \in [Symbols -> Int] /\ \A i \in Symbols : less[i] = h[i] - One(u, i)
      /\ swap \in [Symbols -> Int] /\ \A i \in Symbols : swap[i] = h[i] - One(u, i) + One(v, i)
  BY OneByOne
<1> HIDE DEF plus, less, swap
<1>5. Minus(plus, u) = swap
  <2>1. Minus(plus, u) \in [Symbols -> Int] /\ \A i \in Symbols : Minus(plus, u)[i] = plus[i] - One(u, i)
    <3>1. Takes(Minus(plus, u), plus, u)
      BY <1>4, OneMore
    <3> QED BY <3>1 DEF Takes
  <2>2. ASSUME NEW i \in Symbols PROVE Minus(plus, u)[i] = swap[i]
    <3>1. h[i] \in Int /\ One(u, i) \in Int /\ One(v, i) \in Int
      BY <1>1, <1>2
    <3>2. Minus(plus, u)[i] = plus[i] - One(u, i)
      BY <2>1
    <3>3. plus[i] = h[i] + One(v, i) /\ swap[i] = h[i] - One(u, i) + One(v, i)
      BY <1>4
    <3> QED BY ONLY <3>1, <3>2, <3>3
  <2> QED BY <1>3, <1>4, <2>1, <2>2
<1>6. Plus(less, v) = swap
  <2>1. Plus(less, v) \in [Symbols -> Int] /\ \A i \in Symbols : Plus(less, v)[i] = less[i] + One(v, i)
    <3>1. Adds(Plus(less, v), less, v)
      BY <1>4, OneMore
    <3> QED BY <3>1 DEF Adds
  <2>2. ASSUME NEW i \in Symbols PROVE Plus(less, v)[i] = swap[i]
    <3>1. Plus(less, v)[i] = less[i] + One(v, i)
      BY <2>1
    <3>2. less[i] = h[i] - One(u, i) /\ swap[i] = h[i] - One(u, i) + One(v, i)
      BY <1>4
    <3> QED BY ONLY <3>1, <3>2
  <2> QED BY <1>3, <1>4, <2>1, <2>2
<1>7. less = Swap(h, u, NoSymbol)
  <2> DEFINE f == Swap(h, u, NoSymbol)
  <2>1. f \in [Symbols -> Int] /\ \A i \in Symbols : f[i] = h[i] - One(u, i) + One(NoSymbol, i)
    BY OneByOne
  <2> HIDE DEF f
  <2>2. \A i \in Symbols : f[i] = less[i]
    BY <1>1, <1>2, <1>4, <2>1
  <2>3. f = less
    BY <1>3, <1>4, <2>1, <2>2
  <2> QED BY <2>3 DEF f
<1>8. Swap(swap, v, NoSymbol) = less
  <2> DEFINE f == Swap(swap, v, NoSymbol)
  <2>1. f \in [Symbols -> Int] /\ \A i \in Symbols : f[i] = swap[i] - One(v, i) + One(NoSymbol, i)
    BY <1>4, OneByOne
  <2> HIDE DEF f
  <2>2. \A i \in Symbols : f[i] = less[i]
    BY <1>1, <1>2, <1>4, <2>1
  <2>3. f = less
    BY <1>3, <1>4, <2>1, <2>2
  <2> QED BY <2>3 DEF f
<1>9. Minus(Minus(Plus(Plus(h, w), v), w), u) = swap
  <2> DEFINE a == Plus(h, w)  b == Plus(a, v)  c == Minus(b, w)  d == Minus(c, u)
  <2>1. a \in [Symbols -> Int] /\ \A i \in Symbols : a[i] = h[i] + One(w, i)
    BY OneByOne
  <2> HIDE DEF a
  <2>2. b \in [Symbols -> Int] /\ \A i \in Symbols : b[i] = a[i] + One(v, i)
    BY <2>1, OneByOne
  <2> HIDE DEF b
  <2>3. c \in [Symbols -> Int] /\ \A i \in Symbols : c[i] = b[i] - One(w, i)
    BY <2>2, OneByOne
  <2> HIDE DEF c
  <2>4. d \in [Symbols -> Int] /\ \A i \in Symbols : d[i] = c[i] - One(u, i)
    BY <2>3, OneByOne
  <2> HIDE DEF d
  <2>5. \A i \in Symbols : d[i] = swap[i]
    BY <1>1, <1>2, <1>4, <2>1, <2>2, <2>3, <2>4
  <2>6. d = swap
    BY <1>3, <1>4, <2>4, <2>5
  <2> QED BY <2>6 DEF a, b, c, d
<1> QED BY <1>5, <1>6, <1>7, <1>8, <1>9 DEF plus, less, swap

\* A cell is assigned to.
LEMMA CellChanged ==
  ASSUME NEW c \in [Cells -> Values], NEW b, NEW S \in SUBSET Symbols, NEW x \in Cells,
         NEW v \in Values, NEW d \in [Cells -> Values], d[x] = v, \A y \in Cells \ {x} : d[y] = c[y]
  PROVE  HeldIn(d, b, S) = Swap(HeldIn(c, b, S), c[x], v)
<1>1. ASSUME NEW i \in Symbols
      PROVE  /\ HeldBy(c, i) \in Nat /\ HeldBy(d, i) = HeldBy(c, i) - One(c[x], i) + One(v, i)
             /\ Key(i, S) \in Nat /\ Tally(b, S, i) \in Nat /\ One(c[x], i) \in Nat /\ One(v, i) \in Nat
  <2>1. /\ IsFiniteSet(DOMAIN c) /\ x \in DOMAIN c /\ DOMAIN d = DOMAIN c /\ d[x] = v
        /\ \A y \in DOMAIN c \ {x} : d[y] = c[y]
    BY SymbolsAssumption
  <2>2. HeldBy(c, i) \in Nat /\ HeldBy(d, i) = HeldBy(c, i) - One(c[x], i) + One(d[x], i)
    BY ONLY <2>1, HeldChanged
  <2>3. Key(i, S) \in Nat /\ Tally(b, S, i) \in Nat /\ One(c[x], i) \in Nat /\ One(v, i) \in Nat
    BY TallyIsNat, SymbolsAssumption, FS_Subset DEF Key, One
  <2> QED BY <2>1, <2>2, <2>3
<1> DEFINE f == HeldIn(d, b, S)  h == HeldIn(c, b, S)  g == Swap(h, c[x], v)
<1>2. f \in [Symbols -> Int]
  BY HeldInFacts
<1>3. h \in [Symbols -> Int]
  BY HeldInFacts
<1>4. /\ \A i \in Symbols : f[i] = HeldBy(d, i) + Key(i, S) + Tally(b, S, i)
      /\ \A i \in Symbols : h[i] = HeldBy(c, i) + Key(i, S) + Tally(b, S, i)
  BY DEF HeldIn
<1> HIDE DEF f, h
<1>5. g \in [Symbols -> Int] /\ \A i \in Symbols : g[i] = h[i] - One(c[x], i) + One(v, i)
  BY <1>3, OneByOne
<1> HIDE DEF g
<1>6. ASSUME NEW i \in Symbols PROVE f[i] = g[i]
  <2>1. f[i] = HeldBy(d, i) + Key(i, S) + Tally(b, S, i)
    BY ONLY <1>4, i \in Symbols
  <2>2. h[i] = HeldBy(c, i) + Key(i, S) + Tally(b, S, i)
    BY ONLY <1>4, i \in Symbols
  <2>3. /\ HeldBy(c, i) \in Nat /\ HeldBy(d, i) = HeldBy(c, i) - One(c[x], i) + One(v, i)
        /\ Key(i, S) \in Nat /\ Tally(b, S, i) \in Nat /\ One(c[x], i) \in Nat /\ One(v, i) \in Nat
    BY ONLY <1>1, i \in Symbols
  <2>4. f[i] = h[i] - One(c[x], i) + One(v, i)
    BY ONLY <2>1, <2>2, <2>3
  <2> QED BY <1>5, <2>4
<1>7. f = g
  BY <1>2, <1>5, <1>6
<1> QED BY <1>7 DEF f, g, h

\* A binding is set.
LEMMA BindingChanged ==
  ASSUME NEW c \in [Cells -> Values], NEW b, b \in [DOMAIN b -> Values], DOMAIN b \subseteq Symbols,
         NEW i \in Symbols, NEW v, NEW d, d = With(b, i, v),
         NEW h, h = HeldIn(c, b, DOMAIN b), NEW g, g = HeldIn(c, d, DOMAIN d)
  PROVE  /\ i \in DOMAIN b => \A j \in Symbols : g[j] = h[j] - One(b[i], j) + One(v, j)
         /\ i \notin DOMAIN b => \A j \in Symbols : g[j] = h[j] + One(i, j) + One(v, j)
<1> DEFINE D == DOMAIN b
<1>1. /\ DOMAIN d = D \cup {i} /\ d[i] = v /\ \A j \in D \ {i} : d[j] = b[j]
      /\ IsFiniteSet(D) /\ D \in SUBSET Symbols
  BY SymbolsAssumption, FS_Subset DEF With
<1>2. ASSUME NEW j \in Symbols
      PROVE  /\ HeldBy(c, j) \in Nat /\ Key(j, D) \in Nat /\ Tally(b, D, j) \in Nat
             /\ One(i, j) \in Nat /\ One(v, j) \in Nat
             /\ h[j] = HeldBy(c, j) + Key(j, D) + Tally(b, D, j)
             /\ g[j] = HeldBy(c, j) + Key(j, DOMAIN d) + Tally(d, DOMAIN d, j)
  BY <1>1, TallyIsNat, SymbolsAssumption DEF HeldBy, Key, One, HeldIn
<1>3. ASSUME i \in D, NEW j \in Symbols
      PROVE  g[j] = h[j] - One(b[i], j) + One(v, j)
  <2>1. DOMAIN d = DOMAIN b
    BY <1>1, <1>3
  <2>2. HeldBy(d, j) = HeldBy(b, j) - One(b[i], j) + One(d[i], j)
    BY <1>1, <1>3, <2>1, HeldChanged
  <2>3. One(b[i], j) \in Nat
    BY DEF One
  <2>4. Tally(d, DOMAIN d, j) = Tally(b, D, j) - One(b[i], j) + One(v, j)
    BY <1>1, <2>2 DEF HeldBy
  <2>5. Key(j, DOMAIN d) = Key(j, D)
    BY <2>1
  <2> HIDE DEF D
  <2> QED BY <1>2, <2>3, <2>4, <2>5
<1>4. ASSUME i \notin D, NEW j \in Symbols
      PROVE  g[j] = h[j] + One(i, j) + One(v, j)
  <2>1. HeldBy(d, j) = HeldBy(b, j) + One(d[i], j)
    BY <1>1, <1>4, HeldWith
  <2>2. Key(j, DOMAIN d) = Key(j, D) + One(i, j)
    BY <1>1, <1>4 DEF Key, One
  <2>3. Tally(d, DOMAIN d, j) = Tally(b, D, j) + One(v, j)
    BY <1>1, <2>1 DEF HeldBy
  <2> HIDE DEF D
  <2> QED BY <1>2, <2>2, <2>3
<1> QED BY <1>3, <1>4

---------------------------------------------------------------------------
(* The end of an Env.                                                      *)

\* A binding goes, with the two cells that make it.
LEMMA DropOne ==
  ASSUME NEW c \in [Cells -> Values], NEW b, b \in [DOMAIN b -> Values], NEW S \in SUBSET Symbols,
         S \subseteq DOMAIN b, NEW j \in S, NEW a, NEW s, Counted(s, HeldIn(c, b, S), a)
  PROVE  Counted(Unref(Unref(s, b[j]), j), HeldIn(c, b, S \ {j}), a)
<1> DEFINE h == HeldIn(c, b, S)  t == Unref(s, b[j])  g == Minus(h, b[j])
<1>1. /\ h \in [Symbols -> Nat] /\ b[j] \in Values /\ j \in Symbols
      /\ \A i \in Symbols : h[i] >= Key(i, S) + One(b[j], i)
  BY HeldInFacts
<1>2. \A i \in Symbols : Key(i, S) \in Nat /\ One(b[j], i) \in Nat /\ One(j, i) \in Nat
  BY DEF Key, One
<1> HIDE DEF h
<1>3. b[j] \in Symbols => h[b[j]] > 0
  <2> SUFFICES ASSUME b[j] \in Symbols PROVE h[b[j]] > 0
    OBVIOUS
  <2>1. One(b[j], b[j]) = 1
    BY DEF One
  <2> QED BY <1>1, <1>2, <2>1
<1>4. Counted(s, h, a)
  BY DEF h
<1>5. b[j] \in DOMAIN s.symbol \cup {NoSymbol}
  BY <1>1, <1>3, <1>4, Alive DEF Values
<1>6. Counted(t, g, a)
  BY <1>4, <1>5, UnrefCounts
<1>7. g[j] > 0
  <2>1. Key(j, S) = 1
    BY DEF Key
  <2> QED BY <1>1, <1>2, <2>1 DEF Minus
<1> HIDE DEF t, g
<1>8. j \in DOMAIN t.symbol \cup {NoSymbol}
  BY <1>1, <1>6, <1>7, Alive
<1>9. Counted(Unref(t, j), Minus(g, j), a)
  BY <1>6, <1>8, UnrefCounts
<1>10. Minus(g, j) = HeldIn(c, b, S \ {j})
  <2>1. ASSUME NEW i \in Symbols
        PROVE  h[i] - One(b[j], i) - One(j, i) = HeldBy(c, i) + Key(i, S \ {j}) + Tally(b, S \ {j}, i)
    <3>1. IsFiniteSet(S) /\ IsFiniteSet(DOMAIN c)
      BY SymbolsAssumption, FS_Subset
    <3>2. Tally(b, S \ {j}, i) \in Nat /\ Tally(b, S, i) = Tally(b, S \ {j}, i) + One(b[j], i)
      BY <3>1, HeldSplit
    <3>3. Key(i, S) = Key(i, S \ {j}) + One(j, i) /\ Key(i, S \ {j}) \in Nat
      BY DEF Key, One
    <3>4. HeldBy(c, i) \in Nat
      BY <3>1, TallyIsNat DEF HeldBy
    <3>5. h[i] = HeldBy(c, i) + Key(i, S) + Tally(b, S, i)
      BY DEF h, HeldIn
    <3> QED BY <1>2, <3>2, <3>3, <3>4, <3>5
  <2> QED BY <2>1 DEF Minus, HeldIn, g
<1> QED BY <1>9, <1>10 DEF t

\* What an order lists after its first k.
After(order, n, k) == {order[m] : m \in k + 1 .. n}

LEMMA AfterFacts ==
  ASSUME NEW D, NEW n \in Nat, NEW order \in Bijection(1 .. n, D)
  PROVE  /\ After(order, n, 0) = D /\ After(order, n, n) = {}
         /\ \A k \in 1 .. n : /\ order[k] \in After(order, n, k - 1)
                              /\ After(order, n, k) = After(order, n, k - 1) \ {order[k]}
         /\ \A k \in 0 .. n : After(order, n, k) \subseteq D
<1>1. /\ order \in [1 .. n -> D]
      /\ \A x, y \in 1 .. n : order[x] = order[y] => x = y
      /\ \A d \in D : \E m \in 1 .. n : order[m] = d
  BY DEF Bijection, Injection, Surjection, IsInjective
<1>2. After(order, n, 0) = D
  <2>1. 0 + 1 .. n = 1 .. n
    OBVIOUS
  <2> QED BY <1>1, <2>1 DEF After
<1>3. After(order, n, n) = {}
  <2>1. n + 1 .. n = {}
    OBVIOUS
  <2> QED BY <2>1 DEF After
<1>4. ASSUME NEW k \in 1 .. n
      PROVE  /\ order[k] \in After(order, n, k - 1)
             /\ After(order, n, k) = After(order, n, k - 1) \ {order[k]}
  <2>1. k - 1 + 1 .. n = {k} \cup (k + 1 .. n) /\ k \notin k + 1 .. n
    OBVIOUS
  <2>2. k + 1 .. n \subseteq 1 .. n
    OBVIOUS
  <2>3. \A m \in k + 1 .. n : order[m] # order[k]
    BY <1>1, <2>1, <2>2
  <2> QED BY <2>1, <2>3 DEF After
<1>5. ASSUME NEW k \in 0 .. n PROVE After(order, n, k) \subseteq D
  <2>1. k + 1 .. n \subseteq 1 .. n
    OBVIOUS
  <2> QED BY <1>1, <2>1 DEF After
<1> QED BY <1>2, <1>3, <1>4, <1>5

\* The symbols and the tables there may be.
States == [symbol : UNION {[S -> SymbolType] : S \in SUBSET Symbols},
           table : UNION {[N -> Symbols] : N \in SUBSET Names}]

LEMMA CountedIsState ==
  ASSUME NEW s, NEW h, NEW a, Counted(s, h, a)
  PROVE  s \in States
  BY DEF Counted, States

\* The bindings go, one after the other.
LEMMA DroppedCounts ==
  ASSUME NEW c \in [Cells -> Values], bindings \in [DOMAIN bindings -> Values],
         DOMAIN bindings \subseteq Symbols, NEW a, NEW s,
         Counted(s, HeldIn(c, bindings, DOMAIN bindings), a),
         NEW order \in Bijection(1 .. Cardinality(DOMAIN bindings), DOMAIN bindings)
  PROVE  Counted(Dropped(s, order), HeldIn(c, bindings, {}), a)
<1> DEFINE D == DOMAIN bindings
           n == Cardinality(D)
           Rest(k) == After(order, n, k)
           Step(x, k) == Unref(Unref(x, bindings[order[k]]), order[k])
           Good(x, k) == Counted(x, HeldIn(c, bindings, Rest(k)), a)
<1>1. n \in Nat
  BY SymbolsAssumption, FS_Subset, FS_CardinalityType
<1>2. Len(order) = n
  BY <1>1 DEF Bijection, Injection
<1>3. /\ Rest(0) = D /\ Rest(n) = {}
      /\ \A k \in 1 .. n : order[k] \in Rest(k - 1) /\ Rest(k) = Rest(k - 1) \ {order[k]}
      /\ \A k \in 0 .. n : Rest(k) \subseteq D
  <2> HIDE DEF D, n
  <2>1. order \in Bijection(1 .. n, D)
    BY DEF n, D
  <2> QED BY <1>1, <2>1, AfterFacts
<1> HIDE DEF n, Rest
<1>4. ASSUME NEW k \in 1 .. n, NEW x, Good(x, k - 1)
      PROVE  Good(Step(x, k), k)
  <2> DEFINE S == Rest(k - 1)
  <2>1. S \in SUBSET Symbols /\ S \subseteq D /\ order[k] \in S
    <3>1. k - 1 \in 0 .. n
      BY <1>1
    <3> QED BY <1>3, <3>1
  <2>2. Rest(k) = S \ {order[k]}
    BY <1>3
  <2>3. Counted(x, HeldIn(c, bindings, S), a)
    BY <1>4
  <2> HIDE DEF S
  <2>4. Counted(Step(x, k), HeldIn(c, bindings, S \ {order[k]}), a)
    BY <2>1, <2>3, DropOne
  <2> QED BY <2>2, <2>4
<1> DEFINE g == [p \in (1 .. n) \X States |->
                   IF Step(p[2], p[1]) \in States THEN Step(p[2], p[1]) ELSE p[2]]
<1>5. g \in [(1 .. n) \X States -> States]
  <2> HIDE DEF Step
  <2> QED OBVIOUS
<1>6. \A k \in 1 .. n, x \in States : Step(x, k) \in States => g[<<k, x>>] = Step(x, k)
  <2> HIDE DEF Step
  <2> QED OBVIOUS
<1> HIDE DEF g
<1>7. s \in States
  BY CountedIsState
<1>8. PICK f : Loop(f, States, s, g, n)
  BY <1>1, <1>5, <1>7, RecursionExists
<1> HIDE DEF Step
\* Along any sequence of these steps the cells are counted.
<1>9. ASSUME NEW e, e[0] = s, \A k \in 1 .. n : Good(e[k - 1], k - 1) => e[k] = Step(e[k - 1], k)
      PROVE  \A k \in 0 .. n : Good(e[k], k)
  <2> DEFINE T == {k \in Nat : k <= n => Good(e[k], k)}
  <2>1. 0 \in T
    BY <1>3, <1>9
  <2>2. ASSUME NEW k \in Nat, k \in T PROVE k + 1 \in T
    <3> SUFFICES ASSUME k + 1 <= n PROVE Good(e[k + 1], k + 1)
      OBVIOUS
    <3>1. k + 1 \in 1 .. n /\ k + 1 - 1 = k /\ k <= n
      BY <1>1
    <3>2. Good(e[k], k)
      BY <2>2, <3>1
    <3> HIDE DEF Good
    <3>3. e[k + 1] = Step(e[k], k + 1)
      BY <1>9, <3>1, <3>2
    <3> QED BY <1>4, <3>1, <3>2, <3>3
  <2> HIDE DEF T
  <2>3. Nat \subseteq T
    BY <2>1, <2>2, NatSetInduction
  <2> QED BY <1>1, <2>3 DEF T
<1> DEFINE Is(e) == e = [k \in 0 .. Len(order) |->
                           IF k = 0 THEN s
                           ELSE Unref(Unref(e[k - 1], bindings[order[k]]), order[k])]
           after == CHOOSE e : Is(e)
<1>10. \E e : Is(e)
  <2>1. f \in [0 .. n -> States] /\ f[0] = s /\ \A k \in 1 .. n : f[k] = g[<<k, f[k - 1]>>]
    BY <1>8 DEF Loop
  <2>2. ASSUME NEW k \in 1 .. n, Good(f[k - 1], k - 1) PROVE f[k] = Step(f[k - 1], k)
    <3>1. k - 1 \in 0 .. n
      BY <1>1
    <3>2. f[k - 1] \in States
      BY <2>1, <3>1
    <3>3. Good(Step(f[k - 1], k), k)
      BY <1>4, <2>2
    <3>4. Step(f[k - 1], k) \in States
      BY <3>3, CountedIsState
    <3> QED BY <1>6, <2>1, <3>2, <3>4
  <2> HIDE DEF Good
  <2>3. \A k \in 0 .. n : Good(f[k], k)
    BY <1>9, <2>1, <2>2
  <2>4. \A k \in 1 .. n : f[k] = Step(f[k - 1], k)
    <3>1. \A k \in 1 .. n : k - 1 \in 0 .. n
      BY <1>1
    <3> QED BY <2>2, <2>3, <3>1
  <2>5. \A k \in 0 .. n : k # 0 => k \in 1 .. n
    BY <1>1
  <2>6. f = [k \in 0 .. n |-> IF k = 0 THEN s ELSE Step(f[k - 1], k)]
    BY <2>1, <2>4, <2>5
  <2>7. Is(f)
    BY <1>2, <2>6 DEF Step
  <2> QED BY <2>7
<1>11. Is(after)
  BY <1>10
<1>12. Dropped(s, order) = after[n]
  BY <1>2 DEF Dropped
<1> HIDE DEF after
<1>13. /\ after[0] = s
       /\ \A k \in 1 .. n : Good(after[k - 1], k - 1) => after[k] = Step(after[k - 1], k)
  <2>1. \A k \in 1 .. n : k \in 0 .. n /\ k # 0
    BY <1>1
  <2>2. 0 \in 0 .. n
    BY <1>1
  <2>3. after = [k \in 0 .. n |-> IF k = 0 THEN s ELSE Step(after[k - 1], k)]
    BY <1>2, <1>11 DEF Step
  <2> HIDE DEF Good, Is
  <2>4. after[0] = s /\ \A k \in 1 .. n : after[k] = Step(after[k - 1], k)
    BY <2>1, <2>2, <2>3
  <2> QED BY <2>4
<1>14. \A k \in 0 .. n : Good(after[k], k)
  <2> HIDE DEF Good
  <2> QED BY <1>9, <1>13
<1>15. Good(after[n], n)
  <2>1. n \in 0 .. n
    BY <1>1
  <2> HIDE DEF Good
  <2> QED BY <1>14, <2>1
<1> QED BY <1>3, <1>12, <1>15

---------------------------------------------------------------------------
(* The invariant.                                                          *)

\* The cells there are: the program's, and the Env's.
Held == HeldIn(cell, bindings, DOMAIN bindings)

\* The bindings b of the symbols of s are the definitions d.
Bound(s, b, d) ==
  /\ \A i \in DOMAIN b : s.symbol[i].name \in DOMAIN d /\ d[s.symbol[i].name] = b[i]
  /\ \A n \in DOMAIN d : \E i \in DOMAIN b : s.symbol[i].name = n

SymbolsInv ==
  /\ cell \in [Cells -> Values]
  /\ bindings \in [DOMAIN bindings -> Values] /\ DOMAIN bindings \subseteq Symbols
  /\ Counted(SymbolState, Held, allocator)
  /\ allocator => Bound(SymbolState, bindings, defined)

LEMMA SymbolsInvInit == SymbolsInit => SymbolsInv
<1> SUFFICES ASSUME SymbolsInit PROVE SymbolsInv
  OBVIOUS
<1>1. /\ cell \in [Cells -> Values] /\ DOMAIN bindings = {} /\ DOMAIN defined = {}
      /\ DOMAIN symbol = {} /\ DOMAIN table = {} /\ allocator = TRUE
      /\ bindings \in [DOMAIN bindings -> Values]
      /\ symbol \in [DOMAIN symbol -> SymbolType] /\ table \in [DOMAIN table -> Symbols]
  BY DEF SymbolsInit, Values
<1>2. ASSUME NEW i \in Symbols PROVE HeldBy(cell, i) + Key(i, {}) + Tally(bindings, {}, i) = 0
  <2>1. {x \in {} : bindings[x] = i} = {}
    OBVIOUS
  <2>2. {x \in DOMAIN cell : cell[x] = i} = {}
    BY <1>2, SymbolsAssumption DEF SymbolsInit
  <2>3. Cardinality({}) = 0
    BY FS_EmptySet
  <2> QED BY <2>1, <2>2, <2>3 DEF HeldBy, Tally, Key
<1>3. Held \in [Symbols -> Nat] /\ \A i \in Symbols : ~(Held[i] > 0)
  BY <1>1, <1>2 DEF Held, HeldIn
<1>4. Counted(SymbolState, Held, allocator)
  BY <1>1, <1>3 DEF Counted, SymbolState
<1> QED BY <1>1, <1>4 DEF SymbolsInv, Bound

\* What a cell or a binding holds is alive.
LEMMA HeldIsAlive ==
  ASSUME SymbolsInv
  PROVE  /\ Held \in [Symbols -> Nat] /\ Held \in [Symbols -> Int]
         /\ \A x \in Cells : cell[x] \in Values
                             /\ (cell[x] \in Symbols => Held[cell[x]] > 0)
         /\ \A j \in DOMAIN bindings : bindings[j] \in Values
                             /\ (bindings[j] \in Symbols => Held[bindings[j]] > 0)
         /\ \A j \in DOMAIN bindings : Held[j] > 0 /\ j \in DOMAIN symbol
<1> DEFINE S == DOMAIN bindings
<1>1. /\ Held \in [Symbols -> Nat] /\ Held \in [Symbols -> Int]
      /\ \A i \in S : Held[i] > 0
      /\ \A i \in Symbols : \A x \in Cells : Held[i] >= One(cell[x], i) + Key(i, S)
      /\ \A i \in Symbols : \A j \in S : Held[i] >= Key(i, S) + One(bindings[j], i)
  BY HeldInFacts DEF SymbolsInv, Held
<1>2. \A i \in Symbols : One(i, i) = 1 /\ Key(i, S) \in Nat
  BY DEF One, Key
<1>3. \A x \in Cells : cell[x] \in Values /\ (cell[x] \in Symbols => Held[cell[x]] > 0)
  <2>1. ASSUME NEW x \in Cells, cell[x] \in Symbols PROVE Held[cell[x]] > 0
    BY <1>1, <1>2, <2>1
  <2> QED BY <2>1 DEF SymbolsInv
<1>4. \A j \in S : bindings[j] \in Values /\ (bindings[j] \in Symbols => Held[bindings[j]] > 0)
  <2>1. ASSUME NEW j \in S, bindings[j] \in Symbols PROVE Held[bindings[j]] > 0
    BY <1>1, <1>2, <2>1
  <2> QED BY <2>1 DEF SymbolsInv
<1>5. \A j \in S : j \in DOMAIN symbol
  BY <1>1 DEF SymbolsInv, Counted, SymbolState
<1> QED BY <1>1, <1>3, <1>4, <1>5

\* The cells change and the bindings do not: r has the symbols from before
\* and those from after.
LEMMA CellStep ==
  ASSUME SymbolsInv, NEW r, NEW t, Kept(r, SymbolState), Kept(r, t), SymbolsBecome(t),
         cell' \in [Cells -> Values], UNCHANGED <<bindings, allocator, defined>>,
         Counted(t, HeldIn(cell', bindings, DOMAIN bindings), allocator)
  PROVE  SymbolsInv'
<1>1. SymbolState' = t
  BY DEF SymbolsBecome, SymbolState, Counted
<1>2. Counted(SymbolState, Held, allocator)'
  BY <1>1 DEF Held
<1>3. \A i \in DOMAIN bindings : i \in DOMAIN symbol /\ i \in DOMAIN t.symbol
  <2>1. \A i \in DOMAIN bindings : HeldIn(cell', bindings, DOMAIN bindings)[i] > 0
    BY HeldInFacts DEF SymbolsInv
  <2> QED BY <2>1, HeldIsAlive DEF Counted, SymbolsInv
<1>4. \A i \in DOMAIN bindings : t.symbol[i].name = symbol[i].name
  BY <1>3 DEF Kept, SymbolState
<1>5. allocator => Bound(t, bindings, defined)
  BY <1>4 DEF Bound, SymbolsInv, SymbolState
<1> QED BY <1>1, <1>2, <1>5 DEF SymbolsInv

LEMMA KeptItself == ASSUME NEW s PROVE Kept(s, s)
  BY DEF Kept

LEMMA CellAssigned ==
  ASSUME SymbolsInv, NEW x \in Cells, NEW v \in Values, NEW e, e = [cell EXCEPT ![x] = v]
  PROVE  /\ e \in [Cells -> Values]
         /\ HeldIn(e, bindings, DOMAIN bindings) = Swap(Held, cell[x], v)
<1>1. cell \in [Cells -> Values] /\ DOMAIN bindings \in SUBSET Symbols
  BY DEF SymbolsInv
<1>2. e \in [Cells -> Values] /\ e[x] = v /\ \A y \in Cells \ {x} : e[y] = cell[y]
  BY <1>1
<1>3. HeldIn(e, bindings, DOMAIN bindings) = Swap(HeldIn(cell, bindings, DOMAIN bindings), cell[x], v)
  BY ONLY <1>1, <1>2, CellChanged, x \in Cells, v \in Values
<1> QED BY <1>2, <1>3 DEF Held

---------------------------------------------------------------------------
(* The calls.                                                              *)

LEMMA MakeStep ==
  ASSUME SymbolsInv, NEW c \in Cells, NEW n \in Names, Make(c, n)
  PROVE  SymbolsInv'
<1> DEFINE r == Named(n)[2]  i == Named(n)[1]  g == Plus(Held, i)  t == Unref(r, cell[c])
<1>1. /\ allocator /\ (n \in DOMAIN table \/ Room) /\ SymbolsBecome(t)
      /\ cell' = [cell EXCEPT ![c] = i] /\ UNCHANGED <<bindings, allocator, defined>>
  BY DEF Make
<1>2. Counted(SymbolState, Held, TRUE)
  BY <1>1 DEF SymbolsInv, Counted
<1>3. i \in Symbols /\ Counted(r, g, TRUE) /\ Kept(r, SymbolState)
  BY <1>1, <1>2, NamedCounts
<1> HIDE DEF r, i, g
<1>4. cell[c] \in DOMAIN r.symbol \cup {NoSymbol}
  <2>1. cell[c] \in Symbols => g[cell[c]] > 0
    <3>1. \A j \in Symbols : g[j] = Held[j] + One(i, j)
      BY HeldIsAlive, OneByOne DEF g
    <3>2. \A j \in Symbols : Held[j] \in Nat /\ One(i, j) \in Nat
      BY HeldIsAlive DEF One
    <3>3. cell[c] \in Symbols => Held[cell[c]] > 0
      BY HeldIsAlive
    <3> QED BY <3>1, <3>2, <3>3
  <2>2. cell[c] \in Values
    BY HeldIsAlive
  <2> QED BY <1>3, <2>1, <2>2, Alive DEF Values
<1>5. Counted(t, Minus(g, cell[c]), TRUE) /\ Kept(r, t)
  BY <1>3, <1>4, UnrefCounts
<1>6. Minus(g, cell[c]) = Swap(Held, cell[c], i)
  BY HeldIsAlive, SwapFacts DEF g
<1>7. cell' \in [Cells -> Values] /\ i \in Values
  BY <1>1, <1>3 DEF SymbolsInv, Values
<1>8. HeldIn(cell', bindings, DOMAIN bindings) = Swap(Held, cell[c], i)
  BY <1>1, <1>7, CellAssigned
<1> HIDE DEF t
<1>9. Counted(t, HeldIn(cell', bindings, DOMAIN bindings), allocator)
  <2>1. allocator = TRUE
    BY <1>1 DEF SymbolsInv, Counted
  <2> QED BY <1>5, <1>6, <1>8, <2>1
<1> QED BY <1>1, <1>3, <1>5, <1>7, <1>9, CellStep

LEMMA CopyStep ==
  ASSUME SymbolsInv, NEW c \in Cells, NEW d \in Cells, Copy(c, d)
  PROVE  SymbolsInv'
<1> DEFINE r == Unref(SymbolState, cell[c])  g == Minus(Held, cell[c])  t == Ref(r, cell[d])
<1>1. /\ c # d /\ SymbolsBecome(t)
      /\ cell' = [cell EXCEPT ![c] = cell[d]] /\ UNCHANGED <<bindings, allocator, defined>>
  BY DEF Copy
<1>2. Counted(SymbolState, Held, allocator)
  BY DEF SymbolsInv
<1>3. cell[c] \in DOMAIN SymbolState.symbol \cup {NoSymbol}
  BY <1>2, HeldIsAlive, Alive DEF Values
<1>4. Counted(r, g, allocator) /\ Kept(SymbolState, r)
  BY <1>2, <1>3, UnrefCounts
<1>5. cell[d] \in Symbols => g[cell[d]] > 0
  <2> SUFFICES ASSUME cell[d] \in Symbols PROVE g[cell[d]] > 0
    OBVIOUS
  <2>1. Held[cell[d]] >= One(cell[c], cell[d]) + One(cell[d], cell[d])
    <3>1. \A i \in Symbols : \A x \in Cells : \A y \in Cells \ {x} : Held[i] >= One(cell[x], i) + One(cell[y], i)
      BY HeldInFacts DEF SymbolsInv, Held
    <3> QED BY <1>1, <3>1
  <2>2. One(cell[d], cell[d]) = 1 /\ One(cell[c], cell[d]) \in Nat /\ Held[cell[d]] \in Nat
    BY HeldIsAlive DEF One
  <2>3. g[cell[d]] = Held[cell[d]] - One(cell[c], cell[d])
    <3>1. Held \in [Symbols -> Int]
      BY HeldIsAlive
    <3>2. \A j \in Symbols : g[j] = Held[j] - One(cell[c], j)
      BY <3>1, OneByOne
    <3> QED BY <3>2
  <2> HIDE DEF g
  <2> QED BY <2>1, <2>2, <2>3
<1>6. cell[d] \in Values
  BY HeldIsAlive
<1> HIDE DEF r, g
<1>7. cell[d] \in DOMAIN r.symbol \cup {NoSymbol}
  BY <1>4, <1>5, <1>6, Alive DEF Values
<1>8. Counted(t, Plus(g, cell[d]), allocator) /\ Kept(r, t)
  BY <1>4, <1>7, RefCounts
<1>9. Plus(g, cell[d]) = Swap(Held, cell[c], cell[d])
  BY HeldIsAlive, SwapFacts DEF g
<1>10. cell' \in [Cells -> Values]
  BY <1>1, <1>6 DEF SymbolsInv
<1>11. HeldIn(cell', bindings, DOMAIN bindings) = Swap(Held, cell[c], cell[d])
  BY <1>1, <1>6, CellAssigned
<1> HIDE DEF t
<1>12. Counted(t, HeldIn(cell', bindings, DOMAIN bindings), allocator)
  BY <1>8, <1>9, <1>11
<1>13. Kept(SymbolState, t) /\ Kept(SymbolState, SymbolState)
  BY <1>4, <1>8, KeptTwice, KeptItself
<1> QED BY <1>1, <1>10, <1>12, <1>13, CellStep

LEMMA MoveStep ==
  ASSUME SymbolsInv, NEW c \in Cells, NEW d \in Cells, Move(c, d)
  PROVE  SymbolsInv'
<1> DEFINE t == Unref(SymbolState, cell[c])
           e == [cell EXCEPT ![c] = cell[d]]
           S == DOMAIN bindings
<1>1. /\ c # d /\ SymbolsBecome(t) /\ UNCHANGED <<bindings, allocator, defined>>
      /\ cell' = [cell EXCEPT ![c] = cell[d], ![d] = NoSymbol]
  BY DEF Move
<1>2. Counted(SymbolState, Held, allocator)
  BY DEF SymbolsInv
<1>3. cell[c] \in DOMAIN SymbolState.symbol \cup {NoSymbol}
  BY <1>2, HeldIsAlive, Alive DEF Values
<1>4. Counted(t, Minus(Held, cell[c]), allocator) /\ Kept(SymbolState, t)
  BY <1>2, <1>3, UnrefCounts
<1>5. cell[d] \in Values /\ NoSymbol \in Values /\ cell \in [Cells -> Values]
  BY HeldIsAlive DEF Values, SymbolsInv
<1>6. /\ e \in [Cells -> Values] /\ e[d] = cell[d]
      /\ cell' = [e EXCEPT ![d] = NoSymbol] /\ cell' \in [Cells -> Values]
  BY <1>1, <1>5
<1>7. HeldIn(e, bindings, S) = Swap(Held, cell[c], cell[d])
  BY <1>5, CellAssigned
<1> HIDE DEF e
<1>8. HeldIn(cell', bindings, S) = Swap(HeldIn(e, bindings, S), cell[d], NoSymbol)
  <2>1. HeldIn(cell', bindings, S) = Swap(HeldIn(e, bindings, S), e[d], NoSymbol)
    <3>1. S \in SUBSET Symbols
      BY DEF SymbolsInv
    <3>2. /\ e \in [Cells -> Values] /\ cell' \in [Cells -> Values]
          /\ cell'[d] = NoSymbol /\ \A y \in Cells \ {d} : cell'[y] = e[y]
      BY <1>6
    <3> HIDE DEF S
    <3> QED BY ONLY <1>5, <3>1, <3>2, CellChanged, d \in Cells
  <2> QED BY <1>6, <2>1
<1>9. HeldIn(cell', bindings, S) = Minus(Held, cell[c])
  BY <1>7, <1>8, HeldIsAlive, SwapFacts
<1> HIDE DEF t
<1> QED BY <1>1, <1>4, <1>6, <1>9, CellStep, KeptItself

LEMMA DropStep ==
  ASSUME SymbolsInv, NEW c \in Cells, Drop(c)
  PROVE  SymbolsInv'
<1> DEFINE t == Unref(SymbolState, cell[c])
<1>1. /\ SymbolsBecome(t) /\ UNCHANGED <<bindings, allocator, defined>>
      /\ cell' = [cell EXCEPT ![c] = NoSymbol]
  BY DEF Drop
<1>2. Counted(SymbolState, Held, allocator)
  BY DEF SymbolsInv
<1>3. cell[c] \in DOMAIN SymbolState.symbol \cup {NoSymbol}
  BY <1>2, HeldIsAlive, Alive DEF Values
<1>4. Counted(t, Minus(Held, cell[c]), allocator) /\ Kept(SymbolState, t)
  BY <1>2, <1>3, UnrefCounts
<1>5. NoSymbol \in Values /\ cell' \in [Cells -> Values]
  BY <1>1 DEF Values, SymbolsInv
<1>6. HeldIn(cell', bindings, DOMAIN bindings) = Swap(Held, cell[c], NoSymbol)
  BY <1>1, <1>5, CellAssigned
<1>7. HeldIn(cell', bindings, DOMAIN bindings) = Minus(Held, cell[c])
  BY <1>6, HeldIsAlive, SwapFacts
<1> HIDE DEF t
<1> QED BY <1>1, <1>4, <1>5, <1>7, CellStep, KeptItself

LEMMA FindStep ==
  ASSUME SymbolsInv, NEW c \in Cells, NEW n \in Names, Find(c, n)
  PROVE  SymbolsInv'
<1> DEFINE r == Named(n)[2]  i == Named(n)[1]  v == Found(r, i)  g == Plus(Held, i)
           u == Ref(r, v)  h == Plus(g, v)
           w == Unref(u, i)  k == Minus(h, i)
           t == Unref(w, cell[c])
<1>1. /\ allocator /\ (n \in DOMAIN table \/ Room) /\ SymbolsBecome(t)
      /\ cell' = [cell EXCEPT ![c] = v] /\ UNCHANGED <<bindings, allocator, defined>>
  BY DEF Find
<1>2. Counted(SymbolState, Held, TRUE)
  BY <1>1 DEF SymbolsInv, Counted
<1>3. i \in Symbols /\ Counted(r, g, TRUE) /\ Kept(r, SymbolState)
  BY <1>1, <1>2, NamedCounts
<1>4. v \in Values /\ (v \in Symbols => Held[v] > 0)
  BY HeldIsAlive, SymbolsAssumption DEF Found, Values
<1> HIDE DEF r, i, v
<1>5. Held \in [Symbols -> Int] /\ \A j \in Symbols : Held[j] \in Nat
  BY HeldIsAlive
<1>6. g \in [Symbols -> Int] /\ \A j \in Symbols : g[j] = Held[j] + One(i, j)
  BY <1>5, OneByOne
<1> HIDE DEF g
<1>7. h \in [Symbols -> Int] /\ \A j \in Symbols : h[j] = g[j] + One(v, j)
  BY <1>6, OneByOne
<1> HIDE DEF h
<1>8. \A j \in Symbols : k[j] = h[j] - One(i, j)
  BY <1>7, OneByOne
<1> HIDE DEF k
<1>9. \A x, j : One(x, j) \in Nat /\ One(x, x) = 1
  BY DEF One
<1>10. v \in DOMAIN r.symbol \cup {NoSymbol}
  <2>1. v \in Symbols => g[v] > 0
    BY <1>4, <1>5, <1>6, <1>9
  <2> QED BY <1>3, <1>4, <2>1, Alive DEF Values
<1>11. Counted(u, h, TRUE) /\ Kept(r, u)
  BY <1>3, <1>10, RefCounts DEF h
<1>12. i \in DOMAIN u.symbol \cup {NoSymbol}
  <2>1. h[i] > 0
    BY <1>3, <1>5, <1>6, <1>7, <1>9
  <2> HIDE DEF u
  <2> QED BY <1>3, <1>11, <2>1, Alive
<1> HIDE DEF u
<1>13. Counted(w, k, TRUE) /\ Kept(u, w)
  BY <1>11, <1>12, UnrefCounts DEF k
<1> HIDE DEF w
<1>14. cell[c] \in DOMAIN w.symbol \cup {NoSymbol}
  <2>1. cell[c] \in Symbols => k[cell[c]] > 0
    <3> SUFFICES ASSUME cell[c] \in Symbols PROVE k[cell[c]] > 0
      OBVIOUS
    <3>1. Held[cell[c]] > 0 /\ Held[cell[c]] \in Nat
      BY HeldIsAlive
    <3>2. k[cell[c]] = Held[cell[c]] + One(i, cell[c]) + One(v, cell[c]) - One(i, cell[c])
      <4> DEFINE j == cell[c]
      <4>1. j \in Symbols
        OBVIOUS
      <4> HIDE DEF j
      <4>2. g[j] = Held[j] + One(i, j) /\ h[j] = g[j] + One(v, j) /\ k[j] = h[j] - One(i, j)
        BY <1>6, <1>7, <1>8, <4>1
      <4>3. k[j] = Held[j] + One(i, j) + One(v, j) - One(i, j)
        BY <1>5, <1>9, <4>1, <4>2
      <4> QED BY <4>3 DEF j
    <3> QED BY <1>9, <3>1, <3>2
  <2>2. cell[c] \in Values
    BY HeldIsAlive
  <2> QED BY <1>13, <2>1, <2>2, Alive DEF Values
<1>15. Counted(t, Minus(k, cell[c]), TRUE) /\ Kept(w, t)
  BY <1>13, <1>14, UnrefCounts
<1>16. Minus(k, cell[c]) = Swap(Held, cell[c], v)
  BY <1>5, SwapFacts DEF g, h, k
<1>17. cell' \in [Cells -> Values]
  BY <1>1, <1>4 DEF SymbolsInv
<1>18. HeldIn(cell', bindings, DOMAIN bindings) = Swap(Held, cell[c], v)
  BY <1>1, <1>4, CellAssigned
<1> HIDE DEF t
<1>19. Counted(t, HeldIn(cell', bindings, DOMAIN bindings), allocator)
  <2>1. allocator = TRUE
    BY <1>1 DEF SymbolsInv, Counted
  <2> QED BY <1>15, <1>16, <1>18, <2>1
<1>20. Kept(r, t)
  BY <1>11, <1>13, <1>15, KeptTwice
<1> QED BY <1>1, <1>3, <1>17, <1>19, <1>20, CellStep

\* The new binding and the others, whose names are different.
LEMMA DefineBinds ==
  ASSUME SymbolsInv, allocator, NEW n \in Names, NEW i, NEW v, NEW r, NEW h, NEW t, NEW g,
         Counted(r, h, TRUE), Kept(r, SymbolState), Kept(r, t), Counted(t, g, TRUE),
         i \in DOMAIN r.symbol, r.symbol[i].name = n,
         \A j \in DOMAIN bindings \cup {i} : g[j] > 0, DOMAIN bindings \cup {i} \subseteq Symbols
  PROVE  Bound(t, With(bindings, i, v), With(defined, n, v))
<1> DEFINE b == With(bindings, i, v)  d == With(defined, n, v)
<1>1. /\ DOMAIN b = DOMAIN bindings \cup {i} /\ b[i] = v
      /\ \A j \in DOMAIN bindings : j # i => b[j] = bindings[j]
  BY DEF With
<1>2. /\ DOMAIN d = DOMAIN defined \cup {n} /\ d[n] = v
      /\ \A m \in DOMAIN defined : m # n => d[m] = defined[m]
  BY DEF With
<1> HIDE DEF b, d
<1>3. \A j \in DOMAIN bindings \cup {i} : j \in DOMAIN t.symbol /\ t.symbol[j].name = r.symbol[j].name
  BY DEF Counted, Kept
<1>4. \A j \in DOMAIN bindings : t.symbol[j].name = symbol[j].name
  BY <1>3, HeldIsAlive DEF Kept, SymbolState
<1>5. t.symbol[i].name = n
  BY <1>3
<1>6. \A j \in DOMAIN bindings : t.symbol[j].name = n => j = i
  <2>1. \A j \in DOMAIN t.symbol : t.table[t.symbol[j].name] = j
    BY DEF Counted
  <2> QED BY <1>3, <1>5, <2>1
<1>7. Bound(SymbolState, bindings, defined)
  BY DEF SymbolsInv
<1>8. /\ \A j \in DOMAIN bindings : t.symbol[j].name \in DOMAIN defined
                                    /\ defined[t.symbol[j].name] = bindings[j]
      /\ \A m \in DOMAIN defined : \E j \in DOMAIN bindings : t.symbol[j].name = m
  BY <1>4, <1>7 DEF Bound, SymbolState
<1>9. \A j \in DOMAIN b : t.symbol[j].name \in DOMAIN d /\ d[t.symbol[j].name] = b[j]
  <2>1. ASSUME NEW j \in DOMAIN b, j = i
        PROVE  t.symbol[j].name \in DOMAIN d /\ d[t.symbol[j].name] = b[j]
    BY <1>1, <1>2, <1>5, <2>1
  <2>2. ASSUME NEW j \in DOMAIN b, j # i
        PROVE  t.symbol[j].name \in DOMAIN d /\ d[t.symbol[j].name] = b[j]
    BY <1>1, <1>2, <1>6, <1>8, <2>2
  <2> QED BY <2>1, <2>2
<1>10. \A m \in DOMAIN d : \E j \in DOMAIN b : t.symbol[j].name = m
  BY <1>1, <1>2, <1>5, <1>8
<1>11. Bound(t, b, d)
  BY <1>9, <1>10 DEF Bound
<1> QED BY <1>11 DEF b, d

LEMMA DefineStep ==
  ASSUME SymbolsInv, NEW c \in Cells, NEW n \in Names, Define(n, c)
  PROVE  SymbolsInv'
<1> DEFINE D == DOMAIN bindings
           r == Named(n)[2]  i == Named(n)[1]  v == cell[c]
           isNew == i \notin D
           keyed == IF isNew THEN Ref(r, i) ELSE r
           old == IF isNew THEN NoSymbol ELSE bindings[i]
           u == Unref(keyed, old)  w == Ref(u, v)  t == Unref(w, i)
           g0 == Plus(Held, i)
           g1 == IF isNew THEN Plus(g0, i) ELSE g0
           g2 == Minus(g1, old)  g3 == Plus(g2, v)  g4 == Minus(g3, i)
           b == With(bindings, i, v)
           H == HeldIn(cell, b, DOMAIN b)
<1>1. /\ allocator /\ (n \in DOMAIN table \/ Room) /\ SymbolsBecome(t)
      /\ bindings' = b /\ defined' = With(defined, n, v) /\ cell' = cell /\ allocator' = allocator
  BY DEF Define
<1>2. Counted(SymbolState, Held, TRUE)
  BY <1>1 DEF SymbolsInv, Counted
<1>3. /\ i \in Symbols /\ i \in DOMAIN r.symbol /\ r.symbol[i].name = n
      /\ Counted(r, g0, TRUE) /\ Kept(r, SymbolState)
  BY <1>1, <1>2, NamedCounts
<1>4. v \in Values /\ (v \in Symbols => Held[v] > 0)
  BY HeldIsAlive
<1> HIDE DEF r, i
<1>5. /\ old \in Values /\ (old \in Symbols => Held[old] > 0)
      /\ (isNew => old = NoSymbol) /\ (~isNew => old = bindings[i])
  BY HeldIsAlive, SymbolsAssumption DEF Values
<1>6. Held \in [Symbols -> Int] /\ \A j \in Symbols : Held[j] \in Nat
  BY HeldIsAlive
<1>7. /\ \A x, j : One(x, j) \in Nat /\ One(x, x) = 1
      /\ \A j \in Symbols : One(NoSymbol, j) = 0
  BY SymbolsAssumption DEF One
\* What the counts become.
<1>8. g0 \in [Symbols -> Int] /\ \A j \in Symbols : g0[j] = Held[j] + One(i, j)
  <2>1. Adds(Plus(Held, i), Held, i)
    BY <1>6, OneMore
  <2> QED BY <2>1 DEF Adds
<1> HIDE DEF g0
<1>9. /\ g1 \in [Symbols -> Int]
      /\ isNew => \A j \in Symbols : g1[j] = g0[j] + One(i, j)
      /\ ~isNew => \A j \in Symbols : g1[j] = g0[j]
  <2>1. Adds(Plus(g0, i), g0, i)
    BY <1>8, OneMore
  <2>2. (isNew => g1 = Plus(g0, i)) /\ (~isNew => g1 = g0)
    OBVIOUS
  <2> HIDE DEF isNew, g1
  <2>3. CASE isNew
    BY <2>1, <2>2, <2>3 DEF Adds
  <2>4. CASE ~isNew
    BY <1>8, <2>2, <2>4
  <2> QED BY <2>3, <2>4
<1>10. Counted(keyed, g1, TRUE) /\ Kept(r, keyed) /\ DOMAIN keyed.symbol = DOMAIN r.symbol
  <2>1. CASE isNew
    <3>1. keyed = Ref(r, i) /\ g1 = Plus(g0, i)
      BY <2>1
    <3>2. i \in DOMAIN r.symbol \cup {NoSymbol}
      BY <1>3
    <3> HIDE DEF keyed, g1, isNew
    <3> QED BY <1>3, <3>1, <3>2, RefCounts
  <2>2. CASE ~isNew
    <3>1. keyed = r /\ g1 = g0
      BY <2>2
    <3> HIDE DEF keyed, g1, isNew
    <3> QED BY <1>3, <3>1, KeptItself
  <2> QED BY <2>1, <2>2
<1> HIDE DEF g1
<1>11. g2 \in [Symbols -> Int] /\ \A j \in Symbols : g2[j] = g1[j] - One(old, j)
  <2>1. g2 = Minus(g1, old)
    OBVIOUS
  <2> HIDE DEF old, g2
  <2>2. Takes(Minus(g1, old), g1, old)
    BY <1>9, OneMore
  <2> QED BY <2>1, <2>2 DEF Takes
<1> HIDE DEF g2
<1>12. g3 \in [Symbols -> Int] /\ \A j \in Symbols : g3[j] = g2[j] + One(v, j)
  <2>1. g3 = Plus(g2, v)
    OBVIOUS
  <2> HIDE DEF g3
  <2>2. Adds(Plus(g2, v), g2, v)
    BY <1>11, OneMore
  <2> QED BY <2>1, <2>2 DEF Adds
<1> HIDE DEF g3
<1>13. g4 \in [Symbols -> Int] /\ \A j \in Symbols : g4[j] = g3[j] - One(i, j)
  <2>1. Takes(Minus(g3, i), g3, i)
    BY <1>12, OneMore
  <2> QED BY <2>1 DEF Takes
<1> HIDE DEF g4
<1>14. /\ D \in SUBSET Symbols /\ D \subseteq DOMAIN bindings
       /\ ~isNew => /\ \A j \in Symbols : Held[j] >= Key(j, D) + One(bindings[i], j)
                    /\ \A j \in Symbols : Held[j] >= One(v, j) + One(bindings[i], j)
  <2>1. D \in SUBSET Symbols /\ cell \in [Cells -> Values]
    BY DEF SymbolsInv
  <2>2. /\ \A j \in Symbols : \A k \in D : Held[j] >= Key(j, D) + One(bindings[k], j)
        /\ \A j \in Symbols : \A x \in Cells : \A k \in D : Held[j] >= One(cell[x], j) + One(bindings[k], j)
    BY <2>1, HeldInFacts DEF Held
  <2> QED BY <2>1, <2>2
<1>15. old \in DOMAIN keyed.symbol \cup {NoSymbol}
  <2>1. old \in Symbols => g1[old] > 0
    BY <1>5, <1>6, <1>7, <1>8, <1>9
  <2> HIDE DEF keyed, old
  <2> QED BY <1>5, <1>10, <2>1, Alive DEF Values
<1> HIDE DEF keyed
<1>16. Counted(u, g2, TRUE) /\ Kept(keyed, u)
  <2> HIDE DEF old
  <2> QED BY <1>10, <1>15, UnrefCounts DEF g2
<1> HIDE DEF u
<1>17. v \in DOMAIN u.symbol \cup {NoSymbol}
  <2>1. v \in Symbols => g2[v] > 0
    <3> SUFFICES ASSUME v \in Symbols PROVE g2[v] > 0
      OBVIOUS
    <3> HIDE DEF old, v, D
    <3>1. CASE isNew
      <4> HIDE DEF isNew
      <4>1. g2[v] = Held[v] + One(i, v) + One(i, v) - 0
        BY <1>5, <1>6, <1>7, <1>8, <1>9, <1>11, <3>1
      <4> QED BY <1>4, <1>6, <1>7, <4>1
    <3>2. CASE ~isNew
      <4> HIDE DEF isNew
      <4>1. g2[v] = Held[v] + One(i, v) - One(bindings[i], v)
        BY <1>5, <1>6, <1>7, <1>8, <1>9, <1>11, <3>2
      <4> QED BY <1>6, <1>7, <1>14, <3>2, <4>1
    <3> QED BY <3>1, <3>2
  <2> HIDE DEF v
  <2> QED BY <1>4, <1>16, <2>1, Alive DEF Values
<1>18. Counted(w, g3, TRUE) /\ Kept(u, w)
  <2> HIDE DEF v
  <2> QED BY <1>16, <1>17, RefCounts DEF g3
<1> HIDE DEF w
<1>19. i \in DOMAIN w.symbol \cup {NoSymbol}
  <2>1. g3[i] > 0
    <3> HIDE DEF old, v
    <3>1. CASE isNew
      <4> HIDE DEF isNew
      <4>1. g3[i] = Held[i] + 1 + 1 - 0 + One(v, i)
        BY <1>3, <1>5, <1>6, <1>7, <1>8, <1>9, <1>11, <1>12, <3>1
      <4> QED BY <1>3, <1>6, <1>7, <4>1
    <3>2. CASE ~isNew
      <4>1. Key(i, D) = 1
        BY <3>2 DEF Key
      <4> HIDE DEF isNew, D
      <4>2. /\ g0[i] = Held[i] + 1 /\ g1[i] = g0[i] /\ g2[i] = g1[i] - One(bindings[i], i)
            /\ g3[i] = g2[i] + One(v, i)
        BY <1>3, <1>5, <1>7, <1>8, <1>9, <1>11, <1>12, <3>2
      <4> QED BY <1>3, <1>6, <1>7, <1>14, <3>2, <4>1, <4>2
    <3> QED BY <3>1, <3>2
  <2> QED BY <1>3, <1>18, <2>1, Alive
<1>20. Counted(t, g4, TRUE) /\ Kept(w, t)
  BY <1>18, <1>19, UnrefCounts DEF g4
<1> HIDE DEF t
\* They are those of the new bindings.
<1>21. /\ isNew => \A j \in Symbols : H[j] = Held[j] + One(i, j) + One(v, j)
       /\ ~isNew => \A j \in Symbols : H[j] = Held[j] - One(bindings[i], j) + One(v, j)
  <2>1. /\ cell \in [Cells -> Values] /\ bindings \in [DOMAIN bindings -> Values]
        /\ DOMAIN bindings \subseteq Symbols
    BY DEF SymbolsInv
  <2> HIDE DEF v
  <2> QED BY <1>3, <2>1, BindingChanged DEF Held
<1>22. DOMAIN b = D \cup {i} /\ D \cup {i} \in SUBSET Symbols /\ b \in [DOMAIN b -> Values]
  BY <1>3, <1>4 DEF With, SymbolsInv
<1>23. H \in [Symbols -> Int] /\ \A j \in DOMAIN b : H[j] > 0
  <2> HIDE DEF b
  <2> QED BY <1>22, HeldInFacts DEF SymbolsInv
<1> HIDE DEF H, b, v, old, D
<1>24. g4 = H
  <2>1. ASSUME NEW j \in Symbols PROVE g4[j] = H[j]
    <3>1. CASE isNew
      <4> HIDE DEF isNew
      <4>1. /\ g0[j] = Held[j] + One(i, j) /\ g1[j] = g0[j] + One(i, j) /\ g2[j] = g1[j] - 0
            /\ g3[j] = g2[j] + One(v, j) /\ g4[j] = g3[j] - One(i, j)
        BY <1>5, <1>7, <1>8, <1>9, <1>11, <1>12, <1>13, <3>1
      <4>2. H[j] = Held[j] + One(i, j) + One(v, j)
        BY <1>21, <3>1
      <4>3. Held[j] \in Nat /\ One(i, j) \in Nat /\ One(v, j) \in Nat
        BY <1>6, <1>7
      <4> QED BY <4>1, <4>2, <4>3
    <3>2. CASE ~isNew
      <4> HIDE DEF isNew
      <4>1. /\ g0[j] = Held[j] + One(i, j) /\ g1[j] = g0[j] /\ g2[j] = g1[j] - One(bindings[i], j)
            /\ g3[j] = g2[j] + One(v, j) /\ g4[j] = g3[j] - One(i, j)
        BY <1>5, <1>8, <1>9, <1>11, <1>12, <1>13, <3>2
      <4>2. H[j] = Held[j] - One(bindings[i], j) + One(v, j)
        BY <1>21, <3>2
      <4>3. Held[j] \in Nat /\ One(i, j) \in Nat /\ One(v, j) \in Nat /\ One(bindings[i], j) \in Nat
        BY <1>6, <1>7
      <4> QED BY <4>1, <4>2, <4>3
    <3> QED BY <3>1, <3>2
  <2>2. \A f, g \in [Symbols -> Int] : (\A j \in Symbols : f[j] = g[j]) => f = g
    OBVIOUS
  <2> QED BY <1>13, <1>23, <2>1, <2>2
<1>25. Counted(t, H, TRUE) /\ SymbolState' = t
  <2>1. SymbolState' = t
    BY <1>1, <1>20 DEF SymbolsBecome, SymbolState, Counted
  <2> QED BY <1>20, <1>24, <2>1
<1>26. Counted(SymbolState, Held, allocator)'
  <2>1. Held' = H
    BY <1>1 DEF Held, H
  <2>2. allocator' = TRUE
    BY <1>1 DEF SymbolsInv, Counted
  <2> QED BY <1>25, <2>1, <2>2
<1>27. Bound(t, b, With(defined, n, v))
  <2>1. Kept(r, t)
    BY <1>10, <1>16, <1>18, <1>20, KeptTwice
  <2>2. \A j \in DOMAIN bindings \cup {i} : H[j] > 0
    BY <1>22, <1>23 DEF D
  <2>3. DOMAIN bindings \cup {i} \subseteq Symbols
    BY <1>22 DEF D
  <2> QED BY <1>1, <1>3, <1>25, <2>1, <2>2, <2>3, DefineBinds DEF b
<1>28. (cell \in [Cells -> Values])' /\ (bindings \in [DOMAIN bindings -> Values])'
       /\ (DOMAIN bindings \subseteq Symbols)'
  BY <1>1, <1>22 DEF SymbolsInv
<1> QED BY <1>1, <1>25, <1>26, <1>27, <1>28 DEF SymbolsInv

LEMMA DropEnvStep ==
  ASSUME SymbolsInv, DropEnv
  PROVE  SymbolsInv'
<1>1. PICK order \in Bijection(1 .. Cardinality(DOMAIN bindings), DOMAIN bindings) :
        SymbolsBecome(Dropped(SymbolState, order))
  BY DEF DropEnv
<1> DEFINE t == Dropped(SymbolState, order)
<1>2. /\ bindings' = <<>> /\ defined' = <<>> /\ cell' = cell /\ allocator' = allocator
      /\ DOMAIN bindings' = {} /\ DOMAIN defined' = {}
  BY DEF DropEnv
<1>3. Counted(t, HeldIn(cell, bindings, {}), allocator)
  <2>1. /\ cell \in [Cells -> Values] /\ bindings \in [DOMAIN bindings -> Values]
        /\ DOMAIN bindings \subseteq Symbols
        /\ Counted(SymbolState, HeldIn(cell, bindings, DOMAIN bindings), allocator)
    BY DEF SymbolsInv, Held
  <2> HIDE DEF t
  <2> QED BY <2>1, DroppedCounts DEF t
<1> HIDE DEF t
<1>4. SymbolState' = t
  BY <1>1, <1>3 DEF SymbolsBecome, SymbolState, Counted, t
<1>5. Held' = HeldIn(cell, bindings, {})
  <2>1. \A i : {x \in {} : bindings'[x] = i} = {x \in {} : bindings[x] = i}
    OBVIOUS
  <2>2. \A i : Tally(bindings', {}, i) = Tally(bindings, {}, i)
    BY <2>1 DEF Tally
  <2>3. HeldIn(cell, bindings', {}) = HeldIn(cell, bindings, {})
    BY <2>2 DEF HeldIn
  <2>4. Held' = HeldIn(cell, bindings', {})
    BY <1>2 DEF Held
  <2> QED BY <2>3, <2>4
<1>6. Counted(SymbolState, Held, allocator)'
  BY <1>2, <1>3, <1>4, <1>5
<1>7. (bindings \in [DOMAIN bindings -> Values])' /\ (DOMAIN bindings \subseteq Symbols)'
  BY <1>2
<1>8. (cell \in [Cells -> Values])' /\ Bound(SymbolState, bindings, defined)'
  BY <1>2 DEF SymbolsInv, Bound
<1> QED BY <1>6, <1>7, <1>8 DEF SymbolsInv

\* All symbols are in the table, and so forget their allocator.
LEMMA DropAllocatorStep ==
  ASSUME SymbolsInv, DropAllocator
  PROVE  SymbolsInv'
<1>1. /\ allocator = TRUE /\ allocator' = FALSE /\ table' = <<>>
      /\ cell' = cell /\ bindings' = bindings
  BY DEF DropAllocator, SymbolsInv, Counted
<1>2. Counted(SymbolState, Held, TRUE) /\ SymbolState.symbol = symbol /\ SymbolState.table = table
  BY <1>1 DEF SymbolsInv, SymbolState
<1>3. /\ DOMAIN symbol \subseteq Symbols /\ symbol \in [DOMAIN symbol -> SymbolType]
      /\ Held \in [Symbols -> Nat] /\ \A i \in Symbols : Held[i] > 0 <=> i \in DOMAIN symbol
      /\ \A i \in DOMAIN symbol : symbol[i].refCount = Held[i]
      /\ \A i \in DOMAIN symbol : \E n \in DOMAIN table : table[n] = i
  BY <1>2 DEF Counted
<1>4. symbol' = [i \in DOMAIN symbol |-> [symbol[i] EXCEPT !.owned = FALSE]]
  BY <1>3 DEF DropAllocator
<1>5. ASSUME NEW i \in DOMAIN symbol
      PROVE  /\ symbol'[i] \in SymbolType /\ symbol'[i].refCount = symbol[i].refCount
             /\ symbol'[i].owned = FALSE
  <2>1. symbol[i] \in SymbolType /\ symbol'[i] = [symbol[i] EXCEPT !.owned = FALSE]
    BY <1>3, <1>4
  <2> QED BY <2>1 DEF SymbolType
<1>6. DOMAIN symbol' = DOMAIN symbol /\ symbol' \in [DOMAIN symbol' -> SymbolType]
  BY <1>4, <1>5
<1>7. DOMAIN table' = {} /\ table' \in [DOMAIN table' -> Symbols]
  BY <1>1
<1>8. /\ SymbolState' = [symbol |-> symbol', table |-> table']
      /\ SymbolState'.symbol = symbol' /\ SymbolState'.table = table'
  BY DEF SymbolState
<1>9. Counted(SymbolState', Held, FALSE)
  BY <1>3, <1>5, <1>6, <1>7, <1>8 DEF Counted
<1>10. Held' = Held
  BY <1>1 DEF Held
<1> QED BY <1>1, <1>9, <1>10 DEF SymbolsInv

---------------------------------------------------------------------------
(* The theorems.                                                           *)

\* What the cells hold is there, every symbol counts the cells that hold it,
\* the table has the symbols while the allocator lives, and the bindings are
\* the definitions.
THEOREM SymbolsInvHolds == SymbolsSpec => []SymbolsInv
<1>1. SymbolsInv /\ [SymbolsNext]_symbolVars => SymbolsInv'
  <2> SUFFICES ASSUME SymbolsInv, [SymbolsNext]_symbolVars PROVE SymbolsInv'
    OBVIOUS
  <2>1. ASSUME NEW c \in Cells, Drop(c) PROVE SymbolsInv'
    BY <2>1, DropStep
  <2>2. ASSUME NEW c \in Cells, NEW d \in Cells, Copy(c, d) PROVE SymbolsInv'
    BY <2>2, CopyStep
  <2>3. ASSUME NEW c \in Cells, NEW d \in Cells, Move(c, d) PROVE SymbolsInv'
    BY <2>3, MoveStep
  <2>4. ASSUME NEW c \in Cells, NEW n \in Names, Make(c, n) PROVE SymbolsInv'
    BY <2>4, MakeStep
  <2>5. ASSUME NEW c \in Cells, NEW n \in Names, Define(n, c) PROVE SymbolsInv'
    BY <2>5, DefineStep
  <2>6. ASSUME NEW c \in Cells, NEW n \in Names, Find(c, n) PROVE SymbolsInv'
    BY <2>6, FindStep
  <2>7. CASE DropEnv
    BY <2>7, DropEnvStep
  <2>8. CASE DropAllocator
    BY <2>8, DropAllocatorStep
  <2>9. CASE UNCHANGED symbolVars
    BY <2>9 DEF SymbolsInv, Counted, Bound, Held, SymbolState, symbolVars
  <2> QED BY <2>1, <2>2, <2>3, <2>4, <2>5, <2>6, <2>7, <2>8, <2>9 DEF SymbolsNext
<1> QED BY SymbolsInvInit, <1>1, PTL DEF SymbolsSpec

THEOREM SymbolsTypeCorrect == SymbolsSpec => []SymbolsTypeOK
<1>1. SymbolsInv => SymbolsTypeOK
  <2> SUFFICES ASSUME SymbolsInv PROVE SymbolsTypeOK
    OBVIOUS
  <2>1. /\ DOMAIN symbol \subseteq Symbols /\ symbol \in [DOMAIN symbol -> SymbolType]
        /\ DOMAIN table \subseteq Names /\ table \in [DOMAIN table -> Symbols] /\ allocator \in BOOLEAN
    BY DEF SymbolsInv, Counted, SymbolState
  <2>2. Range(table) \subseteq Symbols
    BY <2>1 DEF Range
  <2> QED BY <2>1, <2>2 DEF SymbolsTypeOK, SymbolsInv, SymbolType, Values
<1> QED BY SymbolsInvHolds, <1>1, PTL

\* A symbol lives exactly as long as a cell, a key or a value holds it, and
\* its count is their number; the allocator's table has the living symbols
\* under their names.
THEOREM SymbolsAreCounted == SymbolsSpec => []SymbolsCounted
<1>1. SymbolsInv => SymbolsCounted
  <2> SUFFICES ASSUME SymbolsInv PROVE SymbolsCounted
    OBVIOUS
  <2>1. ASSUME NEW i \in Symbols PROVE Held[i] = Holders(i) /\ Held[i] \in Nat
    <3>1. Cardinality(DOMAIN bindings \cap {i}) = Key(i, DOMAIN bindings)
      <4>1. CASE i \in DOMAIN bindings
        <5>1. DOMAIN bindings \cap {i} = {i}
          BY <4>1
        <5> QED BY <4>1, <5>1, FS_Singleton DEF Key
      <4>2. CASE i \notin DOMAIN bindings
        <5>1. DOMAIN bindings \cap {i} = {}
          BY <4>2
        <5> QED BY <4>2, <5>1, FS_EmptySet DEF Key
      <4> QED BY <4>1, <4>2
    <3>2. {c \in Cells : cell[c] = i} = {c \in DOMAIN cell : cell[c] = i}
      BY DEF SymbolsInv
    <3>3. Held[i] \in Nat
      BY HeldIsAlive
    <3>4. Held[i] = HeldBy(cell, i) + Key(i, DOMAIN bindings) + Tally(bindings, DOMAIN bindings, i)
      BY DEF Held, HeldIn
    <3> QED BY <3>1, <3>2, <3>3, <3>4 DEF Holders, HeldBy, Tally
  <2>2. /\ DOMAIN symbol \subseteq Symbols
        /\ \A i \in Symbols : Held[i] > 0 <=> i \in DOMAIN symbol
        /\ \A i \in DOMAIN symbol : symbol[i].refCount = Held[i] /\ symbol[i].owned = allocator
        /\ \A n \in DOMAIN table : table[n] \in DOMAIN symbol /\ symbol[table[n]].name = n
        /\ allocator => \A i \in DOMAIN symbol :
                          symbol[i].name \in DOMAIN table /\ table[symbol[i].name] = i
    BY DEF SymbolsInv, Counted, SymbolState
  <2>3. \A i \in Symbols : IF i \in DOMAIN symbol THEN symbol[i].refCount = Holders(i) /\ Holders(i) > 0
                           ELSE Holders(i) = 0
    BY <2>1, <2>2
  <2> QED BY <2>2, <2>3 DEF SymbolsCounted
<1> QED BY SymbolsInvHolds, <1>1, PTL

\* What Env::find() gives for a name is what the name was last defined as,
\* through any sequence of calls.
THEOREM FindsWhatWasDefined == SymbolsSpec => []FoundAsDefined
<1>1. SymbolsInv => FoundAsDefined
  <2> SUFFICES ASSUME SymbolsInv, allocator, NEW n \in Names
               PROVE  (IF n \in DOMAIN table THEN Found(Interned(SymbolState, n)[2], table[n]) ELSE NoSymbol)
                        = IF n \in DOMAIN defined THEN defined[n] ELSE NoSymbol
    BY DEF FoundAsDefined
  <2>1. /\ \A m \in DOMAIN table : symbol[table[m]].name = m
        /\ \A i \in DOMAIN symbol : symbol[i].name \in DOMAIN table /\ table[symbol[i].name] = i
        /\ \A j \in DOMAIN bindings : j \in DOMAIN symbol
    BY HeldIsAlive DEF SymbolsInv, Counted, SymbolState
  <2>2. /\ \A j \in DOMAIN bindings : symbol[j].name \in DOMAIN defined
                                      /\ defined[symbol[j].name] = bindings[j]
        /\ \A m \in DOMAIN defined : \E j \in DOMAIN bindings : symbol[j].name = m
    BY DEF SymbolsInv, Bound, SymbolState
  <2>3. CASE n \in DOMAIN defined
    <3>1. PICK j \in DOMAIN bindings : symbol[j].name = n
      BY <2>2, <2>3
    <3>2. n \in DOMAIN table /\ table[n] = j /\ bindings[j] = defined[n]
      BY <2>1, <2>2, <3>1
    <3> QED BY <2>3, <3>2 DEF Found
  <2>4. CASE n \notin DOMAIN defined
    <3>1. n \in DOMAIN table => table[n] \notin DOMAIN bindings
      BY <2>1, <2>2, <2>4
    <3> QED BY <2>4, <3>1 DEF Found
  <2> QED BY <2>3, <2>4
<1> QED BY SymbolsInvHolds, <1>1, PTL
===========================================================================
