----------------------- MODULE ReachabilityTheorems -----------------------
(***************************************************************************)
(* Facts about Reach, for any heap, and about the recursive functions,     *)
(* parts of sequences and quotients that the other proofs use.             *)
(***************************************************************************)
EXTENDS Reachability, SequenceTheorems, WellFoundedInduction, TLAPS

\* The reachable objects hold the roots and are closed under "child of".
THEOREM ReachIsClosed ==
  ASSUME NEW D, NEW kids \in [D -> SUBSET D], NEW roots \in SUBSET D
  PROVE  /\ roots \subseteq Reach(roots, kids)
         /\ Reach(roots, kids) \subseteq D
         /\ \A x \in Reach(roots, kids) : kids[x] \subseteq Reach(roots, kids)
  BY DEF Reach, ClosedUnder

\* No closed set that holds the roots leaves a reachable object out.
THEOREM ReachIsLeast ==
  ASSUME NEW D, NEW kids \in [D -> SUBSET D], NEW roots, NEW L \in SUBSET D,
         roots \subseteq L, ClosedUnder(L, kids)
  PROVE  Reach(roots, kids) \subseteq L
  BY DEF Reach

\* What is reachable does not depend on the cells of objects outside a
\* closed set that holds the roots: a collector may clear those.
THEOREM ReachIgnoresOutside ==
  ASSUME NEW D, NEW k1 \in [D -> SUBSET D], NEW k2 \in [D -> SUBSET D],
         NEW roots, NEW L \in SUBSET D,
         roots \subseteq L, ClosedUnder(L, k1),
         \A x \in L : k1[x] = k2[x]
  PROVE  Reach(roots, k1) = Reach(roots, k2)
<1>1. ASSUME NEW a \in [D -> SUBSET D], NEW b \in [D -> SUBSET D],
             ClosedUnder(L, a), \A x \in L : a[x] = b[x]
      PROVE  Reach(roots, a) \subseteq Reach(roots, b)
  <2>1. SUFFICES ASSUME NEW o \in Reach(roots, a), NEW S \in SUBSET D,
                        roots \subseteq S, ClosedUnder(S, b)
                 PROVE  o \in S
    BY DEF Reach
  <2>2. roots \subseteq S \cap L /\ ClosedUnder(S \cap L, a)
    BY <1>1, <2>1 DEF ClosedUnder
  <2>3. o \in S \cap L
    BY <2>2, <1>1, ReachIsLeast
  <2> QED BY <2>3
<1>2. Reach(roots, k1) \subseteq Reach(roots, k2)
  BY <1>1
<1>3. ClosedUnder(L, k2)
  BY DEF ClosedUnder
<1>4. Reach(roots, k2) \subseteq Reach(roots, k1)
  BY <1>1, <1>3
<1> QED BY <1>2, <1>4
---------------------------------------------------------------------------
(* Induction over the naturals, said with a set and not with an operator   *)
(* that is a parameter, and what it yields: a recursive function on a      *)
(* bounded interval exists.                                                *)

Less == {x \in Nat \X Nat : x[1] < x[2]}

LEMMA LessIsWellFounded == IsWellFoundedOn(Less, Nat)
  BY NatLessThanWellFounded DEF OpToRel, Less

LEMMA NatSetInduction ==
  ASSUME NEW S, 0 \in S, \A n \in Nat : n \in S => n + 1 \in S
  PROVE  Nat \subseteq S
<1> SUFFICES ASSUME Nat \ S # {} PROVE FALSE
  OBVIOUS
<1>1. PICK x \in Nat \ S : \A y \in Nat \ S : ~(<<y, x>> \in Less)
  BY LessIsWellFounded, WFMin
<1>2. x # 0 /\ x \in Nat
  BY <1>1
<1>3. x - 1 \in Nat /\ x - 1 < x /\ x - 1 + 1 = x
  BY <1>2
<1>4. x - 1 \notin S
  BY <1>3, <1>1
<1>5. <<x - 1, x>> \in Less
  BY <1>3, <1>2 DEF Less
<1> QED BY <1>3, <1>4, <1>5, <1>1

\* The values of a loop of k turns that begins with x0; turn n takes x to
\* g[<<n, x>>].
Loop(f, X, x0, g, k) ==
  f \in [0 .. k -> X] /\ f[0] = x0 /\ \A n \in 1 .. k : f[n] = g[<<n, f[n - 1]>>]

LEMMA RecursionExists ==
  ASSUME NEW X, NEW x0 \in X, NEW k \in Nat, NEW g \in [(1 .. k) \X X -> X]
  PROVE  \E f : Loop(f, X, x0, g, k)
<1> DEFINE Upto(m) == \E f \in [0 .. m -> X] :
                        f[0] = x0 /\ \A n \in 1 .. m : f[n] = g[<<n, f[n - 1]>>]
           S == {m \in Nat : m <= k => Upto(m)}
<1>1. Upto(0)
  <2> DEFINE f == [n \in 0 .. 0 |-> x0]
  <2>1. f \in [0 .. 0 -> X] /\ f[0] = x0
    OBVIOUS
  <2>2. \A n \in 1 .. 0 : f[n] = g[<<n, f[n - 1]>>]
    OBVIOUS
  <2> HIDE DEF f
  <2> QED BY <2>1, <2>2
<1>2. ASSUME NEW m \in Nat, m + 1 <= k, Upto(m)
      PROVE  Upto(m + 1)
  <2>1. PICK f \in [0 .. m -> X] : f[0] = x0 /\ \A n \in 1 .. m : f[n] = g[<<n, f[n - 1]>>]
    BY <1>2
  <2> DEFINE h == [n \in 0 .. m + 1 |-> IF n = m + 1 THEN g[<<m + 1, f[m]>>] ELSE f[n]]
  <2>2. h \in [0 .. m + 1 -> X] /\ h[0] = x0
    <3>1. g[<<m + 1, f[m]>>] \in X
      <4>1. f[m] \in X /\ m + 1 \in 1 .. k
        BY <1>2, <2>1
      <4>2. <<m + 1, f[m]>> \in (1 .. k) \X X
        BY <4>1
      <4> QED BY <4>2
    <3>2. ASSUME NEW n \in 0 .. m + 1, n # m + 1
          PROVE  f[n] \in X
      BY <2>1, <3>2
    <3>3. \A n \in 0 .. m + 1 : h[n] \in X
      BY <3>1, <3>2
    <3>4. h[0] = x0
      BY <2>1
    <3> QED BY <3>3, <3>4
  <2>3. ASSUME NEW n \in 1 .. m + 1
        PROVE  h[n] = g[<<n, h[n - 1]>>]
    <3>1. CASE n = m + 1
      <4>1. n - 1 = m /\ n \in 0 .. m + 1 /\ m \in 0 .. m + 1 /\ m # m + 1
        BY <3>1
      <4>2. h[n] = g[<<m + 1, f[m]>>] /\ h[n - 1] = f[m]
        BY <3>1, <4>1
      <4> HIDE DEF h
      <4> QED BY <3>1, <4>2
    <3>2. CASE n # m + 1
      <4>1. n \in 1 .. m /\ n - 1 \in 0 .. m + 1 /\ n - 1 # m + 1 /\ n \in 0 .. m + 1
        BY <3>2
      <4>2. h[n] = f[n] /\ h[n - 1] = f[n - 1]
        BY <4>1, <3>2
      <4> HIDE DEF h
      <4> QED BY <2>1, <4>1, <4>2
    <3> QED BY <3>1, <3>2
  <2> QED BY <2>2, <2>3
<1>3. 0 \in S /\ \A n \in Nat : n \in S => n + 1 \in S
  <2> HIDE DEF Upto
  <2> QED BY <1>1, <1>2
<1>4. k \in S
  <2> HIDE DEF S, Upto
  <2> QED BY <1>3, NatSetInduction
<1> QED BY <1>4 DEF Loop

\* x0 followed by k steps of g.
Iterates(f, X, x0, g, k) ==
  f \in [0 .. k -> X] /\ f[0] = x0 /\ \A n \in 1 .. k : f[n] = g[f[n - 1]]

LEMMA IterationExists ==
  ASSUME NEW X, NEW x0 \in X, NEW g \in [X -> X], NEW k \in Nat
  PROVE  \E f : Iterates(f, X, x0, g, k)
<1> DEFINE t == [p \in (1 .. k) \X X |-> g[p[2]]]
<1>1. t \in [(1 .. k) \X X -> X]
  OBVIOUS
<1>2. \A n \in 1 .. k, x \in X : t[<<n, x>>] = g[x]
  OBVIOUS
<1> HIDE DEF t
<1>3. PICK f : Loop(f, X, x0, t, k)
  BY <1>1, RecursionExists
<1>4. ASSUME NEW n \in 1 .. k PROVE f[n] = g[f[n - 1]]
  <2>1. f[n - 1] \in X
    BY <1>3 DEF Loop
  <2> QED BY <1>2, <1>3, <2>1 DEF Loop
<1> QED BY <1>3, <1>4 DEF Iterates, Loop

---------------------------------------------------------------------------
\* The end of a sequence, and a sequence without it.
LEMMA AppendFacts ==
  ASSUME NEW T, NEW q \in Seq(T), NEW e \in T
  PROVE  /\ Append(q, e) \in Seq(T) /\ Append(q, e) # <<>> /\ Len(Append(q, e)) = Len(q) + 1
         /\ Append(q, e)[Len(q) + 1] = e /\ \A i \in 1 .. Len(q) : Append(q, e)[i] = q[i]
  OBVIOUS

LEMMA FrontFacts ==
  ASSUME NEW T, NEW q \in Seq(T), q # <<>>
  PROVE  /\ SubSeq(q, 1, Len(q) - 1) \in Seq(T) /\ Len(SubSeq(q, 1, Len(q) - 1)) = Len(q) - 1
         /\ \A i \in 1 .. Len(q) - 1 : SubSeq(q, 1, Len(q) - 1)[i] = q[i]
         /\ Len(q) \in Nat \ {0}
<1>1. Len(q) \in Nat \ {0} /\ \A i \in 1 .. Len(q) : q[i] \in T
  OBVIOUS
<1> DEFINE n == Len(q) - 1
<1>2. n \in Nat /\ \A i \in 1 .. n : q[i] \in T
  BY <1>1
<1>3. /\ SubSeq(q, 1, n) \in Seq(T)
      /\ Len(SubSeq(q, 1, n)) = IF 1 <= n THEN n - 1 + 1 ELSE 0
      /\ \A i \in 1 .. n - 1 + 1 : SubSeq(q, 1, n)[i] = q[1 + i - 1]
  <2>1. 1 \in Int /\ n \in Int
    BY <1>2
  <2> HIDE DEF n
  <2> QED BY <1>2, <2>1, SubSeqProperties
<1>4. Len(SubSeq(q, 1, n)) = n /\ \A i \in 1 .. n : SubSeq(q, 1, n)[i] = q[i]
  <2> HIDE DEF n
  <2>1. n - 1 + 1 = n /\ (1 <= n \/ n = 0)
    BY <1>2
  <2>2. ASSUME NEW i \in 1 .. n PROVE SubSeq(q, 1, n)[i] = q[i]
    <3>1. 1 + i - 1 = i /\ i \in 1 .. n - 1 + 1
      BY <1>2, <2>1
    <3> QED BY <3>1, <1>3
  <2> QED BY <1>2, <1>3, <2>1, <2>2
<1> QED BY <1>1, <1>3, <1>4

\* The two parts of a sequence before and from place i on.
LEMMA PrefixFacts ==
  ASSUME NEW T, NEW q \in Seq(T), NEW i \in 1 .. Len(q) + 1
  PROVE  /\ SubSeq(q, 1, i - 1) \in Seq(T) /\ Len(SubSeq(q, 1, i - 1)) = i - 1
         /\ \A j \in 1 .. i - 1 : SubSeq(q, 1, i - 1)[j] = q[j]
<1> DEFINE n == Len(q)  a == SubSeq(q, 1, i - 1)
<1>1. n \in Nat /\ i \in 1 .. n + 1 /\ \A j \in 1 .. n : q[j] \in T
  OBVIOUS
<1> HIDE DEF n
<1>2. 1 \in Int /\ i - 1 \in Int /\ \A j \in 1 .. i - 1 : q[j] \in T
  BY <1>1
<1>3. /\ a \in Seq(T) /\ Len(a) = IF 1 <= i - 1 THEN i - 1 - 1 + 1 ELSE 0
      /\ \A j \in 1 .. i - 1 - 1 + 1 : a[j] = q[1 + j - 1]
  BY <1>2, SubSeqProperties
<1>4. ASSUME NEW j \in 1 .. i - 1 PROVE a[j] = q[j]
  <2>1. j \in 1 .. i - 1 - 1 + 1 /\ 1 + j - 1 = j
    BY <1>1
  <2> QED BY <1>3, <2>1
<1> HIDE DEF a
<1>5. a \in Seq(T) /\ Len(a) = i - 1 /\ \A j \in 1 .. i - 1 : a[j] = q[j]
  BY <1>1, <1>3, <1>4
<1> QED BY <1>5 DEF a

LEMMA SuffixFacts ==
  ASSUME NEW T, NEW q \in Seq(T), NEW i \in 1 .. Len(q) + 1
  PROVE  /\ SubSeq(q, i, Len(q)) \in Seq(T) /\ Len(SubSeq(q, i, Len(q))) = Len(q) - i + 1
         /\ \A j \in 1 .. Len(q) - i + 1 : SubSeq(q, i, Len(q))[j] = q[i + j - 1]
<1> DEFINE n == Len(q)  c == SubSeq(q, i, n)
<1>1. n \in Nat /\ i \in 1 .. n + 1 /\ \A j \in 1 .. n : q[j] \in T
  OBVIOUS
<1> HIDE DEF n
<1>2. i \in Int /\ n \in Int /\ \A j \in i .. n : q[j] \in T
  BY <1>1
<1>3. /\ c \in Seq(T) /\ Len(c) = IF i <= n THEN n - i + 1 ELSE 0
      /\ \A j \in 1 .. n - i + 1 : c[j] = q[i + j - 1]
  BY <1>2, SubSeqProperties
<1> HIDE DEF c
<1>4. Len(c) = n - i + 1
  BY <1>1, <1>3
<1> QED BY <1>3, <1>4 DEF c, n

\* A sequence without its element i.
Cut(q, i) == SubSeq(q, 1, i - 1) \o SubSeq(q, i + 1, Len(q))

\* The places of a sequence r that is q without its element i.
Cuts(T, q, r, i) ==
  /\ r \in Seq(T) /\ Len(r) = Len(q) - 1
  /\ \A j \in 1 .. Len(q) - 1 : r[j] = IF j < i THEN q[j] ELSE q[j + 1]

LEMMA CutFacts ==
  ASSUME NEW T, NEW q \in Seq(T), NEW i \in 1 .. Len(q)
  PROVE  Cuts(T, q, Cut(q, i), i)
<1> DEFINE r == Cut(q, i)  n == Len(q)  a == SubSeq(q, 1, i - 1)  c == SubSeq(q, i + 1, n)
<1>1. n \in Nat /\ i \in 1 .. n /\ i \in 1 .. Len(q) + 1 /\ i + 1 \in 1 .. Len(q) + 1
  OBVIOUS
<1>2. a \in Seq(T) /\ Len(a) = i - 1 /\ \A j \in 1 .. i - 1 : a[j] = q[j]
  BY <1>1, PrefixFacts
<1>3. /\ c \in Seq(T) /\ Len(c) = n - (i + 1) + 1
      /\ \A j \in 1 .. n - (i + 1) + 1 : c[j] = q[i + 1 + j - 1]
  BY <1>1, SuffixFacts
<1>4. r = a \o c
  BY DEF Cut
<1> HIDE DEF a, c, n, r
<1>5. Len(c) = n - i /\ \A j \in 1 .. n - i : c[j] = q[i + j]
  <2>1. n - (i + 1) + 1 = n - i /\ \A j \in 1 .. n - i : i + 1 + j - 1 = i + j
    BY <1>1
  <2> QED BY <1>3, <2>1
<1>6. /\ a \o c \in Seq(T) /\ Len(a \o c) = Len(a) + Len(c)
      /\ \A j \in 1 .. Len(a) + Len(c) : (a \o c)[j] = IF j <= Len(a) THEN a[j] ELSE c[j - Len(a)]
  BY <1>2, <1>3, ConcatProperties
<1>7. Len(a) + Len(c) = n - 1
  BY <1>1, <1>2, <1>5
<1>8. ASSUME NEW j \in 1 .. n - 1 PROVE r[j] = IF j < i THEN q[j] ELSE q[j + 1]
  <2>1. CASE j < i
    <3>1. j \in 1 .. i - 1 /\ j <= Len(a) /\ j \in 1 .. Len(a) + Len(c)
      BY <1>1, <1>2, <1>7, <2>1
    <3> QED BY <1>2, <1>4, <1>6, <2>1, <3>1
  <2>2. CASE ~(j < i)
    <3>1. /\ ~(j <= Len(a)) /\ j \in 1 .. Len(a) + Len(c)
          /\ j - Len(a) \in 1 .. n - i /\ i + (j - Len(a)) = j + 1
      BY <1>1, <1>2, <1>7, <2>2
    <3> QED BY <1>4, <1>5, <1>6, <2>2, <3>1
  <2> QED BY <2>1, <2>2
<1> QED BY <1>4, <1>6, <1>7, <1>8 DEF n, r, Cuts

\* A sequence with another element at place i.
Put(q, i, e) == SubSeq(q, 1, i - 1) \o <<e>> \o SubSeq(q, i, Len(q))

\* The places of a sequence r that is q with an element e at place i.
Puts(T, q, r, i, e) ==
  /\ r \in Seq(T) /\ Len(r) = Len(q) + 1
  /\ r[i] = e /\ \A j \in 1 .. i - 1 : r[j] = q[j]
  /\ \A j \in i .. Len(q) : r[j + 1] = q[j]

LEMMA PutFacts ==
  ASSUME NEW T, NEW q \in Seq(T), NEW i \in 1 .. Len(q) + 1, NEW e \in T
  PROVE  Puts(T, q, Put(q, i, e), i, e)
<1> DEFINE r == Put(q, i, e)  n == Len(q)  a == SubSeq(q, 1, i - 1)  b == <<e>>  c == SubSeq(q, i, n)  d == a \o b
<1>1. n \in Nat /\ i \in 1 .. n + 1
  OBVIOUS
<1>2. a \in Seq(T) /\ Len(a) = i - 1 /\ \A j \in 1 .. i - 1 : a[j] = q[j]
  BY PrefixFacts
<1>3. /\ c \in Seq(T) /\ Len(c) = n - i + 1
      /\ \A j \in 1 .. n - i + 1 : c[j] = q[i + j - 1]
  BY SuffixFacts
<1>4. b \in Seq(T) /\ Len(b) = 1 /\ b[1] = e
  OBVIOUS
<1>5. r = d \o c
  BY DEF Put
<1> HIDE DEF a, b, c, n, r
<1>6. /\ d \in Seq(T) /\ Len(d) = Len(a) + Len(b)
      /\ \A j \in 1 .. Len(a) + Len(b) : d[j] = IF j <= Len(a) THEN a[j] ELSE b[j - Len(a)]
  BY <1>2, <1>4, ConcatProperties
<1> HIDE DEF d
<1>12. d \in Seq(T) /\ c \in Seq(T)
  BY <1>3, <1>6
<1>7. /\ d \o c \in Seq(T) /\ Len(d \o c) = Len(d) + Len(c)
      /\ \A j \in 1 .. Len(d) + Len(c) : (d \o c)[j] = IF j <= Len(d) THEN d[j] ELSE c[j - Len(d)]
  BY ONLY <1>12, ConcatProperties
<1>8. Len(d) = i /\ Len(d) + Len(c) = n + 1
  BY <1>1, <1>2, <1>3, <1>4, <1>6
<1>9. ASSUME NEW j \in 1 .. i - 1 PROVE r[j] = q[j]
  <2>1. j <= Len(a) /\ j <= Len(d) /\ j \in 1 .. Len(a) + Len(b) /\ j \in 1 .. Len(d) + Len(c)
    BY <1>1, <1>2, <1>4, <1>8
  <2> QED BY <1>2, <1>5, <1>6, <1>7, <2>1
<1>10. r[i] = e
  <2>1. ~(i <= Len(a)) /\ i - Len(a) = 1 /\ i <= Len(d)
        /\ i \in 1 .. Len(a) + Len(b) /\ i \in 1 .. Len(d) + Len(c)
    BY <1>1, <1>2, <1>4, <1>8
  <2> QED BY <1>4, <1>5, <1>6, <1>7, <2>1
<1>11. ASSUME NEW j \in i .. n PROVE r[j + 1] = q[j]
  <2> DEFINE k == (j + 1) - Len(d)
  <2>1. /\ ~(j + 1 <= Len(d)) /\ j + 1 \in 1 .. Len(d) + Len(c)
        /\ k \in 1 .. n - i + 1 /\ i + k - 1 = j
    BY <1>1, <1>8
  <2>2. r[j + 1] = c[k]
    BY <1>5, <1>7, <2>1
  <2> HIDE DEF k
  <2>3. c[k] = q[i + k - 1]
    BY <1>3, <2>1
  <2> QED BY <2>1, <2>2, <2>3
<1> QED BY <1>5, <1>7, <1>8, <1>9, <1>10, <1>11 DEF n, r, Puts

---------------------------------------------------------------------------
(* Division.                                                               *)

LEMMA Division ==
  ASSUME NEW n \in Int, NEW p \in Nat \ {0}
  PROVE  /\ n \div p \in Int /\ n % p \in 0 .. p - 1
         /\ n = p * (n \div p) + (n % p)
  OBVIOUS

LEMMA Multiples ==
  ASSUME NEW p \in Nat \ {0}, NEW a \in Int, NEW b \in Int, a < b
  PROVE  p * a \in Int /\ p * b \in Int /\ p * a + p <= p * b
<1>1. b - a - 1 \in Nat
  OBVIOUS
<1>2. \A x, y \in Nat : x * y \in Nat
  OBVIOUS
<1>3. p * (b - a - 1) \in Nat
  BY <1>1, <1>2
<1>4. p * (b - a - 1) = p * b - p * a - p
  OBVIOUS
<1> QED BY <1>3, <1>4

\* The quotient and the remainder are the only ones.
LEMMA Quotient ==
  ASSUME NEW p \in Nat \ {0}, NEW q \in Int, NEW r \in 0 .. p - 1
  PROVE  (p * q + r) \div p = q /\ (p * q + r) % p = r
<1> DEFINE n == p * q + r  a == n \div p  b == n % p
<1>1. p * q \in Int /\ n \in Int
  OBVIOUS
<1> HIDE DEF n
<1>2. a \in Int /\ b \in 0 .. p - 1 /\ n = p * a + b
  BY <1>1, Division
<1> HIDE DEF a, b
<1>3. p * a \in Int /\ p * a + b = p * q + r
  BY <1>2 DEF n
<1>4. ~(a < q)
  <2> SUFFICES ASSUME a < q PROVE FALSE
    OBVIOUS
  <2>1. p * a + p <= p * q
    BY <1>2, Multiples
  <2> QED BY <2>1, <1>1, <1>2, <1>3
<1>5. ~(q < a)
  <2> SUFFICES ASSUME q < a PROVE FALSE
    OBVIOUS
  <2>1. p * q + p <= p * a
    BY <1>2, Multiples
  <2> QED BY <2>1, <1>1, <1>2, <1>3
<1>6. a = q
  BY <1>2, <1>4, <1>5
<1>7. b = r
  BY <1>2, <1>3, <1>6
<1> QED BY <1>6, <1>7 DEF a, b, n
===========================================================================
