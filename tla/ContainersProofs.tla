-------------------------- MODULE ContainersProofs --------------------------
(***************************************************************************)
(* Proofs about Containers, for every finite set of objects: the members   *)
(* of an object always say where it is in the vectors (ContainersInv),     *)
(* which is what checkSanity() is there to tell, the numbers of the        *)
(* statistics are right, and the vectors move objects the way Allocator    *)
(* moves the elements of its sets.                                         *)
(***************************************************************************)
EXTENDS Containers, ReachabilityTheorems, FiniteSetTheorems

---------------------------------------------------------------------------
(* The vectors and what objects know of them.                              *)

States == [e : [Roles -> Seq(Objects)], c : [Objects -> Roles \cup {None}],
           i : [Objects -> Nat]]

\* The vectors hold exactly the objects of L, each where its members say.
Holds(s, L) ==
  /\ s \in States /\ L \subseteq Objects
  /\ \A r \in Roles : \A n \in 1 .. Len(s.e[r]) :
       s.e[r][n] \in L /\ s.c[s.e[r][n]] = r /\ s.i[s.e[r][n]] = n - 1
  /\ \A o \in L : /\ s.c[o] \in Roles /\ s.i[o] + 1 \in 1 .. Len(s.e[s.c[o]])
                  /\ s.e[s.c[o]][s.i[o] + 1] = o

\* remove(): the last element fills the gap, and its index is set right.
LEMMA RemovedHolds ==
  ASSUME NEW s, NEW L, Holds(s, L), NEW o \in L
  PROVE  Holds(Removed(s, o), L \ {o}) /\ Removed(s, o).c = s.c
<1> DEFINE c == s.c[o]  q == s.e[c]  n == s.i[o] + 1  k == Len(q)  last == q[k]
           p == [q EXCEPT ![n] = last]  r == SubSeq(p, 1, Len(p) - 1)  t == Removed(s, o)
           E == s.e  C == s.c  I == s.i  F == [E EXCEPT ![c] = r]  J == [I EXCEPT ![last] = I[o]]
<1>1. /\ s \in States /\ L \subseteq Objects
      /\ E \in [Roles -> Seq(Objects)] /\ C \in [Objects -> Roles \cup {None}] /\ I \in [Objects -> Nat]
      /\ \A a \in Roles : \A m \in 1 .. Len(E[a]) :
           E[a][m] \in L /\ C[E[a][m]] = a /\ I[E[a][m]] = m - 1
      /\ \A x \in L : C[x] \in Roles /\ I[x] + 1 \in 1 .. Len(E[C[x]]) /\ E[C[x]][I[x] + 1] = x
  BY DEF Holds, States
<1>2. t = [e |-> F, c |-> C, i |-> J]
  <2>1. t = [s EXCEPT !.e[c] = r, !.i[last] = s.i[o]]
    BY DEF Removed, Front, Last
  <2> HIDE DEF r, last, c
  <2> QED BY <2>1, <1>1 DEF States
<1>3. c = C[o] /\ q = E[c] /\ n = I[o] + 1 /\ k = Len(q) /\ last = q[k]
  OBVIOUS
<1>4. t.e = F /\ t.c = C /\ t.i = J /\ C = s.c
  <2> HIDE DEF t, F, C, J
  <2>1. t.e = F /\ t.c = C /\ t.i = J
    BY <1>2
  <2> QED BY <2>1 DEF C
<1> HIDE DEF t, C, I, E
<1>5. /\ c \in Roles /\ o \in Objects /\ q \in Seq(Objects) /\ k \in Nat \ {0} /\ n \in 1 .. k
      /\ q[n] = o /\ k \in 1 .. k /\ I[o] \in Nat
  <2> HIDE DEF c, q, n, k
  <2>1. c \in Roles /\ o \in Objects /\ q \in Seq(Objects) /\ I[o] \in Nat
    BY <1>1, <1>3
  <2>2. n \in 1 .. k /\ q[n] = o /\ k \in Nat
    BY <2>1, <1>1, <1>3
  <2> QED BY <2>1, <2>2
<1>6. last \in L /\ last \in Objects /\ C[last] = c /\ I[last] = k - 1
  <2> HIDE DEF c, q, k, last
  <2> QED BY <1>1, <1>3, <1>5
<1>7. /\ r \in Seq(Objects) /\ Len(r) = k - 1
      /\ \A m \in 1 .. k - 1 : r[m] = IF m = n THEN last ELSE q[m]
  <2> HIDE DEF q, k, n, last
  <2>1. /\ p \in Seq(Objects) /\ Len(p) = k /\ p # <<>>
        /\ \A m \in 1 .. k : p[m] = IF m = n THEN last ELSE q[m]
    <3>1. /\ p \in Seq(Objects) /\ Len(p) = k
          /\ \A m \in 1 .. k : p[m] = IF m = n THEN last ELSE q[m]
      BY <1>3, <1>5, <1>6
    <3> HIDE DEF p
    <3> QED BY <3>1, <1>5
  <2> HIDE DEF p
  <2>2. /\ r \in Seq(Objects) /\ Len(r) = Len(p) - 1
        /\ \A m \in 1 .. Len(p) - 1 : r[m] = p[m]
    BY <2>1, FrontFacts
  <2>3. \A m \in 1 .. k - 1 : m \in 1 .. k
    BY <1>5
  <2> QED BY <2>1, <2>2, <2>3
<1> HIDE DEF r, p, last, k, n, q, c
<1>8. /\ F \in [Roles -> Seq(Objects)] /\ J \in [Objects -> Nat]
      /\ \A a \in Roles : F[a] = IF a = c THEN r ELSE E[a]
      /\ \A x \in Objects : J[x] = IF x = last THEN I[o] ELSE I[x]
  BY <1>1, <1>5, <1>6, <1>7
<1> HIDE DEF F, J
<1>9. last = o <=> n = k
  BY <1>3, <1>5, <1>6
<1>14. \A m \in 1 .. k : q[m] \in L /\ C[q[m]] = c /\ I[q[m]] = m - 1
  BY <1>1, <1>3, <1>5
<1>10. ASSUME NEW a \in Roles, NEW m \in 1 .. Len(F[a])
       PROVE  F[a][m] \in L \ {o} /\ C[F[a][m]] = a /\ J[F[a][m]] = m - 1
  <2>1. CASE a # c
    <3>1. F[a] = E[a]
      BY <2>1, <1>8
    <3>2. E[a][m] \in L /\ C[E[a][m]] = a /\ I[E[a][m]] = m - 1
      BY <3>1, <1>1
    <3>3. E[a][m] # o /\ E[a][m] # last
      BY <3>2, <2>1, <1>3, <1>6
    <3> QED BY <3>1, <3>2, <3>3, <1>1, <1>8
  <2>2. CASE a = c
    <3>1. F[a] = r /\ m \in 1 .. k - 1 /\ m \in 1 .. k
      BY <2>2, <1>5, <1>7, <1>8
    <3>2. CASE m = n
      <4>1. n # k
        BY <3>1, <3>2, <1>5
      <4>2. F[a][m] = last /\ last # o
        BY <3>1, <3>2, <4>1, <1>7, <1>9
      <4>4. J[last] = I[o]
        BY <1>6, <1>8
      <4>3. J[last] = m - 1
        BY <4>4, <3>2, <1>3, <1>5
      <4> QED BY <2>2, <4>2, <4>3, <1>6
    <3>3. CASE m # n
      <4>1. F[a][m] = q[m] /\ q[m] \in L /\ C[q[m]] = c /\ I[q[m]] = m - 1
        BY <3>1, <3>3, <1>7, <1>14
      <4>2. q[m] # o /\ q[m] # last
        <5>1. m - 1 # n - 1 /\ m - 1 # k - 1
          BY <3>1, <3>3, <1>5
        <5>2. I[o] = n - 1 /\ I[last] = k - 1
          BY <1>3, <1>5, <1>6
        <5> QED BY <4>1, <5>1, <5>2
      <4>3. J[q[m]] = m - 1
        BY <4>1, <4>2, <1>1, <1>8
      <4>4. F[a][m] \in L \ {o}
        BY <4>1, <4>2
      <4>5. C[F[a][m]] = a /\ J[F[a][m]] = m - 1
        <5>1. F[a][m] = q[m] /\ C[q[m]] = a /\ J[q[m]] = m - 1
          BY <2>2, <4>1, <4>3
        <5> QED BY ONLY <5>1
      <4> QED BY <4>4, <4>5
    <3> QED BY <3>2, <3>3
  <2> QED BY <2>1, <2>2
<1>11. ASSUME NEW x \in L \ {o}
       PROVE  C[x] \in Roles /\ J[x] + 1 \in 1 .. Len(F[C[x]]) /\ F[C[x]][J[x] + 1] = x
  <2>1. /\ x \in Objects /\ C[x] \in Roles /\ I[x] \in Nat /\ I[x] + 1 \in 1 .. Len(E[C[x]])
        /\ E[C[x]][I[x] + 1] = x
    BY <1>1
  <2>2. CASE C[x] # c
    <3>1. x # last
      BY <2>2, <1>6
    <3>2. F[C[x]] = E[C[x]] /\ J[x] = I[x]
      BY <2>1, <2>2, <3>1, <1>8
    <3> QED BY <2>1, <3>2
  <2>3. CASE C[x] = c
    <3>1. F[c] = r
      BY <1>5, <1>8
    <3>2. CASE x = last
      <4>1. J[x] = I[o]
        BY <2>1, <3>2, <1>8
      <4>5. J[x] + 1 = n
        BY <4>1, <1>3
      <4>2. n \in 1 .. k - 1
        <5>1. n # k
          BY <3>2, <1>9
        <5> QED BY <5>1, <1>5
      <4>6. r[n] = last
        BY <4>2, <1>7
      <4>3. r[n] = x
        BY <3>2, <4>6
      <4> QED BY <2>1, <2>3, <3>1, <4>5, <4>2, <4>3, <1>7
    <3>3. CASE x # last
      <4> DEFINE m == I[x] + 1
      <4>1. m \in 1 .. k /\ q[m] = x
        BY <2>1, <2>3, <1>3
      <4>2. J[x] + 1 = m
        BY <2>1, <3>3, <1>8
      <4> HIDE DEF m
      <4>3. m # k /\ m # n
        BY <4>1, <3>3, <1>3, <1>5
      <4>4. m \in 1 .. k - 1 /\ r[m] = x
        BY <4>1, <4>3, <1>5, <1>7
      <4> QED BY <2>1, <2>3, <3>1, <4>2, <4>4, <1>7
    <3> QED BY <3>2, <3>3
  <2> QED BY <2>2, <2>3
<1>12. t \in States
  BY <1>1, <1>2, <1>8 DEF States
<1>13. Holds(t, L \ {o}) /\ t.c = C
  BY <1>1, <1>4, <1>10, <1>11, <1>12 DEF Holds
<1> QED BY <1>4, <1>13 DEF t

\* add(): the new object is the last element of its vector.
LEMMA AddedHolds ==
  ASSUME NEW s, NEW L, Holds(s, L), NEW o \in Objects \ L, NEW c \in Roles
  PROVE  Holds(Added(s, c, o), L \cup {o}) /\ Added(s, c, o).c = [s.c EXCEPT ![o] = c]
<1> DEFINE q == s.e[c]  k == Len(q)  r == Append(q, o)  t == Added(s, c, o)  E == s.e  C == s.c  I == s.i
           F == [E EXCEPT ![c] = r]  B == [C EXCEPT ![o] = c]  J == [I EXCEPT ![o] = k]
<1>1. /\ s \in States /\ L \subseteq Objects
      /\ E \in [Roles -> Seq(Objects)] /\ C \in [Objects -> Roles \cup {None}] /\ I \in [Objects -> Nat]
      /\ \A a \in Roles : \A m \in 1 .. Len(E[a]) :
           E[a][m] \in L /\ C[E[a][m]] = a /\ I[E[a][m]] = m - 1
      /\ \A x \in L : C[x] \in Roles /\ I[x] + 1 \in 1 .. Len(E[C[x]]) /\ E[C[x]][I[x] + 1] = x
  BY DEF Holds, States
<1>2. t = [e |-> F, c |-> B, i |-> J]
  <2>1. t = [s EXCEPT !.e[c] = r, !.i[o] = k, !.c[o] = c]
    BY DEF Added
  <2> HIDE DEF r, k
  <2> QED BY <2>1, <1>1 DEF States
<1>3. q = E[c] /\ k = Len(q) /\ C = s.c
  OBVIOUS
<1>4. t.e = F /\ t.c = B /\ t.i = J
  <2> HIDE DEF t, F, B, J
  <2> QED BY <1>2
<1> HIDE DEF t, C, I, E
<1>5. q \in Seq(Objects) /\ k \in Nat
  <2> HIDE DEF q, k
  <2>1. q \in Seq(Objects)
    BY <1>1, <1>3
  <2> QED BY <2>1, <1>3
<1>6. r \in Seq(Objects) /\ Len(r) = k + 1 /\ r[k + 1] = o /\ \A m \in 1 .. k : r[m] = q[m]
  <2> HIDE DEF q
  <2> QED BY <1>5, AppendFacts
<1> HIDE DEF r, k, q
<1>7. /\ F \in [Roles -> Seq(Objects)] /\ J \in [Objects -> Nat] /\ B \in [Objects -> Roles \cup {None}]
      /\ \A a \in Roles : F[a] = IF a = c THEN r ELSE E[a]
      /\ \A x \in Objects : J[x] = (IF x = o THEN k ELSE I[x]) /\ B[x] = (IF x = o THEN c ELSE C[x])
  BY <1>1, <1>5, <1>6
<1> HIDE DEF F, J, B
<1>12. \A m \in 1 .. k : q[m] \in L /\ C[q[m]] = c /\ I[q[m]] = m - 1
  BY <1>1, <1>3
<1>8. ASSUME NEW a \in Roles, NEW m \in 1 .. Len(F[a])
      PROVE  F[a][m] \in L \cup {o} /\ B[F[a][m]] = a /\ J[F[a][m]] = m - 1
  <2>1. CASE a # c
    <3>1. F[a] = E[a]
      BY <2>1, <1>7
    <3>2. E[a][m] \in L /\ C[E[a][m]] = a /\ I[E[a][m]] = m - 1
      BY <3>1, <1>1
    <3>3. E[a][m] # o /\ E[a][m] \in Objects
      BY <3>2, <1>1
    <3> QED BY <3>1, <3>2, <3>3, <1>7
  <2>2. CASE a = c
    <3>1. F[a] = r /\ m \in 1 .. k + 1
      BY <2>2, <1>6, <1>7
    <3>2. CASE m = k + 1
      <4>1. F[a][m] = o
        BY <3>1, <3>2, <1>6
      <4>2. B[o] = c /\ J[o] = k /\ k = m - 1
        <5>1. B[o] = c /\ J[o] = k
          BY <1>7
        <5> QED BY <5>1, <3>2, <1>5
      <4> QED BY <4>1, <4>2, <2>2
    <3>3. CASE m # k + 1
      <4>1. m \in 1 .. k
        BY <3>1, <3>3, <1>5
      <4>2. F[a][m] = q[m] /\ q[m] \in L /\ C[q[m]] = c /\ I[q[m]] = m - 1
        BY <3>1, <4>1, <1>6, <1>12
      <4>3. q[m] # o /\ q[m] \in Objects
        BY <4>2, <1>1
      <4> QED BY <2>2, <4>2, <4>3, <1>7
    <3> QED BY <3>2, <3>3
  <2> QED BY <2>1, <2>2
<1>9. ASSUME NEW x \in L \cup {o}
      PROVE  B[x] \in Roles /\ J[x] + 1 \in 1 .. Len(F[B[x]]) /\ F[B[x]][J[x] + 1] = x
  <2>1. CASE x = o
    <3>1. B[x] = c /\ J[x] = k /\ F[c] = r
      BY <2>1, <1>7
    <3> QED BY <2>1, <3>1, <1>5, <1>6
  <2>2. CASE x # o
    <3>1. /\ x \in L /\ x \in Objects /\ B[x] = C[x] /\ J[x] = I[x] /\ C[x] \in Roles
          /\ I[x] + 1 \in 1 .. Len(E[C[x]]) /\ E[C[x]][I[x] + 1] = x /\ I[x] \in Nat
      BY <2>2, <1>1, <1>7
    <3>2. CASE C[x] = c
      <4> DEFINE m == I[x] + 1
      <4>1. m \in 1 .. k /\ q[m] = x /\ F[c] = r
        BY <3>1, <3>2, <1>3, <1>7
      <4>2. J[x] + 1 = m
        BY <3>1
      <4> HIDE DEF m
      <4>3. m \in 1 .. k + 1 /\ r[m] = x
        BY <4>1, <1>5, <1>6
      <4> QED BY <3>1, <3>2, <4>1, <4>2, <4>3, <1>6
    <3>3. CASE C[x] # c
      <4>1. F[C[x]] = E[C[x]]
        BY <3>1, <3>3, <1>7
      <4> QED BY <3>1, <4>1
    <3> QED BY <3>2, <3>3
  <2> QED BY <2>1, <2>2
<1>10. t \in States
  BY <1>1, <1>2, <1>7 DEF States
<1>11. Holds(t, L \cup {o}) /\ t.c = B
  <2> DEFINE M == L \cup {o}
  <2>1. M \subseteq Objects
    BY <1>1
  <2>2. \A a \in Roles : \A m \in 1 .. Len(F[a]) : F[a][m] \in M /\ B[F[a][m]] = a /\ J[F[a][m]] = m - 1
    BY <1>8
  <2>3. \A x \in M : B[x] \in Roles /\ J[x] + 1 \in 1 .. Len(F[B[x]]) /\ F[B[x]][J[x] + 1] = x
    BY <1>9
  <2> HIDE DEF M
  <2>4. Holds(t, M)
    BY <1>4, <1>10, <2>1, <2>2, <2>3 DEF Holds
  <2> QED BY <1>4, <2>4 DEF M
<1> QED BY <1>3, <1>11 DEF t, B

\* move() is remove() and add().
LEMMA MovedHolds ==
  ASSUME NEW s, NEW L, Holds(s, L), NEW o \in L, NEW c \in Roles
  PROVE  Holds(Moved(s, o, c), L) /\ Moved(s, o, c).c = [s.c EXCEPT ![o] = c]
<1> DEFINE t == Removed(s, o)
<1>0. L \subseteq Objects
  BY DEF Holds
<1>1. Holds(t, L \ {o}) /\ t.c = s.c
  BY RemovedHolds
<1>2. Moved(s, o, c) = Added(t, c, o)
  BY DEF Moved
<1> HIDE DEF t
<1>3. o \in Objects \ (L \ {o})
  BY <1>0
<1>4. Holds(Added(t, c, o), (L \ {o}) \cup {o}) /\ Added(t, c, o).c = [t.c EXCEPT ![o] = c]
  BY <1>1, <1>3, AddedHolds
<1>5. (L \ {o}) \cup {o} = L
  OBVIOUS
<1> QED BY <1>1, <1>2, <1>4, <1>5

---------------------------------------------------------------------------
(* The two ways swap() sets the map, and the links.                        *)

Same == [r \in Roles |-> r]
Flip == [r \in Roles |-> CASE r = "white" -> "black" [] r = "black" -> "white"
                           [] r = "whiteRoot" -> "blackRoot" [] r = "blackRoot" -> "whiteRoot"
                           [] OTHER -> r]
MapsOf == {Same, Flip}

\* Either map is its own inverse, and a root container stays one.
LEMMA MapFacts ==
  ASSUME NEW m \in MapsOf
  PROVE  /\ m \in [Roles -> Roles]
         /\ \A r \in Roles : /\ m[m[r]] = r /\ (IsRoot(m[r]) <=> IsRoot(r))
                             /\ (CHOOSE q \in Roles : m[q] = r) = m[r]
         /\ m["grey"] = "grey" /\ m["greyRoot"] = "greyRoot"
<1>1. /\ m \in [Roles -> Roles]
      /\ \A r \in Roles : m[m[r]] = r /\ (IsRoot(m[r]) <=> IsRoot(r))
      /\ m["grey"] = "grey" /\ m["greyRoot"] = "greyRoot"
  BY DEF MapsOf, Same, Flip, Roles, IsRoot
<1>2. ASSUME NEW r \in Roles PROVE (CHOOSE q \in Roles : m[q] = r) = m[r]
  <2>1. \A q \in Roles : m[q] = r <=> q = m[r]
    BY <1>1
  <2>2. m[r] \in Roles
    BY <1>1
  <2> QED BY <2>1, <2>2
<1> QED BY <1>1, <1>2

\* swap() goes from one of the maps to the other.
LEMMA FlippedMap ==
  ASSUME NEW m \in MapsOf
  PROVE  [m EXCEPT !["white"] = m["black"], !["black"] = m["white"],
                   !["whiteRoot"] = m["blackRoot"], !["blackRoot"] = m["whiteRoot"]] \in MapsOf
<1> DEFINE f == [m EXCEPT !["white"] = m["black"], !["black"] = m["white"],
                   !["whiteRoot"] = m["blackRoot"], !["blackRoot"] = m["whiteRoot"]]
<1>1. CASE m = Same
  <2>1. f = Flip
    BY <1>1 DEF Same, Flip, Roles
  <2> QED BY <2>1 DEF MapsOf
<1>2. CASE m = Flip
  <2>1. f = Same
    BY <1>2 DEF Same, Flip, Roles
  <2> QED BY <2>1 DEF MapsOf
<1> QED BY <1>1, <1>2 DEF MapsOf

\* Where grey() and the root calls send an object of a role, None being nowhere.
GreyOf(r) == CASE r = "white" -> "grey" [] r = "whiteRoot" -> "greyRoot" [] OTHER -> None
OtherOf(r) == CASE r = "blackRoot" -> "black" [] r \in {"whiteRoot", "greyRoot"} -> "grey"
                [] OTHER -> "whiteRoot"
ColorOf(r) == CASE r \in {"white", "whiteRoot"} -> "White" [] r \in {"grey", "greyRoot"} -> "Grey"
                [] OTHER -> "Black"

\* Where the links of a container lead, by the role it has now.
LEMMA LinkFacts ==
  ASSUME NEW m \in MapsOf, NEW c \in Roles
  PROVE  /\ Links(m)[c].color = ColorOf(m[c])
         /\ Links(m)[c].other = m[OtherOf(m[c])] /\ m[OtherOf(m[c])] \in Roles
         /\ Links(m)[c].grey = GreyOf(m[c])
         /\ GreyOf(m[c]) # None => GreyOf(m[c]) \in Roles /\ m[GreyOf(m[c])] = GreyOf(m[c])
<1> DEFINE r == m[c]  b == CHOOSE q \in Roles : m[q] = c
<1>1. b = r /\ r \in Roles /\ m["grey"] = "grey" /\ m["greyRoot"] = "greyRoot"
      /\ \A q \in Roles : m[q] \in Roles
  BY MapFacts
<1>2. Links(m)[c] =
        [color |-> CASE b \in {"white", "whiteRoot"} -> "White"
                     [] b \in {"grey", "greyRoot"} -> "Grey" [] OTHER -> "Black",
         other |-> CASE b = "blackRoot" -> m["black"] [] b \in {"whiteRoot", "greyRoot"} -> m["grey"]
                     [] OTHER -> m["whiteRoot"],
         grey |-> CASE b = "white" -> m["grey"] [] b = "whiteRoot" -> m["greyRoot"] [] OTHER -> None]
  BY DEF Links
<1> HIDE DEF b, r
<1>3. Links(m)[c].color = ColorOf(r)
  BY <1>1, <1>2 DEF ColorOf
<1>4. Links(m)[c].other = m[OtherOf(r)]
  BY <1>1, <1>2 DEF OtherOf, Roles
<1>5. Links(m)[c].grey = GreyOf(r)
  BY <1>1, <1>2 DEF GreyOf, Roles
<1>6. OtherOf(r) \in Roles
  BY <1>1 DEF OtherOf, Roles
<1>7. GreyOf(r) # None => GreyOf(r) \in Roles /\ m[GreyOf(r)] = GreyOf(r)
  BY <1>1 DEF GreyOf, Roles, None
<1> QED BY <1>1, <1>3, <1>4, <1>5, <1>6, <1>7 DEF r

\* grey() of one object.
LEMMA GreyedOneHolds ==
  ASSUME map \in MapsOf, links = Links(map), NEW s, NEW L, Holds(s, L), NEW o \in L
  PROVE  /\ Holds(GreyedOne(s, o), L)
         /\ GreyedOne(s, o).c =
              IF GreyOf(map[s.c[o]]) = None THEN s.c ELSE [s.c EXCEPT ![o] = GreyOf(map[s.c[o]])]
<1> DEFINE g == GreyOf(map[s.c[o]])
<1>1. s.c[o] \in Roles
  BY DEF Holds
<1>2. links[s.c[o]].grey = g /\ (g # None => g \in Roles)
  BY <1>1, LinkFacts
<1> HIDE DEF g
<1>3. GreyedOne(s, o) = IF g = None THEN s ELSE Moved(s, o, g)
  BY <1>2 DEF GreyedOne
<1>4. CASE g = None
  BY <1>3, <1>4 DEF g
<1>5. CASE g # None
  <2>1. Holds(Moved(s, o, g), L) /\ Moved(s, o, g).c = [s.c EXCEPT ![o] = g]
    BY <1>2, <1>5, MovedHolds
  <2> QED BY <2>1, <1>3, <1>5 DEF g
<1> QED BY <1>4, <1>5

\* The objects of L go from the vectors s to t, greyed or as they are.
GreyedTo(s, t, L) ==
  /\ Holds(t, L)
  /\ \A x \in L : \/ t.c[x] = s.c[x]
                  \/ GreyOf(map[s.c[x]]) # None /\ t.c[x] = GreyOf(map[s.c[x]])
  /\ \A x \in Objects \ L : t.c[x] = s.c[x]

\* ... after others of the same call.
LEMMA GreyedOneMore ==
  ASSUME map \in MapsOf, links = Links(map), NEW s, NEW L, Holds(s, L), NEW o \in L,
         NEW t, GreyedTo(s, t, L)
  PROVE  GreyedTo(s, GreyedOne(t, o), L)
<1> DEFINE u == GreyedOne(t, o)  g == GreyOf(map[t.c[o]])
<1>1. Holds(t, L) /\ L \subseteq Objects /\ t.c \in [Objects -> Roles \cup {None}]
      /\ \A x \in L : s.c[x] \in Roles
  BY DEF GreyedTo, Holds, States
<1>2. Holds(u, L) /\ u.c = IF g = None THEN t.c ELSE [t.c EXCEPT ![o] = g]
  BY <1>1, GreyedOneHolds
<1>3. GreyOf("grey") = None /\ GreyOf("greyRoot") = None
      /\ \A r : GreyOf(r) \in {"grey", "greyRoot", None}
  BY DEF GreyOf, None
<1>4. map["grey"] = "grey" /\ map["greyRoot"] = "greyRoot"
  BY MapFacts
<1>5. /\ \A x \in L : \/ t.c[x] = s.c[x]
                      \/ GreyOf(map[s.c[x]]) # None /\ t.c[x] = GreyOf(map[s.c[x]])
      /\ \A x \in Objects \ L : t.c[x] = s.c[x]
  BY DEF GreyedTo
<1> DEFINE C == s.c  D == t.c  B == u.c
<1>6. g # None => D[o] = C[o]
  <2> SUFFICES ASSUME g # None, D[o] # C[o] PROVE FALSE
    OBVIOUS
  <2>1. D[o] = GreyOf(map[s.c[o]]) /\ D[o] # None
    BY <1>5
  <2>2. D[o] \in {"grey", "greyRoot"}
    BY <2>1, <1>3
  <2>3. GreyOf(map[D[o]]) = None
    BY <2>2, <1>3, <1>4
  <2> QED BY <2>3
<1> HIDE DEF u
<1>7. ASSUME NEW x \in Objects PROVE B[x] = IF x = o /\ g # None THEN g ELSE D[x]
  BY <1>1, <1>2
<1>8. o \in Objects
  BY <1>1
<1>9. g # None => g = GreyOf(map[C[o]])
  BY <1>6
<1> HIDE DEF g, B, C, D
<1>10. ASSUME NEW x \in L
       PROVE  B[x] = C[x] \/ (GreyOf(map[C[x]]) # None /\ B[x] = GreyOf(map[C[x]]))
  <2>1. x \in Objects
    BY <1>1
  <2>2. CASE x = o /\ g # None
    BY <2>1, <2>2, <1>7, <1>9
  <2>3. CASE ~(x = o /\ g # None)
    <3>1. B[x] = D[x]
      BY <2>1, <2>3, <1>7
    <3>2. D[x] = C[x] \/ (GreyOf(map[C[x]]) # None /\ D[x] = GreyOf(map[C[x]]))
      BY <1>5 DEF C, D
    <3> QED BY <3>1, <3>2
  <2> QED BY <2>2, <2>3
<1>11. ASSUME NEW x \in Objects \ L PROVE B[x] = C[x]
  <2>1. B[x] = D[x] /\ D[x] = C[x]
    BY <1>5, <1>7 DEF C, D
  <2> QED BY <2>1
<1>12. GreyedTo(s, u, L)
  BY <1>2, <1>10, <1>11 DEF GreyedTo, B, C
<1> QED BY <1>12 DEF u

\* The loop greys one after the other.
LEMMA GreyedHolds ==
  ASSUME map \in MapsOf, links = Links(map), NEW s, NEW L, Holds(s, L), NEW ks \in Seq(L)
  PROVE  GreyedTo(s, Greyed(s, ks), L)
<1> DEFINE k == Len(ks)
           T == {t \in States : GreyedTo(s, t, L)}
           g == [p \in (1 .. k) \X T |-> GreyedOne(p[2], ks[p[1]])]
           Swept(f) == f = [n \in 0 .. k |-> IF n = 0 THEN s ELSE GreyedOne(f[n - 1], ks[n])]
<1>1. k \in Nat /\ \A n \in 1 .. k : ks[n] \in L
  OBVIOUS
<1>2. s \in T
  BY DEF GreyedTo, Holds
<1>3. ASSUME NEW t \in T, NEW o \in L PROVE GreyedOne(t, o) \in T
  <2>1. GreyedTo(s, GreyedOne(t, o), L)
    BY GreyedOneMore
  <2> QED BY <2>1 DEF GreyedTo, Holds
<1> HIDE DEF T
<1>4. g \in [(1 .. k) \X T -> T]
  <2>1. ASSUME NEW p \in (1 .. k) \X T PROVE GreyedOne(p[2], ks[p[1]]) \in T
    <3>1. p[1] \in 1 .. k /\ p[2] \in T
      OBVIOUS
    <3> QED BY <3>1, <1>1, <1>3
  <2> QED BY <2>1
<1>5. \A n \in 1 .. k, t \in T : g[<<n, t>>] = GreyedOne(t, ks[n])
  OBVIOUS
<1>6. PICK f : Loop(f, T, s, g, k)
  <2> HIDE DEF g, k
  <2> QED BY <1>1, <1>2, <1>4, RecursionExists
<1>7. Swept(f)
  <2>1. f \in [0 .. k -> T] /\ f[0] = s /\ \A n \in 1 .. k : f[n] = g[<<n, f[n - 1]>>]
    BY <1>6 DEF Loop
  <2> HIDE DEF g, k
  <2>2. ASSUME NEW n \in 0 .. k
        PROVE  f[n] = IF n = 0 THEN s ELSE GreyedOne(f[n - 1], ks[n])
    <3>1. CASE n = 0
      BY <2>1, <3>1
    <3>2. CASE n # 0
      <4>1. n \in 1 .. k /\ n - 1 \in 0 .. k
        BY <1>1, <3>2
      <4>2. f[n - 1] \in T
        BY <2>1, <4>1
      <4> QED BY <2>1, <3>2, <4>1, <4>2, <1>5
    <3> QED BY <3>1, <3>2
  <2>3. f = [n \in 0 .. k |-> f[n]]
    BY <2>1
  <2> QED BY <2>2, <2>3
<1> DEFINE after == CHOOSE h : Swept(h)
<1>8. Swept(after)
  <2> HIDE DEF Swept
  <2> QED BY <1>7
<1>9. Greyed(s, ks) = after[k]
  BY DEF Greyed
<1>10. \A n \in 0 .. k : after[n] = IF n = 0 THEN s ELSE GreyedOne(after[n - 1], ks[n])
  <2> HIDE DEF after
  <2> QED BY <1>8
<1> HIDE DEF after, g, Swept, k
<1> DEFINE S == {n \in Nat : n <= k => after[n] \in T}
<1>11. 0 \in S
  BY <1>1, <1>2, <1>10
<1>12. ASSUME NEW n \in Nat, n \in S PROVE n + 1 \in S
  <2> SUFFICES ASSUME n + 1 <= k PROVE after[n + 1] \in T
    OBVIOUS
  <2>1. n + 1 \in 0 .. k /\ n + 1 \in 1 .. k /\ n + 1 # 0 /\ n + 1 - 1 = n /\ n <= k
    BY <1>1
  <2>2. after[n + 1] = GreyedOne(after[n], ks[n + 1])
    BY <1>10, <2>1
  <2>3. after[n] \in T /\ ks[n + 1] \in L
    BY <1>1, <1>12, <2>1
  <2> QED BY <1>3, <2>2, <2>3
<1>13. Nat \subseteq S
  <2> HIDE DEF S
  <2> QED BY <1>11, <1>12, NatSetInduction
<1>14. after[k] \in T
  BY <1>1, <1>13
<1> QED BY <1>9, <1>14 DEF T

\* The object o joins the vector c.
AddedTo(s, t, L, o, c) ==
  /\ Holds(t, L \cup {o})
  /\ \A x \in Objects : t.c[x] = IF x = o THEN c ELSE s.c[x]

\* add() of one object, in one word.
LEMMA AddedMember ==
  ASSUME NEW s, NEW L, Holds(s, L), NEW o \in Objects \ L, NEW c \in Roles
  PROVE  AddedTo(s, Added(s, c, o), L, o, c)
<1>1. Holds(Added(s, c, o), L \cup {o}) /\ Added(s, c, o).c = [s.c EXCEPT ![o] = c]
  BY AddedHolds
<1>2. s.c \in [Objects -> Roles \cup {None}]
  BY DEF Holds, States
<1> QED BY <1>1, <1>2 DEF AddedTo

\* A sequence without repetitions, and the elements of one.
Distinct(q) == \A i, j \in 1 .. Len(q) : q[i] = q[j] => i = j
Elements(q) == {q[i] : i \in 1 .. Len(q)}

\* The objects of S join the vector c.
AllAddedTo(s, t, L, S, c) ==
  /\ Holds(t, L \cup S)
  /\ \A x \in Objects : t.c[x] = IF x \in S THEN c ELSE s.c[x]

\* add() of each object of a sequence without repetitions.
LEMMA AddedAllHolds ==
  ASSUME NEW s, NEW L, Holds(s, L), NEW c \in Roles, NEW os \in Seq(Objects \ L), Distinct(os),
         NEW S, S = Elements(os)
  PROVE  AllAddedTo(s, AddedAll(s, c, os), L, S, c)
<1> DEFINE k == Len(os)
           g == [p \in (1 .. k) \X States |-> Added(p[2], c, os[p[1]])]
           Swept(f) == f = [n \in 0 .. k |-> IF n = 0 THEN s ELSE Added(f[n - 1], c, os[n])]
<1>1. k \in Nat /\ \A n \in 1 .. k : os[n] \in Objects \ L
  OBVIOUS
<1>2. s \in States
  BY DEF Holds
<1>3. ASSUME NEW t \in States, NEW o \in Objects PROVE Added(t, c, o) \in States
  <2> DEFINE q == t.e[c]  r == Append(q, o)  m == Len(q)
  <2>1. t.e \in [Roles -> Seq(Objects)] /\ q \in Seq(Objects) /\ t.i \in [Objects -> Nat]
        /\ t.c \in [Objects -> Roles \cup {None}]
    BY DEF States
  <2>2. r \in Seq(Objects) /\ m \in Nat
    BY <2>1, AppendFacts
  <2>3. Added(t, c, o) = [t EXCEPT !.e[c] = r, !.i[o] = m, !.c[o] = c]
    BY DEF Added
  <2> HIDE DEF q, r, m
  <2>4. Added(t, c, o) = [e |-> [t.e EXCEPT ![c] = r], c |-> [t.c EXCEPT ![o] = c],
                          i |-> [t.i EXCEPT ![o] = m]]
    BY <2>3 DEF States
  <2> QED BY <2>1, <2>2, <2>4 DEF States
<1>4. g \in [(1 .. k) \X States -> States]
  <2>1. ASSUME NEW p \in (1 .. k) \X States PROVE Added(p[2], c, os[p[1]]) \in States
    <3>1. p[1] \in 1 .. k /\ p[2] \in States
      OBVIOUS
    <3> QED BY <3>1, <1>1, <1>3
  <2> QED BY <2>1
<1>5. \A n \in 1 .. k, t \in States : g[<<n, t>>] = Added(t, c, os[n])
  OBVIOUS
<1>6. PICK f : Loop(f, States, s, g, k)
  <2> HIDE DEF g, k
  <2> QED BY <1>1, <1>2, <1>4, RecursionExists
<1>7. Swept(f)
  <2>1. f \in [0 .. k -> States] /\ f[0] = s /\ \A n \in 1 .. k : f[n] = g[<<n, f[n - 1]>>]
    BY <1>6 DEF Loop
  <2> HIDE DEF g, k
  <2>2. ASSUME NEW n \in 0 .. k
        PROVE  f[n] = IF n = 0 THEN s ELSE Added(f[n - 1], c, os[n])
    <3>1. CASE n = 0
      BY <2>1, <3>1
    <3>2. CASE n # 0
      <4>1. n \in 1 .. k /\ n - 1 \in 0 .. k
        BY <1>1, <3>2
      <4>2. f[n - 1] \in States
        BY <2>1, <4>1
      <4> QED BY <2>1, <3>2, <4>1, <4>2, <1>5
    <3> QED BY <3>1, <3>2
  <2>3. f = [n \in 0 .. k |-> f[n]]
    BY <2>1
  <2> QED BY <2>2, <2>3
<1> DEFINE after == CHOOSE h : Swept(h)
<1>8. Swept(after)
  <2> HIDE DEF Swept
  <2> QED BY <1>7
<1>9. AddedAll(s, c, os) = after[k]
  BY DEF AddedAll
<1>10. \A n \in 0 .. k : after[n] = IF n = 0 THEN s ELSE Added(after[n - 1], c, os[n])
  <2> HIDE DEF after
  <2> QED BY <1>8
<1>0. \A i, j \in 1 .. k : os[i] = os[j] => i = j
  BY DEF Distinct
<1> DEFINE First(n) == {os[i] : i \in 1 .. n}
           Done(n) == /\ Holds(after[n], L \cup First(n))
                      /\ \A x \in Objects : after[n].c[x] = IF x \in First(n) THEN c ELSE s.c[x]
           A == {n \in Nat : n <= k => Done(n)}
<1> HIDE DEF after, g, Swept, k
<1>11. 0 \in A
  <2>1. after[0] = s
    BY <1>1, <1>10
  <2>2. L \cup First(0) = L /\ First(0) = {}
    OBVIOUS
  <2> QED BY <2>1, <2>2
<1>12. ASSUME NEW n \in Nat, n \in A PROVE n + 1 \in A
  <2> SUFFICES ASSUME n + 1 <= k PROVE Done(n + 1)
    OBVIOUS
  <2> DEFINE o == os[n + 1]  F == First(n)  B == First(n + 1)  t == after[n]
  <2>1. n + 1 \in 0 .. k /\ n + 1 \in 1 .. k /\ n + 1 # 0 /\ n + 1 - 1 = n /\ n <= k
        /\ \A i \in 1 .. n : i \in 1 .. k /\ i # n + 1
    BY <1>1
  <2>2. after[n + 1] = Added(t, c, o)
    BY <1>10, <2>1
  <2>3. Holds(t, L \cup F) /\ \A x \in Objects : t.c[x] = IF x \in F THEN c ELSE s.c[x]
    BY <1>12, <2>1
  <2>4. o \in Objects \ L /\ o \notin F
    BY <1>0, <1>1, <2>1
  <2>5. B = F \cup {o}
    <3>1. \A i \in 1 .. n + 1 : i = n + 1 \/ i \in 1 .. n
      OBVIOUS
    <3>2. \A i \in 1 .. n : i \in 1 .. n + 1
      OBVIOUS
    <3>3. n + 1 \in 1 .. n + 1
      OBVIOUS
    <3> QED BY <3>1, <3>2, <3>3
  <2>6. Done(n + 1) <=> /\ Holds(after[n + 1], L \cup B)
                        /\ \A x \in Objects : after[n + 1].c[x] = IF x \in B THEN c ELSE s.c[x]
    OBVIOUS
  <2> HIDE DEF o, F, B, t, Done
  <2>7. o \in Objects \ (L \cup F) /\ (L \cup F) \cup {o} = L \cup B
    BY <2>4, <2>5
  <2>8. /\ Holds(Added(t, c, o), (L \cup F) \cup {o})
        /\ \A x \in Objects : Added(t, c, o).c[x] = IF x = o THEN c ELSE t.c[x]
    <3> DEFINE M == L \cup F
    <3>1. Holds(t, M) /\ o \in Objects \ M
      BY <2>3, <2>7
    <3> HIDE DEF M
    <3>2. AddedTo(t, Added(t, c, o), M, o, c)
      BY <3>1, AddedMember
    <3> QED BY <3>2 DEF M, AddedTo
  <2>10. ASSUME NEW x \in Objects PROVE after[n + 1].c[x] = IF x \in B THEN c ELSE s.c[x]
    BY <2>2, <2>3, <2>5, <2>8
  <2> QED BY <2>2, <2>6, <2>7, <2>8, <2>10
<1>13. Nat \subseteq A
  <2> HIDE DEF A
  <2> QED BY <1>11, <1>12, NatSetInduction
<1>14. Done(k)
  <2> HIDE DEF Done
  <2> QED BY <1>1, <1>13
<1>15. S = First(k)
  BY DEF Elements, k
<1>16. Holds(after[k], L \cup S) /\ \A x \in Objects : after[k].c[x] = IF x \in S THEN c ELSE s.c[x]
  BY <1>14, <1>15
<1> QED BY <1>9, <1>16 DEF AllAddedTo

---------------------------------------------------------------------------
(* What is disposed of.                                                    *)

\* A sequence without repetitions is as long as it has elements.
LEMMA DistinctCount ==
  ASSUME NEW T, NEW q \in Seq(T), Distinct(q)
  PROVE  IsFiniteSet(Elements(q)) /\ Cardinality(Elements(q)) = Len(q)
<1> DEFINE k == Len(q)  f == [i \in 1 .. k |-> q[i]]  S == Elements(q)
<1>1. k \in Nat
  OBVIOUS
<1>2. f \in Bijection(1 .. k, S)
  <2>1. f \in [1 .. k -> S]
    BY DEF Elements
  <2>2. IsInjective(f)
    BY DEF IsInjective, Distinct
  <2>3. \A x \in S : \E i \in 1 .. k : f[i] = x
    BY DEF Elements
  <2> HIDE DEF f, k, S
  <2> QED BY <2>1, <2>2, <2>3 DEF Bijection, Injection, Surjection
<1>3. ExistsBijection(1 .. k, S)
  BY <1>2 DEF ExistsBijection
<1> HIDE DEF S, k
<1>4. IsFiniteSet(S) /\ Cardinality(S) = k
  BY <1>1, <1>3, FS_NatBijection, FS_CountingElements
<1> QED BY <1>4 DEF S, k

Vectors == Seq(Objects) \ {<<>>}

\* The vectors of d hold an object once, and only the objects of S.
Once(d, S) ==
  /\ d \in Seq(Vectors)
  /\ \A i, j \in 1 .. Len(d) : \A m \in 1 .. Len(d[i]), n \in 1 .. Len(d[j]) :
       d[i][m] = d[j][n] => i = j /\ m = n
  /\ S = UNION {Elements(d[i]) : i \in 1 .. Len(d)}

LEMMA VectorFacts ==
  ASSUME NEW v \in Vectors
  PROVE  /\ Len(v) \in Nat \ {0} /\ v \in Seq(Objects) /\ v[Len(v)] \in Elements(v)
         /\ Elements(v) \subseteq Objects
<1>1. Len(v) \in Nat /\ v \in Seq(Objects) /\ v # <<>>
  BY DEF Vectors
<1>2. Len(v) # 0
  BY <1>1
<1>3. \A i \in 1 .. Len(v) : v[i] \in Objects
  BY <1>1
<1>4. Len(v) \in 1 .. Len(v)
  BY <1>1, <1>2
<1> QED BY <1>1, <1>2, <1>3, <1>4 DEF Elements

\* Nothing has been disposed of.
LEMMA NothingOnce == Once(<<>>, {})
<1>1. <<>> \in Seq(Vectors) /\ Len(<<>>) = 0 /\ 1 .. 0 = {}
  OBVIOUS
<1> QED BY <1>1 DEF Once

\* swap() moves a whole vector to the end of disposed.
LEMMA AppendOnce ==
  ASSUME NEW d, NEW S, Once(d, S), NEW v \in Vectors, Distinct(v), Elements(v) \cap S = {}
  PROVE  Once(Append(d, v), S \cup Elements(v))
<1> DEFINE r == Append(d, v)  k == Len(d)
<1>1. /\ d \in Seq(Vectors) /\ k \in Nat
      /\ \A i, j \in 1 .. k : \A m \in 1 .. Len(d[i]), n \in 1 .. Len(d[j]) :
           d[i][m] = d[j][n] => i = j /\ m = n
      /\ S = UNION {Elements(d[i]) : i \in 1 .. k}
  BY DEF Once
<1>2. r \in Seq(Vectors) /\ Len(r) = k + 1 /\ r[k + 1] = v /\ \A i \in 1 .. k : r[i] = d[i]
  BY <1>1, AppendFacts
<1> HIDE DEF r, k
<1>3. /\ \A i \in 1 .. k + 1 : i = k + 1 \/ i \in 1 .. k
      /\ \A i \in 1 .. k : i \in 1 .. k + 1
      /\ k + 1 \in 1 .. k + 1
  BY <1>1
<1>4. \A i \in 1 .. k : \A m \in 1 .. Len(d[i]) : d[i][m] \in S
  BY <1>1 DEF Elements
<1>5. \A i \in 1 .. k : \A m \in 1 .. Len(d[i]), n \in 1 .. Len(v) : d[i][m] # v[n]
  BY <1>4 DEF Elements
<1>6. ASSUME NEW i \in 1 .. k + 1, NEW j \in 1 .. k + 1,
             NEW m \in 1 .. Len(r[i]), NEW n \in 1 .. Len(r[j]), r[i][m] = r[j][n]
      PROVE  i = j /\ m = n
  <2>1. CASE i = k + 1 /\ j = k + 1
    <3>1. r[i] = v /\ r[j] = v
      BY <2>1, <1>2
    <3>2. m = n
      BY <3>1, <1>6 DEF Distinct
    <3> QED BY <3>2, <2>1
  <2>2. CASE i = k + 1 /\ j \in 1 .. k
    <3>1. r[i] = v /\ r[j] = d[j]
      BY <2>2, <1>2
    <3> QED BY <3>1, <2>2, <1>5, <1>6
  <2>3. CASE i \in 1 .. k /\ j = k + 1
    <3>1. r[j] = v /\ r[i] = d[i]
      BY <2>3, <1>2
    <3> QED BY <3>1, <2>3, <1>5, <1>6
  <2>4. CASE i \in 1 .. k /\ j \in 1 .. k
    <3>1. r[j] = d[j] /\ r[i] = d[i]
      BY <2>4, <1>2
    <3>2. m \in 1 .. Len(d[i]) /\ n \in 1 .. Len(d[j]) /\ d[i][m] = d[j][n]
      BY <1>6, <3>1
    <3> QED BY ONLY <1>1, <2>4, <3>2
  <2> QED BY <2>1, <2>2, <2>3, <2>4, <1>3
<1>7. S \cup Elements(v) = UNION {Elements(r[i]) : i \in 1 .. k + 1}
  <2>1. ASSUME NEW x \in S \cup Elements(v)
        PROVE  \E i \in 1 .. k + 1 : x \in Elements(r[i])
    <3>1. CASE x \in Elements(v)
      BY <3>1, <1>2, <1>3
    <3>2. CASE x \in S
      <4>1. PICK i \in 1 .. k : x \in Elements(d[i])
        BY <3>2, <1>1
      <4> QED BY <4>1, <1>2, <1>3
    <3> QED BY <3>1, <3>2
  <2>2. ASSUME NEW i \in 1 .. k + 1, NEW x \in Elements(r[i])
        PROVE  x \in S \cup Elements(v)
    <3>1. CASE i = k + 1
      BY <3>1, <1>2
    <3>2. CASE i \in 1 .. k
      BY <3>2, <1>1, <1>2
    <3> QED BY <3>1, <3>2, <1>3
  <2> QED BY <2>1, <2>2
<1>8. Once(r, S \cup Elements(v))
  BY <1>2, <1>6, <1>7 DEF Once
<1> QED BY <1>8 DEF r

\* The last vector of disposed is taken.
LEMMA FrontOnce ==
  ASSUME NEW d, NEW S, Once(d, S), d # <<>>
  PROVE  /\ Last(d) \in Vectors /\ Distinct(Last(d)) /\ Elements(Last(d)) \subseteq S
         /\ Once(Front(d), S \ Elements(Last(d)))
<1> DEFINE k == Len(d)  r == SubSeq(d, 1, k - 1)  v == d[k]
<1>0. Last(d) = v /\ Front(d) = r
  BY DEF Last, Front
<1>1. /\ d \in Seq(Vectors) /\ k \in Nat \ {0}
      /\ \A i, j \in 1 .. k : \A m \in 1 .. Len(d[i]), n \in 1 .. Len(d[j]) :
           d[i][m] = d[j][n] => i = j /\ m = n
      /\ S = UNION {Elements(d[i]) : i \in 1 .. k}
  <2>1. k # 0
    BY DEF Once
  <2> QED BY <2>1 DEF Once
<1>2. r \in Seq(Vectors) /\ Len(r) = k - 1 /\ \A i \in 1 .. k - 1 : r[i] = d[i]
  BY <1>1, FrontFacts
<1>3. v \in Vectors /\ k \in 1 .. k
  BY <1>1
<1>a. v = d[k]
  OBVIOUS
<1> HIDE DEF r, k, v
<1>4. Distinct(v) /\ Elements(v) \subseteq S
  <2>1. Distinct(v)
    BY <1>1, <1>3, <1>a DEF Distinct
  <2>2. Elements(v) \subseteq S
    BY <1>1, <1>3, <1>a
  <2> QED BY <2>1, <2>2
<1>5. /\ \A i \in 1 .. k : i = k \/ i \in 1 .. k - 1
      /\ \A i \in 1 .. k - 1 : i \in 1 .. k /\ i # k
  BY <1>1
<1>6. S \ Elements(v) = UNION {Elements(r[i]) : i \in 1 .. k - 1}
  <2>1. ASSUME NEW x \in S \ Elements(v)
        PROVE  \E i \in 1 .. k - 1 : x \in Elements(r[i])
    <3>1. PICK i \in 1 .. k : x \in Elements(d[i])
      BY <1>1
    <3>2. i # k
      BY <3>1, <1>a
    <3> QED BY <3>1, <3>2, <1>2, <1>5
  <2>2. ASSUME NEW i \in 1 .. k - 1, NEW x \in Elements(r[i])
        PROVE  x \in S \ Elements(v)
    <3>1. x \in Elements(d[i]) /\ i \in 1 .. k /\ i # k
      BY <1>2, <1>5
    <3>2. PICK m \in 1 .. Len(d[i]) : x = d[i][m]
      BY <3>1 DEF Elements
    <3>3. x \notin Elements(v)
      <4> SUFFICES ASSUME NEW n \in 1 .. Len(v), x = v[n] PROVE FALSE
        BY DEF Elements
      <4>1. i = k
        BY <3>1, <3>2, <1>1, <1>3, <1>a
      <4> QED BY <4>1, <3>1
    <3> QED BY <3>1, <3>3, <1>1
  <2> QED BY <2>1, <2>2
<1>7. ASSUME NEW i \in 1 .. k - 1, NEW j \in 1 .. k - 1,
             NEW m \in 1 .. Len(r[i]), NEW n \in 1 .. Len(r[j]), r[i][m] = r[j][n]
      PROVE  i = j /\ m = n
  <2>1. r[i] = d[i] /\ r[j] = d[j] /\ i \in 1 .. k /\ j \in 1 .. k
    BY <1>2, <1>5
  <2> QED BY <2>1, <1>1, <1>7
<1>8. Once(r, S \ Elements(v))
  BY <1>2, <1>6, <1>7 DEF Once
<1> QED BY <1>0, <1>3, <1>4, <1>8

\* A vector without its last element, for popBack().
LEMMA FrontVector ==
  ASSUME NEW v \in Vectors, Distinct(v)
  PROVE  /\ Len(v) = 1 => Elements(v) = {Last(v)}
         /\ Len(v) # 1 => /\ Front(v) \in Vectors /\ Distinct(Front(v))
                          /\ Elements(Front(v)) = Elements(v) \ {Last(v)}
         /\ Last(v) \in Elements(v)
<1> DEFINE k == Len(v)  r == SubSeq(v, 1, k - 1)  x == v[k]
<1>0. Last(v) = x /\ Front(v) = r
  BY DEF Last, Front
<1>1. v \in Seq(Objects) /\ v # <<>> /\ k \in Nat \ {0} /\ x \in Elements(v)
  BY VectorFacts DEF Vectors
<1>2. r \in Seq(Objects) /\ Len(r) = k - 1 /\ \A i \in 1 .. k - 1 : r[i] = v[i]
  BY <1>1, FrontFacts
<1>a. x = v[k] /\ k = Len(v)
  OBVIOUS
<1>b. \A i, j \in 1 .. k : v[i] = v[j] => i = j
  BY DEF Distinct
<1> HIDE DEF r, k, x
<1>3. /\ \A i \in 1 .. k : i = k \/ i \in 1 .. k - 1
      /\ \A i \in 1 .. k - 1 : i \in 1 .. k /\ i # k
      /\ k \in 1 .. k
  BY <1>1
<1>4. k = 1 => Elements(v) = {x}
  <2> SUFFICES ASSUME k = 1 PROVE Elements(v) = {x}
    OBVIOUS
  <2>1. \A i \in 1 .. k : i = k
    BY <1>3
  <2> QED BY <2>1, <1>1, <1>a DEF Elements
<1>5. k # 1 => r \in Vectors
  <2> SUFFICES ASSUME k # 1 PROVE r \in Vectors
    OBVIOUS
  <2>1. Len(r) # 0
    BY <1>1, <1>2
  <2>2. r # <<>>
    BY <2>1
  <2> QED BY <2>2, <1>2 DEF Vectors
<1>6. Distinct(r)
  BY <1>2, <1>3, <1>b DEF Distinct
<1>7. Elements(r) = Elements(v) \ {x}
  <2>1. ASSUME NEW y \in Elements(v), y # x PROVE y \in Elements(r)
    <3>1. PICK i \in 1 .. k : y = v[i]
      BY <1>a DEF Elements
    <3>2. i # k
      BY <2>1, <3>1, <1>a
    <3> QED BY <3>1, <3>2, <1>2, <1>3 DEF Elements
  <2>2. ASSUME NEW y \in Elements(r) PROVE y \in Elements(v) /\ y # x
    <3>1. PICK i \in 1 .. k - 1 : y = r[i]
      BY <1>2 DEF Elements
    <3>2. y = v[i] /\ i \in 1 .. k /\ i # k
      BY <3>1, <1>2, <1>3
    <3> QED BY <3>2, <1>3, <1>a, <1>b DEF Elements
  <2> QED BY <2>1, <2>2
<1> QED BY <1>0, <1>1, <1>4, <1>5, <1>6, <1>7, <1>a

\* The loop of numDisposed() adds up the lengths.
LEMMA DisposedCount ==
  ASSUME NEW S, Once(disposed, S)
  PROVE  IsFiniteSet(S) /\ numDisposed = Cardinality(S) /\ S \subseteq Objects
<1> DEFINE d == disposed  k == Len(d)
           g == [p \in (1 .. k) \X Nat |-> p[2] + Len(d[p[1]])]
           Swept(f) == f = [n \in 0 .. k |-> IF n = 0 THEN 0 ELSE f[n - 1] + Len(d[n])]
<1>1. /\ k \in Nat /\ \A n \in 1 .. k : d[n] \in Vectors /\ Len(d[n]) \in Nat
      /\ \A i, j \in 1 .. k : \A m \in 1 .. Len(d[i]), n \in 1 .. Len(d[j]) :
           d[i][m] = d[j][n] => i = j /\ m = n
      /\ S = UNION {Elements(d[i]) : i \in 1 .. k}
  <2>1. d \in Seq(Vectors)
    BY DEF Once
  <2>2. k \in Nat /\ \A n \in 1 .. k : d[n] \in Vectors
    BY <2>1
  <2>3. \A n \in 1 .. k : Len(d[n]) \in Nat
    BY <2>2, VectorFacts
  <2> QED BY <2>2, <2>3 DEF Once
<1>2. g \in [(1 .. k) \X Nat -> Nat]
  <2>1. ASSUME NEW p \in (1 .. k) \X Nat PROVE p[2] + Len(d[p[1]]) \in Nat
    <3>1. p[1] \in 1 .. k /\ p[2] \in Nat
      OBVIOUS
    <3> QED BY <3>1, <1>1
  <2> QED BY <2>1
<1>3. \A n \in 1 .. k, t \in Nat : g[<<n, t>>] = t + Len(d[n])
  OBVIOUS
<1>4. PICK f : Loop(f, Nat, 0, g, k)
  <2>1. 0 \in Nat
    OBVIOUS
  <2> HIDE DEF g, k
  <2> QED BY <1>1, <1>2, <2>1, RecursionExists
<1>5. Swept(f)
  <2>1. f \in [0 .. k -> Nat] /\ f[0] = 0 /\ \A n \in 1 .. k : f[n] = g[<<n, f[n - 1]>>]
    BY <1>4 DEF Loop
  <2> HIDE DEF g, k
  <2>2. ASSUME NEW n \in 0 .. k
        PROVE  f[n] = IF n = 0 THEN 0 ELSE f[n - 1] + Len(d[n])
    <3>1. CASE n = 0
      BY <2>1, <3>1
    <3>2. CASE n # 0
      <4>1. n \in 1 .. k /\ n - 1 \in 0 .. k
        BY <1>1, <3>2
      <4>2. f[n - 1] \in Nat
        BY <2>1, <4>1
      <4> QED BY <2>1, <3>2, <4>1, <4>2, <1>3
    <3> QED BY <3>1, <3>2
  <2>3. f = [n \in 0 .. k |-> f[n]]
    BY <2>1
  <2> QED BY <2>2, <2>3
<1> DEFINE sum == CHOOSE h : Swept(h)
<1>6. Swept(sum)
  <2> HIDE DEF Swept
  <2> QED BY <1>5
<1>7. numDisposed = sum[k]
  BY DEF numDisposed
<1>8. \A n \in 0 .. k : sum[n] = IF n = 0 THEN 0 ELSE sum[n - 1] + Len(d[n])
  <2> HIDE DEF sum
  <2> QED BY <1>6
<1> HIDE DEF sum, g, Swept, k, d
<1> DEFINE U(n) == UNION {Elements(d[i]) : i \in 1 .. n}
           Counted(n) == IsFiniteSet(U(n)) /\ sum[n] = Cardinality(U(n))
           A == {n \in Nat : n <= k => Counted(n)}
<1>9. 0 \in A
  <2>1. sum[0] = 0
    BY <1>1, <1>8
  <2>2. U(0) = {}
    OBVIOUS
  <2> QED BY <2>1, <2>2, FS_EmptySet
<1>10. ASSUME NEW n \in Nat, n \in A PROVE n + 1 \in A
  <2> SUFFICES ASSUME n + 1 <= k PROVE Counted(n + 1)
    OBVIOUS
  <2> DEFINE V == Elements(d[n + 1])
  <2>1. n + 1 \in 0 .. k /\ n + 1 \in 1 .. k /\ n + 1 # 0 /\ n + 1 - 1 = n /\ n <= k
        /\ \A i \in 1 .. n : i \in 1 .. k /\ i # n + 1
    BY <1>1
  <2>2. sum[n + 1] = sum[n] + Len(d[n + 1])
    BY <1>8, <2>1
  <2>3. IsFiniteSet(U(n)) /\ sum[n] = Cardinality(U(n))
    BY <1>10, <2>1
  <2>4. U(n + 1) = U(n) \cup V
    <3>1. \A i \in 1 .. n + 1 : i = n + 1 \/ i \in 1 .. n
      OBVIOUS
    <3>2. n + 1 \in 1 .. n + 1 /\ \A i \in 1 .. n : i \in 1 .. n + 1
      OBVIOUS
    <3> QED BY <3>1, <3>2
  <2>5. U(n) \cap V = {}
    <3> SUFFICES ASSUME NEW i \in 1 .. n, NEW x \in Elements(d[i]), x \in V PROVE FALSE
      OBVIOUS
    <3>1. PICK m \in 1 .. Len(d[i]) : x = d[i][m]
      BY DEF Elements
    <3>2. PICK j \in 1 .. Len(d[n + 1]) : x = d[n + 1][j]
      BY DEF Elements
    <3>3. i \in 1 .. k /\ n + 1 \in 1 .. k /\ d[i][m] = d[n + 1][j]
      BY <3>1, <3>2, <2>1
    <3>4. i = n + 1
      BY <3>3, <1>1
    <3> QED BY <3>4, <2>1
  <2>6. IsFiniteSet(V) /\ Cardinality(V) = Len(d[n + 1])
    <3> DEFINE v == d[n + 1]
    <3>1. v \in Seq(Objects) /\ Distinct(v)
      <4>1. v \in Seq(Objects)
        BY <1>1, <2>1 DEF Vectors
      <4>2. \A i, j \in 1 .. Len(v) : v[i] = v[j] => i = j
        BY <1>1, <2>1
      <4> QED BY <4>1, <4>2 DEF Distinct
    <3> HIDE DEF v
    <3>2. IsFiniteSet(Elements(v)) /\ Cardinality(Elements(v)) = Len(v)
      BY <3>1, DistinctCount
    <3> QED BY <3>2 DEF v
  <2> DEFINE W == U(n)  N == Len(d[n + 1])
  <2>7. /\ IsFiniteSet(W) /\ sum[n] = Cardinality(W) /\ W \cap V = {}
        /\ Counted(n + 1) <=> IsFiniteSet(W \cup V) /\ sum[n + 1] = Cardinality(W \cup V)
    BY <2>3, <2>4, <2>5
  <2> HIDE DEF U, V, W, Counted
  <2>8. /\ IsFiniteSet(W \cup V)
        /\ Cardinality(W \cup V) = Cardinality(W) + Cardinality(V) - Cardinality(W \cap V)
    BY <2>6, <2>7, FS_Union
  <2>9. Cardinality(W) \in Nat /\ Cardinality(V) \in Nat /\ Cardinality({}) = 0
    BY <2>6, <2>7, FS_CardinalityType, FS_EmptySet
  <2>10. Cardinality(W \cup V) = Cardinality(W) + Cardinality(V)
    <3>1. Cardinality(W \cap V) = 0
      BY <2>7, <2>9
    <3> DEFINE a == Cardinality(W)  b == Cardinality(V)  c == Cardinality(W \cup V)
               e == Cardinality(W \cap V)
    <3>2. a \in Nat /\ b \in Nat /\ e = 0 /\ c = a + b - e
      BY <3>1, <2>8, <2>9
    <3> HIDE DEF a, b, c, e
    <3>3. c = a + b
      BY <3>2
    <3> QED BY <3>3 DEF a, b, c
  <2> QED BY <2>2, <2>6, <2>7, <2>8, <2>10
<1>11. Nat \subseteq A
  <2> HIDE DEF A
  <2> QED BY <1>9, <1>10, NatSetInduction
<1>12. IsFiniteSet(S) /\ sum[k] = Cardinality(S)
  <2>1. Counted(k)
    <3> HIDE DEF Counted
    <3> QED BY <1>1, <1>11
  <2> QED BY <2>1, <1>1
<1>13. S \subseteq Objects
  BY <1>1, VectorFacts
<1> QED BY <1>7, <1>12, <1>13

---------------------------------------------------------------------------
(* The invariant.                                                          *)

Known == {o \in Objects : container[o] # None}
Held == Known \ Gone

ContainersInv ==
  /\ map \in MapsOf /\ links = Links(map)
  /\ Holds(State, Held)
  /\ Once(disposed, Gone) /\ Gone \subseteq Known
  /\ refCount \in [Objects -> Nat]
  /\ \A o \in Held : IsRoot(container[o]) => refCount[o] > 0

\* The objects disposed of are the elements of the vectors of disposed.
LEMMA GoneIs ==
  ASSUME disposed \in Seq(Vectors)
  PROVE  Gone = UNION {Elements(disposed[i]) : i \in 1 .. Len(disposed)}
<1>1. /\ DOMAIN disposed = 1 .. Len(disposed)
      /\ \A i \in 1 .. Len(disposed) : disposed[i] \in Seq(Objects)
  BY DEF Vectors
<1>2. \A i \in 1 .. Len(disposed) : ToSet(disposed[i]) = Elements(disposed[i])
  BY <1>1 DEF ToSet, Elements
<1> QED BY <1>1, <1>2 DEF Gone

\* What the vectors list is what is known and not disposed of.
VectorsOK ==
  /\ Listed = Held /\ Free = Objects \ Known
  /\ \A r \in Roles : ToSet(elements[r]) = {o \in Held : container[o] = r}
  /\ \A r \in Roles : elements[r] \in Seq(Objects) /\ Distinct(elements[r])
                      /\ ToSet(elements[r]) = Elements(elements[r])
  /\ \A o \in Held : /\ container[o] \in Roles
                     /\ index[o] + 1 \in 1 .. Len(elements[container[o]])
                     /\ elements[container[o]][index[o] + 1] = o
  /\ \A o \in Objects : container[o] \in Roles \cup {None} /\ index[o] \in Nat

\* The invariant, said of the vectors one by one.
LEMMA ListedIsHeld == ContainersInv => VectorsOK
<1> SUFFICES ASSUME ContainersInv PROVE VectorsOK
  OBVIOUS
<1>1. State.e = elements /\ State.c = container /\ State.i = index
  BY DEF State
<1> DEFINE s == State
<1>2. /\ s \in States /\ Held \subseteq Objects
      /\ \A r \in Roles : \A n \in 1 .. Len(s.e[r]) :
           s.e[r][n] \in Held /\ s.c[s.e[r][n]] = r /\ s.i[s.e[r][n]] = n - 1
      /\ \A o \in Held : /\ s.c[o] \in Roles /\ s.i[o] + 1 \in 1 .. Len(s.e[s.c[o]])
                         /\ s.e[s.c[o]][s.i[o] + 1] = o
  <2>1. Holds(s, Held)
    BY DEF ContainersInv
  <2> HIDE DEF s
  <2> QED BY <2>1 DEF Holds
<1> HIDE DEF s
<1>3. /\ elements \in [Roles -> Seq(Objects)] /\ container \in [Objects -> Roles \cup {None}]
      /\ index \in [Objects -> Nat]
      /\ \A r \in Roles : \A n \in 1 .. Len(elements[r]) :
           elements[r][n] \in Held /\ container[elements[r][n]] = r /\ index[elements[r][n]] = n - 1
      /\ \A o \in Held : /\ container[o] \in Roles /\ index[o] + 1 \in 1 .. Len(elements[container[o]])
                         /\ elements[container[o]][index[o] + 1] = o
  <2>1. s.e = elements /\ s.c = container /\ s.i = index
    BY <1>1 DEF s
  <2> QED BY <1>2, <2>1 DEF States
<1>4. ASSUME NEW r \in Roles
      PROVE  /\ ToSet(elements[r]) = {o \in Held : container[o] = r}
             /\ elements[r] \in Seq(Objects) /\ Distinct(elements[r])
             /\ ToSet(elements[r]) = Elements(elements[r])
  <2> DEFINE q == elements[r]
  <2>1. q \in Seq(Objects) /\ DOMAIN q = 1 .. Len(q) /\ Len(q) \in Nat
    BY <1>3
  <2>2. \A n \in 1 .. Len(q) : q[n] \in Held /\ container[q[n]] = r /\ index[q[n]] = n - 1
    BY <1>3
  <2>3. \A o \in Held : container[o] = r => index[o] + 1 \in 1 .. Len(q) /\ q[index[o] + 1] = o
    BY <1>3
  <2> HIDE DEF q
  <2>4. ToSet(q) = Elements(q)
    BY <2>1 DEF ToSet, Elements
  <2>5. Elements(q) = {o \in Held : container[o] = r}
    BY <2>2, <2>3 DEF Elements
  <2>6. Distinct(q)
    <3> SUFFICES ASSUME NEW i \in 1 .. Len(q), NEW j \in 1 .. Len(q), q[i] = q[j] PROVE i = j
      BY DEF Distinct
    <3>1. index[q[i]] = i - 1 /\ index[q[j]] = j - 1
      BY <2>2
    <3>2. i - 1 = j - 1
      BY <3>1
    <3> QED BY <3>2, <2>1
  <2> QED BY <2>1, <2>4, <2>5, <2>6 DEF q
<1>5. Listed = Held
  <2>1. Listed = UNION {ToSet(elements[c]) : c \in Roles}
    BY DEF Listed
  <2>2. \A o \in Held : container[o] \in Roles
    BY <1>3
  <2> QED BY <2>1, <2>2, <1>4
<1>6. Free = Objects \ Known
  BY <1>5 DEF Free, Held, ContainersInv, Known
<1> QED BY <1>3, <1>4, <1>5, <1>6 DEF VectorsOK

\* At first there is nothing in any container.
LEMMA InitContainersInv == ContainersInit => ContainersInv
<1> SUFFICES ASSUME ContainersInit PROVE ContainersInv
  OBVIOUS
<1>1. /\ map = Same /\ links = Links(map) /\ disposed = <<>>
      /\ elements = [r \in Roles |-> <<>>] /\ container = [o \in Objects |-> None]
      /\ index = [o \in Objects |-> 0] /\ refCount = [o \in Objects |-> 0]
  BY DEF ContainersInit, Same
<1>2. Gone = {} /\ Known = {} /\ Held = {}
  <2>1. DOMAIN disposed = {}
    BY <1>1
  <2>2. Gone = {}
    BY <2>1 DEF Gone
  <2>3. Known = {}
    BY <1>1 DEF Known
  <2> QED BY <2>2, <2>3 DEF Held
<1>3. Holds(State, {})
  <2> DEFINE s == State
  <2>1. s.e = elements /\ s.c = container /\ s.i = index /\ s = [e |-> elements, c |-> container, i |-> index]
    BY DEF State
  <2>2. None \in Roles \cup {None} /\ <<>> \in Seq(Objects) /\ Len(<<>>) = 0 /\ 0 \in Nat
    OBVIOUS
  <2>3. elements \in [Roles -> Seq(Objects)] /\ container \in [Objects -> Roles \cup {None}]
        /\ index \in [Objects -> Nat]
    BY <1>1, <2>2
  <2>4. s \in States
    BY <2>1, <2>3 DEF States
  <2>5. \A r \in Roles : Len(elements[r]) = 0
    BY <1>1, <2>2
  <2> HIDE DEF s
  <2> QED BY <2>1, <2>4, <2>5 DEF Holds, s
<1>4. Once(disposed, {})
  BY <1>1, NothingOnce
<1>5. refCount \in [Objects -> Nat] /\ map \in MapsOf
  BY <1>1 DEF MapsOf
<1> QED BY <1>1, <1>2, <1>3, <1>4, <1>5 DEF ContainersInv

\* No role is None.
LEMMA RolesAreSome ==
  ASSUME NEW r \in Roles
  PROVE  r # None
  BY DEF Roles, None

\* The objects of L are held now, and only those have moved.
LEMMA MovesKeepInv ==
  ASSUME ContainersInv, NEW t, Becomes(t), NEW L, Holds(t, L),
         UNCHANGED <<map, links, disposed>>,
         Held \subseteq L, L \cap Gone = {}, \A x \in Objects \ L : t.c[x] = container[x],
         refCount' \in [Objects -> Nat], \A x \in L : IsRoot(t.c[x]) => refCount'[x] > 0
  PROVE  ContainersInv' /\ Held' = L
<1>1. /\ t \in States /\ L \subseteq Objects /\ \A x \in L : t.c[x] \in Roles
  BY DEF Holds
<1>2. elements' = t.e /\ container' = t.c /\ index' = t.i
  BY DEF Becomes
<1>3. State' = t
  BY <1>1, <1>2 DEF State, States
<1>4. Gone' = Gone /\ Once(disposed, Gone) /\ Gone \subseteq Known /\ map \in MapsOf /\ links = Links(map)
  BY DEF Gone, ContainersInv
<1>5. Known = {x \in Objects : container[x] # None} /\ Known' = {x \in Objects : t.c[x] # None}
  BY <1>2 DEF Known
<1>6. Held = Known \ Gone /\ Held' = Known' \ Gone
  BY <1>4 DEF Held
<1>7. \A x \in L : t.c[x] # None
  BY <1>1, RolesAreSome
<1> DEFINE C == t.c
<1> HIDE DEF C
<1>8. Held' = L
  <2>1. ASSUME NEW x \in L PROVE x \in Held'
    BY <2>1, <1>1, <1>5, <1>6, <1>7
  <2>2. ASSUME NEW x \in Held', x \notin L PROVE FALSE
    <3>1. x \in Objects /\ t.c[x] # None /\ x \notin Gone /\ t.c[x] = container[x]
      BY <2>2, <1>5, <1>6
    <3> QED BY <3>1, <2>2, <1>5, <1>6
  <2> QED BY <2>1, <2>2
<1>9. Gone \subseteq Known'
  <2> SUFFICES ASSUME NEW x \in Gone PROVE x \in Known'
    OBVIOUS
  <2>1. x \in Objects /\ container[x] # None /\ x \notin L
    BY <1>4, <1>5
  <2> QED BY <2>1, <1>5
<1>10. \A x \in Held' : IsRoot(container'[x]) => refCount'[x] > 0
  BY <1>2, <1>8
<1>11. Holds(State', Held')
  BY <1>3, <1>8
<1>12. Once(disposed', Gone') /\ Gone' \subseteq Known' /\ map' \in MapsOf /\ links' = Links(map')
  BY <1>4, <1>9
<1> QED BY <1>8, <1>10, <1>11, <1>12 DEF ContainersInv

---------------------------------------------------------------------------
(* What the calls do to the places.                                        *)

\* The ways an object goes between two swaps.
OneWay(p, q) ==
  \/ q \in {p, Sets!GreyElements(p), Sets!OtherElements(p)}
  \/ q = Sets!Scanned(p) /\ p # "white"
  \/ p \in {"void", "disposed"} /\ q \in {"white", "whiteRoot", "void"}

\* Each of the moves of an object of role p is one of the ways.
LEMMA Ways ==
  ASSUME NEW p \in Roles
  PROVE  /\ OneWay(p, p) /\ OneWay(p, OtherOf(p)) /\ OtherOf(p) \in Roles
         /\ GreyOf(p) # None => OneWay(p, GreyOf(p)) /\ (IsRoot(GreyOf(p)) <=> IsRoot(p))
         /\ IsRoot(OtherOf(p)) <=> ~IsRoot(p)
         /\ p # "white" => OneWay(p, IF IsRoot(p) THEN "blackRoot" ELSE "black")
<1>1. GreyOf(p) # None => GreyOf(p) = Sets!GreyElements(p) /\ (IsRoot(GreyOf(p)) <=> IsRoot(p))
  BY DEF GreyOf, IsRoot, Roles, None, Sets!GreyElements
<1>2. OtherOf(p) = Sets!OtherElements(p) /\ (IsRoot(OtherOf(p)) <=> ~IsRoot(p)) /\ OtherOf(p) \in Roles
  BY DEF OtherOf, IsRoot, Roles, Sets!OtherElements, Sets!RootPlaces, Sets!BulkPlaces
<1>3. Sets!Scanned(p) = IF IsRoot(p) THEN "blackRoot" ELSE "black"
  BY DEF IsRoot, Sets!Scanned, Sets!RootPlaces
<1> QED BY <1>1, <1>2, <1>3 DEF OneWay

\* No swap: what is held goes one of the ways, and what is new is white.
Moves ==
  /\ map' = map /\ Held \subseteq Held' /\ Gone' \subseteq Gone
  /\ \A x \in Held : OneWay(map[container[x]], map[container'[x]])
  /\ \A x \in Held' \ Held : x \notin Gone /\ map[container'[x]] \in {"white", "whiteRoot"}

\* What happens to the objects held when the vectors become t.
LEMMA HeldMove ==
  ASSUME ContainersInv, NEW t, Becomes(t), Holds(t, Held), UNCHANGED <<map, links, disposed>>,
         \A x \in Objects \ Held : t.c[x] = container[x],
         \A x \in Held : OneWay(map[container[x]], map[t.c[x]]),
         refCount' \in [Objects -> Nat], \A x \in Held : IsRoot(t.c[x]) => refCount'[x] > 0
  PROVE  ContainersInv' /\ Moves
<1>1. ContainersInv' /\ Held' = Held
  <2> DEFINE L == Held
  <2>1. Holds(t, L) /\ Held \subseteq L /\ L \cap Gone = {} /\ (\A x \in Objects \ L : t.c[x] = container[x])
        /\ \A x \in L : IsRoot(t.c[x]) => refCount'[x] > 0
    BY DEF Held
  <2> HIDE DEF L
  <2>2. ContainersInv' /\ Held' = L
    BY <2>1, MovesKeepInv
  <2> QED BY <2>2 DEF L
<1>2. Gone' = Gone
  BY DEF Gone
<1>3. container' = t.c
  BY DEF Becomes
<1> QED BY <1>1, <1>2, <1>3 DEF Moves

\* What the proofs of the steps need of the invariant.
LEMMA HeldFacts ==
  ASSUME ContainersInv
  PROVE  /\ map \in MapsOf /\ links = Links(map) /\ Holds(State, Held) /\ State.c = container
         /\ State.e = elements /\ State.i = index
         /\ refCount \in [Objects -> Nat] /\ \A o \in Held : IsRoot(container[o]) => refCount[o] > 0
         /\ Held \subseteq Objects /\ Listed = Held /\ Free = Objects \ Known /\ Held \subseteq Known
         /\ Gone \subseteq Known
         /\ \A o \in Held : container[o] \in Roles /\ map[container[o]] \in Roles
<1>1. VectorsOK
  BY ListedIsHeld
<1>2. map \in [Roles -> Roles]
  BY MapFacts DEF ContainersInv
<1>3. \A o \in Held : container[o] \in Roles
  BY <1>1 DEF VectorsOK
<1>4. Held \subseteq Objects
  BY DEF Held, Known
<1>5. State.c = container /\ State.e = elements /\ State.i = index
  BY DEF State
<1> QED BY <1>1, <1>2, <1>3, <1>4, <1>5 DEF ContainersInv, VectorsOK, Held

\* ColorMap::add() and addRoot().
LEMMA AddKeepsInv ==
  ASSUME ContainersInv, NEW o \in Objects, NEW r \in {"white", "whiteRoot"}, Add(o, r)
  PROVE  ContainersInv' /\ Moves
<1> DEFINE t == Added(State, map[r], o)  L == Held \cup {o}
<1>1. Becomes(t) /\ refCount' = [refCount EXCEPT ![o] = 1] /\ UNCHANGED <<map, links, disposed>> /\ o \in Free
  BY DEF Add
<1>2. o \in Objects \ Known /\ o \notin Held /\ o \notin Gone
  BY <1>1, HeldFacts
<1>3. map[r] \in Roles /\ map[map[r]] = r
  <2>1. r \in Roles
    BY DEF Roles
  <2> QED BY <2>1, HeldFacts, MapFacts
<1>4. Holds(t, L) /\ t.c = [container EXCEPT ![o] = map[r]]
  <2> DEFINE s == State  K == Held  c == map[r]
  <2>1. Holds(s, K) /\ o \in Objects \ K /\ c \in Roles /\ s.c = container
    BY <1>2, <1>3, HeldFacts
  <2> HIDE DEF s, K, c
  <2>2. Holds(Added(s, c, o), K \cup {o}) /\ Added(s, c, o).c = [s.c EXCEPT ![o] = c]
    BY <2>1, AddedHolds
  <2> QED BY <2>1, <2>2 DEF s, K, c
<1>5. /\ \A x \in Objects : t.c[x] = IF x = o THEN map[r] ELSE container[x]
      /\ refCount' \in [Objects -> Nat] /\ \A x \in Objects : refCount'[x] = IF x = o THEN 1 ELSE refCount[x]
  <2> DEFINE C == t.c
  <2>1. C = [container EXCEPT ![o] = map[r]] /\ container \in [Objects -> Roles \cup {None}]
    <3>1. State.c = container /\ State \in States
      BY HeldFacts DEF Holds
    <3> DEFINE s == State
    <3>2. s.c \in [Objects -> Roles \cup {None}]
      <4> HIDE DEF s
      <4> QED BY <3>1 DEF States, s
    <3> QED BY <3>1, <3>2, <1>4
  <2> HIDE DEF C
  <2>2. \A x \in Objects : C[x] = IF x = o THEN map[r] ELSE container[x]
    BY <2>1
  <2>3. refCount' \in [Objects -> Nat] /\ \A x \in Objects : refCount'[x] = IF x = o THEN 1 ELSE refCount[x]
    <3>1. refCount \in [Objects -> Nat]
      BY HeldFacts
    <3> QED BY <3>1, <1>1
  <2> QED BY <2>2, <2>3 DEF C
<1>6. ContainersInv' /\ Held' = L
  <2>1. Held \subseteq L /\ L \cap Gone = {} /\ \A x \in Objects \ L : t.c[x] = container[x]
    BY <1>2, <1>5 DEF Held
  <2>2. \A x \in L : IsRoot(t.c[x]) => refCount'[x] > 0
    <3>1. \A x \in Held : (IsRoot(container[x]) => refCount[x] > 0) /\ x \in Objects /\ x # o
      BY <1>2, HeldFacts
    <3> QED BY <3>1, <1>5
  <2> HIDE DEF t, L
  <2> QED BY <1>1, <1>4, <1>5, <2>1, <2>2, MovesKeepInv
<1>7. container' = t.c /\ Gone' = Gone
  BY <1>1 DEF Becomes, Gone
<1>8. \A x \in Held : OneWay(map[container[x]], map[container'[x]])
  <2>1. \A x \in Held : x \in Objects /\ x # o /\ map[container[x]] \in Roles
    BY <1>2, HeldFacts
  <2> HIDE DEF t
  <2>2. \A x \in Held : container'[x] = container[x]
    BY <2>1, <1>5, <1>7
  <2> QED BY <2>1, <2>2, Ways
<1>9. map[container'[o]] = r
  BY <1>3, <1>5, <1>7
<1> QED BY <1>1, <1>2, <1>6, <1>7, <1>8, <1>9 DEF Moves

\* root() and unroot() of an object that changes its container.
LEMMA RootMove ==
  ASSUME ContainersInv, NEW o \in Held, NEW n \in Nat,
         Becomes(Moved(State, o, links[container[o]].other)),
         refCount' = [refCount EXCEPT ![o] = n], ~IsRoot(container[o]) => n > 0,
         UNCHANGED <<map, links, disposed>>
  PROVE  ContainersInv' /\ Moves
<1> DEFINE p == map[container[o]]  c == map[OtherOf(p)]  t == Moved(State, o, c)
<1>1. /\ o \in Objects /\ container[o] \in Roles /\ p \in Roles /\ map \in MapsOf /\ refCount \in [Objects -> Nat]
      /\ Holds(State, Held) /\ State.c = container
      /\ \A x \in Held : x \in Objects /\ map[container[x]] \in Roles /\ (IsRoot(container[x]) => refCount[x] > 0)
  BY HeldFacts
<1>2. links[container[o]].other = c /\ c \in Roles /\ links = Links(map)
  <2>1. links = Links(map)
    BY HeldFacts
  <2> QED BY <1>1, <2>1, LinkFacts
<1>3. map[c] = OtherOf(p) /\ (IsRoot(c) <=> ~IsRoot(container[o]))
  <2>1. OtherOf(p) \in Roles /\ (IsRoot(OtherOf(p)) <=> ~IsRoot(p))
    BY <1>1, Ways
  <2>2. map[c] = OtherOf(p) /\ (IsRoot(c) <=> IsRoot(OtherOf(p))) /\ (IsRoot(p) <=> IsRoot(container[o]))
    BY <1>1, <2>1, MapFacts
  <2> QED BY <2>1, <2>2
<1>4. Holds(t, Held) /\ t.c = [container EXCEPT ![o] = c]
  <2> DEFINE s == State  L == Held
  <2>1. Holds(s, L) /\ o \in L /\ s.c = container
    BY <1>1
  <2> HIDE DEF s, L, c
  <2>2. Holds(Moved(s, o, c), L) /\ Moved(s, o, c).c = [s.c EXCEPT ![o] = c]
    BY <2>1, <1>2, MovedHolds
  <2> QED BY <2>1, <2>2 DEF s, L
<1>5. Becomes(t)
  BY <1>2
<1>6. container \in [Objects -> Roles \cup {None}]
  <2> DEFINE s == State
  <2>1. s \in States /\ s.c = container
    BY <1>1 DEF Holds
  <2> HIDE DEF s
  <2> QED BY <2>1 DEF States
<1> HIDE DEF c, t, p
<1>7. \A x \in Objects : t.c[x] = IF x = o THEN c ELSE container[x]
  BY <1>4, <1>6
<1>8. /\ refCount' \in [Objects -> Nat]
      /\ \A x \in Objects : refCount'[x] = IF x = o THEN n ELSE refCount[x]
  BY <1>1
<1>9. \A x \in Held : IsRoot(t.c[x]) => refCount'[x] > 0
  BY <1>1, <1>3, <1>7, <1>8
<1>10. \A x \in Held : OneWay(map[container[x]], map[t.c[x]])
  <2>1. ASSUME NEW x \in Held PROVE OneWay(map[container[x]], map[t.c[x]])
    <3>1. CASE x = o
      BY <3>1, <1>1, <1>3, <1>7, Ways DEF p
    <3>2. CASE x # o
      BY <3>2, <1>1, <1>7, Ways
    <3> QED BY <3>1, <3>2
  <2> QED BY <2>1
<1>11. \A x \in Objects \ Held : t.c[x] = container[x]
  BY <1>7
<1> QED BY <1>4, <1>5, <1>8, <1>9, <1>10, <1>11, HeldMove

\* A count that goes up, or down to one at least.
LEMMA CountMove ==
  ASSUME ContainersInv, NEW o \in Held, NEW n \in Nat \ {0},
         refCount' = [refCount EXCEPT ![o] = n],
         UNCHANGED <<elements, container, index>>, UNCHANGED <<map, links, disposed>>
  PROVE  ContainersInv' /\ Moves
<1>1. /\ State.e = elements /\ State.c = container /\ State.i = index /\ Holds(State, Held)
      /\ refCount \in [Objects -> Nat] /\ Held \subseteq Objects
      /\ \A x \in Held : (IsRoot(container[x]) => refCount[x] > 0) /\ map[container[x]] \in Roles
  BY HeldFacts
<1> DEFINE t == State
<1>2. Becomes(t) /\ Holds(t, Held) /\ t.c = container
  BY <1>1 DEF Becomes
<1> HIDE DEF t
<1>3. /\ refCount' \in [Objects -> Nat]
      /\ \A x \in Objects : refCount'[x] = IF x = o THEN n ELSE refCount[x]
  BY <1>1
<1>4. \A x \in Held : IsRoot(t.c[x]) => refCount'[x] > 0
  BY <1>1, <1>2, <1>3
<1>5. \A x \in Held : OneWay(map[container[x]], map[t.c[x]])
  BY <1>1, <1>2, Ways
<1> QED BY <1>2, <1>3, <1>4, <1>5, HeldMove

\* root() and unroot().
LEMMA RootKeepsInv ==
  ASSUME ContainersInv, NEW o \in Objects, Root(o) \/ Unroot(o)
  PROVE  ContainersInv' /\ Moves
<1>1. o \in Held /\ refCount[o] \in Nat /\ (IsRoot(container[o]) => refCount[o] > 0)
  BY HeldFacts DEF Root, Unroot
<1>2. CASE Root(o) /\ IsRoot(container[o])
  <2>1. /\ refCount' = [refCount EXCEPT ![o] = refCount[o] + 1]
        /\ UNCHANGED <<elements, container, index>> /\ UNCHANGED <<map, links, disposed>>
    BY <1>2 DEF Root
  <2>2. refCount[o] + 1 \in Nat \ {0}
    BY <1>1
  <2> QED BY <1>1, <2>1, <2>2, CountMove
<1>3. CASE Root(o) /\ ~IsRoot(container[o])
  <2>1. /\ refCount' = [refCount EXCEPT ![o] = 1] /\ UNCHANGED <<map, links, disposed>>
        /\ Becomes(Moved(State, o, links[container[o]].other))
    BY <1>3 DEF Root
  <2>2. 1 \in Nat /\ 1 > 0
    OBVIOUS
  <2> QED BY <1>1, <2>1, <2>2, RootMove
<1>4. CASE Unroot(o)
  <2> DEFINE n == refCount[o] - 1
  <2>1. IsRoot(container[o]) /\ refCount' = [refCount EXCEPT ![o] = n] /\ UNCHANGED <<map, links, disposed>>
    BY <1>4 DEF Unroot
  <2>2. n \in Nat
    BY <1>1, <2>1
  <2>3. CASE refCount[o] = 1
    <3>1. Becomes(Moved(State, o, links[container[o]].other))
      BY <1>4, <2>3 DEF Unroot
    <3> HIDE DEF n
    <3> QED BY <1>1, <2>1, <2>2, <3>1, RootMove
  <2>4. CASE refCount[o] # 1
    <3>1. UNCHANGED <<elements, container, index>>
      BY <1>4, <2>4 DEF Unroot
    <3>2. n \in Nat \ {0}
      BY <1>1, <2>1, <2>4
    <3> HIDE DEF n
    <3> QED BY <1>1, <2>1, <3>1, <3>2, CountMove
  <2> QED BY <2>3, <2>4
<1> QED BY <1>2, <1>3, <1>4

\* Greying leaves the root containers what they hold.
LEMMA GreyedFacts ==
  ASSUME ContainersInv, NEW ks \in Seq(Listed)
  PROVE  /\ Holds(Greyed(State, ks), Held)
         /\ \A x \in Held :
              /\ Greyed(State, ks).c[x] \in Roles
              /\ OneWay(map[container[x]], map[Greyed(State, ks).c[x]])
              /\ IsRoot(Greyed(State, ks).c[x]) <=> IsRoot(container[x])
              /\ map[container[x]] \notin {"white", "whiteRoot"} => Greyed(State, ks).c[x] = container[x]
         /\ \A x \in Objects \ Held : Greyed(State, ks).c[x] = container[x]
<1> DEFINE s == State  L == Held  t == Greyed(s, ks)
<1>1. /\ map \in MapsOf /\ links = Links(map) /\ Holds(s, L) /\ s.c = container /\ Listed = L
      /\ \A x \in L : container[x] \in Roles /\ map[container[x]] \in Roles
  BY HeldFacts
<1> HIDE DEF s, L
<1>2. GreyedTo(s, t, L)
  BY <1>1, GreyedHolds
<1> HIDE DEF t
<1>3. /\ Holds(t, L) /\ \A x \in Objects \ L : t.c[x] = container[x]
      /\ \A x \in L : \/ t.c[x] = container[x]
                      \/ GreyOf(map[container[x]]) # None /\ t.c[x] = GreyOf(map[container[x]])
  BY <1>1, <1>2 DEF GreyedTo
<1>4. ASSUME NEW x \in L
      PROVE  /\ t.c[x] \in Roles /\ OneWay(map[container[x]], map[t.c[x]])
             /\ IsRoot(t.c[x]) <=> IsRoot(container[x])
             /\ map[container[x]] \notin {"white", "whiteRoot"} => t.c[x] = container[x]
  <2> DEFINE c == container[x]  p == map[c]  g == GreyOf(p)
  <2>1. c \in Roles /\ p \in Roles
    BY <1>1
  <2>2. OneWay(p, p) /\ (g # None => OneWay(p, g) /\ (IsRoot(g) <=> IsRoot(p)))
    <3> HIDE DEF p
    <3> QED BY <2>1, Ways
  <2>3. g # None => g \in Roles /\ map[g] = g
    <3>1. map \in MapsOf
      BY <1>1
    <3> HIDE DEF c
    <3> QED BY <2>1, <3>1, LinkFacts
  <2>4. IsRoot(p) <=> IsRoot(c)
    BY <1>1, <2>1, MapFacts
  <2>5. p \notin {"white", "whiteRoot"} => g = None
    BY DEF GreyOf
  <2>6. t.c[x] = c \/ (g # None /\ t.c[x] = g)
    BY <1>3
  <2> HIDE DEF g
  <2>7. CASE t.c[x] = c
    BY <2>1, <2>2, <2>7
  <2>8. CASE g # None /\ t.c[x] = g
    BY <2>1, <2>2, <2>3, <2>4, <2>5, <2>8
  <2> QED BY <2>6, <2>7, <2>8
<1> QED BY <1>3, <1>4 DEF t, s, L

\* grey(), and a step that leaves the object where it is.
LEMMA GreyMove ==
  ASSUME ContainersInv, NEW ks \in Seq(Listed), Becomes(Greyed(State, ks)),
         UNCHANGED <<map, links, refCount, disposed>>
  PROVE  ContainersInv' /\ Moves
<1> DEFINE t == Greyed(State, ks)
<1>1. /\ Holds(t, Held) /\ \A x \in Objects \ Held : t.c[x] = container[x]
      /\ \A x \in Held : /\ OneWay(map[container[x]], map[t.c[x]])
                         /\ IsRoot(t.c[x]) <=> IsRoot(container[x])
  BY GreyedFacts
<1>2. refCount \in [Objects -> Nat] /\ \A x \in Held : IsRoot(container[x]) => refCount[x] > 0
  BY HeldFacts
<1>3. Becomes(t)
  OBVIOUS
<1> HIDE DEF t
<1>4. \A x \in Held : IsRoot(t.c[x]) => refCount'[x] > 0
  BY <1>1, <1>2
<1> QED BY <1>1, <1>2, <1>3, <1>4, HeldMove

\* Cell::grey().
LEMMA GreyKeepsInv ==
  ASSUME ContainersInv, NEW o \in Objects, Grey(o)
  PROVE  ContainersInv' /\ Moves
<1>1. <<o>> \in Seq(Listed)
  BY DEF Grey
<1> QED BY <1>1, GreyMove DEF Grey

\* The last element of the container to scan.
LEMMA ToScanFacts ==
  ASSUME ContainersInv, ToScan # None
  PROVE  /\ ToScan \in {"whiteRoot", "greyRoot", "grey"} /\ Last(elements[map[ToScan]]) \in Held
         /\ map[container[Last(elements[map[ToScan]])]] = ToScan
<1> DEFINE r == ToScan  c == map[r]  q == elements[c]  w == Last(q)
<1>1. r \in {"whiteRoot", "greyRoot", "grey"} /\ q # <<>>
  BY DEF ToScan
<1>2. r \in Roles
  BY <1>1 DEF Roles
<1> HIDE DEF r
<1>3. c \in Roles /\ map[c] = r
  BY <1>2, HeldFacts, MapFacts
<1> HIDE DEF c
<1>4. q \in Seq(Objects) /\ ToSet(q) = {o \in Held : container[o] = c} /\ ToSet(q) = Elements(q)
  BY <1>3, ListedIsHeld DEF VectorsOK
<1>5. w \in Elements(q)
  <2> HIDE DEF q, w
  <2>1. q # <<>>
    BY <1>1 DEF q
  <2>2. Len(q) \in 1 .. Len(q)
    BY <1>4, <2>1
  <2> QED BY <2>2 DEF w, Last, Elements
<1>6. w \in Held /\ container[w] = c
  BY <1>4, <1>5
<1> QED BY <1>1, <1>3, <1>6 DEF r, c

\* The object scanned goes to its black container.
LEMMA ScannedMove ==
  ASSUME ContainersInv, NEW ks \in Seq(Listed), ToScan # None, Becomes(Scanned(ToScan, ks)),
         UNCHANGED <<map, links, refCount, disposed>>
  PROVE  ContainersInv' /\ Moves
<1> DEFINE r == ToScan  w == Last(elements[map[r]])  b == IF r = "grey" THEN "black" ELSE "blackRoot"
           c == map[b]  u == Greyed(State, ks)  t == Moved(u, w, c)
<1>1. r \in {"whiteRoot", "greyRoot", "grey"} /\ w \in Held /\ map[container[w]] = r
  BY ToScanFacts
<1>2. Becomes(t)
  BY DEF Scanned
<1>3. /\ Holds(u, Held) /\ \A x \in Objects \ Held : u.c[x] = container[x]
      /\ \A x \in Held : /\ OneWay(map[container[x]], map[u.c[x]])
                         /\ IsRoot(u.c[x]) <=> IsRoot(container[x])
  BY GreyedFacts
<1>4. /\ refCount \in [Objects -> Nat] /\ map \in MapsOf
      /\ \A x \in Held : (IsRoot(container[x]) => refCount[x] > 0) /\ x \in Objects /\ container[x] \in Roles
  BY HeldFacts
<1>5. b \in Roles /\ r \in Roles /\ (IsRoot(b) <=> IsRoot(r)) /\ b = IF IsRoot(r) THEN "blackRoot" ELSE "black"
  BY <1>1 DEF Roles, IsRoot
<1> HIDE DEF r, w, b, u, t
<1>6. c \in Roles /\ map[c] = b /\ (IsRoot(c) <=> IsRoot(container[w]))
  <2>1. c \in Roles /\ map[c] = b /\ (IsRoot(c) <=> IsRoot(b))
    BY <1>4, <1>5, MapFacts
  <2>2. IsRoot(r) <=> IsRoot(container[w])
    BY <1>1, <1>4, MapFacts
  <2> QED BY <2>1, <2>2, <1>5
<1> HIDE DEF c
<1>7. Holds(t, Held) /\ t.c = [u.c EXCEPT ![w] = c]
  <2> DEFINE L == Held
  <2>1. Holds(u, L) /\ w \in L
    BY <1>1, <1>3
  <2> HIDE DEF L
  <2>2. Holds(Moved(u, w, c), L) /\ Moved(u, w, c).c = [u.c EXCEPT ![w] = c]
    BY <1>6, <2>1, MovedHolds
  <2> QED BY <2>2 DEF t, L
<1>8. \A x \in Objects : t.c[x] = IF x = w THEN c ELSE u.c[x]
  <2> DEFINE C == u.c
  <2>1. C \in [Objects -> Roles \cup {None}]
    BY <1>3 DEF Holds, States
  <2> HIDE DEF C
  <2>2. t.c = [C EXCEPT ![w] = c]
    BY <1>7 DEF C
  <2>3. \A x \in Objects : t.c[x] = IF x = w THEN c ELSE C[x]
    BY <2>1, <2>2
  <2> QED BY <2>3 DEF C
<1>9. OneWay(map[container[w]], map[c])
  <2>1. r # "white"
    BY <1>1
  <2> QED BY <2>1, <1>1, <1>5, <1>6, Ways
<1>10. \A x \in Held : OneWay(map[container[x]], map[t.c[x]]) /\ (IsRoot(t.c[x]) <=> IsRoot(container[x]))
  <2>1. ASSUME NEW x \in Held
        PROVE  OneWay(map[container[x]], map[t.c[x]]) /\ (IsRoot(t.c[x]) <=> IsRoot(container[x]))
    <3>1. x \in Objects
      BY <1>4
    <3>2. CASE x = w
      BY <3>1, <3>2, <1>6, <1>8, <1>9
    <3>3. CASE x # w
      BY <3>1, <3>3, <1>3, <1>8
    <3> QED BY <3>2, <3>3
  <2> QED BY <2>1
<1>11. \A x \in Objects \ Held : t.c[x] = container[x]
  BY <1>1, <1>3, <1>8
<1>12. refCount' \in [Objects -> Nat] /\ \A x \in Held : IsRoot(t.c[x]) => refCount'[x] > 0
  BY <1>4, <1>10
<1> QED BY <1>2, <1>7, <1>10, <1>11, <1>12, HeldMove

\* step().
LEMMA StepKeepsInv ==
  ASSUME ContainersInv, NEW ks \in BoundedSeq(Listed, 2), NEW more \in BOOLEAN, Step(ks, more)
  PROVE  ContainersInv' /\ Moves
<1>1. ks \in Seq(Listed)
  <2>1. PICK n \in 0 .. 2 : ks \in [1 .. n -> Listed]
    BY DEF BoundedSeq, SeqOf
  <2> QED BY <2>1, SeqDef
<1>2. ToScan # None /\ UNCHANGED <<map, links, refCount, disposed>>
      /\ Becomes(IF more THEN Greyed(State, ks) ELSE Scanned(ToScan, ks))
  BY DEF Step
<1>3. CASE more
  <2>1. Becomes(Greyed(State, ks))
    BY <1>2, <1>3
  <2> QED BY <1>1, <1>2, <2>1, GreyMove
<1>4. CASE ~more
  <2>1. Becomes(Scanned(ToScan, ks))
    BY <1>2, <1>4
  <2> QED BY <1>1, <1>2, <2>1, ScannedMove
<1> QED BY <1>3, <1>4

\* ... and disposed of are the objects of the vectors.
LEMMA OnceIsAll ==
  ASSUME NEW d, NEW S, Once(d, S)
  PROVE  UNION {ToSet(d[i]) : i \in DOMAIN d} = S
<1>1. d \in Seq(Vectors) /\ S = UNION {Elements(d[i]) : i \in 1 .. Len(d)}
  BY DEF Once
<1>2. DOMAIN d = 1 .. Len(d) /\ \A i \in 1 .. Len(d) : d[i] \in Vectors
  BY <1>1
<1>3. ASSUME NEW v \in Vectors PROVE ToSet(v) = Elements(v)
  <2>1. v \in Seq(Objects)
    BY DEF Vectors
  <2> QED BY <2>1 DEF ToSet, Elements
<1> QED BY <1>1, <1>2, <1>3

\* White is disposed of and exchanged with black.
Swaps ==
  /\ Held' \subseteq Held /\ Gone' = Gone \cup (Held \ Held')
  /\ \A x \in Held : x \in Held' <=> map[container[x]] # "white"
  /\ \A x \in Held' : map'[container'[x]] = Flip[map[container[x]]]
  /\ Known' = Known

\* swap().
LEMMA SwapKeepsInv ==
  ASSUME ContainersInv, Swap
  PROVE  ContainersInv' /\ Swaps
<1> DEFINE c == map["white"]  q == elements[c]  L == Held \ Elements(q)
           m == [map EXCEPT !["white"] = map["black"], !["black"] = map["white"],
                            !["whiteRoot"] = map["blackRoot"], !["blackRoot"] = map["whiteRoot"]]
<1>1. /\ map' = m /\ links' = Links(m) /\ disposed' = Disposed(q)
      /\ elements' = [elements EXCEPT ![c] = <<>>] /\ UNCHANGED <<container, index, refCount>>
  BY DEF Swap
<1>2. /\ map \in MapsOf /\ Held \subseteq Objects /\ refCount \in [Objects -> Nat] /\ Held \subseteq Known
      /\ Gone \subseteq Known /\ \A o \in Held : container[o] \in Roles /\ (IsRoot(container[o]) => refCount[o] > 0)
  BY HeldFacts
<1>3. c \in Roles /\ map[c] = "white"
  <2>1. "white" \in Roles
    BY DEF Roles
  <2> QED BY <2>1, <1>2, MapFacts
<1>4. m \in MapsOf /\ \A r \in Roles : m[r] = Flip[map[r]]
  <2>1. m \in MapsOf
    BY <1>2, FlippedMap
  <2>2. \A r \in Roles : m[r] = Flip[map[r]]
    <3>1. CASE map = Same
      BY <3>1 DEF Same, Flip, Roles
    <3>2. CASE map = Flip
      BY <3>2 DEF Same, Flip, Roles
    <3> QED BY <3>1, <3>2, <1>2 DEF MapsOf
  <2> QED BY <2>1, <2>2
<1> HIDE DEF m
<1>5. /\ q \in Seq(Objects) /\ Distinct(q) /\ Elements(q) = {o \in Held : container[o] = c}
  <2>1. VectorsOK
    BY ListedIsHeld
  <2> HIDE DEF c
  <2> QED BY <1>3, <2>1 DEF VectorsOK
<1> HIDE DEF c
<1>6. L = {o \in Held : container[o] # c}
  BY <1>5
<1>7. Once(disposed', Gone \cup Elements(q))
  <2>1. Once(disposed, Gone)
    BY DEF ContainersInv
  <2> DEFINE M == Elements(q)  d == disposed  G == Gone  v == q
  <2>2. CASE q = <<>>
    <3>1. M = {}
      BY <2>2 DEF Elements
    <3>2. disposed' = disposed
      BY <1>1, <2>2 DEF Disposed
    <3> QED BY <2>1, <3>1, <3>2
  <2>3. CASE q # <<>>
    <3>1. disposed' = Append(d, v)
      BY <1>1, <2>3 DEF Disposed
    <3>2. Once(d, G) /\ v \in Vectors /\ Distinct(v) /\ Elements(v) \cap G = {}
      BY <1>5, <2>1, <2>3 DEF Vectors, Held
    <3> HIDE DEF d, G, v
    <3>3. Once(Append(d, v), G \cup Elements(v))
      BY <3>2, AppendOnce
    <3> QED BY <3>1, <3>3 DEF d, G, v
  <2> QED BY <2>2, <2>3
<1>8. Gone' = Gone \cup Elements(q)
  BY <1>7, OnceIsAll DEF Gone
<1>9. Known' = Known /\ Held' = L
  BY <1>1, <1>2, <1>8 DEF Known, Held
<1>10. Holds(State', L)
  <2> DEFINE F == [elements EXCEPT ![c] = <<>>]  s == State'
  <2>1. s.e = F /\ s.c = container /\ s.i = index /\ s = [e |-> F, c |-> container, i |-> index]
    BY <1>1 DEF State
  <2>2. /\ elements \in [Roles -> Seq(Objects)] /\ container \in [Objects -> Roles \cup {None}]
        /\ index \in [Objects -> Nat]
        /\ \A r \in Roles : \A n \in 1 .. Len(elements[r]) :
             elements[r][n] \in Held /\ container[elements[r][n]] = r /\ index[elements[r][n]] = n - 1
        /\ \A o \in Held : /\ container[o] \in Roles /\ index[o] + 1 \in 1 .. Len(elements[container[o]])
                           /\ elements[container[o]][index[o] + 1] = o
    <3> DEFINE u == State
    <3>1. Holds(u, Held) /\ u.e = elements /\ u.c = container /\ u.i = index
      BY HeldFacts
    <3> HIDE DEF u
    <3> QED BY <3>1 DEF Holds, States
  <2>3. /\ F \in [Roles -> Seq(Objects)] /\ \A r \in Roles : F[r] = IF r = c THEN <<>> ELSE elements[r]
    <3>1. <<>> \in Seq(Objects)
      OBVIOUS
    <3> QED BY <3>1, <2>2
  <2> HIDE DEF F, s
  <2>4. s \in States
    BY <2>1, <2>2, <2>3 DEF States
  <2>5. ASSUME NEW r \in Roles, NEW n \in 1 .. Len(F[r])
        PROVE  F[r][n] \in L /\ container[F[r][n]] = r /\ index[F[r][n]] = n - 1
    <3>1. r # c
      <4> SUFFICES ASSUME r = c PROVE FALSE
        OBVIOUS
      <4>1. F[r] = <<>>
        BY <2>3
      <4>2. Len(F[r]) = 0
        BY <4>1
      <4> QED BY <4>2
    <3>2. F[r] = elements[r]
      BY <2>3, <3>1
    <3> QED BY <2>2, <3>1, <3>2, <1>6
  <2>6. ASSUME NEW o \in L
        PROVE  container[o] \in Roles /\ index[o] + 1 \in 1 .. Len(F[container[o]]) /\ F[container[o]][index[o] + 1] = o
    <3>1. o \in Held /\ container[o] # c
      BY <1>6
    <3>2. F[container[o]] = elements[container[o]]
      BY <2>2, <2>3, <3>1
    <3> QED BY <2>2, <3>1, <3>2
  <2>7. L \subseteq Objects
    BY <1>2
  <2> HIDE DEF L
  <2>8. /\ \A r \in Roles : \A n \in 1 .. Len(s.e[r]) :
             s.e[r][n] \in L /\ s.c[s.e[r][n]] = r /\ s.i[s.e[r][n]] = n - 1
        /\ \A o \in L : /\ s.c[o] \in Roles /\ s.i[o] + 1 \in 1 .. Len(s.e[s.c[o]])
                        /\ s.e[s.c[o]][s.i[o] + 1] = o
    BY <2>1, <2>5, <2>6
  <2>9. Holds(s, L)
    BY <2>4, <2>7, <2>8 DEF Holds
  <2> QED BY <2>9 DEF s
<1>11. ContainersInv'
  <2>1. map' \in MapsOf /\ links' = Links(map')
    BY <1>1, <1>4
  <2>2. Holds(State', Held')
    BY <1>9, <1>10
  <2>3. Once(disposed', Gone') /\ Gone' \subseteq Known'
    BY <1>2, <1>5, <1>7, <1>8, <1>9
  <2>4. refCount' \in [Objects -> Nat] /\ \A o \in Held' : IsRoot(container'[o]) => refCount'[o] > 0
    BY <1>1, <1>2, <1>9
  <2> QED BY <2>1, <2>2, <2>3, <2>4 DEF ContainersInv
<1>12. Swaps
  <2>1. Held \ Held' = Elements(q)
    BY <1>5, <1>9
  <2>2. \A x \in Held : x \in Held' <=> map[container[x]] # "white"
    <3>1. \A r \in Roles : map[map[r]] = r
      BY <1>2, MapFacts
    <3>2. \A x \in Held : map[container[x]] = "white" <=> container[x] = c
      BY <1>2, <1>3, <3>1 DEF c
    <3> QED BY <1>6, <1>9, <3>2
  <2>3. \A x \in Held' : map'[container'[x]] = Flip[map[container[x]]]
    <3>1. \A x \in Held' : container'[x] = container[x] /\ container[x] \in Roles
      BY <1>1, <1>2, <1>9
    <3> QED BY <3>1, <1>1, <1>4
  <2> QED BY <2>1, <2>2, <2>3, <1>8, <1>9 DEF Swaps
<1> QED BY <1>11, <1>12

\* The vectors e hold the objects of L, and what else objects know is of no account.
LEMMA HoldsOn ==
  ASSUME NEW s, NEW L, Holds(s, L), NEW t \in States, t.e = s.e,
         \A x \in L : t.c[x] = s.c[x] /\ t.i[x] = s.i[x]
  PROVE  Holds(t, L)
<1>1. /\ L \subseteq Objects
      /\ \A r \in Roles : \A n \in 1 .. Len(s.e[r]) :
           s.e[r][n] \in L /\ s.c[s.e[r][n]] = r /\ s.i[s.e[r][n]] = n - 1
      /\ \A o \in L : /\ s.c[o] \in Roles /\ s.i[o] + 1 \in 1 .. Len(s.e[s.c[o]])
                      /\ s.e[s.c[o]][s.i[o] + 1] = o
  BY DEF Holds
<1>2. /\ \A r \in Roles : \A n \in 1 .. Len(t.e[r]) :
           t.e[r][n] \in L /\ t.c[t.e[r][n]] = r /\ t.i[t.e[r][n]] = n - 1
  BY <1>1
<1>3. \A o \in L : /\ t.c[o] \in Roles /\ t.i[o] + 1 \in 1 .. Len(t.e[t.c[o]])
                   /\ t.e[t.c[o]][t.i[o] + 1] = o
  BY <1>1
<1> QED BY <1>1, <1>2, <1>3 DEF Holds

\* popDisposed().
LEMMA PopKeepsInv ==
  ASSUME ContainersInv, PopDisposed
  PROVE  ContainersInv' /\ Moves
<1> DEFINE d == disposed  v == Last(d)  w == Last(v)
<1>1. /\ d # <<>> /\ disposed' = IF Len(v) = 1 THEN Front(d) ELSE Front(d) \o <<Front(v)>>
      /\ Reset({w}) /\ UNCHANGED <<map, elements, links>>
  BY DEF PopDisposed
<1>2. Once(d, Gone) /\ Gone \subseteq Known /\ map \in MapsOf /\ links = Links(map)
  BY DEF ContainersInv
<1> HIDE DEF d
<1>3. v \in Vectors /\ Distinct(v) /\ Elements(v) \subseteq Gone /\ Once(Front(d), Gone \ Elements(v))
  <2> DEFINE G == Gone
  <2>1. Once(d, G)
    BY <1>2
  <2> HIDE DEF G
  <2>2. v \in Vectors /\ Distinct(v) /\ Elements(v) \subseteq G /\ Once(Front(d), G \ Elements(v))
    BY <1>1, <2>1, FrontOnce
  <2> QED BY <2>2 DEF G
<1> HIDE DEF v
<1>4. /\ Len(v) = 1 => Elements(v) = {w}
      /\ Len(v) # 1 => /\ Front(v) \in Vectors /\ Distinct(Front(v))
                       /\ Elements(Front(v)) = Elements(v) \ {w}
      /\ w \in Elements(v)
  BY <1>3, FrontVector
<1> HIDE DEF w
<1>5. Once(disposed', Gone \ {w})
  <2>1. CASE Len(v) = 1
    <3>1. disposed' = Front(d) /\ Elements(v) = {w}
      BY <1>1, <1>4, <2>1
    <3> QED BY <1>3, <3>1
  <2>2. CASE Len(v) # 1
    <3> DEFINE f == Front(d)  u == Front(v)  S == Gone \ Elements(v)
    <3>1. Once(f, S) /\ u \in Vectors /\ Distinct(u) /\ Elements(u) \cap S = {}
      BY <1>3, <1>4, <2>2
    <3>2. S \cup Elements(u) = Gone \ {w}
      BY <1>3, <1>4, <2>2
    <3>3. disposed' = f \o <<u>>
      BY <1>1, <2>2
    <3> HIDE DEF f, u, S
    <3>4. f \o <<u>> = Append(f, u)
      <4>1. f \in Seq(Vectors)
        BY <3>1 DEF Once
      <4> QED BY <3>1, <4>1, AppendIsConcat
    <3>5. Once(Append(f, u), S \cup Elements(u))
      BY <3>1, AppendOnce
    <3> QED BY <3>2, <3>3, <3>4, <3>5
  <2> QED BY <2>1, <2>2
<1>6. Gone' = Gone \ {w}
  BY <1>5, OnceIsAll DEF Gone
<1>7. /\ Holds(State, Held) /\ refCount \in [Objects -> Nat] /\ Held \subseteq Objects
      /\ State.e = elements /\ State.c = container /\ State.i = index
      /\ \A o \in Held : (IsRoot(container[o]) => refCount[o] > 0) /\ map[container[o]] \in Roles
  BY HeldFacts
<1>8. /\ container \in [Objects -> Roles \cup {None}] /\ index \in [Objects -> Nat]
      /\ elements \in [Roles -> Seq(Objects)]
  <2> DEFINE u == State
  <2>1. u \in States /\ u.c = container /\ u.i = index /\ u.e = elements
    BY <1>7 DEF Holds
  <2> HIDE DEF u
  <2> QED BY <2>1 DEF States
<1>9. /\ container' \in [Objects -> Roles \cup {None}] /\ index' \in [Objects -> Nat]
      /\ refCount' \in [Objects -> Nat]
      /\ \A x \in Objects : x # w => container'[x] = container[x] /\ index'[x] = index[x] /\ refCount'[x] = refCount[x]
      /\ container'[w] = None \/ w \notin Objects
  BY <1>1, <1>7, <1>8 DEF Reset
<1>10. w \in Gone /\ w \notin Held /\ w \in Objects
  BY <1>2, <1>3, <1>4 DEF Held, Known
<1>11. Known' = Known \ {w}
  BY <1>9, <1>10 DEF Known
<1>12. Held' = Held
  BY <1>6, <1>10, <1>11 DEF Held
<1>13. Holds(State', Held')
  <2> DEFINE s == State  t == State'  L == Held
  <2>1. t.e = elements /\ t.c = container' /\ t.i = index' /\ t = [e |-> elements, c |-> container', i |-> index']
    BY <1>1 DEF State
  <2>2. \A x \in L : x \in Objects /\ x # w
    BY <1>7, <1>10
  <2>3. Holds(s, L) /\ s.e = elements /\ s.c = container /\ s.i = index
    BY <1>7
  <2> HIDE DEF s, t, L
  <2>4. t \in States
    BY <1>8, <1>9, <2>1 DEF States
  <2>5. Holds(t, L)
    BY <1>9, <2>1, <2>2, <2>3, <2>4, HoldsOn
  <2> QED BY <2>5, <1>12 DEF t, L
<1>14. ContainersInv'
  <2>1. map' \in MapsOf /\ links' = Links(map')
    BY <1>1, <1>2
  <2>2. \A o \in Held' : IsRoot(container'[o]) => refCount'[o] > 0
    BY <1>7, <1>9, <1>10, <1>12
  <2>3. Once(disposed', Gone') /\ Gone' \subseteq Known'
    BY <1>2, <1>5, <1>6, <1>11
  <2> QED BY <2>1, <2>2, <2>3, <1>9, <1>13 DEF ContainersInv
<1>15. Moves
  <2>1. \A x \in Held : container'[x] = container[x] /\ map[container[x]] \in Roles
    BY <1>7, <1>9, <1>10
  <2>2. \A x \in Held : OneWay(map[container[x]], map[container'[x]])
    BY <2>1, Ways
  <2> QED BY <2>2, <1>1, <1>6, <1>12 DEF Moves
<1> QED BY <1>14, <1>15

\* One sequence after another.
LEMMA ConcatElements ==
  ASSUME NEW T, NEW p \in Seq(T), NEW q \in Seq(T)
  PROVE  /\ p \o q \in Seq(T) /\ Len(p \o q) = Len(p) + Len(q)
         /\ Elements(p \o q) = Elements(p) \cup Elements(q)
         /\ Distinct(p) /\ Distinct(q) /\ Elements(p) \cap Elements(q) = {} => Distinct(p \o q)
<1> DEFINE r == p \o q  m == Len(p)  n == Len(q)
<1>1. /\ m \in Nat /\ n \in Nat /\ r \in Seq(T) /\ Len(r) = m + n
      /\ \A i \in 1 .. m + n : r[i] = IF i <= m THEN p[i] ELSE q[i - m]
  BY ConcatProperties
<1>2. Elements(p) = {p[i] : i \in 1 .. m} /\ Elements(q) = {q[i] : i \in 1 .. n}
      /\ Elements(r) = {r[i] : i \in 1 .. m + n}
  BY <1>1 DEF Elements
<1> HIDE DEF r, m, n
<1>3. \A i \in 1 .. m : i \in 1 .. m + n /\ r[i] = p[i]
  BY <1>1
<1>4. ASSUME NEW i \in 1 .. n PROVE m + i \in 1 .. m + n /\ r[m + i] = q[i]
  <2>1. m + i \in 1 .. m + n /\ ~(m + i <= m) /\ m + i - m = i
    BY <1>1
  <2> QED BY <2>1, <1>1
<1>5. ASSUME NEW i \in 1 .. m + n
      PROVE  (i \in 1 .. m /\ r[i] = p[i]) \/ (i - m \in 1 .. n /\ r[i] = q[i - m] /\ i = m + (i - m))
  BY <1>1
<1>6. Elements(r) = Elements(p) \cup Elements(q)
  <2>1. ASSUME NEW x \in Elements(r) PROVE x \in Elements(p) \cup Elements(q)
    <3>1. PICK i \in 1 .. m + n : x = r[i]
      BY <1>2
    <3> QED BY <3>1, <1>2, <1>5
  <2>2. ASSUME NEW x \in Elements(p) PROVE x \in Elements(r)
    BY <1>2, <1>3
  <2>3. ASSUME NEW x \in Elements(q) PROVE x \in Elements(r)
    <3>1. PICK i \in 1 .. n : x = q[i]
      BY <1>2
    <3> QED BY <3>1, <1>2, <1>4
  <2> QED BY <2>1, <2>2, <2>3
<1>7. ASSUME Distinct(p), Distinct(q), Elements(p) \cap Elements(q) = {} PROVE Distinct(r)
  <2>0. /\ \A i, j \in 1 .. m : p[i] = p[j] => i = j
        /\ \A i, j \in 1 .. n : q[i] = q[j] => i = j
    BY <1>7 DEF Distinct, m, n
  <2> SUFFICES ASSUME NEW i \in 1 .. m + n, NEW j \in 1 .. m + n, r[i] = r[j] PROVE i = j
    BY <1>1 DEF Distinct
  <2>1. \A k \in 1 .. m, l \in 1 .. n : p[k] # q[l]
    BY <1>2, <1>7
  <2>2. CASE i \in 1 .. m /\ r[i] = p[i]
    <3>1. j \in 1 .. m /\ r[j] = p[j]
      BY <1>5, <2>1, <2>2
    <3> QED BY <2>0, <2>2, <3>1
  <2>3. CASE i - m \in 1 .. n /\ r[i] = q[i - m] /\ i = m + (i - m)
    <3>1. j - m \in 1 .. n /\ r[j] = q[j - m] /\ j = m + (j - m)
      BY <1>5, <2>1, <2>3
    <3>2. i - m = j - m
      BY <2>0, <2>3, <3>1
    <3> QED BY <2>3, <3>1, <3>2
  <2> QED BY <1>5, <2>2, <2>3
<1> QED BY <1>1, <1>6, <1>7 DEF r, m, n

\* The objects that a cycle leaves: kept ones white, and the roots white roots.
Cycles ==
  /\ map' = map /\ Gone' = {} /\ disposed' = <<>> /\ Held' \subseteq Held
  /\ \A x \in Held : IsRoot(map[container[x]]) => x \in Held' /\ map[container'[x]] = "whiteRoot"
  /\ \A x \in Held' : ~IsRoot(map[container[x]]) => map[container'[x]] = "white" /\ x \in Bulk

\* A colour map that keeps only its white roots.
LEMMA ClearedHolds ==
  ASSUME NEW s, NEW L, Holds(s, L), NEW c \in Roles
  PROVE  Holds([s EXCEPT !.e = [r \in Roles |-> IF r = c THEN s.e[r] ELSE <<>>]], {o \in L : s.c[o] = c})
         /\ [s EXCEPT !.e = [r \in Roles |-> IF r = c THEN s.e[r] ELSE <<>>]].c = s.c
<1> DEFINE E == s.e  C == s.c  I == s.i  K == {o \in L : s.c[o] = c}
           F == [r \in Roles |-> IF r = c THEN E[r] ELSE <<>>]  t == [s EXCEPT !.e = F]
<1>1. /\ E \in [Roles -> Seq(Objects)] /\ C \in [Objects -> Roles \cup {None}] /\ I \in [Objects -> Nat]
      /\ L \subseteq Objects
      /\ \A a \in Roles : \A m \in 1 .. Len(E[a]) :
           E[a][m] \in L /\ C[E[a][m]] = a /\ I[E[a][m]] = m - 1
      /\ \A x \in L : C[x] \in Roles /\ I[x] + 1 \in 1 .. Len(E[C[x]]) /\ E[C[x]][I[x] + 1] = x
  BY DEF Holds, States
<1>2. t.e = F /\ t.c = C /\ t.i = I /\ t = [e |-> F, c |-> C, i |-> I]
  <2>1. s = [e |-> E, c |-> C, i |-> I]
    <3>1. s \in States
      BY DEF Holds
    <3> QED BY <3>1 DEF States
  <2> HIDE DEF E, C, I, F
  <2> QED BY <2>1
<1>3. K = {o \in L : C[o] = c}
  OBVIOUS
<1>4. F \in [Roles -> Seq(Objects)] /\ \A r \in Roles : F[r] = IF r = c THEN E[r] ELSE <<>>
  <2>1. <<>> \in Seq(Objects)
    OBVIOUS
  <2> HIDE DEF E
  <2> QED BY <1>1, <2>1
<1> HIDE DEF E, C, I, K, F, t
<1>5. t \in States
  BY <1>1, <1>2, <1>4 DEF States
<1>6. ASSUME NEW r \in Roles, NEW n \in 1 .. Len(F[r])
      PROVE  F[r][n] \in K /\ C[F[r][n]] = r /\ I[F[r][n]] = n - 1
  <2>1. r = c
    <3> SUFFICES ASSUME r # c PROVE FALSE
      OBVIOUS
    <3>1. F[r] = <<>>
      BY <1>4
    <3>2. Len(F[r]) = 0
      BY <3>1
    <3> QED BY <3>2
  <2>2. F[r] = E[r]
    BY <1>4, <2>1
  <2> QED BY <1>1, <1>3, <2>1, <2>2
<1>7. ASSUME NEW o \in K
      PROVE  C[o] \in Roles /\ I[o] + 1 \in 1 .. Len(F[C[o]]) /\ F[C[o]][I[o] + 1] = o
  <2>1. o \in L /\ C[o] = c
    BY <1>3
  <2>2. F[C[o]] = E[C[o]]
    BY <1>4, <2>1
  <2> QED BY <1>1, <2>1, <2>2
<1>8. K \subseteq Objects
  BY <1>1, <1>3
<1>9. Holds(t, K)
  BY <1>2, <1>5, <1>6, <1>7, <1>8 DEF Holds
<1> QED BY <1>2, <1>9 DEF t, F, E, K, C

\* The roles of the containers with that name, whichever way the map is.
LEMMA RootNames ==
  ASSUME NEW m \in MapsOf
  PROVE  /\ m["white"] \in {"white", "black"} /\ m["whiteRoot"] \in {"whiteRoot", "blackRoot"}
         /\ {m["whiteRoot"], m["greyRoot"], m["blackRoot"]} = {"whiteRoot", "greyRoot", "blackRoot"}
         /\ m["blackRoot"] # m["greyRoot"] /\ m["whiteRoot"] # m["greyRoot"] /\ m["whiteRoot"] # m["blackRoot"]
         /\ m[m["white"]] = "white" /\ m[m["whiteRoot"]] = "whiteRoot"
         /\ \A r \in Roles : IsRoot(m[r]) <=> IsRoot(r)
  BY DEF MapsOf, Same, Flip, Roles, IsRoot

\* The bulk is what is held and not in a root container.
LEMMA BulkIs ==
  ASSUME ContainersInv
  PROVE  Bulk = {o \in Held : ~IsRoot(container[o])}
<1>1. \A r \in Roles : ToSet(elements[r]) = {o \in Held : container[o] = r}
  BY ListedIsHeld DEF VectorsOK
<1>2. \A o \in Held : container[o] \in Roles
  BY HeldFacts
<1>3. \A r \in Roles : ~IsRoot(r) <=> r \in {"white", "grey", "black"}
  BY DEF Roles, IsRoot
<1>4. "white" \in Roles /\ "grey" \in Roles /\ "black" \in Roles
  BY DEF Roles
<1> QED BY <1>1, <1>2, <1>3, <1>4 DEF Bulk

\* The vectors after swap(tobekept): what was white root, the kept objects, and
\* the other roots.
Kept(kept) ==
  AddedAll(AddedAll([State EXCEPT !.e = [c \in Roles |-> IF c = map["whiteRoot"] THEN elements[c] ELSE <<>>]],
                    map["white"], kept),
           map["whiteRoot"], elements[map["blackRoot"]] \o elements[map["greyRoot"]])
KeptIn(t, S, L) ==
  /\ Holds(t, L)
  /\ \A x \in L : t.c[x] = IF x \in S THEN map["white"] ELSE map["whiteRoot"]
  /\ \A x \in Objects \ L : t.c[x] = container[x]

LEMMA KeptHolds ==
  ASSUME ContainersInv, NEW S \in SUBSET Bulk, NEW kept \in Seq(S), Distinct(kept), Elements(kept) = S,
         NEW L, L = S \cup {o \in Held : IsRoot(container[o])}
  PROVE  KeptIn(Kept(kept), S, L)
<1> DEFINE w == map["whiteRoot"]  a == map["white"]  b == map["blackRoot"]  g == map["greyRoot"]
           s0 == [State EXCEPT !.e = [c \in Roles |-> IF c = w THEN elements[c] ELSE <<>>]]
           K == {o \in Held : container[o] = w}  q == elements[b] \o elements[g]
           R == {o \in Held : container[o] \in {b, g}}  s1 == AddedAll(s0, a, kept)
<1>1. /\ map \in MapsOf /\ Held \subseteq Objects /\ Holds(State, Held) /\ State.c = container
      /\ State.e = elements /\ \A o \in Held : container[o] \in Roles
  BY HeldFacts
<1>2. /\ {w, g, b} = {"whiteRoot", "greyRoot", "blackRoot"} /\ b # g /\ w # g /\ w # b
      /\ w \in Roles /\ a \in Roles /\ b \in Roles /\ g \in Roles
  <2>1. /\ {w, g, b} = {"whiteRoot", "greyRoot", "blackRoot"} /\ b # g /\ w # g /\ w # b
    BY <1>1, RootNames
  <2>2. {"whiteRoot", "greyRoot", "blackRoot", "white"} \subseteq Roles
    BY DEF Roles
  <2>3. map \in [Roles -> Roles]
    BY <1>1, MapFacts
  <2>4. {"whiteRoot", "greyRoot", "blackRoot", "white"} \subseteq Roles => w \in Roles /\ a \in Roles /\ b \in Roles /\ g \in Roles
    BY <2>3
  <2> QED BY <2>1, <2>2, <2>4
<1>3. Bulk = {o \in Held : ~IsRoot(container[o])}
  BY BulkIs
<1>4. \A o \in Held : IsRoot(container[o]) <=> container[o] \in {w, g, b}
  BY <1>2 DEF IsRoot
<1>5. Holds(s0, K) /\ s0.c = container
  <2> DEFINE s == State  M == Held
  <2>1. Holds(s, M) /\ s.c = container /\ s.e = elements
    BY <1>1
  <2> HIDE DEF s, M, w
  <2>2. Holds([s EXCEPT !.e = [c \in Roles |-> IF c = w THEN s.e[c] ELSE <<>>]], {o \in M : s.c[o] = w})
        /\ [s EXCEPT !.e = [c \in Roles |-> IF c = w THEN s.e[c] ELSE <<>>]].c = s.c
    BY <1>2, <2>1, ClearedHolds
  <2> QED BY <2>1, <2>2 DEF s, M
<1> HIDE DEF s0
<1>6. kept \in Seq(Objects \ K)
  <2>1. S \subseteq Objects \ K
    BY <1>1, <1>3, <1>4
  <2> HIDE DEF K
  <2> QED BY <2>1
<1> HIDE DEF a
<1>7. Holds(s1, K \cup S) /\ \A x \in Objects : s1.c[x] = IF x \in S THEN a ELSE container[x]
  <2> HIDE DEF K
  <2>1. AllAddedTo(s0, AddedAll(s0, a, kept), K, S, a)
    BY <1>2, <1>5, <1>6, AddedAllHolds
  <2> QED BY <1>5, <2>1 DEF AllAddedTo
<1> HIDE DEF s1
<1>8. q \in Seq(Objects) /\ Distinct(q) /\ Elements(q) = R
  <2> DEFINE u == elements[b]  v == elements[g]
  <2>1. /\ u \in Seq(Objects) /\ v \in Seq(Objects) /\ Distinct(u) /\ Distinct(v)
        /\ Elements(u) = {o \in Held : container[o] = b} /\ Elements(v) = {o \in Held : container[o] = g}
    <3>1. VectorsOK
      BY ListedIsHeld
    <3> HIDE DEF b, g
    <3> QED BY <1>2, <3>1 DEF VectorsOK
  <2>2. Elements(u) \cap Elements(v) = {}
    BY <1>2, <2>1
  <2> HIDE DEF u, v
  <2>3. u \o v \in Seq(Objects) /\ Elements(u \o v) = Elements(u) \cup Elements(v) /\ Distinct(u \o v)
    BY <2>1, <2>2, ConcatElements
  <2> QED BY <2>1, <2>3 DEF u, v
<1>9. q \in Seq(Objects \ (K \cup S))
  <2>1. R \cap (K \cup S) = {}
    BY <1>2, <1>3, <1>4
  <2>2. \A i \in 1 .. Len(q) : q[i] \in R
    <3> HIDE DEF q, R
    <3> QED BY <1>8 DEF Elements
  <2> HIDE DEF q, R, K
  <2>3. DOMAIN q = 1 .. Len(q) /\ Len(q) \in Nat /\ \A i \in 1 .. Len(q) : q[i] \in Objects
    BY <1>8
  <2>4. \A i \in 1 .. Len(q) : q[i] \in Objects \ (K \cup S)
    BY <2>1, <2>2, <2>3
  <2>5. q = [i \in 1 .. Len(q) |-> q[i]]
    BY <1>8
  <2>6. q \in [1 .. Len(q) -> Objects \ (K \cup S)]
    BY <2>4, <2>5
  <2> QED BY <2>3, <2>6, SeqDef
<1> HIDE DEF w
<1>10. /\ Holds(AddedAll(s1, w, q), (K \cup S) \cup R)
       /\ \A x \in Objects : AddedAll(s1, w, q).c[x] = IF x \in R THEN w ELSE s1.c[x]
  <2> DEFINE M == K \cup S
  <2>1. Holds(s1, M) /\ q \in Seq(Objects \ M) /\ Distinct(q) /\ R = Elements(q)
    BY <1>7, <1>8, <1>9
  <2> HIDE DEF M, q, R
  <2>2. AllAddedTo(s1, AddedAll(s1, w, q), M, R, w)
    BY <1>2, <2>1, AddedAllHolds
  <2> QED BY <2>2 DEF AllAddedTo, M
<1> DEFINE t == AddedAll(s1, w, q)
<1>11. Kept(kept) = t
  BY DEF Kept, s1, s0, w, a
<1> HIDE DEF q
<1>12. L = (K \cup S) \cup R
  BY <1>4
<1>13. \A x \in L : t.c[x] = IF x \in S THEN a ELSE w
  <2>1. \A x \in L : x \in Objects /\ (x \in S \/ x \in K \/ x \in R) /\ (x \in K => x \notin R)
        /\ (x \in S => x \notin R /\ x \notin K) /\ (x \in K => container[x] = w)
    BY <1>1, <1>2, <1>3, <1>4, <1>12
  <2> HIDE DEF K, R
  <2> QED BY <2>1, <1>7, <1>10, <1>11
<1>14. \A x \in Objects \ L : t.c[x] = container[x]
  <2> HIDE DEF K, R
  <2> QED BY <1>7, <1>10, <1>11, <1>12
<1>15. Holds(t, L)
  BY <1>10, <1>12
<1> HIDE DEF t
<1> QED BY <1>11, <1>13, <1>14, <1>15 DEF KeptIn, a, w

\* cycle().
LEMMA CycleKeepsInv ==
  ASSUME ContainersInv, NEW S \in SUBSET Bulk, NEW kept \in SetToSeqs(S), Cycle(kept)
  PROVE  ContainersInv' /\ Cycles
<1> DEFINE t == Kept(kept)
           gone == Gone \cup (Bulk \ S)
           Roots == {o \in Held : IsRoot(container[o])}  L == S \cup Roots
<1>1. /\ map \in MapsOf /\ links = Links(map) /\ Held \subseteq Objects /\ Held = Known \ Gone
      /\ refCount \in [Objects -> Nat] /\ Gone \subseteq Known
      /\ \A o \in Held : container[o] \in Roles /\ (IsRoot(container[o]) => refCount[o] > 0)
  BY HeldFacts DEF Held
<1>2. Bulk = {o \in Held : ~IsRoot(container[o])}
  BY BulkIs
<1>3. kept \in Seq(S) /\ Distinct(kept) /\ Elements(kept) = S /\ ToSet(kept) = S
  <2> DEFINE n == Cardinality(S)
  <2>1. IsFiniteSet(S)
    <3>1. S \subseteq Objects
      BY <1>1, <1>2
    <3> QED BY <3>1, ContainersAssumption, FS_Subset
  <2>2. n \in Nat
    BY <2>1, FS_CardinalityType
  <2>3. kept \in [1 .. n -> S] /\ \A i, j \in 1 .. n : i # j => kept[i] # kept[j]
    BY DEF SetToSeqs
  <2> HIDE DEF n
  <2>4. kept \in Seq(S)
    BY <2>2, <2>3, SeqDef
  <2>5. Len(kept) = n /\ DOMAIN kept = 1 .. n
    BY <2>2, <2>3
  <2>6. Distinct(kept)
    BY <2>3, <2>5 DEF Distinct
  <2>7. IsFiniteSet(Elements(kept)) /\ Cardinality(Elements(kept)) = Cardinality(S)
    BY <2>4, <2>5, <2>6, DistinctCount DEF n
  <2>8. Elements(kept) \subseteq S
    BY <2>3, <2>5 DEF Elements
  <2>9. Elements(kept) = S
    <3> DEFINE E == Elements(kept)
    <3>1. IsFiniteSet(S) /\ E \subseteq S /\ Cardinality(E) = Cardinality(S)
      BY <2>1, <2>7, <2>8
    <3> HIDE DEF E
    <3>2. E = S
      BY <3>1, FS_Subset
    <3> QED BY <3>2 DEF E
  <2>10. ToSet(kept) = Elements(kept)
    BY <2>5 DEF ToSet, Elements
  <2> QED BY <2>4, <2>6, <2>9, <2>10
<1>4. /\ elements' = t.e /\ disposed' = <<>> /\ UNCHANGED <<map, links>>
      /\ container' = [o \in Objects |-> IF o \in gone THEN None ELSE t.c[o]]
      /\ index' = [o \in Objects |-> IF o \in gone THEN 0 ELSE t.i[o]]
      /\ refCount' = [o \in Objects |-> IF o \in gone THEN 0 ELSE refCount[o]]
  BY <1>3 DEF Cycle, Kept
<1>5. /\ Holds(t, L)
      /\ \A x \in L : t.c[x] = IF x \in S THEN map["white"] ELSE map["whiteRoot"]
      /\ \A x \in Objects \ L : t.c[x] = container[x]
  <2> HIDE DEF t, L
  <2>1. L = S \cup {o \in Held : IsRoot(container[o])}
    BY DEF L
  <2>2. KeptIn(Kept(kept), S, L)
    BY <1>3, <2>1, KeptHolds
  <2> QED BY <2>2 DEF KeptIn, t
<1> HIDE DEF t
<1>6. L \subseteq Held /\ L \cap gone = {} /\ Held = L \cup (gone \cap Held) /\ S \cap Roots = {}
      /\ L \subseteq Objects
  <2>1. S \subseteq Held /\ Roots \subseteq Held /\ S \cap Roots = {}
    BY <1>2
  <2>2. Bulk \cap Roots = {} /\ Held = Bulk \cup Roots /\ S \subseteq Bulk /\ Held \cap Gone = {}
    BY <1>1, <1>2
  <2> HIDE DEF Roots
  <2>3. L \subseteq Held /\ L \cap gone = {}
    BY <2>1, <2>2
  <2>4. Held = L \cup (gone \cap Held)
    BY <2>1, <2>2
  <2> QED BY <2>1, <2>3, <2>4, <1>1
<1>7. t \in States /\ t.c \in [Objects -> Roles \cup {None}] /\ t.i \in [Objects -> Nat]
      /\ t.e \in [Roles -> Seq(Objects)]
  BY <1>5 DEF Holds, States
<1> HIDE DEF gone, L
<1>8. /\ container' \in [Objects -> Roles \cup {None}] /\ index' \in [Objects -> Nat]
      /\ refCount' \in [Objects -> Nat]
      /\ \A x \in Objects \ gone : container'[x] = t.c[x] /\ index'[x] = t.i[x] /\ refCount'[x] = refCount[x]
      /\ \A x \in Objects \cap gone : container'[x] = None
  BY <1>1, <1>4, <1>7
<1>9. Once(disposed', {}) /\ Gone' = {}
  <2>1. Once(disposed', {})
    BY <1>4, NothingOnce
  <2> QED BY <2>1, OnceIsAll DEF Gone
<1>10. Held' = L
  <2>1. Held' = {x \in Objects : container'[x] # None}
    BY <1>9 DEF Held, Known
  <2>2. ASSUME NEW x \in L PROVE x \in Held'
    <3>1. x \in Objects /\ x \notin gone /\ t.c[x] \in Roles
      BY <1>5, <1>6 DEF Holds
    <3>2. container'[x] = t.c[x] /\ t.c[x] # None
      BY <1>8, <3>1, RolesAreSome
    <3> QED BY <2>1, <3>1, <3>2
  <2>3. ASSUME NEW x \in Held', x \notin L PROVE FALSE
    <3>1. x \in Objects /\ container'[x] # None
      BY <2>1
    <3>2. x \notin gone
      BY <1>8, <3>1
    <3>3. container[x] # None
      BY <1>5, <1>8, <2>3, <3>1, <3>2
    <3>4. x \in Known /\ x \notin Gone
      BY <3>1, <3>2, <3>3 DEF Known, gone
    <3> QED BY <1>1, <1>6, <2>3, <3>2, <3>4
  <2> QED BY <2>2, <2>3
<1>11. Holds(State', Held')
  <2> DEFINE u == State'
  <2>1. u.e = t.e /\ u.c = container' /\ u.i = index' /\ u = [e |-> t.e, c |-> container', i |-> index']
    BY <1>4 DEF State
  <2> HIDE DEF u
  <2>2. u \in States
    BY <1>7, <1>8, <2>1 DEF States
  <2>3. \A x \in L : u.c[x] = t.c[x] /\ u.i[x] = t.i[x]
    BY <1>6, <1>8, <2>1
  <2>4. Holds(u, L)
    BY <1>5, <2>1, <2>2, <2>3, HoldsOn
  <2> QED BY <1>10, <2>4 DEF u
<1>12. /\ \A x \in Roots : x \in L /\ container'[x] = map["whiteRoot"] /\ refCount'[x] = refCount[x]
       /\ \A x \in S : x \in L /\ container'[x] = map["white"]
  <2>1. \A x \in Roots : x \in L /\ x \notin S /\ x \in Objects \ gone
    BY <1>6 DEF L
  <2>2. \A x \in S : x \in L /\ x \in Objects \ gone
    BY <1>6 DEF L
  <2> QED BY <1>5, <1>8, <2>1, <2>2
<1>13. /\ map[map["white"]] = "white" /\ map[map["whiteRoot"]] = "whiteRoot" /\ ~IsRoot(map["white"])
       /\ \A r \in Roles : IsRoot(map[r]) <=> IsRoot(r)
  <2>1. map["white"] \in {"white", "black"}
    BY <1>1, RootNames
  <2>2. ~IsRoot(map["white"])
    BY <2>1 DEF IsRoot
  <2> QED BY <1>1, <2>2, RootNames
<1>14. ContainersInv'
  <2>1. map' \in MapsOf /\ links' = Links(map')
    BY <1>1, <1>4
  <2>2. \A o \in Held' : IsRoot(container'[o]) => refCount'[o] > 0
    <3> SUFFICES ASSUME NEW o \in L, IsRoot(container'[o]) PROVE refCount'[o] > 0
      BY <1>10
    <3>1. o \in Roots
      BY <1>12, <1>13 DEF L
    <3> QED BY <1>1, <1>12, <3>1
  <2>3. Once(disposed', Gone') /\ Gone' \subseteq Known'
    BY <1>9
  <2> QED BY <2>1, <2>2, <2>3, <1>8, <1>11 DEF ContainersInv
<1>15. Cycles
  <2>1. \A x \in Held : IsRoot(map[container[x]]) <=> x \in Roots
    BY <1>1, <1>13
  <2>2. \A x \in Held : IsRoot(map[container[x]]) => x \in Held' /\ map[container'[x]] = "whiteRoot"
    BY <2>1, <1>10, <1>12, <1>13
  <2>3. \A x \in Held' : ~IsRoot(map[container[x]]) => map[container'[x]] = "white" /\ x \in Bulk
    <3> SUFFICES ASSUME NEW x \in L, ~IsRoot(map[container[x]]) PROVE map[container'[x]] = "white" /\ x \in Bulk
      BY <1>10
    <3>1. x \in S
      BY <2>1, <1>6 DEF L
    <3> QED BY <3>1, <1>12, <1>13
  <2> QED BY <2>2, <2>3, <1>4, <1>6, <1>9, <1>10 DEF Cycles
<1> QED BY <1>14, <1>15

\* Every step keeps the invariant, and is a move, a swap or a cycle.
LEMMA NextKeepsInv ==
  ASSUME ContainersInv, ContainersNext
  PROVE  ContainersInv' /\ (Moves \/ Swaps \/ Cycles)
<1>1. ASSUME NEW o \in Objects, Root(o) \/ Unroot(o) PROVE ContainersInv' /\ Moves
  BY <1>1, RootKeepsInv
<1>2. ASSUME NEW o \in Objects, Grey(o) PROVE ContainersInv' /\ Moves
  BY <1>2, GreyKeepsInv
<1>3. ASSUME NEW o \in Objects, NEW r \in {"white", "whiteRoot"}, Add(o, r) PROVE ContainersInv' /\ Moves
  BY <1>3, AddKeepsInv
<1>4. ASSUME NEW ks \in BoundedSeq(Listed, 2), NEW more \in BOOLEAN, Step(ks, more)
      PROVE  ContainersInv' /\ Moves
  BY <1>4, StepKeepsInv
<1>5. ASSUME NEW S \in SUBSET Bulk, NEW kept \in SetToSeqs(S), Cycle(kept)
      PROVE  ContainersInv' /\ Cycles
  BY <1>5, CycleKeepsInv
<1> QED BY <1>1, <1>2, <1>3, <1>4, <1>5, SwapKeepsInv, PopKeepsInv DEF ContainersNext

\* The members of an object say where it is, in every reachable state.
LEMMA ContainersInvHolds == ContainersSpec => []ContainersInv
<1>1. ContainersInv /\ [ContainersNext]_containerVars => ContainersInv'
  <2> SUFFICES ASSUME ContainersInv, [ContainersNext]_containerVars PROVE ContainersInv'
    OBVIOUS
  <2>1. CASE ContainersNext
    BY <2>1, NextKeepsInv
  <2>2. CASE UNCHANGED containerVars
    <3>1. /\ map' = map /\ links' = links /\ disposed' = disposed /\ refCount' = refCount
          /\ elements' = elements /\ container' = container /\ index' = index
      BY <2>2 DEF containerVars
    <3>2. State' = State /\ Gone' = Gone /\ Known' = Known
      BY <3>1 DEF State, Gone, Known
    <3>3. Held' = Held
      BY <3>2 DEF Held
    <3> QED BY <3>1, <3>2, <3>3 DEF ContainersInv
  <2> QED BY <2>1, <2>2
<1> QED BY <1>1, InitContainersInv, PTL DEF ContainersSpec

---------------------------------------------------------------------------
(* What the statistics count.                                              *)

\* The vector q holds the objects of S, each once.
Vector(q, S) == q \in Seq(Objects) /\ Distinct(q) /\ Elements(q) = S

\* Vectors with nothing in common, one after the other.
LEMMA VectorConcat ==
  ASSUME NEW p, NEW q, NEW S, NEW T, Vector(p, S), Vector(q, T), S \cap T = {}
  PROVE  Vector(p \o q, S \cup T) /\ Len(p \o q) = Len(p) + Len(q) /\ Len(p) \in Nat /\ Len(q) \in Nat
<1>1. p \in Seq(Objects) /\ q \in Seq(Objects) /\ Distinct(p) /\ Distinct(q)
      /\ Elements(p) = S /\ Elements(q) = T
  BY DEF Vector
<1>2. /\ p \o q \in Seq(Objects) /\ Len(p \o q) = Len(p) + Len(q)
      /\ Elements(p \o q) = S \cup T /\ Distinct(p \o q)
  BY <1>1, ConcatElements
<1>3. Len(p) \in Nat /\ Len(q) \in Nat
  BY <1>1
<1> QED BY <1>2, <1>3 DEF Vector

\* The objects of a role.
Of(r) == {o \in Held : map[container[o]] = r}

\* The vector of a role.
LEMMA VectorOf ==
  ASSUME ContainersInv, NEW r \in Roles
  PROVE  Vector(elements[map[r]], Of(r)) /\ map[r] \in Roles
<1>1. VectorsOK
  BY ListedIsHeld
<1>2. map \in MapsOf /\ \A o \in Held : container[o] \in Roles
  BY HeldFacts
<1>3. map[r] \in Roles /\ map[map[r]] = r /\ \A q \in Roles : map[map[q]] = q
  BY <1>2, MapFacts
<1> DEFINE c == map[r]
<1>4. \A o \in Held : container[o] = c <=> map[container[o]] = r
  BY <1>2, <1>3
<1>5. Of(r) = {o \in Held : container[o] = c}
  BY <1>4 DEF Of
<1>6. c \in Roles
  BY <1>3
<1> HIDE DEF c
<1>7. elements[c] \in Seq(Objects) /\ Distinct(elements[c]) /\ Elements(elements[c]) = Of(r)
  BY <1>1, <1>5, <1>6 DEF VectorsOK
<1> QED BY <1>3, <1>7 DEF Vector, c

\* forEachCollectible() visits what is held, and once.
LEMMA VisitsAreHeld ==
  ASSUME ContainersInv
  PROVE  Vector(forEachCollectible, Held) /\ Len(forEachCollectible) = numCollectible
<1> DEFINE W == elements[map["whiteRoot"]]  G == elements[map["greyRoot"]]  B == elements[map["blackRoot"]]
           w == elements[map["white"]]  g == elements[map["grey"]]  b == elements[map["black"]]
<1>1. /\ Vector(W, Of("whiteRoot")) /\ Vector(G, Of("greyRoot")) /\ Vector(B, Of("blackRoot"))
      /\ Vector(w, Of("white")) /\ Vector(g, Of("grey")) /\ Vector(b, Of("black"))
  <2>1. {"white", "grey", "black", "whiteRoot", "greyRoot", "blackRoot"} \subseteq Roles
    BY DEF Roles
  <2> QED BY <2>1, VectorOf
<1>2. /\ forEachCollectible = ((W \o G) \o B) \o ((w \o g) \o b)
      /\ numCollectible = (Len(W) + Len(G) + Len(B)) + (Len(w) + Len(g) + Len(b))
  BY DEF forEachCollectible, forEach, numCollectible, rootSize, size, Role
<1> HIDE DEF W, G, B, w, g, b
<1>3. \A r, s : r # s => Of(r) \cap Of(s) = {}
  BY DEF Of
<1> DEFINE R1 == Of("whiteRoot")  R2 == Of("greyRoot")  R3 == Of("blackRoot")
           b1 == Of("white")  b2 == Of("grey")  b3 == Of("black")
<1>4. /\ R1 \cap R2 = {} /\ R1 \cap R3 = {} /\ R2 \cap R3 = {}
      /\ b1 \cap b2 = {} /\ b1 \cap b3 = {} /\ b2 \cap b3 = {}
      /\ R1 \cap b1 = {} /\ R1 \cap b2 = {} /\ R1 \cap b3 = {}
      /\ R2 \cap b1 = {} /\ R2 \cap b2 = {} /\ R2 \cap b3 = {}
      /\ R3 \cap b1 = {} /\ R3 \cap b2 = {} /\ R3 \cap b3 = {}
  BY <1>3
<1>5. ((R1 \cup R2) \cup R3) \cup ((b1 \cup b2) \cup b3) = Held
  <2>1. \A o \in Held : map[container[o]] \in Roles
    BY HeldFacts
  <2> QED BY <2>1 DEF Of, Roles
<1> HIDE DEF R1, R2, R3, b1, b2, b3
<1>6. Vector(W, R1) /\ Vector(G, R2) /\ Vector(B, R3) /\ Vector(w, b1) /\ Vector(g, b2) /\ Vector(b, b3)
  BY <1>1 DEF R1, R2, R3, b1, b2, b3
<1>7. Vector(W \o G, R1 \cup R2) /\ Len(W \o G) = Len(W) + Len(G) /\ Len(W) \in Nat /\ Len(G) \in Nat
  BY <1>4, <1>6, VectorConcat
<1>8. Vector(w \o g, b1 \cup b2) /\ Len(w \o g) = Len(w) + Len(g) /\ Len(w) \in Nat /\ Len(g) \in Nat
  BY <1>4, <1>6, VectorConcat
<1> DEFINE Y == W \o G  y == w \o g  S == R1 \cup R2  s == b1 \cup b2
<1>9. /\ S \cap R3 = {} /\ s \cap b3 = {} /\ (S \cup R3) \cap (s \cup b3) = {}
      /\ (S \cup R3) \cup (s \cup b3) = Held /\ Vector(Y, S) /\ Vector(y, s)
      /\ Len(Y) = Len(W) + Len(G) /\ Len(y) = Len(w) + Len(g)
  BY <1>4, <1>5, <1>7, <1>8
<1>10. forEachCollectible = (Y \o B) \o (y \o b)
  BY <1>2
<1> HIDE DEF Y, y, S, s
<1>11. Vector(Y \o B, S \cup R3) /\ Len(Y \o B) = Len(Y) + Len(B) /\ Len(B) \in Nat
  BY <1>6, <1>9, VectorConcat
<1>12. Vector(y \o b, s \cup b3) /\ Len(y \o b) = Len(y) + Len(b) /\ Len(b) \in Nat
  BY <1>6, <1>9, VectorConcat
<1> DEFINE Z == Y \o B  z == y \o b  T == S \cup R3  t == s \cup b3
<1>13. Vector(Z, T) /\ Vector(z, t) /\ T \cap t = {} /\ T \cup t = Held
  BY <1>9, <1>11, <1>12
<1> HIDE DEF T, t
<1>14. Len(Z) = Len(W) + Len(G) + Len(B) /\ Len(z) = Len(w) + Len(g) + Len(b) /\ forEachCollectible = Z \o z
  BY <1>9, <1>10, <1>11, <1>12
<1> HIDE DEF Z, z
<1>15. Vector(Z \o z, T \cup t) /\ Len(Z \o z) = Len(Z) + Len(z)
  BY <1>13, VectorConcat
<1> QED BY <1>2, <1>13, <1>14, <1>15

\* checkSanity() of a color would find nothing if it looked.
LEMMA ColorsHold ==
  ASSUME ContainersInv, NEW color \in Colors, NEW root \in BOOLEAN
  PROVE  checkSanity(color, root)
<1> DEFINE r == Role(color, root)  c == map[r]  q == elements[c]
<1>1. r \in Roles /\ ColorOf(r) = color /\ IsRoot(r) = root
  <2>1. CASE root = TRUE
    BY <2>1 DEF Role, Roles, ColorOf, IsRoot, Colors
  <2>2. CASE root = FALSE
    BY <2>2 DEF Role, Roles, ColorOf, IsRoot, Colors
  <2> QED BY <2>1, <2>2
<1> HIDE DEF r
<1>2. map \in MapsOf /\ links = Links(map) /\ VectorsOK /\ \A o \in Held : container[o] \in Roles
  BY HeldFacts, ListedIsHeld
<1>3. c \in Roles /\ map[c] = r /\ (IsRoot(c) <=> IsRoot(r))
  BY <1>1, <1>2, MapFacts
<1>4. links[c].color = ColorOf(map[c])
  <2> HIDE DEF c
  <2> QED BY <1>2, <1>3, LinkFacts
<1> HIDE DEF c
<1>5. /\ q \in Seq(Objects) /\ ToSet(q) = {o \in Held : container[o] = c}
      /\ \A o \in Held : /\ index[o] + 1 \in 1 .. Len(elements[container[o]]) /\ index[o] \in Nat
                         /\ elements[container[o]][index[o] + 1] = o
  <2>1. \A o \in Held : o \in Objects
    BY HeldFacts
  <2>2. /\ elements[c] \in Seq(Objects) /\ ToSet(elements[c]) = {o \in Held : container[o] = c}
    BY <1>2, <1>3 DEF VectorsOK
  <2>3. /\ \A o \in Held : /\ index[o] + 1 \in 1 .. Len(elements[container[o]])
                            /\ elements[container[o]][index[o] + 1] = o
    BY <1>2 DEF VectorsOK
  <2>4. \A o \in Objects : index[o] \in Nat
    BY <1>2 DEF VectorsOK
  <2> QED BY <2>1, <2>2, <2>3, <2>4
<1>6. forEach(color, root) = q
  BY DEF forEach, q, c, r
<1>7. ASSUME NEW i \in DOMAIN q
      PROVE  getColor(q[i]) = color /\ isRoot(q[i]) = root /\ checkIndex(q[i])
  <2> DEFINE o == q[i]
  <2>1. o \in Held /\ container[o] = c
    BY <1>5 DEF ToSet
  <2> HIDE DEF o, q
  <2>2. getColor(o) = color /\ isRoot(o) = root
    <3>1. getColor(o) = links[c].color
      BY <2>1 DEF getColor
    <3>2. getColor(o) = color
      BY <3>1, <1>1, <1>3, <1>4
    <3>3. isRoot(o) <=> IsRoot(r)
      BY <2>1, <1>3 DEF isRoot
    <3>4. isRoot(o) \in BOOLEAN /\ IsRoot(r) \in BOOLEAN
      BY DEF isRoot, IsRoot
    <3>5. isRoot(o) = IsRoot(r)
      BY <3>3, <3>4
    <3> QED BY <3>2, <3>5, <1>1
  <2>3. checkIndex(o)
    <3> DEFINE v == elements[container[o]]  k == index[o]
    <3>1. k + 1 \in 1 .. Len(v) /\ k \in Nat /\ v[k + 1] = o /\ v \in Seq(Objects)
      BY <2>1, <1>5 DEF q
    <3>2. Len(v) \in Nat
      BY <3>1
    <3> HIDE DEF v, k
    <3>3. k < Len(v) /\ v[k + 1] = o
      BY <3>1, <3>2
    <3> QED BY <3>3 DEF v, k, checkIndex
  <2> QED BY <2>2, <2>3 DEF o
<1> HIDE DEF q
<1> QED BY <1>6, <1>7 DEF checkSanity

\* The invariant gives the property.
LEMMA InvGivesSanity ==
  ASSUME ContainersInv
  PROVE  SanityHolds
<1> DEFINE v == forEachCollectible  n == numCollectible  d == numDisposed
<1>1. Vector(v, Held) /\ Len(v) = n
  BY VisitsAreHeld
<1>2. Held = Known \ Gone /\ Gone \subseteq Known /\ Known \subseteq Objects /\ Once(disposed, Gone)
      /\ Known = {o \in Objects : container[o] # None}
  BY DEF Held, Known, ContainersInv
<1>3. ToSet(v) = Held
  <2> HIDE DEF v
  <2>1. DOMAIN v = 1 .. Len(v) /\ Elements(v) = Held
    BY <1>1 DEF Vector
  <2> QED BY <2>1 DEF ToSet, Elements
<1>4. IsFiniteSet(Held) /\ Cardinality(Held) = n
  <2> HIDE DEF v, n
  <2>1. v \in Seq(Objects) /\ Distinct(v) /\ Elements(v) = Held
    BY <1>1 DEF Vector
  <2>2. IsFiniteSet(Elements(v)) /\ Cardinality(Elements(v)) = Len(v)
    BY <2>1, DistinctCount
  <2> QED BY <1>1, <2>1, <2>2
<1>5. IsFiniteSet(Gone) /\ d = Cardinality(Gone)
  BY <1>2, DisposedCount
<1>6. n + d = Cardinality(Known)
  <2> DEFINE H == Held  G == Gone
  <2>1. IsFiniteSet(H) /\ IsFiniteSet(G) /\ H \cap G = {} /\ H \cup G = Known
        /\ Cardinality(H) = n /\ Cardinality(G) = d
    BY <1>2, <1>4, <1>5
  <2> HIDE DEF H, G, n, d
  <2>2. Cardinality(H \cup G) = Cardinality(H) + Cardinality(G) - Cardinality(H \cap G)
    BY <2>1, FS_Union
  <2>3. Cardinality(H) \in Nat /\ Cardinality(G) \in Nat /\ Cardinality({}) = 0
    BY <2>1, FS_CardinalityType, FS_EmptySet
  <2>4. Cardinality(H \cap G) = 0
    BY <2>1, <2>3
  <2>5. n \in Nat /\ d \in Nat /\ Cardinality(Known) = n + d - 0
    BY <2>1, <2>2, <2>3, <2>4
  <2>6. n + d - 0 = n + d
    BY <2>5
  <2> QED BY <2>5, <2>6
<1>7. \A o \in Held : isRoot(o) => refCount[o] > 0
  BY HeldFacts DEF isRoot
<1>8. \A color \in Colors, root \in BOOLEAN : checkSanity(color, root)
  BY ColorsHold
<1> HIDE DEF v, n, d
<1>9. /\ ToSet(v) = Known \ Gone /\ Len(v) = n /\ n + d = Cardinality(Known)
      /\ \A o \in ToSet(v) : isRoot(o) => refCount[o] > 0
  BY <1>1, <1>2, <1>3, <1>6, <1>7
<1> QED BY <1>2, <1>8, <1>9 DEF SanityHolds, v, n, d

\* What checkSanity() of allocator.h is there to tell, and does not tell since
\* it drops what its lambda answers, is so however the vectors are moved
\* through (color_map.h, collectible_container.h), and the numbers that the
\* statistics print add up to the objects there are.
THEOREM SanityAlwaysHolds == ContainersSpec => []SanityHolds
<1>1. ContainersInv => SanityHolds
  BY InvGivesSanity
<1> QED BY <1>1, ContainersInvHolds, PTL

---------------------------------------------------------------------------
(* The vectors as sets.                                                    *)

\* Where an object is, by the container it names.
Whereabouts(o) == IF o \in Held THEN map[container[o]] ELSE IF o \in Gone THEN "disposed" ELSE "void"
PlacesOK == \A o \in Objects : Place(o) = Whereabouts(o)

\* The container an object names is the one that lists it.
LEMMA PlacesHold == ContainersInv => PlacesOK
<1> SUFFICES ASSUME ContainersInv, NEW o \in Objects PROVE Place(o) = Whereabouts(o)
  BY DEF PlacesOK
<1>1. Listed = Held /\ map \in MapsOf /\ \A x \in Held : container[x] \in Roles
  BY HeldFacts
<1>2. \A x \in Held : (CHOOSE r \in Roles : map[r] = container[x]) = map[container[x]]
  BY <1>1, MapFacts
<1> QED BY <1>1, <1>2 DEF Place, Whereabouts

SwappedSets == \A o \in Objects : Place(o)' = Sets!Swapped(Place(o))
MovedSets == \A o \in Objects : OneWay(Place(o), Place(o)')
CycledSets ==
  disposed' = <<>> /\ \A o \in Objects :
    Place(o)' = IF Place(o) \in Sets!RootPlaces THEN "whiteRoot"
                ELSE IF Place(o)' = "white" /\ o \in Bulk THEN "white" ELSE "void"

\* A call between two swaps moves objects one of the ways.
LEMMA MovesAreSets ==
  ASSUME ContainersInv, PlacesOK, PlacesOK', Moves
  PROVE  MovedSets
<1> SUFFICES ASSUME NEW o \in Objects PROVE OneWay(Place(o), Place(o)')
  BY DEF MovedSets
<1>1. Place(o) = Whereabouts(o) /\ Place(o)' = Whereabouts(o)'
  BY DEF PlacesOK
<1>2. Whereabouts(o)' = IF o \in Held' THEN map'[container'[o]] ELSE IF o \in Gone' THEN "disposed" ELSE "void"
  BY DEF Whereabouts
<1>3. CASE o \in Held
  BY <1>1, <1>2, <1>3 DEF Moves, Whereabouts
<1>4. CASE o \notin Held /\ o \in Held'
  BY <1>1, <1>2, <1>4 DEF Moves, Whereabouts, OneWay
<1>5. CASE o \notin Held /\ o \notin Held'
  <2>1. Place(o) = (IF o \in Gone THEN "disposed" ELSE "void")
    BY <1>1, <1>5 DEF Whereabouts
  <2>2. Place(o)' = (IF o \in Gone' THEN "disposed" ELSE "void") /\ (o \in Gone' => o \in Gone)
    BY <1>1, <1>2, <1>5 DEF Moves
  <2> QED BY <2>1, <2>2 DEF OneWay
<1> QED BY <1>3, <1>4, <1>5

\* swap() is Swapped.
LEMMA SwapsAreSets ==
  ASSUME ContainersInv, PlacesOK, PlacesOK', Swaps
  PROVE  SwappedSets
<1> SUFFICES ASSUME NEW o \in Objects PROVE Place(o)' = Sets!Swapped(Place(o))
  BY DEF SwappedSets
<1>1. Place(o) = Whereabouts(o) /\ Place(o)' = Whereabouts(o)'
  BY DEF PlacesOK
<1>2. Whereabouts(o)' = IF o \in Held' THEN map'[container'[o]] ELSE IF o \in Gone' THEN "disposed" ELSE "void"
  BY DEF Whereabouts
<1>3. /\ Held' \subseteq Held /\ Gone' = Gone \cup (Held \ Held')
      /\ \A x \in Held : x \in Held' <=> map[container[x]] # "white"
      /\ \A x \in Held' : map'[container'[x]] = Flip[map[container[x]]]
  BY DEF Swaps
<1>4. \A x \in Held : map[container[x]] \in Roles /\ x \notin Gone
  BY HeldFacts DEF Held
<1>5. CASE o \in Held'
  <2> DEFINE p == map[container[o]]
  <2>1. Place(o) = p /\ Place(o)' = Flip[p] /\ p \in Roles /\ p # "white"
    BY <1>1, <1>2, <1>3, <1>4, <1>5 DEF Whereabouts
  <2> HIDE DEF p
  <2>2. Flip[p] = Sets!Swapped(p)
    BY <2>1 DEF Flip, Roles, Sets!Swapped
  <2> QED BY <2>1, <2>2
<1>6. CASE o \in Held /\ o \notin Held'
  <2>1. Place(o) = "white" /\ Place(o)' = "disposed"
    BY <1>1, <1>2, <1>3, <1>4, <1>6 DEF Whereabouts
  <2> QED BY <2>1 DEF Sets!Swapped
<1>7. CASE o \notin Held
  <2>1. Place(o) = (IF o \in Gone THEN "disposed" ELSE "void") /\ Place(o)' = Place(o)
    BY <1>1, <1>2, <1>3, <1>7 DEF Whereabouts
  <2> QED BY <2>1 DEF Sets!Swapped
<1> QED BY <1>3, <1>5, <1>6, <1>7

\* cycle() keeps the roots and what it is told to keep.
LEMMA CyclesAreSets ==
  ASSUME ContainersInv, PlacesOK, PlacesOK', Cycles
  PROVE  CycledSets
<1>1. /\ map' = map /\ Gone' = {} /\ disposed' = <<>> /\ Held' \subseteq Held
      /\ \A x \in Held : IsRoot(map[container[x]]) => x \in Held' /\ map[container'[x]] = "whiteRoot"
      /\ \A x \in Held' : ~IsRoot(map[container[x]]) => map[container'[x]] = "white" /\ x \in Bulk
  BY DEF Cycles
<1> SUFFICES ASSUME NEW o \in Objects
             PROVE  Place(o)' = IF Place(o) \in Sets!RootPlaces THEN "whiteRoot"
                                ELSE IF Place(o)' = "white" /\ o \in Bulk THEN "white" ELSE "void"
  BY <1>1 DEF CycledSets
<1>2. Place(o) = Whereabouts(o) /\ Place(o)' = Whereabouts(o)'
  BY DEF PlacesOK
<1>3. Place(o)' = IF o \in Held' THEN map[container'[o]] ELSE "void"
  BY <1>1, <1>2 DEF Whereabouts
<1>4. CASE o \in Held
  <2>1. Place(o) = map[container[o]]
    BY <1>2, <1>4 DEF Whereabouts
  <2>2. Place(o) \in Sets!RootPlaces <=> IsRoot(map[container[o]])
    BY <2>1 DEF Sets!RootPlaces, IsRoot
  <2>3. CASE IsRoot(map[container[o]])
    BY <1>1, <1>3, <1>4, <2>2, <2>3
  <2>4. CASE ~IsRoot(map[container[o]]) /\ o \in Held'
    BY <1>1, <1>3, <1>4, <2>2, <2>4
  <2>5. CASE ~IsRoot(map[container[o]]) /\ o \notin Held'
    BY <1>1, <1>3, <1>4, <2>2, <2>5
  <2> QED BY <2>3, <2>4, <2>5
<1>5. CASE o \notin Held
  <2>1. Place(o) \in {"disposed", "void"} /\ Place(o)' = "void"
    BY <1>1, <1>2, <1>3, <1>5 DEF Whereabouts
  <2> QED BY <2>1 DEF Sets!RootPlaces
<1> QED BY <1>4, <1>5

\* A colour map of vectors and indices moves objects as Allocator moves the
\* elements of its sets, whatever call of color_map.h it is (add(), step(),
\* swap(), popDisposed(), swap(tobekept)): the sets lose nothing but an order.
THEOREM MovesAreAsSets == ContainersSpec => MovesAsSets
<1>1. ContainersInv /\ PlacesOK /\ PlacesOK' /\ [ContainersNext]_containerVars
        => [SwappedSets \/ MovedSets \/ CycledSets]_containerVars
  <2> SUFFICES ASSUME ContainersInv, PlacesOK, PlacesOK', ContainersNext
               PROVE  SwappedSets \/ MovedSets \/ CycledSets
    OBVIOUS
  <2>1. Moves \/ Swaps \/ Cycles
    BY NextKeepsInv
  <2> QED BY <2>1, MovesAreSets, SwapsAreSets, CyclesAreSets
<1>2. [SwappedSets \/ MovedSets \/ CycledSets]_containerVars =>
      [ \/ \A o \in Objects : Place(o)' = Sets!Swapped(Place(o))
        \/ \A o \in Objects :
             \/ Place(o)' \in {Place(o), Sets!GreyElements(Place(o)), Sets!OtherElements(Place(o))}
             \/ Place(o)' = Sets!Scanned(Place(o)) /\ Place(o) # "white"
             \/ Place(o) \in {"void", "disposed"} /\ Place(o)' \in {"white", "whiteRoot", "void"}
        \/ disposed' = <<>> /\ \A o \in Objects :
             Place(o)' = IF Place(o) \in Sets!RootPlaces THEN "whiteRoot"
                         ELSE IF Place(o)' = "white" /\ o \in Bulk THEN "white" ELSE "void"
      ]_containerVars
  BY DEF SwappedSets, MovedSets, CycledSets, OneWay
<1>3. ContainersInv => PlacesOK
  BY PlacesHold
<1> QED BY <1>1, <1>2, <1>3, ContainersInvHolds, PTL DEF ContainersSpec, MovesAsSets
=============================================================================
