---------------------------- MODULE KernelProofs ----------------------------
(***************************************************************************)
(* The proofs about three machines of the kernel run, for every number of  *)
(* pages, of conses in a page, of Guards and of objects: the switches of   *)
(* the C++ collector do as they are told, no cons is in two hands, the     *)
(* iterator over the conses is as precise as its arithmetic allows, and    *)
(* the graph of the simulation is the one of the heap.                     *)
(***************************************************************************)
EXTENDS CollectorSwitch, ConsPages, SimGraph, ReachabilityTheorems,
        FiniteSetTheorems, SequenceTheorems

---------------------------------------------------------------------------
(* The switches.                                                           *)

None == [s \in Switches |-> 0]

\* What is due when the last Guard is gone: the steps, or what the first one saved.
Due == IF guards = <<>> THEN steps ELSE guards[1]

\* What is due was asked for; a second Guard finds nothing to save, and what
\* is off is kept for later.
SwitchInv ==
  /\ steps \in [Switches -> Nat] /\ back \in [Switches -> Nat]
  /\ asked \in [Switches -> Nat \ {0}] /\ guards \in Seq([Switches -> Nat])
  /\ \A s \in Switches : Due[s] = IF s \in off THEN 0 ELSE asked[s]
  /\ \A s \in off \cap Switches : back[s] = asked[s]
  /\ guards # <<>> => steps = None
  /\ \A i \in 2 .. Len(guards) : guards[i] = None

LEMMA StepsAreNumbers ==
  ASSUME NEW n \in 1 .. MaxSteps
  PROVE  n \in Nat \ {0}
  OBVIOUS

LEMMA InitInv == SwitchInit => SwitchInv
<1> SUFFICES ASSUME SwitchInit PROVE SwitchInv
  OBVIOUS
<1>1. steps \in [Switches -> Nat \ {0}] /\ back = steps /\ asked = steps /\ guards = <<>> /\ off = {}
  BY StepsAreNumbers DEF SwitchInit
<1> QED BY <1>1 DEF SwitchInv, Due

\* Without a Guard what is due are the steps.
LEMMA CallsKeepInv ==
  ASSUME SwitchInv, NEW s \in Switches,
         Disable(s) \/ Enable(s) \/ \E n \in 1 .. MaxSteps : Set(s, n)
  PROVE  SwitchInv'
<1>1. guards = <<>> /\ guards' = guards
  BY DEF Disable, Enable, Set
<1>2. CASE Disable(s)
  BY <1>1, <1>2 DEF Disable, SwitchInv, Due
<1>3. CASE Enable(s)
  BY <1>1, <1>3 DEF Enable, SwitchInv, Due
<1>4. ASSUME NEW n \in 1 .. MaxSteps, Set(s, n) PROVE SwitchInv'
  BY <1>1, <1>4, StepsAreNumbers DEF Set, SwitchInv, Due
<1> QED BY <1>2, <1>3, <1>4

LEMMA LockKeepsInv ==
  ASSUME SwitchInv, Lock
  PROVE  SwitchInv'
<1>1. /\ guards' = Append(guards, steps) /\ steps' = None
      /\ back' = back /\ asked' = asked /\ off' = off
  BY DEF Lock, None
<1>2. guards \in Seq([Switches -> Nat]) /\ steps \in [Switches -> Nat] /\ None \in [Switches -> Nat]
  BY DEF SwitchInv, None
<1>3. /\ guards' \in Seq([Switches -> Nat]) /\ guards' # <<>> /\ Len(guards') = Len(guards) + 1
      /\ guards'[Len(guards) + 1] = steps /\ \A i \in 1 .. Len(guards) : guards'[i] = guards[i]
  BY <1>1, <1>2, AppendFacts
<1>4. Due' = Due
  BY <1>2, <1>3 DEF Due
<1>5. ASSUME NEW i \in 2 .. Len(guards') PROVE guards'[i] = None
  <2>1. CASE i = Len(guards) + 1
    BY <2>1, <1>2, <1>3 DEF SwitchInv
  <2>2. CASE i # Len(guards) + 1
    <3>1. i \in 2 .. Len(guards) /\ i \in 1 .. Len(guards)
      <4> DEFINE n == Len(guards)
      <4>1. n \in Nat /\ i \in 2 .. n + 1 /\ i # n + 1
        BY <2>2, <1>2, <1>3
      <4> HIDE DEF n
      <4>2. i \in 2 .. n /\ i \in 1 .. n
        BY <4>1
      <4> QED BY <4>2 DEF n
    <3>2. guards[i] = None
      BY <3>1 DEF SwitchInv
    <3> QED BY <3>1, <3>2, <1>3
  <2> QED BY <2>1, <2>2
<1> QED BY <1>1, <1>2, <1>3, <1>4, <1>5 DEF SwitchInv

LEMMA UnlockKeepsInv ==
  ASSUME SwitchInv, Unlock
  PROVE  SwitchInv'
<1>1. /\ guards # <<>> /\ steps' = guards[Len(guards)] /\ guards' = SubSeq(guards, 1, Len(guards) - 1)
      /\ back' = back /\ asked' = asked /\ off' = off
  BY DEF Unlock, Last, Front
<1>2. guards \in Seq([Switches -> Nat]) /\ Len(guards) \in Nat \ {0}
  BY <1>1, FrontFacts DEF SwitchInv
<1>3. /\ guards' \in Seq([Switches -> Nat]) /\ Len(guards') = Len(guards) - 1
      /\ \A i \in 1 .. Len(guards') : guards'[i] = guards[i]
  BY <1>1, <1>2, FrontFacts
<1>4. steps' \in [Switches -> Nat] /\ (guards' # <<>> => steps' = None)
  BY <1>1, <1>2, <1>3 DEF SwitchInv
<1>5. Due' = Due
  <2>1. CASE Len(guards) = 1
    <3>1. guards' = <<>> /\ steps' = guards[1]
      BY <2>1, <1>1, <1>3
    <3> QED BY <3>1, <1>1 DEF Due
  <2>2. CASE Len(guards) # 1
    <3>1. Len(guards') \in Nat \ {0}
      BY <2>2, <1>2, <1>3
    <3>2. guards' # <<>> /\ guards'[1] = guards[1]
      BY <3>1, <1>3
    <3> QED BY <3>2, <1>1 DEF Due
  <2> QED BY <2>1, <2>2
<1> QED BY <1>1, <1>3, <1>4, <1>5 DEF SwitchInv

LEMMA InvGivesSteps ==
  ASSUME SwitchInv
  PROVE  StepsAsAsked
  BY DEF SwitchInv, Due, None, StepsAsAsked, Get

\* In whatever order a program calls disableCollector(), enableCollector() of
\* what is off, setGarbageSteps(), their likes for recycling, and makes Guards,
\* none of the calls under a Guard, the collector takes the steps that were
\* asked for last (allocator.h:552-632, 206-228).
THEOREM StepsAlwaysAsAsked == SwitchSpec => []StepsAsAsked
<1>1. SwitchInv /\ [SwitchNext]_switchVars => SwitchInv'
  <2> SUFFICES ASSUME SwitchInv, [SwitchNext]_switchVars PROVE SwitchInv'
    OBVIOUS
  <2>1. CASE UNCHANGED switchVars
    BY <2>1 DEF switchVars, SwitchInv, Due
  <2> QED BY <2>1, CallsKeepInv, LockKeepsInv, UnlockKeepsInv DEF SwitchNext
<1>2. SwitchInv => StepsAsAsked
  BY InvGivesSteps
<1> QED BY <1>1, <1>2, InitInv, PTL DEF SwitchSpec

---------------------------------------------------------------------------
(* Sequences as lists of sets.                                             *)

\* A sequence q without repetitions holds the elements of the finite set S.
Lists(q, S) ==
  /\ q \in Seq(Nat) /\ IsInjective(q) /\ ToSet(q) = S
  /\ IsFiniteSet(S) /\ Len(q) = Cardinality(S)

LEMMA AppendLists ==
  ASSUME NEW q, NEW S, Lists(q, S), NEW c \in Nat \ S
  PROVE  Lists(Append(q, c), S \cup {c})
<1> DEFINE r == Append(q, c)
<1>1. /\ q \in Seq(Nat) /\ Len(q) \in Nat /\ DOMAIN q = 1 .. Len(q) /\ ToSet(q) = {q[i] : i \in 1 .. Len(q)}
      /\ ToSet(q) = S /\ IsFiniteSet(S) /\ Len(q) = Cardinality(S)
      /\ \A i, j \in 1 .. Len(q) : q[i] = q[j] => i = j
  <2>1. /\ q \in Seq(Nat) /\ IsInjective(q) /\ ToSet(q) = S
        /\ IsFiniteSet(S) /\ Len(q) = Cardinality(S)
    BY DEF Lists
  <2>2. Len(q) \in Nat /\ DOMAIN q = 1 .. Len(q)
    BY <2>1
  <2>3. ToSet(q) = {q[i] : i \in 1 .. Len(q)}
    BY <2>2 DEF ToSet
  <2>4. \A i, j \in 1 .. Len(q) : q[i] = q[j] => i = j
    BY <2>1, <2>2 DEF IsInjective
  <2> QED BY <2>1, <2>2, <2>3, <2>4
<1>2. /\ r \in Seq(Nat) /\ Len(r) = Len(q) + 1 /\ DOMAIN r = 1 .. Len(q) + 1
      /\ r[Len(q) + 1] = c /\ \A i \in 1 .. Len(q) : r[i] = q[i]
  <2>1. /\ r \in Seq(Nat) /\ Len(r) = Len(q) + 1
        /\ r[Len(q) + 1] = c /\ \A i \in 1 .. Len(q) : r[i] = q[i]
    BY <1>1, AppendFacts
  <2> HIDE DEF r
  <2>2. DOMAIN r = 1 .. Len(r)
    BY <2>1
  <2> QED BY <2>1, <2>2
<1> HIDE DEF r
<1>3. \A i \in 1 .. Len(q) + 1 : i = Len(q) + 1 \/ i \in 1 .. Len(q)
  BY <1>1
<1>4. ToSet(r) = S \cup {c}
  <2>1. ToSet(r) = {r[i] : i \in 1 .. Len(q) + 1}
    BY <1>2 DEF ToSet
  <2>2. \A i \in 1 .. Len(q) : i \in 1 .. Len(q) + 1
    BY <1>1
  <2>3. Len(q) + 1 \in 1 .. Len(q) + 1
    BY <1>1
  <2> QED BY <1>1, <1>2, <1>3, <2>1, <2>2, <2>3
<1>5. IsInjective(r)
  <2>1. \A i \in 1 .. Len(q) : r[i] # c
    BY <1>1, <1>2
  <2> SUFFICES ASSUME NEW i \in 1 .. Len(q) + 1, NEW j \in 1 .. Len(q) + 1, r[i] = r[j]
               PROVE  i = j
    BY <1>2 DEF IsInjective
  <2>2. CASE i = Len(q) + 1
    BY <2>1, <2>2, <1>2, <1>3
  <2>3. CASE j = Len(q) + 1
    BY <2>1, <2>3, <1>2, <1>3
  <2>4. CASE i \in 1 .. Len(q) /\ j \in 1 .. Len(q)
    BY <2>4, <1>1, <1>2
  <2> QED BY <2>2, <2>3, <2>4, <1>3
<1>6. IsFiniteSet(S \cup {c}) /\ Cardinality(S \cup {c}) = Cardinality(S) + 1
  BY <1>1, FS_AddElement
<1> QED BY <1>1, <1>2, <1>4, <1>5, <1>6 DEF Lists, r

\* Without its last element.
LEMMA FrontLists ==
  ASSUME NEW q, NEW S, Lists(q, S), q # <<>>
  PROVE  /\ Last(q) \in S /\ Lists(Front(q), S \ {Last(q)})
         /\ Len(Front(q)) = Len(q) - 1 /\ Len(q) \in Nat
<1> DEFINE r == SubSeq(q, 1, Len(q) - 1)  c == q[Len(q)]
<1>0. Last(q) = c /\ Front(q) = r
  BY DEF Last, Front
<1>1. /\ q \in Seq(Nat) /\ Len(q) \in Nat \ {0} /\ DOMAIN q = 1 .. Len(q)
      /\ ToSet(q) = {q[i] : i \in 1 .. Len(q)}
      /\ ToSet(q) = S /\ IsFiniteSet(S) /\ Len(q) = Cardinality(S)
      /\ \A i, j \in 1 .. Len(q) : q[i] = q[j] => i = j
  BY DEF Lists, IsInjective, ToSet
<1>2. /\ r \in Seq(Nat) /\ Len(r) = Len(q) - 1 /\ DOMAIN r = 1 .. Len(q) - 1
      /\ \A i \in 1 .. Len(q) - 1 : r[i] = q[i]
  BY <1>1, FrontFacts
<1>3. c \in S
  BY <1>1
<1> HIDE DEF r
<1>4. ToSet(r) = S \ {c}
  <2>1. ToSet(r) = {r[i] : i \in 1 .. Len(q) - 1}
    BY <1>2 DEF ToSet
  <2>2. \A i \in 1 .. Len(q) - 1 : i \in 1 .. Len(q) /\ i # Len(q)
    BY <1>1
  <2>3. \A i \in 1 .. Len(q) : i = Len(q) \/ i \in 1 .. Len(q) - 1
    BY <1>1
  <2>4. Len(q) \in 1 .. Len(q)
    BY <1>1
  <2>5. \A i \in 1 .. Len(q) - 1 : q[i] # c
    BY <1>1, <2>2, <2>4
  <2>6. ASSUME NEW x \in ToSet(r) PROVE x \in S \ {c}
    <3>1. PICK i \in 1 .. Len(q) - 1 : x = r[i]
      BY <2>1
    <3>2. x = q[i] /\ i \in 1 .. Len(q)
      BY <3>1, <1>2, <2>2
    <3> QED BY <3>2, <2>5, <1>1
  <2>7. ASSUME NEW x \in S \ {c} PROVE x \in ToSet(r)
    <3>1. PICK i \in 1 .. Len(q) : x = q[i]
      BY <1>1
    <3>2. i \in 1 .. Len(q) - 1
      BY <3>1, <2>3
    <3> QED BY <3>1, <3>2, <1>2, <2>1
  <2> QED BY <2>6, <2>7
<1>5. IsInjective(r)
  <2>1. \A i \in 1 .. Len(q) - 1 : i \in 1 .. Len(q)
    BY <1>1
  <2> QED BY <1>1, <1>2, <2>1 DEF IsInjective
<1>6. IsFiniteSet(S \ {c}) /\ Cardinality(S \ {c}) = Cardinality(S) - 1
  BY <1>1, <1>3, FS_RemoveElement
<1>7. Lists(r, S \ {c})
  BY <1>1, <1>2, <1>4, <1>5, <1>6 DEF Lists
<1> QED BY <1>0, <1>1, <1>2, <1>3, <1>7

---------------------------------------------------------------------------
(* Which conses are in whose hands.                                        *)

PagesInv ==
  /\ pages \in 0 .. MaxPages /\ pos \in 1 .. PageSize
  /\ pages = 0 => pos = PageSize
  /\ Lists(recycled, HandedOut \ used)
  /\ used \subseteq HandedOut

\* Pages are filled one after the other.
LEMMA HandedOutFacts ==
  ASSUME PagesInv
  PROVE  /\ numHandedOut \in Nat /\ numHandedOut <= MaxPages * PageSize
         /\ MaxPages * PageSize \in Nat /\ pages * PageSize \in Nat
         /\ numHandedOut = pages * PageSize - PageSize + pos
         /\ pages = 0 => numHandedOut = 0
         /\ IsFiniteSet(HandedOut) /\ Cardinality(HandedOut) = numHandedOut
         /\ \A S \in SUBSET HandedOut : IsFiniteSet(S) /\ Cardinality(S) \in Nat
<1>1. /\ PageSize \in Nat \ {0} /\ MaxPages \in Nat /\ pages \in Nat /\ pages <= MaxPages
      /\ pos \in 1 .. PageSize /\ (pages = 0 => pos = PageSize)
  BY PagesAssumption DEF PagesInv
<1>2. /\ pages * PageSize \in Nat /\ MaxPages * PageSize \in Nat
      /\ (pages - 1) * PageSize = pages * PageSize - PageSize
      /\ (pages = 0 => pages * PageSize = 0)
  <2>1. \A x, y \in Nat : x * y \in Nat
    OBVIOUS
  <2>2. (pages - 1) * PageSize = pages * PageSize - PageSize
    BY <1>1
  <2> QED BY <1>1, <2>1, <2>2
<1>3. pages # 0 => PageSize <= pages * PageSize
  <2> SUFFICES ASSUME pages # 0 PROVE PageSize <= pages * PageSize
    OBVIOUS
  <2>1. PageSize * 0 + PageSize <= PageSize * pages
    BY <1>1, Multiples
  <2> QED BY <1>1, <2>1
<1>4. pages * PageSize <= MaxPages * PageSize
  <2>1. CASE pages = MaxPages
    BY <2>1, <1>2
  <2>2. CASE pages # MaxPages
    <3>1. PageSize * pages + PageSize <= PageSize * MaxPages
      BY <1>1, <2>2, Multiples
    <3> QED BY <3>1, <1>1
  <2> QED BY <2>1, <2>2
<1>5. numHandedOut = pages * PageSize - PageSize + pos
  BY <1>2 DEF numHandedOut
<1>6. /\ numHandedOut \in Nat /\ numHandedOut <= MaxPages * PageSize
      /\ pages = 0 => numHandedOut = 0
  BY <1>1, <1>2, <1>3, <1>4, <1>5
<1>7. IsFiniteSet(HandedOut) /\ Cardinality(HandedOut) = numHandedOut
  <2> DEFINE m == numHandedOut
  <2>1. m \in Nat /\ 0 \in Int /\ m - 1 \in Int
    BY <1>6
  <2> HIDE DEF m
  <2>2. /\ IsFiniteSet(0 .. m - 1)
        /\ Cardinality(0 .. m - 1) = IF 0 > m - 1 THEN 0 ELSE m - 1 - 0 + 1
    BY <2>1, FS_Interval
  <2>3. Cardinality(0 .. m - 1) = m
    BY <2>1, <2>2
  <2> QED BY <2>2, <2>3 DEF HandedOut, m
<1>8. \A S \in SUBSET HandedOut : IsFiniteSet(S) /\ Cardinality(S) \in Nat
  BY <1>7, FS_Subset, FS_CardinalityType
<1> QED BY <1>2, <1>5, <1>6, <1>7, <1>8

LEMMA InitPages == PagesInit => PagesInv
<1> SUFFICES ASSUME PagesInit PROVE PagesInv
  OBVIOUS
<1>1. pages = 0 /\ pos = PageSize /\ recycled = <<>> /\ used = {}
  BY DEF PagesInit
<1>2. PageSize \in Nat \ {0} /\ MaxPages \in Nat
  BY PagesAssumption
<1>3. HandedOut = {}
  <2>1. numHandedOut = 0
    BY <1>1, <1>2 DEF numHandedOut
  <2> QED BY <2>1 DEF HandedOut
<1>4. Lists(<<>>, {})
  <2>1. <<>> \in Seq(Nat) /\ Len(<<>>) = 0 /\ DOMAIN <<>> = {}
    OBVIOUS
  <2>2. IsInjective(<<>>) /\ ToSet(<<>>) = {}
    BY <2>1 DEF IsInjective, ToSet
  <2> QED BY <2>1, <2>2, FS_EmptySet DEF Lists
<1> QED BY <1>1, <1>2, <1>3, <1>4 DEF PagesInv

\* A fresh cons is the one after all that were handed out.
LEMMA NextConsInv ==
  ASSUME PagesInv, NextCons
  PROVE  PagesInv'
<1>0. /\ PageSize \in Nat \ {0} /\ MaxPages \in Nat /\ pages \in Nat /\ pages <= MaxPages
      /\ pos \in 1 .. PageSize /\ (pages = 0 => pos = PageSize)
  BY PagesAssumption DEF PagesInv
<1>1. CASE recycled = <<>>
  <2>1. /\ pages' = (IF pos = PageSize THEN pages + 1 ELSE pages)
        /\ pages' <= MaxPages
        /\ pos' = (IF pos = PageSize THEN 1 ELSE pos + 1)
        /\ used' = used \cup {numHandedOut' - 1} /\ recycled' = recycled
    <3>1. numHandedOut' = (pages' - 1) * PageSize + pos'
      BY DEF numHandedOut
    <3>2. /\ pages' = (IF pos = PageSize THEN pages + 1 ELSE pages)
          /\ pages' <= MaxPages
          /\ pos' = (IF pos = PageSize THEN 1 ELSE pos + 1)
          /\ used' = used \cup {(pages' - 1) * PageSize + pos' - 1} /\ recycled' = recycled
      BY <1>1 DEF NextCons
    <3>3. pages' \in Nat /\ pos' \in Nat
      BY <3>2, <1>0
    <3>4. (pages' - 1) * PageSize \in Int
      BY <3>3, <1>0
    <3>5. (pages' - 1) * PageSize + pos' - 1 = numHandedOut' - 1
      BY <3>1, <3>3, <3>4
    <3> DEFINE c == (pages' - 1) * PageSize + pos' - 1
    <3>6. used' = used \cup {c} /\ c = numHandedOut' - 1
      BY <3>2, <3>5
    <3> HIDE DEF c
    <3>7. used' = used \cup {numHandedOut' - 1}
      BY <3>6
    <3> QED BY <3>2, <3>7
  <2>2. /\ pages' \in 0 .. MaxPages /\ pos' \in 1 .. PageSize
        /\ pages' = 0 => pos' = PageSize
    BY <2>1, <1>0
  <2>3. numHandedOut' = numHandedOut + 1
    <3>1. numHandedOut = pages * PageSize - PageSize + pos /\ pages * PageSize \in Nat
      BY HandedOutFacts
    <3>2. CASE pos = PageSize
      <4>0. numHandedOut' = (pages' - 1) * PageSize + pos' /\ pages' = pages + 1 /\ pos' = 1
        BY <3>2, <2>1 DEF numHandedOut
      <4>1. pages' - 1 = pages
        BY <1>0, <4>0
      <4>2. numHandedOut' = pages * PageSize + 1
        BY <4>0, <4>1
      <4> QED BY <3>1, <3>2, <4>2, <1>0
    <3>3. CASE pos # PageSize
      <4>0. numHandedOut' = (pages' - 1) * PageSize + pos' /\ pages' = pages /\ pos' = pos + 1
        BY <3>3, <2>1 DEF numHandedOut
      <4>1. numHandedOut' = (pages - 1) * PageSize + (pos + 1)
        BY <4>0
      <4>2. (pages - 1) * PageSize \in Int
        BY <1>0
      <4> QED BY <1>0, <4>1, <4>2 DEF numHandedOut
    <3> QED BY <3>2, <3>3
  <2>4. HandedOut' = HandedOut \cup {numHandedOut} /\ used' = used \cup {numHandedOut}
    <3>1. numHandedOut \in Nat
      BY HandedOutFacts
    <3> DEFINE m == numHandedOut
    <3>2. HandedOut = 0 .. m - 1 /\ HandedOut' = 0 .. m + 1 - 1 /\ m + 1 - 1 = m /\ m \in Nat
      BY <2>3, <3>1 DEF HandedOut
    <3> HIDE DEF m
    <3>3. 0 .. m + 1 - 1 = (0 .. m - 1) \cup {m}
      BY <3>2
    <3>4. HandedOut' = HandedOut \cup {m}
      BY <3>2, <3>3
    <3>5. used' = used \cup {m}
      BY <2>1, <2>3, <3>2 DEF m
    <3> QED BY <3>4, <3>5 DEF m
  <2>5. HandedOut' \ used' = HandedOut \ used
    <3>1. numHandedOut \notin HandedOut
      BY HandedOutFacts DEF HandedOut
    <3> QED BY <2>4, <3>1
  <2>6. used' \subseteq HandedOut'
    BY <2>4 DEF PagesInv
  <2>7. Lists(recycled', HandedOut' \ used')
    BY <2>1, <2>5 DEF PagesInv
  <2> QED BY <2>2, <2>6, <2>7 DEF PagesInv
<1>2. CASE recycled # <<>>
  <2>1. /\ used' = used \cup {Last(recycled)} /\ recycled' = Front(recycled)
        /\ pages' = pages /\ pos' = pos
    BY <1>2 DEF NextCons
  <2>2. HandedOut' = HandedOut
    BY <2>1 DEF HandedOut, numHandedOut
  <2>3. /\ Last(recycled) \in HandedOut \ used
        /\ Lists(Front(recycled), (HandedOut \ used) \ {Last(recycled)})
    BY <1>2, FrontLists DEF PagesInv
  <2>4. (HandedOut \ used) \ {Last(recycled)} = HandedOut' \ used'
    BY <2>1, <2>2
  <2>5. used' \subseteq HandedOut'
    BY <2>1, <2>2, <2>3 DEF PagesInv
  <2>6. Lists(recycled', HandedOut' \ used')
    BY <2>1, <2>3, <2>4
  <2> QED BY <2>1, <2>5, <2>6, <1>0 DEF PagesInv
<1> QED BY <1>1, <1>2

LEMMA RecycleInv ==
  ASSUME PagesInv, NEW c \in used, Recycle(c)
  PROVE  PagesInv'
<1>1. /\ recycled' = Append(recycled, c) /\ used' = used \ {c}
      /\ pages' = pages /\ pos' = pos
  BY DEF Recycle
<1>2. HandedOut' = HandedOut
  BY <1>1 DEF HandedOut, numHandedOut
<1>3. c \in Nat \ (HandedOut \ used) /\ c \in HandedOut
  BY DEF PagesInv, HandedOut
<1>4. Lists(recycled', (HandedOut \ used) \cup {c})
  BY <1>1, <1>3, AppendLists DEF PagesInv
<1>5. (HandedOut \ used) \cup {c} = HandedOut' \ used'
  BY <1>1, <1>2, <1>3
<1>6. Lists(recycled', HandedOut' \ used')
  BY <1>4, <1>5
<1> QED BY <1>1, <1>2, <1>6 DEF PagesInv

\* The loop of recycleAll(): after n turns the first n conses are sorted out.
LEMMA UnreachedLists ==
  ASSUME numHandedOut \in Nat, NEW R
  PROVE  Lists(Unreached(R), HandedOut \ R)
<1> DEFINE k == numHandedOut
           g == [p \in (1 .. k) \X Seq(Nat) |->
                   IF p[1] - 1 \in R THEN p[2] ELSE Append(p[2], p[1] - 1)]
           Swept(f) == f = [n \in 0 .. k |->
                              IF n = 0 THEN <<>>
                              ELSE IF n - 1 \in R THEN f[n - 1] ELSE Append(f[n - 1], n - 1)]
<1>1. g \in [(1 .. k) \X Seq(Nat) -> Seq(Nat)]
  <2>1. ASSUME NEW p \in (1 .. k) \X Seq(Nat)
        PROVE  (IF p[1] - 1 \in R THEN p[2] ELSE Append(p[2], p[1] - 1)) \in Seq(Nat)
    <3>1. p[1] - 1 \in Nat /\ p[2] \in Seq(Nat)
      OBVIOUS
    <3> QED BY <3>1
  <2> QED BY <2>1
<1>2. \A n \in 1 .. k, q \in Seq(Nat) :
        g[<<n, q>>] = IF n - 1 \in R THEN q ELSE Append(q, n - 1)
  OBVIOUS
<1>3. PICK f : Loop(f, Seq(Nat), <<>>, g, k)
  <2>1. <<>> \in Seq(Nat) /\ k \in Nat
    OBVIOUS
  <2> HIDE DEF g, k
  <2> QED BY <1>1, <2>1, RecursionExists
<1>4. Swept(f)
  <2>1. f \in [0 .. k -> Seq(Nat)] /\ f[0] = <<>> /\ \A n \in 1 .. k : f[n] = g[<<n, f[n - 1]>>]
    BY <1>3 DEF Loop
  <2> HIDE DEF g
  <2>2. ASSUME NEW n \in 0 .. k
        PROVE  f[n] = IF n = 0 THEN <<>>
                      ELSE IF n - 1 \in R THEN f[n - 1] ELSE Append(f[n - 1], n - 1)
    <3>1. CASE n = 0
      BY <2>1, <3>1
    <3>2. CASE n # 0
      <4>1. n \in 1 .. k /\ n - 1 \in 0 .. k
        BY <3>2
      <4>2. f[n - 1] \in Seq(Nat)
        BY <2>1, <4>1
      <4> QED BY <2>1, <3>2, <4>1, <4>2, <1>2
    <3> QED BY <3>1, <3>2
  <2>3. f = [n \in 0 .. k |-> f[n]]
    BY <2>1
  <2> QED BY <2>2, <2>3
<1> DEFINE after == CHOOSE h : Swept(h)
<1>5. Swept(after)
  <2> HIDE DEF Swept
  <2> QED BY <1>4
<1>6. Unreached(R) = after[k]
  BY DEF Unreached
<1>7. \A n \in 0 .. k : after[n] = IF n = 0 THEN <<>>
                      ELSE IF n - 1 \in R THEN after[n - 1] ELSE Append(after[n - 1], n - 1)
  <2> HIDE DEF after
  <2> QED BY <1>5
<1> HIDE DEF after, g, Swept
<1> DEFINE S == {n \in Nat : n <= k => Lists(after[n], (0 .. n - 1) \ R)}
<1>8. 0 \in S
  <2>1. after[0] = <<>> /\ (0 .. 0 - 1) \ R = {}
    BY <1>7
  <2>2. Lists(<<>>, {})
    <3>1. <<>> \in Seq(Nat) /\ Len(<<>>) = 0 /\ DOMAIN <<>> = {}
      OBVIOUS
    <3>2. IsInjective(<<>>) /\ ToSet(<<>>) = {}
      BY <3>1 DEF IsInjective, ToSet
    <3> QED BY <3>1, <3>2, FS_EmptySet DEF Lists
  <2> QED BY <2>1, <2>2
<1>9. ASSUME NEW n \in Nat, n \in S PROVE n + 1 \in S
  <2> SUFFICES ASSUME n + 1 <= k PROVE Lists(after[n + 1], (0 .. n + 1 - 1) \ R)
    OBVIOUS
  <2>1. n + 1 \in 0 .. k /\ n + 1 # 0 /\ n + 1 - 1 = n /\ n <= k
    OBVIOUS
  <2>2. Lists(after[n], (0 .. n - 1) \ R)
    BY <1>9, <2>1
  <2>3. after[n + 1] = IF n \in R THEN after[n] ELSE Append(after[n], n)
    BY <1>7, <2>1
  <2>4. 0 .. n + 1 - 1 = (0 .. n - 1) \cup {n} /\ n \notin 0 .. n - 1
    OBVIOUS
  <2> DEFINE I == 0 .. n - 1  J == 0 .. n + 1 - 1
  <2>5. J = I \cup {n} /\ n \notin I
    BY <2>4
  <2>6. after[n + 1] = IF n \in R THEN after[n] ELSE Append(after[n], n)
    BY <2>3
  <2>7. Lists(after[n], I \ R)
    BY <2>2
  <2> HIDE DEF I, J
  <2>8. CASE n \in R
    <3>1. J \ R = I \ R
      BY <2>5, <2>8
    <3> QED BY <2>6, <2>7, <2>8, <3>1 DEF J
  <2>9. CASE n \notin R
    <3>1. J \ R = (I \ R) \cup {n} /\ n \in Nat \ (I \ R)
      BY <2>5, <2>9
    <3>2. Lists(Append(after[n], n), (I \ R) \cup {n})
      BY <2>7, <3>1, AppendLists
    <3> QED BY <2>6, <2>9, <3>1, <3>2 DEF J
  <2> QED BY <2>8, <2>9
<1>10. k \in S
  <2>1. Nat \subseteq S
    <3> HIDE DEF S
    <3> QED BY <1>8, <1>9, NatSetInduction
  <2> HIDE DEF S
  <2> QED BY <2>1
<1> QED BY <1>6, <1>10 DEF HandedOut

LEMMA RecycleAllInv ==
  ASSUME PagesInv, NEW R \in SUBSET used, RecycleAll(R)
  PROVE  PagesInv'
<1>1. /\ recycled' = Unreached(R) /\ used' = R
      /\ pages' = pages /\ pos' = pos
  BY DEF RecycleAll
<1>2. HandedOut' = HandedOut
  BY <1>1 DEF HandedOut, numHandedOut
<1>3. Lists(recycled', HandedOut' \ used')
  BY <1>1, <1>2, HandedOutFacts, UnreachedLists
<1> QED BY <1>1, <1>2, <1>3 DEF PagesInv

LEMMA PagesInvHolds == PagesSpec => []PagesInv
<1>1. PagesInv /\ [PagesNext]_pageVars => PagesInv'
  <2> SUFFICES ASSUME PagesInv, [PagesNext]_pageVars PROVE PagesInv'
    OBVIOUS
  <2>1. CASE UNCHANGED pageVars
    BY <2>1 DEF pageVars, PagesInv, HandedOut, numHandedOut
  <2> QED BY <2>1, NextConsInv, RecycleInv, RecycleAllInv DEF PagesNext
<1> QED BY <1>1, InitPages, PTL DEF PagesSpec

\* cons_pages.h: no cons is in two hands, whatever the order in which conses
\* are handed out, recycled and sorted out anew, and getNumVoid() counts those
\* in nobody's hands.
THEOREM ConsesAreOnce == PagesSpec => []EachConsOnce
<1>1. ASSUME PagesInv PROVE EachConsOnce
  <2>1. /\ IsInjective(recycled) /\ ToSet(recycled) = HandedOut \ used
        /\ Len(recycled) = Cardinality(HandedOut \ used) /\ used \subseteq HandedOut
    BY <1>1 DEF PagesInv, Lists
  <2>2. Cardinality(HandedOut \ used) = numHandedOut - Cardinality(used)
    <3>1. IsFiniteSet(HandedOut) /\ Cardinality(HandedOut) = numHandedOut
      BY <1>1, HandedOutFacts
    <3>2. Cardinality(HandedOut \ used) = Cardinality(HandedOut) - Cardinality(HandedOut \cap used)
      BY <3>1, FS_Difference
    <3>3. HandedOut \cap used = used
      BY <2>1
    <3> QED BY <3>1, <3>2, <3>3
  <2>3. getNumVoid = getNumAllocated - Cardinality(used)
    <3> DEFINE u == Cardinality(used)  l == Len(recycled)  n == numHandedOut  a == pages * PageSize
    <3>1. /\ u \in Nat /\ n \in Nat /\ l = n - u /\ a \in Nat /\ n = a - PageSize + pos
          /\ PageSize \in Nat \ {0} /\ pos \in 1 .. PageSize /\ (pages = 0 => n = 0)
      BY <1>1, <2>1, <2>2, HandedOutFacts, PagesAssumption DEF PagesInv
    <3>2. getNumVoid = (IF pages = 0 THEN 0 ELSE PageSize - pos + l) /\ getNumAllocated = a
      BY DEF getNumVoid, getNumAllocated
    <3>3. pages = 0 => a = 0 /\ u = 0
      <4> SUFFICES ASSUME pages = 0 PROVE a = 0 /\ u = 0
        OBVIOUS
      <4>1. a = 0
        BY <3>1
      <4>2. HandedOut = {}
        BY <3>1 DEF HandedOut
      <4>3. used = {}
        BY <4>2, <2>1
      <4> QED BY <4>1, <4>3, FS_EmptySet
    <3> HIDE DEF u, l, n, a
    <3>4. getNumVoid = a - u
      BY <3>1, <3>2, <3>3
    <3> QED BY <3>2, <3>4 DEF u
  <2> QED BY <2>1, <2>3 DEF EachConsOnce
<1> QED BY <1>1, PagesInvHolds, PTL

---------------------------------------------------------------------------
(* The iterator.                                                           *)

\* The iterator that names the cons k.
IterAt(k) == [itr |-> (k \div PageSize) * Pointer, pos |-> k % PageSize]

LEMMA IterAtFacts ==
  ASSUME NEW a \in Nat, NEW b \in 0 .. PageSize - 1
  PROVE  /\ PageSize * a + b \in Nat
         /\ IterAt(PageSize * a + b) = [itr |-> a * Pointer, pos |-> b]
<1>1. PageSize \in Nat \ {0}
  BY PagesAssumption
<1>2. (PageSize * a + b) \div PageSize = a /\ (PageSize * a + b) % PageSize = b
  BY <1>1, Quotient
<1>3. \A x, y \in Nat : x * y \in Nat
  OBVIOUS
<1> QED BY <1>1, <1>2, <1>3 DEF IterAt

\* Every number is one of a page and one in it.
LEMMA PlaceOf ==
  ASSUME NEW k \in Nat
  PROVE  \E a \in Nat, b \in 0 .. PageSize - 1 : k = PageSize * a + b
<1> DEFINE a == k \div PageSize  b == k % PageSize
<1>1. PageSize \in Nat \ {0}
  BY PagesAssumption
<1>2. a \in Int /\ b \in 0 .. PageSize - 1 /\ k = PageSize * a + b
  BY <1>1, Division
<1> HIDE DEF a, b
<1>3. ~(a < 0)
  <2> SUFFICES ASSUME a < 0 PROVE FALSE
    OBVIOUS
  <2>1. PageSize * a + PageSize <= PageSize * 0 /\ PageSize * a \in Int
    BY <1>1, <1>2, Multiples
  <2> QED BY <2>1, <1>1, <1>2
<1> QED BY <1>2, <1>3

LEMMA IncrementAt ==
  ASSUME NEW k \in Nat
  PROVE  Increment(IterAt(k)) = IterAt(k + 1)
<1>0. PageSize \in Nat \ {0} /\ Pointer \in Nat
  BY PagesAssumption
<1>1. PICK a \in Nat, b \in 0 .. PageSize - 1 : k = PageSize * a + b
  BY PlaceOf
<1>2. IterAt(k) = [itr |-> a * Pointer, pos |-> b]
  BY <1>1, IterAtFacts
<1>3. CASE b + 1 = PageSize
  <2>1. PageSize * (a + 1) = PageSize * a + PageSize /\ (a + 1) * Pointer = a * Pointer + Pointer
        /\ PageSize * a \in Int /\ a + 1 \in Nat /\ 0 \in 0 .. PageSize - 1
    BY <1>0
  <2>2. k + 1 = PageSize * (a + 1) + 0
    BY <1>0, <1>1, <1>3, <2>1
  <2>3. IterAt(k + 1) = [itr |-> (a + 1) * Pointer, pos |-> 0]
    BY <2>1, <2>2, IterAtFacts
  <2>4. Increment(IterAt(k)) = [itr |-> a * Pointer + Pointer, pos |-> 0]
    BY <1>2, <1>3 DEF Increment
  <2> QED BY <2>1, <2>3, <2>4
<1>4. CASE b + 1 # PageSize
  <2>1. b + 1 \in 0 .. PageSize - 1 /\ PageSize * a \in Int
    BY <1>0, <1>4
  <2>2. k + 1 = PageSize * a + (b + 1)
    BY <1>1, <2>1
  <2>3. IterAt(k + 1) = [itr |-> a * Pointer, pos |-> b + 1]
    BY <2>1, <2>2, IterAtFacts
  <2>4. Increment(IterAt(k)) = [itr |-> a * Pointer, pos |-> b + 1]
    BY <1>2, <1>4 DEF Increment
  <2> QED BY <2>3, <2>4
<1> QED BY <1>3, <1>4

LEMMA DecrementAt ==
  ASSUME NEW k \in Nat
  PROVE  Decrement(IterAt(k + 1)) = IterAt(k)
<1>0. PageSize \in Nat \ {0} /\ Pointer \in Nat
  BY PagesAssumption
<1>1. PICK a \in Nat, b \in 0 .. PageSize - 1 : k + 1 = PageSize * a + b
  BY PlaceOf
<1>2. IterAt(k + 1) = [itr |-> a * Pointer, pos |-> b]
  BY <1>1, IterAtFacts
<1>3. CASE b = 0
  <2>1. a # 0
    BY <1>0, <1>1, <1>3
  <2>2. PageSize * (a - 1) = PageSize * a - PageSize /\ (a - 1) * Pointer = a * Pointer - Pointer
        /\ PageSize * a \in Int /\ a - 1 \in Nat /\ PageSize - 1 \in 0 .. PageSize - 1
    BY <1>0, <2>1
  <2>3. k = PageSize * (a - 1) + (PageSize - 1)
    BY <1>0, <1>1, <1>3, <2>2
  <2>4. IterAt(k) = [itr |-> (a - 1) * Pointer, pos |-> PageSize - 1]
    BY <2>2, <2>3, IterAtFacts
  <2>5. Decrement(IterAt(k + 1)) = [itr |-> a * Pointer - Pointer, pos |-> PageSize - 1]
    BY <1>2, <1>3 DEF Decrement
  <2> QED BY <2>2, <2>4, <2>5
<1>4. CASE b # 0
  <2>1. b - 1 \in 0 .. PageSize - 1 /\ PageSize * a \in Int
    BY <1>0, <1>4
  <2>2. k = PageSize * a + (b - 1)
    BY <1>1, <2>1
  <2>3. IterAt(k) = [itr |-> a * Pointer, pos |-> b - 1]
    BY <2>1, <2>2, IterAtFacts
  <2>4. Decrement(IterAt(k + 1)) = [itr |-> a * Pointer, pos |-> b - 1]
    BY <1>2, <1>4 DEF Decrement
  <2> QED BY <2>3, <2>4
<1> QED BY <1>3, <1>4

LEMMA ConsAt ==
  ASSUME NEW k \in Nat
  PROVE  BasicCons(IterAt(k)) = k
<1>0. PageSize \in Nat \ {0} /\ Pointer \in Nat \ {0}
  BY PagesAssumption
<1>1. PICK a \in Nat, b \in 0 .. PageSize - 1 : k = PageSize * a + b
  BY PlaceOf
<1>2. IterAt(k) = [itr |-> a * Pointer, pos |-> b]
  BY <1>1, IterAtFacts
<1>3. (Pointer * a + 0) \div Pointer = a
  BY <1>0, Quotient
<1>4. Pointer * a + 0 = a * Pointer
  BY <1>0
<1>5. BasicCons(IterAt(k)) = a * PageSize + b
  BY <1>2, <1>3, <1>4 DEF BasicCons
<1> QED BY <1>0, <1>1, <1>5

\* Between two conses there are pages and conses.
LEMMA BeforeAt ==
  ASSUME NEW j \in Nat, NEW k \in Nat
  PROVE  Before(IterAt(j), IterAt(k)) <=> j < k
<1>0. PageSize \in Nat \ {0} /\ Pointer \in Nat \ {0}
  BY PagesAssumption
<1>1. PICK a \in Nat, b \in 0 .. PageSize - 1 : j = PageSize * a + b
  BY PlaceOf
<1>2. PICK c \in Nat, d \in 0 .. PageSize - 1 : k = PageSize * c + d
  BY PlaceOf
<1>3. /\ IterAt(j) = [itr |-> a * Pointer, pos |-> b]
      /\ IterAt(k) = [itr |-> c * Pointer, pos |-> d]
  BY <1>1, <1>2, IterAtFacts
<1>4. /\ PageSize * a \in Nat /\ PageSize * c \in Nat
      /\ a * Pointer \in Nat /\ c * Pointer \in Nat
  <2>1. \A x, y \in Nat : x * y \in Nat
    OBVIOUS
  <2> QED BY <1>0, <2>1
<1>5. Before(IterAt(j), IterAt(k)) <=>
        a * Pointer < c * Pointer \/ (a * Pointer = c * Pointer /\ b < d)
  BY <1>3 DEF Before
<1>6. CASE a < c
  <2>1. PageSize * a + PageSize <= PageSize * c /\ Pointer * a + Pointer <= Pointer * c
    BY <1>0, <1>6, Multiples
  <2>2. a * Pointer < c * Pointer
    BY <1>0, <1>4, <2>1
  <2>3. j < k
    BY <1>0, <1>1, <1>2, <1>4, <2>1
  <2> QED BY <1>5, <2>2, <2>3
<1>7. CASE c < a
  <2>1. PageSize * c + PageSize <= PageSize * a /\ Pointer * c + Pointer <= Pointer * a
    BY <1>0, <1>7, Multiples
  <2>2. c * Pointer < a * Pointer
    BY <1>0, <1>4, <2>1
  <2>3. k < j
    BY <1>0, <1>1, <1>2, <1>4, <2>1
  <2> QED BY <1>4, <1>5, <2>2, <2>3
<1>8. CASE a = c
  BY <1>1, <1>2, <1>4, <1>5, <1>8
<1> QED BY <1>6, <1>7, <1>8

\* Where a distance of v from a page a leads, for each page q that v is in.
LEMMA PlusLeads ==
  ASSUME NEW j \in Nat, NEW a \in Nat, NEW b \in 0 .. PageSize - 1, j = PageSize * a + b,
         NEW p \in Int, NEW q \in Int, NEW d \in 0 .. PageSize - 1,
         (p + b) % Word = PageSize * q + d
  PROVE  Plus(IterAt(j), p) = [itr |-> (a * Pointer + q * Pointer) % Word, pos |-> d]
<1>1. IterAt(j) = [itr |-> a * Pointer, pos |-> b]
  BY IterAtFacts
<1>2. (PageSize * q + d) \div PageSize = q /\ (PageSize * q + d) % PageSize = d
  BY PagesAssumption, Quotient
<1>3. Plus(IterAt(j), p) =
        [itr |-> (a * Pointer + (((p + b) % Word) \div PageSize) * Pointer) % Word,
         pos |-> ((p + b) % Word) % PageSize]
  BY <1>1 DEF Plus
<1> QED BY <1>2, <1>3

\* A word of whole pages, times a pointer, is less than a word off its multiple.
LEMMA WordsOfPointers ==
  ASSUME NEW w \in Nat \ {0}, Word = PageSize * w, NEW t \in 0 .. Word - 1
  PROVE  (t + w * Pointer) % Word = t <=> Pointer % PageSize = 0
<1>0. PageSize \in Nat \ {0} /\ Pointer \in Nat /\ Word \in Nat \ {0}
  BY PagesAssumption
<1> DEFINE m == Pointer \div PageSize  e == Pointer % PageSize  x == w * e
<1>1. m \in Int /\ e \in 0 .. PageSize - 1 /\ Pointer = PageSize * m + e
  BY <1>0, Division
<1>2. x \in Nat /\ x < Word /\ (x = 0 <=> e = 0)
  <2> HIDE DEF e
  <2>1. e \in Nat /\ e < PageSize
    BY <1>0, <1>1
  <2>2. w * e + w <= w * PageSize /\ w * e \in Int
    BY <1>0, <2>1, Multiples
  <2>3. CASE e = 0
    BY <1>0, <2>3
  <2>4. CASE e # 0
    <3>1. w * 0 + w <= w * e
      BY <2>1, <2>4, Multiples
    <3> QED BY <1>0, <2>2, <2>4, <3>1
  <2> QED BY <2>3, <2>4
<1>3. t + w * Pointer = Word * m + (t + x)
  <2> HIDE DEF m, e
  <2>1. w * (PageSize * m + e) = (PageSize * w) * m + w * e
    BY <1>0, <1>1
  <2>2. w * Pointer = Word * m + x /\ Word * m \in Int
    BY <1>0, <1>1, <2>1
  <2> HIDE DEF x
  <2> QED BY <1>2, <2>2
<1>4. e = Pointer % PageSize
  OBVIOUS
<1> HIDE DEF m, e, x
<1>5. CASE t + x < Word
  <2>1. t + x \in 0 .. Word - 1
    BY <1>0, <1>2, <1>5
  <2>2. (Word * m + (t + x)) % Word = t + x
    BY <1>0, <1>1, <2>1, Quotient
  <2>3. t + x = t <=> x = 0
    BY <1>2
  <2> QED BY <1>2, <1>3, <1>4, <2>2, <2>3
<1>6. CASE ~(t + x < Word)
  <2> DEFINE y == t + x - Word
  <2>1. y \in 0 .. Word - 1 /\ y # t /\ m + 1 \in Int /\ x # 0
    BY <1>0, <1>1, <1>2, <1>6
  <2>2. Word * (m + 1) = Word * m + Word /\ Word * m \in Int
    BY <1>0, <1>1
  <2>3. Word * m + (t + x) = Word * (m + 1) + y
    BY <1>0, <1>2, <2>2
  <2> HIDE DEF y
  <2>4. (Word * (m + 1) + y) % Word = y
    BY <1>0, <2>1, Quotient
  <2> QED BY <1>2, <1>3, <1>4, <2>1, <2>3, <2>4
<1> QED BY <1>5, <1>6

\* A distance to the same page or a later one leads there.  A negative one to
\* an earlier page is taken for a large one: it comes round to the cons if a
\* word holds whole pages, and to the page if those are words of pointers.
LEMMA PlusAt ==
  ASSUME NEW j \in 0 .. MaxPages * PageSize, NEW k \in 0 .. MaxPages * PageSize
  PROVE  Plus(IterAt(j), k - j) = IterAt(k) <=> IterAt(j).itr <= IterAt(k).itr \/ DividesAll
<1>0. PageSize \in Nat \ {0} /\ Pointer \in Nat \ {0} /\ MaxPages \in Nat /\ Word \in Nat \ {0}
      /\ MaxPages * PageSize \in Nat /\ 2 * (MaxPages * PageSize) < Word
      /\ MaxPages * Pointer \in Nat /\ MaxPages * Pointer < Word
  <2>1. \A x, y \in Nat : x * y \in Nat
    OBVIOUS
  <2> QED BY <2>1, PagesAssumption
<1> j \in Nat /\ k \in Nat
  BY <1>0
<1>1. PICK a \in Nat, b \in 0 .. PageSize - 1 : j = PageSize * a + b
  BY PlaceOf
<1>2. PICK c \in Nat, d \in 0 .. PageSize - 1 : k = PageSize * c + d
  BY PlaceOf
<1>3. /\ IterAt(j) = [itr |-> a * Pointer, pos |-> b]
      /\ IterAt(k) = [itr |-> c * Pointer, pos |-> d]
  BY <1>1, <1>2, IterAtFacts
<1>4. a * Pointer \in Nat /\ c * Pointer \in 0 .. Word - 1 /\ PageSize * a \in Nat /\ PageSize * c \in Nat
  <2>1. \A x, y \in Nat : x * y \in Nat
    OBVIOUS
  <2>2. c <= MaxPages
    <3> SUFFICES ASSUME MaxPages < c PROVE FALSE
      BY <1>0
    <3>1. PageSize * MaxPages + PageSize <= PageSize * c /\ PageSize * c \in Int
      BY <1>0, Multiples
    <3> QED BY <3>1, <1>0, <1>2
  <2>3. CASE c = MaxPages
    BY <2>1, <2>3, <1>0
  <2>4. CASE c # MaxPages
    <3>1. Pointer * c + Pointer <= Pointer * MaxPages
      BY <1>0, <2>2, <2>4, Multiples
    <3>2. Pointer * c = c * Pointer /\ Pointer * MaxPages = MaxPages * Pointer
      BY <1>0
    <3>3. c * Pointer \in Nat
      BY <2>1, <1>0
    <3> QED BY <2>1, <3>1, <3>2, <3>3, <1>0
  <2> QED BY <2>3, <2>4
<1>5. a * Pointer <= c * Pointer <=> a <= c
  <2>1. ASSUME c < a PROVE ~(a * Pointer <= c * Pointer)
    <3>1. Pointer * c + Pointer <= Pointer * a
      BY <1>0, <2>1, Multiples
    <3>2. Pointer * c = c * Pointer /\ Pointer * a = a * Pointer
      BY <1>0
    <3> QED BY <3>1, <3>2, <1>0, <1>4
  <2>2. ASSUME a < c PROVE a * Pointer <= c * Pointer
    <3>1. Pointer * a + Pointer <= Pointer * c
      BY <1>0, <2>2, Multiples
    <3>2. Pointer * c = c * Pointer /\ Pointer * a = a * Pointer
      BY <1>0
    <3> QED BY <3>1, <3>2, <1>0, <1>4
  <2>3. CASE a = c
    BY <2>3, <1>4
  <2> QED BY <2>1, <2>2, <2>3
<1>6. PageSize * (c - a) \in Int /\ k - j + b = PageSize * (c - a) + d /\ k - j + b \in Int
  <2>1. PageSize * (c - a) = PageSize * c - PageSize * a
    BY <1>0
  <2> QED BY <2>1, <1>0, <1>1, <1>2, <1>4
<1> DEFINE v == k - j + b
<1>7. CASE a <= c
  <2>1. v \in 0 .. Word - 1
    <3>1. PageSize * (c - a) \in Nat
      <4>1. \A x, y \in Nat : x * y \in Nat
        OBVIOUS
      <4>2. c - a \in Nat
        BY <1>7
      <4> QED BY <4>1, <4>2, <1>0
    <3>2. v >= 0
      BY <1>6, <3>1
    <3>3. v <= k
      BY <1>1, <1>4
    <3> QED BY <3>2, <3>3, <1>0, <1>6
  <2>2. v % Word = v
    <3> HIDE DEF v
    <3>1. (Word * 0 + v) % Word = v
      BY <1>0, <2>1, Quotient
    <3> QED BY <3>1, <2>1, <1>0
  <2>3. Plus(IterAt(j), k - j) = [itr |-> (a * Pointer + (c - a) * Pointer) % Word, pos |-> d]
    <3>1. v % Word = PageSize * (c - a) + d /\ c - a \in Int /\ k - j \in Int
      BY <1>6, <2>2
    <3> QED BY <3>1, <1>1, PlusLeads
  <2>4. (a * Pointer + (c - a) * Pointer) % Word = c * Pointer
    <3>1. a * Pointer + (c - a) * Pointer = c * Pointer
      BY <1>0
    <3> DEFINE r == c * Pointer
    <3>2. r \in 0 .. Word - 1
      BY <1>4
    <3> HIDE DEF r
    <3>3. (Word * 0 + r) % Word = r
      BY <1>0, <3>2, Quotient
    <3>4. Word * 0 + r = r
      BY <1>0, <3>2
    <3> QED BY <3>1, <3>3, <3>4 DEF r
  <2> QED BY <1>3, <1>5, <1>7, <2>3, <2>4
<1>8. CASE c < a
  <2> DEFINE w == Word \div PageSize  r == Word % PageSize  n == v + Word
  <2>1. w \in Int /\ r \in 0 .. PageSize - 1 /\ Word = PageSize * w + r
    BY <1>0, Division
  <2>2. v \in Int /\ v < 0 /\ n \in 0 .. Word - 1
    <3>1. PageSize * c + PageSize <= PageSize * a
      BY <1>0, <1>8, Multiples
    <3>2. v < 0
      BY <3>1, <1>0, <1>1, <1>2, <1>4
    <3>3. 0 <= n
      BY <1>0
    <3> QED BY <3>2, <3>3, <1>0, <1>6
  <2>3. v % Word = n
    <3> HIDE DEF v
    <3>1. -1 \in Int /\ Word * (-1) + n = v
      BY <1>0, <2>2
    <3> HIDE DEF n
    <3>2. (Word * (-1) + n) % Word = n
      BY <1>0, <2>2, <3>1, Quotient
    <3> QED BY <3>1, <3>2
  <2>4. n = PageSize * (c - a + w) + (d + r)
    <3> HIDE DEF w, r
    <3>1. PageSize * (c - a + w) = PageSize * (c - a) + PageSize * w /\ PageSize * w \in Int
      BY <1>0, <2>1
    <3> QED BY <3>1, <1>0, <1>6, <2>1
  <2>5. c - a + w \in Int /\ k - j \in Int /\ d + r \in Nat
    BY <2>1
  <2>6. CASE r # 0
    <3>1. ~DividesAll
      BY <2>6 DEF DividesAll
    <3>2. Plus(IterAt(j), k - j).pos # d
      <4> HIDE DEF w, r
      <4>1. CASE d + r < PageSize
        <5>1. d + r \in 0 .. PageSize - 1 /\ d + r # d
          BY <1>0, <2>1, <2>6, <4>1
        <5>2. v % Word = PageSize * (c - a + w) + (d + r)
          BY <2>3, <2>4
        <5>3. Plus(IterAt(j), k - j) =
                [itr |-> (a * Pointer + (c - a + w) * Pointer) % Word, pos |-> d + r]
          BY <1>1, <2>5, <5>1, <5>2, PlusLeads
        <5> QED BY <5>1, <5>3
      <4>2. CASE ~(d + r < PageSize)
        <5> DEFINE y == d + r - PageSize  q == c - a + w + 1
        <5>1. y \in 0 .. PageSize - 1 /\ y # d /\ q \in Int
          BY <1>0, <2>1, <4>2
        <5>2. PageSize * q = PageSize * (c - a + w) + PageSize /\ PageSize * (c - a + w) \in Int
          BY <1>0, <2>1
        <5>3. v % Word = PageSize * q + y
          <6> DEFINE z == PageSize * (c - a + w)
          <6>1. z \in Int /\ PageSize * q = z + PageSize /\ n = z + (d + r)
            BY <2>4, <5>2
          <6> HIDE DEF z, n, q
          <6>2. n = PageSize * q + y
            BY <6>1, <1>0, <2>1
          <6> QED BY <6>2, <2>3
        <5> HIDE DEF y, q
        <5>4. Plus(IterAt(j), k - j) = [itr |-> (a * Pointer + q * Pointer) % Word, pos |-> y]
          BY <1>1, <2>5, <5>1, <5>3, PlusLeads
        <5> QED BY <5>1, <5>4
      <4> QED BY <4>1, <4>2
    <3> QED BY <1>3, <1>5, <1>8, <3>1, <3>2
  <2>7. CASE r = 0
    <3>1. Word = PageSize * w /\ w \in Nat \ {0}
      <4> HIDE DEF w, r
      <4>1. Word = PageSize * w /\ PageSize * w \in Int
        BY <1>0, <2>1, <2>7
      <4>2. ASSUME w < 0 PROVE FALSE
        <5>1. PageSize * w + PageSize <= PageSize * 0
          BY <1>0, <2>1, <4>2, Multiples
        <5> QED BY <5>1, <4>1, <1>0
      <4>3. w # 0
        BY <1>0, <4>1
      <4> QED BY <2>1, <4>1, <4>2, <4>3
    <3>2. Plus(IterAt(j), k - j) = [itr |-> (a * Pointer + (c - a + w) * Pointer) % Word, pos |-> d]
      <4>1. v % Word = PageSize * (c - a + w) + d
        BY <2>3, <2>4, <2>7
      <4> QED BY <1>1, <2>5, <4>1, PlusLeads
    <3>3. a * Pointer + (c - a + w) * Pointer = c * Pointer + w * Pointer
      <4> HIDE DEF w
      <4> QED BY <1>0, <2>1
    <3>4. (c * Pointer + w * Pointer) % Word = c * Pointer <=> Pointer % PageSize = 0
      <4> DEFINE t == c * Pointer
      <4>1. t \in 0 .. Word - 1
        BY <1>4
      <4> HIDE DEF t, w
      <4>2. (t + w * Pointer) % Word = t <=> Pointer % PageSize = 0
        BY <3>1, <4>1, WordsOfPointers
      <4> QED BY <4>2 DEF t
    <3>5. DividesAll <=> Pointer % PageSize = 0
      BY <2>7 DEF DividesAll
    <3>6. Plus(IterAt(j), k - j) = IterAt(k) <=> (a * Pointer + (c - a + w) * Pointer) % Word = c * Pointer
      BY <1>3, <3>2
    <3> HIDE DEF w
    <3> QED BY <1>3, <1>5, <1>8, <3>3, <3>4, <3>5, <3>6
  <2> QED BY <2>6, <2>7
<1> QED BY <1>7, <1>8

LEMMA DifferenceAt ==
  ASSUME NEW j \in 0 .. MaxPages * PageSize, NEW k \in 0 .. MaxPages * PageSize
  PROVE  Difference(IterAt(k), IterAt(j)) = k - j
<1>0. PageSize \in Nat \ {0} /\ Pointer \in Nat \ {0} /\ MaxPages \in Nat /\ Word \in Nat
      /\ MaxPages * PageSize \in Nat /\ 2 * (MaxPages * PageSize) < Word
  <2>1. \A x, y \in Nat : x * y \in Nat
    OBVIOUS
  <2> QED BY <2>1, PagesAssumption
<1> j \in Nat /\ k \in Nat
  BY <1>0
<1>1. PICK a \in Nat, b \in 0 .. PageSize - 1 : j = PageSize * a + b
  BY PlaceOf
<1>2. PICK c \in Nat, d \in 0 .. PageSize - 1 : k = PageSize * c + d
  BY PlaceOf
<1>3. /\ IterAt(j) = [itr |-> a * Pointer, pos |-> b]
      /\ IterAt(k) = [itr |-> c * Pointer, pos |-> d]
  BY <1>1, <1>2, IterAtFacts
<1>4. (c * Pointer - a * Pointer) \div Pointer = c - a
  <2>1. c * Pointer - a * Pointer = Pointer * (c - a) + 0 /\ c - a \in Int /\ 0 \in 0 .. Pointer - 1
    BY <1>0
  <2> QED BY <2>1, <1>0, Quotient
<1>5. (c - a) * PageSize + d - b = k - j
  <2>1. (c - a) * PageSize = PageSize * c - PageSize * a /\ PageSize * c \in Int /\ PageSize * a \in Int
    BY <1>0
  <2> QED BY <2>1, <1>0, <1>1, <1>2
<1>6. Difference(IterAt(k), IterAt(j)) =
        IF 2 * ((k - j) % Word) < Word THEN (k - j) % Word ELSE ((k - j) % Word) - Word
  BY <1>3, <1>4, <1>5 DEF Difference
<1>7. k - j \in Int /\ 2 * (k - j) < Word /\ -Word < 2 * (k - j)
  BY <1>0
<1> DEFINE v == k - j
<1>8. /\ v \in Int /\ 2 * v < Word /\ -Word < 2 * v /\ Word \in Nat \ {0}
      /\ Difference(IterAt(k), IterAt(j)) = IF 2 * (v % Word) < Word THEN v % Word ELSE (v % Word) - Word
  BY <1>0, <1>6, <1>7
<1> HIDE DEF v
<1>9. CASE v >= 0
  <2> DEFINE z == 0  s == Word * z + v
  <2>1. v \in 0 .. Word - 1 /\ s = v /\ z \in Int
    BY <1>8, <1>9
  <2> HIDE DEF z
  <2>2. s % Word = v
    BY <1>8, <2>1, Quotient
  <2> HIDE DEF s
  <2>3. v % Word = v
    BY <2>1, <2>2
  <2> QED BY <1>8, <2>3 DEF v
<1>10. CASE v < 0
  <2> DEFINE u == v + Word
  <2>1. v \in Int /\ Word \in Nat \ {0} /\ 2 * v < Word /\ -Word < 2 * v /\ v < 0
    BY <1>8, <1>10
  <2>2. u \in 0 .. Word - 1
    BY <2>1
  <2> DEFINE s == Word * (-1) + u
  <2>3. s = v
    BY <2>1
  <2>4. ~(2 * u < Word) /\ u - Word = v
    BY <2>1
  <2> HIDE DEF u
  <2>5. -1 \in Int
    OBVIOUS
  <2>6. s % Word = u
    BY <2>1, <2>2, <2>5, Quotient
  <2> HIDE DEF s
  <2>7. v % Word = u
    BY <2>3, <2>6
  <2>8. Difference(IterAt(k), IterAt(j)) = v
    BY <1>8, <2>4, <2>7
  <2> QED BY <2>8 DEF v
<1> QED BY <1>8, <1>9, <1>10

\* end() is where the next new cons will be.
LEMMA EndAt == PagesInv => cend = IterAt(numHandedOut)
<1> SUFFICES ASSUME PagesInv PROVE cend = IterAt(numHandedOut)
  OBVIOUS
<1>1. /\ PageSize \in Nat \ {0} /\ pages \in Nat /\ pos \in 1 .. PageSize
      /\ (pages = 0 => pos = PageSize)
  BY PagesAssumption DEF PagesInv
<1>2. numHandedOut = pages * PageSize - PageSize + pos /\ pages * PageSize \in Nat
  BY HandedOutFacts
<1>3. CASE pos = PageSize
  <2>1. numHandedOut = PageSize * pages + 0 /\ 0 \in 0 .. PageSize - 1
    BY <1>1, <1>2, <1>3
  <2>2. IterAt(numHandedOut) = [itr |-> pages * Pointer, pos |-> 0]
    BY <1>1, <2>1, IterAtFacts
  <2> QED BY <1>3, <2>2 DEF cend
<1>4. CASE pos # PageSize
  <2>1. pages - 1 \in Nat /\ pos \in 0 .. PageSize - 1
    BY <1>1, <1>4
  <2>2. numHandedOut = PageSize * (pages - 1) + pos
    BY <1>1, <1>2
  <2>3. IterAt(numHandedOut) = [itr |-> (pages - 1) * Pointer, pos |-> pos]
    BY <2>1, <2>2, IterAtFacts
  <2> QED BY <1>4, <2>3 DEF cend
<1> QED BY <1>3, <1>4

\* k increments from begin() on.
LEMMA WalkAt ==
  ASSUME NEW n \in Nat, NEW walk,
         walk = CHOOSE h : h = [k \in 0 .. n |-> IF k = 0 THEN cbegin ELSE Increment(h[k - 1])],
         NEW k \in 0 .. n
  PROVE  walk[k] = IterAt(k)
<1> DEFINE Walked(h) == h = [m \in 0 .. n |-> IF m = 0 THEN cbegin ELSE Increment(h[m - 1])]
           ladder == [m \in 0 .. n |-> IterAt(m)]
<1>1. IterAt(0) = cbegin
  <2>1. PageSize \in Nat \ {0} /\ Pointer \in Nat
    BY PagesAssumption
  <2>2. 0 \in Nat /\ 0 \in 0 .. PageSize - 1 /\ PageSize * 0 + 0 = 0 /\ 0 * Pointer = 0
    BY <2>1
  <2>3. IterAt(PageSize * 0 + 0) = [itr |-> 0 * Pointer, pos |-> 0]
    BY <2>2, IterAtFacts
  <2> QED BY <2>2, <2>3 DEF cbegin
<1>2. Walked(ladder)
  <2>1. ASSUME NEW m \in 0 .. n
        PROVE  IterAt(m) = IF m = 0 THEN cbegin ELSE Increment(ladder[m - 1])
    <3>1. CASE m = 0
      BY <1>1, <3>1
    <3>2. CASE m # 0
      <4>1. m - 1 \in Nat /\ m - 1 \in 0 .. n /\ m - 1 + 1 = m
        BY <3>2
      <4>2. Increment(IterAt(m - 1)) = IterAt(m)
        BY <4>1, IncrementAt
      <4> QED BY <3>2, <4>1, <4>2
    <3> QED BY <3>1, <3>2
  <2> QED BY <2>1
<1>3. Walked(walk)
  <2>1. walk = CHOOSE h : Walked(h)
    OBVIOUS
  <2> HIDE DEF Walked, ladder
  <2> QED BY <1>2, <2>1
<1>4. \A m \in 0 .. n : walk[m] = IF m = 0 THEN cbegin ELSE Increment(walk[m - 1])
  BY <1>3
<1> DEFINE S == {m \in Nat : m <= n => walk[m] = IterAt(m)}
<1>5. 0 \in S
  BY <1>1, <1>4
<1> HIDE DEF Walked, ladder
<1>6. ASSUME NEW m \in Nat, m \in S PROVE m + 1 \in S
  <2> SUFFICES ASSUME m + 1 <= n PROVE walk[m + 1] = IterAt(m + 1)
    OBVIOUS
  <2>1. m + 1 \in 0 .. n /\ m + 1 # 0 /\ m + 1 - 1 = m /\ m <= n
    OBVIOUS
  <2>2. walk[m + 1] = Increment(walk[m])
    BY <1>4, <2>1
  <2> QED BY <1>6, <2>1, <2>2, IncrementAt
<1>7. Nat \subseteq S
  <2> HIDE DEF S
  <2> QED BY <1>5, <1>6, NatSetInduction
<1> QED BY <1>7

\* cons_pages.h: the iterator passes every cons ever handed out, in order, and
\* adding a distance is as many steps unless it leads to an earlier page; then
\* it is so exactly if the page size divides the number of values of a word and
\* the size of a pointer, which the default of 512 conses does not.
THEOREM IteratorsAreRight == PagesSpec => []IteratorsAgree
<1>1. ASSUME PagesInv PROVE IteratorsAgree
  <2> DEFINE n == numHandedOut
             walk == CHOOSE h : h = [k \in 0 .. n |-> IF k = 0 THEN cbegin ELSE Increment(h[k - 1])]
  <2>1. n \in Nat /\ n <= MaxPages * PageSize /\ MaxPages * PageSize \in Nat
    BY <1>1, HandedOutFacts
  <2>2. IteratorsAgree =
          /\ walk[n] = cend
          /\ \A k \in 0 .. n - 1 : BasicCons(walk[k]) = k /\ Decrement(walk[k + 1]) = walk[k]
          /\ \A j, k \in 0 .. n :
               /\ Plus(walk[j], k - j) = walk[k] <=> walk[j].itr <= walk[k].itr \/ DividesAll
               /\ Difference(walk[k], walk[j]) = k - j
               /\ Before(walk[j], walk[k]) <=> j < k
    BY DEF IteratorsAgree
  <2>3. ASSUME NEW k \in 0 .. n PROVE walk[k] = IterAt(k)
    <3> HIDE DEF n
    <3> QED BY <2>1, WalkAt
  <2> HIDE DEF n, walk
  <2>4. walk[n] = cend
    BY <1>1, <2>1, <2>3, EndAt DEF n
  <2>5. ASSUME NEW k \in 0 .. n - 1
        PROVE  BasicCons(walk[k]) = k /\ Decrement(walk[k + 1]) = walk[k]
    <3>1. k \in Nat /\ k \in 0 .. n /\ k + 1 \in 0 .. n
      BY <2>1
    <3> QED BY <3>1, <2>3, ConsAt, DecrementAt
  <2>6. ASSUME NEW j \in 0 .. n, NEW k \in 0 .. n
        PROVE  /\ Plus(walk[j], k - j) = walk[k] <=> walk[j].itr <= walk[k].itr \/ DividesAll
               /\ Difference(walk[k], walk[j]) = k - j
               /\ Before(walk[j], walk[k]) <=> j < k
    <3>1. /\ j \in Nat /\ k \in Nat
          /\ j \in 0 .. MaxPages * PageSize /\ k \in 0 .. MaxPages * PageSize
      BY <2>1
    <3>2. walk[j] = IterAt(j) /\ walk[k] = IterAt(k)
      BY <2>3
    <3>3. Plus(IterAt(j), k - j) = IterAt(k) <=> IterAt(j).itr <= IterAt(k).itr \/ DividesAll
      BY <3>1, PlusAt
    <3>4. Difference(IterAt(k), IterAt(j)) = k - j
      BY <3>1, DifferenceAt
    <3>5. Before(IterAt(j), IterAt(k)) <=> j < k
      BY <3>1, BeforeAt
    <3> QED BY <3>2, <3>3, <3>4, <3>5
  <2> QED BY <2>2, <2>4, <2>5, <2>6
<1> QED BY <1>1, PagesInvHolds, PTL
---------------------------------------------------------------------------
(* The simulation: the nodes of its graph are what the roots lead to.      *)

Heaps == [Nodes -> Seq(Nodes \cup {NoNode})]
ChildrenIn(c) == [o \in Nodes |-> Children(c, o)]
FromRoots(c, r) == Reach(Range(r), ChildrenIn(c))

LEMMA ChildrenAreNodes ==
  ASSUME NEW c \in Heaps
  PROVE  /\ ChildrenIn(c) \in [Nodes -> SUBSET Nodes]
         /\ \A o \in Nodes : ChildrenIn(c)[o] = Children(c, o)
<1>1. ASSUME NEW o \in Nodes PROVE Children(c, o) \subseteq Nodes
  <2>1. c[o] \in Seq(Nodes \cup {NoNode})
    BY DEF Heaps
  <2>2. \A i \in DOMAIN c[o] : c[o][i] \in Nodes \cup {NoNode}
    BY <2>1
  <2> QED BY <2>2 DEF Children, Range
<1> QED BY <1>1 DEF ChildrenIn

LEMMA RootsAreNodes ==
  ASSUME NEW r \in Seq(Nodes)
  PROVE  Range(r) \in SUBSET Nodes /\ Range(r) = {r[i] : i \in 1 .. Len(r)}
  BY DEF Range

LEMMA FromRootsFacts ==
  ASSUME NEW c \in Heaps, NEW r \in Seq(Nodes)
  PROVE  /\ Range(r) \subseteq FromRoots(c, r) /\ FromRoots(c, r) \subseteq Nodes
         /\ \A o \in FromRoots(c, r) : Children(c, o) \subseteq FromRoots(c, r)
         /\ \A L \in SUBSET Nodes :
              Range(r) \subseteq L /\ (\A o \in L : Children(c, o) \subseteq L)
                => FromRoots(c, r) \subseteq L
<1> DEFINE kids == ChildrenIn(c)
           start == Range(r)
<1>1. /\ kids \in [Nodes -> SUBSET Nodes] /\ start \in SUBSET Nodes
      /\ \A o \in Nodes : kids[o] = Children(c, o)
  BY ChildrenAreNodes, RootsAreNodes
<1>2. FromRoots(c, r) = Reach(start, kids)
  BY DEF FromRoots
<1> HIDE DEF kids, start
<1>3. /\ start \subseteq Reach(start, kids) /\ Reach(start, kids) \subseteq Nodes
      /\ \A o \in Reach(start, kids) : kids[o] \subseteq Reach(start, kids)
  BY <1>1, ReachIsClosed
<1>4. ASSUME NEW L \in SUBSET Nodes, start \subseteq L, \A o \in L : Children(c, o) \subseteq L
      PROVE  Reach(start, kids) \subseteq L
  <2>1. ClosedUnder(L, kids)
    BY <1>1, <1>4 DEF ClosedUnder
  <2> QED BY <1>1, <1>4, <2>1, ReachIsLeast
<1>5. \A o \in Reach(start, kids) : Children(c, o) \subseteq Reach(start, kids)
  BY <1>1, <1>3
<1> QED BY <1>2, <1>3, <1>4, <1>5 DEF start

\* One turn of forEachReachable(), and what it keeps.
Walks == [todo : SUBSET Nodes, done : SUBSET Nodes]
Onward(c) == [v \in Walks |-> IF v.todo = {} THEN v ELSE Visit(c, v)]

WalkOK(c, r, v) ==
  /\ v \in Walks
  /\ Range(r) \subseteq v.todo \cup v.done
  /\ v.todo \cup v.done \subseteq FromRoots(c, r)
  /\ v.todo \cap v.done = {}
  /\ \A x \in v.done : Children(c, x) \subseteq v.todo \cup v.done

LEMMA OnwardFacts ==
  ASSUME NEW c \in Heaps, NEW r \in Seq(Nodes), NEW v \in Walks, WalkOK(c, r, v)
  PROVE  /\ WalkOK(c, r, Onward(c)[v])
         /\ v.todo = {} => Onward(c)[v] = v
         /\ v.todo # {} => Cardinality(Onward(c)[v].done) = Cardinality(v.done) + 1
<1>1. CASE v.todo = {}
  BY <1>1 DEF Onward
<1>2. CASE v.todo # {}
  <2> DEFINE o == CHOOSE x \in v.todo : TRUE
             done == v.done \cup {o}
             w == [todo |-> (v.todo \cup Children(c, o)) \ done, done |-> done]
  <2>1. o \in v.todo /\ o \in Nodes /\ o \in FromRoots(c, r) /\ o \notin v.done
    BY <1>2 DEF Walks, WalkOK
  <2>2. Onward(c)[v] = w
    BY <1>2 DEF Onward, Visit
  <2>3. Children(c, o) \subseteq FromRoots(c, r) /\ Children(c, o) \subseteq Nodes
    BY <2>1, FromRootsFacts
  <2>4. Cardinality(done) = Cardinality(v.done) + 1
    <3>1. v.done \subseteq Nodes /\ IsFiniteSet(v.done)
      BY GraphAssumption, FS_Subset DEF Walks
    <3> QED BY <2>1, <3>1, FS_AddElement
  <2> HIDE DEF o
  <2>5. w \in Walks
    BY <2>1, <2>3 DEF Walks
  <2>6. WalkOK(c, r, w)
    BY <2>1, <2>3, <2>5 DEF WalkOK
  <2> QED BY <1>2, <2>2, <2>4, <2>6
<1> QED BY <1>1, <1>2

\* Reached unrolled.
LEMMA ReachedIsWalk ==
  ASSUME NEW c \in Heaps, NEW r \in Seq(Nodes)
  PROVE  \E f \in [0 .. Cardinality(Nodes) -> Walks] :
           /\ f[0] = [todo |-> Range(r), done |-> {}]
           /\ \A n \in 1 .. Cardinality(Nodes) : f[n] = Onward(c)[f[n - 1]]
           /\ Reached(c, r) = f[Cardinality(Nodes)].done
<1> DEFINE k == Cardinality(Nodes)
           x0 == [todo |-> Range(r), done |-> {}]
           Unrolled(f) == f = [n \in 0 .. k |->
                IF n = 0 THEN [todo |-> Range(r), done |-> {}]
                ELSE IF f[n - 1].todo = {} THEN f[n - 1] ELSE Visit(c, f[n - 1])]
<1>1. k \in Nat
  BY GraphAssumption, FS_CardinalityType
<1>2. x0 \in Walks
  BY RootsAreNodes DEF Walks
<1>3. Onward(c) \in [Walks -> Walks]
  <2>1. ASSUME NEW v \in Walks, v.todo # {}
        PROVE  Visit(c, v) \in Walks
    <3> DEFINE o == CHOOSE x \in v.todo : TRUE
    <3>1. o \in v.todo /\ o \in Nodes
      BY <2>1 DEF Walks
    <3>3. Visit(c, v) = [todo |-> (v.todo \cup Children(c, o)) \ (v.done \cup {o}),
                         done |-> v.done \cup {o}]
      BY DEF Visit
    <3> HIDE DEF o
    <3>2. Children(c, o) \subseteq Nodes
      BY <3>1, ChildrenAreNodes
    <3> QED BY <3>1, <3>2, <3>3 DEF Walks
  <2> QED BY <2>1 DEF Onward
<1>4. PICK f \in [0 .. k -> Walks] :
        f[0] = x0 /\ \A n \in 1 .. k : f[n] = Onward(c)[f[n - 1]]
  <2> HIDE DEF k, Unrolled, x0
  <2>1. PICK f : Iterates(f, Walks, x0, Onward(c), k)
    BY <1>1, <1>2, <1>3, IterationExists
  <2> QED BY <2>1 DEF Iterates
<1>5. Unrolled(f)
  <2> HIDE DEF k
  <2>1. ASSUME NEW n \in 0 .. k, n # 0
        PROVE  f[n] = IF f[n - 1].todo = {} THEN f[n - 1] ELSE Visit(c, f[n - 1])
    <3>1. n \in 1 .. k /\ n - 1 \in 0 .. k
      BY <1>1, <2>1
    <3> QED BY <3>1, <1>4 DEF Onward
  <2> QED BY <1>4, <2>1
<1>6. \A g : Unrolled(g) => g = f
  <2> SUFFICES ASSUME NEW g, Unrolled(g) PROVE g = f
    OBVIOUS
  <2> DEFINE S == {m \in Nat : m \in 0 .. k => g[m] = f[m]}
  <2> HIDE DEF k
  <2>1. \A n \in 0 .. k : g[n] = IF n = 0 THEN [todo |-> Range(r), done |-> {}]
                ELSE IF g[n - 1].todo = {} THEN g[n - 1] ELSE Visit(c, g[n - 1])
    OBVIOUS
  <2>2. \A n \in 0 .. k : f[n] = IF n = 0 THEN [todo |-> Range(r), done |-> {}]
                ELSE IF f[n - 1].todo = {} THEN f[n - 1] ELSE Visit(c, f[n - 1])
    BY <1>5
  <2>3. 0 \in S
    BY <2>1, <2>2
  <2>4. ASSUME NEW n \in Nat, n \in S
        PROVE  n + 1 \in S
    <3>1. CASE n + 1 \in 0 .. k
      <4>1. n \in 0 .. k /\ n + 1 # 0 /\ n + 1 - 1 = n
        BY <1>1, <3>1
      <4>2. g[n] = f[n]
        BY <2>4, <4>1
      <4>3. g[n + 1] = IF g[n].todo = {} THEN g[n] ELSE Visit(c, g[n])
        <5>1. \A m \in 0 .. k : m # 0 /\ m - 1 = n
                => g[m] = IF g[n].todo = {} THEN g[n] ELSE Visit(c, g[n])
          BY <2>1
        <5> QED BY ONLY <3>1, <4>1, <5>1
      <4>4. f[n + 1] = IF f[n].todo = {} THEN f[n] ELSE Visit(c, f[n])
        <5>1. \A m \in 0 .. k : m # 0 /\ m - 1 = n
                => f[m] = IF f[n].todo = {} THEN f[n] ELSE Visit(c, f[n])
          BY <2>2
        <5> QED BY ONLY <3>1, <4>1, <5>1
      <4>5. g[n + 1] = f[n + 1]
        BY <4>2, <4>3, <4>4
      <4> QED BY <4>5
    <3>2. CASE n + 1 \notin 0 .. k
      BY <3>2
    <3> QED BY <3>1, <3>2
  <2>5. Nat \subseteq S
    <3> HIDE DEF S
    <3> QED BY <2>3, <2>4, NatSetInduction
  <2>6. ASSUME NEW n \in 0 .. k
        PROVE  g[n] = f[n]
    <3>1. n \in Nat
      BY <1>1
    <3>2. n \in S
      <4> HIDE DEF S
      <4> QED BY <3>1, <2>5
    <3> QED BY <3>2
  <2>7. /\ g = [n \in 0 .. k |-> g[n]]
        /\ f = [n \in 0 .. k |-> f[n]]
    BY <1>5
  <2> QED BY <2>6, <2>7
<1>7. Reached(c, r) = f[k].done
  <2>1. (CHOOSE g : Unrolled(g)) = f
    <3> HIDE DEF Unrolled
    <3> QED BY <1>5, <1>6
  <2> QED BY <2>1 DEF Reached
<1> QED BY <1>4, <1>7

\* There are no more nodes than turns.
LEMMA ReachedIsReach ==
  ASSUME NEW c \in Heaps, NEW r \in Seq(Nodes)
  PROVE  Reached(c, r) = FromRoots(c, r)
<1> DEFINE k == Cardinality(Nodes)
<1>1. PICK f \in [0 .. k -> Walks] :
        /\ f[0] = [todo |-> Range(r), done |-> {}]
        /\ \A n \in 1 .. k : f[n] = Onward(c)[f[n - 1]]
        /\ Reached(c, r) = f[k].done
  BY ReachedIsWalk
<1>2. k \in Nat
  BY GraphAssumption, FS_CardinalityType
<1> DEFINE Counted(n) == f[n].todo = {} \/ n <= Cardinality(f[n].done)
           S == {n \in Nat : n \in 0 .. k => WalkOK(c, r, f[n]) /\ Counted(n)}
<1>3. 0 \in S
  <2>1. WalkOK(c, r, [todo |-> Range(r), done |-> {}])
    BY RootsAreNodes, FromRootsFacts DEF WalkOK, Walks
  <2>2. Cardinality({}) = 0
    BY FS_EmptySet
  <2>3. Cardinality(f[0].done) = 0
    BY <1>1, <2>2
  <2>4. WalkOK(c, r, f[0]) /\ Counted(0)
    BY <1>1, <2>1, <2>3
  <2> HIDE DEF Counted
  <2> QED BY <2>4
<1>4. ASSUME NEW n \in Nat, n \in S
      PROVE  n + 1 \in S
  <2> SUFFICES ASSUME n + 1 \in 0 .. k
               PROVE  WalkOK(c, r, f[n + 1]) /\ Counted(n + 1)
    OBVIOUS
  <2>1. n \in 0 .. k /\ n + 1 \in 1 .. k /\ n + 1 - 1 = n
    BY <1>2
  <2>2. f[n + 1] = Onward(c)[f[n]] /\ f[n] \in Walks
    BY <1>1, <2>1
  <2>3. WalkOK(c, r, f[n]) /\ Counted(n)
    BY <1>4, <2>1
  <2>4. /\ WalkOK(c, r, f[n + 1])
        /\ f[n].todo = {} => f[n + 1] = f[n]
        /\ f[n].todo # {} => Cardinality(f[n + 1].done) = Cardinality(f[n].done) + 1
    BY <2>2, <2>3, OnwardFacts
  <2>5. Cardinality(f[n].done) \in Nat
    <3>1. f[n].done \subseteq Nodes
      BY <2>2 DEF Walks
    <3> QED BY <3>1, GraphAssumption, FS_Subset, FS_CardinalityType
  <2> QED BY <2>3, <2>4, <2>5
<1>5. WalkOK(c, r, f[k]) /\ Counted(k)
  <2>1. Nat \subseteq S
    <3> HIDE DEF S
    <3> QED BY <1>3, <1>4, NatSetInduction
  <2> HIDE DEF Counted
  <2> QED BY <1>2, <2>1
<1>6. f[k].todo = {}
  <2> SUFFICES ASSUME f[k].todo # {} PROVE FALSE
    OBVIOUS
  <2>1. /\ f[k].todo \subseteq Nodes /\ f[k].done \subseteq Nodes
        /\ f[k].todo \cap f[k].done = {}
    BY <1>5 DEF WalkOK, Walks
  <2>2. Cardinality(f[k].done) = k
    <3>1. Cardinality(f[k].done) <= k /\ Cardinality(f[k].done) \in Nat
      BY <2>1, GraphAssumption, FS_Subset, FS_CardinalityType
    <3> QED BY <1>2, <1>5, <3>1
  <2>3. f[k].done = Nodes
    BY <2>1, <2>2, GraphAssumption, FS_Subset
  <2> QED BY <2>1, <2>3
<1>7. f[k].done = FromRoots(c, r)
  <2>1. /\ Range(r) \subseteq f[k].done /\ f[k].done \subseteq FromRoots(c, r)
        /\ f[k].done \in SUBSET Nodes /\ \A x \in f[k].done : Children(c, x) \subseteq f[k].done
    BY <1>5, <1>6 DEF WalkOK, Walks
  <2>2. FromRoots(c, r) \subseteq f[k].done
    BY <2>1, FromRootsFacts
  <2> QED BY <2>1, <2>2
<1> QED BY <1>1, <1>7
\* What the calls keep: the heap is well formed, no root is a root twice, what
\* the roots lead to is allocated, and a graph that is there is up to date.
RootsApart == \A i, j \in 1 .. Len(root) : i # j => root[i] # root[j]

GraphInv ==
  /\ allocated \subseteq Nodes /\ root \in Seq(Nodes) /\ cells \in Heaps
  /\ RootsApart
  /\ FromRoots(cells, root) \subseteq allocated
  /\ graph = <<>> \/ graph = <<Graph(cells, root)>>

\* The cells that are kept lead where they led.
Kept(c, r) == [o \in Nodes |-> IF o \in Reached(c, r) THEN c[o] ELSE <<>>]

LEMMA KeptFacts ==
  ASSUME NEW c \in Heaps, NEW r \in Seq(Nodes)
  PROVE  Kept(c, r) \in Heaps /\ FromRoots(Kept(c, r), r) = FromRoots(c, r)
<1> DEFINE d == Kept(c, r)
           L == FromRoots(c, r)
<1>1. d \in Heaps
  BY DEF Heaps, Kept
<1>2. L \subseteq Nodes /\ Range(r) \subseteq L /\ \A o \in L : Children(c, o) \subseteq L
  BY FromRootsFacts
<1>3. \A o \in L : d[o] = c[o]
  BY <1>2, ReachedIsReach DEF Kept
<1> HIDE DEF d, L
<1>4. /\ ChildrenIn(c) \in [Nodes -> SUBSET Nodes] /\ ChildrenIn(d) \in [Nodes -> SUBSET Nodes]
      /\ \A o \in Nodes : ChildrenIn(c)[o] = Children(c, o)
      /\ \A o \in Nodes : ChildrenIn(d)[o] = Children(d, o)
  BY <1>1, ChildrenAreNodes
<1>5. \A o \in L : ChildrenIn(c)[o] = ChildrenIn(d)[o]
  BY <1>2, <1>3, <1>4 DEF Children
<1>6. ClosedUnder(L, ChildrenIn(c))
  BY <1>2, <1>4 DEF ClosedUnder
<1>7. Reach(Range(r), ChildrenIn(c)) = Reach(Range(r), ChildrenIn(d))
  BY <1>2, <1>4, <1>5, <1>6, ReachIgnoresOutside
<1> QED BY <1>1, <1>7 DEF FromRoots, d, L

LEMMA EmptyHasNoChild ==
  ASSUME NEW n \in Nat
  PROVE  Empty(n) \in Seq(Nodes \cup {NoNode}) /\ Range(Empty(n)) \subseteq {NoNode}
  BY DEF Empty, Range

\* The heap with an empty object, and with a cell that has another child.
WithEmpty(c, o, n) == [c EXCEPT ![o] = Empty(n)]
WithChild(c, o, i, x) == [c EXCEPT ![o][i] = x]

LEMMA FreshFacts ==
  ASSUME NEW c \in Heaps, NEW o \in Nodes, NEW n \in Nat
  PROVE  /\ WithEmpty(c, o, n) \in Heaps
         /\ Children(WithEmpty(c, o, n), o) = {}
         /\ \A p \in Nodes : p # o => Children(WithEmpty(c, o, n), p) = Children(c, p)
  BY EmptyHasNoChild DEF Heaps, Children, WithEmpty

LEMMA RelinkFacts ==
  ASSUME NEW c \in Heaps, NEW o \in Nodes, NEW i \in DOMAIN c[o], NEW x \in Nodes \cup {NoNode}
  PROVE  /\ WithChild(c, o, i, x) \in Heaps
         /\ Children(WithChild(c, o, i, x), o) \subseteq Children(c, o) \cup ({x} \ {NoNode})
         /\ \A p \in Nodes : p # o => Children(WithChild(c, o, i, x), p) = Children(c, p)
         /\ \A p \in Nodes : p # o => WithChild(c, o, i, x)[p] = c[p]
<1> DEFINE q == [c[o] EXCEPT ![i] = x]
<1>1. c[o] \in Seq(Nodes \cup {NoNode})
  BY DEF Heaps
<1>2. q \in Seq(Nodes \cup {NoNode}) /\ DOMAIN q = DOMAIN c[o]
  BY <1>1
<1>3. q[i] = x /\ \A j \in DOMAIN c[o] : j # i => q[j] = c[o][j]
  BY <1>1
<1>4. WithChild(c, o, i, x) = [c EXCEPT ![o] = q]
  BY DEF Heaps, WithChild
<1> HIDE DEF q
<1>5. Range(q) \subseteq Range(c[o]) \cup {x}
  BY <1>2, <1>3 DEF Range
<1>6. [c EXCEPT ![o] = q] \in Heaps /\ [c EXCEPT ![o] = q][o] = q
      /\ \A p \in Nodes : p # o => [c EXCEPT ![o] = q][p] = c[p]
  BY <1>2 DEF Heaps
<1> QED BY <1>4, <1>5, <1>6 DEF Children

\* What a graph of a heap holds.
LEMMA GraphFacts ==
  ASSUME NEW c \in Heaps, NEW r \in Seq(Nodes)
  PROVE  /\ Graph(c, r).nodes = FromRoots(c, r)
         /\ \A p \in FromRoots(c, r) : \A i \in DOMAIN c[p] :
              IF c[p][i] = NoNode THEN <<p, i>> \in Graph(c, r).leaves
              ELSE [parent |-> p, child |-> c[p][i], index |-> i] \in Graph(c, r).edges
         /\ \A leaf \in Graph(c, r).leaves : \E p \in FromRoots(c, r) : \E i \in DOMAIN c[p] :
              leaf = <<p, i>> /\ c[p][i] = NoNode
         /\ \A e \in Graph(c, r).edges : \E p \in FromRoots(c, r) : \E i \in DOMAIN c[p] :
              e = [parent |-> p, child |-> c[p][i], index |-> i] /\ c[p][i] # NoNode
<1>1. /\ Graph(c, r).nodes = FromRoots(c, r)
      /\ Graph(c, r).edges = UNION {EdgesOf(c, o) : o \in FromRoots(c, r)}
      /\ Graph(c, r).leaves = UNION {LeavesOf(c, o) : o \in FromRoots(c, r)}
  BY ReachedIsReach DEF Graph
<1>2. \A p \in FromRoots(c, r) : \A i \in DOMAIN c[p] :
        IF c[p][i] = NoNode THEN <<p, i>> \in LeavesOf(c, p)
        ELSE [parent |-> p, child |-> c[p][i], index |-> i] \in EdgesOf(c, p)
  BY DEF LeavesOf, EdgesOf
<1>3. \A p \in FromRoots(c, r) : \A leaf \in LeavesOf(c, p) :
        \E i \in DOMAIN c[p] : leaf = <<p, i>> /\ c[p][i] = NoNode
  BY DEF LeavesOf
<1>4. \A p \in FromRoots(c, r) : \A e \in EdgesOf(c, p) : \E i \in DOMAIN c[p] :
        e = [parent |-> p, child |-> c[p][i], index |-> i] /\ c[p][i] # NoNode
  BY DEF EdgesOf
<1> QED BY <1>1, <1>2, <1>3, <1>4
LEMMA GraphIsCurrentOne == GraphInv => getGraph = Graph(cells, root)
  BY DEF GraphInv, getGraph

LEMMA GraphInvInit == GraphInit => GraphInv
<1> SUFFICES ASSUME GraphInit PROVE GraphInv
  OBVIOUS
<1>1. /\ allocated = {} /\ root = <<>> /\ graph = <<>>
      /\ cells = [o \in Nodes |-> <<>>]
  BY DEF GraphInit
<1>2. cells \in Heaps /\ root \in Seq(Nodes) /\ RootsApart
  BY <1>1 DEF Heaps, RootsApart
<1>3. FromRoots(cells, root) \subseteq {}
  <2>1. Range(root) \subseteq {}
    BY <1>1 DEF Range
  <2> QED BY <1>2, <2>1, FromRootsFacts
<1> QED BY <1>1, <1>2, <1>3 DEF GraphInv

\* A call that reads the graph leaves it there.
LEMMA ReadingKeepsInv ==
  ASSUME GraphInv, UNCHANGED <<allocated, cells, root>>, GraphIsThere \/ UNCHANGED graph
  PROVE  GraphInv'
<1>1. allocated' = allocated /\ cells' = cells /\ root' = root
  OBVIOUS
<1>2. graph' = graph \/ graph' = <<Graph(cells, root)>>
  BY GraphIsCurrentOne DEF GraphIsThere
<1> QED BY <1>1, <1>2 DEF GraphInv, RootsApart

\* A call that changes the heap drops it.
LEMMA ChangeKeepsInv ==
  ASSUME NEW c \in Heaps, CellsBecome(c), GraphIsReset,
         root' \in Seq(Nodes), RootsApart', allocated' \subseteq Nodes,
         FromRoots(c, root') \subseteq allocated'
  PROVE  GraphInv'
<1>1. cells' = Kept(c, root')
  BY DEF CellsBecome, Kept
<1>2. Kept(c, root') \in Heaps /\ FromRoots(Kept(c, root'), root') = FromRoots(c, root')
  BY KeptFacts
<1>3. cells' \in Heaps /\ FromRoots(cells', root') \subseteq allocated'
  BY <1>1, <1>2
<1> QED BY <1>3 DEF GraphInv, GraphIsReset

LEMMA AddRootKeepsInv ==
  ASSUME GraphInv, NEW o \in Nodes, NEW n \in Sizes, AddRoot(o, n)
  PROVE  GraphInv'
<1> DEFINE c == WithEmpty(cells, o, n)
           L == FromRoots(cells, root) \cup {o}
<1>1. /\ allocated \subseteq Nodes /\ root \in Seq(Nodes) /\ cells \in Heaps /\ RootsApart
      /\ n \in Nat
  BY GraphAssumption DEF GraphInv
<1>2. PICK A \in SUBSET allocated :
        /\ Range(root) \cup FromRoots(cells, root) \subseteq A
        /\ o \notin A /\ allocated' = A \cup {o}
  BY <1>1, ReachedIsReach DEF AddRoot, CreateNode, Collected
<1>3. root' = Append(root, o) /\ CellsBecome(c) /\ GraphIsReset
  BY DEF AddRoot, WithEmpty
<1>4. /\ c \in Heaps /\ Children(c, o) = {}
      /\ \A p \in Nodes : p # o => Children(c, p) = Children(cells, p)
  BY <1>1, FreshFacts
<1>5. /\ root' \in Seq(Nodes) /\ Len(root') = Len(root) + 1 /\ Len(root) \in Nat
      /\ root'[Len(root) + 1] = o /\ \A i \in 1 .. Len(root) : root'[i] = root[i]
  BY <1>1, <1>3, AppendFacts
<1>6. RootsApart'
  <2>1. \A i \in 1 .. Len(root) : root[i] # o
    BY <1>1, <1>2, RootsAreNodes
  <2> QED BY <1>1, <1>5, <2>1 DEF RootsApart
<1>7. FromRoots(c, root') \subseteq L
  <2>1. Range(root') \subseteq Range(root) \cup {o}
    BY <1>1, <1>5, RootsAreNodes
  <2>2. /\ Range(root) \subseteq FromRoots(cells, root) /\ FromRoots(cells, root) \subseteq Nodes
        /\ \A p \in FromRoots(cells, root) : Children(cells, p) \subseteq FromRoots(cells, root)
    BY <1>1, FromRootsFacts
  <2>3. L \in SUBSET Nodes /\ Range(root') \subseteq L
    BY <2>1, <2>2
  <2>4. \A p \in L : Children(c, p) \subseteq L
    BY <1>4, <2>2
  <2> HIDE DEF L, c
  <2> QED BY <1>4, <1>5, <2>3, <2>4, FromRootsFacts
<1>8. FromRoots(c, root') \subseteq allocated' /\ allocated' \subseteq Nodes
  BY <1>1, <1>2, <1>7
<1> HIDE DEF c
<1> QED BY <1>3, <1>4, <1>5, <1>6, <1>8, ChangeKeepsInv

LEMMA UnrootNodeKeepsInv ==
  ASSUME GraphInv, NEW k \in 1 .. numRoot, UnrootNode(k)
  PROVE  GraphInv'
<1> DEFINE q == [root EXCEPT ![k] = root[Len(root)]]
<1>1. allocated \subseteq Nodes /\ root \in Seq(Nodes) /\ cells \in Heaps /\ RootsApart
  BY DEF GraphInv
<1>2. k \in 1 .. Len(root) /\ Len(root) \in Nat /\ Len(root) \in 1 .. Len(root)
  BY <1>1 DEF numRoot
<1>3. /\ q \in Seq(Nodes) /\ Len(q) = Len(root) /\ q # <<>>
      /\ q[k] = root[Len(root)] /\ \A i \in 1 .. Len(root) : i # k => q[i] = root[i]
  BY <1>1, <1>2
<1>4. root' = SubSeq(q, 1, Len(q) - 1) /\ CellsBecome(cells) /\ GraphIsReset
  BY <1>3 DEF UnrootNode
<1> HIDE DEF q
<1>5. /\ root' \in Seq(Nodes) /\ Len(root') = Len(root) - 1
      /\ \A i \in 1 .. Len(root) - 1 : root'[i] = q[i]
  BY <1>3, <1>4, FrontFacts
<1>6. RootsApart'
  <2> SUFFICES ASSUME NEW i \in 1 .. Len(root) - 1, NEW j \in 1 .. Len(root) - 1, i # j
               PROVE  root'[i] # root'[j]
    BY <1>5 DEF RootsApart
  <2>1. /\ i \in 1 .. Len(root) /\ j \in 1 .. Len(root)
        /\ i # Len(root) /\ j # Len(root)
    BY <1>2
  <2>2. /\ root'[i] = IF i = k THEN root[Len(root)] ELSE root[i]
        /\ root'[j] = IF j = k THEN root[Len(root)] ELSE root[j]
    BY <1>3, <1>5, <2>1
  <2> QED BY <1>1, <1>2, <2>1, <2>2 DEF RootsApart
<1>7. allocated' \subseteq Nodes /\ FromRoots(cells, root') \subseteq allocated'
  <2>1. Reached(cells, root') = FromRoots(cells, root')
    BY <1>1, <1>5, ReachedIsReach
  <2> QED BY <1>1, <2>1 DEF UnrootNode
<1> QED BY <1>1, <1>4, <1>5, <1>6, <1>7, ChangeKeepsInv
LEMMA AddBulkKeepsInv ==
  ASSUME GraphInv, NEW leaf \in getGraph.leaves, NEW o \in Nodes, NEW n \in Sizes,
         AddBulk(leaf, o, n)
  PROVE  GraphInv'
<1>1. /\ allocated \subseteq Nodes /\ root \in Seq(Nodes) /\ cells \in Heaps /\ RootsApart
      /\ n \in Nat
  BY GraphAssumption DEF GraphInv
<1>2. /\ Range(root) \subseteq FromRoots(cells, root) /\ FromRoots(cells, root) \subseteq Nodes
      /\ \A p \in FromRoots(cells, root) : Children(cells, p) \subseteq FromRoots(cells, root)
  BY <1>1, FromRootsFacts
<1>3. PICK p \in FromRoots(cells, root) : \E i \in DOMAIN cells[p] : leaf = <<p, i>>
  <2>1. leaf \in Graph(cells, root).leaves
    BY GraphIsCurrentOne
  <2> QED BY <1>1, <2>1, GraphFacts
<1>4. PICK i \in DOMAIN cells[p] : leaf = <<p, i>>
  BY <1>3
<1>5. PICK A \in SUBSET allocated :
        /\ Range(root) \cup FromRoots(cells, root) \subseteq A
        /\ o \notin A /\ allocated' = A \cup {o}
  BY <1>1, ReachedIsReach DEF AddBulk, CreateNode, Collected
<1>6. p \in Nodes /\ p # o
  BY <1>2, <1>3, <1>5
<1> DEFINE b == WithChild(cells, p, i, o)
           c == WithEmpty(b, o, n)
           L == FromRoots(cells, root) \cup {o}
<1>7. root' = root /\ CellsBecome(c) /\ GraphIsReset
  BY <1>4 DEF AddBulk, WithEmpty, WithChild
<1>8. /\ b \in Heaps /\ Children(b, p) \subseteq Children(cells, p) \cup {o}
      /\ \A x \in Nodes : x # p => Children(b, x) = Children(cells, x)
  BY <1>1, <1>4, <1>6, RelinkFacts
<1> HIDE DEF b
<1>9. /\ c \in Heaps /\ Children(c, o) = {}
      /\ \A x \in Nodes : x # o => Children(c, x) = Children(b, x)
  BY <1>1, <1>8, FreshFacts
<1> HIDE DEF c
<1>10. FromRoots(c, root) \subseteq L
  <2>1. L \in SUBSET Nodes /\ Range(root) \subseteq L
    BY <1>2
  <2>2. \A x \in L : Children(c, x) \subseteq L
    BY <1>2, <1>8, <1>9
  <2> HIDE DEF L
  <2> QED BY <1>1, <1>9, <2>1, <2>2, FromRootsFacts
<1>11. /\ root' \in Seq(Nodes) /\ RootsApart' /\ allocated' \subseteq Nodes
       /\ FromRoots(c, root') \subseteq allocated'
  BY <1>1, <1>5, <1>7, <1>10 DEF RootsApart
<1> QED BY <1>7, <1>9, <1>11, ChangeKeepsInv

LEMMA SetChildKeepsInv ==
  ASSUME GraphInv, NEW p \in FromRoots(cells, root), NEW i \in DOMAIN cells[p],
         NEW x \in FromRoots(cells, root) \cup {NoNode}, SetChild(p, i, x)
  PROVE  GraphInv'
<1> DEFINE c == WithChild(cells, p, i, x)
<1>1. allocated \subseteq Nodes /\ root \in Seq(Nodes) /\ cells \in Heaps /\ RootsApart
  BY DEF GraphInv
<1>2. /\ Range(root) \subseteq FromRoots(cells, root) /\ FromRoots(cells, root) \subseteq Nodes
      /\ \A y \in FromRoots(cells, root) : Children(cells, y) \subseteq FromRoots(cells, root)
      /\ FromRoots(cells, root) \subseteq allocated
  BY <1>1, FromRootsFacts DEF GraphInv
<1>3. root' = root /\ allocated' = allocated /\ CellsBecome(c) /\ GraphIsReset
  BY DEF SetChild, WithChild
<1>4. p \in Nodes /\ x \in Nodes \cup {NoNode}
  BY <1>2
<1>5. /\ c \in Heaps /\ Children(c, p) \subseteq Children(cells, p) \cup ({x} \ {NoNode})
      /\ \A y \in Nodes : y # p => Children(c, y) = Children(cells, y)
  BY <1>1, <1>4, RelinkFacts
<1> HIDE DEF c
<1>6. \A y \in FromRoots(cells, root) : Children(c, y) \subseteq FromRoots(cells, root)
  BY <1>2, <1>5
<1>7. FromRoots(c, root) \subseteq FromRoots(cells, root)
  BY <1>1, <1>2, <1>5, <1>6, FromRootsFacts
<1>8. /\ root' \in Seq(Nodes) /\ RootsApart' /\ allocated' \subseteq Nodes
      /\ FromRoots(c, root') \subseteq allocated'
  BY <1>1, <1>2, <1>3, <1>7 DEF RootsApart
<1> QED BY <1>3, <1>5, <1>8, ChangeKeepsInv

LEMMA AddEdgeKeepsInv ==
  ASSUME GraphInv, NEW leaf \in getGraph.leaves, NEW node \in getGraph.nodes,
         AddEdge(leaf, node)
  PROVE  GraphInv'
<1>1. root \in Seq(Nodes) /\ cells \in Heaps /\ getGraph = Graph(cells, root)
  BY GraphIsCurrentOne DEF GraphInv
<1>2. PICK p \in FromRoots(cells, root) : \E i \in DOMAIN cells[p] : leaf = <<p, i>>
  BY <1>1, GraphFacts
<1>3. PICK i \in DOMAIN cells[p] : leaf = <<p, i>>
  BY <1>2
<1>4. node \in FromRoots(cells, root)
  BY <1>1, GraphFacts
<1>5. SetChild(p, i, node)
  BY <1>3 DEF AddEdge
<1> QED BY <1>4, <1>5, SetChildKeepsInv

LEMMA RemoveEdgeKeepsInv ==
  ASSUME GraphInv, NEW e \in getGraph.edges, RemoveEdge(e)
  PROVE  GraphInv'
<1>1. root \in Seq(Nodes) /\ cells \in Heaps /\ getGraph = Graph(cells, root)
  BY GraphIsCurrentOne DEF GraphInv
<1>2. PICK p \in FromRoots(cells, root) :
        \E i \in DOMAIN cells[p] : e = [parent |-> p, child |-> cells[p][i], index |-> i]
  BY <1>1, GraphFacts
<1>3. PICK i \in DOMAIN cells[p] : e = [parent |-> p, child |-> cells[p][i], index |-> i]
  BY <1>2
<1>4. SetChild(p, i, NoNode)
  BY <1>3 DEF RemoveEdge
<1> QED BY <1>4, SetChildKeepsInv

\* Every step of run() keeps the invariant.
LEMMA GraphNextKeepsInv ==
  ASSUME GraphInv, [GraphNext]_graphVars
  PROVE  GraphInv'
<1>1. CASE StepRoot
  BY <1>1, AddRootKeepsInv, UnrootNodeKeepsInv, ReadingKeepsInv DEF StepRoot
<1>2. CASE StepBulk
  BY <1>2, AddBulkKeepsInv, ReadingKeepsInv DEF StepBulk
<1>3. CASE StepAddEdge
  BY <1>3, AddEdgeKeepsInv, ReadingKeepsInv DEF StepAddEdge
<1>4. CASE StepRemoveEdge
  BY <1>4, RemoveEdgeKeepsInv, ReadingKeepsInv DEF StepRemoveEdge
<1>5. CASE Record
  BY <1>5, ReadingKeepsInv DEF Record
<1>6. CASE UNCHANGED graphVars
  BY <1>6, ReadingKeepsInv DEF graphVars
<1> QED BY <1>1, <1>2, <1>3, <1>4, <1>5, <1>6 DEF GraphNext

\* The heap stays well formed and the graph up to date, whatever is drawn.
THEOREM GraphInvHolds == GraphSpec => []GraphInv
<1>1. GraphInit => GraphInv
  BY GraphInvInit
<1>2. GraphInv /\ [GraphNext]_graphVars => GraphInv'
  BY GraphNextKeepsInv
<1> QED BY <1>1, <1>2, PTL DEF GraphSpec
\* The values of a function with finitely many arguments are finitely many.
LEMMA ValuesAreFinite ==
  ASSUME NEW S, IsFiniteSet(S), NEW T, NEW f \in [S -> T]
  PROVE  /\ IsFiniteSet(Range(f)) /\ Cardinality(Range(f)) <= Cardinality(S)
         /\ Cardinality(Range(f)) \in Nat
<1>1. f \in Surjection(S, Range(f))
  BY DEF Surjection, Range
<1>2. IsFiniteSet(Range(f)) /\ Cardinality(Range(f)) <= Cardinality(S)
  BY <1>1, FS_Surjection
<1> QED BY <1>2, FS_CardinalityType

LEMMA NumbersAreFinite ==
  ASSUME NEW n \in Nat
  PROVE  IsFiniteSet(1 .. n) /\ Cardinality(1 .. n) = n
<1>1. /\ IsFiniteSet(1 .. n)
      /\ Cardinality(1 .. n) = IF 1 > n THEN 0 ELSE n - 1 + 1
  BY FS_Interval
<1> QED BY <1>1

LEMMA CellsAreFinite ==
  ASSUME NEW c \in Heaps, NEW o \in Nodes
  PROVE  IsFiniteSet(DOMAIN c[o])
<1>1. c[o] \in Seq(Nodes \cup {NoNode})
  BY DEF Heaps
<1>2. DOMAIN c[o] = 1 .. Len(c[o]) /\ Len(c[o]) \in Nat
  BY <1>1
<1> QED BY <1>2, NumbersAreFinite

LEMMA EdgesAreFinite ==
  ASSUME NEW c \in Heaps, NEW o \in Nodes
  PROVE  IsFiniteSet(EdgesOf(c, o))
<1> DEFINE S == {j \in DOMAIN c[o] : c[o][j] # NoNode}
           f == [i \in S |-> [parent |-> o, child |-> c[o][i], index |-> i]]
<1>1. IsFiniteSet(S)
  BY CellsAreFinite, FS_Subset
<1>2. Range(f) = EdgesOf(c, o)
  BY DEF Range, EdgesOf
<1>3. f \in [S -> Range(f)]
  BY DEF Range
<1> HIDE DEF S, f
<1> QED BY <1>1, <1>2, <1>3, ValuesAreFinite

LEMMA LeavesAreFinite ==
  ASSUME NEW c \in Heaps, NEW o \in Nodes
  PROVE  IsFiniteSet(LeavesOf(c, o))
<1> DEFINE S == {j \in DOMAIN c[o] : c[o][j] = NoNode}
           f == [i \in S |-> <<o, i>>]
<1>1. IsFiniteSet(S)
  BY CellsAreFinite, FS_Subset
<1>2. Range(f) = LeavesOf(c, o)
  BY DEF Range, LeavesOf
<1>3. f \in [S -> Range(f)]
  BY DEF Range
<1> HIDE DEF S, f
<1> QED BY <1>1, <1>2, <1>3, ValuesAreFinite

LEMMA GraphIsFinite ==
  ASSUME NEW c \in Heaps, NEW r \in Seq(Nodes)
  PROVE  /\ IsFiniteSet(Graph(c, r).nodes) /\ IsFiniteSet(Graph(c, r).edges)
         /\ IsFiniteSet(Graph(c, r).leaves)
<1> DEFINE N == FromRoots(c, r)
           f == [o \in N |-> EdgesOf(c, o)]
           g == [o \in N |-> LeavesOf(c, o)]
<1>1. N \subseteq Nodes
  BY FromRootsFacts
<1>2. IsFiniteSet(N)
  BY <1>1, GraphAssumption, FS_Subset
<1>3. /\ Graph(c, r).nodes = N /\ Graph(c, r).edges = UNION Range(f)
      /\ Graph(c, r).leaves = UNION Range(g)
  BY ReachedIsReach DEF Graph, Range
<1>4. f \in [N -> Range(f)] /\ g \in [N -> Range(g)]
  BY DEF Range
<1>5. \A T \in Range(f) : IsFiniteSet(T)
  BY <1>1, EdgesAreFinite DEF Range
<1>6. \A T \in Range(g) : IsFiniteSet(T)
  BY <1>1, LeavesAreFinite DEF Range
<1> HIDE DEF N, f, g
<1>7. IsFiniteSet(Range(f)) /\ IsFiniteSet(Range(g))
  BY <1>2, <1>4, ValuesAreFinite
<1> QED BY <1>2, <1>3, <1>5, <1>6, <1>7, FS_UNION

\* Every node is a root or at the end of an edge.
LEMMA NodesAreCounted ==
  ASSUME NEW c \in Heaps, NEW r \in Seq(Nodes)
  PROVE  Cardinality(Graph(c, r).nodes) <= Len(r) + Cardinality(Graph(c, r).edges)
<1> DEFINE N == Graph(c, r).nodes
           E == Graph(c, r).edges
           f == [e \in E |-> e.child]
           L == {o \in N : o \in Range(r) \cup Range(f)}
<1>1. /\ N = FromRoots(c, r) /\ Range(r) \subseteq N /\ N \subseteq Nodes
      /\ \A o \in N : Children(c, o) \subseteq N
  BY GraphFacts, FromRootsFacts
<1>2. \A o \in N : Children(c, o) \subseteq Range(f)
  <2> SUFFICES ASSUME NEW o \in N, NEW i \in DOMAIN c[o], c[o][i] # NoNode
               PROVE  c[o][i] \in Range(f)
    BY DEF Children, Range
  <2>1. [parent |-> o, child |-> c[o][i], index |-> i] \in E
    BY <1>1, GraphFacts
  <2> QED BY <2>1 DEF Range
<1>3. N \subseteq Range(r) \cup Range(f)
  <2>1. L \in SUBSET Nodes /\ Range(r) \subseteq L /\ \A o \in L : Children(c, o) \subseteq L
    BY <1>1, <1>2
  <2> HIDE DEF f, L, N, E
  <2>2. N \subseteq L
    BY <1>1, <2>1, FromRootsFacts
  <2> QED BY <2>2 DEF L
<1>4. IsFiniteSet(Range(f)) /\ Cardinality(Range(f)) <= Cardinality(E) /\ Cardinality(E) \in Nat
      /\ Cardinality(Range(f)) \in Nat
  <2>1. f \in [E -> Range(f)]
    BY DEF Range
  <2>2. IsFiniteSet(E)
    BY GraphIsFinite
  <2> HIDE DEF f, E
  <2> QED BY <2>1, <2>2, ValuesAreFinite, FS_CardinalityType
<1>5. IsFiniteSet(Range(r)) /\ Cardinality(Range(r)) <= Len(r) /\ Cardinality(Range(r)) \in Nat
  <2>1. r \in [1 .. Len(r) -> Nodes] /\ Len(r) \in Nat
    OBVIOUS
  <2>2. IsFiniteSet(1 .. Len(r)) /\ Cardinality(1 .. Len(r)) = Len(r)
    BY <2>1, NumbersAreFinite
  <2> QED BY <2>1, <2>2, ValuesAreFinite
<1> HIDE DEF N, E, f, L
<1>6. /\ IsFiniteSet(Range(r) \cup Range(f))
      /\ Cardinality(Range(r) \cup Range(f)) <= Cardinality(Range(r)) + Cardinality(Range(f))
  <2>1. Cardinality(Range(r) \cap Range(f)) \in Nat
    BY <1>5, FS_Intersection, FS_CardinalityType
  <2>2. /\ IsFiniteSet(Range(r) \cup Range(f))
        /\ Cardinality(Range(r) \cup Range(f))
             = Cardinality(Range(r)) + Cardinality(Range(f)) - Cardinality(Range(r) \cap Range(f))
    BY <1>4, <1>5, FS_Union
  <2> QED BY <1>4, <1>5, <2>1, <2>2
<1>7. /\ Cardinality(N) <= Cardinality(Range(r) \cup Range(f))
      /\ Cardinality(N) \in Nat /\ Cardinality(Range(r) \cup Range(f)) \in Nat
  BY <1>3, <1>6, FS_Subset, FS_CardinalityType
<1>8. Len(r) \in Nat
  OBVIOUS
<1>9. Cardinality(N) <= Len(r) + Cardinality(E)
  BY <1>4, <1>5, <1>6, <1>7, <1>8
<1> QED BY <1>9 DEF N, E

\* A graph that is there is the one of the heap as it is now.
THEOREM GraphHolds == GraphSpec => []GraphIsHeap
<1>1. GraphInv => GraphIsHeap
  <2> SUFFICES ASSUME GraphInv, graph # <<>> PROVE GraphIsHeap
    BY DEF GraphIsHeap
  <2> DEFINE g == Graph(cells, root)
             N == FromRoots(cells, root)
  <2>1. /\ allocated \subseteq Nodes /\ root \in Seq(Nodes) /\ cells \in Heaps /\ RootsApart
        /\ N \subseteq allocated /\ graph[1] = g /\ getGraph = g
    BY GraphIsCurrentOne DEF GraphInv
  <2>2. Range(root) \subseteq N /\ \A o \in N : Children(cells, o) \subseteq N
    BY <2>1, FromRootsFacts
  <2>3. /\ g.nodes = N
        /\ \A p \in N : \A i \in DOMAIN cells[p] :
             IF cells[p][i] = NoNode THEN <<p, i>> \in g.leaves
             ELSE [parent |-> p, child |-> cells[p][i], index |-> i] \in g.edges
        /\ \A leaf \in g.leaves : \E p \in N : \E i \in DOMAIN cells[p] :
             leaf = <<p, i>> /\ cells[p][i] = NoNode
        /\ \A e \in g.edges : \E p \in N : \E i \in DOMAIN cells[p] :
             e = [parent |-> p, child |-> cells[p][i], index |-> i] /\ cells[p][i] # NoNode
    BY <2>1, GraphFacts
  <2>4. IsFiniteSet(g.nodes) /\ IsFiniteSet(g.edges) /\ IsFiniteSet(g.leaves)
    BY <2>1, GraphIsFinite
  <2>5. Cardinality(g.nodes) <= Len(root) + Cardinality(g.edges)
    BY <2>1, NodesAreCounted
  <2> HIDE DEF g
  <2>6. \A e \in g.edges : {e.parent, e.child} \subseteq N /\ cells[e.parent][e.index] = e.child
    BY <2>2, <2>3 DEF Children, Range
  <2>7. \A leaf \in g.leaves : leaf[1] \in N /\ cells[leaf[1]][leaf[2]] = NoNode
    BY <2>3
  <2>8. numRoot <= numTotal
    <3>1. root \in Injection(1 .. Len(root), g.nodes)
      BY <2>1, <2>2, <2>3 DEF RootsApart, Injection, IsInjective, Range
    <3>2. Cardinality(1 .. Len(root)) = Len(root)
      <4>1. Len(root) \in Nat
        BY <2>1
      <4> QED BY <4>1, NumbersAreFinite
    <3>3. Cardinality(1 .. Len(root)) <= Cardinality(g.nodes)
      BY <2>4, <3>1, FS_Injection
    <3> QED BY <2>1, <3>2, <3>3 DEF numRoot, numTotal
  <2>9. numTotal <= numAllocated
    <3>1. IsFiniteSet(allocated)
      BY <2>1, GraphAssumption, FS_Subset
    <3> QED BY <2>1, <2>3, <3>1, FS_Subset DEF numTotal, numAllocated
  <2>10. numBulk <= numEdges + numLeaves
    <3>1. /\ Cardinality(g.nodes) \in Nat /\ Cardinality(g.edges) \in Nat
          /\ Cardinality(g.leaves) \in Nat /\ Len(root) \in Nat
      BY <2>1, <2>4, FS_CardinalityType
    <3>2. Cardinality(g.nodes) - Len(root) <= Cardinality(g.edges) + Cardinality(g.leaves)
      BY <2>5, <3>1
    <3> QED BY <2>1, <3>2 DEF numBulk, numTotal, numRoot, numEdges, numLeaves
  <2>11. g.nodes = Reach(Range(root), [o \in Nodes |-> Children(cells, o)])
    BY <2>3 DEF FromRoots, ChildrenIn
  <2> HIDE DEF N
  <2> QED BY <2>1, <2>3, <2>6, <2>7, <2>8, <2>9, <2>10, <2>11 DEF GraphIsHeap
<1> QED BY <1>1, GraphInvHolds, PTL
=============================================================================
