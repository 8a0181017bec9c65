----------------------------- MODULE UtilProofs -----------------------------
(***************************************************************************)
(* Proofs about the small tools of the C library, for every set of         *)
(* addresses, lists, items and command lines: the memory checker (Xmalloc) *)
(* reports what leaks, the linked lists (DlList) link both ways and are    *)
(* sequences, the parser (ArgParse) takes a regular line as it is meant,   *)
(* and the unit tests (UnitTests) report what they have shown.             *)
(***************************************************************************)
EXTENDS Xmalloc, DlList, ArgParse, UnitTests, ReachabilityTheorems, FiniteSetTheorems

---------------------------------------------------------------------------
(* The memory checker.                                                     *)

\* An element in front of a sequence.
LEMMA InFront ==
  ASSUME NEW T, NEW s \in Seq(T), NEW c \in T, NEW u, u = <<c>> \o s
  PROVE  /\ u \in Seq(T) /\ Len(u) = Len(s) + 1 /\ u[1] = c
         /\ \A i \in 2 .. Len(s) + 1 : u[i] = s[i - 1]
<1> DEFINE v == <<c>>
<1>1. v \in Seq(T) /\ Len(v) = 1 /\ v[1] = c /\ Len(s) \in Nat
  BY LenProperties
<1> HIDE DEF v
<1>2. /\ v \o s \in Seq(T) /\ Len(v \o s) = Len(v) + Len(s)
      /\ \A i \in 1 .. Len(v) + Len(s) :
           (v \o s)[i] = IF i <= Len(v) THEN v[i] ELSE s[i - Len(v)]
  BY <1>1, ConcatProperties
<1>3. u = v \o s
  BY DEF v
<1> QED BY <1>1, <1>2, <1>3

OwnErrors == {"unmanaged", "double free"}

\* What a context knows of the blocks allocated in it: they are its chunks
\* that are alive.  Leaks are not among its errors before the report.
Honest(c, S) == /\ c \in Context /\ c.errors \in Seq(OwnErrors)
                /\ S = {a \in Addresses : c.chunk[a] = "live"}

MemoryInv ==
  /\ inUse \subseteq Addresses
  /\ stack \in Seq(Context) /\ held \in Seq(SUBSET Addresses) /\ Len(held) = Len(stack)
  /\ \A k \in DOMAIN stack : Honest(stack[k], held[k])

\* A new context has nothing in it.
LEMMA NewIsHonest == Honest(NewContext, {})
<1>1. <<>> \in Seq(BOOLEAN) /\ <<>> \in Seq(OwnErrors)
      /\ <<>> \in Seq({"leak", "unmanaged", "double free"})
  BY EmptySeq
<1> QED BY <1>1 DEF Honest, NewContext, Context

\* The errors of a context are errors a report may hold.
LEMMA OwnErrorsAreErrors ==
  ASSUME NEW q \in Seq(OwnErrors)
  PROVE  q \in Seq({"leak", "unmanaged", "double free"})
  BY SeqMonotonic DEF OwnErrors

\* memcheck_next_mock() takes an expectation and nothing else.
LEMMA MocksAreNothing ==
  ASSUME NEW c, NEW S, Honest(c, S), c = Current
  PROVE  Honest(NextMock(c), S) /\ NextMock(c).enabled = c.enabled
<1>1. ASSUME c.mocks # <<>> PROVE Tail(c.mocks) \in Seq(BOOLEAN)
  BY <1>1, HeadTailProperties DEF Honest, Context
<1>2. NextMock(c) = c \/ (c.mocks # <<>> /\ NextMock(c) = [c EXCEPT !.mocks = Tail(c.mocks)])
  BY DEF NextMock, Mocked
<1>3. CASE NextMock(c) = c
  BY <1>3
<1>4. CASE c.mocks # <<>> /\ NextMock(c) = [c EXCEPT !.mocks = Tail(c.mocks)]
  <2>1. c \in Context
    BY DEF Honest
  <2> DEFINE d == [c EXCEPT !.mocks = Tail(c.mocks)]
  <2>2. /\ d.chunk = c.chunk /\ d.errors = c.errors /\ d.enabled = c.enabled
        /\ d \in Context
    BY <1>1, <1>4, <2>1 DEF Context
  <2>3. NextMock(c) = d
    BY <1>4
  <2> HIDE DEF d
  <2>4. Honest(d, S)
    BY <2>2 DEF Honest
  <2> QED BY <2>2, <2>3, <2>4
<1> QED BY <1>2, <1>3, <1>4

\* memcheck_register_alloc() adds a block to those of the context, if it is
\* enabled.
LEMMA AllocIsHonest ==
  ASSUME NEW c, NEW S, Honest(c, S), NEW a \in Addresses
  PROVE  /\ Honest(RegisterAlloc(c, a), IF c.enabled THEN S \cup {a} ELSE S)
         /\ RegisterAlloc(c, a).enabled = c.enabled
<1> DEFINE d == [c EXCEPT !.chunk[a] = "live"]
<1>1. /\ d.chunk = [c.chunk EXCEPT ![a] = "live"] /\ d.errors = c.errors
      /\ d.mocks = c.mocks /\ d.enabled = c.enabled /\ d \in Context
  BY DEF Honest, Context
<1>2. S \cup {a} = {b \in Addresses : d.chunk[b] = "live"}
  BY <1>1 DEF Honest, Context
<1> QED BY <1>1, <1>2 DEF Honest, RegisterAlloc

\* memcheck_register_freed() takes it away, whatever the context knew of it.
LEMMA FreedIsHonest ==
  ASSUME NEW c, NEW S, Honest(c, S), NEW a \in Addresses
  PROVE  /\ Honest(RegisterFreed(c, a), S \ {a})
         /\ RegisterFreed(c, a).enabled = c.enabled
<1>1. CASE c.chunk[a] \in {"none", "freed"}
  <2>1. PICK e \in OwnErrors : RegisterFreed(c, a) = [c EXCEPT !.errors = Append(c.errors, e)]
    BY <1>1 DEF RegisterFreed, OwnErrors
  <2>2. Append(c.errors, e) \in Seq(OwnErrors)
    BY AppendProperties DEF Honest
  <2>3. Append(c.errors, e) \in Seq({"leak", "unmanaged", "double free"})
    BY <2>2, OwnErrorsAreErrors
  <2>4. S \ {a} = S
    BY <1>1 DEF Honest
  <2> QED BY <2>1, <2>2, <2>3, <2>4 DEF Honest, Context
<1>2. CASE c.chunk[a] \notin {"none", "freed"}
  <2> DEFINE d == [c EXCEPT !.chunk[a] = "freed"]
  <2>1. /\ d.chunk = [c.chunk EXCEPT ![a] = "freed"] /\ d.errors = c.errors
        /\ d.mocks = c.mocks /\ d.enabled = c.enabled /\ d \in Context
    BY DEF Honest, Context
  <2>2. S \ {a} = {b \in Addresses : d.chunk[b] = "live"}
    BY <2>1 DEF Honest, Context
  <2> QED BY <1>2, <2>1, <2>2 DEF Honest, RegisterFreed
<1> QED BY <1>1, <1>2

\* A call that is about the current context leaves the others alone.
LEMMA CurrentReplaced ==
  ASSUME MemoryInv, InContext, NEW c, NEW S, Honest(c, S), inUse' \subseteq Addresses,
         \/ stack' = <<c>> \o Tail(stack)
         \/ stack' = [stack EXCEPT ![1] = c],
         held' = [held EXCEPT ![1] = S]
  PROVE  MemoryInv'
<1>1. stack \in Seq(Context) /\ stack # <<>> /\ c \in Context /\ S \in SUBSET Addresses
      /\ held \in Seq(SUBSET Addresses) /\ Len(held) = Len(stack)
      /\ Len(stack) \in Nat \ {0} /\ DOMAIN stack = 1 .. Len(stack)
  BY DEF MemoryInv, InContext, Honest
<1>2. stack' \in Seq(Context) /\ Len(stack') = Len(stack) /\ stack'[1] = c
      /\ \A k \in 2 .. Len(stack) : stack'[k] = stack[k]
  <2>1. CASE stack' = [stack EXCEPT ![1] = c]
    BY <1>1, <2>1, ExceptSeq
  <2>2. CASE stack' = <<c>> \o Tail(stack)
    <3>1. /\ Tail(stack) \in Seq(Context) /\ Len(Tail(stack)) = Len(stack) - 1
          /\ \A k \in 1 .. Len(Tail(stack)) : Tail(stack)[k] = stack[k + 1]
      BY <1>1, HeadTailProperties
    <3> DEFINE r == Tail(stack)
    <3> HIDE DEF r
    <3>2. /\ stack' \in Seq(Context) /\ Len(stack') = Len(r) + 1 /\ stack'[1] = c
          /\ \A i \in 2 .. Len(r) + 1 : stack'[i] = r[i - 1]
      BY <1>1, <2>2, <3>1, InFront DEF r
    <3> QED BY <1>1, <3>1, <3>2 DEF r
  <2> QED BY <2>1, <2>2
<1>3. held' \in Seq(SUBSET Addresses) /\ Len(held') = Len(held) /\ held'[1] = S
      /\ \A k \in 2 .. Len(held) : held'[k] = held[k]
  BY <1>1, ExceptSeq
<1>4. \A k \in DOMAIN stack' : Honest(stack'[k], held'[k])
  BY <1>1, <1>2, <1>3 DEF MemoryInv
<1> QED BY <1>1, <1>2, <1>3, <1>4 DEF MemoryInv

\* What the current context knows.
LEMMA CurrentIsHonest ==
  ASSUME MemoryInv, InContext
  PROVE  Honest(Current, held[1]) /\ Current = stack[1] /\ Current.enabled \in BOOLEAN
<1>1. stack # <<>> /\ Current = stack[1] /\ 1 \in DOMAIN stack
  BY HeadTailProperties, EmptySeq DEF MemoryInv, InContext, Current
<1> QED BY <1>1 DEF MemoryInv, Honest, Context

LEMMA MemoryInvInit == MemoryInit => MemoryInv
  BY EmptySeq DEF MemoryInit, MemoryInv

LEMMA BeginKeepsInv == ASSUME MemoryInv, MemcheckBegin PROVE MemoryInv'
<1>1. NewContext \in Context /\ {} \in SUBSET Addresses
  BY NewIsHonest DEF Honest
<1>2. /\ stack \in Seq(Context) /\ held \in Seq(SUBSET Addresses) /\ Len(held) = Len(stack)
      /\ Len(stack) \in Nat /\ DOMAIN stack = 1 .. Len(stack)
  BY DEF MemoryInv
<1>3. stack' = <<NewContext>> \o stack /\ held' = <<{}>> \o held /\ inUse' = inUse
  BY DEF MemcheckBegin
<1>4. /\ stack' \in Seq(Context) /\ Len(stack') = Len(stack) + 1 /\ stack'[1] = NewContext
      /\ \A i \in 2 .. Len(stack) + 1 : stack'[i] = stack[i - 1]
  BY <1>1, <1>2, <1>3, InFront
<1>5. /\ held' \in Seq(SUBSET Addresses) /\ Len(held') = Len(held) + 1 /\ held'[1] = {}
      /\ \A i \in 2 .. Len(held) + 1 : held'[i] = held[i - 1]
  BY <1>1, <1>2, <1>3, InFront
<1>6. ASSUME NEW k \in DOMAIN stack' PROVE Honest(stack'[k], held'[k])
  <2>1. CASE k = 1
    BY <1>4, <1>5, <2>1, NewIsHonest
  <2>2. CASE k # 1
    <3>1. k \in 2 .. Len(stack) + 1 /\ k - 1 \in DOMAIN stack
      BY <1>2, <1>4, <2>2
    <3> QED BY <1>2, <1>4, <1>5, <3>1 DEF MemoryInv
  <2> QED BY <2>1, <2>2
<1> QED BY <1>2, <1>3, <1>4, <1>5, <1>6 DEF MemoryInv

LEMMA EndKeepsInv == ASSUME MemoryInv, MemcheckEnd PROVE MemoryInv'
<1>1. /\ stack \in Seq(Context) /\ held \in Seq(SUBSET Addresses) /\ Len(held) = Len(stack)
      /\ stack # <<>> /\ held # <<>> /\ DOMAIN stack = 1 .. Len(stack)
      /\ stack' = Tail(stack) /\ held' = Tail(held) /\ inUse' = inUse
  BY EmptySeq DEF MemoryInv, MemcheckEnd, InContext
<1>2. /\ stack' \in Seq(Context) /\ Len(stack') = Len(stack) - 1
      /\ \A k \in 1 .. Len(stack') : stack'[k] = stack[k + 1]
  BY <1>1, HeadTailProperties
<1>3. /\ held' \in Seq(SUBSET Addresses) /\ Len(held') = Len(held) - 1
      /\ \A k \in 1 .. Len(held') : held'[k] = held[k + 1]
  BY <1>1, HeadTailProperties
<1>4. \A k \in DOMAIN stack' : Honest(stack'[k], held'[k])
  BY <1>1, <1>2, <1>3 DEF MemoryInv
<1> QED BY <1>1, <1>2, <1>3, <1>4 DEF MemoryInv

\* The calls that write one field of the current context.
LEMMA FieldsKeepInv ==
  ASSUME MemoryInv,
         \/ MemcheckFinalize \/ MemcheckRemoveFirstAssertion
         \/ \E b \in BOOLEAN : MemcheckEnable(b) \/ ExpectedAlloc(b)
  PROVE  MemoryInv'
<1>1. InContext /\ inUse' = inUse /\ held' = held /\ inUse \subseteq Addresses
  BY DEF MemcheckFinalize, MemcheckRemoveFirstAssertion, MemcheckEnable, ExpectedAlloc, MemoryInv
<1> DEFINE c == Current
<1>2. Honest(c, held[1]) /\ c = stack[1]
  BY <1>1, CurrentIsHonest
<1>3. c \in Context /\ c.errors \in Seq(OwnErrors)
  BY <1>2 DEF Honest
<1>4. SUFFICES ASSUME NEW d, d.chunk = c.chunk, d \in Context, d.errors \in Seq(OwnErrors),
                      stack' = [stack EXCEPT ![1] = d]
               PROVE  MemoryInv'
  <2>1. CASE MemcheckFinalize
    <3> DEFINE d == [c EXCEPT !.errors = <<>>]
    <3>1. stack' = [stack EXCEPT ![1] = d]
      BY <1>2, <2>1 DEF MemcheckFinalize
    <3>2. <<>> \in Seq(OwnErrors) /\ <<>> \in Seq({"leak", "unmanaged", "double free"})
      BY EmptySeq
    <3> HIDE DEF c
    <3>8. d.chunk = c.chunk /\ d \in Context /\ d.errors \in Seq(OwnErrors)
      BY <1>3, <3>2 DEF Context
    <3> HIDE DEF d
    <3> QED BY <1>4, <3>1, <3>8
  <2>2. CASE MemcheckRemoveFirstAssertion
    <3> DEFINE d == [c EXCEPT !.errors = Tail(c.errors)]
    <3>1. stack' = [stack EXCEPT ![1] = d] /\ c.errors # <<>>
      BY <1>2, <2>2 DEF MemcheckRemoveFirstAssertion
    <3> HIDE DEF c
    <3>2. Tail(c.errors) \in Seq(OwnErrors)
      BY <1>3, <3>1, HeadTailProperties
    <3>3. Tail(c.errors) \in Seq({"leak", "unmanaged", "double free"})
      BY <3>2, OwnErrorsAreErrors
    <3>8. d.chunk = c.chunk /\ d \in Context /\ d.errors \in Seq(OwnErrors)
      BY <1>3, <3>2, <3>3 DEF Context
    <3> HIDE DEF d
    <3> QED BY <1>4, <3>1, <3>8
  <2>3. ASSUME NEW b \in BOOLEAN, MemcheckEnable(b) PROVE MemoryInv'
    <3> DEFINE d == [c EXCEPT !.enabled = b]
    <3>1. stack' = [stack EXCEPT ![1] = d]
      BY <1>2, <2>3 DEF MemcheckEnable
    <3> HIDE DEF c
    <3>8. d.chunk = c.chunk /\ d \in Context /\ d.errors \in Seq(OwnErrors)
      BY <1>3 DEF Context
    <3> HIDE DEF d
    <3> QED BY <1>4, <3>1, <3>8
  <2>4. ASSUME NEW b \in BOOLEAN, ExpectedAlloc(b) PROVE MemoryInv'
    <3> DEFINE d == [c EXCEPT !.mocks = Append(c.mocks, b)]
    <3>1. stack' = [stack EXCEPT ![1] = d]
      BY <1>2, <2>4 DEF ExpectedAlloc
    <3> HIDE DEF c
    <3>2. Append(c.mocks, b) \in Seq(BOOLEAN)
      BY <1>3, AppendProperties DEF Context
    <3>8. d.chunk = c.chunk /\ d \in Context /\ d.errors \in Seq(OwnErrors)
      BY <1>3, <3>2 DEF Context
    <3> HIDE DEF d
    <3> QED BY <1>4, <3>1, <3>8
  <2> QED BY <2>1, <2>2, <2>3, <2>4
<1>5. Honest(d, held[1])
  BY <1>2, <1>4 DEF Honest
<1>6. held = [held EXCEPT ![1] = held[1]]
  BY DEF MemoryInv
<1> QED BY <1>1, <1>4, <1>5, <1>6, CurrentReplaced

\* MALLOC, REALLOC and FREE without a context keep no books.
LEMMA OutsideKeepsInv ==
  ASSUME MemoryInv, ~InContext, inUse' \subseteq Addresses, UNCHANGED <<stack, held>>
  PROVE  MemoryInv'
  BY DEF MemoryInv, Honest

LEMMA MallocKeepsInv == ASSUME MemoryInv, NEW a \in Addresses, Malloc(a) PROVE MemoryInv'
<1>1. inUse' \subseteq Addresses
  BY DEF Malloc, MemoryInv
<1>2. CASE ~InContext
  BY <1>1, <1>2, OutsideKeepsInv DEF Malloc, Update, Hold
<1>3. CASE InContext
  <2> DEFINE c == NextMock(Current)
  <2>1. Honest(Current, held[1]) /\ Current.enabled \in BOOLEAN
    BY <1>3, CurrentIsHonest
  <2>2. Honest(c, held[1]) /\ c.enabled = Current.enabled
    BY <2>1, MocksAreNothing
  <2>3. Enabled <=> c.enabled
    BY <1>3, <2>2 DEF Enabled
  <2>4. CASE Succeeds
    <3> DEFINE S == IF Enabled THEN held[1] \cup {a} ELSE held[1]
    <3>1. stack' = <<RegisterAlloc(c, a)>> \o Tail(stack) /\ held' = [held EXCEPT ![1] = S]
      BY <1>3, <2>4 DEF Malloc, Update, Hold
    <3>2. Honest(RegisterAlloc(c, a), IF c.enabled THEN held[1] \cup {a} ELSE held[1])
      <4> HIDE DEF c
      <4> QED BY <2>2, AllocIsHonest
    <3> HIDE DEF c
    <3>3. Honest(RegisterAlloc(c, a), S)
      BY <2>3, <3>2
    <3> HIDE DEF S
    <3> QED BY <1>1, <1>3, <3>1, <3>3, CurrentReplaced
  <2>5. CASE ~Succeeds
    <3>1. stack' = <<c>> \o Tail(stack) /\ held' = held
      BY <1>3, <2>5 DEF Malloc, Update
    <3>2. held = [held EXCEPT ![1] = held[1]]
      BY DEF MemoryInv
    <3> HIDE DEF c
    <3> QED BY <1>1, <1>3, <2>2, <3>1, <3>2, CurrentReplaced
  <2> QED BY <2>4, <2>5
<1> QED BY <1>2, <1>3

LEMMA ReallocKeepsInv ==
  ASSUME MemoryInv, NEW p \in Addresses, NEW q \in Addresses, Realloc(p, q)
  PROVE  MemoryInv'
<1>1. inUse' \subseteq Addresses
  BY DEF Realloc, MemoryInv
<1>2. CASE ~InContext
  BY <1>1, <1>2, OutsideKeepsInv DEF Realloc, Update, Hold
<1>3. CASE InContext
  <2> DEFINE c == NextMock(Current)
             f == RegisterFreed(c, p)
  <2>1. Honest(Current, held[1]) /\ Current.enabled \in BOOLEAN
    BY <1>3, CurrentIsHonest
  <2>2. Honest(c, held[1]) /\ c.enabled = Current.enabled
    BY <2>1, MocksAreNothing
  <2>3. Honest(f, held[1] \ {p}) /\ f.enabled = Current.enabled
    <3> HIDE DEF c
    <3> QED BY <2>2, FreedIsHonest
  <2>4. Enabled <=> f.enabled
    BY <1>3, <2>3 DEF Enabled
  <2>5. CASE Succeeds
    <3> DEFINE S == IF Enabled THEN (held[1] \ {p}) \cup {q} ELSE held[1] \ {p}
               d == RegisterAlloc(f, q)
    <3>1. stack' = <<d>> \o Tail(stack) /\ held' = [held EXCEPT ![1] = S]
      BY <1>3, <2>5 DEF Realloc, Update, Hold, Reallocated
    <3>2. Honest(d, IF f.enabled THEN (held[1] \ {p}) \cup {q} ELSE held[1] \ {p})
      <4> HIDE DEF f
      <4> QED BY <2>3, AllocIsHonest
    <3> HIDE DEF f, d
    <3>3. Honest(d, S)
      BY <2>4, <3>2
    <3> HIDE DEF S
    <3> QED BY <1>1, <1>3, <3>1, <3>3, CurrentReplaced
  <2>6. CASE ~Succeeds
    <3>1. stack' = <<c>> \o Tail(stack) /\ held' = held
      BY <1>3, <2>6 DEF Realloc, Update
    <3>2. held = [held EXCEPT ![1] = held[1]]
      BY DEF MemoryInv
    <3> HIDE DEF c
    <3> QED BY <1>1, <1>3, <2>2, <3>1, <3>2, CurrentReplaced
  <2> QED BY <2>5, <2>6
<1> QED BY <1>2, <1>3

LEMMA FreeKeepsInv == ASSUME MemoryInv, NEW a \in Addresses, Free(a) PROVE MemoryInv'
<1>1. inUse' \subseteq Addresses
  BY DEF Free, MemoryInv
<1>2. CASE ~InContext
  BY <1>1, <1>2, OutsideKeepsInv DEF Free, Update, Hold
<1>3. CASE InContext
  <2> DEFINE d == RegisterFreed(Current, a)
             S == held[1] \ {a}
  <2>1. Honest(d, S)
    BY <1>3, CurrentIsHonest, FreedIsHonest
  <2>2. stack' = <<d>> \o Tail(stack) /\ held' = [held EXCEPT ![1] = S]
    BY <1>3 DEF Free, Update, Hold
  <2> HIDE DEF d, S
  <2> QED BY <1>1, <1>3, <2>1, <2>2, CurrentReplaced
<1> QED BY <1>2, <1>3

\* Whatever happens, in whatever order, the live chunks of every context are
\* the blocks allocated in it and not given back in it.
THEOREM MemoryInvHolds == MemorySpec => []MemoryInv
<1>1. MemoryInv /\ [MemoryNext]_memoryVars => MemoryInv'
  <2> SUFFICES ASSUME MemoryInv, [MemoryNext]_memoryVars PROVE MemoryInv'
    OBVIOUS
  <2>1. ASSUME NEW a \in Addresses, LibcFree(a) PROVE MemoryInv'
    <3>1. inUse' \subseteq Addresses /\ UNCHANGED <<stack, held>>
      BY <2>1 DEF LibcFree, MemoryInv
    <3> QED BY <3>1 DEF MemoryInv, Honest
  <2>2. CASE UNCHANGED memoryVars
    BY <2>2 DEF memoryVars, MemoryInv, Honest
  <2> QED
    BY <2>1, <2>2, BeginKeepsInv, EndKeepsInv, FieldsKeepInv, MallocKeepsInv,
       ReallocKeepsInv, FreeKeepsInv DEF MemoryNext
<1> QED BY <1>1, MemoryInvInit, PTL DEF MemorySpec

\* The books of the memory checker (memcheck_t) have their types.
THEOREM MemoryTypeCorrect == MemorySpec => []MemoryTypeOK
<1>1. MemoryInv => MemoryTypeOK
  BY DEF MemoryInv, MemoryTypeOK
<1> QED BY <1>1, MemoryInvHolds, PTL

\* A report behind the errors of a context has a leak for each live chunk.
LEMMA ReportIsRight ==
  ASSUME NEW c, NEW S, Honest(c, S)
  PROVE  Cardinality({i \in DOMAIN Reported(c) : Reported(c)[i] = "leak"}) = Cardinality(S)
<1> DEFINE n == Cardinality(S)
           m == Len(c.errors)
           leaks == [i \in 1 .. n |-> "leak"]
           e == c.errors
<1>1. Reported(c) = e \o leaks
  BY DEF Reported, Honest
<1>2. n \in Nat
  <2>1. IsFiniteSet(S)
    BY AddressesAreFinite, FS_Subset DEF Honest
  <2> QED BY <2>1, FS_CardinalityType
<1>3. e \in Seq(OwnErrors) /\ m \in Nat /\ \A i \in 1 .. m : e[i] # "leak"
  <2>1. e \in Seq(OwnErrors)
    BY DEF Honest
  <2>2. m \in Nat /\ \A i \in 1 .. m : e[i] \in OwnErrors
    <3> HIDE DEF e
    <3> QED BY <2>1, LenProperties, ElementOfSeq DEF e
  <2> QED BY <2>1, <2>2 DEF OwnErrors
<1>4. leaks \in Seq({"leak"}) /\ Len(leaks) = n
  BY <1>2
<1>5. e \in Seq(OwnErrors \cup {"leak"}) /\ leaks \in Seq(OwnErrors \cup {"leak"})
  BY <1>3, <1>4, SeqMonotonic
<1>6. \A i \in 1 .. n : leaks[i] = "leak"
  OBVIOUS
<1> HIDE DEF e, leaks, n
<1>7. /\ DOMAIN (e \o leaks) = 1 .. m + n
      /\ \A i \in 1 .. m + n : (e \o leaks)[i] = IF i <= m THEN e[i] ELSE leaks[i - m]
  <2>1. e \o leaks \in Seq(OwnErrors \cup {"leak"}) /\ Len(e \o leaks) = m + n
        /\ \A i \in 1 .. m + n : (e \o leaks)[i] = IF i <= m THEN e[i] ELSE leaks[i - m]
    BY <1>4, <1>5, ConcatProperties DEF e
  <2> QED BY <2>1
<1> HIDE DEF m
<1> DEFINE all == e \o leaks
<1> HIDE DEF all
<1>8. {i \in DOMAIN all : all[i] = "leak"} = (m + 1) .. (m + n)
  <2>1. ASSUME NEW i \in 1 .. m + n, i <= m PROVE all[i] # "leak"
    <3>1. i \in 1 .. m /\ all[i] = e[i]
      BY <1>2, <1>3, <1>7, <2>1 DEF all
    <3> QED BY <1>3, <3>1
  <2>2. ASSUME NEW i \in 1 .. m + n, ~(i <= m) PROVE all[i] = "leak"
    <3>1. i - m \in 1 .. n /\ all[i] = leaks[i - m]
      BY <1>2, <1>3, <1>7, <2>2 DEF all
    <3> QED BY <1>6, <3>1
  <2>3. DOMAIN all = 1 .. m + n
    BY <1>7 DEF all
  <2>4. \A i \in 1 .. m + n : all[i] = "leak" <=> ~(i <= m)
    BY <2>1, <2>2
  <2>5. \A i : i \in (m + 1) .. (m + n) <=> i \in 1 .. m + n /\ ~(i <= m)
    BY <1>2, <1>3
  <2> QED BY <2>3, <2>4, <2>5
<1>9. Cardinality((m + 1) .. (m + n)) = n
  BY <1>2, <1>3, FS_Interval
<1> QED BY <1>1, <1>8, <1>9 DEF n, all

\* memcheck_finalize() reports one leak for each block that was allocated in
\* the context and not given back in it.
THEOREM LeaksAreReported == MemorySpec => []ReportsLeaks
<1>1. MemoryInv => ReportsLeaks
  BY ReportIsRight DEF MemoryInv, ReportsLeaks
<1> QED BY <1>1, MemoryInvHolds, PTL
---------------------------------------------------------------------------
(* The doubly linked lists.                                                *)

\* The pointers of list l are those of a list of the items q.
IsChain(l, q) ==
  /\ first[l] = IF q = <<>> THEN Null ELSE q[1]
  /\ last[l] = IF q = <<>> THEN Null ELSE q[Len(q)]
  /\ \A i \in 1 .. Len(q) : /\ next[q[i]] = IF i = Len(q) THEN Null ELSE q[i + 1]
                            /\ prev[q[i]] = IF i = 1 THEN Null ELSE q[i - 1]

\* No item is in two lists or twice in one.
Disjoint(C) ==
  \A l, m \in DlLists : \A i \in 1 .. Len(C[l]), j \in 1 .. Len(C[m]) :
    C[l][i] = C[m][j] => l = m /\ i = j

Shape(C) == /\ C \in [DlLists -> Seq(Items)]
            /\ \A l \in DlLists : IsChain(l, C[l])
            /\ Disjoint(C)

ListInv == ListTypeOK /\ \E C \in [DlLists -> Seq(Items)] : Shape(C)

LEMMA Counting ==
  ASSUME NEW n \in Nat
  PROVE  /\ IsFiniteSet(1 .. n) /\ Cardinality(1 .. n) = n
         /\ Cardinality(0 .. n - 1) = n
  BY FS_Interval

\* Iterating from the end of a list on meets its items in their order.
LEMMA WalkIsChain ==
  ASSUME NEW q \in Seq(Items), \A i, j \in 1 .. Len(q) : q[i] = q[j] => i = j,
         NEW p, NEW link \in [Items -> Pointer],
         p = IF q = <<>> THEN Null ELSE q[1],
         \A i \in 1 .. Len(q) : link[q[i]] = IF i = Len(q) THEN Null ELSE q[i + 1]
  PROVE  Walk(p, link) = q
<1> DEFINE N == Cardinality(Items)
           Next(g) == [n \in 0 .. N |->
                        IF n = 0 THEN p ELSE IF g[n - 1] = Null THEN Null ELSE link[g[n - 1]]]
           f == [n \in 0 .. N |-> IF n < Len(q) THEN q[n + 1] ELSE Null]
           item == CHOOSE g : g = Next(g)
           met == Cardinality({n \in DOMAIN item : item[n] # Null})
<1>1. N \in Nat /\ Len(q) \in Nat /\ \A i \in 1 .. Len(q) : q[i] \in Items
  BY ListsAssumption, FS_CardinalityType, LenProperties, ElementOfSeq
<1>2. Len(q) <= N
  <2>1. [i \in 1 .. Len(q) |-> q[i]] \in Injection(1 .. Len(q), Items)
    BY <1>1 DEF Injection, IsInjective
  <2>2. IsFiniteSet(1 .. Len(q)) /\ Cardinality(1 .. Len(q)) = Len(q)
    BY <1>1, Counting
  <2> QED BY <2>1, <2>2, ListsAssumption, FS_Injection
<1>3. \A n \in 0 .. N : f[n] = Next(f)[n]
  <2> SUFFICES ASSUME NEW n \in 0 .. N PROVE f[n] = Next(f)[n]
    OBVIOUS
  <2>1. CASE n = 0
    BY <1>1, <2>1, EmptySeq, LenProperties
  <2>2. CASE n # 0 /\ n - 1 < Len(q)
    <3>1. n \in 1 .. Len(q) /\ f[n - 1] = q[n] /\ q[n] # Null
      BY <1>1, <2>2, ListsAssumption
    <3>2. Next(f)[n] = link[q[n]]
      BY <2>2, <3>1
    <3> QED BY <1>1, <3>1, <3>2
  <2>3. CASE n # 0 /\ ~(n - 1 < Len(q))
    BY <1>1, <2>3
  <2> QED BY <2>1, <2>2, <2>3
<1>4. f = Next(f)
  BY <1>3
<1>5. item = Next(item)
  BY <1>4
<1>6. item = f
  <2>1. \A n \in 0 .. N : item[n] = IF n = 0 THEN p
                                    ELSE IF item[n - 1] = Null THEN Null ELSE link[item[n - 1]]
    <3> HIDE DEF item
    <3> QED BY <1>5
  <2>2. \A n \in 0 .. N : f[n] = IF n = 0 THEN p
                                 ELSE IF f[n - 1] = Null THEN Null ELSE link[f[n - 1]]
    <3> HIDE DEF f
    <3> QED BY <1>4
  <2>3. item = [n \in 0 .. N |-> item[n]] /\ f = [n \in 0 .. N |-> f[n]]
    <3> HIDE DEF item, f
    <3> QED BY <1>4, <1>5
  <2> HIDE DEF item, f
  <2> DEFINE S == {n \in Nat : n <= N => item[n] = f[n]}
  <2>4. 0 \in S
    BY <1>1, <2>1, <2>2
  <2>5. ASSUME NEW n \in Nat, n \in S PROVE n + 1 \in S
    <3> SUFFICES ASSUME n + 1 <= N PROVE item[n + 1] = f[n + 1]
      OBVIOUS
    <3>1. item[n] = f[n] /\ n + 1 \in 0 .. N /\ n + 1 # 0 /\ (n + 1) - 1 = n
      BY <1>1, <2>5
    <3> QED BY <2>1, <2>2, <3>1
  <2>6. Nat \subseteq S
    <3> HIDE DEF S
    <3> QED BY <2>4, <2>5, NatSetInduction
  <2>7. \A n \in 0 .. N : item[n] = f[n]
    BY <2>6, <1>1
  <2> QED BY <2>3, <2>7
<1>7. met = Len(q)
  <2>1. {n \in DOMAIN f : f[n] # Null} = 0 .. Len(q) - 1
    BY <1>1, <1>2, ListsAssumption
  <2>2. Cardinality(0 .. Len(q) - 1) = Len(q)
    BY <1>1, Counting
  <2> HIDE DEF f, item
  <2> QED BY <1>6, <2>1, <2>2
<1>8. Walk(p, link) = [n \in 1 .. met |-> item[n - 1]]
  BY DEF Walk
<1>9. \A n \in 1 .. Len(q) : item[n - 1] = q[n]
  <2>1. \A n \in 1 .. Len(q) : f[n - 1] = q[n]
    BY <1>1, <1>2
  <2> HIDE DEF f, item
  <2> QED BY <1>6, <2>1
<1> HIDE DEF met, item
<1>10. q = [n \in 1 .. Len(q) |-> q[n]]
  BY <1>1
<1> QED BY <1>7, <1>8, <1>9, <1>10

\* What iterating over the lists shows.
Contents == [l \in DlLists |-> Forward(l)]

Sees == \A C \in [DlLists -> Seq(Items)] :
          Shape(C) => /\ Contents = C
                      /\ \A l \in DlLists : Backward(l) = Reverse(C[l])

\* An item and its place in a list.
LEMMA ChainItems ==
  ASSUME NEW C, Shape(C), NEW l \in DlLists
  PROVE  /\ C[l] \in Seq(Items) /\ Len(C[l]) \in Nat /\ DOMAIN C[l] = 1 .. Len(C[l])
         /\ \A i \in 1 .. Len(C[l]) : C[l][i] \in Items /\ C[l][i] # Null
         /\ C[l] = <<>> <=> Len(C[l]) = 0
         /\ \A i, j \in 1 .. Len(C[l]) : C[l][i] = C[l][j] => i = j
<1>1. C[l] \in Seq(Items)
  BY DEF Shape
<1>2. /\ Len(C[l]) \in Nat /\ DOMAIN C[l] = 1 .. Len(C[l])
      /\ \A i \in 1 .. Len(C[l]) : C[l][i] \in Items
      /\ C[l] = <<>> <=> Len(C[l]) = 0
  BY <1>1, LenProperties, ElementOfSeq, EmptySeq
<1> QED BY <1>1, <1>2, ListsAssumption DEF Shape, Disjoint

LEMMA ListsAreSeen == ListTypeOK => Sees
<1> SUFFICES ASSUME ListTypeOK, NEW C \in [DlLists -> Seq(Items)], Shape(C)
             PROVE  /\ Contents = C
                    /\ \A l \in DlLists : Backward(l) = Reverse(C[l])
  BY DEF Sees
<1>1. ASSUME NEW l \in DlLists
      PROVE  Forward(l) = C[l] /\ Backward(l) = Reverse(C[l])
  <2> DEFINE q == C[l]
             n == Len(q)
             r == Reverse(q)
  <2>1. /\ q \in Seq(Items) /\ n \in Nat /\ (\A i \in 1 .. n : q[i] \in Items)
        /\ (q = <<>> <=> n = 0) /\ (\A i, j \in 1 .. n : q[i] = q[j] => i = j)
    BY ChainItems
  <2>2. IsChain(l, q)
    BY DEF Shape
  <2>3. next \in [Items -> Pointer] /\ prev \in [Items -> Pointer]
    BY DEF ListTypeOK
  <2> HIDE DEF q
  <2>4. Walk(first[l], next) = q
    <3>1. /\ first[l] = IF q = <<>> THEN Null ELSE q[1]
          /\ \A i \in 1 .. Len(q) : next[q[i]] = IF i = Len(q) THEN Null ELSE q[i + 1]
      BY <2>2 DEF IsChain
    <3>2. \A i, j \in 1 .. Len(q) : q[i] = q[j] => i = j
      BY <2>1
    <3> HIDE DEF n
    <3> QED BY <2>1, <2>3, <3>1, <3>2, WalkIsChain
  <2>5. /\ r \in Seq(Items) /\ Len(r) = n /\ \A i \in 1 .. n : r[i] = q[n - i + 1]
    <3>1. r = [i \in 1 .. n |-> q[n - i + 1]]
      BY DEF Reverse
    <3>2. \A i \in 1 .. n : n - i + 1 \in 1 .. n
      BY <2>1
    <3>3. r \in [1 .. n -> Items]
      BY <2>1, <3>1, <3>2
    <3> HIDE DEF r
    <3> QED BY <2>1, <3>1, <3>3
  <2> HIDE DEF r
  <2>6. last[l] = IF r = <<>> THEN Null ELSE r[1]
    <3>1. r = <<>> <=> n = 0
      BY <2>5, EmptySeq
    <3> QED BY <2>1, <2>2, <2>5, <3>1 DEF IsChain
  <2>7. \A i \in 1 .. Len(r) : prev[r[i]] = IF i = Len(r) THEN Null ELSE r[i + 1]
    <3> SUFFICES ASSUME NEW i \in 1 .. n PROVE prev[r[i]] = IF i = n THEN Null ELSE r[i + 1]
      BY <2>5
    <3> DEFINE j == n - i + 1
    <3>1. j \in 1 .. n /\ (j = 1 <=> i = n) /\ (i # n => i + 1 \in 1 .. n /\ n - (i + 1) + 1 = j - 1)
      BY <2>1
    <3>2. r[i] = q[j] /\ (i # n => r[i + 1] = q[j - 1])
      BY <2>5, <3>1
    <3> HIDE DEF j
    <3> QED BY <2>2, <3>1, <3>2 DEF IsChain
  <2>8. \A i, j \in 1 .. Len(r) : r[i] = r[j] => i = j
    <3> SUFFICES ASSUME NEW i \in 1 .. n, NEW j \in 1 .. n, r[i] = r[j] PROVE i = j
      BY <2>5
    <3> DEFINE a == n - i + 1
               b == n - j + 1
    <3>1. a \in 1 .. n /\ b \in 1 .. n /\ (a = b => i = j)
      BY <2>1
    <3>2. r[i] = q[a] /\ r[j] = q[b]
      BY <2>5
    <3> HIDE DEF a, b
    <3> QED BY <2>1, <3>1, <3>2
  <2>9. Walk(last[l], prev) = r
    BY <2>3, <2>5, <2>6, <2>7, <2>8, WalkIsChain
  <2> QED BY <2>4, <2>9 DEF Forward, Backward, q, r
<1> QED BY <1>1 DEF Contents

---------------------------------------------------------------------------
(* The calls.                                                              *)

Outside(C, item) == \A l \in DlLists : \A i \in 1 .. Len(C[l]) : C[l][i] # item

LEMMA PutIsDisjoint ==
  ASSUME NEW C, Shape(C), NEW l \in DlLists, NEW item \in Items, Outside(C, item),
         NEW p \in 1 .. Len(C[l]) + 1, NEW r, Puts(Items, C[l], r, p, item)
  PROVE  LET D == [C EXCEPT ![l] = r] IN D \in [DlLists -> Seq(Items)] /\ Disjoint(D)
<1> DEFINE D == [C EXCEPT ![l] = r]
           q == C[l]
           n == Len(q)
           From(j) == IF j < p THEN j ELSE j - 1
<1>1. C \in [DlLists -> Seq(Items)] /\ Disjoint(C)
  BY DEF Shape
<1>2. D \in [DlLists -> Seq(Items)] /\ D[l] = r /\ \A m \in DlLists : m # l => D[m] = C[m]
  BY <1>1 DEF Puts
<1>3. n \in Nat /\ p \in 1 .. n + 1 /\ Len(r) = n + 1
  BY ChainItems DEF Puts
<1>4. r[p] = item
  BY DEF Puts
<1>5. \A j \in 1 .. n + 1 : j # p => From(j) \in 1 .. n /\ r[j] = q[From(j)]
  <2> SUFFICES ASSUME NEW j \in 1 .. n + 1, j # p
               PROVE  From(j) \in 1 .. n /\ r[j] = q[From(j)]
    OBVIOUS
  <2>1. /\ \A i \in 1 .. p - 1 : r[i] = q[i]
        /\ \A i \in p .. n : r[i + 1] = q[i]
    BY DEF Puts
  <2> HIDE DEF q, n
  <2>2. CASE j < p
    <3>1. j \in 1 .. p - 1 /\ j \in 1 .. n
      BY <1>3, <2>2
    <3> QED BY <2>1, <2>2, <3>1
  <2>3. CASE ~(j < p)
    <3>1. j - 1 \in p .. n /\ j - 1 \in 1 .. n /\ (j - 1) + 1 = j
      BY <1>3, <2>3
    <3> QED BY <2>1, <2>3, <3>1
  <2> QED BY <2>2, <2>3
<1>6. \A i, j \in 1 .. n + 1 : i # p /\ j # p /\ From(i) = From(j) => i = j
  BY <1>3
<1> HIDE DEF From, D, q
<1>7. ASSUME NEW m \in DlLists, m # l, NEW i \in 1 .. Len(C[m]), NEW j \in 1 .. n + 1
      PROVE  C[m][i] # r[j]
  <2>1. CASE j = p
    BY <1>4, <1>7, <2>1 DEF Outside
  <2>2. CASE j # p
    BY <1>1, <1>5, <1>7, <2>2 DEF Disjoint, q
  <2> QED BY <2>1, <2>2
<1>8. ASSUME NEW i \in 1 .. n + 1, NEW j \in 1 .. n + 1, r[i] = r[j] PROVE i = j
  <2>1. CASE i = p /\ j # p
    BY <1>4, <1>5, <1>8, <2>1 DEF Outside, q
  <2>2. CASE i # p /\ j = p
    BY <1>4, <1>5, <1>8, <2>2 DEF Outside, q
  <2>3. CASE i # p /\ j # p
    <3>1. From(i) = From(j)
      BY <1>1, <1>5, <1>8, <2>3 DEF Disjoint, q
    <3> QED BY <1>6, <2>3, <3>1
  <2> QED BY <2>1, <2>2, <2>3
<1>9. Disjoint(D)
  <2> SUFFICES ASSUME NEW k \in DlLists, NEW m \in DlLists,
                      NEW i \in 1 .. Len(D[k]), NEW j \in 1 .. Len(D[m]), D[k][i] = D[m][j]
               PROVE  k = m /\ i = j
    BY DEF Disjoint
  <2>1. CASE k = l /\ m = l
    BY <1>2, <1>3, <1>8, <2>1
  <2>2. CASE k = l /\ m # l
    BY <1>2, <1>3, <1>7, <2>2
  <2>3. CASE k # l /\ m = l
    BY <1>2, <1>3, <1>7, <2>3
  <2>4. CASE k # l /\ m # l
    BY <1>1, <1>2, <2>4 DEF Disjoint
  <2> QED BY <2>1, <2>2, <2>3, <2>4
<1> QED BY <1>2, <1>9 DEF D

\* A list whose ends and items keep their pointers.
LEMMA ChainKept ==
  ASSUME NEW q, NEW l, IsChain(l, q), first'[l] = first[l], last'[l] = last[l],
         \A i \in 1 .. Len(q) : next'[q[i]] = next[q[i]] /\ prev'[q[i]] = prev[q[i]]
  PROVE  IsChain(l, q)'
  BY DEF IsChain

\* append(), and insert() behind the last item.
LEMMA AppendIsPut ==
  ASSUME ListTypeOK, NEW C, Shape(C), NEW l \in DlLists, NEW item \in Items, Outside(C, item),
         AppendItem(l, item) \/ (last[l] # Null /\ InsertBehind(l, last[l], item)),
         NEW r, Puts(Items, C[l], r, Len(C[l]) + 1, item)
  PROVE  ListTypeOK' /\ Shape([C EXCEPT ![l] = r])'
<1> DEFINE q == C[l]
           n == Len(q)
           D == [C EXCEPT ![l] = r]
<1>1. n \in Nat /\ (q = <<>> <=> n = 0) /\ \A i \in 1 .. n : q[i] \in Items /\ q[i] # Null
  BY ChainItems
<1>2. IsChain(l, q)
  BY DEF Shape
<1>3. /\ first \in [DlLists -> Pointer] /\ last \in [DlLists -> Pointer]
      /\ next \in [Items -> Pointer] /\ prev \in [Items -> Pointer]
  BY DEF ListTypeOK
<1>4. /\ first[l] = IF n = 0 THEN Null ELSE q[1]
      /\ last[l] = IF n = 0 THEN Null ELSE q[n]
      /\ n # 0 => next[q[n]] = Null
  BY <1>1, <1>2 DEF IsChain
<1>5. \A i \in 1 .. n : q[i] # item
  BY DEF Outside
<1>6. D \in [DlLists -> Seq(Items)] /\ Disjoint(D)
  <2>1. Len(C[l]) + 1 \in 1 .. Len(C[l]) + 1
    BY <1>1
  <2> QED BY <2>1, PutIsDisjoint
<1>7. Len(r) = n + 1 /\ r[n + 1] = item /\ \A j \in 1 .. n : r[j] = q[j]
  BY <1>1 DEF Puts
<1> HIDE DEF q, n
<1>8. /\ first' = IF n = 0 THEN [first EXCEPT ![l] = item] ELSE first
      /\ last' = [last EXCEPT ![l] = item]
      /\ prev' = [prev EXCEPT ![item] = last[l]]
      /\ next' = IF n = 0 THEN [next EXCEPT ![item] = Null]
                 ELSE [next EXCEPT ![item] = Null, ![q[n]] = item]
  <2>1. CASE n = 0
    <3>1. AppendItem(l, item) /\ first[l] = Null
      BY <1>4, <2>1
    <3> QED BY <1>4, <2>1, <3>1 DEF AppendItem, Only
  <2>2. CASE n # 0
    <3>1. first[l] # Null /\ last[l] = q[n]
      BY <1>1, <1>4, <2>2
    <3> QED BY <1>4, <2>2, <3>1 DEF AppendItem, InsertBehind
  <2> QED BY <2>1, <2>2
<1>9. /\ first'[l] = (IF n = 0 THEN item ELSE first[l]) /\ last'[l] = item
      /\ \A m \in DlLists : m # l => first'[m] = first[m] /\ last'[m] = last[m]
      /\ \A x \in Items : prev'[x] = IF x = item THEN last[l] ELSE prev[x]
      /\ \A x \in Items : next'[x] = IF x = item THEN Null
                                     ELSE IF n # 0 /\ x = q[n] THEN item ELSE next[x]
  BY <1>1, <1>3, <1>5, <1>8
<1>10. ListTypeOK'
  <2>1. item \in Pointer /\ Null \in Pointer /\ last[l] \in Pointer
    BY <1>3 DEF Pointer
  <2> QED BY <1>1, <1>3, <1>8, <2>1 DEF ListTypeOK
<1>11. IsChain(l, r)'
  <2>1. r # <<>>
    BY <1>1, <1>7, EmptySeq
  <2>2. first'[l] = r[1]
    BY <1>1, <1>4, <1>7, <1>9
  <2>3. last'[l] = r[Len(r)]
    BY <1>7, <1>9
  <2>4. ASSUME NEW i \in 1 .. Len(r)
        PROVE  /\ next'[r[i]] = IF i = Len(r) THEN Null ELSE r[i + 1]
               /\ prev'[r[i]] = IF i = 1 THEN Null ELSE r[i - 1]
    <3>1. CASE i = n + 1
      <4>1. r[i] = item /\ next'[r[i]] = Null /\ prev'[r[i]] = last[l]
        BY <1>7, <1>9, <3>1
      <4> QED BY <1>1, <1>4, <1>7, <3>1, <4>1
    <3>2. CASE i # n + 1
      <4>1. i \in 1 .. n /\ r[i] = q[i] /\ n # 0
        BY <1>1, <1>7, <3>2
      <4>2. next[q[i]] = (IF i = n THEN Null ELSE q[i + 1]) /\ prev[q[i]] = IF i = 1 THEN Null ELSE q[i - 1]
        BY <1>2, <4>1 DEF IsChain, n
      <4>3. prev'[r[i]] = IF i = 1 THEN Null ELSE r[i - 1]
        BY <1>1, <1>5, <1>7, <1>9, <4>1, <4>2
      <4>4. CASE i = n
        BY <1>1, <1>5, <1>7, <1>9, <4>1, <4>3, <4>4
      <4>5. CASE i # n
        <5>1. q[i] # q[n]
          BY <4>1, <4>5, <1>1, ChainItems DEF q, n
        <5>2. i + 1 \in 1 .. n /\ r[i + 1] = q[i + 1]
          BY <1>1, <1>7, <4>1, <4>5
        <5> QED BY <1>1, <1>5, <1>7, <1>9, <4>1, <4>2, <4>3, <4>5, <5>1, <5>2
      <4> QED BY <4>4, <4>5
    <3> QED BY <3>1, <3>2
  <2> QED BY <2>1, <2>2, <2>3, <2>4 DEF IsChain
<1>12. ASSUME NEW m \in DlLists, m # l PROVE IsChain(m, C[m])'
  <2>1. ASSUME NEW i \in 1 .. Len(C[m])
        PROVE  next'[C[m][i]] = next[C[m][i]] /\ prev'[C[m][i]] = prev[C[m][i]]
    <3>1. C[m][i] \in Items /\ C[m][i] # item
      BY ChainItems DEF Outside
    <3>2. n # 0 => C[m][i] # q[n]
      BY <1>1, <1>12 DEF Shape, Disjoint, q, n
    <3> QED BY <1>9, <3>1, <3>2
  <2>2. IsChain(m, C[m])
    BY DEF Shape
  <2> QED BY <1>9, <1>12, <2>1, <2>2, ChainKept
<1>13. D[l] = r /\ \A m \in DlLists : m # l => D[m] = C[m]
  BY DEF Shape
<1> HIDE DEF D
<1>14. \A m \in DlLists : IsChain(m, D[m])'
  BY <1>11, <1>12, <1>13 DEF IsChain
<1>15. Shape(D)'
  BY <1>6, <1>14 DEF Shape, Disjoint
<1> QED BY <1>10, <1>15 DEF D

\* prepend().
LEMMA PrependIsPut ==
  ASSUME ListTypeOK, NEW C, Shape(C), NEW l \in DlLists, NEW item \in Items, Outside(C, item),
         PrependItem(l, item), NEW r, Puts(Items, C[l], r, 1, item)
  PROVE  ListTypeOK' /\ Shape([C EXCEPT ![l] = r])'
<1> DEFINE q == C[l]
           n == Len(q)
           D == [C EXCEPT ![l] = r]
<1>1. n \in Nat /\ (q = <<>> <=> n = 0) /\ \A i \in 1 .. n : q[i] \in Items /\ q[i] # Null
  BY ChainItems
<1>2. IsChain(l, q)
  BY DEF Shape
<1>3. /\ first \in [DlLists -> Pointer] /\ last \in [DlLists -> Pointer]
      /\ next \in [Items -> Pointer] /\ prev \in [Items -> Pointer]
  BY DEF ListTypeOK
<1>4. /\ first[l] = IF n = 0 THEN Null ELSE q[1]
      /\ last[l] = IF n = 0 THEN Null ELSE q[n]
      /\ n # 0 => prev[q[1]] = Null
  BY <1>1, <1>2 DEF IsChain
<1>5. \A i \in 1 .. n : q[i] # item
  BY DEF Outside
<1>6. D \in [DlLists -> Seq(Items)] /\ Disjoint(D)
  <2>1. 1 \in 1 .. Len(C[l]) + 1
    BY <1>1
  <2> QED BY <2>1, PutIsDisjoint
<1>7. Len(r) = n + 1 /\ r[1] = item /\ \A j \in 1 .. n : r[j + 1] = q[j]
  BY DEF Puts
<1> HIDE DEF q, n
<1>8. /\ last' = IF n = 0 THEN [last EXCEPT ![l] = item] ELSE last
      /\ first' = [first EXCEPT ![l] = item]
      /\ next' = [next EXCEPT ![item] = first[l]]
      /\ prev' = IF n = 0 THEN [prev EXCEPT ![item] = Null]
                 ELSE [prev EXCEPT ![item] = Null, ![q[1]] = item]
  <2>1. CASE n = 0
    <3>1. first[l] = Null
      BY <1>4, <2>1
    <3> QED BY <1>4, <2>1, <3>1 DEF PrependItem, Only
  <2>2. CASE n # 0
    <3>1. first[l] # Null /\ first[l] = q[1]
      BY <1>1, <1>4, <2>2
    <3> QED BY <1>4, <2>2, <3>1 DEF PrependItem
  <2> QED BY <2>1, <2>2
<1>9. /\ last'[l] = (IF n = 0 THEN item ELSE last[l]) /\ first'[l] = item
      /\ \A m \in DlLists : m # l => first'[m] = first[m] /\ last'[m] = last[m]
      /\ \A x \in Items : next'[x] = IF x = item THEN first[l] ELSE next[x]
      /\ \A x \in Items : prev'[x] = IF x = item THEN Null
                                     ELSE IF n # 0 /\ x = q[1] THEN item ELSE prev[x]
  BY <1>1, <1>3, <1>5, <1>8
<1>10. ListTypeOK'
  <2>1. item \in Pointer /\ Null \in Pointer /\ first[l] \in Pointer
    BY <1>3 DEF Pointer
  <2> QED BY <1>1, <1>3, <1>8, <2>1 DEF ListTypeOK
<1>11. IsChain(l, r)'
  <2>1. r # <<>>
    BY <1>1, <1>7, EmptySeq
  <2>2. first'[l] = r[1]
    BY <1>7, <1>9
  <2>3. last'[l] = r[Len(r)]
    BY <1>1, <1>4, <1>7, <1>9
  <2>4. ASSUME NEW i \in 1 .. Len(r)
        PROVE  /\ next'[r[i]] = IF i = Len(r) THEN Null ELSE r[i + 1]
               /\ prev'[r[i]] = IF i = 1 THEN Null ELSE r[i - 1]
    <3>1. CASE i = 1
      <4>1. r[i] = item /\ prev'[r[i]] = Null /\ next'[r[i]] = first[l]
        BY <1>7, <1>9, <3>1
      <4>2. n # 0 => r[2] = q[1]
        <5>1. n # 0 => 1 \in 1 .. n /\ 1 + 1 = 2
          BY <1>1
        <5> QED BY <1>7, <5>1
      <4> QED BY <1>1, <1>4, <1>7, <3>1, <4>1, <4>2
    <3>2. CASE i # 1
      <4> DEFINE k == i - 1
      <4>1. k \in 1 .. n /\ k + 1 = i /\ n # 0 /\ (k = n <=> i = Len(r)) /\ (k = 1 <=> i = 2)
        BY <1>1, <1>7, <3>2
      <4> HIDE DEF k
      <4>2. r[i] = q[k]
        BY <1>7, <4>1
      <4>3. next[q[k]] = (IF k = n THEN Null ELSE q[k + 1]) /\ prev[q[k]] = IF k = 1 THEN Null ELSE q[k - 1]
        BY <1>2, <4>1 DEF IsChain, n
      <4>4. next'[r[i]] = IF i = Len(r) THEN Null ELSE r[i + 1]
        <5>1. next'[r[i]] = next[q[k]]
          BY <1>1, <1>5, <1>9, <4>1, <4>2
        <5>2. i # Len(r) => r[i + 1] = q[k + 1]
          <6>1. i # Len(r) => k + 1 \in 1 .. n /\ (k + 1) + 1 = i + 1
            BY <1>1, <4>1
          <6> QED BY <1>7, <6>1
        <5> QED BY <4>1, <4>3, <5>1, <5>2
      <4>5. CASE k = 1
        <5>1. prev'[r[i]] = item /\ r[i - 1] = item
          BY <1>1, <1>5, <1>7, <1>9, <4>1, <4>2, <4>5
        <5> QED BY <3>2, <4>4, <5>1
      <4>6. CASE k # 1
        <5>1. q[k] # q[1]
          BY <4>1, <4>6, <1>1, ChainItems DEF q, n
        <5>2. r[i - 1] = q[k - 1]
          <6>1. k - 1 \in 1 .. n /\ (k - 1) + 1 = i - 1
            BY <1>1, <4>1, <4>6
          <6> QED BY <1>7, <6>1
        <5>3. prev'[r[i]] = prev[q[k]]
          BY <1>1, <1>5, <1>9, <4>1, <4>2, <5>1
        <5> QED BY <3>2, <4>3, <4>4, <4>6, <5>2, <5>3
      <4> QED BY <4>5, <4>6
    <3> QED BY <3>1, <3>2
  <2> QED BY <2>1, <2>2, <2>3, <2>4 DEF IsChain
<1>12. ASSUME NEW m \in DlLists, m # l PROVE IsChain(m, C[m])'
  <2>1. ASSUME NEW i \in 1 .. Len(C[m])
        PROVE  next'[C[m][i]] = next[C[m][i]] /\ prev'[C[m][i]] = prev[C[m][i]]
    <3>1. C[m][i] \in Items /\ C[m][i] # item
      BY ChainItems DEF Outside
    <3>2. n # 0 => C[m][i] # q[1]
      BY <1>1, <1>12 DEF Shape, Disjoint, q, n
    <3> QED BY <1>9, <3>1, <3>2
  <2>2. IsChain(m, C[m])
    BY DEF Shape
  <2> QED BY <1>9, <1>12, <2>1, <2>2, ChainKept
<1>13. D[l] = r /\ \A m \in DlLists : m # l => D[m] = C[m]
  BY DEF Shape
<1> HIDE DEF D
<1>14. \A m \in DlLists : IsChain(m, D[m])'
  BY <1>11, <1>12, <1>13 DEF IsChain
<1>15. Shape(D)'
  BY <1>6, <1>14 DEF Shape, Disjoint
<1> QED BY <1>10, <1>15 DEF D

\* remove() of any item of a list.
LEMMA UnlinkIsCut ==
  ASSUME ListTypeOK, NEW C, Shape(C), NEW l \in DlLists, NEW p \in 1 .. Len(C[l]),
         Unlink(l, C[l][p]), NEW r, Cuts(Items, C[l], r, p)
  PROVE  ListTypeOK' /\ Shape([C EXCEPT ![l] = r])'
<1> DEFINE q == C[l]
           n == Len(q)
           D == [C EXCEPT ![l] = r]
           item == q[p]
<1>1. /\ n \in Nat \ {0} /\ p \in 1 .. n /\ q # <<>>
      /\ \A i \in 1 .. n : q[i] \in Items /\ q[i] # Null
      /\ \A i, j \in 1 .. n : q[i] = q[j] => i = j
  BY ChainItems
<1>2. IsChain(l, q)
  BY DEF Shape
<1>3. /\ first \in [DlLists -> Pointer] /\ last \in [DlLists -> Pointer]
      /\ next \in [Items -> Pointer] /\ prev \in [Items -> Pointer]
  BY DEF ListTypeOK
<1>4. /\ first[l] = q[1] /\ last[l] = q[n]
      /\ \A i \in 1 .. n : /\ next[q[i]] = IF i = n THEN Null ELSE q[i + 1]
                           /\ prev[q[i]] = IF i = 1 THEN Null ELSE q[i - 1]
  BY <1>1, <1>2 DEF IsChain
<1>5. /\ r \in Seq(Items) /\ Len(r) = n - 1
      /\ \A j \in 1 .. n - 1 : r[j] = IF j < p THEN q[j] ELSE q[j + 1]
  BY DEF Cuts
<1>6. Unlink(l, item)
  OBVIOUS
<1> HIDE DEF q, n
<1>7. /\ item \in Items /\ next[item] = (IF p = n THEN Null ELSE q[p + 1])
      /\ prev[item] = (IF p = 1 THEN Null ELSE q[p - 1])
      /\ (prev[item] = Null <=> p = 1) /\ (next[item] = Null <=> p = n)
  <2>1. p # n => p + 1 \in 1 .. n
    BY <1>1
  <2>2. p # 1 => p - 1 \in 1 .. n
    BY <1>1
  <2> QED BY <1>1, <1>4, <2>1, <2>2
<1> HIDE DEF item
<1>8. /\ first' = IF p = 1 THEN [first EXCEPT ![l] = next[item]] ELSE first
      /\ next' = IF p = 1 THEN next ELSE [next EXCEPT ![q[p - 1]] = next[item]]
      /\ last' = IF p = n THEN [last EXCEPT ![l] = prev[item]] ELSE last
      /\ prev' = IF p = n THEN prev ELSE [prev EXCEPT ![q[p + 1]] = prev[item]]
  BY <1>6, <1>7 DEF Unlink
<1>9. /\ first'[l] = (IF p = 1 THEN next[item] ELSE first[l])
      /\ last'[l] = (IF p = n THEN prev[item] ELSE last[l])
      /\ \A m \in DlLists : m # l => first'[m] = first[m] /\ last'[m] = last[m]
      /\ \A x \in Items : next'[x] = IF p # 1 /\ x = q[p - 1] THEN next[item] ELSE next[x]
      /\ \A x \in Items : prev'[x] = IF p # n /\ x = q[p + 1] THEN prev[item] ELSE prev[x]
  BY <1>3, <1>8
<1>10. ListTypeOK'
  <2>1. next[item] \in Pointer /\ prev[item] \in Pointer
    BY <1>3, <1>7
  <2> QED BY <1>3, <1>8, <2>1 DEF ListTypeOK
<1> DEFINE From(j) == IF j < p THEN j ELSE j + 1
<1>11. /\ \A j \in 1 .. n - 1 : From(j) \in 1 .. n /\ From(j) # p /\ r[j] = q[From(j)]
       /\ \A i, j \in 1 .. n - 1 : From(i) = From(j) => i = j
  <2>1. \A j \in 1 .. n - 1 : From(j) \in 1 .. n /\ From(j) # p
    BY <1>1
  <2>2. \A i, j \in 1 .. n - 1 : From(i) = From(j) => i = j
    BY <1>1
  <2>3. \A j \in 1 .. n - 1 : r[j] = q[From(j)]
    BY <1>1, <1>5
  <2> QED BY <2>1, <2>2, <2>3
<1>12. IsChain(l, r)'
  <2>1. r = <<>> <=> n = 1
    BY <1>1, <1>5, EmptySeq
  <2>2. first'[l] = IF r = <<>> THEN Null ELSE r[1]
    <3>1. CASE n = 1
      BY <1>1, <1>7, <1>9, <2>1, <3>1
    <3>2. CASE n # 1 /\ p = 1
      <4>1. r[1] = q[2] /\ 1 + 1 = 2
        BY <1>1, <1>5, <3>2
      <4> QED BY <1>7, <1>9, <2>1, <3>2, <4>1
    <3>3. CASE n # 1 /\ p # 1
      <4>1. r[1] = q[1]
        BY <1>1, <1>5, <3>3
      <4> QED BY <1>4, <1>9, <2>1, <3>3, <4>1
    <3> QED BY <3>1, <3>2, <3>3
  <2>3. last'[l] = IF r = <<>> THEN Null ELSE r[Len(r)]
    <3>1. CASE n = 1
      BY <1>1, <1>7, <1>9, <2>1, <3>1
    <3>2. CASE n # 1 /\ p = n
      <4>1. r[n - 1] = q[n - 1]
        BY <1>1, <1>5, <3>2
      <4> QED BY <1>5, <1>7, <1>9, <2>1, <3>2, <4>1
    <3>3. CASE n # 1 /\ p # n
      <4>1. r[n - 1] = q[(n - 1) + 1] /\ (n - 1) + 1 = n
        BY <1>1, <1>5, <3>3
      <4> QED BY <1>4, <1>5, <1>9, <2>1, <3>3, <4>1
    <3> QED BY <3>1, <3>2, <3>3
  <2>4. ASSUME NEW i \in 1 .. Len(r)
        PROVE  next'[r[i]] = IF i = Len(r) THEN Null ELSE r[i + 1]
    <3>1. i \in 1 .. n - 1 /\ (i = Len(r) <=> i = n - 1)
      BY <1>5
    <3>2. CASE i = p - 1
      <4>1. r[i] = q[p - 1] /\ p # 1 /\ p - 1 \in 1 .. n
        BY <1>1, <1>5, <3>1, <3>2
      <4>2. next'[r[i]] = next[item]
        BY <1>1, <1>9, <4>1
      <4>3. i = n - 1 <=> p = n
        BY <1>1, <3>2
      <4>4. p # n => r[i + 1] = q[p + 1]
        <5>1. p # n => i + 1 \in 1 .. n - 1 /\ ~(i + 1 < p) /\ (i + 1) + 1 = p + 1
          BY <1>1, <3>2
        <5> QED BY <1>5, <5>1
      <4> QED BY <1>7, <3>1, <4>2, <4>3, <4>4
    <3>3. CASE i # p - 1
      <4> DEFINE k == From(i)
      <4>1. k \in 1 .. n /\ r[i] = q[k] /\ k # p
        BY <1>11, <3>1
      <4>2. k # p - 1 /\ (k = n <=> i = n - 1) /\ (i # n - 1 => From(i + 1) = k + 1)
        BY <1>1, <3>1, <3>3
      <4>3. i # n - 1 => r[i + 1] = q[k + 1]
        <5>1. i # n - 1 => i + 1 \in 1 .. n - 1
          BY <1>1, <3>1
        <5> HIDE DEF k, From
        <5> QED BY <1>11, <4>2, <5>1
      <4> HIDE DEF k, From
      <4>4. p # 1 => q[k] # q[p - 1]
        <5>1. p # 1 => p - 1 \in 1 .. n
          BY <1>1
        <5> QED BY <1>1, <4>1, <4>2, <5>1
      <4>5. next'[r[i]] = next[q[k]]
        BY <1>1, <1>9, <4>1, <4>4
      <4>6. next[q[k]] = IF k = n THEN Null ELSE q[k + 1]
        BY <1>4, <4>1
      <4> QED BY <3>1, <4>2, <4>3, <4>5, <4>6
    <3> QED BY <3>2, <3>3
  <2>5. ASSUME NEW i \in 1 .. Len(r)
        PROVE  prev'[r[i]] = IF i = 1 THEN Null ELSE r[i - 1]
    <3>1. i \in 1 .. n - 1
      BY <1>5
    <3>2. CASE i = p
      <4>1. r[i] = q[p + 1] /\ p # n /\ p + 1 \in 1 .. n
        BY <1>1, <1>5, <3>1, <3>2
      <4>2. prev'[r[i]] = prev[item]
        BY <1>1, <1>9, <4>1
      <4>3. p # 1 => r[i - 1] = q[p - 1]
        <5>1. p # 1 => i - 1 \in 1 .. n - 1 /\ i - 1 < p /\ i - 1 = p - 1
          BY <1>1, <3>1, <3>2
        <5> QED BY <1>5, <5>1
      <4> QED BY <1>7, <3>2, <4>2, <4>3
    <3>3. CASE i # p
      <4> DEFINE k == From(i)
      <4>1. k \in 1 .. n /\ r[i] = q[k] /\ k # p
        BY <1>11, <3>1
      <4>2. k # p + 1 /\ (k = 1 <=> i = 1) /\ (i # 1 => From(i - 1) = k - 1)
        BY <1>1, <3>1, <3>3
      <4>3. i # 1 => r[i - 1] = q[k - 1]
        <5>1. i # 1 => i - 1 \in 1 .. n - 1
          BY <1>1, <3>1
        <5> HIDE DEF k, From
        <5> QED BY <1>11, <4>2, <5>1
      <4> HIDE DEF k, From
      <4>4. p # n => q[k] # q[p + 1]
        <5>1. p # n => p + 1 \in 1 .. n
          BY <1>1
        <5> QED BY <1>1, <4>1, <4>2, <5>1
      <4>5. prev'[r[i]] = prev[q[k]]
        BY <1>1, <1>9, <4>1, <4>4
      <4>6. prev[q[k]] = IF k = 1 THEN Null ELSE q[k - 1]
        BY <1>4, <4>1
      <4> QED BY <3>1, <4>2, <4>3, <4>5, <4>6
    <3> QED BY <3>2, <3>3
  <2> QED BY <2>2, <2>3, <2>4, <2>5 DEF IsChain
<1> HIDE DEF From
<1>13. ASSUME NEW m \in DlLists, m # l, NEW i \in 1 .. Len(C[m]), NEW j \in 1 .. n
       PROVE  C[m][i] # q[j]
  BY <1>13 DEF Shape, Disjoint, q, n
<1>14. ASSUME NEW m \in DlLists, m # l PROVE IsChain(m, C[m])'
  <2>1. ASSUME NEW i \in 1 .. Len(C[m])
        PROVE  next'[C[m][i]] = next[C[m][i]] /\ prev'[C[m][i]] = prev[C[m][i]]
    <3>1. C[m][i] \in Items
      BY ChainItems
    <3>2. p # n => C[m][i] # q[p + 1]
      <4>1. p # n => p + 1 \in 1 .. n
        BY <1>1
      <4> QED BY <1>13, <1>14, <4>1
    <3>3. p # 1 => C[m][i] # q[p - 1]
      <4>1. p # 1 => p - 1 \in 1 .. n
        BY <1>1
      <4> QED BY <1>13, <1>14, <4>1
    <3> QED BY <1>9, <3>1, <3>2, <3>3
  <2>2. IsChain(m, C[m])
    BY DEF Shape
  <2> QED BY <1>9, <1>14, <2>1, <2>2, ChainKept
<1>15. D \in [DlLists -> Seq(Items)] /\ D[l] = r /\ \A m \in DlLists : m # l => D[m] = C[m]
  BY <1>5 DEF Shape
<1> HIDE DEF D
<1>16. Disjoint(D)
  <2> SUFFICES ASSUME NEW k \in DlLists, NEW m \in DlLists,
                      NEW i \in 1 .. Len(D[k]), NEW j \in 1 .. Len(D[m]), D[k][i] = D[m][j]
               PROVE  k = m /\ i = j
    BY DEF Disjoint
  <2>1. CASE k = l /\ m = l
    <3>1. i \in 1 .. n - 1 /\ j \in 1 .. n - 1 /\ r[i] = r[j]
      BY <1>5, <1>15, <2>1
    <3> QED BY <1>1, <1>11, <2>1, <3>1
  <2>2. CASE k = l /\ m # l
    BY <1>5, <1>11, <1>13, <1>15, <2>2
  <2>3. CASE k # l /\ m = l
    BY <1>5, <1>11, <1>13, <1>15, <2>3
  <2>4. CASE k # l /\ m # l
    BY <1>15, <2>4 DEF Disjoint, Shape
  <2> QED BY <2>1, <2>2, <2>3, <2>4
<1>17. ASSUME NEW m \in DlLists PROVE IsChain(m, D[m])'
  <2>1. CASE m = l
    BY <1>12, <1>15, <2>1 DEF IsChain
  <2>2. CASE m # l
    BY <1>14, <1>15, <2>2 DEF IsChain
  <2> QED BY <2>1, <2>2
<1>18. Shape(D)'
  BY <1>15, <1>16, <1>17 DEF Shape, Disjoint
<1> QED BY <1>10, <1>18 DEF D

\* move_list() of a list s that is not empty.
LEMMA MoveIsConcat ==
  ASSUME ListTypeOK, NEW C, Shape(C), NEW l \in DlLists, NEW s \in DlLists, s # l,
         MoveList(l, s)
  PROVE  ListTypeOK' /\ Shape([C EXCEPT ![l] = C[l] \o C[s], ![s] = <<>>])'
<1> DEFINE q == C[l]
           n == Len(q)
           z == C[s]
           k == Len(z)
           r == q \o z
           D == [C EXCEPT ![l] = r, ![s] = <<>>]
<1>1. /\ q \in Seq(Items) /\ n \in Nat /\ (q = <<>> <=> n = 0)
      /\ \A i \in 1 .. n : q[i] \in Items /\ q[i] # Null
      /\ \A i, j \in 1 .. n : q[i] = q[j] => i = j
  BY ChainItems
<1>2. /\ z \in Seq(Items) /\ k \in Nat /\ (z = <<>> <=> k = 0)
      /\ \A i \in 1 .. k : z[i] \in Items /\ z[i] # Null
      /\ \A i, j \in 1 .. k : z[i] = z[j] => i = j
  BY ChainItems
<1>3. /\ first \in [DlLists -> Pointer] /\ last \in [DlLists -> Pointer]
      /\ next \in [Items -> Pointer] /\ prev \in [Items -> Pointer]
  BY DEF ListTypeOK
<1>4. IsChain(l, q) /\ IsChain(s, z)
  BY DEF Shape
<1>5. \A m \in DlLists : \A i \in 1 .. n, j \in 1 .. Len(C[m]) : m # l => q[i] # C[m][j]
  BY DEF Shape, Disjoint
<1>6. \A m \in DlLists : \A i \in 1 .. k, j \in 1 .. Len(C[m]) : m # s => z[i] # C[m][j]
  BY DEF Shape, Disjoint
<1>7. \A i \in 1 .. n, j \in 1 .. k : q[i] # z[j]
  BY <1>5
<1>8. D \in [DlLists -> Seq(Items)] /\ D[l] = r /\ D[s] = <<>>
      /\ \A m \in DlLists : m # l /\ m # s => D[m] = C[m]
  <2>1. r \in Seq(Items) /\ <<>> \in Seq(Items)
    BY <1>1, <1>2, ConcatProperties, EmptySeq
  <2>2. C \in [DlLists -> Seq(Items)]
    BY DEF Shape
  <2> HIDE DEF r
  <2> QED BY <2>1, <2>2
<1> HIDE DEF q, z, D, n, k
<1>9. /\ Len(r) = n + k /\ \A i \in 1 .. n : r[i] = q[i]
      /\ \A i \in 1 .. k : r[n + i] = z[i]
  <2>1. /\ r \in Seq(Items) /\ Len(r) = Len(q) + Len(z)
        /\ \A i \in 1 .. Len(q) + Len(z) : r[i] = IF i <= Len(q) THEN q[i] ELSE z[i - Len(q)]
    BY <1>1, <1>2, ConcatProperties
  <2> HIDE DEF r
  <2>2. ASSUME NEW i \in 1 .. k PROVE r[n + i] = z[i]
    <3>1. n + i \in 1 .. n + k /\ ~(n + i <= n) /\ (n + i) - n = i
      BY <1>1, <1>2
    <3> QED BY <2>1, <3>1 DEF n, k
  <2>3. ASSUME NEW i \in 1 .. n PROVE r[i] = q[i]
    <3>1. i \in 1 .. n + k /\ i <= n
      BY <1>1, <1>2
    <3> QED BY <2>1, <3>1 DEF n, k
  <2> QED BY <2>1, <2>2, <2>3 DEF n, k
<1> HIDE DEF r
<1>10. /\ first[l] = (IF n = 0 THEN Null ELSE q[1]) /\ last[l] = (IF n = 0 THEN Null ELSE q[n])
       /\ first[s] = (IF k = 0 THEN Null ELSE z[1]) /\ last[s] = (IF k = 0 THEN Null ELSE z[k])
  BY <1>1, <1>2, <1>4 DEF IsChain, n, k
<1>11. k # 0 /\ first[s] = z[1] /\ last[s] = z[k] /\ (first[l] = Null <=> n = 0)
  BY <1>1, <1>10 DEF MoveList
<1>12. /\ last' = [last EXCEPT ![l] = z[k], ![s] = Null]
       /\ first' = IF n = 0 THEN [first EXCEPT ![l] = z[1], ![s] = Null]
                   ELSE [first EXCEPT ![s] = Null]
       /\ next' = IF n = 0 THEN next ELSE [next EXCEPT ![q[n]] = z[1]]
       /\ prev' = IF n = 0 THEN prev ELSE [prev EXCEPT ![z[1]] = q[n]]
  BY <1>10, <1>11 DEF MoveList
<1>13. 1 \in 1 .. k /\ k \in 1 .. k /\ (n # 0 => n \in 1 .. n /\ 1 \in 1 .. n)
  BY <1>1, <1>2, <1>11
<1>14. /\ first'[l] = (IF n = 0 THEN z[1] ELSE q[1]) /\ last'[l] = z[k]
       /\ first'[s] = Null /\ last'[s] = Null
       /\ \A m \in DlLists : m # l /\ m # s => first'[m] = first[m] /\ last'[m] = last[m]
       /\ \A x \in Items : next'[x] = IF n # 0 /\ x = q[n] THEN z[1] ELSE next[x]
       /\ \A x \in Items : prev'[x] = IF n # 0 /\ x = z[1] THEN q[n] ELSE prev[x]
  BY <1>3, <1>10, <1>12
<1>15. ListTypeOK'
  <2>1. z[1] \in Pointer /\ z[k] \in Pointer /\ Null \in Pointer /\ (n # 0 => q[n] \in Pointer)
    BY <1>1, <1>2, <1>13 DEF Pointer
  <2> QED BY <1>3, <1>12, <2>1 DEF ListTypeOK
<1>16. IsChain(l, r)'
  <2>1. r # <<>> /\ Len(r) = n + k /\ n + k # 0
    BY <1>1, <1>2, <1>9, <1>11, EmptySeq
  <2>2. first'[l] = r[1]
    <3>1. CASE n = 0
      <4>1. n + 1 = 1
        BY <3>1
      <4> QED BY <1>9, <1>13, <1>14, <3>1, <4>1
    <3>2. CASE n # 0
      BY <1>9, <1>13, <1>14, <3>2
    <3> QED BY <3>1, <3>2
  <2>3. last'[l] = r[Len(r)]
    BY <1>9, <1>13, <1>14
  <2> DEFINE Right(x) == /\ next'[r[x]] = IF x = Len(r) THEN Null ELSE r[x + 1]
                         /\ prev'[r[x]] = IF x = 1 THEN Null ELSE r[x - 1]
  <2>4. ASSUME NEW i \in 1 .. n PROVE Right(i)
    <3>1. /\ next[q[i]] = (IF i = n THEN Null ELSE q[i + 1])
          /\ prev[q[i]] = (IF i = 1 THEN Null ELSE q[i - 1])
      BY <1>4 DEF IsChain, n
    <3>2. n # 0 /\ i # Len(r) /\ r[i] = q[i] /\ q[i] \in Items /\ q[i] # z[1]
      BY <1>1, <1>2, <1>7, <1>9, <1>11, <1>13
    <3>3. prev'[r[i]] = IF i = 1 THEN Null ELSE r[i - 1]
      <4>1. i # 1 => i - 1 \in 1 .. n
        BY <1>1
      <4> QED BY <1>9, <1>14, <3>1, <3>2, <4>1
    <3>4. CASE i = n
      <4>1. r[i + 1] = z[1]
        BY <1>9, <1>13, <3>4
      <4> QED BY <1>14, <3>2, <3>3, <3>4, <4>1
    <3>5. CASE i # n
      <4>1. i + 1 \in 1 .. n /\ q[i] # q[n]
        BY <1>1, <1>13, <3>2, <3>5
      <4> QED BY <1>9, <1>14, <3>1, <3>2, <3>3, <3>5, <4>1
    <3> QED BY <3>4, <3>5
  <2>5. ASSUME NEW i \in 1 .. k
        PROVE  Right(n + i)
    <3>1. /\ next[z[i]] = (IF i = k THEN Null ELSE z[i + 1])
          /\ prev[z[i]] = (IF i = 1 THEN Null ELSE z[i - 1])
      BY <1>4 DEF IsChain, k
    <3>2. r[n + i] = z[i] /\ z[i] \in Items /\ (n # 0 => z[i] # q[n])
      BY <1>2, <1>7, <1>9, <1>13
    <3>3. next'[r[n + i]] = IF n + i = Len(r) THEN Null ELSE r[n + i + 1]
      <4>1. (n + i = Len(r) <=> i = k) /\ (i # k => i + 1 \in 1 .. k /\ n + (i + 1) = n + i + 1)
        BY <1>1, <1>2, <1>9
      <4> QED BY <1>9, <1>14, <3>1, <3>2, <4>1
    <3>4. CASE i = 1 /\ n = 0
      <4>1. n + i = 1
        BY <3>4
      <4> QED BY <1>14, <3>1, <3>2, <3>3, <3>4, <4>1
    <3>5. CASE i = 1 /\ n # 0
      <4>1. n + i # 1 /\ n + i - 1 = n
        BY <1>1, <3>5
      <4> QED BY <1>9, <1>13, <1>14, <3>2, <3>3, <3>5, <4>1
    <3>6. CASE i # 1
      <4>1. n + i # 1 /\ i - 1 \in 1 .. k /\ n + (i - 1) = (n + i) - 1 /\ z[i] # z[1]
        BY <1>1, <1>2, <1>13, <3>6
      <4>2. r[(n + i) - 1] = z[i - 1]
        BY <1>9, <4>1
      <4>3. prev'[r[n + i]] = z[i - 1]
        BY <1>14, <3>1, <3>2, <3>6, <4>1
      <4>4. prev'[r[n + i]] = r[(n + i) - 1]
        BY ONLY <4>2, <4>3
      <4>5. prev'[r[n + i]] = IF n + i = 1 THEN Null ELSE r[(n + i) - 1]
        BY ONLY <4>1, <4>4
      <4> QED BY ONLY <3>3, <4>5 DEF Right
    <3> QED BY <3>4, <3>5, <3>6
  <2>6. ASSUME NEW i \in 1 .. Len(r)
        PROVE  Right(i)
    <3>1. CASE i \in 1 .. n
      BY <2>4, <3>1
    <3>2. CASE i \notin 1 .. n
      <4>1. i - n \in 1 .. k /\ i = n + (i - n)
        BY <1>1, <1>2, <2>1, <3>2
      <4>2. PICK j \in 1 .. k : i = n + j
        BY <4>1
      <4> HIDE DEF Right
      <4> QED BY <2>5, <4>2
    <3> QED BY <3>1, <3>2
  <2> QED BY <2>1, <2>2, <2>3, <2>6 DEF IsChain
<1>17. IsChain(s, <<>>)'
  BY <1>14 DEF IsChain
<1>18. ASSUME NEW m \in DlLists, m # l, m # s PROVE IsChain(m, C[m])'
  <2>1. ASSUME NEW i \in 1 .. Len(C[m])
        PROVE  next'[C[m][i]] = next[C[m][i]] /\ prev'[C[m][i]] = prev[C[m][i]]
    <3>1. C[m][i] \in Items
      BY ChainItems
    <3>2. C[m][i] # z[1] /\ (n # 0 => C[m][i] # q[n])
      BY <1>5, <1>6, <1>13, <1>18
    <3> QED BY <1>14, <3>1, <3>2
  <2>2. IsChain(m, C[m])
    BY DEF Shape
  <2> QED BY <1>14, <1>18, <2>1, <2>2, ChainKept
<1> DEFINE Who(i) == IF i <= n THEN l ELSE s
           At(i) == IF i <= n THEN i ELSE i - n
<1>19. \A i \in 1 .. n + k : /\ Who(i) \in {l, s} /\ At(i) \in 1 .. Len(C[Who(i)])
                             /\ r[i] = C[Who(i)][At(i)]
  <2> SUFFICES ASSUME NEW i \in 1 .. n + k
               PROVE  /\ Who(i) \in {l, s} /\ At(i) \in 1 .. Len(C[Who(i)])
                      /\ r[i] = C[Who(i)][At(i)]
    OBVIOUS
  <2>1. CASE i <= n
    <3>1. i \in 1 .. n
      BY <1>1, <1>2, <2>1
    <3> QED BY <1>9, <2>1, <3>1 DEF q, n
  <2>2. CASE ~(i <= n)
    <3>1. i - n \in 1 .. k /\ n + (i - n) = i
      BY <1>1, <1>2, <2>2
    <3>2. r[i] = z[i - n]
      BY <1>9, <3>1
    <3> QED BY <2>2, <3>1, <3>2 DEF z, k
  <2> QED BY <2>1, <2>2
<1>20. \A i, j \in 1 .. n + k : Who(i) = Who(j) /\ At(i) = At(j) => i = j
  <2> SUFFICES ASSUME NEW i \in 1 .. n + k, NEW j \in 1 .. n + k, Who(i) = Who(j), At(i) = At(j)
               PROVE  i = j
    OBVIOUS
  <2>1. i <= n <=> j <= n
    OBVIOUS
  <2>2. i \in Int /\ j \in Int /\ n \in Int
    BY <1>1
  <2> QED BY <2>1, <2>2
<1> HIDE DEF Who, At
<1>21. Disjoint(D)
  <2> SUFFICES ASSUME NEW a \in DlLists, NEW m \in DlLists,
                      NEW i \in 1 .. Len(D[a]), NEW j \in 1 .. Len(D[m]), D[a][i] = D[m][j]
               PROVE  a = m /\ i = j
    BY DEF Disjoint
  <2>0. Disjoint(C) /\ Len(D[s]) = 0 /\ a # s /\ m # s
    <3>1. Disjoint(C) /\ Len(D[s]) = 0
      BY <1>8 DEF Shape
    <3> QED BY <3>1
  <2>1. CASE a = l /\ m = l
    <3>1. i \in 1 .. n + k /\ j \in 1 .. n + k /\ r[i] = r[j]
      BY <1>8, <1>9, <2>1
    <3>2. Who(i) = Who(j) /\ At(i) = At(j)
      <4>1. Who(i) \in {l, s} /\ At(i) \in 1 .. Len(C[Who(i)]) /\ r[i] = C[Who(i)][At(i)]
        BY <1>19, <3>1
      <4>2. Who(j) \in {l, s} /\ At(j) \in 1 .. Len(C[Who(j)]) /\ r[j] = C[Who(j)][At(j)]
        BY <1>19, <3>1
      <4>3. Who(i) \in DlLists /\ Who(j) \in DlLists
        BY <4>1, <4>2
      <4>4. C[Who(i)][At(i)] = C[Who(j)][At(j)]
        BY <3>1, <4>1, <4>2
      <4> QED BY <2>0, <4>1, <4>2, <4>3, <4>4 DEF Disjoint
    <3> QED BY <1>20, <2>1, <3>1, <3>2
  <2>2. CASE a = l /\ m # l
    <3>1. i \in 1 .. n + k /\ r[i] = C[m][j] /\ j \in 1 .. Len(C[m])
      BY <1>8, <1>9, <2>0, <2>2
    <3> QED BY <1>19, <2>0, <2>2, <3>1 DEF Disjoint
  <2>3. CASE a # l /\ m = l
    <3>1. j \in 1 .. n + k /\ r[j] = C[a][i] /\ i \in 1 .. Len(C[a])
      BY <1>8, <1>9, <2>0, <2>3
    <3> QED BY <1>19, <2>0, <2>3, <3>1 DEF Disjoint
  <2>4. CASE a # l /\ m # l
    <3>1. D[a] = C[a] /\ D[m] = C[m]
      BY <1>8, <2>0, <2>4
    <3> QED BY <2>0, <3>1 DEF Disjoint
  <2> QED BY <2>1, <2>2, <2>3, <2>4
<1>22. \A m \in DlLists : IsChain(m, D[m])'
  BY <1>8, <1>16, <1>17, <1>18 DEF IsChain
<1>23. Shape(D)'
  BY <1>8, <1>21, <1>22 DEF Shape, Disjoint
<1> QED BY <1>15, <1>23 DEF D, r, q, z

---------------------------------------------------------------------------
(* The lists are the sequences of ItemLists.                               *)

\* A call of the lists as one on sequences.
Changes(C, D) ==
  \E l \in DlLists :
    \/ \E p \in 1 .. Len(C[l]) + 1, item \in Items :
         Outside(C, item) /\ D = [C EXCEPT ![l] = InsertAt(C[l], p, item)]
    \/ \E p \in 1 .. Len(C[l]) : D = [C EXCEPT ![l] = RemoveAt(C[l], p)]
    \/ \E s \in DlLists \ {l} : D = [C EXCEPT ![l] = C[l] \o C[s], ![s] = <<>>]

LEMMA InsertsPut ==
  ASSUME NEW C, Shape(C), NEW l \in DlLists, NEW p \in 1 .. Len(C[l]) + 1, NEW item \in Items
  PROVE  Puts(Items, C[l], InsertAt(C[l], p, item), p, item)
<1>1. C[l] \in Seq(Items)
  BY ChainItems
<1>2. InsertAt(C[l], p, item) = Put(C[l], p, item)
  BY DEF InsertAt, Put
<1> DEFINE q == C[l]
<1>3. q \in Seq(Items) /\ p \in 1 .. Len(q) + 1
  BY <1>1
<1> HIDE DEF q
<1>4. Puts(Items, q, Put(q, p, item), p, item)
  BY <1>3, PutFacts
<1> QED BY <1>2, <1>4 DEF q

LEMMA RemovalsCut ==
  ASSUME NEW C, Shape(C), NEW l \in DlLists, NEW p \in 1 .. Len(C[l])
  PROVE  Cuts(Items, C[l], RemoveAt(C[l], p), p)
<1>1. C[l] \in Seq(Items)
  BY ChainItems
<1>2. RemoveAt(C[l], p) = Cut(C[l], p)
  BY DEF RemoveAt, Cut
<1> DEFINE q == C[l]
<1>3. q \in Seq(Items) /\ p \in 1 .. Len(q)
  BY <1>1
<1> HIDE DEF q
<1>4. Cuts(Items, q, Cut(q, p), p)
  BY <1>3, CutFacts
<1> QED BY <1>2, <1>4 DEF q

\* Every call keeps the lists lists, and is one on sequences.
LEMMA CallsKeepInv ==
  ASSUME ListTypeOK, Sees, NEW C \in [DlLists -> Seq(Items)], Shape(C), ListCalls
  PROVE  ListTypeOK' /\ \E D \in [DlLists -> Seq(Items)] : Shape(D)' /\ Changes(C, D)
<1>1. Contents = C
  BY DEF Sees
<1>2. \A l \in DlLists : Forward(l) = C[l]
  BY <1>1 DEF Contents
<1>3. ASSUME NEW D, ListTypeOK', Shape(D)', Changes(C, D)
      PROVE  ListTypeOK' /\ \E E \in [DlLists -> Seq(Items)] : Shape(E)' /\ Changes(C, E)
  <2>1. D \in [DlLists -> Seq(Items)]
    BY <1>3 DEF Shape
  <2> QED BY <1>3, <2>1
<1>4. ASSUME NEW item \in Items \ Chained PROVE Outside(C, item)
  <2>1. \A l \in DlLists : item \notin ToSet(C[l])
    BY <1>2 DEF Chained
  <2>2. \A l \in DlLists : DOMAIN C[l] = 1 .. Len(C[l])
    BY ChainItems
  <2> QED BY <2>1, <2>2 DEF Outside, ToSet
<1>5. ASSUME NEW l \in DlLists, NEW item \in Items \ Chained,
             \/ AppendItem(l, item) \/ (last[l] # Null /\ InsertBehind(l, last[l], item))
             \/ PrependItem(l, item)
      PROVE  ListTypeOK' /\ \E D \in [DlLists -> Seq(Items)] : Shape(D)' /\ Changes(C, D)
  <2>1. Outside(C, item) /\ item \in Items
    BY <1>4
  <2>2. Len(C[l]) + 1 \in 1 .. Len(C[l]) + 1 /\ 1 \in 1 .. Len(C[l]) + 1
    BY ChainItems
  <2>3. ASSUME NEW p \in 1 .. Len(C[l]) + 1, NEW D, D = [C EXCEPT ![l] = InsertAt(C[l], p, item)]
        PROVE  Changes(C, D)
    BY <2>1, <2>3 DEF Changes
  <2>4. CASE PrependItem(l, item)
    <3> DEFINE r == InsertAt(C[l], 1, item)
               D == [C EXCEPT ![l] = r]
    <3>1. Puts(Items, C[l], r, 1, item)
      BY <2>1, <2>2, InsertsPut
    <3>2. Changes(C, D)
      BY <2>2, <2>3
    <3> HIDE DEF r
    <3>3. ListTypeOK' /\ Shape(D)'
      BY <2>1, <2>4, <3>1, PrependIsPut
    <3> HIDE DEF D
    <3> QED BY <1>3, <3>2, <3>3
  <2>5. CASE AppendItem(l, item) \/ (last[l] # Null /\ InsertBehind(l, last[l], item))
    <3> DEFINE r == InsertAt(C[l], Len(C[l]) + 1, item)
               D == [C EXCEPT ![l] = r]
    <3>1. Puts(Items, C[l], r, Len(C[l]) + 1, item)
      BY <2>1, <2>2, InsertsPut
    <3>2. Changes(C, D)
      BY <2>2, <2>3
    <3> HIDE DEF r
    <3>3. ListTypeOK' /\ Shape(D)'
      BY <2>1, <2>5, <3>1, AppendIsPut
    <3> HIDE DEF D
    <3> QED BY <1>3, <3>2, <3>3
  <2> QED BY <1>5, <2>4, <2>5
<1>6. ASSUME NEW l \in DlLists, NEW item \in ToSet(Forward(l)), Unlink(l, item)
      PROVE  ListTypeOK' /\ \E D \in [DlLists -> Seq(Items)] : Shape(D)' /\ Changes(C, D)
  <2>1. PICK p \in 1 .. Len(C[l]) : item = C[l][p]
    BY <1>2, ChainItems DEF ToSet
  <2> DEFINE r == RemoveAt(C[l], p)
             D == [C EXCEPT ![l] = r]
  <2>2. Cuts(Items, C[l], r, p)
    BY RemovalsCut
  <2>3. Changes(C, D)
    BY DEF Changes
  <2> HIDE DEF r
  <2>4. ListTypeOK' /\ Shape(D)'
    BY <1>6, <2>1, <2>2, UnlinkIsCut
  <2> HIDE DEF D
  <2> QED BY <1>3, <2>3, <2>4
<1>7. ASSUME NEW l \in DlLists, NEW s \in DlLists \ {l}, MoveList(l, s)
      PROVE  ListTypeOK' /\ \E D \in [DlLists -> Seq(Items)] : Shape(D)' /\ Changes(C, D)
  <2> DEFINE D == [C EXCEPT ![l] = C[l] \o C[s], ![s] = <<>>]
  <2>1. Changes(C, D)
    BY DEF Changes
  <2>2. ListTypeOK' /\ Shape(D)'
    BY <1>7, MoveIsConcat
  <2> HIDE DEF D
  <2> QED BY <1>3, <2>1, <2>2
<1> QED BY <1>5, <1>6, <1>7 DEF ListCalls

LEMMA ListInvInit == ListInit => ListInv
<1> SUFFICES ASSUME ListInit PROVE ListInv
  OBVIOUS
<1> DEFINE C == [l \in DlLists |-> <<>>]
<1>1. C \in [DlLists -> Seq(Items)] /\ \A l \in DlLists : C[l] = <<>> /\ Len(C[l]) = 0
  BY EmptySeq
<1> HIDE DEF C
<1>2. \A l \in DlLists : IsChain(l, C[l])
  BY <1>1 DEF ListInit, IsChain
<1>3. Shape(C)
  BY <1>1, <1>2 DEF Shape, Disjoint
<1>4. ListTypeOK
  BY DEF ListInit, ListTypeOK, Pointer
<1> QED BY <1>1, <1>3, <1>4 DEF ListInv

\* In every state the pointers of the lists are those of disjoint sequences.
THEOREM ListInvHolds == ListSpec => []ListInv
<1>1. ListInv /\ Sees /\ [ListCalls]_listVars => ListInv'
  <2> SUFFICES ASSUME ListInv, Sees, [ListCalls]_listVars PROVE ListInv'
    OBVIOUS
  <2>1. PICK C \in [DlLists -> Seq(Items)] : Shape(C)
    BY DEF ListInv
  <2>2. CASE ListCalls
    BY <2>1, <2>2, CallsKeepInv DEF ListInv
  <2>3. CASE UNCHANGED listVars
    <3>1. ListTypeOK' /\ Shape(C)'
      BY <2>1, <2>3 DEF listVars, ListInv, ListTypeOK, Shape, IsChain, Disjoint
    <3> QED BY <2>1, <3>1 DEF ListInv
  <2> QED BY <2>2, <2>3
<1>2. ListInv => Sees
  BY ListsAreSeen DEF ListInv
<1> QED BY <1>1, <1>2, ListInvInit, PTL DEF ListSpec

\* The pointers of dl_list.h have their types.
THEOREM ListTypeCorrect == ListSpec => []ListTypeOK
<1>1. ListInv => ListTypeOK
  BY DEF ListInv
<1> QED BY <1>1, ListInvHolds, PTL

\* Both directions of every list tell the same, and its ends are its ends.
THEOREM DirectionsAgree == ListSpec => []BothWays
<1>1. ListInv => BothWays
  <2> SUFFICES ASSUME ListInv, NEW l \in DlLists
               PROVE  /\ Backward(l) = Reverse(Forward(l))
                      /\ first[l] = Null <=> last[l] = Null
                      /\ last[l] # Null => next[last[l]] = Null
    BY DEF BothWays
  <2>1. PICK C \in [DlLists -> Seq(Items)] : Shape(C)
    BY DEF ListInv
  <2>2. Contents = C /\ Backward(l) = Reverse(C[l])
    BY <2>1, ListsAreSeen DEF ListInv, Sees
  <2>3. Forward(l) = C[l]
    BY <2>2 DEF Contents
  <2> DEFINE q == C[l]
             n == Len(q)
  <2>4. n \in Nat /\ (q = <<>> <=> n = 0) /\ \A i \in 1 .. n : q[i] # Null
    BY <2>1, ChainItems
  <2>5. IsChain(l, q)
    BY <2>1 DEF Shape
  <2> HIDE DEF q
  <2>6. n # 0 => 1 \in 1 .. n /\ n \in 1 .. n
    BY <2>4
  <2> QED BY <2>2, <2>3, <2>4, <2>5, <2>6 DEF IsChain, q
<1> QED BY <1>1, ListInvHolds, PTL

\* The pointers implement sequences of items: no call of dl_list.h loses an
\* item, takes one into two lists or changes an order.
THEOREM ListsAreSequences == ListSpec => ImplementsLists
<1>1. ListInit => Abstract!Init
  <2> SUFFICES ASSUME ListInit PROVE Contents = [l \in DlLists |-> <<>>]
    BY DEF Abstract!Init, Contents
  <2> DEFINE C == [l \in DlLists |-> <<>>]
  <2>1. C \in [DlLists -> Seq(Items)] /\ \A l \in DlLists : C[l] = <<>> /\ Len(C[l]) = 0
    BY EmptySeq
  <2> HIDE DEF C
  <2>2. Shape(C)
    BY <2>1 DEF ListInit, IsChain, Shape, Disjoint
  <2>3. Sees
    BY ListInvInit, ListsAreSeen DEF ListInv
  <2> QED BY <2>1, <2>2, <2>3 DEF Sees, C
<1>2. ListInv /\ Sees /\ Sees' /\ [ListCalls]_listVars
        => [Abstract!Next]_[l \in DlLists |-> Forward(l)]
  <2> SUFFICES ASSUME ListInv, Sees, Sees', [ListCalls]_listVars
               PROVE  Abstract!Next \/ Contents' = Contents
    BY DEF Contents
  <2>1. PICK C \in [DlLists -> Seq(Items)] : Shape(C)
    BY DEF ListInv
  <2>2. CASE ListCalls
    <3>1. PICK D \in [DlLists -> Seq(Items)] : Shape(D)' /\ Changes(C, D)
      BY <2>1, <2>2, CallsKeepInv DEF ListInv
    <3>2. Contents = C /\ Contents' = D
      BY <2>1, <3>1 DEF Sees
    <3>3. Changes(Contents, Contents')
      BY <3>1, <3>2
    <3>4. ASSUME NEW item \in Items, Outside(Contents, item) PROVE item \in Abstract!Free
      <4>1. \A l \in DlLists : DOMAIN Contents[l] = 1 .. Len(Contents[l])
        BY <2>1, <3>2, ChainItems
      <4> QED BY <3>4, <4>1 DEF Abstract!Free, Abstract!ToSet, Outside, Contents
    <3>5. PICK l \in DlLists :
            \/ \E p \in 1 .. Len(Contents[l]) + 1, item \in Items :
                 /\ Outside(Contents, item)
                 /\ Contents' = [Contents EXCEPT ![l] = InsertAt(Contents[l], p, item)]
            \/ \E p \in 1 .. Len(Contents[l]) :
                 Contents' = [Contents EXCEPT ![l] = RemoveAt(Contents[l], p)]
            \/ \E s \in DlLists \ {l} :
                 Contents' = [Contents EXCEPT ![l] = Contents[l] \o Contents[s], ![s] = <<>>]
      BY <3>3 DEF Changes
    <3>6. ASSUME NEW p \in 1 .. Len(Contents[l]) + 1, NEW item \in Items,
                 Outside(Contents, item),
                 Contents' = [Contents EXCEPT ![l] = InsertAt(Contents[l], p, item)]
          PROVE  Abstract!InsertAtPlace(l, p, item)
      BY <3>4, <3>6 DEF Abstract!InsertAtPlace, Abstract!InsertAt, InsertAt, Contents
    <3>7. ASSUME NEW p \in 1 .. Len(Contents[l]),
                 Contents' = [Contents EXCEPT ![l] = RemoveAt(Contents[l], p)]
          PROVE  Abstract!RemoveItem(l, p)
      BY <3>7 DEF Abstract!RemoveItem, Abstract!RemoveAt, RemoveAt, Contents
    <3>8. ASSUME NEW s \in DlLists \ {l},
                 Contents' = [Contents EXCEPT ![l] = Contents[l] \o Contents[s], ![s] = <<>>]
          PROVE  Abstract!Concatenate(l, s)
      BY <3>8 DEF Abstract!Concatenate, Contents
    <3>9. Abstract!Next
      BY <3>5, <3>6, <3>7, <3>8 DEF Abstract!Next, Contents
    <3> QED BY <3>9
  <2>3. CASE UNCHANGED listVars
    BY <2>3 DEF listVars, Contents, Forward, Walk
  <2> QED BY <2>2, <2>3
<1>3. ListInv => Sees
  BY ListsAreSeen DEF ListInv
<1> QED BY <1>1, <1>2, <1>3, ListInvHolds, PTL DEF ListSpec, ImplementsLists, Abstract!Spec

---------------------------------------------------------------------------
(* The command line.                                                       *)

LEMMA LeastIsIn ==
  ASSUME NEW n \in Nat, NEW S \in SUBSET (1 .. n), S # {}
  PROVE  Min(S) \in S /\ \A y \in S : Min(S) <= y
<1>1. S \subseteq Nat
  OBVIOUS
<1>2. PICK x \in S : \A y \in S : ~(<<y, x>> \in Less)
  BY <1>1, LessIsWellFounded, WFMin
<1>3. ASSUME NEW y \in S PROVE x <= y
  <2>1. <<y, x>> \in Nat \X Nat /\ <<y, x>> \notin Less
    BY <1>1, <1>2
  <2>2. ~(y < x)
    BY <2>1 DEF Less
  <2> QED BY <1>1, <2>2
<1> QED BY <1>3 DEF Min

\* What the loops over the arguments find, and the sets that say it.
LEMMA ShortNames ==
  ASSUME arguments \in Seq(Candidates), NEW n
  PROVE  \/ FindByShortName(n) = 0 /\ NamedShort(n) = {}
         \/ /\ FindByShortName(n) \in 1 .. Len(arguments)
            /\ NamedShort(n) = {arguments[FindByShortName(n)]}
<1> DEFINE I == {j \in 1 .. Len(arguments) : arguments[j].short = n}
<1>1. FindByShortName(n) = IF I # {} THEN Min(I) ELSE 0
  BY DEF FindByShortName, SelectInSeq
<1>2. I # {} => Min(I) \in I
  <2>1. I \in SUBSET (1 .. Len(arguments)) /\ Len(arguments) \in Nat
    OBVIOUS
  <2> HIDE DEF I
  <2> QED BY <2>1, LeastIsIn
<1>3. FindByShortName(n) = 0 \/ FindByShortName(n) \in 1 .. Len(arguments)
  BY <1>1, <1>2
<1> QED BY <1>3 DEF NamedShort

LEMMA AllNames ==
  ASSUME arguments \in Seq(Candidates), NEW word
  PROVE  /\ \/ FindArgument(word) = 0 /\ Named(word) = {}
            \/ /\ FindArgument(word) \in 1 .. Len(arguments)
               /\ Named(word) = {arguments[FindArgument(word)]}
         /\ word.sort = "many" => Named(word) = {}
<1> DEFINE I == {j \in 1 .. Len(arguments) : arguments[j].long = word.names[1]}
           Long == IF I # {} THEN Min(I) ELSE 0
<1>1. Long = 0 \/ Long \in 1 .. Len(arguments)
  <2>1. I \in SUBSET (1 .. Len(arguments)) /\ Len(arguments) \in Nat
    OBVIOUS
  <2>2. I # {} => Min(I) \in I
    <3> HIDE DEF I
    <3> QED BY <2>1, LeastIsIn
  <2> QED BY <2>1, <2>2
<1>2. FindArgument(word) = IF word.sort = "short" THEN FindByShortName(word.names[1])
                           ELSE IF word.sort = "long" THEN Long ELSE 0
  BY DEF FindArgument, SelectInSeq
<1> HIDE DEF Long
<1>3. FindArgument(word) = 0 \/ FindArgument(word) \in 1 .. Len(arguments)
  BY <1>1, <1>2, ShortNames
<1>4. word.sort = "many" => FindArgument(word) = 0
  BY <1>2
<1> QED BY <1>3, <1>4 DEF Named

\* A word is the value of the one before it if that is not itself a value.
TakesValue(k) == \E a \in Named(argv[k]) : a.multiplier = "1"

LEMMA RolesFollow ==
  ASSUME argv \in Seq(Words)
  PROVE  /\ Len(argv) # 0 => ~IsValueOf(1)
         /\ \A k \in 2 .. Len(argv) : IsValueOf(k) <=> ~IsValueOf(k - 1) /\ TakesValue(k - 1)
<1> DEFINE N == Len(argv)
           Roles == {"name", "value"}
           T == {k \in 1 .. N : TakesValue(k)}
           g == [p \in (1 .. N) \X Roles |->
                   IF p[1] > 1 /\ p[2] = "name" /\ p[1] - 1 \in T THEN "value" ELSE "name"]
           Unrolled(f) == f = [m \in 0 .. N |->
             IF m > 1 /\ f[m - 1] = "name" /\ \E a \in Named(argv[m - 1]) : a.multiplier = "1"
             THEN "value" ELSE "name"]
<1>1. N \in Nat
  OBVIOUS
<1>2. g \in [(1 .. N) \X Roles -> Roles]
  OBVIOUS
<1>3. \A m \in 1 .. N, x \in Roles :
        g[<<m, x>>] = IF m > 1 /\ x = "name" /\ m - 1 \in T THEN "value" ELSE "name"
  OBVIOUS
<1>4. \A m \in 2 .. N : m - 1 \in T <=> \E a \in Named(argv[m - 1]) : a.multiplier = "1"
  BY <1>1 DEF TakesValue
<1>5. PICK f : Loop(f, Roles, "name", g, N)
  <2>1. "name" \in Roles
    OBVIOUS
  <2> HIDE DEF g, N, Roles
  <2> QED BY <1>1, <1>2, <2>1, RecursionExists
<1>6. Unrolled(f)
  <2> HIDE DEF g, N, T
  <2>1. f \in [0 .. N -> Roles] /\ f[0] = "name" /\ \A m \in 1 .. N : f[m] = g[<<m, f[m - 1]>>]
    BY <1>5 DEF Loop
  <2>2. ASSUME NEW m \in 0 .. N
        PROVE  f[m] = IF m > 1 /\ f[m - 1] = "name"
                         /\ \E a \in Named(argv[m - 1]) : a.multiplier = "1"
                      THEN "value" ELSE "name"
    <3>1. CASE m = 0
      BY <2>1, <3>1
    <3>2. CASE m # 0
      <4>1. m \in 1 .. N /\ m - 1 \in 0 .. N /\ (m > 1 => m \in 2 .. N)
        BY <1>1, <3>2
      <4>2. f[m] = g[<<m, f[m - 1]>>] /\ f[m - 1] \in Roles
        BY <2>1, <4>1
      <4>3. f[m] = IF m > 1 /\ f[m - 1] = "name" /\ m - 1 \in T THEN "value" ELSE "name"
        BY <1>3, <4>1, <4>2
      <4> QED BY <1>4, <4>1, <4>3
    <3> QED BY <3>1, <3>2
  <2> QED BY <2>1, <2>2
<1> DEFINE r == CHOOSE h : Unrolled(h)
<1>7. Unrolled(r)
  <2> HIDE DEF Unrolled
  <2> QED BY <1>6
<1>8. \A k : IsValueOf(k) <=> r[k] = "value"
  BY DEF IsValueOf
<1> HIDE DEF r
<1>9. \A m \in 0 .. N :
        r[m] = IF m > 1 /\ r[m - 1] = "name" /\ \E a \in Named(argv[m - 1]) : a.multiplier = "1"
               THEN "value" ELSE "name"
  BY <1>7
<1> HIDE DEF Unrolled, N
<1>10. N # 0 => r[1] = "name"
  BY <1>1, <1>9
<1>11. ASSUME NEW k \in 2 .. N
       PROVE  IsValueOf(k) <=> ~IsValueOf(k - 1) /\ TakesValue(k - 1)
  <2>1. k \in 0 .. N /\ k - 1 \in 0 .. N /\ k > 1
    BY <1>1
  <2>2. r[k] = IF r[k - 1] = "name" /\ TakesValue(k - 1) THEN "value" ELSE "name"
    BY <1>9, <2>1 DEF TakesValue
  <2>3. r[k - 1] = "name" \/ r[k - 1] = "value"
    BY <1>9, <2>1
  <2> QED BY <1>8, <2>2, <2>3
<1> QED BY <1>8, <1>10, <1>11 DEF N

\* What the words say depends on the arguments and the line alone.
LEMMA SameNames ==
  ASSUME arguments' = arguments
  PROVE  /\ \A n : FindByShortName(n)' = FindByShortName(n) /\ NamedShort(n)' = NamedShort(n)
         /\ \A word : FindArgument(word)' = FindArgument(word) /\ Named(word)' = Named(word)
<1>1. \A n : FindByShortName(n)' = FindByShortName(n)
  BY DEF FindByShortName, SelectInSeq
<1>2. \A word : FindArgument(word)' = FindArgument(word)
  BY <1>1 DEF FindArgument, SelectInSeq
<1> QED BY <1>1, <1>2 DEF NamedShort, Named

LEMMA SameRoles ==
  ASSUME arguments' = arguments, argv' = argv, argv \in Seq(Words)
  PROVE  \A k \in 1 .. Len(argv) : IsValueOf(k)' <=> IsValueOf(k)
<1>1. /\ Len(argv) # 0 => ~IsValueOf(1)
      /\ \A k \in 2 .. Len(argv) : IsValueOf(k) <=> ~IsValueOf(k - 1) /\ TakesValue(k - 1)
  BY RolesFollow
<1>2. (argv \in Seq(Words) =>
         /\ Len(argv) # 0 => ~IsValueOf(1)
         /\ \A k \in 2 .. Len(argv) : IsValueOf(k) <=> ~IsValueOf(k - 1) /\ TakesValue(k - 1))'
  BY RolesFollow, PTL
<1>3. \A k : TakesValue(k)' <=> TakesValue(k)
  BY SameNames DEF TakesValue
<1>4. /\ Len(argv) # 0 => ~IsValueOf(1)'
      /\ \A k \in 2 .. Len(argv) : IsValueOf(k)' <=> ~IsValueOf(k - 1)' /\ TakesValue(k - 1)
  BY <1>2, <1>3
<1> DEFINE S == {k \in Nat : k \in 1 .. Len(argv) => (IsValueOf(k)' <=> IsValueOf(k))}
<1>5. 0 \in S
  OBVIOUS
<1>6. ASSUME NEW k \in Nat, k \in S PROVE k + 1 \in S
  <2> SUFFICES ASSUME k + 1 \in 1 .. Len(argv) PROVE IsValueOf(k + 1)' <=> IsValueOf(k + 1)
    OBVIOUS
  <2>1. Len(argv) \in Nat
    OBVIOUS
  <2>2. CASE k = 0
    BY <1>1, <1>4, <2>1, <2>2
  <2>3. CASE k # 0
    <3>1. k + 1 \in 2 .. Len(argv) /\ k \in 1 .. Len(argv) /\ k + 1 - 1 = k
      BY <2>1, <2>3
    <3>2. IsValueOf(k)' <=> IsValueOf(k)
      BY <1>6, <3>1
    <3> QED BY <1>1, <1>4, <3>1, <3>2
  <2> QED BY <2>2, <2>3
<1>7. Nat \subseteq S
  <2> HIDE DEF S
  <2> QED BY <1>5, <1>6, NatSetInduction
<1> QED BY <1>7

LEMMA SameLine ==
  ASSUME arguments' = arguments, argv' = argv, argv \in Seq(Words)
  PROVE  /\ Regular' <=> Regular
         /\ \A k \in 1 .. Len(argv) : Legal(k)' <=> Legal(k)
         /\ \A a : Setting(a)' = Setting(a)
<1>1. DOMAIN argv = 1 .. Len(argv) /\ Len(argv) \in Nat
  OBVIOUS
<1>2. /\ \A k \in DOMAIN argv : IsValueOf(k)' <=> IsValueOf(k)
      /\ \A word : Named(word)' = Named(word)
      /\ \A n : NamedShort(n)' = NamedShort(n)
  BY <1>1, SameRoles, SameNames
<1>3. Regular' <=> Regular
  BY <1>2 DEF Regular
<1>4. \A k \in DOMAIN argv : Legal(k)' <=> Legal(k)
  BY <1>2 DEF Legal, Number
<1>5. \A a : Setting(a)' = Setting(a)
  BY <1>2 DEF Setting
<1> QED BY <1>1, <1>3, <1>4, <1>5

\* What an argument is after the words of S have set it.
Unset(args, a) == IF a.parse = "flag" /\ Contains(args, a) THEN 0 ELSE Junk
Means(args, line, a, S) ==
  IF S = {} THEN Unset(args, a)
  ELSE IF a.multiplier = "0" THEN 1
  ELSE Number(line[CHOOSE k \in S : \A m \in S : m <= k])
MeantBy(a, S) == Means(arguments, argv, a, S)
SetBefore(a, k) == {m \in Setting(a) : m < k}

\* While a regular line is parsed the next word is no value, and those before
\* it are legal and have set what they mean.
MeantBefore(k) ==
  /\ \A m \in 1 .. Len(argv) : m < k => Legal(m)
  /\ \A a \in Candidates : data[a] = MeantBy(a, SetBefore(a, k))

ArgInv ==
  /\ arguments \in Seq(Candidates) /\ argv \in Lines \cup {<<>>}
  /\ data = [a \in Candidates |-> data[a]] /\ at \in Nat
  /\ at = 0 => /\ argv = <<>> /\ result = "none"
               /\ \A a \in Candidates : data[a] = Unset(arguments, a)
  /\ Parsing => at \in 1 .. Len(argv) /\ (Regular => ~IsValueOf(at) /\ MeantBefore(at))
  /\ RegularLinesAreMeant

LEMMA LineIsWords ==
  ASSUME argv \in Lines \cup {<<>>}
  PROVE  argv \in Seq(Words) /\ Len(argv) \in Nat /\ DOMAIN argv = 1 .. Len(argv)
<1>1. argv \in Seq(Words)
  <2>1. Lines \subseteq Seq(Words)
    BY ArgAssumption
  <2>2. argv \in Lines \/ argv = <<>>
    OBVIOUS
  <2>3. <<>> \in Seq(Words)
    OBVIOUS
  <2> QED BY ONLY <2>1, <2>2, <2>3
<1> QED BY <1>1

\* After the last word the meaning is that of the line.
LEMMA MeantAtTheEnd ==
  ASSUME argv \in Seq(Words), NEW k \in Nat, k > Len(argv), NEW a
  PROVE  MeantBy(a, SetBefore(a, k)) = Meant(a)
<1>1. SetBefore(a, k) = Setting(a)
  BY DEF SetBefore, Setting
<1> QED BY <1>1 DEF MeantBy, Means, Meant, Unset

\* A round of the loop leaves the arguments and the line, and stops or goes on.
StepTyped ==
  /\ arguments' = arguments /\ argv' = argv
  /\ data' = [a \in Candidates |-> data'[a]] /\ at' \in Nat \ {0}
  /\ Parsing' => at' \in 1 .. Len(argv)

LEMMA LineOfInv ==
  ASSUME ArgInv
  PROVE  /\ argv \in Seq(Words) /\ Len(argv) \in Nat /\ DOMAIN argv = 1 .. Len(argv)
         /\ Parsing => at \in 1 .. Len(argv) /\ argv[at] \in Words
<1>1. argv \in Seq(Words) /\ Len(argv) \in Nat /\ DOMAIN argv = 1 .. Len(argv)
  BY LineIsWords DEF ArgInv
<1>2. Parsing => at \in 1 .. Len(argv)
  BY DEF ArgInv
<1>3. \A k \in 1 .. Len(argv) : argv[k] \in Words
  BY <1>1, ElementOfSeq
<1> QED BY <1>1, <1>2, <1>3

LEMMA StepKeepsLine ==
  ASSUME ArgInv, StepTyped
  PROVE  /\ arguments' \in Seq(Candidates) /\ argv' \in Lines \cup {<<>>} /\ at' \in Nat \ {0}
         /\ data' = [a \in Candidates |-> data'[a]]
         /\ Parsing' => at' \in 1 .. Len(argv')
         /\ Regular' <=> Regular
         /\ \A k \in 1 .. Len(argv) : Legal(k)' <=> Legal(k)
         /\ \A k \in 1 .. Len(argv) : IsValueOf(k)' <=> IsValueOf(k)
         /\ \A a : Setting(a)' = Setting(a)
<1>1. arguments' = arguments /\ argv' = argv /\ argv \in Seq(Words)
  BY LineOfInv DEF StepTyped
<1>2. /\ Regular' <=> Regular
      /\ \A k \in 1 .. Len(argv) : Legal(k)' <=> Legal(k)
      /\ \A a : Setting(a)' = Setting(a)
  BY <1>1, SameLine
<1>3. \A k \in 1 .. Len(argv) : IsValueOf(k)' <=> IsValueOf(k)
  BY <1>1, SameRoles
<1> QED BY <1>1, <1>2, <1>3 DEF StepTyped, ArgInv

\* Nothing is promised of a line that is not regular.
LEMMA Irregular ==
  ASSUME ArgInv, Parsing, ~Regular, StepTyped
  PROVE  ArgInv'
  BY StepKeepsLine DEF ArgInv, RegularLinesAreMeant

\* An error answers a word that is not legal.
LEMMA Refused ==
  ASSUME ArgInv, Parsing, StepTyped, NEW m \in 1 .. Len(argv), ~Legal(m), result' \notin {"ok", "none"}
  PROVE  ArgInv'
<1>1. ~Legal(m)' /\ m \in DOMAIN argv'
  <2>1. argv' = argv /\ DOMAIN argv = 1 .. Len(argv)
    BY LineOfInv DEF StepTyped
  <2> QED BY <2>1, StepKeepsLine
<1>2. AsMeant'
  BY <1>1 DEF AsMeant
<1>3. ~Parsing'
  BY DEF Parsing
<1> QED BY <1>2, <1>3, StepKeepsLine DEF ArgInv, RegularLinesAreMeant

\* The words before k are legal and have set what they mean.
LEMMA Advanced ==
  ASSUME ArgInv, Parsing, StepTyped, NEW k \in Nat,
         \A m \in 1 .. Len(argv) : m < k => Legal(m),
         \A a \in Candidates : data'[a] = MeantBy(a, SetBefore(a, k)),
         k \in 1 .. Len(argv) => ~IsValueOf(k),
         at' = k, result' = IF k > Len(argv) THEN "ok" ELSE "none"
  PROVE  ArgInv'
<1>1. argv \in Seq(Words) /\ Len(argv) \in Nat /\ DOMAIN argv = 1 .. Len(argv)
  BY LineOfInv
<1>2. /\ arguments' = arguments /\ argv' = argv
      /\ \A a : Setting(a)' = Setting(a)
      /\ \A m \in 1 .. Len(argv) : Legal(m)' <=> Legal(m)
  BY StepKeepsLine DEF StepTyped
<1>3. CASE k > Len(argv)
  <2>1. \A m \in DOMAIN argv : Legal(m)
    BY <1>1, <1>3
  <2>2. ASSUME NEW a \in Candidates PROVE data'[a] = Meant(a)
    <3>1. MeantBy(a, SetBefore(a, k)) = Meant(a)
      BY <1>1, <1>3, MeantAtTheEnd
    <3> QED BY <3>1
  <2>3. \A a : Meant(a)' = Meant(a)
    <3>1. \A a : Meant(a) = Means(arguments, argv, a, Setting(a))
      BY DEF Meant, Means, Unset
    <3>2. \A a : Meant(a)' = Means(arguments', argv', a, Setting(a)')
      BY DEF Meant, Means, Unset
    <3> QED BY <1>2, <3>1, <3>2
  <2>4. AsMeant'
    BY <1>1, <1>2, <1>3, <2>1, <2>2, <2>3 DEF AsMeant
  <2>5. ~Parsing'
    BY <1>3 DEF Parsing
  <2> QED BY <2>4, <2>5, StepKeepsLine DEF ArgInv, RegularLinesAreMeant
<1>4. CASE ~(k > Len(argv))
  <2>1. at' = k /\ result' = "none" /\ at' # 0
    BY <1>4 DEF StepTyped
  <2>2. k \in 1 .. Len(argv)
    BY <1>1, <1>4, <2>1
  <2>3. ~IsValueOf(at)'
    BY <2>1, <2>2, StepKeepsLine
  <2>4. \A a : MeantBy(a, SetBefore(a, at))' = MeantBy(a, SetBefore(a, k))
    BY <1>2, <2>1 DEF MeantBy, SetBefore
  <2>5. MeantBefore(at)'
    BY <1>1, <1>2, <2>1, <2>4 DEF MeantBefore
  <2>6. RegularLinesAreMeant'
    BY <2>1 DEF RegularLinesAreMeant, Finished
  <2> QED BY <2>1, <2>3, <2>5, <2>6, StepKeepsLine DEF ArgInv
<1> QED BY <1>3, <1>4

---------------------------------------------------------------------------
(* The words that set an argument.                                         *)

LEMMA SetAt ==
  ASSUME argv \in Seq(Words), NEW a, NEW k \in Nat
  PROVE  /\ k \in Setting(a) => SetBefore(a, k + 1) = SetBefore(a, k) \cup {k}
         /\ k \notin Setting(a) => SetBefore(a, k + 1) = SetBefore(a, k)
<1>1. Setting(a) \subseteq Nat
  BY DEF Setting
<1>2. \A m \in Nat : m < k + 1 <=> m < k \/ m = k
  OBVIOUS
<1> QED BY <1>1, <1>2 DEF SetBefore

\* The last word counts.
LEMMA MeantNow ==
  ASSUME argv \in Seq(Words), NEW a, NEW k \in Nat, k \in Setting(a)
  PROVE  MeantBy(a, SetBefore(a, k + 1)) = IF a.multiplier = "0" THEN 1 ELSE Number(argv[k])
<1> DEFINE S == SetBefore(a, k + 1)
<1>1. S \subseteq Nat /\ k \in S /\ \A m \in S : m <= k
  <2>1. Setting(a) \subseteq Nat
    BY DEF Setting
  <2>2. \A m \in Nat : m < k + 1 <=> m <= k
    OBVIOUS
  <2> QED BY <2>1, <2>2 DEF SetBefore
<1> HIDE DEF S
<1>2. (CHOOSE x \in S : \A m \in S : m <= x) = k
  <2> DEFINE P(x) == \A m \in S : m <= x
  <2>1. \A x \in S : P(x) => x = k
    BY <1>1
  <2>2. P(k)
    BY <1>1
  <2> HIDE DEF P
  <2>3. (CHOOSE x \in S : P(x)) = k
    BY <1>1, <2>1, <2>2
  <2> QED BY <2>3 DEF P
<1> QED BY <1>1, <1>2 DEF MeantBy, Means, S

---------------------------------------------------------------------------
(* The loop goes on behind what it has used, or stops.                     *)

LEMMA DataIsAFunction ==
  ASSUME ArgInv, NEW a, NEW x
  PROVE  LET d == [data EXCEPT ![a] = x] IN d = [b \in Candidates |-> d[b]]
<1> DEFINE d == [data EXCEPT ![a] = x]
<1>1. data = [b \in Candidates |-> data[b]]
  BY DEF ArgInv
<1>2. DOMAIN data = Candidates
  BY <1>1
<1>3. d = [b \in DOMAIN data |-> d[b]]
  OBVIOUS
<1> HIDE DEF d
<1>4. d = [b \in Candidates |-> d[b]]
  BY <1>2, <1>3
<1> QED BY <1>4 DEF d

LEMMA ContinueIsTyped ==
  ASSUME ArgInv, Parsing, NEW k \in Nat \ {0}, Continue(k), data' = [a \in Candidates |-> data'[a]]
  PROVE  StepTyped
<1>1. at' = k /\ argv' = argv /\ arguments' = arguments /\ Len(argv) \in Nat
  BY LineOfInv DEF Continue
<1>2. ASSUME Parsing' PROVE k \in 1 .. Len(argv)
  <2>1. ~(k > Len(argv))
    BY <1>2 DEF Continue, Parsing
  <2> QED BY <1>1, <2>1
<1> QED BY <1>1, <1>2 DEF StepTyped

LEMMA ReturnIsTyped ==
  ASSUME ArgInv, Parsing, NEW r, r # "none", Return(r)
  PROVE  StepTyped
<1>1. ~Parsing' /\ argv' = argv /\ arguments' = arguments /\ data' = data /\ at' = at
  BY DEF Return, Parsing
<1>2. at \in Nat \ {0} /\ data = [a \in Candidates |-> data[a]]
  BY DEF ArgInv, Parsing
<1> QED BY <1>1, <1>2 DEF StepTyped

LEMMA Answers ==
  ASSUME NEW a, NEW values
  PROVE  Answer(a, values) \in {"ok", "setup error", "invalid argument", "overflow"}
  BY DEF Answer

LEMMA StoreIsTyped ==
  ASSUME ArgInv, Parsing, NEW a, NEW values, NEW k \in Nat \ {0}, Store(a, values, k)
  PROVE  StepTyped
<1>1. CASE Answer(a, values) = "ok"
  <2>1. data' = [data EXCEPT ![a] = Stored(a, values)] /\ Continue(k)
    BY <1>1 DEF Store
  <2>2. data' = [b \in Candidates |-> data'[b]]
    BY <2>1, DataIsAFunction
  <2> QED BY <2>1, <2>2, ContinueIsTyped
<1>2. CASE Answer(a, values) # "ok"
  <2>1. Return(Answer(a, values)) /\ Answer(a, values) # "none"
    BY <1>2, Answers DEF Store
  <2> QED BY <2>1, ReturnIsTyped
<1> QED BY <1>1, <1>2

LEMMA FirstOf ==
  ASSUME NEW n \in Nat, NEW S \in SUBSET (1 .. n)
  PROVE  LET k == IF S # {} THEN Min(S) ELSE 0 IN (k = 0 /\ S = {}) \/ k \in S
  BY LeastIsIn

LEMMA ValuesAreSome ==
  ASSUME ArgInv, Parsing
  PROVE  Len(Varargs(at + 1)) \in Nat
<1> DEFINE n == Len(argv)
           rest == SubSeq(argv, at + 1, n)
           I == {j \in 1 .. Len(rest) : StartsWithDash(rest[j])}
           stop == IF I # {} THEN Min(I) ELSE 0
<1>1. argv \in Seq(Words) /\ n \in Nat /\ at + 1 \in 1 .. n + 1
  BY LineOfInv
<1>2. rest \in Seq(Words)
  <2>1. at + 1 \in 1 .. Len(argv) + 1
    BY <1>1
  <2> QED BY <1>1, <2>1, SuffixFacts
<1>3. SelectInSeq(rest, StartsWithDash) = stop
  BY DEF SelectInSeq
<1>4. Varargs(at + 1) = IF stop = 0 THEN rest ELSE SubSeq(rest, 1, stop - 1)
  BY <1>3 DEF Varargs
<1> HIDE DEF rest
<1>5. stop = 0 \/ stop \in 1 .. Len(rest)
  <2>1. Len(rest) \in Nat /\ I \in SUBSET (1 .. Len(rest))
    BY <1>2
  <2> HIDE DEF I
  <2> QED BY <2>1, FirstOf
<1> HIDE DEF stop
<1>6. CASE stop = 0
  BY <1>2, <1>4, <1>6
<1>7. CASE stop # 0
  <2>1. stop \in 1 .. Len(rest) + 1 /\ stop - 1 \in Nat
    BY <1>2, <1>5, <1>7
  <2>2. Len(SubSeq(rest, 1, stop - 1)) = stop - 1
    BY <1>2, <2>1, PrefixFacts
  <2> QED BY <1>4, <1>7, <2>1, <2>2
<1> QED BY <1>6, <1>7

LEMMA ArgumentIsTyped ==
  ASSUME ArgInv, NextArgument
  PROVE  StepTyped
<1>1. Parsing /\ at \in Nat /\ Len(Varargs(at + 1)) \in Nat
  BY ValuesAreSome DEF ArgInv, NextArgument
<1> DEFINE v == Varargs(at + 1)
           n == at + 2 + Len(v)
<1>2. at + 2 \in Nat \ {0} /\ n \in Nat \ {0}
  BY <1>1
<1>3. CASE FindArgument(argv[at]) = 0
  <2>1. Return("invalid argument")
    BY <1>3 DEF NextArgument
  <2> QED BY <1>1, <2>1, ReturnIsTyped
<1>4. CASE FindArgument(argv[at]) # 0
  <2> DEFINE a == arguments[FindArgument(argv[at])]
  <2>1. ParseArg(a)
    BY <1>4 DEF NextArgument
  <2>2. \/ Store(a, <<>>, at + 2) \/ Store(a, <<argv[at + 1]>>, at + 2)
        \/ Store(a, v, n) \/ Return("missing value")
    <3> HIDE DEF a
    <3> QED BY <2>1 DEF ParseArg
  <2> HIDE DEF a, v, n
  <2>3. CASE Store(a, <<>>, at + 2)
    BY <1>1, <1>2, <2>3, StoreIsTyped
  <2>4. CASE Store(a, <<argv[at + 1]>>, at + 2)
    BY <1>1, <1>2, <2>4, StoreIsTyped
  <2>5. CASE Store(a, v, n)
    BY <1>1, <1>2, <2>5, StoreIsTyped
  <2>6. CASE Return("missing value")
    BY <1>1, <2>6, ReturnIsTyped
  <2> QED BY <2>2, <2>3, <2>4, <2>5, <2>6
<1> QED BY <1>3, <1>4

---------------------------------------------------------------------------
(* A regular line means what it sets.                                      *)

\* A flag is the last word.
LEMMA FlagIsMeant ==
  ASSUME ArgInv, Parsing, Regular, StepTyped, argv[at].sort # "many",
         NEW a \in Candidates, Named(argv[at]) = {a}, a.multiplier = "0", at = Len(argv),
         Store(a, <<>>, at + 2)
  PROVE  ArgInv'
<1>1. /\ argv \in Seq(Words) /\ at \in Nat /\ at \in 1 .. Len(argv) /\ Len(argv) \in Nat
      /\ DOMAIN argv = 1 .. Len(argv)
  BY LineOfInv DEF ArgInv
<1>2. ~IsValueOf(at) /\ MeantBefore(at)
  BY DEF ArgInv
<1>3. a.parse = "flag"
  BY ArgAssumption
<1>4. data' = [data EXCEPT ![a] = 1] /\ Continue(at + 2)
  BY <1>3 DEF Store, Answer, Stored
<1>5. Legal(at)
  BY <1>2 DEF Legal
<1>6. \A b : at \in Setting(b) <=> b = a
  <2>1. \A b : at \in Setting(b) <=> b.multiplier = "0" /\ b \in Named(argv[at])
    BY <1>1, <1>2 DEF Setting
  <2> QED BY <2>1
<1>7. \A b : at + 1 \notin Setting(b)
  BY <1>1 DEF Setting
<1>8. ASSUME NEW b \in Candidates PROVE data'[b] = MeantBy(b, SetBefore(b, at + 2))
  <2>1. SetBefore(b, at + 2) = SetBefore(b, at + 1)
    <3>1. at + 1 \in Nat /\ (at + 1) + 1 = at + 2
      BY <1>1
    <3>2. SetBefore(b, (at + 1) + 1) = SetBefore(b, at + 1)
      BY <1>1, <1>7, <3>1, SetAt
    <3> QED BY <3>1, <3>2
  <2>2. DOMAIN data = Candidates
    <3>1. data = [c \in Candidates |-> data[c]]
      BY DEF ArgInv
    <3> QED BY <3>1
  <2>3. CASE b = a
    <3>1. MeantBy(b, SetBefore(b, at + 1)) = 1
      BY <1>1, <1>6, <2>3, MeantNow
    <3> QED BY <1>4, <2>1, <2>2, <2>3, <3>1
  <2>4. CASE b # a
    <3>1. SetBefore(b, at + 1) = SetBefore(b, at)
      BY <1>1, <1>6, <2>4, SetAt
    <3>2. data[b] = MeantBy(b, SetBefore(b, at))
      BY <1>2 DEF MeantBefore
    <3> QED BY <1>4, <2>1, <2>2, <2>4, <3>1, <3>2
  <2> QED BY <2>3, <2>4
<1>9. \A m \in 1 .. Len(argv) : m < at + 2 => Legal(m)
  <2>1. \A m \in 1 .. Len(argv) : m = at \/ m < at
    BY <1>1
  <2> QED BY <1>2, <1>5, <2>1 DEF MeantBefore
<1>10. at' = at + 2 /\ result' = IF at + 2 > Len(argv) THEN "ok" ELSE "none"
  BY <1>4 DEF Continue
<1>11. at + 2 \in Nat /\ ~(at + 2 \in 1 .. Len(argv))
  BY <1>1
<1> QED BY <1>8, <1>9, <1>10, <1>11, Advanced

\* An argument takes the word behind it.
LEMMA ValueIsMeant ==
  ASSUME ArgInv, Parsing, Regular, StepTyped, argv[at].sort # "many",
         NEW a \in Candidates, Named(argv[at]) = {a}, a.multiplier = "1", a.parse # "size",
         at < Len(argv), Store(a, <<argv[at + 1]>>, at + 2)
  PROVE  ArgInv'
<1> DEFINE word == argv[at + 1]
<1>1. /\ argv \in Seq(Words) /\ at \in Nat /\ at \in 1 .. Len(argv) /\ Len(argv) \in Nat
      /\ DOMAIN argv = 1 .. Len(argv) /\ at + 1 \in 1 .. Len(argv) /\ at + 1 \in 2 .. Len(argv)
      /\ (at + 1) - 1 = at /\ (at + 1) + 1 = at + 2
  BY LineOfInv DEF ArgInv
<1>2. ~IsValueOf(at) /\ MeantBefore(at)
  BY DEF ArgInv
<1>3. a.parse # "flag"
  BY ArgAssumption
<1>4. TakesValue(at) /\ IsValueOf(at + 1)
  <2>1. TakesValue(at)
    BY DEF TakesValue
  <2>2. IsValueOf(at + 1) <=> ~IsValueOf(at) /\ TakesValue(at)
    BY <1>1, RolesFollow
  <2> QED BY <1>2, <2>1, <2>2
<1>5. word \in Words /\ Number(word) \in Int \cup {Junk}
  <2>1. word \in Words
    BY <1>1, ElementOfSeq
  <2> QED BY <2>1 DEF Words, Number
<1>6. Legal(at)
  BY <1>1, <1>2 DEF Legal
<1>7. Answer(a, <<word>>) = "ok" <=> Legal(at + 1)
  <2>1. Legal(at + 1) <=> Number(word) # Junk /\ (a.parse = "int" => Number(word) \in IntMin .. IntMax)
    BY <1>1, <1>4 DEF Legal
  <2>2. Answer(a, <<word>>) = "ok" <=> Number(word) # Junk /\ Fits(a.parse, Number(word))
    <3>1. Len(<<word>>) = 1 /\ <<word>>[1] = word
      OBVIOUS
    <3> QED BY <1>3, <3>1 DEF Answer
  <2>3. Number(word) # Junk =>
          (Fits(a.parse, Number(word)) <=> (a.parse = "int" => Number(word) \in IntMin .. IntMax))
    <3>1. IntMin \in Int /\ IntMax \in Int
      BY ArgAssumption
    <3> QED BY <1>5, <3>1 DEF Fits
  <2> QED BY <2>1, <2>2, <2>3
<1>8. CASE ~Legal(at + 1)
  <2>1. Return(Answer(a, <<word>>))
    BY <1>7, <1>8 DEF Store
  <2>2. result' \notin {"ok", "none"}
    BY <1>7, <1>8, <2>1, Answers DEF Return
  <2> QED BY <1>1, <1>8, <2>2, Refused
<1>9. CASE Legal(at + 1)
  <2>1. data' = [data EXCEPT ![a] = Number(word)] /\ Continue(at + 2)
    <3>1. <<word>>[1] = word
      OBVIOUS
    <3> QED BY <1>3, <1>7, <1>9, <3>1 DEF Store, Stored
  <2>2. \A b : at \notin Setting(b)
    <3>1. \A b : at \in Setting(b) <=> b.multiplier = "0" /\ b \in Named(argv[at])
      BY <1>1, <1>2 DEF Setting
    <3> QED BY <3>1
  <2>3. \A b : at + 1 \in Setting(b) <=> b = a
    <3>1. \A b : at + 1 \in Setting(b) <=> b \in Named(argv[at])
      BY <1>1, <1>4 DEF Setting
    <3> QED BY <3>1
  <2>4. ASSUME NEW b \in Candidates PROVE data'[b] = MeantBy(b, SetBefore(b, at + 2))
    <3>1. SetBefore(b, at + 1) = SetBefore(b, at)
      BY <1>1, <2>2, SetAt
    <3>2. DOMAIN data = Candidates
      <4>1. data = [c \in Candidates |-> data[c]]
        BY DEF ArgInv
      <4> QED BY <4>1
    <3>3. CASE b = a
      <4>1. at + 1 \in Nat /\ at + 1 \in Setting(b) /\ b.multiplier # "0"
        BY <1>1, <2>3, <3>3
      <4>2. MeantBy(b, SetBefore(b, (at + 1) + 1)) = Number(argv[at + 1])
        BY <1>1, <4>1, MeantNow
      <4>3. data'[b] = Number(word)
        BY <2>1, <3>2, <3>3
      <4> QED BY <1>1, <4>2, <4>3
    <3>4. CASE b # a
      <4>1. at + 1 \in Nat /\ at + 1 \notin Setting(b)
        BY <1>1, <2>3, <3>4
      <4>2. SetBefore(b, (at + 1) + 1) = SetBefore(b, at + 1)
        BY <1>1, <4>1, SetAt
      <4>3. data'[b] = data[b]
        BY <2>1, <3>2, <3>4
      <4>4. data[b] = MeantBy(b, SetBefore(b, at))
        BY <1>2 DEF MeantBefore
      <4> QED BY <1>1, <3>1, <4>2, <4>3, <4>4
    <3> QED BY <3>3, <3>4
  <2>5. \A m \in 1 .. Len(argv) : m < at + 2 => Legal(m)
    <3>1. \A m \in 1 .. Len(argv) : m < at + 2 => m = at \/ m = at + 1 \/ m < at
      BY <1>1
    <3> QED BY <1>2, <1>6, <1>9, <3>1 DEF MeantBefore
  <2>6. at' = at + 2 /\ result' = IF at + 2 > Len(argv) THEN "ok" ELSE "none"
    BY <2>1 DEF Continue
  <2>7. at + 2 \in Nat /\ (at + 2 \in 1 .. Len(argv) => ~IsValueOf(at + 2))
    <3>1. ASSUME at + 2 \in 1 .. Len(argv) PROVE ~IsValueOf(at + 2)
      <4>1. at + 2 \in 2 .. Len(argv) /\ (at + 2) - 1 = at + 1
        BY <1>1, <3>1
      <4>2. IsValueOf(at + 2) <=> ~IsValueOf((at + 2) - 1) /\ TakesValue((at + 2) - 1)
        BY <1>1, <4>1, RolesFollow
      <4> QED BY <1>4, <4>1, <4>2
    <3> QED BY <1>1, <3>1
  <2> QED BY <2>4, <2>5, <2>6, <2>7, Advanced
<1> QED BY <1>8, <1>9

LEMMA ArgumentIsMeant ==
  ASSUME ArgInv, Parsing, Regular, NextArgument
  PROVE  ArgInv'
<1>1. /\ StepTyped /\ at \in 1 .. Len(argv) /\ DOMAIN argv = 1 .. Len(argv) /\ Len(argv) \in Nat
      /\ argv[at].sort # "many" /\ ~IsValueOf(at)
  BY ArgumentIsTyped, LineOfInv DEF NextArgument, ArgInv
<1>2. CASE FindArgument(argv[at]) = 0
  <2>1. arguments \in Seq(Candidates)
    BY DEF ArgInv
  <2>2. Named(argv[at]) = {}
    BY <1>2 DEF Named
  <2>3. ~Legal(at)
    BY <1>1, <2>2 DEF Legal
  <2>4. result' = "invalid argument"
    BY <1>2 DEF NextArgument, Return
  <2> QED BY <1>1, <2>3, <2>4, Refused
<1>3. CASE FindArgument(argv[at]) # 0
  <2>1. PICK n \in 1 .. Len(arguments) : FindArgument(argv[at]) = n /\ Named(argv[at]) = {arguments[n]}
    <3>1. arguments \in Seq(Candidates)
      BY DEF ArgInv
    <3> QED BY <1>3, <3>1, AllNames
  <2> DEFINE a == arguments[n]
  <2>2. a \in Candidates /\ Named(argv[at]) = {a} /\ ParseArg(a)
    <3>1. arguments \in Seq(Candidates)
      BY DEF ArgInv
    <3>2. a \in Candidates
      BY <3>1, ElementOfSeq
    <3> QED BY <1>3, <2>1, <3>2 DEF NextArgument
  <2> HIDE DEF a
  <2>3. a.parse # "size" /\ (a.multiplier = "1" \/ (a.multiplier = "0" /\ at = Len(argv)))
    BY <1>1, <2>2 DEF Regular
  <2>4. CASE a.multiplier = "0"
    <3>1. Store(a, <<>>, at + 2) /\ at = Len(argv)
      BY <2>2, <2>3, <2>4 DEF ParseArg
    <3> QED BY <1>1, <2>2, <2>4, <3>1, FlagIsMeant
  <2>5. CASE a.multiplier = "1" /\ at < Len(argv)
    <3>1. Store(a, <<argv[at + 1]>>, at + 2)
      BY <2>2, <2>5 DEF ParseArg
    <3> QED BY <1>1, <2>2, <2>3, <2>5, <3>1, ValueIsMeant
  <2>6. CASE a.multiplier = "1" /\ ~(at < Len(argv))
    <3>1. result' = "missing value"
      BY <2>2, <2>6 DEF ParseArg, Return
    <3>2. ~Legal(at)
      BY <1>1, <2>2, <2>6 DEF Legal
    <3> QED BY <1>1, <3>1, <3>2, Refused
  <2> QED BY <2>3, <2>4, <2>5, <2>6
<1> QED BY <1>2, <1>3

\* Short names behind one dash.
LEMMA FlagsAreNamed ==
  ASSUME ArgInv, NEW n
  PROVE  /\ IsFlag(n) <=> \E a \in NamedShort(n) : a.multiplier = "0"
         /\ IsFlag(n) => \A a : a \in NamedShort(n) <=> arguments[FindByShortName(n)] = a
<1>1. arguments \in Seq(Candidates)
  BY DEF ArgInv
<1> QED BY <1>1, ShortNames DEF IsFlag

\* The short names set the variables of the flags before the first wrong name.
SetFlags(flags) ==
  data' = [a \in Candidates |->
             IF \E n \in ToSet(flags) : arguments[FindByShortName(n)] = a THEN 1 ELSE data[a]]
AllAreFlags(names) == /\ \A n \in ToSet(names) : IsFlag(n)
                      /\ SetFlags(names) /\ Continue(at + 1)
SomeIsWrong(names, flags) == /\ \E n \in ToSet(names) : ~IsFlag(n)
                             /\ SetFlags(flags) /\ result' = "invalid argument"
                             /\ UNCHANGED <<arguments, argv, at>>

LEMMA ShortNamesStep ==
  ASSUME ArgInv, NextShortNames
  PROVE  AllAreFlags(argv[at].names) \/ \E flags : SomeIsWrong(argv[at].names, flags)
<1> DEFINE names == argv[at].names
           I == {j \in 1 .. Len(names) : ~IsFlag(names[j])}
           wrong == IF I # {} THEN Min(I) ELSE 0
           flags == IF wrong = 0 THEN names ELSE SubSeq(names, 1, wrong - 1)
<1>1. names \in Seq(STRING) /\ Len(names) \in Nat /\ DOMAIN names = 1 .. Len(names)
  <2>1. argv[at] \in Words
    BY LineOfInv DEF NextShortNames
  <2> QED BY <2>1 DEF Words
<1>2. /\ SetFlags(flags)
      /\ IF wrong = 0 THEN Continue(at + 1)
         ELSE result' = "invalid argument" /\ UNCHANGED <<arguments, argv, at>>
  <2> DEFINE w == FirstWrong(names)
             f == IF w = 0 THEN names ELSE SubSeq(names, 1, w - 1)
  <2>1. /\ SetFlags(f)
        /\ IF w = 0 THEN Continue(at + 1)
           ELSE result' = "invalid argument" /\ UNCHANGED <<arguments, argv, at>>
    BY DEF NextShortNames, SetFlags
  <2>2. w = wrong
    BY DEF FirstWrong, SelectInSeq
  <2> HIDE DEF w, wrong
  <2> QED BY <2>1, <2>2
<1>3. (wrong = 0 /\ I = {}) \/ wrong \in I
  <2>1. I \in SUBSET (1 .. Len(names)) /\ Len(names) \in Nat
    BY <1>1
  <2> HIDE DEF I
  <2> QED BY <2>1, FirstOf
<1> HIDE DEF wrong
<1>4. wrong \in Nat /\ (wrong = 0 <=> I = {})
  BY <1>1, <1>3
<1>5. ToSet(names) = {names[j] : j \in 1 .. Len(names)}
  BY <1>1 DEF ToSet
<1>6. CASE wrong = 0
  <2>1. \A n \in ToSet(names) : IsFlag(n)
    BY <1>4, <1>5, <1>6
  <2>2. flags = names
    BY <1>6
  <2> QED BY <1>2, <1>6, <2>1, <2>2 DEF AllAreFlags
<1>7. CASE wrong # 0
  <2>1. \E n \in ToSet(names) : ~IsFlag(n)
    BY <1>3, <1>5, <1>7
  <2> HIDE DEF flags
  <2> QED BY <1>2, <1>7, <2>1 DEF SomeIsWrong
<1> QED BY <1>6, <1>7

LEMMA ShortNamesAreTyped ==
  ASSUME ArgInv, NextShortNames
  PROVE  StepTyped
<1>1. PICK flags : /\ SetFlags(flags)
                   /\ \/ Continue(at + 1)
                      \/ result' = "invalid argument" /\ UNCHANGED <<arguments, argv, at>>
  BY ShortNamesStep DEF AllAreFlags, SomeIsWrong
<1>2. data' = [a \in Candidates |-> data'[a]]
  <2> DEFINE e(a) == IF \E n \in ToSet(flags) : arguments[FindByShortName(n)] = a THEN 1 ELSE data[a]
  <2>1. data' = [a \in Candidates |-> e(a)]
    BY <1>1 DEF SetFlags
  <2> HIDE DEF e
  <2> QED BY <2>1
<1>3. Parsing /\ at \in Nat \ {0} /\ at + 1 \in Nat \ {0}
  <2>1. Parsing
    BY DEF NextShortNames
  <2>2. at \in Nat
    BY DEF ArgInv
  <2> QED BY <2>1, <2>2 DEF Parsing
<1>4. CASE Continue(at + 1)
  BY <1>2, <1>3, <1>4, ContinueIsTyped
<1>5. CASE result' = "invalid argument" /\ UNCHANGED <<arguments, argv, at>>
  <2>1. ~Parsing'
    BY <1>5 DEF Parsing
  <2> QED BY <1>2, <1>3, <1>5, <2>1 DEF StepTyped
<1> QED BY <1>1, <1>4, <1>5

LEMMA ShortNamesAreMeant ==
  ASSUME ArgInv, Parsing, Regular, NextShortNames
  PROVE  ArgInv'
<1> DEFINE names == argv[at].names
<1>1. /\ StepTyped /\ at \in 1 .. Len(argv) /\ DOMAIN argv = 1 .. Len(argv) /\ Len(argv) \in Nat
      /\ argv \in Seq(Words) /\ at \in Nat
      /\ argv[at].sort = "many" /\ ~IsValueOf(at) /\ MeantBefore(at)
  BY ShortNamesAreTyped, LineOfInv DEF NextShortNames, ArgInv
<1>2. Legal(at) <=> \A n \in ToSet(names) : IsFlag(n)
  <2>1. Legal(at) <=> \A n \in ToSet(names) : \E a \in NamedShort(n) : a.multiplier = "0"
    BY <1>1 DEF Legal
  <2> QED BY <2>1, FlagsAreNamed
<1>3. CASE \E flags : SomeIsWrong(names, flags)
  <2>1. ~Legal(at) /\ result' = "invalid argument"
    BY <1>2, <1>3 DEF SomeIsWrong
  <2>2. Parsing
    BY DEF NextShortNames
  <2> QED BY <1>1, <2>1, <2>2, Refused
<1>4. CASE AllAreFlags(names)
  <2>1. /\ \A n \in ToSet(names) : IsFlag(n)
        /\ SetFlags(names) /\ Continue(at + 1) /\ Legal(at)
    BY <1>2, <1>4 DEF AllAreFlags
  <2>2. \A b : at \in Setting(b) <=> \E n \in ToSet(names) : arguments[FindByShortName(n)] = b
    <3>1. Named(argv[at]) = {}
      <4>1. arguments \in Seq(Candidates)
        BY DEF ArgInv
      <4> QED BY <1>1, <4>1, AllNames
    <3>2. \A b : at \in Setting(b) <=> b.multiplier = "0" /\ \E n \in ToSet(names) : b \in NamedShort(n)
      BY <1>1, <3>1 DEF Setting
    <3>3. \A b : \A n \in ToSet(names) : b \in NamedShort(n) <=> arguments[FindByShortName(n)] = b
      BY <2>1, FlagsAreNamed
    <3>4. \A n \in ToSet(names) : arguments[FindByShortName(n)].multiplier = "0"
      BY <2>1 DEF IsFlag
    <3> QED BY <3>2, <3>3, <3>4
  <2>3. ASSUME NEW b \in Candidates PROVE data'[b] = MeantBy(b, SetBefore(b, at + 1))
    <3>1. data'[b] = IF at \in Setting(b) THEN 1 ELSE data[b]
      BY <2>1, <2>2 DEF SetFlags
    <3>2. CASE at \in Setting(b)
      <4>1. b.multiplier = "0"
        <5>1. \A n \in ToSet(names) : arguments[FindByShortName(n)].multiplier = "0"
          BY <2>1 DEF IsFlag
        <5> QED BY <2>2, <3>2, <5>1
      <4>2. MeantBy(b, SetBefore(b, at + 1)) = 1
        BY <1>1, <3>2, <4>1, MeantNow
      <4> QED BY <3>1, <3>2, <4>2
    <3>3. CASE at \notin Setting(b)
      <4>1. SetBefore(b, at + 1) = SetBefore(b, at)
        BY <1>1, <3>3, SetAt
      <4>2. data[b] = MeantBy(b, SetBefore(b, at))
        BY <1>1 DEF MeantBefore
      <4> QED BY <3>1, <3>3, <4>1, <4>2
    <3> QED BY <3>2, <3>3
  <2>4. \A m \in 1 .. Len(argv) : m < at + 1 => Legal(m)
    <3>1. \A m \in 1 .. Len(argv) : m < at + 1 => m = at \/ m < at
      BY <1>1
    <3> QED BY <1>1, <2>1, <3>1 DEF MeantBefore
  <2>5. at' = at + 1 /\ result' = IF at + 1 > Len(argv) THEN "ok" ELSE "none"
    BY <2>1 DEF Continue
  <2>6. at + 1 \in Nat /\ (at + 1 \in 1 .. Len(argv) => ~IsValueOf(at + 1))
    <3>1. ASSUME at + 1 \in 1 .. Len(argv) PROVE ~IsValueOf(at + 1)
      <4>1. at + 1 \in 2 .. Len(argv) /\ (at + 1) - 1 = at
        BY <1>1, <3>1
      <4>2. IsValueOf(at + 1) <=> ~IsValueOf((at + 1) - 1) /\ TakesValue((at + 1) - 1)
        BY <1>1, <4>1, RolesFollow
      <4>3. Named(argv[at]) = {}
        <5>1. arguments \in Seq(Candidates)
          BY DEF ArgInv
        <5> QED BY <1>1, <5>1, AllNames
      <4> QED BY <4>1, <4>2, <4>3 DEF TakesValue
    <3> QED BY <1>1, <3>1
  <2>7. Parsing
    BY DEF NextShortNames
  <2> QED BY <1>1, <2>3, <2>4, <2>5, <2>6, <2>7, Advanced
<1> QED BY <1>3, <1>4, ShortNamesStep

---------------------------------------------------------------------------
(* The parser.                                                             *)

\* arg_parser_add_flag() and the others keep the variables unset.
LEMMA FieldsAreUnset ==
  ASSUME ArgInv, NEW a \in Candidates, AddField(a)
  PROVE  ArgInv'
<1>1. /\ at = 0 /\ ~Contains(arguments, a) /\ arguments' = Append(arguments, a)
      /\ argv' = argv /\ at' = 0 /\ result' = result /\ argv = <<>>
  BY DEF AddField, ArgInv
<1>2. arguments \in Seq(Candidates) /\ data = [b \in Candidates |-> data[b]] /\ DOMAIN data = Candidates
  <2>1. arguments \in Seq(Candidates) /\ data = [b \in Candidates |-> data[b]]
    BY DEF ArgInv
  <2>2. DOMAIN [b \in Candidates |-> data[b]] = Candidates
    OBVIOUS
  <2> QED BY <2>1, <2>2
<1>3. arguments' \in Seq(Candidates) /\ \A b : Contains(arguments', b) <=> Contains(arguments, b) \/ b = a
  <2> DEFINE r == Append(arguments, a)
             n == Len(arguments)
  <2>1. /\ r \in Seq(Candidates) /\ Len(r) = n + 1 /\ n \in Nat
        /\ r[n + 1] = a /\ \A i \in 1 .. n : r[i] = arguments[i]
    BY <1>2, AppendFacts
  <2> HIDE DEF r, n
  <2>2. r \in Seq(Candidates) /\ \A i \in 1 .. n + 1 : i = n + 1 \/ i \in 1 .. n
    BY <2>1
  <2>3. \A b : Contains(r, b) <=> \E i \in 1 .. n + 1 : r[i] = b
    BY <2>1 DEF Contains
  <2>4. \A b : Contains(arguments, b) <=> \E i \in 1 .. n : arguments[i] = b
    BY DEF Contains, n
  <2>5. \A i \in 1 .. n : i \in 1 .. n + 1
    BY <2>1
  <2>6. n + 1 \in 1 .. n + 1
    BY <2>1
  <2>7. \A b : Contains(r, b) <=> Contains(arguments, b) \/ b = a
    BY <2>1, <2>2, <2>3, <2>4, <2>5, <2>6
  <2> QED BY <1>1, <2>1, <2>7 DEF r
<1>4. data' = [b \in Candidates |-> data'[b]]
  <2>1. CASE a.parse = "flag"
    BY <2>1, DataIsAFunction DEF AddField
  <2>2. CASE a.parse # "flag"
    BY <1>2, <2>2 DEF AddField
  <2> QED BY <2>1, <2>2
<1>5. ASSUME NEW b \in Candidates PROVE data'[b] = Unset(arguments', b)
  <2>1. data[b] = Unset(arguments, b)
    BY <1>1 DEF ArgInv
  <2>2. CASE a.parse = "flag"
    <3>1. data'[b] = IF b = a THEN 0 ELSE data[b]
      BY <1>2, <2>2 DEF AddField
    <3> QED BY <1>3, <2>1, <2>2, <3>1 DEF Unset
  <2>3. CASE a.parse # "flag"
    <3>1. data' = data
      BY <2>3 DEF AddField
    <3> QED BY <1>3, <2>1, <2>3, <3>1 DEF Unset
  <2> QED BY <2>2, <2>3
<1>6. ~Parsing' /\ ~Finished' /\ result' = "none"
  BY <1>1 DEF Parsing, Finished, ArgInv
<1> QED BY <1>1, <1>3, <1>4, <1>5, <1>6 DEF ArgInv, RegularLinesAreMeant

\* Before the first word nothing is set.
LEMMA LineBegins ==
  ASSUME ArgInv, NEW line \in Lines, Parse(line)
  PROVE  ArgInv'
<1>1. /\ at = 0 /\ argv' = line /\ at' = 1 /\ arguments' = arguments /\ data' = data
      /\ result' = IF line = <<>> THEN "ok" ELSE "none"
  BY DEF Parse
<1>2. line \in Seq(Words) /\ Len(line) \in Nat /\ DOMAIN line = 1 .. Len(line)
  <2>1. line \in Seq(Words)
    BY ArgAssumption
  <2> QED BY <2>1
<1>3. \A a : Setting(a)' \subseteq 1 .. Len(line)
  BY <1>1, <1>2 DEF Setting
<1>4. \A a \in Candidates : data'[a] = Means(arguments', argv', a, {})
  BY <1>1 DEF ArgInv, Means
<1>5. /\ arguments' \in Seq(Candidates) /\ argv' \in Lines \cup {<<>>}
      /\ data' = [a \in Candidates |-> data'[a]] /\ at' \in Nat /\ at' # 0
  BY <1>1 DEF ArgInv
<1>6. CASE line = <<>>
  <2>1. ~Parsing' /\ result' = "ok" /\ Len(line) = 0
    BY <1>1, <1>6 DEF Parsing
  <2>2. DOMAIN argv' = {}
    BY <1>1, <1>2, <2>1
  <2>3. \A a : Setting(a)' = {}
    BY <2>2 DEF Setting
  <2>4. \A a : Meant(a)' = Means(arguments', argv', a, Setting(a)')
    BY DEF Meant, Means, Unset
  <2>5. AsMeant'
    BY <1>4, <2>1, <2>2, <2>3, <2>4 DEF AsMeant
  <2> QED BY <1>5, <2>1, <2>5 DEF ArgInv, RegularLinesAreMeant
<1>7. CASE line # <<>>
  <2>1. result' = "none" /\ ~Finished' /\ 1 \in 1 .. Len(line)
    BY <1>1, <1>2, <1>7, EmptySeq DEF Finished
  <2>2. ~IsValueOf(1)'
    <3>1. (argv \in Seq(Words) =>
             /\ Len(argv) # 0 => ~IsValueOf(1)
             /\ \A k \in 2 .. Len(argv) : IsValueOf(k) <=> ~IsValueOf(k - 1) /\ TakesValue(k - 1))'
      BY RolesFollow, PTL
    <3> QED BY <1>1, <1>2, <2>1, <3>1
  <2>3. ~IsValueOf(at)'
    BY <1>1, <2>2
  <2>4. \A a : SetBefore(a, at)' = {}
    BY <1>1, <1>3 DEF SetBefore
  <2>5. \A m \in 1 .. Len(argv') : ~(m < at')
    BY <1>1
  <2>6. \A a : MeantBy(a, SetBefore(a, at))' = Means(arguments', argv', a, SetBefore(a, at)')
    BY DEF MeantBy
  <2>7. MeantBefore(at)'
    BY <1>4, <2>4, <2>5, <2>6 DEF MeantBefore
  <2> QED BY <1>1, <1>5, <2>1, <2>3, <2>7 DEF ArgInv, RegularLinesAreMeant
<1> QED BY <1>6, <1>7

LEMMA LineStands ==
  ASSUME ArgInv, UNCHANGED argVars
  PROVE  ArgInv'
<1>1. arguments' = arguments /\ data' = data /\ argv' = argv /\ at' = at /\ result' = result
  BY DEF argVars
<1>2. argv \in Seq(Words) /\ DOMAIN argv = 1 .. Len(argv)
  BY LineOfInv
<1>3. /\ Regular' <=> Regular
      /\ \A k \in 1 .. Len(argv) : Legal(k)' <=> Legal(k)
      /\ \A k \in 1 .. Len(argv) : IsValueOf(k)' <=> IsValueOf(k)
      /\ \A a : Setting(a)' = Setting(a)
  BY <1>1, <1>2, SameLine, SameRoles
<1>4. AsMeant' <=> AsMeant
  <2>1. \A a : Meant(a) = Means(arguments, argv, a, Setting(a))
    BY DEF Meant, Means, Unset
  <2>2. \A a : Meant(a)' = Means(arguments', argv', a, Setting(a)')
    BY DEF Meant, Means, Unset
  <2> QED BY <1>1, <1>2, <1>3, <2>1, <2>2 DEF AsMeant
<1>5. Parsing' => Parsing
  BY <1>1 DEF Parsing
<1>6. at \in 1 .. Len(argv) => (IsValueOf(at)' <=> IsValueOf(at))
  BY <1>1, <1>3
<1>7. MeantBefore(at)' <=> MeantBefore(at)
  <2>1. \A a : MeantBy(a, SetBefore(a, at))' = MeantBy(a, SetBefore(a, at))
    BY <1>1, <1>3 DEF MeantBy, SetBefore
  <2> QED BY <1>1, <1>3, <2>1 DEF MeantBefore
<1> QED BY <1>1, <1>3, <1>4, <1>5, <1>6, <1>7 DEF ArgInv, RegularLinesAreMeant, Finished

THEOREM ArgInvHolds == ArgSpec => []ArgInv
<1>1. ArgInit => ArgInv
  <2> SUFFICES ASSUME ArgInit PROVE ArgInv
    OBVIOUS
  <2>1. ~Parsing /\ ~Finished
    BY DEF ArgInit, Parsing, Finished
  <2>2. \A a : ~Contains(<<>>, a)
    BY DEF Contains
  <2>3. \A a \in Candidates : data[a] = Unset(arguments, a)
    BY <2>2 DEF ArgInit, Unset
  <2>4. data = [a \in Candidates |-> data[a]]
    BY DEF ArgInit
  <2> QED BY <2>1, <2>3, <2>4 DEF ArgInit, ArgInv, RegularLinesAreMeant
<1>2. ArgInv /\ [ArgNext]_argVars => ArgInv'
  <2> SUFFICES ASSUME ArgInv, [ArgNext]_argVars PROVE ArgInv'
    OBVIOUS
  <2>1. ASSUME NEW a \in Candidates, AddField(a) PROVE ArgInv'
    BY <2>1, FieldsAreUnset
  <2>2. ASSUME NEW line \in Lines, Parse(line) PROVE ArgInv'
    BY <2>2, LineBegins
  <2>3. CASE NextArgument
    <3>1. Parsing /\ StepTyped
      BY <2>3, ArgumentIsTyped DEF NextArgument
    <3> QED BY <2>3, <3>1, ArgumentIsMeant, Irregular
  <2>4. CASE NextShortNames
    <3>1. Parsing /\ StepTyped
      BY <2>4, ShortNamesAreTyped DEF NextShortNames
    <3> QED BY <2>4, <3>1, ShortNamesAreMeant, Irregular
  <2>5. CASE UNCHANGED argVars
    BY <2>5, LineStands
  <2> QED BY <2>1, <2>2, <2>3, <2>4, <2>5 DEF ArgNext
<1> QED BY <1>1, <1>2, PTL DEF ArgSpec

\* arg_parser_parse() takes every regular command line as it is meant: it
\* answers "ok" to the lines whose words are all legal and to no others, and
\* then every variable has the value that the words give it.
THEOREM LinesAreTakenAsMeant == ArgSpec => []RegularLinesAreMeant
<1>1. ArgInv => RegularLinesAreMeant
  BY DEF ArgInv
<1> QED BY <1>1, ArgInvHolds, PTL

---------------------------------------------------------------------------
(* Comparisons.                                                            *)

\* What the result c of comparing l and r says, if R is what comes before what.
Tells(c, l, r, R) == /\ c \in Int /\ (c = 0 <=> l = r)
                     /\ (c < 0 <=> <<l, r>> \in R) /\ (c > 0 <=> <<r, l>> \in R)

Agreeing(l, r, n) == \A i \in 1 .. n : l[i] = r[i]

\* l comes before r in the lexicographic order, with R for the elements.
Earlier(R, l, r) ==
  \/ Len(l) < Len(r) /\ Agreeing(l, r, Len(l))
  \/ \E j \in 1 .. Len(l) : j <= Len(r) /\ <<l[j], r[j]>> \in R /\ Agreeing(l, r, j - 1)
Lexicographic(T, R) == {p \in Seq(T) \X Seq(T) : Earlier(R, p[1], p[2])}

Common(l, r) == DOMAIN l \cap DOMAIN r
Signs(sign, l, r, R) == sign = [j \in Common(l, r) |-> sign[j]]
                        /\ \A j \in Common(l, r) : Tells(sign[j], l[j], r[j], R)

LEMMA CompareFacts ==
  ASSUME NEW a \in Int, NEW b \in Int
  PROVE  /\ CompareValues(a, b) \in Int /\ (CompareValues(a, b) = 0 <=> a = b)
         /\ (CompareValues(a, b) < 0 <=> a < b) /\ (CompareValues(a, b) > 0 <=> b < a)
<1>1. CASE a = b
  BY <1>1 DEF CompareValues
<1>2. CASE a < b
  <2>1. CompareValues(a, b) = -1
    BY <1>2 DEF CompareValues
  <2> QED BY <1>2, <2>1
<1>3. CASE b < a
  <2>1. CompareValues(a, b) = 1
    BY <1>3 DEF CompareValues
  <2> QED BY <1>3, <2>1
<1> QED BY <1>1, <1>2, <1>3

LEMMA IntsTell ==
  ASSUME NEW l \in Int, NEW r \in Int
  PROVE  Tells(CompareValues(l, r), l, r, {p \in Int \X Int : p[1] < p[2]})
<1>1. /\ <<l, r>> \in {p \in Int \X Int : p[1] < p[2]} <=> l < r
      /\ <<r, l>> \in {p \in Int \X Int : p[1] < p[2]} <=> r < l
  OBVIOUS
<1> DEFINE R == {p \in Int \X Int : p[1] < p[2]}
<1> HIDE DEF R
<1>2. Tells(CompareValues(l, r), l, r, R)
  BY <1>1, CompareFacts DEF Tells, R
<1> QED BY <1>2 DEF R

LEMMA LexicographicFacts ==
  ASSUME NEW T, NEW R, NEW l \in Seq(T), NEW r \in Seq(T)
  PROVE  <<l, r>> \in Lexicographic(T, R) <=> Earlier(R, l, r)
<1>1. <<l, r>> \in Seq(T) \X Seq(T) /\ <<l, r>>[1] = l /\ <<l, r>>[2] = r
  OBVIOUS
<1> QED BY <1>1 DEF Lexicographic

\* Sequences with a first difference, and sequences without.
LEMMA DifferentAt ==
  ASSUME NEW T, NEW R, NEW l \in Seq(T), NEW r \in Seq(T), NEW d \in Common(l, r),
         l[d] # r[d], \A i \in 1 .. d - 1 : l[i] = r[i],
         \A i \in Common(l, r) : l[i] = r[i] => <<l[i], r[i]>> \notin R
  PROVE  <<l, r>> \in Lexicographic(T, R) <=> <<l[d], r[d]>> \in R
<1>1. Len(l) \in Nat /\ Len(r) \in Nat /\ d \in 1 .. Len(l) /\ d \in 1 .. Len(r)
      /\ Common(l, r) = {j \in 1 .. Len(l) : j <= Len(r)}
  BY DEF Common
<1>2. ASSUME <<l, r>> \in Lexicographic(T, R) PROVE <<l[d], r[d]>> \in R
  <2>1. CASE Len(l) < Len(r) /\ \A i \in 1 .. Len(l) : l[i] = r[i]
    BY <1>1, <2>1
  <2>2. ASSUME NEW j \in 1 .. Len(l), j <= Len(r), <<l[j], r[j]>> \in R,
               \A i \in 1 .. j - 1 : l[i] = r[i]
        PROVE  j = d
    <3>1. j \in Common(l, r) /\ l[j] # r[j]
      BY <1>1, <2>2
    <3>2. ~(j < d) /\ ~(d < j)
      BY <1>1, <3>1, <2>2
    <3> QED BY <1>1, <3>2
  <2> QED BY <1>2, <2>1, <2>2, LexicographicFacts DEF Earlier, Agreeing
<1>3. ASSUME <<l[d], r[d]>> \in R PROVE <<l, r>> \in Lexicographic(T, R)
  BY <1>1, <1>3, LexicographicFacts DEF Earlier, Agreeing
<1> QED BY <1>2, <1>3

LEMMA NotDifferent ==
  ASSUME NEW T, NEW R, NEW l \in Seq(T), NEW r \in Seq(T),
         \A i \in Common(l, r) : l[i] = r[i] /\ <<l[i], r[i]>> \notin R
  PROVE  <<l, r>> \in Lexicographic(T, R) <=> Len(l) < Len(r)
<1>1. Len(l) \in Nat /\ Len(r) \in Nat
      /\ Common(l, r) = {j \in 1 .. Len(l) : j <= Len(r)}
  BY DEF Common
<1>2. ASSUME NEW j \in 1 .. Len(l), j <= Len(r), <<l[j], r[j]>> \in R PROVE FALSE
  BY <1>1, <1>2
<1>3. ASSUME Len(l) < Len(r), NEW i \in 1 .. Len(l) PROVE l[i] = r[i]
  <2>1. i \in Common(l, r)
    BY <1>1, <1>3
  <2> QED BY <2>1
<1> QED BY <1>2, <1>3, LexicographicFacts DEF Earlier, Agreeing

\* The loop over two arrays compares them lexicographically.
LEMMA LoopTells ==
  ASSUME NEW T, NEW R, NEW l \in Seq(T), NEW r \in Seq(T), NEW sign, Signs(sign, l, r, R)
  PROVE  Tells(FirstDifference(sign, l, r), l, r, Lexicographic(T, R))
<1> DEFINE D == {j \in Common(l, r) : sign[j] # 0}
           c == FirstDifference(sign, l, r)
<1>1. Len(l) \in Nat /\ Len(r) \in Nat /\ Common(l, r) = Common(r, l)
      /\ Common(l, r) = {j \in 1 .. Len(l) : j <= Len(r)}
      /\ l = [i \in 1 .. Len(l) |-> l[i]] /\ r = [i \in 1 .. Len(r) |-> r[i]]
  BY DEF Common
<1>2. c = IF D # {} THEN sign[Min(D)] ELSE CompareValues(Len(l), Len(r))
  BY DEF FirstDifference, Common
<1>3. \A j \in Common(l, r) : Tells(sign[j], l[j], r[j], R)
  BY DEF Signs
<1>4. \A j \in Common(l, r) : l[j] = r[j] => <<l[j], r[j]>> \notin R /\ <<r[j], l[j]>> \notin R
  <2> SUFFICES ASSUME NEW j \in Common(l, r), l[j] = r[j]
               PROVE  <<l[j], r[j]>> \notin R /\ <<r[j], l[j]>> \notin R
    OBVIOUS
  <2>1. Tells(sign[j], l[j], r[j], R)
    BY <1>3
  <2>2. sign[j] = 0 /\ ~(0 < 0) /\ ~(0 > 0)
    BY <2>1 DEF Tells
  <2>3. ~(sign[j] < 0) /\ ~(sign[j] > 0)
    BY <2>2
  <2> QED BY ONLY <2>1, <2>3 DEF Tells
<1>5. CASE D # {}
  <2> DEFINE d == Min(D)
  <2>1. d \in D /\ \A j \in D : d <= j
    <3>1. D \in SUBSET (1 .. Len(l))
      BY <1>1
    <3> HIDE DEF D
    <3> QED BY <1>1, <1>5, <3>1, LeastIsIn
  <2> HIDE DEF d
  <2>2. d \in Common(l, r) /\ d \in 1 .. Len(l) /\ sign[d] # 0 /\ Tells(sign[d], l[d], r[d], R)
    BY <1>1, <1>3, <2>1
  <2>3. ASSUME NEW i \in 1 .. d - 1 PROVE l[i] = r[i] /\ r[i] = l[i]
    <3>1. i \in Common(l, r) /\ ~(d <= i)
      BY <1>1, <2>2
    <3>2. sign[i] = 0
      BY <2>1, <3>1
    <3> QED BY <1>3, <3>1, <3>2 DEF Tells
  <2>4. l[d] # r[d] /\ l # r
    BY <2>2 DEF Tells
  <2>5. <<l, r>> \in Lexicographic(T, R) <=> <<l[d], r[d]>> \in R
    BY <1>4, <2>2, <2>3, <2>4, DifferentAt
  <2>6. <<r, l>> \in Lexicographic(T, R) <=> <<r[d], l[d]>> \in R
    BY <1>1, <1>4, <2>2, <2>3, <2>4, DifferentAt
  <2>7. c = sign[d]
    BY <1>2, <1>5 DEF d
  <2>8. /\ sign[d] \in Int /\ sign[d] # 0
        /\ sign[d] < 0 <=> <<l[d], r[d]>> \in R
        /\ sign[d] > 0 <=> <<r[d], l[d]>> \in R
    BY <2>2 DEF Tells
  <2>9. c = 0 <=> l = r
    BY <2>4, <2>7, <2>8
  <2> HIDE DEF c
  <2>10. Tells(c, l, r, Lexicographic(T, R))
    BY ONLY <2>5, <2>6, <2>7, <2>8, <2>9 DEF Tells
  <2> QED BY <2>10 DEF c
<1>6. CASE D = {}
  <2>1. \A j \in Common(l, r) : l[j] = r[j]
    BY <1>3, <1>6 DEF Tells
  <2>2. <<l, r>> \in Lexicographic(T, R) <=> Len(l) < Len(r)
    BY <1>4, <2>1, NotDifferent
  <2>3. <<r, l>> \in Lexicographic(T, R) <=> Len(r) < Len(l)
    BY <1>1, <1>4, <2>1, NotDifferent
  <2>4. ASSUME Len(l) = Len(r) PROVE l = r
    <3>1. \A i \in 1 .. Len(l) : l[i] = r[i]
      BY <1>1, <2>1, <2>4
    <3> QED BY <1>1, <2>4, <3>1
  <2>5. c = CompareValues(Len(l), Len(r))
    BY <1>2, <1>6
  <2>6. l = r => Len(l) = Len(r)
    OBVIOUS
  <2> HIDE DEF c
  <2>7. c \in Int /\ (c = 0 <=> Len(l) = Len(r)) /\ (c < 0 <=> Len(l) < Len(r))
        /\ (c > 0 <=> Len(r) < Len(l))
    <3>1. Len(l) \in Int /\ Len(r) \in Int
      BY <1>1
    <3> DEFINE v == CompareValues(Len(l), Len(r))
    <3>2. v \in Int /\ (v = 0 <=> Len(l) = Len(r)) /\ (v < 0 <=> Len(l) < Len(r))
          /\ (v > 0 <=> Len(r) < Len(l))
      BY ONLY <3>1, CompareFacts
    <3> HIDE DEF v
    <3>3. c = v
      BY <2>5 DEF v
    <3> QED BY ONLY <3>2, <3>3
  <2>8. Tells(c, l, r, Lexicographic(T, R))
    BY ONLY <2>2, <2>3, <2>4, <2>6, <2>7 DEF Tells
  <2> QED BY <2>8 DEF c
<1> QED BY <1>5, <1>6
---------------------------------------------------------------------------
(* Statements.                                                             *)

LessInts == {p \in Int \X Int : p[1] < p[2]}
LessStrings == Lexicographic(Int, LessInts)

LEMMA ArraysTell ==
  ASSUME NEW l \in Seq(Int), NEW r \in Seq(Int)
  PROVE  Tells(CompareArrays(l, r), l, r, LessStrings)
<1> DEFINE sign == [j \in DOMAIN l \cap DOMAIN r |-> CompareValues(l[j], r[j])]
<1>1. \A j \in Common(l, r) : l[j] \in Int /\ r[j] \in Int
  BY DEF Common
<1>2. \A j \in Common(l, r) : Tells(sign[j], l[j], r[j], LessInts)
  BY <1>1, IntsTell DEF Common, LessInts
<1>3. Signs(sign, l, r, LessInts)
  BY <1>2 DEF Signs, Common
<1>4. CompareArrays(l, r) = FirstDifference(sign, l, r)
  BY DEF CompareArrays
<1> HIDE DEF sign
<1> QED BY <1>3, <1>4, LoopTells DEF LessStrings

LEMMA StringArraysTell ==
  ASSUME NEW l \in Seq(Seq(Int)), NEW r \in Seq(Seq(Int))
  PROVE  Tells(CompareStringArrays(l, r), l, r, Lexicographic(Seq(Int), LessStrings))
<1> DEFINE sign == [j \in DOMAIN l \cap DOMAIN r |-> CompareStrings(l[j], r[j])]
<1>1. \A j \in Common(l, r) : l[j] \in Seq(Int) /\ r[j] \in Seq(Int)
  BY DEF Common
<1>2. \A j \in Common(l, r) : Tells(sign[j], l[j], r[j], LessStrings)
  BY <1>1, ArraysTell DEF Common, CompareStrings
<1>3. Signs(sign, l, r, LessStrings)
  BY <1>2 DEF Signs, Common
<1>4. CompareStringArrays(l, r) = FirstDifference(sign, l, r)
  BY DEF CompareStringArrays
<1> HIDE DEF sign
<1> QED BY <1>3, <1>4, LoopTells

\* The order of what statements say is the one of the loop.

LEMMA PartsAgree ==
  ASSUME NEW T, NEW l \in Seq(T), NEW r \in Seq(T), NEW n \in Nat, n <= Len(l), n <= Len(r)
  PROVE  SubSeq(l, 1, n) = SubSeq(r, 1, n) <=> Agreeing(l, r, n)
<1> DEFINE a == SubSeq(l, 1, n + 1 - 1)  b == SubSeq(r, 1, n + 1 - 1)
<1>1. n + 1 \in 1 .. Len(l) + 1 /\ n + 1 \in 1 .. Len(r) + 1 /\ n + 1 - 1 = n
  OBVIOUS
<1>2. a \in Seq(T) /\ Len(a) = n /\ \A i \in 1 .. n : a[i] = l[i]
  BY <1>1, PrefixFacts
<1>3. b \in Seq(T) /\ Len(b) = n /\ \A i \in 1 .. n : b[i] = r[i]
  BY <1>1, PrefixFacts
<1>4. a = SubSeq(l, 1, n) /\ b = SubSeq(r, 1, n)
  BY <1>1
<1> HIDE DEF a, b
<1>5. a = [i \in 1 .. n |-> a[i]] /\ b = [i \in 1 .. n |-> b[i]]
  BY <1>2, <1>3
<1>6. a = b <=> \A i \in 1 .. n : a[i] = b[i]
  BY <1>5
<1> QED BY <1>2, <1>3, <1>4, <1>6 DEF Agreeing

LEMMA StrictPrefix ==
  ASSUME NEW T, NEW l \in Seq(T), NEW r \in Seq(T)
  PROVE  IsStrictPrefix(l, r) <=> Len(l) < Len(r) /\ Agreeing(l, r, Len(l))
<1>1. Len(l) \in Nat /\ Len(r) \in Nat
      /\ l = [i \in 1 .. Len(l) |-> l[i]] /\ r = [i \in 1 .. Len(r) |-> r[i]]
  OBVIOUS
<1>2. ASSUME Len(l) <= Len(r)
      PROVE  SubSeq(l, 1, Len(l)) = SubSeq(r, 1, Len(l)) <=> Agreeing(l, r, Len(l))
  <2> DEFINE n == Len(l)
  <2>1. n \in Nat /\ n <= Len(l) /\ n <= Len(r)
    BY <1>1, <1>2
  <2> HIDE DEF n
  <2>2. SubSeq(l, 1, n) = SubSeq(r, 1, n) <=> Agreeing(l, r, n)
    BY <2>1, PartsAgree
  <2> QED BY <2>2 DEF n
<1>3. ASSUME Len(l) = Len(r), Agreeing(l, r, Len(l)) PROVE l = r
  <2>1. \A i \in 1 .. Len(l) : l[i] = r[i]
    BY <1>3 DEF Agreeing
  <2> QED BY <1>1, <1>3, <2>1
<1>4. l = r => Len(l) = Len(r)
  OBVIOUS
<1>5. IsStrictPrefix(l, r) <=> Len(l) <= Len(r) /\ SubSeq(l, 1, Len(l)) = SubSeq(r, 1, Len(l)) /\ l # r
  BY DEF IsStrictPrefix, IsPrefix
<1>6. IsStrictPrefix(l, r) <=> Len(l) <= Len(r) /\ Agreeing(l, r, Len(l)) /\ l # r
  BY <1>2, <1>5
<1>0. Len(l) \in Nat /\ Len(r) \in Nat
  BY <1>1
<1>7. Len(l) <= Len(r) <=> Len(l) < Len(r) \/ Len(l) = Len(r)
  BY ONLY <1>0
<1>8. Len(l) < Len(r) => Len(l) # Len(r)
  BY ONLY <1>0
<1> QED BY ONLY <1>3, <1>4, <1>6, <1>7, <1>8

\* Equal up to a place where the left one is smaller.
LEMMA ArraysPrecede ==
  ASSUME NEW l \in Seq(Int), NEW r \in Seq(Int)
  PROVE  Precedes(l, r) <=> <<l, r>> \in LessStrings
<1> DEFINE At(j) == SubSeq(l, 1, j - 1) = SubSeq(r, 1, j - 1) /\ l[j] < r[j]
<1>1. Len(l) \in Nat /\ Len(r) \in Nat
      /\ Common(l, r) = {j \in 1 .. Len(l) : j <= Len(r)}
  BY DEF Common
<1>2. Precedes(l, r) <=> IsStrictPrefix(l, r) \/ \E j \in Common(l, r) : At(j)
  BY DEF Precedes, Common
<1>3. ASSUME NEW j \in 1 .. Len(l), j <= Len(r)
      PROVE  At(j) <=> <<l[j], r[j]>> \in LessInts /\ Agreeing(l, r, j - 1)
  <2>1. l[j] \in Int /\ r[j] \in Int
    BY <1>1, <1>3
  <2>2. <<l[j], r[j]>> \in LessInts <=> l[j] < r[j]
    BY <2>1 DEF LessInts
  <2>3. j - 1 \in Nat /\ j - 1 <= Len(l) /\ j - 1 <= Len(r)
    BY <1>1, <1>3
  <2>4. SubSeq(l, 1, j - 1) = SubSeq(r, 1, j - 1) <=> Agreeing(l, r, j - 1)
    BY <2>3, PartsAgree
  <2> QED BY <2>2, <2>4
<1> HIDE DEF At
<1>4. <<l, r>> \in Lexicographic(Int, LessInts) <=> Earlier(LessInts, l, r)
  BY LexicographicFacts
<1>5. IsStrictPrefix(l, r) <=> Len(l) < Len(r) /\ Agreeing(l, r, Len(l))
  BY StrictPrefix
<1> QED BY <1>1, <1>2, <1>3, <1>4, <1>5 DEF LessStrings, Earlier

LEMMA StringArraysPrecede ==
  ASSUME NEW l \in Seq(Seq(Int)), NEW r \in Seq(Seq(Int))
  PROVE  StringsPrecede(l, r) <=> <<l, r>> \in Lexicographic(Seq(Int), LessStrings)
<1> DEFINE At(j) == SubSeq(l, 1, j - 1) = SubSeq(r, 1, j - 1) /\ Precedes(l[j], r[j])
<1>1. Len(l) \in Nat /\ Len(r) \in Nat
      /\ Common(l, r) = {j \in 1 .. Len(l) : j <= Len(r)}
  BY DEF Common
<1>2. StringsPrecede(l, r) <=> IsStrictPrefix(l, r) \/ \E j \in Common(l, r) : At(j)
  BY DEF StringsPrecede, Common
<1>3. ASSUME NEW j \in 1 .. Len(l), j <= Len(r)
      PROVE  At(j) <=> <<l[j], r[j]>> \in LessStrings /\ Agreeing(l, r, j - 1)
  <2>1. l[j] \in Seq(Int) /\ r[j] \in Seq(Int)
    BY <1>1, <1>3
  <2>2. <<l[j], r[j]>> \in LessStrings <=> Precedes(l[j], r[j])
    BY <2>1, ArraysPrecede
  <2>3. j - 1 \in Nat /\ j - 1 <= Len(l) /\ j - 1 <= Len(r)
    BY <1>1, <1>3
  <2>4. SubSeq(l, 1, j - 1) = SubSeq(r, 1, j - 1) <=> Agreeing(l, r, j - 1)
    BY <2>3, PartsAgree
  <2> QED BY <2>2, <2>4
<1> HIDE DEF At
<1>4. <<l, r>> \in Lexicographic(Seq(Int), LessStrings) <=> Earlier(LessStrings, l, r)
  BY LexicographicFacts
<1>5. IsStrictPrefix(l, r) <=> Len(l) < Len(r) /\ Agreeing(l, r, Len(l))
  BY StrictPrefix
<1> QED BY <1>1, <1>2, <1>3, <1>4, <1>5 DEF Earlier

\* Two ints are the same unsigned if they differ by a multiple of the range.
LEMMA SameUnsigned ==
  ASSUME NEW l \in Int, NEW r \in Int
  PROVE  (l - r) % UnsignedSize = 0 <=> l % UnsignedSize = r % UnsignedSize
<1> DEFINE u == UnsignedSize  a == l \div u  b == r \div u  x == l % u  y == r % u  d == l - r
<1>1. u \in Nat \ {0}
  BY TestsAssumption
<1> HIDE DEF u
<1>2. a \in Int /\ b \in Int /\ x \in 0 .. u - 1 /\ y \in 0 .. u - 1 /\ l = u * a + x /\ r = u * b + y
  BY <1>1, Division
<1>3. d \in Int
  OBVIOUS
<1> HIDE DEF d
<1>4. d \div u \in Int /\ d % u \in 0 .. u - 1 /\ d = u * (d \div u) + (d % u)
  BY <1>1, <1>3, Division
<1> HIDE DEF a, b, x, y
<1>5. u * a \in Int /\ u * b \in Int /\ u * (a - b) = u * a - u * b
  BY <1>1, <1>2
<1>6. ASSUME x = y PROVE d % u = 0
  <2>1. d = u * (a - b) + 0
    BY <1>2, <1>5, <1>6 DEF d
  <2>2. a - b \in Int /\ 0 \in 0 .. u - 1
    BY <1>1, <1>2
  <2> QED BY <1>1, <2>1, <2>2, Quotient
<1>7. ASSUME d % u = 0 PROVE x = y
  <2> DEFINE c == d \div u
  <2>1. c \in Int /\ d = u * c
    BY <1>1, <1>4, <1>7
  <2> HIDE DEF c
  <2>2. u * c \in Int /\ u * (b + c) = u * b + u * c /\ b + c \in Int
    BY <1>1, <1>2, <2>1
  <2>3. l = u * (b + c) + y
    BY <1>2, <1>5, <2>1, <2>2 DEF d
  <2>4. l % u = y
    BY <1>1, <1>2, <2>2, <2>3, Quotient
  <2> QED BY <2>4 DEF x
<1> QED BY <1>6, <1>7 DEF d, x, y, u

\* The result of a comparison is what the operators mean.
Judges(c, type, l, r) ==
  /\ c \in Int /\ (c = 0 <=> Same(type, l, r))
  /\ (c < 0 <=> Before(type, l, r)) /\ (c > 0 <=> Before(type, r, l))

LEMMA CompareJudges ==
  ASSUME NEW type \in CmpTypes, NEW l \in OperandsOf(type), NEW r \in OperandsOf(type)
  PROVE  Judges(CompareAs(type, l, r), type, l, r)
<1>1. CASE type \in {"i", "ptr"}
  <2>1. l \in Int /\ r \in Int
    BY <1>1 DEF OperandsOf
  <2>2. CompareAs(type, l, r) = CompareValues(l, r)
    BY <1>1 DEF CompareAs
  <2>3. /\ Same(type, l, r) <=> l = r
        /\ Before(type, l, r) <=> l < r
        /\ Before(type, r, l) <=> r < l
    BY <1>1 DEF Same, Before
  <2> DEFINE v == CompareValues(l, r)
  <2>4. v \in Int /\ (v = 0 <=> l = r) /\ (v < 0 <=> l < r) /\ (v > 0 <=> r < l)
    BY ONLY <2>1, CompareFacts
  <2> HIDE DEF v
  <2>5. Judges(v, type, l, r)
    BY ONLY <2>3, <2>4 DEF Judges
  <2> QED BY <2>2, <2>5 DEF v
<1>2. CASE type = "u"
  <2> DEFINE x == l % UnsignedSize  y == r % UnsignedSize
  <2>1. l \in Int /\ r \in Int /\ UnsignedSize \in Nat \ {0}
    BY <1>2, TestsAssumption DEF OperandsOf
  <2>2. x \in Int /\ y \in Int
    BY <2>1, Division
  <2>3. CompareAs(type, l, r) = CompareValues(x, y)
    BY <1>2 DEF CompareAs
  <2>4. /\ Before(type, l, r) <=> x < y
        /\ Before(type, r, l) <=> y < x
    BY <1>2 DEF Before
  <2>5. Same(type, l, r) <=> x = y
    BY <1>2, <2>1, SameUnsigned DEF Same
  <2> HIDE DEF x, y
  <2> DEFINE v == CompareValues(x, y)
  <2>6. v \in Int /\ (v = 0 <=> x = y) /\ (v < 0 <=> x < y) /\ (v > 0 <=> y < x)
    BY ONLY <2>2, CompareFacts
  <2> HIDE DEF v
  <2>7. Judges(v, type, l, r)
    BY ONLY <2>4, <2>5, <2>6 DEF Judges
  <2> QED BY <2>3, <2>7 DEF v
<1>3. CASE type \in {"cstr", "i[]", "u[]", "ptr[]"}
  <2>1. l \in Seq(Int) /\ r \in Seq(Int)
    BY <1>3 DEF OperandsOf
  <2>2. CompareAs(type, l, r) = CompareArrays(l, r)
    BY <1>3 DEF CompareAs, CompareStrings
  <2>3. /\ Same(type, l, r) <=> l = r
        /\ Before(type, l, r) <=> Precedes(l, r)
        /\ Before(type, r, l) <=> Precedes(r, l)
    BY <1>3 DEF Same, Before
  <2>4. /\ Precedes(l, r) <=> <<l, r>> \in LessStrings
        /\ Precedes(r, l) <=> <<r, l>> \in LessStrings
    BY <2>1, ArraysPrecede
  <2>5. Tells(CompareArrays(l, r), l, r, LessStrings)
    BY <2>1, ArraysTell
  <2> QED BY <2>2, <2>3, <2>4, <2>5 DEF Judges, Tells
<1>4. CASE type = "cstr[]"
  <2>1. l \in Seq(Seq(Int)) /\ r \in Seq(Seq(Int))
    BY <1>4 DEF OperandsOf
  <2>2. CompareAs(type, l, r) = CompareStringArrays(l, r)
    BY <1>4 DEF CompareAs
  <2>3. /\ Same(type, l, r) <=> l = r
        /\ Before(type, l, r) <=> StringsPrecede(l, r)
        /\ Before(type, r, l) <=> StringsPrecede(r, l)
    BY <1>4 DEF Same, Before
  <2> DEFINE R == Lexicographic(Seq(Int), LessStrings)
  <2>4. /\ StringsPrecede(l, r) <=> <<l, r>> \in R
        /\ StringsPrecede(r, l) <=> <<r, l>> \in R
    BY <2>1, StringArraysPrecede
  <2>5. Tells(CompareStringArrays(l, r), l, r, R)
    BY <2>1, StringArraysTell
  <2> HIDE DEF R
  <2> QED BY <2>2, <2>3, <2>4, <2>5 DEF Judges, Tells
<1> QED BY <1>1, <1>2, <1>3, <1>4 DEF CmpTypes

\* What unit_add_assertion() and assertion_raise() make of a list: a failure
\* that is not a success too, one success, or nothing.
Passes(list, n) == AddAssertion(list) = [passed |-> n, failed |-> 0, ok |-> TRUE]
FailsOnly(list) ==
  /\ AddAssertion(list).passed = 0 /\ AddAssertion(list).failed \in Nat \ {0}
  /\ AddAssertion(list).ok = FALSE /\ Raise(list, "none").aborts = TRUE

LEMMA ListFacts ==
  ASSUME NEW T, NEW q \in Seq(T)
  PROVE  /\ Len(q) \in Nat /\ DOMAIN q = 1 .. Len(q) /\ Cardinality(1 .. Len(q)) = Len(q)
         /\ q # <<>> => Len(q) # 0 /\ Head(q) = q[1] /\ 1 \in 1 .. Len(q)
<1>1. Len(q) \in Nat /\ DOMAIN q = 1 .. Len(q) /\ (q # <<>> => Len(q) # 0 /\ Head(q) = q[1])
  OBVIOUS
<1> DEFINE n == Len(q)
<1>2. n \in Nat
  BY <1>1
<1> HIDE DEF n
<1>3. Cardinality(1 .. n) = n /\ (n # 0 => 1 \in 1 .. n)
  BY ONLY <1>2, FS_Interval
<1> QED BY <1>1, <1>3 DEF n

LEMMA AllPass ==
  ASSUME NEW q \in Seq(BOOLEAN), \A j \in 1 .. Len(q) : q[j] = TRUE
  PROVE  Passes(q, Len(q)) /\ Raise(q, "none").aborts = FALSE
<1> DEFINE n == Len(q)
<1>1. /\ n \in Nat /\ DOMAIN q = 1 .. n /\ Cardinality(1 .. n) = n
      /\ q # <<>> => n # 0 /\ Head(q) = q[1] /\ 1 \in 1 .. n
  BY ONLY q \in Seq(BOOLEAN), ListFacts
<1>2. \A j \in 1 .. n : q[j] = TRUE
  OBVIOUS
<1> HIDE DEF n
<1>3. {j \in 1 .. n : q[j]} = 1 .. n /\ {j \in 1 .. n : ~q[j]} = {} /\ \A j \in 1 .. n : q[j]
  BY ONLY <1>2, ZenonT(30)
<1>4. Cardinality({}) = 0
  BY FS_EmptySet
<1>5. q # <<>> => Head(q) = TRUE
  BY ONLY <1>1, <1>2, Zenon
<1>6. Passes(q, n)
  BY ONLY <1>1, <1>3, <1>4 DEF Passes, AddAssertion
<1>7. Raise(q, "none").aborts = FALSE
  BY ONLY <1>5 DEF Raise
<1> QED BY ONLY <1>6, <1>7 DEF n

LEMMA AllFail ==
  ASSUME NEW q \in Seq(BOOLEAN), q # <<>>, \A j \in 1 .. Len(q) : q[j] = FALSE
  PROVE  FailsOnly(q)
<1> DEFINE n == Len(q)
<1>1. /\ n \in Nat /\ DOMAIN q = 1 .. n /\ Cardinality(1 .. n) = n
      /\ q # <<>> => n # 0 /\ Head(q) = q[1] /\ 1 \in 1 .. n
  BY ONLY q \in Seq(BOOLEAN), ListFacts
<1>2. q # <<>> /\ \A j \in 1 .. n : q[j] = FALSE
  OBVIOUS
<1> HIDE DEF n
<1>3. {j \in 1 .. n : q[j]} = {} /\ {j \in 1 .. n : ~q[j]} = 1 .. n
  BY ONLY <1>2, ZenonT(30)
<1>4. ~\A j \in 1 .. n : q[j]
  BY ONLY <1>1, <1>2, ZenonT(30)
<1>5. Cardinality({}) = 0
  BY FS_EmptySet
<1>6. Head(q) = FALSE
  BY ONLY <1>1, <1>2, Zenon
<1>7. AddAssertion(q) = [passed |-> 0, failed |-> n, ok |-> FALSE]
  BY ONLY <1>1, <1>3, <1>4, <1>5 DEF AddAssertion
<1>8. Raise(q, "none").aborts = TRUE
  BY ONLY <1>2, <1>6 DEF Raise
<1>9. n \in Nat \ {0}
  BY ONLY <1>1, <1>2
<1> QED BY ONLY <1>7, <1>8, <1>9 DEF FailsOnly

LEMMA OneAssertion ==
  /\ Passes(<<>>, 0) /\ Raise(<<>>, "none").aborts = FALSE
  /\ Passes(<<TRUE>>, 1) /\ Raise(<<TRUE>>, "none").aborts = FALSE
  /\ FailsOnly(<<FALSE>>)
<1>1. ASSUME NEW b \in BOOLEAN
      PROVE  <<b>> \in Seq(BOOLEAN) /\ Len(<<b>>) = 1 /\ <<b>> # <<>> /\ <<b>>[1] = b
  OBVIOUS
<1>2. <<>> \in Seq(BOOLEAN) /\ Len(<<>>) = 0
  OBVIOUS
<1>3. \A j \in 1 .. 1 : j = 1
  OBVIOUS
<1>4. Passes(<<>>, 0) /\ Raise(<<>>, "none").aborts = FALSE
  <2> DEFINE q == <<>>
  <2>1. q \in Seq(BOOLEAN) /\ Len(q) = 0
    BY <1>2
  <2> HIDE DEF q
  <2>2. \A j \in 1 .. Len(q) : q[j] = TRUE
    BY <2>1
  <2> QED BY <2>1, <2>2, AllPass DEF q
<1>5. Passes(<<TRUE>>, 1) /\ Raise(<<TRUE>>, "none").aborts = FALSE
  <2> DEFINE q == <<TRUE>>
  <2>1. q \in Seq(BOOLEAN) /\ Len(q) = 1 /\ q[1] = TRUE
    BY <1>1
  <2> HIDE DEF q
  <2> QED BY <1>3, <2>1, AllPass DEF q
<1>6. FailsOnly(<<FALSE>>)
  <2> DEFINE q == <<FALSE>>
  <2>1. q \in Seq(BOOLEAN) /\ Len(q) = 1 /\ q # <<>> /\ q[1] = FALSE
    BY <1>1
  <2> HIDE DEF q
  <2> QED BY <1>3, <2>1, AllFail DEF q
<1> QED BY <1>4, <1>5, <1>6

LEMMA MemcheckAssertions ==
  ASSUME NEW n \in Nat \ {0}
  PROVE  FailsOnly([j \in 1 .. n |-> FALSE])
<1> DEFINE q == [j \in 1 .. n |-> FALSE]
<1>1. DOMAIN q = 1 .. n /\ \A j \in 1 .. n : q[j] = FALSE
  OBVIOUS
<1>2. q \in [1 .. n -> BOOLEAN]
  OBVIOUS
<1> HIDE DEF q
<1>3. q \in Seq(BOOLEAN) /\ Len(q) = n
  BY <1>1, <1>2
<1>4. q # <<>>
  BY <1>3
<1> QED BY <1>1, <1>3, <1>4, AllFail DEF q

LEMMA OperatorsAreMeant ==
  ASSUME NEW st, st.type \in CmpTypes, st.op \in Ops, NEW c, Judges(c, st.type, st.lhs, st.rhs)
  PROVE  Fulfils(st.op, c) <=> IsTrue(st)
<1> DEFINE same == Same(st.type, st.lhs, st.rhs)
           less == Before(st.type, st.lhs, st.rhs)
           more == Before(st.type, st.rhs, st.lhs)
<1>1. st.type # "memcheck" /\ st.type # "true" /\ st.type # "false"
  BY DEF CmpTypes
<1>2. c \in Int /\ (c = 0 <=> same) /\ (c < 0 <=> less) /\ (c > 0 <=> more)
  BY DEF Judges
<1>3. CASE st.op = "=="
  <2>1. IsTrue(st) <=> same
    BY <1>1, <1>3 DEF IsTrue
  <2> HIDE DEF same
  <2> QED BY <1>2, <1>3, <2>1 DEF Fulfils
<1>4. CASE st.op = "!="
  <2>1. IsTrue(st) <=> ~same
    BY <1>1, <1>4 DEF IsTrue
  <2> HIDE DEF same
  <2> QED BY <1>2, <1>4, <2>1 DEF Fulfils
<1>5. CASE st.op = "<"
  <2>1. IsTrue(st) <=> less
    BY <1>1, <1>5 DEF IsTrue
  <2> HIDE DEF less
  <2> QED BY <1>2, <1>5, <2>1 DEF Fulfils
<1>6. CASE st.op = ">"
  <2>1. IsTrue(st) <=> more
    BY <1>1, <1>6 DEF IsTrue
  <2> HIDE DEF more
  <2> QED BY <1>2, <1>6, <2>1 DEF Fulfils
<1>7. CASE st.op = "<="
  <2>1. IsTrue(st) <=> ~more
    BY <1>1, <1>7 DEF IsTrue
  <2>2. c <= 0 <=> ~(c > 0)
    BY <1>2
  <2> HIDE DEF more
  <2> QED BY <1>2, <1>7, <2>1, <2>2 DEF Fulfils
<1>8. CASE st.op = ">="
  <2>1. IsTrue(st) <=> ~less
    BY <1>1, <1>8 DEF IsTrue
  <2>2. c >= 0 <=> ~(c < 0)
    BY <1>2
  <2> HIDE DEF less
  <2> QED BY <1>2, <1>8, <2>1, <2>2 DEF Fulfils
<1> QED BY <1>3, <1>4, <1>5, <1>6, <1>7, <1>8 DEF Ops

\* A statement that holds makes a success if it is an ASSERT, and nothing if
\* not; one that does not hold makes failures.
Worth(st) == IF st.macro = "ASSERT" /\ st.type # "memcheck" THEN 1 ELSE 0
SaysWhatHolds(st) ==
  /\ IsTrue(st) => Passes(Made(st), Worth(st)) /\ Raise(Made(st), "none").aborts = FALSE
  /\ ~IsTrue(st) => FailsOnly(Made(st))

\* A statement of a test is counted as what it says of its operands, as the
\* macros of unit_test.h and the comparisons of assertion.c judge them.
THEOREM StatementsAreRight ==
  ASSUME NEW st, WellFormed(st)
  PROVE  SaysWhatHolds(st)
<1> DEFINE q == Made(st)  on == st.macro # "ASSERT"
<1>1. ASSUME NEW b \in BOOLEAN, q = Assertion(b, on), b <=> IsTrue(st), st.type # "memcheck"
      PROVE  SaysWhatHolds(st)
  <2>1. CASE IsTrue(st)
    <3>1. q = IF on THEN <<>> ELSE <<TRUE>>
      BY <1>1, <2>1 DEF Assertion
    <3>2. Worth(st) = IF on THEN 0 ELSE 1
      BY <1>1 DEF Worth
    <3>3. Passes(q, Worth(st))
      BY <3>1, <3>2, OneAssertion
    <3>4. Raise(q, "none").aborts = FALSE
      BY <3>1, OneAssertion
    <3> QED BY <2>1, <3>3, <3>4 DEF SaysWhatHolds
  <2>2. CASE ~IsTrue(st)
    <3>1. b = FALSE
      BY <1>1, <2>2
    <3>3. Assertion(FALSE, on) = <<FALSE>>
      BY DEF Assertion
    <3>4. q = <<FALSE>>
      BY <1>1, <3>1, <3>3
    <3>2. FailsOnly(q)
      BY <3>4, OneAssertion
    <3> QED BY <2>2, <3>2 DEF SaysWhatHolds
  <2> QED BY <2>1, <2>2
<1>2. CASE st.type \in CmpTypes /\ st.op \in Ops /\ {st.lhs, st.rhs} \subseteq OperandsOf(st.type)
  <2> DEFINE b == Fulfils(st.op, CompareAs(st.type, st.lhs, st.rhs))
  <2>1. Judges(CompareAs(st.type, st.lhs, st.rhs), st.type, st.lhs, st.rhs)
    BY <1>2, CompareJudges
  <2>2. b <=> IsTrue(st)
    BY <1>2, <2>1, OperatorsAreMeant
  <2>3. q = Assertion(b, on)
    BY <1>2 DEF Made, CmpTypes, CreateCmp, CreateCmpArr
  <2>4. st.type # "memcheck" /\ b \in BOOLEAN
    BY <1>2 DEF CmpTypes, Fulfils
  <2> HIDE DEF b, q, on
  <2> QED BY <1>1, <2>2, <2>3, <2>4
<1>3. CASE st.type = "true" /\ st.op = ""
  <2> DEFINE b == st.lhs # 0
  <2>1. q = Assertion(b, on)
    BY <1>3 DEF Made, CreateTrue
  <2>2. b <=> IsTrue(st)
    BY <1>3 DEF IsTrue
  <2>3. b \in BOOLEAN /\ st.type # "memcheck"
    BY <1>3
  <2> HIDE DEF b, q, on
  <2> QED BY <1>1, <2>1, <2>2, <2>3
<1>4. CASE st.type = "false" /\ st.op = ""
  <2> DEFINE b == st.lhs = 0
  <2>1. q = Assertion(b, on)
    BY <1>4 DEF Made, CreateFalse
  <2>2. b <=> IsTrue(st)
    BY <1>4 DEF IsTrue
  <2>3. b \in BOOLEAN /\ st.type # "memcheck"
    BY <1>4
  <2> HIDE DEF b, q, on
  <2> QED BY <1>1, <2>1, <2>2, <2>3
<1>5. CASE st.type = "memcheck" /\ st.op = "" /\ st.lhs \in Nat
  <2>4. q = [j \in 1 .. st.lhs |-> FALSE]
    BY <1>5 DEF Made
  <2>5. IsTrue(st) <=> st.lhs = 0
    BY <1>5 DEF IsTrue
  <2>1. q = [j \in 1 .. st.lhs |-> FALSE] /\ (IsTrue(st) <=> st.lhs = 0) /\ Worth(st) = 0
    BY <1>5, <2>4, <2>5 DEF Worth
  <2>2. CASE st.lhs = 0
    <3>1. [j \in 1 .. 0 |-> FALSE] = <<>>
      OBVIOUS
    <3>2. q = <<>>
      BY <2>1, <2>2, <3>1
    <3> HIDE DEF q
    <3> QED BY <2>1, <2>2, <3>2, OneAssertion DEF SaysWhatHolds, q
  <2>3. CASE st.lhs # 0
    <3>1. FailsOnly(q)
      BY <1>5, <2>1, <2>3, MemcheckAssertions
    <3> QED BY <2>1, <2>3, <3>1 DEF SaysWhatHolds
  <2> QED BY <2>2, <2>3
<1> QED BY <1>2, <1>3, <1>4, <1>5 DEF WellFormed

---------------------------------------------------------------------------
(* A test.                                                                 *)

\* What is known of the body b of a test before its statement k: who failed,
\* who was counted, and that no REQUIRE failed.
Blames(b, j) == ~IsTrue(b[j]) /\ b[j].macro \in {"ASSERT", "CHECK"}
Counts(b, j) == \/ Blames(b, j)
                \/ b[j].macro = "ASSERT" /\ b[j].type # "memcheck"
Progress(b, k, p, f) ==
  /\ k \in 1 .. Len(b) + 1 /\ p \in Nat /\ f \in Nat
  /\ k \in Reached(b) \/ k = Len(b) + 1
  /\ f > 0 <=> \E j \in Reached(b) : j < k /\ Blames(b, j)
  /\ p + f > 0 <=> \E j \in Reached(b) : j < k /\ Counts(b, j)
  /\ \A j \in Reached(b) : j < k => IsTrue(b[j]) \/ b[j].macro # "REQUIRE"

LEMMA BodyFacts ==
  ASSUME NEW b \in Bodies
  PROVE  /\ Len(b) \in Nat /\ DOMAIN b = 1 .. Len(b) /\ Reached(b) \subseteq 1 .. Len(b)
         /\ \A j \in 1 .. Len(b) : WellFormed(b[j])
<1>1. b \in Seq(ToSet(b)) /\ \A j \in DOMAIN b : WellFormed(b[j])
  BY TestsAssumption
<1>2. Len(b) \in Nat /\ DOMAIN b = 1 .. Len(b)
  BY <1>1
<1> QED BY <1>1, <1>2 DEF Reached

LEMMA TestBegins ==
  ASSUME NEW b \in Bodies
  PROVE  Progress(b, 1, 0, 0)
<1>1. 1 \in Reached(b) \/ 1 = Len(b) + 1
  BY BodyFacts DEF Reached
<1>2. \A j \in Reached(b) : ~(j < 1)
  BY BodyFacts
<1> QED BY <1>1, <1>2, BodyFacts DEF Progress

\* At the end the test has failed or shown something if its body does.
LEMMA TestEnds ==
  ASSUME NEW b \in Bodies, NEW p, NEW f, NEW k, k > Len(b), Progress(b, k, p, f)
  PROVE  /\ f > 0 <=> Fails(b)
         /\ p + f > 0 <=> Shows(b)
         /\ "REQUIRE" \notin Failing(b)
<1>1. /\ \A j \in Reached(b) : j < k
      /\ \A j \in Reached(b) : b[j].macro \in {"ASSERT", "CHECK", "REQUIRE"}
  <2>1. k = Len(b) + 1 /\ Len(b) \in Nat
    BY BodyFacts DEF Progress
  <2> SUFFICES ASSUME NEW j \in Reached(b)
               PROVE  j < k /\ b[j].macro \in {"ASSERT", "CHECK", "REQUIRE"}
    OBVIOUS
  <2>2. j \in 1 .. Len(b)
    BY BodyFacts
  <2>3. WellFormed(b[j])
    BY <2>2, BodyFacts
  <2>4. j < k
    BY <2>1, <2>2
  <2>5. b[j].macro \in {"ASSERT", "CHECK", "REQUIRE"}
    BY ONLY <2>3 DEF WellFormed
  <2> QED BY <2>4, <2>5
<1>2. Fails(b) <=> \E j \in Reached(b) : Blames(b, j)
  BY DEF Fails, Failing, Blames
<1>3. Shows(b) <=> \E j \in Reached(b) : Counts(b, j)
  BY <1>2 DEF Shows, Counts
<1>4. f > 0 <=> Fails(b)
  BY <1>1, <1>2 DEF Progress
<1>5. p + f > 0 <=> Shows(b)
  BY <1>1, <1>3 DEF Progress
<1>6. "REQUIRE" \notin Failing(b)
  BY <1>1 DEF Progress, Failing
<1> QED BY <1>4, <1>5, <1>6

\* What a statement adds to the counters, and where it goes on.
Added(st) == AddAssertion(IF st.macro = "REQUIRE" THEN <<>> ELSE Made(st))
Following(b, k) == IF b[k].macro = "ASSERT" /\ ~Added(b[k]).ok THEN Len(b) + 1 ELSE k + 1
Aborts(st) == st.macro = "REQUIRE" /\ Raise(Made(st), "none").aborts

LEMMA AddedFacts ==
  ASSUME NEW st, WellFormed(st), ~Aborts(st)
  PROVE  /\ Added(st).passed \in Nat /\ Added(st).failed \in Nat
         /\ Added(st).failed > 0 <=> ~IsTrue(st) /\ st.macro \in {"ASSERT", "CHECK"}
         /\ Added(st).passed + Added(st).failed > 0 <=>
              \/ ~IsTrue(st) /\ st.macro \in {"ASSERT", "CHECK"}
              \/ st.macro = "ASSERT" /\ st.type # "memcheck"
         /\ st.macro = "ASSERT" => (Added(st).ok <=> IsTrue(st))
         /\ st.macro = "REQUIRE" => IsTrue(st)
<1>1. SaysWhatHolds(st)
  BY StatementsAreRight
<1>2. st.macro \in {"ASSERT", "CHECK", "REQUIRE"}
  BY DEF WellFormed
<1>3. CASE st.macro = "REQUIRE"
  <2>1. Added(st) = [passed |-> 0, failed |-> 0, ok |-> TRUE]
    BY <1>3, OneAssertion DEF Added, Passes
  <2>2. IsTrue(st)
    BY <1>1, <1>3 DEF SaysWhatHolds, FailsOnly, Aborts
  <2> QED BY <1>3, <2>1, <2>2
<1>4. CASE st.macro # "REQUIRE" /\ IsTrue(st)
  <2>1. Added(st) = [passed |-> Worth(st), failed |-> 0, ok |-> TRUE]
    BY <1>1, <1>4 DEF SaysWhatHolds, Passes, Added
  <2>2. Worth(st) \in Nat /\ (Worth(st) > 0 <=> st.macro = "ASSERT" /\ st.type # "memcheck")
    BY DEF Worth
  <2> QED BY <1>4, <2>1, <2>2
<1>5. CASE st.macro # "REQUIRE" /\ ~IsTrue(st)
  <2>1. Added(st).passed = 0 /\ Added(st).failed \in Nat \ {0} /\ Added(st).ok = FALSE
    BY <1>1, <1>5 DEF SaysWhatHolds, FailsOnly, Added
  <2> QED BY <1>2, <1>5, <2>1
<1> QED BY <1>3, <1>4, <1>5

LEMMA StatementProgresses ==
  ASSUME NEW b \in Bodies, NEW p, NEW f, NEW k, k <= Len(b), Progress(b, k, p, f), ~Aborts(b[k])
  PROVE  Progress(b, Following(b, k), p + Added(b[k]).passed, f + Added(b[k]).failed)
<1> DEFINE st == b[k]  a == Added(st)  m == Following(b, k)
<1>1. Len(b) \in Nat /\ k \in 1 .. Len(b) /\ k \in Reached(b) /\ WellFormed(st)
      /\ p \in Nat /\ f \in Nat
  BY BodyFacts DEF Progress
<1>2. /\ a.passed \in Nat /\ a.failed \in Nat
      /\ a.failed > 0 <=> Blames(b, k)
      /\ a.passed + a.failed > 0 <=> Counts(b, k)
      /\ st.macro = "ASSERT" => (a.ok <=> IsTrue(st))
      /\ st.macro = "REQUIRE" => IsTrue(st)
  <2> HIDE DEF a
  <2>1. st.macro \in {"ASSERT", "CHECK", "REQUIRE"}
    BY <1>1 DEF WellFormed
  <2> QED BY <1>1, AddedFacts DEF a, Blames, Counts
<1>3. m = IF st.macro = "ASSERT" /\ ~IsTrue(st) THEN Len(b) + 1 ELSE k + 1
  BY <1>2 DEF Following
<1>4. m \in 1 .. Len(b) + 1 /\ k < m
  BY <1>1, <1>3
<1>5. m \in Reached(b) \/ m = Len(b) + 1
  <2> SUFFICES ASSUME m # Len(b) + 1 PROVE m \in Reached(b)
    OBVIOUS
  <2>1. m = k + 1 /\ m \in 1 .. Len(b) /\ (st.macro # "CHECK" => IsTrue(st))
    <3>1. st.macro \in {"ASSERT", "CHECK", "REQUIRE"}
      BY <1>1 DEF WellFormed
    <3> QED BY <1>1, <1>2, <1>3, <1>4, <3>1
  <2>2. \A h \in 1 .. k - 1 : b[h].macro # "CHECK" => IsTrue(b[h])
    BY <1>1 DEF Reached
  <2>3. ASSUME NEW h \in 1 .. m - 1 PROVE h = k \/ h \in 1 .. k - 1
    BY <1>1, <2>1
  <2>4. \A h \in 1 .. m - 1 : b[h].macro # "CHECK" => IsTrue(b[h])
    BY <2>1, <2>2, <2>3
  <2> QED BY <2>1, <2>4, BodyFacts DEF Reached
<1>6. ASSUME NEW j \in Reached(b) PROVE j < m <=> j < k \/ j = k
  <2>1. j \in 1 .. Len(b)
    BY BodyFacts
  <2>2. CASE m = k + 1
    BY <1>1, <2>1, <2>2
  <2>3. CASE st.macro = "ASSERT" /\ ~IsTrue(st)
    <3>1. ~(k < j)
      <4> SUFFICES ASSUME k < j PROVE FALSE
        OBVIOUS
      <4>1. k \in 1 .. j - 1
        BY <1>1, <2>1
      <4>2. b[k].macro # "CHECK" => IsTrue(b[k])
        BY <4>1 DEF Reached
      <4> QED BY <2>3, <4>2
    <3> QED BY <1>1, <1>4, <2>1, <3>1
  <2> QED BY <1>3, <2>2, <2>3
<1>7. f + a.failed > 0 <=> \E j \in Reached(b) : j < m /\ Blames(b, j)
  <2>1. f + a.failed > 0 <=> f > 0 \/ a.failed > 0
    BY <1>1, <1>2
  <2>2. f > 0 <=> \E j \in Reached(b) : j < k /\ Blames(b, j)
    BY DEF Progress
  <2> HIDE DEF a, m
  <2> QED BY <1>1, <1>2, <1>6, <2>1, <2>2
<1>8. (p + a.passed) + (f + a.failed) > 0 <=> \E j \in Reached(b) : j < m /\ Counts(b, j)
  <2>1. (p + a.passed) + (f + a.failed) > 0 <=> p + f > 0 \/ a.passed + a.failed > 0
    BY <1>1, <1>2
  <2>2. p + f > 0 <=> \E j \in Reached(b) : j < k /\ Counts(b, j)
    BY DEF Progress
  <2> HIDE DEF a, m
  <2> QED BY <1>1, <1>2, <1>6, <2>1, <2>2
<1>9. \A j \in Reached(b) : j < m => IsTrue(b[j]) \/ b[j].macro # "REQUIRE"
  <2> HIDE DEF a, m
  <2> QED BY <1>2, <1>6 DEF Progress
<1>10. p + a.passed \in Nat /\ f + a.failed \in Nat
  BY <1>1, <1>2
<1> HIDE DEF a, m
<1>11. Progress(b, m, p + a.passed, f + a.failed)
  BY <1>4, <1>5, <1>7, <1>8, <1>9, <1>10 DEF Progress
<1> QED BY <1>11 DEF a, m

---------------------------------------------------------------------------
(* The report.                                                             *)

Suites == [name : SuiteNames, tests : Seq(Bodies), active : BOOLEAN]
ActiveIn(q) == {j \in DOMAIN q : q[j].active}
PairsOf(q, S) == UNION {{j} \X DOMAIN q[j].tests : j \in S}
BodyIn(q, x) == q[x[1]].tests[x[2]]

\* The tests of q that have been run before test n of suite m, and of these the
\* ones that fail, that pass and that show nothing.
Ran(q, m, n) == {x \in PairsOf(q, ActiveIn(q)) : x[1] < m \/ (x[1] = m /\ x[2] < n)}
FailIn(q, R)  == {x \in R : Fails(BodyIn(q, x))}
PassIn(q, R)  == {x \in R : Shows(BodyIn(q, x)) /\ ~Fails(BodyIn(q, x))}
EmptyIn(q, R) == {x \in R : ~Shows(BodyIn(q, x))}

\* The suites before m that fail, and that have no test; the tests of those that
\* are not active.
FailedSuites(q, m) == {j \in ActiveIn(q) : j < m /\ \E b \in ToSet(q[j].tests) : Fails(b)}
EmptySuites(q, m)  == {j \in ActiveIn(q) : j < m /\ q[j].tests = <<>>}
Skipped(q, m)      == PairsOf(q, {j \in DOMAIN q \ ActiveIn(q) : j < m})

TestCounts(q, R, c) ==
  /\ c.tests_failed = Cardinality(FailIn(q, R))
  /\ c.tests_passed = Cardinality(PassIn(q, R))
  /\ c.tests_without = Cardinality(EmptyIn(q, R))
  /\ c.assertions_failed > 0 <=> FailIn(q, R) # {}
  /\ \A x \in R : "REQUIRE" \notin Failing(BodyIn(q, x))
SuiteCounts(q, m, c) ==
  /\ c.tests_deactivated = Cardinality(Skipped(q, m))
  /\ c.suites_failed = Cardinality(FailedSuites(q, m))
  /\ c.suites_without = Cardinality(EmptySuites(q, m))
  /\ c.suites_passed + c.suites_failed + c.suites_without + c.suites_deactivated = m - 1
Report(q, m, n, c) ==
  c \in [DOMAIN NoCounts -> Nat] /\ TestCounts(q, Ran(q, m, n), c) /\ SuiteCounts(q, m, c)

LEMMA SuitesFacts ==
  ASSUME NEW q \in Seq(Suites)
  PROVE  /\ Len(q) \in Nat /\ DOMAIN q = 1 .. Len(q) /\ ActiveIn(q) \subseteq 1 .. Len(q)
         /\ \A j \in 1 .. Len(q) : /\ q[j] \in Suites /\ q[j].active \in BOOLEAN
                                  /\ q[j].tests \in Seq(Bodies)
<1>1. Len(q) \in Nat /\ DOMAIN q = 1 .. Len(q) /\ \A j \in 1 .. Len(q) : q[j] \in Suites
  OBVIOUS
<1> QED BY <1>1 DEF Suites, ActiveIn

LEMMA TestsFacts ==
  ASSUME NEW t \in Seq(Bodies)
  PROVE  /\ Len(t) \in Nat /\ DOMAIN t = 1 .. Len(t) /\ \A n \in 1 .. Len(t) : t[n] \in Bodies
         /\ ToSet(t) = {t[n] : n \in 1 .. Len(t)}
  BY DEF ToSet

\* The tests of one suite, and of all, are finitely many.
LEMMA PairsOfOne ==
  ASSUME NEW j, NEW n \in Nat
  PROVE  IsFiniteSet({j} \X (1 .. n)) /\ Cardinality({j} \X (1 .. n)) = n
<1> DEFINE f == [h \in 1 .. n |-> <<j, h>>]
<1>1. f \in Bijection(1 .. n, {j} \X (1 .. n))
  <2>1. f \in [1 .. n -> {j} \X (1 .. n)]
    OBVIOUS
  <2>2. \A a, b \in 1 .. n : f[a] = f[b] => a = b
    OBVIOUS
  <2>3. \A x \in {j} \X (1 .. n) : \E a \in 1 .. n : f[a] = x
    OBVIOUS
  <2> QED BY <2>1, <2>2, <2>3 DEF Bijection, Injection, Surjection, IsInjective
<1>2. IsFiniteSet(1 .. n) /\ Cardinality(1 .. n) = n
  BY FS_Interval
<1> QED BY <1>1, <1>2, FS_Bijection DEF ExistsBijection

LEMMA PairsAreFinite ==
  ASSUME NEW q \in Seq(Suites), NEW S \in SUBSET (1 .. Len(q))
  PROVE  IsFiniteSet(PairsOf(q, S))
<1> DEFINE L == Len(q)
           P(m) == PairsOf(q, {j \in S : j <= m})
           D == {m \in Nat : m <= L => IsFiniteSet(P(m))}
<1>1. L \in Nat /\ \A j \in 1 .. L : q[j].tests \in Seq(Bodies)
  BY SuitesFacts
<1> HIDE DEF L
<1>2. 0 \in D
  <2>0. \A j \in S : ~(j <= 0)
    BY DEF L
  <2>1. {j \in S : j <= 0} = {}
    BY <2>0
  <2>2. P(0) = {}
    BY <2>1 DEF PairsOf
  <2> QED BY <2>2, FS_EmptySet
<1>3. ASSUME NEW m \in Nat, m \in D PROVE m + 1 \in D
  <2> SUFFICES ASSUME m + 1 <= L PROVE IsFiniteSet(P(m + 1))
    OBVIOUS
  <2>1. IsFiniteSet(P(m))
    BY <1>1, <1>3
  <2> DEFINE n == Len(q[m + 1].tests)  T == {m + 1} \X (1 .. n)
  <2>2. DOMAIN q[m + 1].tests = 1 .. n /\ n \in Nat
    BY <1>1, TestsFacts
  <2> HIDE DEF n
  <2>3. IsFiniteSet(T)
    BY <2>2, PairsOfOne
  <2>4. P(m + 1) \subseteq P(m) \cup T
    <3> SUFFICES ASSUME NEW j \in S, j <= m + 1, NEW x \in {j} \X DOMAIN q[j].tests
                 PROVE  x \in P(m) \/ x \in T
      BY DEF PairsOf
    <3>1. j <= m \/ j = m + 1
      BY DEF L
    <3> QED BY <2>2, <3>1 DEF PairsOf
  <2> HIDE DEF P, T
  <2>5. IsFiniteSet(P(m) \cup T)
    BY <2>1, <2>3, FS_Union
  <2> QED BY <2>4, <2>5, FS_Subset
<1>4. L \in D
  <2> HIDE DEF D
  <2> QED BY <1>1, <1>2, <1>3, NatSetInduction
<1>5. \A j \in S : j <= L
  BY <1>1 DEF L
<1>6. {j \in S : j <= L} = S
  BY <1>5
<1>7. IsFiniteSet(P(L))
  <2> HIDE DEF P
  <2> QED BY <1>1, <1>4
<1> QED BY <1>6, <1>7


LEMMA RanFacts ==
  ASSUME NEW q \in Seq(Suites), NEW m, NEW n
  PROVE  /\ IsFiniteSet(Ran(q, m, n))
         /\ \A x \in Ran(q, m, n) : /\ x[1] \in ActiveIn(q)
                                    /\ x[2] \in 1 .. Len(q[x[1]].tests)
                                    /\ x = <<x[1], x[2]>>
                                    /\ BodyIn(q, x) \in Bodies
<1>1. ActiveIn(q) \subseteq 1 .. Len(q)
  BY SuitesFacts
<1>2. IsFiniteSet(PairsOf(q, ActiveIn(q)))
  BY <1>1, PairsAreFinite
<1>3. Ran(q, m, n) \subseteq PairsOf(q, ActiveIn(q))
  BY DEF Ran
<1>4. ASSUME NEW x \in PairsOf(q, ActiveIn(q))
      PROVE  /\ x[1] \in ActiveIn(q) /\ x[2] \in 1 .. Len(q[x[1]].tests)
             /\ x = <<x[1], x[2]>> /\ BodyIn(q, x) \in Bodies
  <2>1. PICK j \in ActiveIn(q) : x \in {j} \X DOMAIN q[j].tests
    BY DEF PairsOf
  <2>2. q[j].tests \in Seq(Bodies)
    BY <1>1, SuitesFacts
  <2>3. DOMAIN q[j].tests = 1 .. Len(q[j].tests)
        /\ \A h \in 1 .. Len(q[j].tests) : q[j].tests[h] \in Bodies
    BY <2>2, TestsFacts
  <2>4. x[1] = j /\ x[2] \in DOMAIN q[j].tests /\ x = <<x[1], x[2]>>
    BY <2>1
  <2>5. BodyIn(q, x) = q[j].tests[x[2]]
    BY <2>4 DEF BodyIn
  <2> QED BY <2>3, <2>4, <2>5
<1> QED BY <1>2, <1>3, <1>4, FS_Subset

\* The end of a test adds it to those that have been run.
Adds(q, m, n) ==
  /\ Ran(q, m, n + 1) = Ran(q, m, n) \cup {<<m, n>>}
  /\ <<m, n>> \notin Ran(q, m, n)
  /\ BodyIn(q, <<m, n>>) = q[m].tests[n]
  /\ q[m].tests[n] \in Bodies

LEMMA OneMoreTest ==
  ASSUME NEW q \in Seq(Suites), NEW m \in ActiveIn(q), NEW n \in 1 .. Len(q[m].tests)
  PROVE  Adds(q, m, n)
<1>1. m \in 1 .. Len(q) /\ Len(q) \in Nat /\ q[m].tests \in Seq(Bodies)
  BY SuitesFacts
<1>2. DOMAIN q[m].tests = 1 .. Len(q[m].tests) /\ q[m].tests[n] \in Bodies /\ n \in Nat
  BY <1>1, TestsFacts
<1>3. BodyIn(q, <<m, n>>) = q[m].tests[n]
  BY DEF BodyIn
<1>4. <<m, n>> \notin Ran(q, m, n)
  BY <1>1, <1>2 DEF Ran
<1>5. <<m, n>> \in Ran(q, m, n + 1)
  <2>1. <<m, n>> \in {m} \X DOMAIN q[m].tests
    BY <1>2
  <2>2. <<m, n>> \in PairsOf(q, ActiveIn(q))
    BY <2>1 DEF PairsOf
  <2> QED BY <1>2, <2>2 DEF Ran
<1>6. Ran(q, m, n) \subseteq Ran(q, m, n + 1)
  <2> SUFFICES ASSUME NEW x \in Ran(q, m, n) PROVE x \in Ran(q, m, n + 1)
    OBVIOUS
  <2>1. x[2] \in Int
    BY RanFacts
  <2> QED BY <1>2, <2>1 DEF Ran
<1>7. ASSUME NEW x \in Ran(q, m, n + 1) PROVE x \in Ran(q, m, n) \/ x = <<m, n>>
  <2>1. x[2] \in Int /\ x = <<x[1], x[2]>>
    BY RanFacts
  <2>2. x \in PairsOf(q, ActiveIn(q)) /\ (x[1] < m \/ (x[1] = m /\ x[2] < n + 1))
    BY DEF Ran
  <2>3. x[2] < n + 1 <=> x[2] < n \/ x[2] = n
    BY <1>2, <2>1
  <2> QED BY <2>1, <2>2, <2>3 DEF Ran
<1>8. Ran(q, m, n + 1) = Ran(q, m, n) \cup {<<m, n>>}
  BY <1>5, <1>6, <1>7
<1> QED BY <1>2, <1>3, <1>4, <1>8 DEF Adds

Counters == DOMAIN NoCounts
SameSuites(c, d) ==
  /\ d.tests_deactivated = c.tests_deactivated /\ d.suites_failed = c.suites_failed
  /\ d.suites_without = c.suites_without /\ d.suites_passed = c.suites_passed
  /\ d.suites_deactivated = c.suites_deactivated
SameTests(c, d) ==
  /\ d.tests_failed = c.tests_failed /\ d.tests_passed = c.tests_passed
  /\ d.tests_without = c.tests_without /\ d.assertions_failed = c.assertions_failed

\* Counted(c), of a test with p assertions passed and f failed.
CountedTest(c, p, f) ==
  IF p + f = 0 THEN [c EXCEPT !.tests_without = @ + 1]
  ELSE LET d == [c EXCEPT !.assertions_passed = @ + p, !.assertions_failed = @ + f]
       IN  IF f > 0 THEN [d EXCEPT !.tests_failed = @ + 1] ELSE [d EXCEPT !.tests_passed = @ + 1]

Bumped(c, k, i) == [c EXCEPT ![k] = c[k] + i]

Bumps(c, d, k, i) ==
  d \in [Counters -> Nat] /\ d[k] = c[k] + i /\ \A h \in Counters : h # k => d[h] = c[h]

LEMMA BumpedFacts ==
  ASSUME NEW c \in [Counters -> Nat], NEW k \in Counters, NEW i \in Nat
  PROVE  Bumps(c, Bumped(c, k, i), k, i)
<1>1. c[k] + i \in Nat
  OBVIOUS
<1> QED BY <1>1 DEF Bumped, Bumps

LEMMA CounterNames ==
  Counters = {"suites_passed", "suites_failed", "suites_without", "suites_deactivated",
              "tests_passed", "tests_failed", "tests_without", "tests_deactivated",
              "assertions_passed", "assertions_failed"}
  BY DEF Counters, NoCounts

LEMMA NamesOfCounters ==
  /\ "tests_passed" \in Counters /\ "tests_failed" \in Counters /\ "tests_without" \in Counters
  /\ "assertions_passed" \in Counters /\ "assertions_failed" \in Counters
  /\ "suites_passed" \in Counters /\ "suites_failed" \in Counters /\ "suites_without" \in Counters
  /\ "suites_deactivated" \in Counters /\ "tests_deactivated" \in Counters
  BY CounterNames

LEMMA CountedTestFacts ==
  ASSUME NEW c \in [Counters -> Nat], NEW p \in Nat, NEW f \in Nat
  PROVE  LET d == CountedTest(c, p, f)
         IN  /\ d \in [Counters -> Nat] /\ SameSuites(c, d)
             /\ d.tests_failed = IF f > 0 THEN c.tests_failed + 1 ELSE c.tests_failed
             /\ d.tests_passed = IF p + f > 0 /\ ~(f > 0) THEN c.tests_passed + 1 ELSE c.tests_passed
             /\ d.tests_without = IF p + f > 0 THEN c.tests_without ELSE c.tests_without + 1
             /\ d.assertions_failed = c.assertions_failed + f
<1> DEFINE d == CountedTest(c, p, f)
           d1 == Bumped(c, "assertions_passed", p)
           d2 == Bumped(d1, "assertions_failed", f)
           kind == IF f > 0 THEN "tests_failed" ELSE "tests_passed"
<1>1. CASE p + f = 0
  <2>1. d = Bumped(c, "tests_without", 1)
    BY <1>1 DEF CountedTest, Bumped
  <2>2. f = 0 /\ ~(f > 0) /\ ~(p + f > 0) /\ c.assertions_failed + f = c.assertions_failed
    BY <1>1, CounterNames
  <2> HIDE DEF d
  <2>3. /\ d \in [Counters -> Nat] /\ d["tests_without"] = c["tests_without"] + 1
        /\ \A h \in Counters : h # "tests_without" => d[h] = c[h]
    <3>1. Bumps(c, d, "tests_without", 1)
      BY <2>1, BumpedFacts, NamesOfCounters
    <3> QED BY <3>1 DEF Bumps
  <2>4. SameSuites(c, d)
    BY <2>3, CounterNames DEF SameSuites
  <2>5. /\ d.tests_failed = c.tests_failed /\ d.tests_passed = c.tests_passed
        /\ d.assertions_failed = c.assertions_failed
    BY <2>3, CounterNames
  <2> QED BY <2>2, <2>3, <2>4, <2>5 DEF d
<1>2. CASE p + f > 0
  <2>1. d = Bumped(d2, kind, 1)
    <3>1. d2 = [[c EXCEPT !["assertions_passed"] = c["assertions_passed"] + p]
                   EXCEPT !["assertions_failed"] = c["assertions_failed"] + f]
      BY CounterNames DEF Bumped
    <3>2. p + f # 0
      BY <1>2
    <3>3. CASE f > 0
      BY <3>1, <3>2, <3>3 DEF CountedTest, Bumped
    <3>4. CASE ~(f > 0)
      BY <3>1, <3>2, <3>4 DEF CountedTest, Bumped
    <3> QED BY <3>3, <3>4
  <2> HIDE DEF d
  <2>2. /\ d1 \in [Counters -> Nat]
        /\ \A h \in Counters : h # "assertions_passed" => d1[h] = c[h]
    <3> HIDE DEF d1
    <3>1. Bumps(c, d1, "assertions_passed", p)
      BY BumpedFacts, NamesOfCounters DEF d1
    <3> QED BY <3>1 DEF Bumps
  <2> HIDE DEF d1
  <2>3. /\ d2 \in [Counters -> Nat] /\ d2["assertions_failed"] = c["assertions_failed"] + f
        /\ \A h \in Counters : h \notin {"assertions_passed", "assertions_failed"} => d2[h] = c[h]
    <3>1. /\ d2 \in [Counters -> Nat] /\ d2["assertions_failed"] = d1["assertions_failed"] + f
          /\ \A h \in Counters : h # "assertions_failed" => d2[h] = d1[h]
      <4> HIDE DEF d2
      <4>1. Bumps(d1, d2, "assertions_failed", f)
        BY <2>2, BumpedFacts, NamesOfCounters DEF d2
      <4> QED BY <4>1 DEF Bumps
    <3> HIDE DEF d2
    <3> QED BY <2>2, <3>1, CounterNames
  <2> HIDE DEF d2
  <2>4. kind \in {"tests_failed", "tests_passed"} /\ (f > 0 <=> kind = "tests_failed")
    OBVIOUS
  <2> HIDE DEF kind
  <2>5. /\ d \in [Counters -> Nat] /\ d[kind] = d2[kind] + 1
        /\ \A h \in Counters : h # kind => d[h] = d2[h]
    <3>1. kind \in Counters
      BY <2>4, NamesOfCounters
    <3>2. Bumps(d2, d, kind, 1)
      BY <2>1, <2>3, <3>1, BumpedFacts
    <3> QED BY <3>2 DEF Bumps
  <2>6. SameSuites(c, d)
    BY <2>3, <2>4, <2>5, CounterNames DEF SameSuites
  <2>7. /\ d.tests_without = c.tests_without /\ d.assertions_failed = c.assertions_failed + f
        /\ d.tests_failed = IF kind = "tests_failed" THEN c.tests_failed + 1 ELSE c.tests_failed
        /\ d.tests_passed = IF kind = "tests_passed" THEN c.tests_passed + 1 ELSE c.tests_passed
    BY <2>3, <2>4, <2>5, CounterNames
  <2> QED BY <1>2, <2>4, <2>5, <2>6, <2>7 DEF d
<1>3. p + f = 0 \/ p + f > 0
  OBVIOUS
<1> QED BY <1>1, <1>2, <1>3

\* T has one test more than R, whose body is b, and what that changes.
Grows(q, R, T, b) ==
  /\ Cardinality(FailIn(q, T)) =
       IF Fails(b) THEN Cardinality(FailIn(q, R)) + 1 ELSE Cardinality(FailIn(q, R))
  /\ Cardinality(PassIn(q, T)) =
       IF Shows(b) /\ ~Fails(b) THEN Cardinality(PassIn(q, R)) + 1 ELSE Cardinality(PassIn(q, R))
  /\ Cardinality(EmptyIn(q, T)) =
       IF Shows(b) THEN Cardinality(EmptyIn(q, R)) ELSE Cardinality(EmptyIn(q, R)) + 1
  /\ FailIn(q, T) # {} <=> FailIn(q, R) # {} \/ Fails(b)

LEMMA PartsOfRan ==
  ASSUME NEW q, NEW R, IsFiniteSet(R), NEW x, x \notin R
  PROVE  Grows(q, R, R \cup {x}, BodyIn(q, x))
<1>1. /\ FailIn(q, R \cup {x}) = IF Fails(BodyIn(q, x)) THEN FailIn(q, R) \cup {x} ELSE FailIn(q, R)
      /\ x \notin FailIn(q, R)
  BY DEF FailIn
<1>2. /\ PassIn(q, R \cup {x}) = IF Shows(BodyIn(q, x)) /\ ~Fails(BodyIn(q, x))
                                 THEN PassIn(q, R) \cup {x} ELSE PassIn(q, R)
      /\ x \notin PassIn(q, R)
  BY DEF PassIn
<1>3. /\ EmptyIn(q, R \cup {x}) = IF Shows(BodyIn(q, x)) THEN EmptyIn(q, R) ELSE EmptyIn(q, R) \cup {x}
      /\ x \notin EmptyIn(q, R)
  BY DEF EmptyIn
<1>4. FailIn(q, R) \in SUBSET R /\ PassIn(q, R) \in SUBSET R /\ EmptyIn(q, R) \in SUBSET R
  BY DEF FailIn, PassIn, EmptyIn
<1>5. IsFiniteSet(FailIn(q, R)) /\ IsFiniteSet(PassIn(q, R)) /\ IsFiniteSet(EmptyIn(q, R))
  BY <1>4, FS_Subset
<1>6. ASSUME NEW S, IsFiniteSet(S), x \notin S PROVE Cardinality(S \cup {x}) = Cardinality(S) + 1
  BY <1>6, FS_AddElement
<1>7. /\ Cardinality(FailIn(q, R) \cup {x}) = Cardinality(FailIn(q, R)) + 1
      /\ Cardinality(PassIn(q, R) \cup {x}) = Cardinality(PassIn(q, R)) + 1
      /\ Cardinality(EmptyIn(q, R) \cup {x}) = Cardinality(EmptyIn(q, R)) + 1
  BY <1>1, <1>2, <1>3, <1>5, <1>6
<1> QED BY <1>1, <1>2, <1>3, <1>7 DEF Grows

\* A test at its end is counted as what its body shows.
LEMMA TestIsCounted ==
  ASSUME NEW q \in Seq(Suites), NEW m \in ActiveIn(q), NEW n \in 1 .. Len(q[m].tests), NEW c,
         NEW p, NEW f, NEW k, k > Len(q[m].tests[n]), Progress(q[m].tests[n], k, p, f),
         Report(q, m, n, c)
  PROVE  Report(q, m, n + 1, CountedTest(c, p, f))
<1> DEFINE b == q[m].tests[n]  x == <<m, n>>  R == Ran(q, m, n)  T == Ran(q, m, n + 1)
           d == CountedTest(c, p, f)
<1>1. /\ T = R \cup {x} /\ x \notin R /\ BodyIn(q, x) = b /\ b \in Bodies
  <2>1. Adds(q, m, n)
    BY OneMoreTest
  <2> QED BY <2>1 DEF Adds
<1>2. (f > 0 <=> Fails(b)) /\ (p + f > 0 <=> Shows(b)) /\ "REQUIRE" \notin Failing(b)
  BY <1>1, TestEnds
<1>3. p \in Nat /\ f \in Nat
  BY DEF Progress
<1>4. c \in [Counters -> Nat] /\ TestCounts(q, R, c) /\ SuiteCounts(q, m, c)
  BY DEF Report, Counters
<1>5. /\ d \in [Counters -> Nat] /\ SameSuites(c, d)
      /\ d.tests_failed = IF f > 0 THEN c.tests_failed + 1 ELSE c.tests_failed
      /\ d.tests_passed = IF p + f > 0 /\ ~(f > 0) THEN c.tests_passed + 1 ELSE c.tests_passed
      /\ d.tests_without = IF p + f > 0 THEN c.tests_without ELSE c.tests_without + 1
      /\ d.assertions_failed = c.assertions_failed + f
  BY <1>3, <1>4, CountedTestFacts
<1>6. IsFiniteSet(R)
  BY RanFacts
<1>7. c.assertions_failed \in Nat
  BY <1>4, NamesOfCounters
<1> HIDE DEF R, T, x, b, d
<1>8. Grows(q, R, T, b)
  BY <1>1, <1>6, PartsOfRan
<1>9. d.assertions_failed > 0 <=> c.assertions_failed > 0 \/ f > 0
  BY <1>3, <1>5, <1>7
<1>10. TestCounts(q, T, d)
  <2>1. /\ d.tests_failed = Cardinality(FailIn(q, T))
        /\ d.tests_passed = Cardinality(PassIn(q, T))
        /\ d.tests_without = Cardinality(EmptyIn(q, T))
    BY <1>2, <1>4, <1>5, <1>8 DEF TestCounts, Grows
  <2>2. d.assertions_failed > 0 <=> FailIn(q, T) # {}
    BY <1>2, <1>4, <1>8, <1>9 DEF TestCounts, Grows
  <2>3. \A y \in T : "REQUIRE" \notin Failing(BodyIn(q, y))
    BY <1>1, <1>2, <1>4 DEF TestCounts
  <2> QED BY <2>1, <2>2, <2>3 DEF TestCounts
<1>11. SuiteCounts(q, m, d)
  BY <1>4, <1>5 DEF SuiteCounts, SameSuites
<1> QED BY <1>5, <1>10, <1>11 DEF Report, Counters, T, d

\* After the last test of a suite, and before its first if it is not active,
\* those of the next have been run up to the first.
LEMMA NextSuite ==
  ASSUME NEW q \in Seq(Suites), NEW m \in 1 .. Len(q), NEW n,
         n = IF q[m].active THEN Len(q[m].tests) + 1 ELSE 1
  PROVE  Ran(q, m + 1, 1) = Ran(q, m, n)
<1> SUFFICES ASSUME NEW x \in PairsOf(q, ActiveIn(q))
             PROVE  x[1] < m + 1 \/ (x[1] = m + 1 /\ x[2] < 1) <=> x[1] < m \/ (x[1] = m /\ x[2] < n)
  BY DEF Ran
<1>1. PICK j \in ActiveIn(q) : x \in {j} \X DOMAIN q[j].tests
  BY DEF PairsOf
<1>2. j \in 1 .. Len(q) /\ Len(q) \in Nat /\ q[j].tests \in Seq(Bodies) /\ q[j].active
  BY SuitesFacts DEF ActiveIn
<1>3. x[1] = j /\ x[2] \in 1 .. Len(q[j].tests) /\ Len(q[j].tests) \in Nat
  BY <1>1, <1>2, TestsFacts
<1>4. CASE j = m
  <2>1. n = Len(q[j].tests) + 1
    BY <1>2, <1>4
  <2> QED BY <1>2, <1>3, <1>4, <2>1
<1>5. CASE j # m
  BY <1>2, <1>3, <1>5
<1> QED BY <1>4, <1>5

\* What EndSuite does with the counters, for a suite u that has passed or not.
CountedSuite(c, u, passes) ==
  IF ~u.active THEN [c EXCEPT !.suites_deactivated = @ + 1, !.tests_deactivated = @ + Len(u.tests)]
  ELSE IF u.tests = <<>> THEN [c EXCEPT !.suites_without = @ + 1]
  ELSE IF passes THEN [c EXCEPT !.suites_passed = @ + 1]
  ELSE [c EXCEPT !.suites_failed = @ + 1]

\* The counters d if the suite is not active, has no test, fails.
Ends(c, d, skipped, empty, fails) ==
  /\ d \in [Counters -> Nat] /\ SameTests(c, d)
  /\ d.tests_deactivated = c.tests_deactivated + skipped
  /\ d.suites_failed = c.suites_failed + fails
  /\ d.suites_without = c.suites_without + empty
  /\ d.suites_passed + d.suites_failed + d.suites_without + d.suites_deactivated
       = c.suites_passed + c.suites_failed + c.suites_without + c.suites_deactivated + 1

LEMMA SkippedCounting ==
  ASSUME NEW c \in [Counters -> Nat], NEW u \in Suites, ~u.active, NEW p
  PROVE  Ends(c, CountedSuite(c, u, p), Len(u.tests), 0, 0)
<1> DEFINE L == Len(u.tests)
           d1 == Bumped(c, "suites_deactivated", 1)
           d  == Bumped(d1, "tests_deactivated", L)
<1>1. CountedSuite(c, u, p) = d
  BY NamesOfCounters DEF CountedSuite, Bumped
<1>2. L \in Nat
  BY DEF Suites
<1> HIDE DEF L
<1>3. Bumps(c, d1, "suites_deactivated", 1)
  BY NamesOfCounters, BumpedFacts
<1> HIDE DEF d1
<1>4. d1 \in [Counters -> Nat]
  BY <1>3 DEF Bumps
<1>5. Bumps(d1, d, "tests_deactivated", L)
  BY <1>2, <1>4, NamesOfCounters, BumpedFacts
<1> HIDE DEF d
<1>6. /\ d \in [Counters -> Nat] /\ d["tests_deactivated"] = c["tests_deactivated"] + L
      /\ d["suites_deactivated"] = c["suites_deactivated"] + 1
      /\ \A h \in Counters : h \notin {"tests_deactivated", "suites_deactivated"} => d[h] = c[h]
  BY <1>3, <1>5, NamesOfCounters DEF Bumps
<1>7. SameTests(c, d)
  BY <1>6, NamesOfCounters DEF SameTests
<1>8. \A h \in Counters : c[h] \in Nat
  OBVIOUS
<1>9. Ends(c, d, L, 0, 0)
  <2>1. /\ d["suites_failed"] = c["suites_failed"] /\ d["suites_without"] = c["suites_without"]
        /\ d["suites_passed"] = c["suites_passed"]
    BY <1>6, NamesOfCounters
  <2> QED BY <1>2, <1>6, <1>7, <1>8, <2>1, NamesOfCounters DEF Ends
<1> QED BY <1>1, <1>9 DEF L, d

LEMMA OneCounting ==
  ASSUME NEW c \in [Counters -> Nat], NEW d, NEW e \in {0, 1}, NEW p \in {0, 1}, NEW f \in {0, 1},
         e + p + f = 1,
         Bumps(c, d, IF e = 1 THEN "suites_without" ELSE IF p = 1 THEN "suites_passed" ELSE "suites_failed", 1)
  PROVE  Ends(c, d, 0, e, f)
<1> DEFINE k == IF e = 1 THEN "suites_without" ELSE IF p = 1 THEN "suites_passed" ELSE "suites_failed"
<1>1. /\ k \in {"suites_without", "suites_passed", "suites_failed"}
      /\ e = (IF k = "suites_without" THEN 1 ELSE 0) /\ f = (IF k = "suites_failed" THEN 1 ELSE 0)
  OBVIOUS
<1>2. Bumps(c, d, k, 1)
  OBVIOUS
<1> HIDE DEF k
<1>3. /\ d \in [Counters -> Nat] /\ d[k] = c[k] + 1 /\ \A h \in Counters : h # k => d[h] = c[h]
  BY <1>2 DEF Bumps
<1>4. SameTests(c, d)
  BY <1>1, <1>3, NamesOfCounters DEF SameTests
<1>5. \A h \in Counters : c[h] \in Nat
  OBVIOUS
<1>6. /\ d["tests_deactivated"] = c["tests_deactivated"]
      /\ d["suites_deactivated"] = c["suites_deactivated"]
  BY <1>1, <1>3, NamesOfCounters
<1>7. CASE k = "suites_without"
  BY <1>1, <1>3, <1>4, <1>5, <1>6, <1>7, NamesOfCounters DEF Ends
<1>8. CASE k = "suites_passed"
  BY <1>1, <1>3, <1>4, <1>5, <1>6, <1>8, NamesOfCounters DEF Ends
<1>9. CASE k = "suites_failed"
  BY <1>1, <1>3, <1>4, <1>5, <1>6, <1>9, NamesOfCounters DEF Ends
<1> QED BY <1>1, <1>7, <1>8, <1>9

LEMMA ActiveCounting ==
  ASSUME NEW c \in [Counters -> Nat], NEW u \in Suites, u.active, NEW p \in BOOLEAN
  PROVE  Ends(c, CountedSuite(c, u, p), 0, IF u.tests = <<>> THEN 1 ELSE 0,
                IF u.tests # <<>> /\ ~p THEN 1 ELSE 0)
<1> DEFINE d == CountedSuite(c, u, p)
<1>1. CASE u.tests = <<>>
  <2>1. d = Bumped(c, "suites_without", 1)
    BY <1>1 DEF CountedSuite, Bumped
  <2>2. Bumps(c, d, "suites_without", 1)
    BY <2>1, NamesOfCounters, BumpedFacts
  <2> HIDE DEF d
  <2>3. Ends(c, d, 0, 1, 0)
    BY <2>2, OneCounting
  <2> QED BY <1>1, <2>3 DEF d
<1>2. CASE u.tests # <<>> /\ p
  <2>1. d = Bumped(c, "suites_passed", 1)
    BY <1>2 DEF CountedSuite, Bumped
  <2>2. Bumps(c, d, "suites_passed", 1)
    BY <2>1, NamesOfCounters, BumpedFacts
  <2> HIDE DEF d
  <2>3. Ends(c, d, 0, 0, 0)
    BY <2>2, OneCounting
  <2> QED BY <1>2, <2>3 DEF d
<1>3. CASE u.tests # <<>> /\ ~p
  <2>1. d = Bumped(c, "suites_failed", 1)
    BY <1>3 DEF CountedSuite, Bumped
  <2>2. Bumps(c, d, "suites_failed", 1)
    BY <2>1, NamesOfCounters, BumpedFacts
  <2> HIDE DEF d
  <2>3. Ends(c, d, 0, 0, 1)
    BY <2>2, OneCounting
  <2> QED BY <1>3, <2>3 DEF d
<1> QED BY <1>1, <1>2, <1>3

\* The suites before m are finitely many, and m is not among them.
LEMMA SuitesBefore ==
  ASSUME NEW q \in Seq(Suites), NEW m \in 1 .. Len(q), NEW S, S \subseteq {j \in 1 .. Len(q) : j < m}
  PROVE  IsFiniteSet(S) /\ m \notin S /\ Cardinality(S \cup {m}) = Cardinality(S) + 1
<1>1. Len(q) \in Nat
  BY SuitesFacts
<1>2. IsFiniteSet(1 .. Len(q))
  BY <1>1, FS_Interval
<1>3. S \in SUBSET (1 .. Len(q)) /\ m \notin S
  OBVIOUS
<1>4. IsFiniteSet(S)
  BY <1>2, <1>3, FS_Subset
<1> QED BY <1>3, <1>4, FS_AddElement

Fail(u) == \E b \in ToSet(u.tests) : Fails(b)

\* What suite m adds: to the suites that fail, to those without tests, and to
\* the tests that are skipped.
LEMMA OneMoreFailedSuite ==
  ASSUME NEW q \in Seq(Suites), NEW m \in 1 .. Len(q)
  PROVE  Cardinality(FailedSuites(q, m + 1)) =
           IF q[m].active /\ Fail(q[m])
           THEN Cardinality(FailedSuites(q, m)) + 1 ELSE Cardinality(FailedSuites(q, m))
<1> DEFINE S == FailedSuites(q, m)
<1>1. Len(q) \in Nat /\ ActiveIn(q) \subseteq 1 .. Len(q)
  BY SuitesFacts
<1>2. S \subseteq {j \in 1 .. Len(q) : j < m}
  BY <1>1 DEF FailedSuites
<1>3. \A j \in 1 .. Len(q) : j < m + 1 <=> j < m \/ j = m
  BY <1>1
<1>4. m \in ActiveIn(q) <=> q[m].active
  BY SuitesFacts DEF ActiveIn
<1>5. FailedSuites(q, m + 1) = IF q[m].active /\ Fail(q[m]) THEN S \cup {m} ELSE S
  BY <1>1, <1>3, <1>4 DEF FailedSuites, Fail
<1>6. Cardinality(S \cup {m}) = Cardinality(S) + 1
  <2> HIDE DEF S
  <2> QED BY <1>2, SuitesBefore
<1> QED BY <1>5, <1>6

LEMMA OneMoreEmptySuite ==
  ASSUME NEW q \in Seq(Suites), NEW m \in 1 .. Len(q)
  PROVE  Cardinality(EmptySuites(q, m + 1)) =
           IF q[m].active /\ q[m].tests = <<>>
           THEN Cardinality(EmptySuites(q, m)) + 1 ELSE Cardinality(EmptySuites(q, m))
<1> DEFINE S == EmptySuites(q, m)
<1>1. Len(q) \in Nat /\ ActiveIn(q) \subseteq 1 .. Len(q)
  BY SuitesFacts
<1>2. S \subseteq {j \in 1 .. Len(q) : j < m}
  BY <1>1 DEF EmptySuites
<1>3. \A j \in 1 .. Len(q) : j < m + 1 <=> j < m \/ j = m
  BY <1>1
<1>4. m \in ActiveIn(q) <=> q[m].active
  BY SuitesFacts DEF ActiveIn
<1>5. EmptySuites(q, m + 1) = IF q[m].active /\ q[m].tests = <<>> THEN S \cup {m} ELSE S
  BY <1>1, <1>3, <1>4 DEF EmptySuites
<1>6. Cardinality(S \cup {m}) = Cardinality(S) + 1
  <2> HIDE DEF S
  <2> QED BY <1>2, SuitesBefore
<1> QED BY <1>5, <1>6

LEMMA DisjointUnion ==
  ASSUME NEW S, NEW T, IsFiniteSet(S), IsFiniteSet(T), S \cap T = {}
  PROVE  Cardinality(S \cup T) = Cardinality(S) + Cardinality(T)
<1>1. Cardinality(S) \in Nat /\ Cardinality(T) \in Nat
  BY FS_CardinalityType
<1>2. Cardinality(S \cup T) = Cardinality(S) + Cardinality(T) - Cardinality(S \cap T)
  BY FS_Union
<1>3. Cardinality(S \cap T) = 0
  BY FS_EmptySet
<1> QED BY <1>1, <1>2, <1>3

LEMMA MoreSkipped ==
  ASSUME NEW q \in Seq(Suites), NEW m \in 1 .. Len(q)
  PROVE  Cardinality(Skipped(q, m + 1)) =
           IF q[m].active THEN Cardinality(Skipped(q, m))
           ELSE Cardinality(Skipped(q, m)) + Len(q[m].tests)
<1> DEFINE U(i) == {j \in DOMAIN q \ ActiveIn(q) : j < i}
           n == Len(q[m].tests)
           T == {m} \X (1 .. n)
<1>1. Len(q) \in Nat /\ DOMAIN q = 1 .. Len(q) /\ q[m].tests \in Seq(Bodies)
  BY SuitesFacts
<1>2. n \in Nat /\ DOMAIN q[m].tests = 1 .. n
  BY <1>1, TestsFacts
<1> HIDE DEF n
<1>3. \A j \in 1 .. Len(q) : j < m + 1 <=> j < m \/ j = m
  BY <1>1
<1>4. m \in ActiveIn(q) <=> q[m].active
  BY SuitesFacts DEF ActiveIn
<1>5. U(m + 1) = IF q[m].active THEN U(m) ELSE U(m) \cup {m}
  BY <1>1, <1>3, <1>4
<1>6. U(m) \in SUBSET (1 .. Len(q)) /\ m \notin U(m)
  BY <1>1
<1>7. Skipped(q, m + 1) = PairsOf(q, U(m + 1)) /\ Skipped(q, m) = PairsOf(q, U(m))
  BY DEF Skipped
<1> HIDE DEF U
<1>8. CASE q[m].active
  BY <1>5, <1>7, <1>8
<1>9. CASE ~q[m].active
  <2>1. PairsOf(q, U(m) \cup {m}) = PairsOf(q, U(m)) \cup T
    BY <1>2 DEF PairsOf
  <2>2. PairsOf(q, U(m)) \cap T = {}
    BY <1>6 DEF PairsOf
  <2>3. IsFiniteSet(PairsOf(q, U(m)))
    BY <1>6, PairsAreFinite
  <2>4. IsFiniteSet(T) /\ Cardinality(T) = n
    BY <1>2, PairsOfOne
  <2> HIDE DEF T
  <2>5. Cardinality(PairsOf(q, U(m)) \cup T) = Cardinality(PairsOf(q, U(m))) + n
    BY <2>2, <2>3, <2>4, DisjointUnion
  <2> QED BY <1>5, <1>7, <1>9, <2>1, <2>5 DEF n
<1> QED BY <1>8, <1>9

\* A suite at its end is counted as what its tests show.
LEMMA SuiteIsCounted ==
  ASSUME NEW q \in Seq(Suites), NEW m \in 1 .. Len(q), NEW n, NEW c, NEW p \in BOOLEAN,
         n = IF q[m].active THEN Len(q[m].tests) + 1 ELSE 1,
         q[m].active => (p <=> ~Fail(q[m])),
         Report(q, m, n, c)
  PROVE  Report(q, m + 1, 1, CountedSuite(c, q[m], p))
<1> DEFINE u == q[m]  d == CountedSuite(c, u, p)  R == Ran(q, m, n)
           skipped == IF u.active THEN 0 ELSE Len(u.tests)
           empty == IF u.active /\ u.tests = <<>> THEN 1 ELSE 0
           fails == IF u.active /\ Fail(u) THEN 1 ELSE 0
<1>1. u \in Suites /\ u.active \in BOOLEAN /\ Len(q) \in Nat /\ u.tests \in Seq(Bodies)
  BY SuitesFacts
<1>2. c \in [Counters -> Nat] /\ TestCounts(q, R, c) /\ SuiteCounts(q, m, c)
  BY DEF Report, Counters
<1>3. u.tests = <<>> => ~Fail(u)
  BY DEF Fail, ToSet
<1>4. Ends(c, d, skipped, empty, fails)
  <2>1. CASE ~u.active
    BY <1>1, <1>2, <2>1, SkippedCounting
  <2>2. CASE u.active
    <3>1. Ends(c, d, 0, IF u.tests = <<>> THEN 1 ELSE 0, IF u.tests # <<>> /\ ~p THEN 1 ELSE 0)
      BY <1>1, <1>2, <2>2, ActiveCounting
    <3>2. (IF u.tests # <<>> /\ ~p THEN 1 ELSE 0) = fails
      BY <1>3, <2>2
    <3> HIDE DEF d
    <3> QED BY <2>2, <3>1, <3>2
  <2> QED BY <2>1, <2>2
<1>5. /\ Cardinality(FailedSuites(q, m + 1)) = Cardinality(FailedSuites(q, m)) + fails
      /\ Cardinality(EmptySuites(q, m + 1)) = Cardinality(EmptySuites(q, m)) + empty
      /\ Cardinality(Skipped(q, m + 1)) = Cardinality(Skipped(q, m)) + skipped
  <2>1. \A h \in Counters : c[h] \in Nat
    BY <1>2
  <2>2. /\ Cardinality(FailedSuites(q, m)) \in Nat /\ Cardinality(EmptySuites(q, m)) \in Nat
        /\ Cardinality(Skipped(q, m)) \in Nat
    BY <1>2, <2>1, NamesOfCounters DEF SuiteCounts
  <2>3. Cardinality(FailedSuites(q, m + 1)) = Cardinality(FailedSuites(q, m)) + fails
    BY <2>2, OneMoreFailedSuite
  <2>4. Cardinality(EmptySuites(q, m + 1)) = Cardinality(EmptySuites(q, m)) + empty
    BY <2>2, OneMoreEmptySuite
  <2>5. Cardinality(Skipped(q, m + 1)) = Cardinality(Skipped(q, m)) + skipped
    BY <2>2, MoreSkipped
  <2> QED BY <2>3, <2>4, <2>5
<1>6. Ran(q, m + 1, 1) = R
  BY NextSuite
<1> HIDE DEF u, d, R, skipped, empty, fails
<1>7. d \in [Counters -> Nat] /\ SameTests(c, d)
  BY <1>4 DEF Ends
<1>8. TestCounts(q, R, d)
  BY <1>2, <1>7 DEF TestCounts, SameTests
<1>9. SuiteCounts(q, m + 1, d)
  <2>1. /\ d.tests_deactivated = Cardinality(Skipped(q, m + 1))
        /\ d.suites_failed = Cardinality(FailedSuites(q, m + 1))
        /\ d.suites_without = Cardinality(EmptySuites(q, m + 1))
    BY <1>2, <1>4, <1>5 DEF SuiteCounts, Ends
  <2>2. d.suites_passed + d.suites_failed + d.suites_without + d.suites_deactivated = m - 1 + 1
    BY <1>2, <1>4 DEF SuiteCounts, Ends
  <2>3. m - 1 + 1 = m + 1 - 1
    BY <1>1
  <2> QED BY <2>1, <2>2, <2>3 DEF SuiteCounts
<1>10. Report(q, m + 1, 1, d)
  BY <1>6, <1>7, <1>8, <1>9 DEF Report, Counters
<1> QED BY <1>10 DEF d, u

LEMMA NothingReported ==
  ASSUME NEW q \in Seq(Suites)
  PROVE  Report(q, 1, 1, NoCounts)
<1>1. \A j \in ActiveIn(q) : ~(j < 1)
  BY SuitesFacts
<1>2. Ran(q, 1, 1) = {}
  <2> SUFFICES ASSUME NEW x \in Ran(q, 1, 1) PROVE FALSE
    OBVIOUS
  <2>1. x[1] \in ActiveIn(q) /\ x[2] \in 1 .. Len(q[x[1]].tests)
    BY RanFacts
  <2> QED BY <1>1, <2>1 DEF Ran
<1>3. FailIn(q, {}) = {} /\ PassIn(q, {}) = {} /\ EmptyIn(q, {}) = {}
  BY DEF FailIn, PassIn, EmptyIn
<1>4. FailedSuites(q, 1) = {} /\ EmptySuites(q, 1) = {}
  BY <1>1 DEF FailedSuites, EmptySuites
<1>5. Skipped(q, 1) = {}
  BY SuitesFacts DEF Skipped, PairsOf
<1>6. NoCounts \in [DOMAIN NoCounts -> Nat]
  BY DEF NoCounts
<1> DEFINE c == NoCounts
<1>7. /\ c.tests_failed = 0 /\ c.tests_passed = 0 /\ c.tests_without = 0 /\ c.assertions_failed = 0
      /\ c.tests_deactivated = 0 /\ c.suites_failed = 0 /\ c.suites_without = 0
      /\ c.suites_passed = 0 /\ c.suites_deactivated = 0
  BY DEF NoCounts
<1>8. Cardinality({}) = 0
  BY FS_EmptySet
<1> HIDE DEF c
<1>9. TestCounts(q, {}, c)
  <2>1. /\ Cardinality(FailIn(q, {})) = 0 /\ Cardinality(PassIn(q, {})) = 0
        /\ Cardinality(EmptyIn(q, {})) = 0
    BY <1>3, <1>8, Zenon
  <2>2. \A x \in {} : "REQUIRE" \notin Failing(BodyIn(q, x))
    OBVIOUS
  <2>3. c.assertions_failed > 0 <=> FailIn(q, {}) # {}
    BY <1>3, <1>7
  <2> QED BY <1>7, <2>1, <2>2, <2>3, Zenon DEF TestCounts
<1>10. SuiteCounts(q, 1, c)
  <2>1. /\ Cardinality(Skipped(q, 1)) = 0 /\ Cardinality(FailedSuites(q, 1)) = 0
        /\ Cardinality(EmptySuites(q, 1)) = 0
    BY <1>4, <1>5, <1>8, Zenon
  <2>2. c.suites_passed + c.suites_failed + c.suites_without + c.suites_deactivated = 1 - 1
    BY <1>7
  <2> QED BY <1>7, <2>1, <2>2, Zenon DEF SuiteCounts
<1> QED BY <1>2, <1>6, <1>9, <1>10 DEF Report, c

---------------------------------------------------------------------------
(* The invariant.                                                          *)

\* Where unit_run() is: before statement k of test n of suite m, which has
\* counted p and f.
Place(q, m, n, k, p, f) ==
  IF m \in ActiveIn(q)
  THEN /\ n \in 1 .. Len(q[m].tests) + 1
       /\ IF n <= Len(q[m].tests) THEN Progress(q[m].tests[n], k, p, f) ELSE k = 1 /\ p = 0 /\ f = 0
  ELSE n = 1 /\ k = 1 /\ p = 0 /\ f = 0

\* None of the tests of suite m before its test n fails.
NoneFails(q, m, n) == \A h \in 1 .. n - 1 : ~Fails(q[m].tests[h])

\* The counters are a report of what has been run, and unit_run() is at a place
\* that statements lead to.
TestsInv ==
  /\ suites \in Seq(Suites) /\ suitePassed \in BOOLEAN
  /\ phase \in {"building", "running", "usage", "reported", "aborted"}
  /\ phase = "building" => /\ suite = 1 /\ test = 1 /\ statement = 1 /\ passed = 0 /\ failed = 0
                           /\ suitePassed = TRUE /\ counts = NoCounts
  /\ phase \in {"running", "reported"} =>
       /\ suite \in 1 .. Len(suites) + 1
       /\ Report(suites, suite, test, counts)
       /\ Place(suites, suite, test, statement, passed, failed)
       /\ suitePassed <=> NoneFails(suites, suite, test)
  /\ phase = "reported" => suite = Len(suites) + 1

LEMMA FirstPlace ==
  ASSUME NEW q \in Seq(Suites), NEW m
  PROVE  Place(q, m, 1, 1, 0, 0) /\ NoneFails(q, m, 1)
<1>1. NoneFails(q, m, 1)
  BY DEF NoneFails
<1>2. ASSUME m \in ActiveIn(q) PROVE Place(q, m, 1, 1, 0, 0)
  <2>1. q[m].tests \in Seq(Bodies)
    BY <1>2, SuitesFacts
  <2>2. Len(q[m].tests) \in Nat /\ \A n \in 1 .. Len(q[m].tests) : q[m].tests[n] \in Bodies
    BY <2>1, TestsFacts
  <2>3. 1 <= Len(q[m].tests) => Progress(q[m].tests[1], 1, 0, 0)
    BY <2>2, TestBegins
  <2> QED BY <1>2, <2>2, <2>3 DEF Place
<1> QED BY <1>1, <1>2 DEF Place

LEMMA InitTests == TestInit => TestsInv
<1> SUFFICES ASSUME TestInit PROVE TestsInv
  OBVIOUS
<1>1. suites \in Seq(Suites)
  BY DEF TestInit
<1> QED BY <1>1 DEF TestInit, TestsInv

LEMMA CreateSuiteKeeps == ASSUME TestsInv, NEW n \in SuiteNames, CreateSuite(n) PROVE TestsInv'
<1> DEFINE u == [name |-> n, tests |-> <<>>, active |-> TRUE]
<1>1. suites \in Seq(Suites)
  BY DEF TestsInv
<1>2. u \in Suites
  BY DEF Suites
<1>3. Append(suites, u) \in Seq(Suites)
  BY <1>1, <1>2
<1>4. suites' \in Seq(Suites) /\ phase = "building"
  BY <1>3 DEF CreateSuite
<1> QED BY <1>4 DEF CreateSuite, TestsInv

LEMMA CreateTestKeeps == ASSUME TestsInv, NEW b \in Bodies, CreateTest(b) PROVE TestsInv'
<1> DEFINE L == Len(suites)
           v == [suites[L] EXCEPT !.tests = Append(@, b)]
<1>1. suites \in Seq(Suites) /\ suites # <<>>
  BY DEF TestsInv, CreateTest
<1>2. L \in 1 .. Len(suites) /\ L \in Nat /\ suites[L] \in Suites /\ suites[L].tests \in Seq(Bodies)
  BY <1>1, SuitesFacts
<1>3. v \in Suites
  <2>1. Append(suites[L].tests, b) \in Seq(Bodies)
    BY <1>2
  <2> QED BY <1>2, <2>1 DEF Suites
<1>4. suites' = [suites EXCEPT ![L] = v]
  BY DEF CreateTest
<1> HIDE DEF v, L
<1>5. suites' \in Seq(Suites)
  BY <1>1, <1>2, <1>3, <1>4
<1>6. phase = "building"
  BY DEF CreateTest
<1> QED BY <1>5, <1>6 DEF CreateTest, TestsInv

LEMMA ParseArgvKeeps == ASSUME TestsInv, NEW line \in CommandLines, ParseArgv(line) PROVE TestsInv'
<1>1. suites \in Seq(Suites) /\ phase = "building"
  BY DEF TestsInv, ParseArgv
<1>2. suites' \in Seq(Suites)
  <2> DEFINE K == {Suite(n) : n \in ToSet(Selected(line))} \ {0}
             g(j) == [suites[j] EXCEPT !.active = IF K = {} THEN @ ELSE j \in K]
  <2>1. Len(suites) \in Nat /\ DOMAIN suites = 1 .. Len(suites)
        /\ \A j \in 1 .. Len(suites) : suites[j] \in Suites
    BY <1>1, SuitesFacts
  <2>2. Activated(line) = [j \in 1 .. Len(suites) |-> g(j)]
    BY <2>1 DEF Activated
  <2> HIDE DEF K
  <2>3. ASSUME NEW j \in 1 .. Len(suites) PROVE g(j) \in Suites
    <3> DEFINE a == IF K = {} THEN suites[j].active ELSE j \in K
    <3>1. suites[j] \in Suites
      BY <2>1
    <3>2. a \in BOOLEAN
      <4>1. suites[j].active \in BOOLEAN
        BY <3>1 DEF Suites
      <4>2. (j \in K) \in BOOLEAN
        OBVIOUS
      <4> QED BY <4>1, <4>2, Zenon
    <3>3. g(j) = [suites[j] EXCEPT !.active = a]
      OBVIOUS
    <3> HIDE DEF a, g
    <3> QED BY <3>1, <3>2, <3>3 DEF Suites
  <2> HIDE DEF g
  <2>4. [j \in 1 .. Len(suites) |-> g(j)] \in Seq(Suites)
    BY <2>1, <2>3
  <2> QED BY <1>1, <2>2, <2>4 DEF ParseArgv
<1>3. /\ suite' = 1 /\ test' = 1 /\ statement' = 1 /\ passed' = 0 /\ failed' = 0
      /\ suitePassed' = TRUE /\ counts' = NoCounts
  BY <1>1 DEF TestsInv, ParseArgv
<1>4. phase' \in {"usage", "running"}
  BY DEF ParseArgv
<1>5. Report(suites', 1, 1, NoCounts)
  BY <1>2, NothingReported
<1>6. Place(suites', 1, 1, 1, 0, 0) /\ NoneFails(suites', 1, 1)
  BY <1>2, FirstPlace
<1>7. 1 \in 1 .. Len(suites') + 1
  BY <1>2, SuitesFacts
<1> QED BY <1>2, <1>3, <1>4, <1>5, <1>6, <1>7 DEF TestsInv

\* Of a suite whose tests run.
LEMMA InTestFacts ==
  ASSUME TestsInv, InTest
  PROVE  /\ suites \in Seq(Suites) /\ phase = "running" /\ suite \in ActiveIn(suites)
         /\ suite \in 1 .. Len(suites) /\ Len(suites) \in Nat /\ Len(suites[suite].tests) \in Nat
         /\ test \in 1 .. Len(suites[suite].tests) /\ Body = suites[suite].tests[test]
         /\ Body \in Bodies /\ Progress(Body, statement, passed, failed)
         /\ Report(suites, suite, test, counts) /\ (suitePassed <=> NoneFails(suites, suite, test))
<1>1. /\ suites \in Seq(Suites) /\ phase = "running" /\ suite <= Len(suites)
      /\ suite \in 1 .. Len(suites) + 1 /\ suites[suite].active /\ test <= Len(suites[suite].tests)
      /\ Report(suites, suite, test, counts) /\ (suitePassed <=> NoneFails(suites, suite, test))
      /\ Place(suites, suite, test, statement, passed, failed)
  BY DEF TestsInv, InTest, Running
<1>2. Len(suites) \in Nat /\ suite \in 1 .. Len(suites)
  BY <1>1, SuitesFacts
<1>3. suite \in ActiveIn(suites) /\ suites[suite].tests \in Seq(Bodies)
  BY <1>1, <1>2, SuitesFacts DEF ActiveIn
<1>4. Len(suites[suite].tests) \in Nat
      /\ \A h \in 1 .. Len(suites[suite].tests) : suites[suite].tests[h] \in Bodies
  BY <1>3, TestsFacts
<1>5. test \in 1 .. Len(suites[suite].tests)
      /\ Progress(suites[suite].tests[test], statement, passed, failed)
  BY <1>1, <1>3, <1>4 DEF Place
<1> QED BY <1>1, <1>2, <1>3, <1>4, <1>5 DEF Body

LEMMA RunStatementKeeps == ASSUME TestsInv, RunStatement PROVE TestsInv'
<1>1. InTest /\ statement <= Len(Body)
  BY DEF RunStatement
<1>2. /\ suites \in Seq(Suites) /\ phase = "running" /\ suite \in ActiveIn(suites)
      /\ suite \in 1 .. Len(suites) /\ Len(suites) \in Nat /\ Len(suites[suite].tests) \in Nat
      /\ test \in 1 .. Len(suites[suite].tests) /\ Body = suites[suite].tests[test]
      /\ Body \in Bodies /\ Progress(Body, statement, passed, failed)
      /\ Report(suites, suite, test, counts) /\ (suitePassed <=> NoneFails(suites, suite, test))
  BY <1>1, InTestFacts
<1> DEFINE st == Body[statement]
<1>3. /\ passed' = passed + Added(st).passed /\ failed' = failed + Added(st).failed
      /\ statement' = Following(Body, statement)
      /\ phase' = IF Aborts(st) THEN "aborted" ELSE "running"
      /\ UNCHANGED <<suites, suite, test, suitePassed, counts>>
  BY <1>2 DEF RunStatement, Added, Following, Aborts
<1>4. CASE Aborts(st)
  BY <1>2, <1>3, <1>4 DEF TestsInv
<1>5. CASE ~Aborts(st)
  <2>1. Progress(Body, Following(Body, statement), passed + Added(st).passed, failed + Added(st).failed)
    BY <1>1, <1>2, <1>5, StatementProgresses
  <2>2. Progress(suites[suite].tests[test], statement', passed', failed')
    BY <1>2, <1>3, <2>1
  <2>3. Place(suites, suite, test, statement', passed', failed')
    BY <1>2, <2>2 DEF Place
  <2>4. suite \in 1 .. Len(suites) + 1
    BY <1>2
  <2>5. suitePassed \in BOOLEAN /\ phase' = "running"
    BY <1>3, <1>5 DEF TestsInv
  <2> QED BY <1>2, <1>3, <2>3, <2>4, <2>5 DEF TestsInv
<1> QED BY <1>4, <1>5

LEMMA EndTestKeeps == ASSUME TestsInv, EndTest PROVE TestsInv'
<1>1. InTest /\ statement > Len(Body)
  BY DEF EndTest
<1>2. /\ suites \in Seq(Suites) /\ phase = "running" /\ suite \in ActiveIn(suites)
      /\ suite \in 1 .. Len(suites) /\ Len(suites) \in Nat /\ Len(suites[suite].tests) \in Nat
      /\ test \in 1 .. Len(suites[suite].tests) /\ Body = suites[suite].tests[test]
      /\ Body \in Bodies /\ Progress(Body, statement, passed, failed)
      /\ Report(suites, suite, test, counts) /\ (suitePassed <=> NoneFails(suites, suite, test))
  BY <1>1, InTestFacts
<1> DEFINE b == Body  L == Len(suites[suite].tests)
<1>3. counts' = CountedTest(counts, passed, failed)
  BY DEF EndTest, Counted, CountedTest
<1>4. /\ suites' = suites /\ phase' = "running" /\ suite' = suite /\ test' = test + 1
      /\ statement' = 1 /\ passed' = 0 /\ failed' = 0
      /\ suitePassed' = (suitePassed /\ failed = 0)
  BY <1>2 DEF EndTest
<1>5. Report(suites, suite, test + 1, CountedTest(counts, passed, failed))
  BY <1>1, <1>2, TestIsCounted
<1>6. failed \in Nat /\ (failed > 0 <=> Fails(b))
  BY <1>1, <1>2, TestEnds DEF Progress
<1>7. NoneFails(suites, suite, test + 1) <=> NoneFails(suites, suite, test) /\ ~Fails(b)
  <2>1. \A h : h \in 1 .. test + 1 - 1 <=> h \in 1 .. test - 1 \/ h = test
    BY <1>2
  <2> HIDE DEF b
  <2> QED BY <1>2, <2>1 DEF NoneFails, b
<1>8. suitePassed' <=> NoneFails(suites, suite, test + 1)
  <2>1. failed = 0 <=> ~Fails(b)
    BY <1>6
  <2>2. suitePassed' <=> suitePassed /\ failed = 0
    BY <1>4
  <2> HIDE DEF b
  <2> QED BY <1>2, <1>7, <2>1, <2>2
<1>9. Place(suites, suite, test + 1, 1, 0, 0)
  <2>1. test + 1 \in 1 .. L + 1
    BY <1>2
  <2>2. ASSUME test + 1 <= L PROVE Progress(suites[suite].tests[test + 1], 1, 0, 0)
    <3>1. suites[suite].tests \in Seq(Bodies)
      BY <1>2, SuitesFacts
    <3>2. suites[suite].tests[test + 1] \in Bodies
      BY <1>2, <2>1, <2>2, <3>1, TestsFacts
    <3> QED BY <3>2, TestBegins
  <2> QED BY <1>2, <2>1, <2>2 DEF Place
<1>10. suite \in 1 .. Len(suites) + 1 /\ suitePassed' \in BOOLEAN
  BY <1>2, <1>4
<1> HIDE DEF b, L
<1> QED BY <1>2, <1>3, <1>4, <1>5, <1>8, <1>9, <1>10 DEF TestsInv

LEMMA EndSuiteKeeps == ASSUME TestsInv, EndSuite PROVE TestsInv'
<1> DEFINE u == suites[suite]
<1>1. /\ suites \in Seq(Suites) /\ suitePassed \in BOOLEAN /\ phase = "running"
      /\ suite <= Len(suites) /\ suite \in 1 .. Len(suites) + 1
      /\ Report(suites, suite, test, counts)
      /\ Place(suites, suite, test, statement, passed, failed)
      /\ (suitePassed <=> NoneFails(suites, suite, test))
      /\ ~(u.active /\ test <= Len(u.tests))
  BY DEF TestsInv, EndSuite, InTest, Running
<1>2. Len(suites) \in Nat /\ suite \in 1 .. Len(suites)
  BY <1>1, SuitesFacts
<1>3. u \in Suites /\ u.tests \in Seq(Bodies) /\ u.active \in BOOLEAN
      /\ (suite \in ActiveIn(suites) <=> u.active)
  BY <1>1, <1>2, SuitesFacts DEF ActiveIn
<1>4. Len(u.tests) \in Nat /\ ToSet(u.tests) = {u.tests[h] : h \in 1 .. Len(u.tests)}
  BY <1>3, TestsFacts
<1>5. /\ test = IF u.active THEN Len(u.tests) + 1 ELSE 1
      /\ statement = 1 /\ passed = 0 /\ failed = 0
  BY <1>1, <1>3, <1>4 DEF Place
<1>6. u.active => (suitePassed <=> ~Fail(u))
  <2> SUFFICES ASSUME u.active PROVE suitePassed <=> ~Fail(u)
    OBVIOUS
  <2>1. 1 .. test - 1 = 1 .. Len(u.tests)
    BY <1>4, <1>5
  <2> QED BY <1>1, <1>4, <2>1 DEF NoneFails, Fail
<1>7. counts' = CountedSuite(counts, u, suitePassed)
  BY DEF EndSuite, CountedSuite
<1>8. Report(suites, suite + 1, 1, CountedSuite(counts, u, suitePassed))
  BY <1>1, <1>2, <1>5, <1>6, SuiteIsCounted
<1>9. Place(suites, suite + 1, 1, 1, 0, 0) /\ NoneFails(suites, suite + 1, 1)
  BY <1>1, FirstPlace
<1>10. /\ suites' = suites /\ phase' = "running" /\ suite' = suite + 1 /\ test' = 1
       /\ suitePassed' = TRUE /\ statement' = 1 /\ passed' = 0 /\ failed' = 0
  BY <1>1, <1>5 DEF EndSuite
<1>11. suite + 1 \in 1 .. Len(suites) + 1
  BY <1>2
<1> HIDE DEF u
<1> QED BY <1>1, <1>7, <1>8, <1>9, <1>10, <1>11 DEF TestsInv

LEMMA FinalReportKeeps == ASSUME TestsInv, FinalReport PROVE TestsInv'
<1>1. suites \in Seq(Suites) /\ suite > Len(suites) /\ suite \in 1 .. Len(suites) + 1
      /\ phase = "running" /\ phase' = "reported"
  BY DEF TestsInv, FinalReport
<1>2. suite = Len(suites) + 1
  BY <1>1, SuitesFacts
<1> QED BY <1>1, <1>2 DEF TestsInv, FinalReport

LEMMA TestsKeep == TestsInv /\ [TestNext]_testVars => TestsInv'
<1> SUFFICES ASSUME TestsInv, [TestNext]_testVars PROVE TestsInv'
  OBVIOUS
<1>1. ASSUME UNCHANGED testVars PROVE TestsInv'
  BY <1>1 DEF testVars, TestsInv
<1> QED BY <1>1, CreateSuiteKeeps, CreateTestKeeps, ParseArgvKeeps, RunStatementKeeps, EndTestKeeps,
           EndSuiteKeeps, FinalReportKeeps DEF TestNext

\* While unit_run() runs, its counters are a report of the tests behind it.
THEOREM TestsInvHolds == TestSpec => []TestsInv
  BY InitTests, TestsKeep, PTL DEF TestSpec

\* At the end of the last suite all of them have been run.
LEMMA ReportIsComplete == TestsInv => ReportAddsUp
<1> SUFFICES ASSUME TestsInv, phase = "reported" PROVE ReportAddsUp
  BY DEF ReportAddsUp
<1> DEFINE q == suites  m == Len(q) + 1  A == ActiveIn(q)  R == Ran(q, m, test)
<1>1. q \in Seq(Suites) /\ Report(q, m, test, counts) /\ Place(q, m, test, statement, passed, failed)
  BY DEF TestsInv
<1>2. Len(q) \in Nat /\ DOMAIN q = 1 .. Len(q) /\ A \subseteq 1 .. Len(q)
      /\ \A j \in 1 .. Len(q) : q[j].tests \in Seq(Bodies)
  BY <1>1, SuitesFacts
<1>3. Active = A /\ TestsOf(Active) = PairsOf(q, A)
      /\ TestsOf(DOMAIN q \ Active) = PairsOf(q, DOMAIN q \ A)
      /\ \A x : BodyOf(x) = BodyIn(q, x)
  BY DEF Active, ActiveIn, TestsOf, PairsOf, BodyOf, BodyIn
<1>4. R = PairsOf(q, A)
  <2> SUFFICES ASSUME NEW j \in A, NEW x \in {j} \X DOMAIN q[j].tests PROVE x[1] < m
    BY DEF Ran, PairsOf
  <2> QED BY <1>2
<1>5. /\ counts \in [Counters -> Nat] /\ TestCounts(q, R, counts) /\ SuiteCounts(q, m, counts)
  BY <1>1 DEF Report, Counters
<1>6. /\ FailIn(q, R) = {x \in TestsOf(Active) : Fails(BodyOf(x))}
      /\ PassIn(q, R) = {x \in TestsOf(Active) : Shows(BodyOf(x)) /\ ~Fails(BodyOf(x))}
      /\ EmptyIn(q, R) = {x \in TestsOf(Active) : ~Shows(BodyOf(x))}
  BY <1>3, <1>4 DEF FailIn, PassIn, EmptyIn
<1>7. /\ FailedSuites(q, m) = {j \in Active : \E b \in ToSet(suites[j].tests) : Fails(b)}
      /\ EmptySuites(q, m) = {j \in Active : suites[j].tests = <<>>}
      /\ Skipped(q, m) = TestsOf(DOMAIN suites \ Active)
  <2>1. \A j \in 1 .. Len(q) : j < m
    BY <1>2
  <2>2. {j \in DOMAIN q \ A : j < m} = DOMAIN q \ A
    BY <1>2, <2>1
  <2>3. FailedSuites(q, m) = {j \in Active : \E b \in ToSet(suites[j].tests) : Fails(b)}
    BY <1>2, <1>3, <2>1 DEF FailedSuites
  <2>4. EmptySuites(q, m) = {j \in Active : suites[j].tests = <<>>}
    BY <1>2, <1>3, <2>1 DEF EmptySuites
  <2> QED BY <1>3, <2>2, <2>3, <2>4 DEF Skipped
<1>8. \A j \in A : \A b \in ToSet(q[j].tests) : \E x \in R : x[1] = j /\ BodyIn(q, x) = b
  <2> SUFFICES ASSUME NEW j \in A, NEW b \in ToSet(q[j].tests)
               PROVE  \E x \in R : x[1] = j /\ BodyIn(q, x) = b
    OBVIOUS
  <2>1. PICK h \in DOMAIN q[j].tests : b = q[j].tests[h]
    BY DEF ToSet
  <2>2. <<j, h>> \in PairsOf(q, A) /\ BodyIn(q, <<j, h>>) = b
    BY <2>1 DEF PairsOf, BodyIn
  <2> QED BY <1>4, <2>2
<1>9. \A x \in R : x[1] \in A /\ BodyIn(q, x) \in ToSet(q[x[1]].tests)
  <2> SUFFICES ASSUME NEW j \in A, NEW x \in {j} \X DOMAIN q[j].tests
               PROVE  x[1] \in A /\ BodyIn(q, x) \in ToSet(q[x[1]].tests)
    BY <1>4 DEF PairsOf
  <2> QED BY DEF BodyIn, ToSet
<1>10. FailIn(q, R) # {} <=> FailedSuites(q, m) # {}
  BY <1>3, <1>7, <1>8, <1>9 DEF FailIn
<1>11. \A j \in Active : \A b \in ToSet(suites[j].tests) : "REQUIRE" \notin Failing(b)
  BY <1>3, <1>5, <1>8 DEF TestCounts
<1>12. counts.suites_failed > 0 <=> FailedSuites(q, m) # {}
  <2>1. IsFiniteSet(FailedSuites(q, m))
    <3>1. FailedSuites(q, m) \in SUBSET (1 .. Len(q))
      BY <1>2 DEF FailedSuites
    <3>2. IsFiniteSet(1 .. Len(q))
      BY <1>2, FS_Interval
    <3> QED BY <3>1, <3>2, FS_Subset
  <2>2. Cardinality(FailedSuites(q, m)) \in Nat
        /\ (Cardinality(FailedSuites(q, m)) = 0 <=> FailedSuites(q, m) = {})
    BY <2>1, FS_CardinalityType, FS_EmptySet
  <2> QED BY <1>5, <2>2 DEF SuiteCounts
<1>13. counts.suites_passed + counts.suites_failed + counts.suites_without
         + counts.suites_deactivated = Len(suites)
  <2>1. Len(q) + 1 - 1 = Len(q)
    BY <1>2
  <2> QED BY <1>5, <2>1 DEF SuiteCounts
<1>14. counts.assertions_failed > 0 <=> counts.suites_failed > 0
  BY <1>5, <1>10, <1>12 DEF TestCounts
<1>15. /\ counts.tests_failed = Cardinality(FailIn(q, R))
       /\ counts.tests_passed = Cardinality(PassIn(q, R))
       /\ counts.tests_without = Cardinality(EmptyIn(q, R))
       /\ counts.tests_deactivated = Cardinality(Skipped(q, m))
       /\ counts.suites_failed = Cardinality(FailedSuites(q, m))
       /\ counts.suites_without = Cardinality(EmptySuites(q, m))
  BY <1>5 DEF TestCounts, SuiteCounts
<1> HIDE DEF q, m, A, R
<1> QED BY <1>6, <1>7, <1>11, <1>13, <1>14, <1>15 DEF ReportAddsUp

\* unit_final_report() says of every suite and test what became of it.
THEOREM ReportsAddUp == TestSpec => []ReportAddsUp
  BY TestsInvHolds, ReportIsComplete, PTL
=============================================================================
