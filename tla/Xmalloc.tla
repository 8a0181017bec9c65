------------------------------ MODULE Xmalloc ------------------------------
(***************************************************************************)
(* The memory checker of lisp/util/xmalloc.c: MALLOC, REALLOC and FREE of  *)
(* a debug build keep books about the addresses malloc() hands out, in a   *)
(* stack of contexts, and let a test make the next allocations fail.       *)
(* malloc() gives an address again as soon as it is free.                  *)
(***************************************************************************)
EXTENDS Naturals, Sequences, FiniteSets, SequencesExt

CONSTANTS Addresses, MaxContexts, MaxMocks, MaxErrors

ASSUME AddressesAreFinite == IsFiniteSet(Addresses)

VARIABLES
  stack,     \* memcheck_stack, the current context first
  inUse,     \* what malloc() has given out
  held       \* history: for each context, what was allocated in it and not freed

memoryVars == <<stack, inUse, held>>

Context == [chunk : [Addresses -> {"none", "live", "freed"}],
            errors : Seq({"leak", "unmanaged", "double free"}),
            mocks : Seq(BOOLEAN), enabled : BOOLEAN]

NewContext == [chunk |-> [a \in Addresses |-> "none"], errors |-> <<>>,
               mocks |-> <<>>, enabled |-> TRUE]

InContext == stack # <<>>
Current == Head(stack)
Enabled == InContext /\ Current.enabled

MemoryInit == stack = <<>> /\ inUse = {} /\ held = <<>>

MemcheckBegin ==
  /\ Len(stack) < MaxContexts
  /\ stack' = <<NewContext>> \o stack /\ held' = <<{}>> \o held
  /\ UNCHANGED inUse

MemcheckEnd ==
  /\ InContext
  /\ stack' = Tail(stack) /\ held' = Tail(held)
  /\ UNCHANGED inUse

MemcheckEnable(b) ==
  /\ InContext
  /\ stack' = [stack EXCEPT ![1].enabled = b]
  /\ UNCHANGED <<inUse, held>>

ExpectedAlloc(success) ==
  /\ InContext /\ Len(Current.mocks) < MaxMocks
  /\ stack' = [stack EXCEPT ![1].mocks = Append(@, success)]
  /\ UNCHANGED <<inUse, held>>

---------------------------------------------------------------------------
(* The books of one context.                                               *)

\* memcheck_next_mock(): whether an allocation may succeed, and the context
\* without the expectation that said so.
Mocked == Enabled /\ Current.mocks # <<>>
Succeeds == Mocked => Head(Current.mocks)
NextMock(c) == IF Mocked THEN [c EXCEPT !.mocks = Tail(@)] ELSE c

\* memcheck_register_alloc(): a chunk that is known is alive again.
RegisterAlloc(c, a) == IF c.enabled THEN [c EXCEPT !.chunk[a] = "live"] ELSE c

\* memcheck_register_freed(), which does not ask whether the context is enabled.
RegisterFreed(c, a) ==
  CASE c.chunk[a] = "none"  -> [c EXCEPT !.errors = Append(@, "unmanaged")]
    [] c.chunk[a] = "freed" -> [c EXCEPT !.errors = Append(@, "double free")]
    [] OTHER                -> [c EXCEPT !.chunk[a] = "freed"]

\* Mutant: the old address is registered as freed after the new one.
ReallocatedFreedLast(c, p, q) == RegisterFreed(RegisterAlloc(c, q), p)

\* The books after realloc() has moved p to q.
Reallocated(c, p, q) == RegisterAlloc(RegisterFreed(c, p), q)

Update(c) == IF InContext THEN stack' = <<c>> \o Tail(stack) ELSE UNCHANGED stack
Hold(S) == held' = IF InContext THEN [held EXCEPT ![1] = S] ELSE held

Malloc(a) ==
  /\ a \notin inUse
  /\ IF Succeeds
     THEN /\ inUse' = inUse \cup {a}
          /\ Update(RegisterAlloc(NextMock(Current), a))
          /\ Hold(IF Enabled THEN held[1] \cup {a} ELSE held[1])
     ELSE Update(NextMock(Current)) /\ UNCHANGED <<inUse, held>>

\* memcheck_debug_realloc() of p; without one it is malloc().
Realloc(p, q) ==
  /\ p \in inUse /\ (q = p \/ q \notin inUse)
  /\ InContext => Len(Current.errors) < MaxErrors
  /\ IF Succeeds
     THEN /\ inUse' = (inUse \ {p}) \cup {q}
          /\ Update(Reallocated(NextMock(Current), p, q))
          /\ Hold(IF Enabled THEN (held[1] \ {p}) \cup {q} ELSE held[1] \ {p})
     ELSE Update(NextMock(Current)) /\ UNCHANGED <<inUse, held>>

\* memcheck_debug_free() of memory in use, or a second time of memory the
\* context knows as freed: then free() is not called.
Free(a) ==
  /\ a \in inUse \/ (InContext /\ Current.chunk[a] = "freed")
  /\ InContext => Len(Current.errors) < MaxErrors
  /\ inUse' = IF InContext /\ Current.chunk[a] = "freed" THEN inUse ELSE inUse \ {a}
  /\ Update(RegisterFreed(Current, a))
  /\ Hold(held[1] \ {a})

\* free() of the C library, for memory allocated while the context is disabled.
LibcFree(a) ==
  /\ a \in inUse /\ \A k \in DOMAIN stack : stack[k].chunk[a] # "live"
  /\ inUse' = inUse \ {a} /\ UNCHANGED <<stack, held>>

\* memcheck_finalize(): the caller gets the errors, with one for every
\* chunk that is still allocated.
Reported(c) == c.errors \o [i \in 1 .. Cardinality({a \in Addresses : c.chunk[a] = "live"}) |-> "leak"]

MemcheckFinalize ==
  /\ InContext
  /\ stack' = [stack EXCEPT ![1].errors = <<>>]
  /\ UNCHANGED <<inUse, held>>

MemcheckRemoveFirstAssertion ==
  /\ InContext /\ Current.errors # <<>>
  /\ stack' = [stack EXCEPT ![1].errors = Tail(@)]
  /\ UNCHANGED <<inUse, held>>

MemoryNext ==
  \/ MemcheckBegin \/ MemcheckEnd \/ MemcheckFinalize \/ MemcheckRemoveFirstAssertion
  \/ \E b \in BOOLEAN : MemcheckEnable(b) \/ ExpectedAlloc(b)
  \/ \E a \in Addresses : Malloc(a) \/ Free(a) \/ LibcFree(a)
  \/ \E p, q \in Addresses : Realloc(p, q)

MemorySpec == MemoryInit /\ [][MemoryNext]_memoryVars

---------------------------------------------------------------------------
(* Properties.                                                             *)

MemoryTypeOK ==
  /\ stack \in Seq(Context) /\ inUse \subseteq Addresses
  /\ held \in Seq(SUBSET Addresses) /\ Len(held) = Len(stack)

\* memcheck_finalize() reports one leak for each block that was allocated in
\* the context and not given back in it, however often malloc() has reused
\* the address, failing allocations, nested contexts and phases in which the
\* context was disabled notwithstanding.
ReportsLeaks ==
  \A k \in DOMAIN stack :
    LET report == Reported(stack[k])
    IN  Cardinality({i \in DOMAIN report : report[i] = "leak"}) = Cardinality(held[k])
===========================================================================
