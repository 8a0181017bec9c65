----------------------------- MODULE ConsPages -----------------------------
(***************************************************************************)
(* The pages of conses of the C++ allocator (lpp/core/memory/cons_pages):  *)
(* memory that next() hands out, recycle() takes back and recycleAll()     *)
(* sorts out anew, and the random access iterator over what has ever been  *)
(* handed out.  A cons is named by its place, counted through all pages.   *)
(***************************************************************************)
EXTENDS Integers, Sequences, FiniteSets, Functions, SequencesExt

CONSTANTS
  PageSize, MaxPages,
  Word,      \* the number of values of a machine word
  Pointer    \* the size of the pointers in the vector of pages

\* There is memory for the conses, of more than two bytes each, and for the
\* vector of pages.
ASSUME PagesAssumption ==
  /\ PageSize \in Nat \ {0} /\ MaxPages \in Nat
  /\ Word \in Nat /\ 2 * (MaxPages * PageSize) < Word
  /\ Pointer \in Nat \ {0} /\ MaxPages * Pointer < Word

VARIABLES
  pages,     \* their number
  pos,       \* of the next new cons in the last page
  recycled,  \* a stack
  used       \* history: the conses the program has

pageVars == <<pages, pos, recycled, used>>

numHandedOut == (pages - 1) * PageSize + pos
HandedOut == 0 .. numHandedOut - 1

PagesInit == pages = 0 /\ pos = PageSize /\ recycled = <<>> /\ used = {}

\* Mutant: next() leaves the cons it takes on the stack.
NextKeepsRecycled ==
  IF recycled = <<>> THEN
    /\ pages' = IF pos = PageSize THEN pages + 1 ELSE pages
    /\ pages' <= MaxPages
    /\ pos' = IF pos = PageSize THEN 1 ELSE pos + 1
    /\ used' = used \cup {(pages' - 1) * PageSize + pos' - 1}
    /\ UNCHANGED recycled
  ELSE used' = used \cup {Last(recycled)} /\ UNCHANGED <<recycled, pages, pos>>

\* next().
NextCons ==
  IF recycled = <<>> THEN
    /\ pages' = IF pos = PageSize THEN pages + 1 ELSE pages
    /\ pages' <= MaxPages
    /\ pos' = IF pos = PageSize THEN 1 ELSE pos + 1
    /\ used' = used \cup {(pages' - 1) * PageSize + pos' - 1}
    /\ UNCHANGED recycled
  ELSE
    /\ used' = used \cup {Last(recycled)} /\ recycled' = Front(recycled)
    /\ UNCHANGED <<pages, pos>>

\* recycle().
Recycle(c) ==
  /\ recycled' = Append(recycled, c) /\ used' = used \ {c}
  /\ UNCHANGED <<pages, pos>>

\* recycleAll(): a loop over the conses recycles all but the reachable ones.
Unreached(reachable) ==
  LET after[n \in 0 .. numHandedOut] ==
        IF n = 0 THEN <<>>
        ELSE IF n - 1 \in reachable THEN after[n - 1] ELSE Append(after[n - 1], n - 1)
  IN  after[numHandedOut]
RecycleAll(reachable) ==
  /\ recycled' = Unreached(reachable)
  /\ used' = reachable
  /\ UNCHANGED <<pages, pos>>

PagesNext ==
  \/ NextCons
  \/ \E c \in used : Recycle(c)
  \/ \E R \in SUBSET used : RecycleAll(R)

PagesSpec == PagesInit /\ [][PagesNext]_pageVars

getNumAllocated == pages * PageSize

\* Mutant: the rest of the last page is not void.
NumVoidOfRecycled == Len(recycled)

getNumVoid == IF pages = 0 THEN 0 ELSE PageSize - pos + Len(recycled)

---------------------------------------------------------------------------
(* The iterator: itr is the address of a page in the vector, taken to      *)
(* begin at 0, in words of Word values.                                    *)

cbegin == [itr |-> 0, pos |-> 0]
cend == IF pos = PageSize THEN [itr |-> pages * Pointer, pos |-> 0]
        ELSE [itr |-> (pages - 1) * Pointer, pos |-> pos]

\* operator*(): the cons in a page that there is.
BasicCons(i) == (i.itr \div Pointer) * PageSize + i.pos

Increment(i) == IF i.pos + 1 = PageSize THEN [itr |-> i.itr + Pointer, pos |-> 0]
                ELSE [i EXCEPT !.pos = @ + 1]
Decrement(i) == IF i.pos > 0 THEN [i EXCEPT !.pos = @ - 1]
                ELSE [itr |-> i.itr - Pointer, pos |-> PageSize - 1]

\* Mutant: the position in the page is not counted.
PlusFromPage(i, p) == [itr |-> (i.itr + (p \div PageSize) * Pointer) % Word, pos |-> p % PageSize]

\* operator+=(), whose division by a std::size_t is one of unsigned words, and
\* operator-=(), which adds the negative.
Plus(i, p) ==
  LET n == (p + i.pos) % Word
  IN  [itr |-> (i.itr + (n \div PageSize) * Pointer) % Word, pos |-> n % PageSize]

\* operator-() of two iterators, a word taken for a signed one.
Difference(i, j) ==
  LET d == (((i.itr - j.itr) \div Pointer) * PageSize + i.pos - j.pos) % Word
  IN  IF 2 * d < Word THEN d ELSE d - Word

\* operator<().
Before(i, j) == i.itr < j.itr \/ (i.itr = j.itr /\ i.pos < j.pos)

---------------------------------------------------------------------------
(* Properties.                                                             *)

PagesTypeOK ==
  /\ pages \in 0 .. MaxPages /\ pos \in 0 .. PageSize
  /\ recycled \in Seq(HandedOut) /\ used \subseteq HandedOut

\* No cons is in two hands: what is recycled is so once, and the program has
\* the others that were ever handed out.  getNumVoid() counts what is left.
EachConsOnce ==
  /\ IsInjective(recycled)
  /\ ToSet(recycled) \cap used = {}
  /\ ToSet(recycled) \cup used = HandedOut
  /\ getNumVoid = getNumAllocated - Cardinality(used)

\* A division of unsigned words says where a distance leads on an earlier page.
DividesAll == Word % PageSize = 0 /\ Pointer % PageSize = 0

\* The iterator goes through all conses ever handed out, and its arithmetic
\* agrees with its steps -- but for a distance to an earlier page exactly if
\* the page size divides the number of values of a word and the size of a
\* pointer.  The 4 of the test does; CONS_PAGE_SIZE (512, allocator.h:47) does
\* not divide the 8 bytes of a pointer, so cend() - 1 is wrong while the last page
\* is full.
IteratorsAgree ==
  LET n == numHandedOut
      walk[k \in 0 .. n] == IF k = 0 THEN cbegin ELSE Increment(walk[k - 1])
  IN  /\ walk[n] = cend
      /\ \A k \in 0 .. n - 1 : BasicCons(walk[k]) = k /\ Decrement(walk[k + 1]) = walk[k]
      /\ \A j, k \in 0 .. n :
           /\ Plus(walk[j], k - j) = walk[k] <=> walk[j].itr <= walk[k].itr \/ DividesAll
           /\ Difference(walk[k], walk[j]) = k - j
           /\ Before(walk[j], walk[k]) <=> j < k
=============================================================================
