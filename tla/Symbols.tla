------------------------------ MODULE Symbols ------------------------------
(***************************************************************************)
(* Symbols of the C++ library: objects whose references are counted in     *)
(* Cell and Object (cell.h, object.cpp, managed_type.h), the allocator's   *)
(* table, which has one symbol of a name (allocator.h, symbol.cpp), and    *)
(* the bindings of an Env (env.h, vm.cpp), found by the pointer.           *)
(*                                                                         *)
(* The table does not count: the last cell that drops a symbol deletes it, *)
(* which takes it out of the table.  The allocator may go before the last  *)
(* cell does.  What is not a symbol is NoSymbol.  No cell is assigned to   *)
(* itself: operator=() drops what the cell holds before it reads.          *)
(***************************************************************************)
EXTENDS Naturals, Sequences, FiniteSets, Functions

CONSTANTS
  Names,
  Symbols,    \* addresses
  Cells,      \* the program's
  NoSymbol

ASSUME SymbolsAssumption == /\ IsFiniteSet(Symbols) /\ IsFiniteSet(Cells)
                            /\ NoSymbol \notin Symbols

VARIABLES
  symbol,     \* [name, refCount, owned] of the symbols there are, owned with an allocator
  table,      \* Allocator::symbols
  cell,       \* what the program's cells hold
  bindings,   \* Env::bindings, the key being a cell too
  allocator,  \* FALSE when it is destroyed
  defined     \* history: the last definition of each name

symbolVars == <<symbol, table, cell, bindings, allocator, defined>>

SymbolsInit ==
  /\ symbol = <<>> /\ table = <<>> /\ bindings = <<>> /\ defined = <<>>
  /\ cell = [c \in Cells |-> NoSymbol]
  /\ allocator = TRUE

---------------------------------------------------------------------------
(* What calls do to the symbols and the table, s.                          *)

\* The map f with the value v for x, and without x.
With(f, x, v) == [y \in DOMAIN f \cup {x} |-> IF y = x THEN v ELSE f[y]]
Without(f, x) == Restrict(f, DOMAIN f \ {x})

SymbolState == [symbol |-> symbol, table |-> table]
SymbolsBecome(s) == symbol' = s.symbol /\ table' = s.table

\* A cell starts to hold i: Cell::init() and initCell().
Ref(s, i) == IF i = NoSymbol THEN s ELSE [s EXCEPT !.symbol[i].refCount = @ + 1]

\* Mutant: ~Symbol() does not tell the allocator.
UnrefKeepsName(s, i) ==
  IF i = NoSymbol THEN s
  ELSE IF s.symbol[i].refCount > 1 THEN [s EXCEPT !.symbol[i].refCount = @ - 1]
  ELSE [s EXCEPT !.symbol = Without(@, i)]

\* A cell ceases to hold i: Cell::unset(), ~Symbol() and Allocator::remove().
Unref(s, i) ==
  IF i = NoSymbol THEN s
  ELSE IF s.symbol[i].refCount > 1 THEN [s EXCEPT !.symbol[i].refCount = @ - 1]
  ELSE [s EXCEPT !.symbol = Without(@, i),
                 !.table = IF s.symbol[i].owned
                           THEN Without(@, s.symbol[i].name) ELSE @]

\* makeRoot<Symbol>(): the symbol and the table with it.
Interned(s, n) ==
  IF n \in DOMAIN s.table THEN <<s.table[n], s>>
  ELSE LET i == CHOOSE j \in Symbols : j \notin DOMAIN s.symbol
       IN  <<i, [symbol |-> With(s.symbol, i, [name |-> n, refCount |-> 0, owned |-> TRUE]),
                 table |-> With(s.table, n, i)]>>

\* A temporary cell holds the symbol called n during a call.
Named(n) == LET r == Interned(SymbolState, n) IN <<r[1], Ref(r[2], r[1])>>

Room == Symbols \ DOMAIN symbol # {}

---------------------------------------------------------------------------
\* c = vm.make<Symbol>(n), which moves the temporary.
Make(c, n) ==
  /\ allocator /\ (n \in DOMAIN table \/ Room)
  /\ LET r == Named(n) IN SymbolsBecome(Unref(r[2], cell[c])) /\ cell' = [cell EXCEPT ![c] = r[1]]
  /\ UNCHANGED <<bindings, allocator, defined>>

\* c = d: the old value goes before the new one is counted.
Copy(c, d) ==
  /\ c # d
  /\ SymbolsBecome(Ref(Unref(SymbolState, cell[c]), cell[d]))
  /\ cell' = [cell EXCEPT ![c] = cell[d]]
  /\ UNCHANGED <<bindings, allocator, defined>>

\* c = std::move(d).
Move(c, d) ==
  /\ c # d
  /\ SymbolsBecome(Unref(SymbolState, cell[c]))
  /\ cell' = [cell EXCEPT ![c] = cell[d], ![d] = NoSymbol]
  /\ UNCHANGED <<bindings, allocator, defined>>

\* The end of c, or c = nil.
Drop(c) ==
  /\ cell[c] # NoSymbol
  /\ SymbolsBecome(Unref(SymbolState, cell[c]))
  /\ cell' = [cell EXCEPT ![c] = NoSymbol]
  /\ UNCHANGED <<bindings, allocator, defined>>

\* Mutant: the map keeps the pointer and not a cell.
DefineUncounted(n, c) ==
  /\ allocator /\ (n \in DOMAIN table \/ Room)
  /\ LET r == Named(n)
         i == r[1]
         old == IF i \in DOMAIN bindings THEN bindings[i] ELSE NoSymbol
     IN  /\ SymbolsBecome(Unref(Ref(Unref(r[2], old), cell[c]), i))
         /\ bindings' = With(bindings, i, cell[c])
  /\ defined' = With(defined, n, cell[c])
  /\ UNCHANGED <<cell, allocator>>

\* vm.define(n, c): Env::set() copies the key when it is new.
Define(n, c) ==
  /\ allocator /\ (n \in DOMAIN table \/ Room)
  /\ LET r == Named(n)
         i == r[1]
         isNew == i \notin DOMAIN bindings
         keyed == IF isNew THEN Ref(r[2], i) ELSE r[2]
         old == IF isNew THEN NoSymbol ELSE bindings[i]
     IN  /\ SymbolsBecome(Unref(Ref(Unref(keyed, old), cell[c]), i))
         /\ bindings' = With(bindings, i, cell[c])
  /\ defined' = With(defined, n, cell[c])
  /\ UNCHANGED <<cell, allocator>>

\* Env::find(), which gives undefined for an unknown name.
Found(s, i) == IF i \in DOMAIN bindings THEN bindings[i] ELSE NoSymbol

\* c = vm.find(n), which may make a symbol only to look it up.
Find(c, n) ==
  /\ allocator /\ (n \in DOMAIN table \/ Room)
  /\ LET r == Named(n)
         v == Found(r[2], r[1])
     IN  /\ SymbolsBecome(Unref(Unref(Ref(r[2], v), r[1]), cell[c]))
         /\ cell' = [cell EXCEPT ![c] = v]
  /\ UNCHANGED <<bindings, allocator, defined>>

\* ~unordered_map(): the keys of order and their values, one after the other.
Dropped(s, order) ==
  LET after[k \in 0 .. Len(order)] ==
        IF k = 0 THEN s ELSE Unref(Unref(after[k - 1], bindings[order[k]]), order[k])
  IN  after[Len(order)]

\* The end of the Env: every key and every value, in the order of the map.
DropEnv ==
  /\ bindings # <<>>
  /\ \E order \in Bijection(1 .. Cardinality(DOMAIN bindings), DOMAIN bindings) :
       SymbolsBecome(Dropped(SymbolState, order))
  /\ bindings' = <<>> /\ defined' = <<>>
  /\ UNCHANGED <<cell, allocator>>

\* ~Allocator(): the symbols that are left forget it.
DropAllocator ==
  /\ allocator
  /\ allocator' = FALSE
  /\ symbol' = [i \in DOMAIN symbol |->
                  IF \E n \in DOMAIN table : table[n] = i THEN [symbol[i] EXCEPT !.owned = FALSE]
                  ELSE symbol[i]]
  /\ table' = <<>>
  /\ UNCHANGED <<cell, bindings, defined>>

SymbolsNext ==
  \/ \E c \in Cells : \/ Drop(c)
                      \/ \E d \in Cells : Copy(c, d) \/ Move(c, d)
                      \/ \E n \in Names : Make(c, n) \/ Define(n, c) \/ Find(c, n)
  \/ DropEnv \/ DropAllocator

SymbolsSpec == SymbolsInit /\ [][SymbolsNext]_symbolVars

---------------------------------------------------------------------------
(* Properties.                                                             *)

SymbolsTypeOK ==
  /\ DOMAIN symbol \subseteq Symbols
  /\ \A i \in DOMAIN symbol :
       symbol[i] \in [name : Names, refCount : Nat, owned : BOOLEAN]
  /\ DOMAIN table \subseteq Names /\ Range(table) \subseteq Symbols
  /\ cell \in [Cells -> Symbols \cup {NoSymbol}]
  /\ allocator \in BOOLEAN

\* The cells that hold i.
Holders(i) == Cardinality({c \in Cells : cell[c] = i})
              + Cardinality(DOMAIN bindings \cap {i})
              + Cardinality({j \in DOMAIN bindings : bindings[j] = i})

\* A symbol lives exactly as long as a cell holds it, its count is the number
\* of those cells, and the allocator knows the symbols that know it.
SymbolsCounted ==
  /\ \A i \in Symbols : IF i \in DOMAIN symbol THEN symbol[i].refCount = Holders(i)
                                                    /\ Holders(i) > 0
                        ELSE Holders(i) = 0
  /\ \A i \in DOMAIN symbol : symbol[i].owned <=> allocator
  /\ \A n \in DOMAIN table : table[n] \in DOMAIN symbol /\ symbol[table[n]].name = n
  /\ allocator => \A i \in DOMAIN symbol :
                    symbol[i].name \in DOMAIN table /\ table[symbol[i].name] = i

\* What the Env gives for a name is what it was last defined as, whatever
\* became of the cells in between.
FoundAsDefined ==
  allocator => \A n \in Names :
    LET r == Interned(SymbolState, n)
        given == IF n \in DOMAIN table THEN Found(r[2], table[n]) ELSE NoSymbol
    IN  given = IF n \in DOMAIN defined THEN defined[n] ELSE NoSymbol
=============================================================================
