# LispPlusPlus in TLA+

LispPlusPlus holds two garbage-collected Lisp kernels. `lpp/` is the current one,
in C++: an incremental tri-colour collector, reference-counted handles, a byte code
machine and a Scheme front end. `lisp/` is its predecessor in C: a collector of the
same design and a toolbox of lists, hash tables and allocators. Both are single
threaded. What makes them hard is that a collection is cut into increments, and the
program writes pointers, copies and drops handles between any two of them.

This directory models the two collectors and what is built on and around them:
handles, containers, symbols, the Scheme compiler and its machine, the simulations,
and the C library's lists, hash table, test allocator, command line and unit tests.
TLC checks them all. TLAPS proves, for every size, both collectors and both their
simulations, the containers and pages under the C++ collector, its counted symbols, and
of the C library that its hash table is a map, its lists are sequences, leaks are
reported, regular command lines are taken as meant and a test report adds up.

## 1. The system

| part | source | state | operations |
|---|---|---|---|
| collector | `lpp/core/memory/allocator.*`, `color_map.h` | two colour maps (conses, containers) of six containers each, lists of disposed objects, step counts | `make`, `makeRoot`, `step`, `recycle`, `cycle`, switches |
| containers | `lpp/core/memory/collectible_container.h` | a vector of objects; every object knows its container and index | `add`, `remove`, `root`, `unroot`, `grey`, `move` |
| cons pages | `lpp/core/memory/cons_pages.*` | pages of conses, the current page, recycled conses | `next`, `recycle` |
| Cons, Array | `lpp/core/types/cons.h`, `array.h` | cells, `refCount`, `gcPosition` | setters with their barrier, `append`, `greyChildren`, `recycleNextChild` |
| handles | `lpp/core/object.cpp` | a typed pointer | construct, copy, assign, destroy |
| cells | `lpp/core/cell.*`, `managed_type.h` | a typed value; counts of managed values | copy, move, assign, `grey` |
| evaluator | `lpp/core/types/continuation.*`, `function.*` | value stack, instruction stack, environment | `eval`, `next`, calls |
| environment | `lpp/core/env.h`, `vm.*`, `symbol.*`, `reference.*` | interned symbols, bindings | `make`, `find`, disposal |
| Scheme | `lpp/scheme/` | forms of the language | `eval`, `compile` |
| C collector | `lisp/core/vm.c`, `gc_color_map.c`, `gc_iterator.c` | two times six linked lists, lists of disposed and recycled | steps, swap, full cycle, recycling |
| C objects | `lisp/core/cell.c`, `cons.c`, `array.c`, `tid.c` | cells, `ref_count`, `gc_list`, `gc_pos` | make, set, unset, resize |
| C toolbox | `lisp/util/` | linked list, hash table, test allocator, command line, byte buffers | |
| unit tests | `lisp/util/assertion.*`, `unit_test.*` | suites and tests, counters of what passed | `ASSERT`, `CHECK`, `REQUIRE`, run, report |
| simulations | `lisp/simul/`, `lpp/simul/`, `gc_sim.*` | a random graph next to the heap | add, connect, disconnect, compare, statistics |

How they interact. A handle (`Object`) roots its object: `root()` moves it into a
root container and counts. Making an object, and dropping the last handle of one,
calls `step()` and `recycle()` of the allocator *inside* the operation: the program's
own calls drive the collector, and each one goes on after the collector has changed
colours and freed memory. A write into a cons or an array greys what it stores
(`gcStep()`, `grey()`). `step()` scans one cons and, if that leaves something to do,
one cell of one array; when both maps have nothing left it swaps: white objects are
disposed of and black ones become white. `recycle()` gives disposed storage back, a
few cells at a time. The C library does the same with explicit calls.

What makes a part correct:

- collector: nothing a handle reaches is ever disposed of; what none reaches is, in
  the end; the swap comes only when marking is complete
- containers: root containers hold exactly what handles hold, and the counts agree;
  an object's container and index are where it is
- barriers: no black object hides a white one
- handles: the object a handle takes is still there when it takes it
- C lists: the list an object is linked into is the one its `gc_list` names
- cells: a managed value lives as long as a cell holds it
- Scheme: a form that compiles computes what it means
- toolbox: the hash table is a map, the list a sequence; the test allocator reports
  what leaks, a command line is taken as meant, a report adds up
- simulations: the graph that is drawn from is the heap

The hard behaviours are listed with their lines as hazards in `PROJECT.json`. There
is no concurrency, no messages, no persistence: the orderings are those of the
program's calls against the increments, and of the steps inside one call.

## 2. Modules

    Reachability            what a set of roots reaches
      ReachabilityTheorems  facts about it (TLAPS)
    GcHeap                  what both collectors promise: a heap without colours
    Allocator               the C++ collector, its barriers and its handles
      AllocatorInvariant    the inductive invariant
      AllocatorProgress     ages of garbage, fairness, liveness
      AllocatorClients      the calls the collector does not survive
      AllocatorProofs       the invariant, that it implements GcHeap, assignments
                            from cells, ages of garbage (TLAPS)
    GcVm                    the collector of the C library
      GcVmClients           the calls it does not survive
      GcStatistics          its iterators, statistics and check
        GcSim               the simulation of the C library
      GcVmProofs            the invariant, that it implements GcHeap, that iterators,
                            statistics and simulation find what is there (TLAPS)
    MCAllocator, MCGcVm     symmetry and instances for TLC

    MCKernel                what is around the C++ collector, one behaviour each:
      Containers            vectors with indices, and the links between them
        ContainersProofs    that they do what Allocator's sets do (TLAPS)
      ConsPages             pages, recycled conses, iterators
      CollectorSwitch       steps, switches, guards
      Symbols               counted references, interned names, the environment
        SymbolsProofs       that symbols are counted, names found (TLAPS)
      Scheme                compiler and byte code machine
        SchemeScripts       programs for it
        SchemeTests         the tests of the repository as programs
      SimGraph              the simulation of the C++ library
      KernelProofs          the cons pages, the switches, the graph (TLAPS)
      SimStatistics         quantiles and averages over its runs
    MCScheme                Scheme alone

    MCToolbox               the C library beside its collector, one behaviour each:
      HashTable             the hash table: two worlds, rehashing
        HashMap             a map, and what its calls answer
        HashTableProofs     that the table is one in every stage (TLAPS)
      DlList                the linked list with its pointers
        ItemLists           lists as sequences
      Xmalloc               the test allocator
      ArgParse              the command line parser
      Assertions            comparisons, assertions, the macros that make them
        AssertionTests      the tests of the repository for them
        UnitTests           suites, tests, counters, report
      UtilProofs            the lists, the test allocator, the parser and the
                            report are what they should be (TLAPS)
      GcSim                 (above)

`MCKernel` and `MCToolbox` put parts that do not share state into one specification:
the variable `part` says which one a behaviour belongs to, and the others keep their
first state.

### Allocator

| variable | code |
|---|---|
| `place` | the `CollectibleContainer` an object is in; `disposed` and `recycling` for the two stages of storage that goes back, `void` for free storage |
| `refCount`, `cells`, `gcPosition` | the fields of `Collectible`, `Cons`, `Array` |
| `handle` | the objects the program's `Object` variables hold |
| `pc`, `steps`, `budget`, `todo` | where the library call that is running stands, the rounds `step()` has left, the loop variable of `recycle()`, and what the call does when it is back from the collector |

The white, grey and black containers of a map exchange their roles in `swap()` and
keep their objects; in the model the object changes its place instead. One colour
map is those of `place` that are conses, the other the arrays. A container's vector
is a set, and where the code takes `back()` the model takes any element: what is
shown holds for every order.

Actions of the program: `MakeRootCons`, `MakeRootArray` (`makeRoot`), `MakeCons`,
`MakeArray` (`make`, stored at once into a cell that is reachable, as all callers do),
`SetCell`, `SetManaged`, `AppendCell`, `Copy`, `Drop`, `Assign`, `CallStep`,
`CallRecycle`, `Cycle`. Those that run the collector set `pc`; then `ScanCons`,
`ScanArray`, `NoConsToScan`, `NoArrayToScan`, `Swap`, `RecycleCons`, `RecycleArray`
are the rounds of `step()` and `recycle()`, and `FinishCollect`, `FinishAssign`,
`FinishMakeRoot`, `FinishMakeChild` the part of the call that follows. The program
acts only when `pc = "program"`, since there is one thread.

`AllocatorClients` has two calls that the interface allows and that need care:
`cycle()` while an array is scanned in part, and assignment from a cell. `Next` of
`Allocator` has the first in `NoHalfScannedArray` states only and leaves the second
out; section 4 says what happens else. `Assign` requires two different handles:
`obj = obj` (`object.cpp:106`) drops the object before it takes it, and for an only
handle enters it with a count but outside the root containers.

### GcVm

`where[o]` is the list an object is linked into together with the one its `gc_list`
names: the code unlinks through the second. `refCount`, `cells` and `gcPos` are the
fields, `root` the cells the program owns. Every call is one action, since nothing
happens during one: `GcStep`, `ConsStep`, `ObjectStep`, `GcSwap`, `FullCycle`, the
three recycling calls, `MakeCons`, `MakeArray`, `SetChild`, `AddBulkCons` (the one use
of a temporary cons), `AppendCell`, `Shrink`, `Unset`.

The library says of itself that marking through arrays is not finished
(`vm.c:503`); `Next` therefore stores only plain values in arrays, and runs a full
cycle only where every survivor is in its white list. `GcVmClients` adds the rest.

`GcVm` writes the steps as functions from one assignment of lists to the next, so
that `lisp_vm_gc_step()` can be composed of the two steps the way the code does,
with the answer of the first kept while the second runs.

### HashTable

| variable | code |
|---|---|
| `t.chain` | the buckets in use, in the order of the list `first` .. `last`, each with its entries |
| `t.world`, `t.first` | `current_world_index`, `first_new_world` |
| `t.size`, `t.count` | `n_buckets`, `n_elements` of the two arrays |
| `autoswap`, `answer` | the flag, and what the last call said: `*inserted`, or the result of remove |

A hash code is the key itself. The calls are `FindOrInsert`, `Set`, `RemoveKey`,
`Clear`, `Swap`, `Recycle` and the assignment of `autoswap`; each begins the way the
code does, by moving the old bucket of its key and, with `autoswap`, the first bucket
of the list (`Prepared`). The refinement mapping takes all entries of the list for
the map of `HashMap`, which also fixes what `answer` has to be.

Outside its unit tests the library leaves `autoswap` on and never calls
`hash_table_swap()`. Then no bucket is ever an old one, recycling does nothing, and the table keeps
the size it was made with. The interesting calls are those of the unit tests, which
switch `autoswap` off for a rehash; `Next` does the same, and `SpecAutoswap` is the
rest.

### GcHeap

The abstract specification of both collectors: allocated objects, cells, handles. An
object is made with cells the program holds, written where it is reachable, and
storage may go back at any time from any set of objects that no handle reaches. The
refinement mapping takes the objects in one of the six live places for the allocated
ones.

### Containers, ConsPages, CollectorSwitch

`Containers` has one colour map as the code has it: `map` are the six pointers of
`ColorMap`, `elements` the vectors, `links` what `resetGarbageCollector()` connects,
`container`, `index` and `refCount` the members of an object. To leave a container an
object changes places with the last element. `MovesAsSets` says that each step moves
objects as `Allocator` does, whose containers are sets. `SanityHolds` is what
`checkSanity()` (`allocator.h:727`) is there to test; the code drops what its lambda
answers. `Cell` writes are not in it, so any object may be a child.

`ConsPages` numbers the conses in the order of the pages. Its iterator is an address
and a position, with the unsigned division of the code on words of `Word` values.
`IteratorsAgree` says when the arithmetic agrees with single steps: always, but for a
distance to an earlier page, where it does exactly if the page size divides the range of
the word and the size of a pointer (`DividesAll`). The instance is like the default of
the code: its page size of 2 divides the word and not the size of a pointer, which is 1.
`recycleAll()` is a loop over the conses handed out (`Unreached`).
`CollectorSwitch` has the two step counts, their backups and a stack of `Guard`s. Its
program enables only what is off, since `enableCollector()` otherwise brings
back an old number, and calls nothing under a guard.

### Symbols

Objects with counted references (`cell.h`, `managed_type.h`), the allocator's table
of names, which does not count, and the bindings of an `Env`, which does. The
allocator may be destroyed before the last cell. A cell is not assigned to itself:
`operator=` drops before it reads, and with the last reference deletes the symbol.

### Scheme

`heap` holds the `Function`s with their code and data and the `Reference`s; `env`,
`stack`, `callStack` and `s` are those of `Continuation`, `pc` tells compiling,
entering a function and running it apart. `Compile` matches a form against the
grammar of `Language`, with the classes of `lpp/core/types/forms` as operators; what
an alternative has called of the `Builder` before it fails stays, as in the code.
`Enter`, `Return` and one action for each instruction are `Continuation::eval()`; a
failed assertion ends the program.

`Meaning` defines what a form means by lexical scope, independently of the code.
`SchemeTests` are the tests of `test_scheme/language.cpp`: before a run TLC checks that
their required answers are meanings (`TestsRequireMeanings`), and in the run that the
machine answers with meanings. `SchemeScripts` adds regular programs. They keep to
what the compiler supports: an own argument is the whole body of its lambda (section 4
says what happens else), a function that has its argument captured is called once,
since its one `Reference` serves all calls, and calls nothing before it is captured;
the numbers of arguments are right where a test or the code requires it; `(lambda)`,
on which an assertion fails while compiling, and recursion are left out.

### SimGraph, SimStatistics, GcSim

`SimGraph` runs `GcSimRunner` on a heap that collects whenever it may (what `GcHeap`
promises). The graph is made when it is asked for and dropped with each change, and
every outcome of a random draw is possible. `rootNodes()` and `bulkNodes()` are left
out: they rest on `Cell::isRoot()` (`cell.cpp:64`), which has no result.
`SimStatistics` is the loop of `gc_sim.cpp` around it, with exact fractions for
doubles. `StatisticsOfRunsSoFar` says that the numbers written are the quantiles, means
and variances of the runs so far, that no documented quantile is refused, and that the
program gets to its end if all quantiles are 0. It claims no more because more is not so
(section 4): of the quantiles that are documented, the program survives only this one.

`GcSim` is the simulation of the C library on `GcVm`, whose steps happen between its
calls. It refreshes its graph at the end of each call with the iterators of
`GcStatistics`, which are also those behind `lisp_vm_gc_get_stats()` and
`lisp_vm_gc_check()`.

### DlList, Xmalloc, ArgParse

`DlList` has the pointers of lists and items. `Calls` leaves out the insertion in the
middle, whose follower keeps its `prev`; `SpecInsert` adds it, and `BothWays` fails at
once. `Xmalloc` has the stack of contexts, the chunks of each, mocked failures, and
`malloc()` that reuses addresses. `ArgParse` parses a line word by word into the
variables of the program; `IntMin` and `IntMax` stand for the range of an `int`.
`RegularLinesAreMeant` restricts itself to lines without a size (`_parse_size` refuses
every number that is not negative, `argparse.c:196`), without arguments of many values
and with a flag only at the end; each of the others makes `arg_parser_parse()` pass
over a word or refuse a right one.

### Assertions, UnitTests

`Assertions` has the comparisons of each type, the constructors and the macros:
each macro is a statement, `Made` the assertion it creates. `AssertionTests` are the
tests of `unit_tests/util/assertion.c` and those of the checks in
`unit_tests/util/test.c`. Before the toolbox runs, TLC checks that the library passes
its own tests (`AssertionsPassTheirTests`) and that a statement passes exactly if
what it says holds (`StatementsSayWhatHolds`). `UnitTests` selects suites by the
command line, runs the tests statement by statement and counts; a failing `REQUIRE`
ends the program, as in the build with `DEBUG`. Memory of assertions is not in it.
What a statement means (`IsTrue`) is defined by the lexicographic order and by
equality modulo the range of `unsigned`, not by the loops of `assertion.c`.

## 3. What is checked

| run | instance | shows |
|---|---|---|
| `allocator_safety` | 2 conses, 1 array, 1 handle | no increment, barrier or reclaim leaves a dangling cell or handle (`NoDangling`), nor one in garbage that is still to be swept (`LiveClosed`); assignment from a cell is safe with the default of one garbage step (`AssignsLive`) |
| `allocator_heap` | 1 cons, 1 array, 2 handles | marking invariant, swap only when due, roots and counts, the inductive invariant, and `ImplementsHeap` |
| `progress` | small | garbage survives one swap at most and is recycled |
| `gc_vm` | 2 conses, 1 array, 2 root cells | the inductive invariant `VmInv`, nothing reachable is disposed of, the C collector implements `GcHeap`, its check finds nothing (`ChecksPass`), its statistics are those of the heap (`StatsAreRight`) |
| `toolbox` | below | the hash table is a map in every stage of a rehash, its counts are right and recycling ends; lists link both ways and are sequences; leaks are reported; regular lines are taken as meant; the report of the tests adds up; the C simulation's graph is the heap |
| `kernel` | below | indices and links of the containers, conses handed out once, iterators, steps as asked, counted symbols and the environment, programs mean what they say and compile if they are instances of a form, the C++ simulation's graph is the heap, the statistics written are those of the runs so far |

Five more runs, and `hash_table_autoswap`, show section 4.

Bounds. The exact constants are in the `.cfg` files, the sets they name in `MCToolbox`
and `MCKernel`. `Conses` and `Arrays` are the storage, so allocation blocks
when it is used up and storage is reused as soon as it is recycled. An array has at
most `MaxSize` cells. Two objects suffice for a black object and the white one it must
not hide, with a cell of an array on either side of `gcPosition`; `allocator_safety`
has three, for a chain whose middle is unrooted, and `gc_vm` three, because a white
object must stay reachable by a grey one while the program stores it in a black one.
`progress` bounds the age of garbage at `MaxAge`, one more than what the property
allows. Two handles give assignment, copying and a count of two.

The keys 0, 1 and 3 of the hash table fall into one bucket or different ones according
to the size (1 to 3 by `Swap`, up to 4 by `Recycle`). `MinSize` is 1: with
`min_bucket_size` 3 and one entry `hash_table_recycle()` starts a new round for ever
(`RecyclingEnds` would fail). Two lists of three items have a first, a middle and a
last, and can be joined. Two contexts and two addresses of `Xmalloc` give nesting and
reuse. Lines have three words, for an argument, its value and what follows; tests two
statements out of six of different kinds, suites one test each, which suffices for
a failure hidden behind another result. `Containers` has three objects: one that
leaves, the one that takes its place and one beside; a count up to `MaxRefs` = 2 tells
the last handle from others. Three pages of two conses make
recycled and fresh ones meet at a page boundary. Three symbols of two names let a
name be disposed of and interned again. The simulation of the C++ library has three
objects and one step of each kind in its loop, which repeats for ever. No bound
restricts the number of steps of the collectors, lists, tables, pages or symbols.

Deadlock is checked in all runs but `toolbox` and `kernel`, where command lines,
test runs, programs and statistics come to their end.

Fairness (`AllocatorProgress`). After the program has gone quiet it still calls
`step()` and `recycle()` again and again (strong fairness of each: every object made
and every handle dropped does both, and neither call excludes the other for ever),
and a call that has begun runs to its end (weak fairness; there is one thread). A
program that moves pointers for ever may keep the cycle from ending; nothing in
the code prevents that and no property claims it.

## 4. Disagreements with what the code says

Each is a run of its own, whose property is a comment, an assertion or a test of the
repository.

- `cycle_half_scanned`: `cycle()` leaves `gcPosition` of the survivors. If an
  increment has left an array scanned in part, the next cycle begins in its middle
  and disposes of a reachable child.
- `assign_cell_many_steps`: with two garbage steps `obj = cons->getCarCell()` may
  dispose of the car before it is rooted.
- `gc_vm_arrays`: `gc_pos` is never reset, so an array's children are disposed of in
  its second cycle; and a cell that holds an array does not mark it.
- `gc_vm_full_cycle`: a full cycle leaves `gc_list` of surviving conses behind.
- `scheme_own_argument`: an own argument inside a call is compiled to `RETURNS`, which
  takes the wrong value from the stack and drops what the call has pushed, its
  function included. `lpp/core/README.txt:67` compiles such a lambda.
- `hash_table_autoswap`: a call computes the old bucket of its key before
  `hash_table_recycle()`, which may change the worlds. The key is then missed and
  inserted a second time. (The array may also have been reallocated; the model takes
  the bucket for the empty one that was there, which is the mildest outcome.)

Seen while modelling, without a run: `checkSanity()` (`allocator.h:727`), asserted
after every step, drops the result of its test, and the condition it tests is false in
legal states (a white root below a black object);
`gc_sim.cpp:161` documents that quantiles "must be in [0...num-runs)", but the program
makes its statistics after each run, of the runs so far (`gc_sim.cpp:230`), so that
`records.at()` (`sim_quantile.h:99`) throws after the first run for every quantile but
0, also for those from 0 to 99 of 100 runs that
`sim_cons_factory_data/run_root_010_bulk_010_f_0.5.sh` asks of its program;
`gc_sim.cpp:53` moreover lets a quantile equal to the number of runs pass;
the column `[std]` of the averages (`sim_average.h:149`) holds the variance, the root of
which is never taken;
`operator+=()` of the cons iterator (`cons_pages.h:245`), with a negative distance to a
position on an earlier page, leaves the vector of pages if the page size does not
divide the size of a pointer, which the default of 512 (`CONS_PAGE_SIZE`,
`allocator.h:47`) does not and the 4 of the test does (`IteratorsAgree` says exactly
this, and `IteratorsAreRight` proves it);
`gc_sim.cpp:226` gives every run a copy of the same generator; `memcheck` mocks that are
retired stay linked (`xmalloc.c:274`); a test that only has passing `CHECK`s counts as
one without assertions (`unit_test.c:88`).

## 5. What is proved

For every storage, every set of handles, every size of arrays and every number of
steps (`StorageAssumption`: conses, arrays and nil are different things;
`BoundsAssumption`: the numbers are naturals and there are finitely many handles),
`AllocatorProofs` shows `Spec => []P` for `TypeOK`, `NoDangling`, `LiveClosed`,
`ScannedIsNotWhite`, `SwapOnlyWhenScanned`, `RootsCounted` and `AssignsRoots`.

None of these is inductive alone. `IInv` (`AllocatorInvariant`) is, and `allocator_heap`
checks it: types, `RootsCounted`, `LiveClosed`, `ScannedIsNotWhite` and

- `PositionsOK`: `gcPosition` lies inside the array and is 0 unless its scan is in
  progress, so that `ScannedPart` means what has been greyed;
- `MarkingDone`: a map that answered "nothing to do" still has nothing to do when the
  swap comes;
- `TodoOK`: what a running call still needs is reachable while it runs.

The argument. A step that only moves objects along white, grey, black (`Marks`) keeps
the marking invariant if what it blackens has its children greyed (`GreyAllMarks`,
`ScannedPartKept`); scanning and the barriers are such steps. At the swap, black is
all that is left besides white, so black objects point to black ones only and the
live objects stay closed under children (`SwapInv`). Roots are live and the live
set is closed, hence it holds everything reachable (`ReachIsLeast`): nothing dangles.
Recycling clears only cells of dead objects and cannot change what is reachable
(`ReachIgnoresOutside`). Counting of handles uses finite sets only (`RootFacts`,
`UnrootFacts`).

`AllocatorProofs` also shows `Spec => ImplementsHeap`. Reachability is the same in both
(`HeldIsRooted`: what handles hold is in a root container), so a step that reclaims
only takes what `GcHeap` allows: what is swept is unreachable by `IInv`. Each step is a
`Reclaim`, `Write`, `Move`, `New` or `NewChild` of the heap, or a stutter; colours,
positions and what is left of the running call are invisible.

`GcVmProofs` does the same for the C library, for any number of conses, arrays and
root cells: `VmInv`, `DisposedIsUnreachable`, `ListsAgree` and `ImplementsHeap` hold
always. `VmInv` consists of

- types, with arrays that hold plain values and cells that hold conses only, as
  section 2 explains;
- `ListsOK`: the list of a live object is the one of its `gc_list`, the children of
  live objects are live, black objects have no white children;
- `RootsHeld`: an object is in a root list exactly while one root cell holds it, and
  its count is 1.

It is stated of a lists assignment, as the steps are, so that it passes through the
composition of `lisp_vm_gc_step()`. A collector step either moves objects between
the live lists and greys what it blackens, or recycles dead ones.

`AllocatorProofs` adds what `Allocator` leaves to its extensions. With
assignment from a cell among the calls `IInv` still holds, and `PendingCell` with it:
the object to be taken is reachable, or alive and the increment that the dropped
handle pays for has not run. With `GarbageSteps <= 1`, the default of `allocator.cpp`,
the one increment can dispose of nothing after the drop: a swap needs every object
scanned, and then the object to be taken is black. Hence `AssignsLive` and
`NoDangling`; section 4 shows that the hypothesis is necessary. `GarbageSurvivesOneSwap`
follows from `AgeInv`: garbage of age 1 is white or dead. No step makes garbage
reachable or darker, and a swap turns what is black, which is of age 0, white.

`GcVmProofs` also proves `StatsAreRight` and `ChecksPass` for finitely many
conses and arrays (`StatisticsAssumption`). The loop over the reachable iterator is a
recursive function; its turns keep `WalkOK` (what is visited or to be visited holds
the roots, is reachable, and the visited lead to nothing else) and make what is
not visited fewer, so the walk ends with exactly the reachable objects
(`VisitedIsReachable`). What it counts agrees with the lists by `VmInv`. From the same
walk `GraphIsCurrent` of `GcSim`: its invariant `SimInv` has the root cells of the
simulation listed once each and the graph equal to a `Snapshot` of what the roots
reach, a value that no step of the collector changes, since steps change the
lists and never a reachable cell.

`HashTableProofs` shows that the hash table is a map, for any keys, values and sizes
(`ImplementsMap`), that its counts are right and that old buckets come first. The
invariant is `TableInv`: `Structure` says that the list has each bucket in use once,
old ones first up to `first_new_world`, and each entry in the bucket of its key,
alone with it. In the loop of `hash_table_find_or_insert_func` that moves a bucket this
is true of the buckets, but some entries are in neither world while their old world
still counts them; `Sound(s, R)` is the invariant with the entries `R` in flight, which
each turn moves down by one. A call with `autoswap` starts with an empty old
world, which is why the recycling at its begin cannot invalidate the bucket it has
computed; `hash_table_autoswap` shows what happens else. `RecyclingEnds` needs
finitely many keys and `MinSize <= 2`: what is left to move (`ToMove`: the old
entries, and all of them once more if the size does not fit) falls with each call,
since the size that `hash_table_recycle()` chooses for the next round fits. The
library makes its tables with a minimal size of 0, taken for 1
(`cell_hash_table.c:157`).

`KernelProofs` shows of three parts of the `kernel` run what TLC finds on one instance.
`StepsAsAsked` of `CollectorSwitch` holds for any depth of guards, of programs that
enable only what is off and call no switch under a guard: only the first
guard finds anything to save, so what is due is what it saved (`SwitchInv`).
`EachConsOnce` of `ConsPages` holds for any page size and number of pages, as long as
there are fewer bytes than a word has values (`PagesAssumption`). The invariant is
`PagesInv`: pages are filled one after the other, and the recycled conses are
exactly those handed out and not in use, each once. Its only long step is
`recycleAll()`, by induction over the conses the loop has passed (`UnreachedLists`).
`IteratorsAgree` follows from where an iterator is after `k` steps (`IterAt`, `WalkAt`)
and from quotient and remainder being unique (`Quotient`), for every page size and
size of a pointer. `PlusAt` has two cases. A distance to the same page or a later one is
a small number and leads there. One to an earlier page is a word less than 0: its
remainder is the cons only if a word holds whole pages, and its quotient leads to the
page only if that many pointers are a multiple of a word (`WordsOfPointers`), that is if
the page size divides the size of a pointer. The default of 512 is in the case where
this fails. `GraphIsHeap` of
`SimGraph` follows from `GraphInv`: the heap is well formed, no root is a root twice,
what the roots lead to is allocated, and a graph that is there is the one of the
present cells and roots. Each operation either drops the graph or, as the collection
does, changes only cells that no root leads to. The walk of `Graph` is a recursive
function like the one of `GcStatistics` (`ReachedIsReach`), and its numbers of nodes
and edges are compared without going below zero (`NodesAreCounted`).

`SymbolsProofs` shows `SymbolsCounted` and `FoundAsDefined` for any finite sets of
symbols and cells (`SymbolsAssumption`). `SymbolsInv` counts what holds a symbol:
cells, keys and values of the `Env` (`HeldIn`), each a cardinality, and `Counted` says
that this is the count of the symbol, that a symbol with none is gone, and that while
the allocator lives its table has the living symbols under their names. `Bound` says
that the bindings, found by pointer, are the definitions, made by name. A definition
that replaces a value drops the old one before it counts the new one, which the cell
it comes from keeps alive meanwhile. The end of the `Env` drops keys and values one after
the other; by induction over what is left any order gives the same, and so does the end
of the allocator, after which symbols die without a table.

`ContainersProofs` shows `SanityHolds` and `MovesAsSets` for every finite set of
objects, hence that `Allocator` may take the containers for sets. Neither is
inductive: a step finds an object by its members, so these must be right beforehand.
`ContainersInv` says so: each element of a vector names that vector and its position
there, each object that has been added and not been disposed of is such an element
(`Holds`), what is disposed of is in one vector of `disposed`, once (`Once`), what a root
container holds has a count, and the links are those of the present map, which is
the first one or has black and white exchanged (`MapsOf`). `RemovedHolds` is the heart
of it: `remove()` overwrites the place of the object with the last element and corrects
the index of that one, which works too when the object is the last element. The
loops over children and over what a cycle keeps pass `Holds` on from turn to turn
(`GreyedHolds`, `AddedAllHolds`), and count how often an object is moved to grey: once,
because grey has no `greyElements`. At a swap the objects do not move, but the six
names do, which is `Swapped` of `Allocator` (`SwapsAreSets`). The sums of the statistics
are cardinalities because no vector has an object twice (`DistinctCount`,
`DisposedCount`).

`UtilProofs` is about the toolbox, for any addresses, items, arguments, lines and tests.

- `ReportsLeaks`. `MemoryInv`: the blocks that were allocated in a context and are in
  use are its live chunks (`Honest`), for each context of the stack. A report lists the
  live chunks, and what `realloc()` moves, a mocked failure keeps or a disabled context
  never sees leaves both sides alike.
- `BothWays` and `ImplementsLists`. `ListInv`: each list has a sequence of different
  items, none in two lists, that `next` leads through from `first` to `last` and `prev`
  back (`Shape`). Every call has its effect on this sequence, the one of `ItemLists`, so
  the contents read off by `Walk` are the right ones in both directions. To move a
  list it suffices to join the two chains. Only the insertion in the middle has no such
  sequence, and `SpecInsert` shows why.
- `RegularLinesAreMeant`. `ArgInv`: in a regular line the parser stands before a word
  that is no value, and the words before it are legal and have set what they mean
  (`MeantBefore`). An argument takes its value with it, so both are true again behind
  it. `ArgAssumption` says that lines are of words, that the bounds of `int` are integers,
  and that exactly the flags take no value; the parser uses nothing else.
- `ReportAddsUp`. First `StatementsAreRight`: every statement that the macros can make
  passes exactly if what it says is true. The loop that looks for a first difference is
  the lexicographic order (`LoopTells`), once for numbers and once more for strings
  in arrays, and each of the six operators is then the one it is called. Then
  `Progress`: what a test has counted before a statement tells whether one of those
  reached has failed or counted, where an `ASSERT` that fails jumps to the end and a
  `REQUIRE` that fails ends the program. Then `TestsInv`: the counters are a `Report` of the tests and
  suites that are behind, as sets, to each of which the end of a test or a suite
  adds one element (`TestIsCounted`, `SuiteIsCounted`). `TestsAssumption` says that tests
  are sequences of statements as the macros make them.

Loops are recursive functions in these modules. `ReachabilityTheorems` has what the
proofs need to unroll them: a recursive function over the numbers up to `n` exists and
takes the values of its definition (`IterationExists`), and a set of numbers that
holds 0 and each successor holds all (`NatSetInduction`), which stands for the
induction theorems whose parameter is an operator.

`Cycle` is in `Spec` with its precondition `NoHalfScannedArray`, and the full cycle of
the C library with its own; the theorems say nothing of programs that call them
otherwise, which section 4 shows to be necessary.

Only model-checked:

- that garbage is recycled in the end (`AllocatorProgress`): liveness is out of the
  prover's reach;
- `CompilesWhatItAccepts` and `MeansWhatItSays`: `Scheme`, its scripts and what they
  mean use RECURSIVE operators over nested data, about which this prover cannot reason;
- `StatisticsOfRunsSoFar`: sorting and folding are induction over data;
- `ToolboxTypeOK` and `KernelTypeOK`, which put the types of all parts together; the
  types of each part are in its invariant above, but for `Scheme` and `SimStatistics`.

The parts of `MCToolbox` and `MCKernel` are proved with their own specifications. That
the composed runs give each part the steps of its own specification is plain in
these two modules, and not proved.

## 6. Not modelled, and the plan

Next: collection while a program of `Scheme` runs, which needs the roots of
`Continuation` and of the builder in one model with `Allocator`; the types of the C library (`tid.c`) once something other than a table depends on them.

Left out, and why:

- `lisp_vm_recycle_all_objects()` and `lisp_free_vm()`: they free what the lists still
  name, and nothing may follow them
- `Object::operator=(Cell&&)`, used only by tests; copy-on-write strings and growing
  arrays with a value in the C library
- `tid.c`, `type_traits.h` and the form of error texts: tables and wording without a
  state of their own; `serialization.c`: encodings without a state that outlives a call
- murmur_hash3 (third-party), files that the simulations write, command line help
- failing `malloc`, outside `Xmalloc`'s mocks
- collection while a program is compiled or evaluated: `Scheme` keeps every object. Only
  `Language::init()` (`language.cpp:108`), which makes the forms, holds a guard
