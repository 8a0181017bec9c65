----------------------------- MODULE MCToolbox -----------------------------
(***************************************************************************)
(* The parts of the C library beside its collector, in one specification   *)
(* for TLC: a behaviour is one of one part, and the others stay as they    *)
(* begin.                                                                  *)
(***************************************************************************)
EXTENDS HashTable, DlList, Xmalloc, GcSim, ArgParse, UnitTests, AssertionTests, TLC

VARIABLE part
Parts == {"hash table", "lists", "memory", "arguments", "tests", "simulation"}

---------------------------------------------------------------------------
(* The command line: two names of one flag's letter, a number behind an    *)
(* int, a size or a list of doubles, and numbers on both sides of an int's *)
(* bounds.                                                                 *)
Argument(short, long, multiplier, parse) ==
  [short |-> short, long |-> long, multiplier |-> multiplier, parse |-> parse]
ToolArguments ==
  {Argument("f", "--flag", "0", "flag"), Argument("x", "--x", "0", "flag"),
   Argument("n", "--num", "1", "int"), Argument("f", "--size", "1", "size"),
   Argument("d", "--many", "*", "double"), Argument("e", "--some", "+", "double")}
Word(sort, names, number) == [sort |-> sort, names |-> names, number |-> number]
NameWord(sort, name) == Word(sort, <<name>>, Junk)
ValueWord(number) == Word("value", <<>>, number)
ToolWords ==
  {NameWord("short", n) : n \in {"f", "n", "d"}}
  \cup {NameWord("long", n) : n \in {"--size", "--some"}}
  \cup {Word("many", names, Junk) : names \in {<<"f", "x">>, <<"x", "n">>}}
  \cup {ValueWord(n) : n \in {-3, 1, 2, Junk}}

ToolLines == BoundedSeq(ToolWords, 3)
LeastInt == -2

---------------------------------------------------------------------------
(* The unit tests: statements that hold and that do not, of each kind.     *)
(* Before the behaviours, what the assertions say of every statement over  *)
(* small values, and of the tests of the library.                          *)
SmallInts == -1 .. 2
SmallPointers == 0 .. 2
SmallStrings == {<<>>, <<1>>, <<2>>, <<1, 2>>}
ASSUME StatementsSayWhatHolds ==
  \A st \in AllStatements : WellFormed(st) /\ AddAssertion(Made(st)).ok = IsTrue(st)
ASSUME AssertionsPassTheirTests == TestsPass

Statements ==
  {Statement("ASSERT", "i[]", "==", <<1, 2>>, <<1, 2>>), Statement("ASSERT", "cstr", ">=", <<1>>, <<1, 2>>),
   Statement("CHECK", "u", ">", -1, 2), Statement("CHECK", "ptr", "<=", 1, 0),
   Statement("REQUIRE", "false", "", 1, 0), MemcheckStatement("ASSERT", 2)}
ToolBodies == BoundedSeq(Statements, 2)
ToolCommands == {<<>>, <<"one">>, <<"two", "one">>, <<"--verbose", "one", "three">>,
                 <<"--nocolor", "two">>, <<"one", "-?">>}

---------------------------------------------------------------------------
ToolboxInit ==
  /\ part \in Parts
  /\ TableInit /\ ListInit /\ MemoryInit /\ ArgInit /\ TestInit /\ SimInit

ToolboxNext ==
  /\ UNCHANGED part
  /\ \/ /\ part = "hash table" /\ TableNext
        /\ UNCHANGED <<listVars, memoryVars, argVars, testVars, simVars>>
     \/ /\ part = "lists" /\ ListCalls
        /\ UNCHANGED <<tableVars, memoryVars, argVars, testVars, simVars>>
     \/ /\ part = "memory" /\ MemoryNext
        /\ UNCHANGED <<tableVars, listVars, argVars, testVars, simVars>>
     \/ /\ part = "arguments" /\ ArgNext
        /\ UNCHANGED <<tableVars, listVars, memoryVars, testVars, simVars>>
     \/ /\ part = "tests" /\ TestNext
        /\ UNCHANGED <<tableVars, listVars, memoryVars, argVars, simVars>>
     \/ /\ part = "simulation" /\ SimNext
        /\ UNCHANGED <<tableVars, listVars, memoryVars, argVars, testVars>>

toolboxVars == <<part, tableVars, listVars, memoryVars, argVars, testVars, simVars>>

ToolboxSpec == ToolboxInit /\ [][ToolboxNext]_toolboxVars

Symmetry == Permutations(Conses)

---------------------------------------------------------------------------
\* The variables of every part have their types.
ToolboxTypeOK ==
  /\ part \in Parts
  /\ CASE part = "hash table" -> TableTypeOK
       [] part = "lists"      -> ListTypeOK
       [] part = "memory"     -> MemoryTypeOK
       [] part = "arguments"  -> ArgTypeOK
       [] part = "tests"      -> TestTypeOK
       [] part = "simulation" -> TypeOK
=============================================================================
