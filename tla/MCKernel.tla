------------------------------ MODULE MCKernel ------------------------------
(***************************************************************************)
(* The parts of the C++ library around its collector, in one specification *)
(* for TLC: a behaviour is one of one part, and the others stay as they    *)
(* begin.                                                                  *)
(***************************************************************************)
EXTENDS Containers, ConsPages, CollectorSwitch, Symbols, SimGraph, TLC

VARIABLE part
Parts == {"containers", "pages", "switch", "symbols", "program", "graph", "statistics"}

---------------------------------------------------------------------------
VARIABLES script, answers, heap, env, stack, callStack, s, pc
programVars == <<script, answers, heap, env, stack, callStack, s, pc>>
Forms == INSTANCE SchemeTests
ProgramScripts == Forms!RegularScripts \cup Forms!TestScripts
Program == INSTANCE Scheme WITH Scripts <- ProgramScripts

\* The meanings of forms are those that the tests of the code require.
ASSUME TestsRequireMeanings ==
  \A t \in Forms!Tests : \A i \in DOMAIN t.required :
    Program!Meanings(t.script)[i] = t.required[i]

---------------------------------------------------------------------------
VARIABLES numRuns, quantiles, runs, written, outcome
statisticsVars == <<numRuns, quantiles, runs, written, outcome>>
OneRun(a, b, c) == <<[root |-> a, bulk |-> b], [root |-> b, bulk |-> c]>>
Statistics == INSTANCE SimStatistics
  WITH fields <- <<"root", "bulk">>, Runs <- {OneRun(a, b, c) : a, b, c \in {0, 3}},
       NumRuns <- {0, 3}, QuantileLists <- {<<>>, <<0>>, <<0, 0, 0>>, <<1>>, <<3>>, <<4>>}

---------------------------------------------------------------------------
\* The parts that can begin in several states have one while they stay.
KernelInit ==
  /\ part \in Parts
  /\ ContainersInit /\ PagesInit /\ SymbolsInit /\ GraphInit
  /\ SwitchInit /\ (part # "switch" => \A w \in DOMAIN steps : steps[w] = 1)
  /\ Statistics!Init /\ (part # "statistics" => numRuns = 0 /\ quantiles = <<>>)
  /\ Program!Init /\ (part # "program" => script = CHOOSE x \in ProgramScripts : TRUE)

KernelNext ==
  /\ UNCHANGED part
  /\ \/ /\ part = "containers" /\ ContainersNext
        /\ UNCHANGED <<pageVars, switchVars, symbolVars,
                       programVars, graphVars, statisticsVars>>
     \/ /\ part = "pages" /\ PagesNext
        /\ UNCHANGED <<containerVars, switchVars, symbolVars,
                       programVars, graphVars, statisticsVars>>
     \/ /\ part = "switch" /\ SwitchNext
        /\ UNCHANGED <<containerVars, pageVars, symbolVars,
                       programVars, graphVars, statisticsVars>>
     \/ /\ part = "symbols" /\ SymbolsNext
        /\ UNCHANGED <<containerVars, pageVars, switchVars,
                       programVars, graphVars, statisticsVars>>
     \/ /\ part = "program" /\ Program!Next
        /\ UNCHANGED <<containerVars, pageVars, switchVars,
                       symbolVars, graphVars, statisticsVars>>
     \/ /\ part = "graph" /\ GraphNext
        /\ UNCHANGED <<containerVars, pageVars, switchVars,
                       symbolVars, programVars, statisticsVars>>
     \/ /\ part = "statistics" /\ Statistics!Next
        /\ UNCHANGED <<containerVars, pageVars, switchVars,
                       symbolVars, programVars, graphVars>>

KernelSpec ==
  /\ KernelInit
  /\ [][KernelNext]_<<part, containerVars, pageVars, switchVars, symbolVars, programVars,
                      graphVars, statisticsVars>>

Symmetry == Permutations(Nodes)

---------------------------------------------------------------------------
(* The properties of the instances.                                        *)

\* The variables of every part have their types.
KernelTypeOK ==
  /\ part \in Parts
  /\ CASE part = "containers" -> ContainersTypeOK
       [] part = "pages"      -> PagesTypeOK
       [] part = "switch"     -> SwitchTypeOK
       [] part = "symbols"    -> SymbolsTypeOK
       [] part = "program"    -> Program!TypeOK
       [] part = "graph"      -> GraphTypeOK
       [] part = "statistics" -> Statistics!TypeOK

\* lpp/core/types/forms: a form compiles exactly if it is an instance.
CompilesWhatItAccepts == part = "program" => Program!CompilesWhatItAccepts

\* builder.cpp, continuation.cpp: what a form computes is what it means.
MeansWhatItSays == part = "program" => Program!MeansWhatItSays

\* sim_quantile.h, sim_average.h: the statistics written are of the runs so far.
StatisticsOfRunsSoFar == part = "statistics" => Statistics!StatisticsOfRunsSoFar
=============================================================================
