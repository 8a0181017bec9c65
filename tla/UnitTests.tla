----------------------------- MODULE UnitTests -----------------------------
(***************************************************************************)
(* The unit test framework of the C library, lisp/util/unit_test.c.  A     *)
(* test is the sequence of its statements, the ASSERTs, CHECKs and         *)
(* REQUIREs of Assertions, compiled with DEBUG.                            *)
(***************************************************************************)
EXTENDS Assertions

CONSTANTS SuiteNames,
          Bodies,       \* of tests: sequences of statements
          CommandLines, \* sequences of names and of the options below
          MaxSuites, MaxTests

\* The bodies of tests are made of the macros.
ASSUME TestsAssumption ==
  /\ UnsignedSize \in Nat \ {0}
  /\ \A b \in Bodies : b \in Seq(ToSet(b)) /\ \A j \in DOMAIN b : WellFormed(b[j])

Options == {"--help", "--verbose", "--nocolor", "-?"}

VARIABLES
  suites,    \* of the context: [name, tests, active]
  verbose, color,
  phase,     \* what main() is at: "building", "running", "usage", "reported", "aborted"
  suite, test, statement, \* those that run next
  passed, failed,       \* _passed_assertions and _failed_assertions of the test
  suitePassed,          \* suite_passed of unit_run()
  counts                \* the counters of the context

testVars == <<suites, verbose, color, phase, suite, test, statement, passed, failed, suitePassed, counts>>

NoCounts == [suites_passed |-> 0, suites_failed |-> 0, suites_without |-> 0, suites_deactivated |-> 0,
             tests_passed |-> 0, tests_failed |-> 0, tests_without |-> 0, tests_deactivated |-> 0,
             assertions_passed |-> 0, assertions_failed |-> 0]

TestInit ==
  /\ suites = <<>> /\ verbose = 0 /\ color = TRUE /\ phase = "building"
  /\ suite = 1 /\ test = 1 /\ statement = 1 /\ passed = 0 /\ failed = 0 /\ suitePassed = TRUE
  /\ counts = NoCounts

CreateSuite(n) ==
  /\ phase = "building" /\ Len(suites) < MaxSuites
  /\ suites' = Append(suites, [name |-> n, tests |-> <<>>, active |-> TRUE])
  /\ UNCHANGED <<verbose, color, phase, suite, test, statement, passed, failed, suitePassed, counts>>

\* TEST(suite, function), for the suite that was created last.
CreateTest(body) ==
  /\ phase = "building" /\ suites # <<>> /\ Len(Last(suites).tests) < MaxTests
  /\ suites' = [suites EXCEPT ![Len(suites)].tests = Append(@, body)]
  /\ UNCHANGED <<verbose, color, phase, suite, test, statement, passed, failed, suitePassed, counts>>

---------------------------------------------------------------------------
(* The command line.                                                       *)

Selected(line) == SelectSeq(line, LAMBDA w : w \notin Options)
Suite(n) == SelectInSeq(suites, LAMBDA u : u.name = n)

\* The suites after the second loop of unit_parse_argv(): the first suite of
\* each name, if there is any, and all if no name is known.
Activated(line) ==
  LET known == {Suite(n) : n \in ToSet(Selected(line))} \ {0}
  IN  [j \in DOMAIN suites |-> [suites[j] EXCEPT !.active = IF known = {} THEN @ ELSE j \in known]]

\* main(): unit_parse_argv(), then the tests or the help.
ParseArgv(line) ==
  /\ phase = "building"
  /\ IF "-?" \in ToSet(line) \/ "--help" \in ToSet(line)
     THEN phase' = "usage" /\ UNCHANGED <<suites, verbose, color>>
     ELSE /\ verbose' = Cardinality({j \in DOMAIN line : line[j] = "--verbose"})
          /\ color' = ("--nocolor" \notin ToSet(line))
          /\ suites' = Activated(line)
          /\ phase' = IF \E n \in ToSet(Selected(line)) : Suite(n) = 0 THEN "usage" ELSE "running"
  /\ UNCHANGED <<suite, test, statement, passed, failed, suitePassed, counts>>

---------------------------------------------------------------------------
(* unit_run().                                                             *)

Running == phase = "running" /\ suite <= Len(suites)
InTest == Running /\ suites[suite].active /\ test <= Len(suites[suite].tests)
Body == suites[suite].tests[test]

\* A statement and its unit_add_assertion(), which returns from the test if an
\* ASSERT fails, or its assertion_raise(), without a handler.
RunStatement ==
  /\ InTest /\ statement <= Len(Body)
  /\ LET st    == Body[statement]
         added == AddAssertion(IF st.macro = "REQUIRE" THEN <<>> ELSE Made(st))
     IN  /\ passed' = passed + added.passed
         /\ failed' = failed + added.failed
         /\ statement' = IF st.macro = "ASSERT" /\ ~added.ok THEN Len(Body) + 1 ELSE statement + 1
         /\ phase' = IF st.macro = "REQUIRE" /\ Raise(Made(st), "none").aborts THEN "aborted" ELSE phase
  /\ UNCHANGED <<suites, verbose, color, suite, test, suitePassed, counts>>

\* Mutant: what a test without assertions counts.
CountedPassed(c) ==
  LET d == [c EXCEPT !.assertions_passed = @ + passed, !.assertions_failed = @ + failed]
  IN  IF failed > 0 THEN [d EXCEPT !.tests_failed = @ + 1] ELSE [d EXCEPT !.tests_passed = @ + 1]

\* The counters after a test: _unit_run_test() once the function has returned.
Counted(c) ==
  IF passed + failed = 0 THEN [c EXCEPT !.tests_without = @ + 1]
  ELSE LET d == [c EXCEPT !.assertions_passed = @ + passed, !.assertions_failed = @ + failed]
       IN  IF failed > 0 THEN [d EXCEPT !.tests_failed = @ + 1] ELSE [d EXCEPT !.tests_passed = @ + 1]

EndTest ==
  /\ InTest /\ statement > Len(Body)
  /\ counts' = Counted(counts)
  /\ suitePassed' = (suitePassed /\ failed = 0)
  /\ test' = test + 1 /\ statement' = 1 /\ passed' = 0 /\ failed' = 0
  /\ UNCHANGED <<suites, verbose, color, phase, suite>>

\* The end of an active suite, or all of one that is not.
EndSuite ==
  /\ Running /\ ~InTest
  /\ counts' =
       IF ~suites[suite].active THEN [counts EXCEPT !.suites_deactivated = @ + 1,
                                                !.tests_deactivated = @ + Len(suites[suite].tests)]
       ELSE IF suites[suite].tests = <<>> THEN [counts EXCEPT !.suites_without = @ + 1]
       ELSE IF suitePassed THEN [counts EXCEPT !.suites_passed = @ + 1]
       ELSE [counts EXCEPT !.suites_failed = @ + 1]
  /\ suite' = suite + 1 /\ test' = 1 /\ suitePassed' = TRUE
  /\ UNCHANGED <<suites, verbose, color, phase, statement, passed, failed>>

\* unit_final_report().
FinalReport ==
  /\ phase = "running" /\ suite > Len(suites)
  /\ phase' = "reported"
  /\ UNCHANGED <<suites, verbose, color, suite, test, statement, passed, failed, suitePassed, counts>>

TestNext ==
  \/ \E n \in SuiteNames : CreateSuite(n)
  \/ \E b \in Bodies : CreateTest(b)
  \/ \E l \in CommandLines : ParseArgv(l)
  \/ RunStatement \/ EndTest \/ EndSuite \/ FinalReport

TestSpec == TestInit /\ [][TestNext]_testVars

---------------------------------------------------------------------------
(* Properties.                                                             *)

TestTypeOK ==
  /\ suites \in Seq([name : SuiteNames, tests : Seq(Bodies), active : BOOLEAN])
  /\ verbose \in Nat /\ color \in BOOLEAN /\ suitePassed \in BOOLEAN
  /\ phase \in {"building", "running", "usage", "reported", "aborted"}
  /\ {suite, test, statement, passed, failed} \subseteq Nat
  /\ DOMAIN counts = DOMAIN NoCounts

\* The statements of a test that are reached, and what the test shows.
Reached(b) == {j \in DOMAIN b : \A h \in 1 .. j - 1 : b[h].macro # "CHECK" => IsTrue(b[h])}
Failing(b) == {b[j].macro : j \in {h \in Reached(b) : ~IsTrue(b[h])}}
Fails(b) == Failing(b) \cap {"ASSERT", "CHECK"} # {}
Shows(b) == Fails(b) \/ \E j \in Reached(b) : b[j].macro = "ASSERT" /\ b[j].type # "memcheck"

Active == {j \in DOMAIN suites : suites[j].active}
TestsOf(S) == UNION {{j} \X DOMAIN suites[j].tests : j \in S}
BodyOf(x) == suites[x[1]].tests[x[2]]

\* The report says of every suite and test, once, what became of it: a suite
\* fails with the tests that are selected and fail, a failure is neither lost
\* behind a CHECK nor counted for a statement that was not reached, a test that
\* shows nothing does not count as passed, and there is no report if a REQUIRE
\* failed.
ReportAddsUp ==
  phase = "reported" =>
    /\ counts.tests_failed = Cardinality({x \in TestsOf(Active) : Fails(BodyOf(x))})
    /\ counts.tests_passed =
         Cardinality({x \in TestsOf(Active) : Shows(BodyOf(x)) /\ ~Fails(BodyOf(x))})
    /\ counts.tests_without = Cardinality({x \in TestsOf(Active) : ~Shows(BodyOf(x))})
    /\ counts.tests_deactivated = Cardinality(TestsOf(DOMAIN suites \ Active))
    /\ counts.suites_failed = Cardinality({j \in Active : \E b \in ToSet(suites[j].tests) : Fails(b)})
    /\ counts.suites_without = Cardinality({j \in Active : suites[j].tests = <<>>})
    /\ counts.suites_passed + counts.suites_failed + counts.suites_without
         + counts.suites_deactivated = Len(suites)
    /\ \A j \in Active : \A b \in ToSet(suites[j].tests) : "REQUIRE" \notin Failing(b)
    /\ counts.assertions_failed > 0 <=> counts.suites_failed > 0
===========================================================================
