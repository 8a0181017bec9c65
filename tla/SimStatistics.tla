---------------------------- MODULE SimStatistics ----------------------------
(***************************************************************************)
(* The program gc_sim.cpp around the simulation of the C++ library: it     *)
(* checks the quantiles it is asked for, makes one run after the other and *)
(* after each writes quantiles and averages over the runs so far           *)
(* (lpp/simul/sim_quantile.h, sim_average.h, sim_member.h).                *)
(*                                                                         *)
(* A run is any sequence of records, since what SimGraph draws decides it; *)
(* all runs have the same number of steps.  Every field is a number, and   *)
(* a double is the exact fraction of two integers.                         *)
(***************************************************************************)
EXTENDS Integers, Sequences, FiniteSets, Functions, SequencesExt, TLC

CONSTANTS
  fields,          \* GcSimRecordMembers::members, a sequence of names
  Runs,            \* the runs there can be
  NumRuns,         \* values of num_runs
  QuantileLists    \* values of quantiles, <<>> if it is not set

VARIABLES
  numRuns, quantiles, runs,
  written,   \* what the last writeResult() of either kind has written, by step
  outcome    \* "parsed", "running", "refused", "threw", "aborted" or "ended"

vars == <<numRuns, quantiles, runs, written, outcome>>

Init ==
  /\ numRuns \in NumRuns /\ quantiles \in QuantileLists
  /\ runs = <<>>
  /\ written = [quantiles |-> <<>>, averages |-> <<>>]
  /\ outcome = "parsed"

---------------------------------------------------------------------------
(* SimulMember, for the field f of the records of a vector.                *)

sort(f, records) == SortSeq(records, LAMBDA a, b : a[f] < b[f])
sum(f, records) == FoldLeft(LAMBDA n, r : n + r[f], 0, records)
\* sum2() with the offset a / b, times the square of b.
sum2(f, records, a, b) == FoldLeft(LAMBDA n, r : n + (b * r[f] - a) * (b * r[f] - a), 0, records)

Step(rs, step) == [r \in DOMAIN rs |-> rs[r][step]]
Steps(rs) == 1 .. Len(rs[1])

\* Mutant: the records are sorted for the first field and stay so.
QuantilesOfFirst(rs, qs, step) ==
  LET records == sort(fields[1], Step(rs, step))
  IN  [f \in Range(fields) |-> [i \in DOMAIN qs |-> records[qs[i] + 1][f]]]

\* computeQuantiles(): the records are sorted anew for each field.
Quantiles(rs, qs, step) ==
  [f \in Range(fields) |->
    LET records == sort(f, Step(rs, step))
    IN  [i \in DOMAIN qs |-> records[qs[i] + 1][f]]]

\* Average::Record: fractions <<numerator, denominator>>.  What the header calls
\* [std] is the variance, not its root.
AverageRecord(f, records) ==
  LET n == Len(records)
      total == sum(f, records)
  IN  [avg |-> <<total, n>>, avg2 |-> <<sum2(f, records, total, n), n * n * n>>]

Averages(rs, step) == [f \in Range(fields) |-> AverageRecord(f, Step(rs, step))]

---------------------------------------------------------------------------
(* main().                                                                 *)

\* checkQuantiles(), which lets a quantile of num_runs pass.
CheckQuantiles ==
  /\ outcome = "parsed"
  /\ outcome' = IF \E i \in DOMAIN quantiles : quantiles[i] > numRuns THEN "refused" ELSE "running"
  /\ UNCHANGED <<numRuns, quantiles, runs, written>>

\* A run; the statistics are of the runs so far, and at() throws for a quantile
\* that is not below their number: after the first run for all but 0.
\* computeQuantiles() puts its result where the records of the first run stand,
\* and beyond if there are fewer of them than quantiles: what that does is up to
\* the build.
Run(run) ==
  /\ outcome = "running" /\ Len(runs) < numRuns
  /\ runs' = Append(runs, run)
  /\ LET rs == Append(runs, run)
         tooFew == \E i \in DOMAIN quantiles : quantiles[i] >= Len(rs)
         beyond == Len(quantiles) > Len(run)
     IN  \/ /\ tooFew /\ outcome' = "threw"
            /\ UNCHANGED written
         \/ /\ beyond /\ ~tooFew /\ outcome' = "aborted"
            /\ UNCHANGED written
         \/ /\ ~tooFew
            /\ written' = [quantiles |-> IF quantiles = <<>> THEN <<>>
                                         ELSE [k \in Steps(rs) |-> Quantiles(rs, quantiles, k)],
                           averages |-> [k \in Steps(rs) |-> Averages(rs, k)]]
            /\ UNCHANGED outcome
  /\ UNCHANGED <<numRuns, quantiles>>

Return ==
  /\ outcome = "running" /\ Len(runs) = numRuns
  /\ outcome' = "ended"
  /\ UNCHANGED <<numRuns, quantiles, runs, written>>

Next == CheckQuantiles \/ (\E run \in Runs : Run(run)) \/ Return

Spec == Init /\ [][Next]_vars

---------------------------------------------------------------------------
(* Properties.                                                             *)

TypeOK ==
  /\ Len(runs) <= numRuns
  /\ outcome \in {"parsed", "running", "refused", "threw", "aborted", "ended"}

\* What has been written is of all runs so far.  The quantile q of a field is
\* the value with at most q smaller ones and with more than q that are not
\* larger, for every field whatever the records were sorted by before, and
\* Quantile<> is right for every q below the number of runs it is given.  The
\* second number of an average, in the column [std], is the variance, whose root
\* is the standard deviation.
\*
\* No quantile below num_runs is refused; but what gc_sim.cpp:161 says of them,
\* that they are valid, is not a property of the program: the statistics are made
\* after the first run too, of one record, and at() throws for every quantile
\* but 0.  If all are 0, and no more than a run has steps, it goes to its end.
StatisticsOfRunsSoFar ==
  /\ outcome \in {"running", "ended"} /\ runs # <<>> =>
       \A step \in Steps(runs), f \in Range(fields) :
         LET column == [r \in DOMAIN runs |-> runs[r][step][f]]
             n == Len(column)
             IsQuantile(v, q) == /\ Cardinality({r \in 1 .. n : column[r] < v}) <= q
                                 /\ q < Cardinality({r \in 1 .. n : column[r] <= v})
             a == written.averages[step][f]
             squares == FoldLeft(LAMBDA t, x : t + x * x, 0, column)
             total == FoldLeft(LAMBDA t, x : t + x, 0, column)
         IN  /\ \A i \in DOMAIN quantiles : IsQuantile(written.quantiles[step][f][i], quantiles[i])
             /\ \A q \in 0 .. n - 1 : IsQuantile(Quantiles(runs, <<q>>, step)[f][1], q)
             /\ a.avg[1] * n = total * a.avg[2]
             /\ a.avg2[1] * n * n = (n * squares - total * total) * a.avg2[2]
  /\ (\A i \in DOMAIN quantiles : quantiles[i] < numRuns) => outcome # "refused"
  /\ /\ \A i \in DOMAIN quantiles : quantiles[i] = 0
     /\ \A r \in DOMAIN runs : Len(quantiles) <= Len(runs[r])
     => outcome \notin {"refused", "threw", "aborted"}
=============================================================================
