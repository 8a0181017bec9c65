-------------------------- MODULE CollectorSwitch --------------------------
(***************************************************************************)
(* How much the C++ allocator collects (allocator.h): the steps each call  *)
(* takes, which disableCollector() and a Guard set to 0, and the number    *)
(* that is kept for enableCollector().  The collector and the recycling    *)
(* have a pair each and the same code.                                     *)
(*                                                                         *)
(* The calls are those of the program: it enables only what is off, sets a *)
(* number of steps that is not 0 and calls none of them under a Guard,     *)
(* which Language::init() holds while it makes the forms.                  *)
(***************************************************************************)
EXTENDS Naturals, Sequences, Functions, SequencesExt

CONSTANTS
  MaxSteps,   \* the largest number of steps, an unsigned short
  MaxGuards   \* bound on the Guards that are held

Switches == {"garbage", "recycle"}

VARIABLES
  steps,      \* garbageSteps and recycleSteps
  back,       \* backGarbageSteps and backRecycleSteps
  guards,     \* the Guards held, each with the steps it saved
  asked,      \* history: what the program set last
  off         \* history: what it has disabled

switchVars == <<steps, back, guards, asked, off>>

\* Allocator().
SwitchInit ==
  /\ steps \in [Switches -> 1 .. MaxSteps]
  /\ back = steps /\ asked = steps
  /\ guards = <<>> /\ off = {}

\* Mutant: disableCollector() called twice forgets the steps.
DisableTwice(s) ==
  /\ guards = <<>>
  /\ back' = [back EXCEPT ![s] = steps[s]]
  /\ steps' = [steps EXCEPT ![s] = 0]
  /\ off' = off \cup {s}
  /\ UNCHANGED <<guards, asked>>

\* disableCollector() and disableRecycling().
Disable(s) ==
  /\ guards = <<>>
  /\ back' = IF steps[s] # 0 THEN [back EXCEPT ![s] = steps[s]] ELSE back
  /\ steps' = [steps EXCEPT ![s] = 0]
  /\ off' = off \cup {s}
  /\ UNCHANGED <<guards, asked>>

\* enableCollector() and enableRecycling().
Enable(s) ==
  /\ guards = <<>> /\ s \in off
  /\ steps' = [steps EXCEPT ![s] = back[s]]
  /\ off' = off \ {s}
  /\ UNCHANGED <<back, guards, asked>>

\* setGarbageSteps() and setRecycleSteps().
Set(s, n) ==
  /\ guards = <<>>
  /\ IF steps[s] = 0 THEN back' = [back EXCEPT ![s] = n] /\ UNCHANGED steps
     ELSE steps' = [steps EXCEPT ![s] = n] /\ UNCHANGED back
  /\ asked' = [asked EXCEPT ![s] = n]
  /\ UNCHANGED <<guards, off>>

\* getGarbageSteps() and getRecycleSteps().
Get(s) == IF steps[s] = 0 THEN back[s] ELSE steps[s]

\* Guard().
Lock ==
  /\ Len(guards) < MaxGuards
  /\ guards' = Append(guards, steps)
  /\ steps' = [s \in Switches |-> 0]
  /\ UNCHANGED <<back, asked, off>>

\* ~Guard().
Unlock ==
  /\ guards # <<>>
  /\ steps' = Last(guards) /\ guards' = Front(guards)
  /\ UNCHANGED <<back, asked, off>>

SwitchNext ==
  \/ \E s \in Switches : Disable(s) \/ Enable(s) \/ \E n \in 1 .. MaxSteps : Set(s, n)
  \/ Lock \/ Unlock

SwitchSpec == SwitchInit /\ [][SwitchNext]_switchVars

---------------------------------------------------------------------------
(* Properties.                                                             *)

SwitchTypeOK ==
  /\ steps \in [Switches -> 0 .. MaxSteps] /\ back \in [Switches -> 1 .. MaxSteps]
  /\ guards \in Seq([Switches -> 0 .. MaxSteps])
  /\ asked \in [Switches -> 1 .. MaxSteps] /\ off \subseteq Switches

\* A program that enables only what is off and calls nothing under a Guard
\* gets the steps that it asked for last while the collector is on, and none
\* while it is off or a Guard is held, in whatever order it disables, enables,
\* sets and makes Guards; without a Guard the getter says what was asked for.
\* (enableCollector() of one that is on brings an old number back.)
StepsAsAsked ==
  \A s \in Switches :
    /\ steps[s] = IF s \in off \/ guards # <<>> THEN 0 ELSE asked[s]
    /\ guards = <<>> => Get(s) = asked[s]
=============================================================================
