--------------------------- MODULE TestSelection ---------------------------
(***************************************************************************)
(* Which of the registered doctest cases one device cycle executes:        *)
(* apply_runner_command, apply_resume_after and run_cycle of               *)
(* include/etst/doctest/runner.h together with the way doctest itself      *)
(* (vendored by the firmware, not part of this repository) applies the     *)
(* options they set.                                                       *)
(*                                                                         *)
(* A registry r has r.name, the test names in execution order (file, line) *)
(* - tests are the indices of r.name -, r.skip, the tests whose m_skip is  *)
(* set, and r.match, the tests the filters forwarded in ETST:ARGS let      *)
(* through.  A command c has c.tag "RUN" (for RUN, RUN: and RUN_ALL) or    *)
(* "RESUME_AFTER" and c.name, the exact test name it carries or none.      *)
(* Patterns are taken by the sets of tests they match.                     *)
(***************************************************************************)
EXTENDS Naturals, FiniteSets

CONSTANT NoName   \* the command carries no test name

Tests(r) == DOMAIN r.name

\* run_cycle joins the accumulated ARGS to RUN, RUN: and RUN_ALL only; a
\* RESUME_AFTER command runs without them.
TakesArgs(c) == c.tag = "RUN"

\* Mutant: m_skip is not looked at.
PassingSkipped(r, c) ==
  {t \in Tests(r) : /\ TakesArgs(c) => t \in r.match
                    /\ c.tag = "RUN" /\ c.name # NoName => r.name[t] = c.name}

\* doctest: a test passes the filters unless it is skipped or excluded.
Passing(r, c) ==
  {t \in Tests(r) : /\ t \notin r.skip
                    /\ TakesArgs(c) => t \in r.match
                    /\ c.tag = "RUN" /\ c.name # NoName => r.name[t] = c.name}

\* apply_resume_after: the first registered test with that name; 0 when the
\* name is unknown, and then every test runs.
ResumeIndex(r, c) ==
  LET same == {t \in Tests(r) : r.name[t] = c.name}
  IN  IF c.tag # "RESUME_AFTER" \/ same = {} THEN 0
      ELSE CHOOSE t \in same : \A u \in same : t <= u

\* doctest's "first" option counts the tests that pass the filters, not the
\* registered ones; 0 and 1 both mean no limit.
Rank(r, c, t) == Cardinality({u \in Passing(r, c) : u <= t})

\* Mutant: "first" is the resumed test itself.
SelectedFromSleeper(r, c) ==
  {t \in Passing(r, c) : Rank(r, c, t) >= ResumeIndex(r, c)}

Selected(r, c) ==
  {t \in Passing(r, c) : Rank(r, c, t) > ResumeIndex(r, c)}
-----------------------------------------------------------------------------
\* Mutant: the tests resumed over are counted.
CountedRunAll(r, c) == Cardinality(Passing(r, c))

\* The ETST:COUNTS line of run_cycle: tests counted by the filters, less the
\* resumed-over tests when that leaves any.
CountedRun(r, c) ==
  LET run  == Cardinality(Passing(r, c))
      skip == ResumeIndex(r, c)
  IN  IF skip > 0 /\ run > skip THEN run - skip ELSE run
=============================================================================
