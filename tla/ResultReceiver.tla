--------------------------- MODULE ResultReceiver ---------------------------
(***************************************************************************)
(* TestResultReceiver of src/etst/result_receiver.py: the output of one    *)
(* doctest or Unity run, line by line, becomes pass and fail results that  *)
(* are drained at any moment.                                              *)
(*                                                                         *)
(* Abstractions.  A line is its kind - the regular expression it matches - *)
(* and the test name it carries; messages, sources and durations are left  *)
(* out.  The buffered results are a bag: no property depends on their      *)
(* order.  The history counts, per name, what the lines said.              *)
(***************************************************************************)
EXTENDS Naturals

CONSTANTS Names,     \* the test names in the output
          Unknown, AllTests,  \* the names "unknown" and "all tests"
          NoName,    \* _current_test_name is None
          MaxLines   \* bound on the lines of a run

ASSUME NamesAssumption ==
  /\ {Unknown, AllTests, NoName} \cap Names = {} /\ Unknown # AllTests
  /\ NoName \notin {Unknown, AllTests} /\ MaxLines \in Nat

ResultName == Names \cup {Unknown, AllTests}
Passing(n) == <<n, "pass">>
Failing(n) == <<n, "fail">>
Result     == {Passing(n) : n \in ResultName} \cup {Failing(n) : n \in ResultName}

VARIABLES
  framework,   \* _detected_framework
  results, complete,         \* _results and _is_complete
  current, success, failing, \* _current_test_name, .._passed, _in_doctest_failure
  speaks, lines,    \* history: the framework the device prints, the lines so far,
  drained,          \* what drain_results has returned,
  failures,         \* the failing lines of each name
  earned,           \* and its sections that should count as passed,
  section           \* what the lines since the last header said

vars == <<framework, results, complete, current, success, failing, speaks,
          lines, drained, failures, earned, section>>

None == [r \in Result |-> 0]
NewSection == [name |-> NoName, ok |-> FALSE, bad |-> FALSE]

\* The device prints one framework, which the receiver is told or detects.
Init ==
  /\ speaks \in {"doctest", "unity"} /\ framework \in {speaks, "auto"}
  /\ results = None /\ complete = FALSE
  /\ current = NoName /\ success = FALSE /\ failing = FALSE
  /\ lines = 0 /\ drained = None /\ section = NewSection
  /\ failures = [n \in ResultName |-> 0] /\ earned = [n \in ResultName |-> 0]
-----------------------------------------------------------------------------
Append1(bag, r) == [bag EXCEPT ![r] = @ + 1]

InForce == IF current = NoName THEN Unknown ELSE current

\* Mutant: a pending failure is dropped.
FinalizeFailureDropped(bag) == bag

\* _finalize_doctest_failure, on the results.
FinalizeFailure(bag) == IF failing THEN Append1(bag, Failing(InForce)) ELSE bag

\* Mutant: a success line decides, whatever failed.
PassedBySuccess == current # NoName /\ success

\* What _finalize_doctest_case, which first clears the flag of a case with a
\* failure, still finds set.
Passed == current # NoName /\ success /\ ~failing

\* _finalize_doctest_case, on the results.
FinalizeCase(bag) ==
  IF Passed THEN Append1(FinalizeFailure(bag), Passing(current)) ELSE FinalizeFailure(bag)

\* feed: nothing is read after the summary.
Fed ==
  /\ lines < MaxLines /\ lines' = lines + 1 /\ ~complete
  /\ UNCHANGED <<speaks, drained>>

\* _try_detect: most lines tell the framework, if it is not known yet.
Detects == framework' = speaks

EndSection ==
  earned' = IF section.name # NoName /\ section.ok /\ ~section.bad
            THEN [earned EXCEPT ![section.name] = @ + 1] ELSE earned

\* "TEST CASE:  name"
DoctestCase ==
  /\ speaks = "doctest" /\ Fed /\ Detects
  /\ results' = FinalizeCase(results)
  /\ \E n \in Names : current' = n /\ section' = [NewSection EXCEPT !.name = n]
  /\ success' = FALSE /\ failing' = FALSE
  /\ EndSection /\ UNCHANGED <<complete, failures>>

\* "file:12: SUCCESS:" does not tell the framework.
DoctestSuccess ==
  /\ speaks = "doctest" /\ Fed /\ UNCHANGED framework
  /\ success' = (success \/ framework = "doctest")
  /\ section' = [section EXCEPT !.ok = TRUE]
  /\ UNCHANGED <<results, complete, current, failing, failures, earned>>

\* "file:12: FAILED:"
DoctestFailure ==
  /\ speaks = "doctest" /\ Fed /\ Detects
  /\ results' = FinalizeFailure(results)
  /\ failing' = TRUE /\ success' = (success /\ ~failing)
  /\ section' = [section EXCEPT !.bad = TRUE]
  /\ failures' = [failures EXCEPT ![InForce] = @ + 1]
  /\ UNCHANGED <<complete, current, earned>>

\* "[doctest] test cases:  2 | 2 passed |": allPassed when the counts agree
\* and are not 0; stands for all tests if no result is buffered.
DoctestSummary ==
  /\ speaks = "doctest" /\ Fed /\ Detects
  /\ \E allPassed \in BOOLEAN :
       results' = IF allPassed /\ FinalizeCase(results) = None
                  THEN Append1(None, Passing(AllTests)) ELSE FinalizeCase(results)
  /\ complete' = TRUE /\ current' = NoName /\ success' = FALSE /\ failing' = FALSE
  /\ section' = NewSection /\ EndSection /\ UNCHANGED failures

\* "file:12:name:PASS": IGNORE counts as not passed.
UnityResult ==
  /\ speaks = "unity" /\ Fed /\ Detects
  /\ \E n \in Names, status \in {"PASS", "FAIL", "IGNORE"} :
       /\ results' = Append1(results, IF status = "PASS" THEN Passing(n) ELSE Failing(n))
       /\ IF status = "PASS"
          THEN earned' = [earned EXCEPT ![n] = @ + 1] /\ UNCHANGED failures
          ELSE failures' = [failures EXCEPT ![n] = @ + 1] /\ UNCHANGED earned
  /\ UNCHANGED <<complete, current, success, failing, section>>

UnitySummary ==
  /\ speaks = "unity" /\ Fed /\ Detects /\ complete' = TRUE
  /\ UNCHANGED <<results, current, success, failing, failures, earned, section>>

Drain ==
  /\ results # None /\ results' = None
  /\ drained' = [r \in Result |-> drained[r] + results[r]]
  /\ UNCHANGED <<framework, complete, current, success, failing, speaks, lines,
                 failures, earned, section>>

Next == DoctestCase \/ DoctestSuccess \/ DoctestFailure \/ DoctestSummary
        \/ UnityResult \/ UnitySummary \/ Drain

Spec == Init /\ [][Next]_vars
-----------------------------------------------------------------------------
TypeOK ==
  /\ speaks \in {"doctest", "unity"} /\ framework \in {speaks, "auto"}
  /\ results \in [Result -> Nat] /\ drained \in [Result -> Nat]
  /\ current \in Names \cup {NoName} /\ lines \in Nat
  /\ complete \in BOOLEAN /\ success \in BOOLEAN /\ failing \in BOOLEAN
  /\ failures \in [ResultName -> Nat] /\ earned \in [ResultName -> Nat]
  /\ section \in [name : Names \cup {NoName}, ok : BOOLEAN, bad : BOOLEAN]

Returned(r) == results[r] + drained[r]
Pending(n)  == IF failing /\ InForce = n THEN 1 ELSE 0

\* Every failing line yields exactly one failing result, under the test it was
\* printed in, whenever results are drained and whichever line follows; one of
\* them may still be pending.
FailuresKept ==
  \A n \in ResultName :
    Returned(Failing(n)) + Pending(n) = failures[n]

\* A test has a passing result for each of its sections in which something
\* succeeded and nothing failed, and for no other.
PassesEarned == \A n \in Names : Returned(Passing(n)) = earned[n]
=============================================================================
