------------------------------ MODULE TestRun ------------------------------
(***************************************************************************)
(* What orchestrated mode promises, without a protocol in sight: the       *)
(* selected tests execute one at a time in registry order; a test may put  *)
(* the device to sleep and is then resumed, up to MaxResumes times; a      *)
(* report comes out once, when every selected test is over or one of them  *)
(* has used up its resumes, and it agrees with what happened.              *)
(***************************************************************************)
EXTENDS Naturals

CONSTANTS Selected,    \* the selected tests, numbers in execution order
          MaxResumes,
          Name,        \* test -> the name it is reported under
          NoReport     \* the report is not out yet

VARIABLES status,      \* idle, running, paused, passed or failed
          resumes,     \* how often a test has been resumed
          report       \* the reported cases, or NoReport

runVars == <<status, resumes, report>>

Over(t)  == status[t] \in {"passed", "failed"}
AllOver  == \A t \in Selected : Over(t)
Exhausted(t) == status[t] = "paused" /\ resumes[t] = MaxResumes

Init ==
  /\ status  = [t \in Selected |-> "idle"]
  /\ resumes = [t \in Selected |-> 0]
  /\ report  = NoReport

Start(t) ==
  /\ report = NoReport
  /\ \A u \in Selected : u < t => Over(u)
  /\ \/ status[t] = "idle"
     \/ status[t] = "paused" /\ resumes[t] > 0
  /\ status' = [status EXCEPT ![t] = "running"]
  /\ UNCHANGED <<resumes, report>>

Leave(t, to) ==
  /\ report = NoReport /\ status[t] = "running"
  /\ status' = [status EXCEPT ![t] = to]
  /\ UNCHANGED <<resumes, report>>

Resume(t) ==
  /\ report = NoReport /\ status[t] = "paused" /\ resumes[t] < MaxResumes
  /\ resumes' = [resumes EXCEPT ![t] = @ + 1]
  /\ UNCHANGED <<status, report>>

\* The verdicts a report gives a test.
Verdicts(r, t) == {c.status : c \in {d \in r : d.name = Name[t]}}
Green(r) == \A c \in r : c.status = "PASSED"

Publish(r) ==
  /\ report = NoReport
  /\ \/ /\ AllOver
        /\ \A t \in Selected :
             Verdicts(r, t) = {IF status[t] = "passed" THEN "PASSED" ELSE "FAILED"}
        /\ Green(r) <=> \A t \in Selected : status[t] = "passed"
     \/ /\ \E t \in Selected : Exhausted(t)
        /\ ~Green(r)
  /\ report' = r
  /\ UNCHANGED <<status, resumes>>

Next ==
  \/ \E t \in Selected :
       \/ Start(t) \/ Resume(t)
       \/ \E to \in {"paused", "passed", "failed"} : Leave(t, to)
  \/ report' # report /\ Publish(report')

Spec == Init /\ [][Next]_runVars
=============================================================================
