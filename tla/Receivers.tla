------------------------------ MODULE Receivers ------------------------------
(***************************************************************************)
(* The receivers the runner's router feeds beside the protocol: the crash  *)
(* detector of embedded_bridge (not in this repository, known from how the *)
(* runner and its tests use it), DisconnectHandler (src/etst/disconnect.py)*)
(* and TestTimingTracker (src/etst/timing_tracker.py).  Time is            *)
(* counted in ticks of the module that owns them; the announced length of  *)
(* a disconnect and the callbacks, which the runner does not set, are left *)
(* out, and so is the formatting of the slow test report.                  *)
(***************************************************************************)
EXTENDS ReadyRunProtocol

CrashState == {"none", "pending", "triggered"}

\* What the detector may make of a line: one that matches a crash pattern
\* opens a record, which some line behind it completes - the end of a panic
\* dump ("TRACE") at the latest.
FeedCrash(c, line) ==
  CASE c = "none" /\ line.tag = "CRASH"    -> {"pending", "triggered"}
    [] c = "pending" /\ line.tag # "TRACE" -> {"pending", "triggered"}
    [] c = "pending" /\ line.tag = "TRACE" -> {"triggered"}
    [] OTHER                               -> {c}

NewDisconnect == [active |-> FALSE, count |-> 0]

FeedDisconnect(d, line) ==
  CASE line.ok /\ line.tag = "DISCONNECT"            -> [d EXCEPT !.active = TRUE]
    [] line.ok /\ line.tag = "RECONNECT" /\ d.active -> [active |-> FALSE, count |-> d.count + 1]
    [] OTHER                                         -> d

\* The timer of a test: test is Unnamed while none runs, elapsed is its clock
\* less its start time.
NewTiming == [test |-> Unnamed, elapsed |-> 0, durations |-> [t \in FullName |-> 0]]

\* Mutant: the next test takes over the timer.
FinalizeTimingForgotten(k) == k

\* _finalize_current: a second run of a test replaces its duration.
FinalizeTiming(k) ==
  IF k.test = Unnamed THEN k
  ELSE [test |-> Unnamed, elapsed |-> 0, durations |-> [k.durations EXCEPT ![k.test] = k.elapsed]]

\* A test without a suite is not timed and does not stop the timer either.
FeedTiming(k, line) ==
  IF line.tag = "CASE" /\ line.ok /\ line.suite # Empty /\ line.name # Empty
  THEN [FinalizeTiming(k) EXCEPT !.test = <<line.suite, line.name>>, !.elapsed = 0]
  ELSE k

TickTiming(k) == IF k.test = Unnamed THEN k ELSE [k EXCEPT !.elapsed = @ + 1]
==============================================================================
