---------------------------- MODULE Orchestration ----------------------------
(***************************************************************************)
(* The host runner and the device joined by the serial link: a whole       *)
(* `pio test` run in orchestrated mode, with deep sleep, restarts, hangs,  *)
(* crashes, resets and a cable that can be pulled.                         *)
(*                                                                         *)
(* Timing assumptions, each a guard below:                                 *)
(*   Silent      a deadline of the host passes only while the device says  *)
(*               nothing for good, or outlasts it ("slow", LateWake)       *)
(*   Settled     on a port that goes down with it, a device that announced *)
(*               a sleep or a restart, or printed a crash, flushes first   *)
(*               and is read; behind a UART nobody waits for the reader    *)
(*   Answered    READY is not repeated while the host is answering one     *)
(*   Listening   the second the runner sleeps after the on-done command    *)
(*               is enough for an idle device to read it                   *)
(***************************************************************************)
EXTENDS Runner, Firmware

CONSTANT LateWake  \* a sleep may outlast the announced time and its padding

ASSUME OrchestrationAssumption == LateWake \in BOOLEAN

vars == <<hostVars, deviceVars, linkVars>>

Silent == \/ dev \in {"hung", "halt", "dead"}
          \/ dev = "run" /\ "slow" \in Outcomes
          \/ dev = "asleep" /\ LateWake

Settled   == UsbCdc /\ link = "ok" => toHost = <<>> /\ chunk = <<>>
Answered  == proto.state # "READY" /\ \A i \in DOMAIN chunk : chunk[i].tag # "READY"
Listening == dev = "wait" /\ Len(toHost) < MaxInFlight => toDevice = <<>>
WokenUp   == dev \notin {"powerdown", "rebooting"} /\ (dev # "asleep" \/ LateWake)

\* The port is not coming back while open_serial retries.
PortAbsent == dev = "dead" \/ (dev = "asleep" /\ LateWake)

Init == HostInit /\ DeviceInit /\ LinkInit
-----------------------------------------------------------------------------
\* Steps of the host thread, without and with a passing deadline.
HostStep ==
  \/ OpenCycle \/ ReadChunk \/ HandleLine \/ EndChunk
  \/ SendCommand(Powered) \/ SendFails \/ CycleDone \/ DeviceError \/ NextRead
  \/ CrashBreak \/ PortLost \/ PostTest(Powered)
  \/ CloseCycle /\ Listening
  \/ ResumeSleeper \/ GiveUp \/ LoopExit \/ RunRemaining \/ Finalize
  \/ (ResolveFails \/ OpenFails) /\ PortAbsent
  \/ Wake /\ WokenUp
  \/ ReadyTimeout /\ Silent
  \/ HangTimeout /\ Silent

Host == (HostStep \/ DrainTimeout \/ BusyElapses) /\ UNCHANGED deviceVars

DeviceStep ==
  \/ Boot \/ BoardFailure \/ RejectLine \/ TakeCommand \/ StartTest
  \/ RepeatReady /\ Answered
  \/ LeaveTest \/ AssertionFails \/ SignalBusy \/ SignalError \/ ResetOnOpen
  \/ FinishCycle \/ WakeUp
  \/ PowerDown /\ Settled

Device == DeviceStep /\ UNCHANGED hostVars

\* The report is out; what the device does from here on is nobody's concern.
Terminated == hpc = "end" /\ UNCHANGED vars

Next == (hpc # "end" /\ (Host \/ Device)) \/ Terminated

Spec == Init /\ [][Next]_vars
-----------------------------------------------------------------------------
(***************************************************************************)
(* Fairness.  The host is one thread that never waits without a deadline,  *)
(* and the drain deadline is looked at on every turn of its loop however   *)
(* much arrives: hence strong fairness there.  A powered device proceeds:  *)
(* it boots, answers commands, repeats READY, and a test that executes     *)
(* ends or leaves in one of the ways Outcomes allows.                      *)
(***************************************************************************)
Fairness ==
  /\ WF_vars(HostStep /\ UNCHANGED deviceVars)
  /\ SF_vars(DrainTimeout /\ UNCHANGED deviceVars)
  /\ WF_vars(BusyElapses /\ UNCHANGED deviceVars)
  /\ WF_vars((Boot \/ RejectLine \/ TakeCommand \/ StartTest \/ FinishCycle
              \/ (PowerDown /\ Settled) \/ WakeUp) /\ UNCHANGED hostVars)
  /\ WF_vars(RepeatReady /\ Answered /\ UNCHANGED hostVars)
  /\ WF_vars(LeaveTest /\ UNCHANGED hostVars)

FairSpec == Spec /\ Fairness
-----------------------------------------------------------------------------
TypeOK == HostTypeOK /\ DeviceTypeOK

Wanted == (Match \ SkipMark) \cap Registered
FullNameOf(t) == <<SuiteOf[t], NameOf[t]>>
Passed(t) == phase[t] = "ended" /\ t \notin bad

\* A run with no error and no failure in its report is a run in which every
\* selected test executed to its end with no failed assertion: nothing that
\* went wrong on the device, or between it and the host, is lost on the way
\* to the report (stage_testing, _report_test_failures, _ensure_test_results).
GreenMeansPassed ==
  hpc = "end" /\ (\A c \in cases : c.status = "PASSED") =>
    \A t \in Wanted : Passed(t)

\* No test is reported PASSED unless it ended with no failed assertion, even
\* in a report that is red for another reason.
NoFalsePass ==
  hpc = "end" =>
    \A t \in Registered : Case(FullNameOf(t), "PASSED") \in cases => Passed(t)

\* A run whose report shows no error was closed by the device's DONE: a
\* connection that breaks while a test executes is picked up again, or shows.
\* README.md:7 says as much; false of the code (README, known deviations).
EndedByDone ==
  hpc = "end" /\ (\A c \in cases : c.status # "ERRORED") => proto.state = "FINISHED"

\* Every failed assertion of a run that the device's DONE has closed is in the
\* report under its own test, also one of a cycle before the sleep
\* (_check_assertion_failure collects, _report_test_failures reports).  Not so
\* after a signal_error: the host stops listening to that cycle.
FailuresReported ==
  hpc = "end" /\ proto.state = "FINISHED" =>
    \A t \in bad : Case(FullNameOf(t), "FAILED") \in cases

\* The device only executes tests the user selected, in every cycle: the
\* filters and the skip marks survive the reboots of a sleeping test.  With a
\* filter and a sleep, false of the code (README, known deviations).
OnlySelected == \A t \in Registered : phase[t] # "idle" => t \in Wanted

\* The test the host is about to resume is one that asked for the sleep.
RightSleeper ==
  hpc = "wake" => \E t \in Registered : NameOf[t] = target /\ phase[t] = "slept"

\* The exception that the except branch of stage_testing takes for a sleeping
\* device never reaches it: a port lost while RUNNING leaves the read loop by
\* a break, so nothing there resumes the test.
RescueUnreached == hpc # "rescue"

\* A test that has ended, or that took the device down with it, is not
\* executed again: only a test that went to sleep is entered a second time.
NoReexecution ==
  [][\A t \in Registered :
       phase[t] \in {"ended", "lost"} => phase'[t] # "running"]_vars

\* A test the filters exclude is entered by no command but RESUME_AFTER, which
\* runs without the ETST:ARGS, and one marked skip() by none at all: whatever
\* reboot, wake or repeated handshake comes between, the filters reach the
\* device with every RUN, and a reset restores the skip marks.
FiltersHold ==
  [][\A t \in Registered :
       phase[t] # "running" /\ phase'[t] = "running" =>
         t \notin SkipMark /\ (t \in Match \/ cmd.tag = "RESUME_AFTER")]_vars

\* A test finds is_test_wake() true exactly when an earlier execution of it
\* put the device to sleep: the flag is off for every test the resume command
\* was not meant for, and on for the sleeper, however often it sleeps.
WakeFlagMeansSlept ==
  [][\A t \in Registered :
       phase[t] # "running" /\ phase'[t] = "running" =>
         (wake <=> phase[t] = "slept")]_vars

\* Every run comes to its report: no sleeping, hanging, crashing or silent
\* device keeps stage_testing from finishing.
Terminates == <>(hpc = "end")
-----------------------------------------------------------------------------
(* With a device that only passes, fails, sleeps and restarts, the run is  *)
(* the abstract one.                                                       *)

StatusOf(t) ==
  CASE phase[t] = "ended" -> IF t \in bad THEN "failed" ELSE "passed"
    [] phase[t] = "slept" -> "paused"
    [] OTHER              -> phase[t]

Abstract == INSTANCE TestRun WITH
  Selected   <- Wanted,
  MaxResumes <- MaxSleepRetries,
  Name       <- [t \in Wanted |-> FullNameOf(t)],
  NoReport   <- Empty,
  status     <- [t \in Wanted |-> StatusOf(t)],
  resumes    <- [t \in Wanted |-> retries[NameOf[t]]],
  report     <- IF hpc = "end" THEN cases ELSE Empty

\* Orchestration implements TestRun: the sleeps, reboots, closed ports and
\* repeated handshakes of stage_testing never change which tests execute, in
\* which order and how often, nor what the report says of them.
ImplementsTestRun == Abstract!Spec
=============================================================================
