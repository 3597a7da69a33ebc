------------------------------- MODULE Runner -------------------------------
(***************************************************************************)
(* The host: EmbeddedTestRunner in orchestrated mode, src/etst/runner.py.  *)
(* stage_testing runs a first cycle, then resumes every sleeping test with *)
(* a wake cycle followed by a RESUME_AFTER cycle; _run_test_cycle is one   *)
(* READY / command / DONE exchange; _on_serial_data handles the lines.     *)
(* hpc is where the single host thread stands:                             *)
(*   open      start of _run_test_cycle        top     while-loop test     *)
(*   read      the main read loop              wake    _handle_sleep_resume *)
(*   lines     inside _on_serial_data          resumed after it            *)
(*   check     the tests after a read          rescue  the except branch   *)
(*   drain     the wait for DONE afterwards    final   the finally block   *)
(*   drained   inside _on_serial_data          end     stage_testing done  *)
(*   post      the on-done command                                         *)
(*   close     closing the port                                            *)
(* Abstractions: time is taken by the outcomes of its deadlines; the cases *)
(* of the test suite are a set; PIO's own result parser, memory and timing *)
(* trackers and plugins see the same lines and are separate components.    *)
(***************************************************************************)
EXTENDS SerialLink, Receivers

CONSTANT MaxSleepRetries
ASSUME RetryAssumption == MaxSleepRetries \in Nat

VARIABLES hpc, kind,  \* position, and which cycle _run_test_cycle runs
          cmd,        \* its command argument
          proto,      \* self.protocol
          chunk,      \* lines of the current read still to be handled
          target,     \* stage_testing's sleep_test
          retries,    \* sleep_retry_counts
          cases,      \* self.test_suite.cases
          failures,   \* the keys of self._test_failures
          crash,      \* self.crash_detector
          finished    \* self._finished_by_runner

hostVars == <<hpc, kind, cmd, proto, chunk, target, retries, cases, failures,
              crash, finished>>

Position == {"open", "read", "lines", "check", "drain", "drained", "post",
             "close", "top", "wake", "resumed", "rescue", "final", "end"}
Kind == {"initial", "phase2", "retry", "resume"}
HostCommand == [tag : {"RUN", "RESUME_AFTER"}, name : TestNames \cup {Empty}, wake : BOOLEAN]

Status == {"PASSED", "FAILED", "ERRORED"}
Diagnostic == {"ready_timeout", "serial_error", "runner_error", "device_error",
               "crash", "unknown"}
ASSUME DiagnosticAssumption == Empty \notin Diagnostic  \* they have names
CaseName == (SuiteNames \cup {Empty}) \X (TestNames \cup Diagnostic \cup {Empty})
Case(name, status) == [name |-> name, status |-> status]
Errored(name) == Case(name, "ERRORED")

\* The test a diagnostic is filed under: `current_test_full or "unknown"`.
Blamed(p, unknown) ==
  IF CurrentTestFull(p) = Unnamed THEN <<Empty, unknown>> ELSE CurrentTestFull(p)

\* The first command, and the one behind the on-done command.
RunAll == [tag |-> "RUN", name |-> Empty, wake |-> FALSE]
OnDone == [tag |-> "ONDONE", name |-> Empty, wake |-> FALSE]

\* `RUN: --wake --tc "<name>"`, with --wake also when the name is empty.
RunWake(name) == [tag |-> "RUN", name |-> name, wake |-> TRUE]

\* Mutant: everything is run once more.
ResumeAfterAll(name) == RunAll

ResumeAfter(name) == [tag |-> "RESUME_AFTER", name |-> name, wake |-> FALSE]

\* stage_testing begins with reset_all(), which leaves a new protocol state.
HostInit ==
  /\ hpc = "open" /\ kind = "initial" /\ cmd = RunAll
  /\ proto = NewProtocol /\ chunk = <<>> /\ target = Empty
  /\ retries = [n \in TestNames \cup {Empty} |-> 0]
  /\ cases = {} /\ failures = {} /\ crash = "none" /\ finished = FALSE
-----------------------------------------------------------------------------
(* Exceptions.  A wake cycle that fails with a SerialException is tried    *)
(* once more; any other ends up in stage_testing's except branch.  What    *)
(* pyserial does not wrap (an OSError of in_waiting, a termios.error of    *)
(* flush) ends there whatever the cycle.                                   *)

SerialException(p) ==
  /\ proto' = p
  /\ IF kind = "phase2" THEN
       /\ hpc' = "open" /\ kind' = "retry"
       /\ UNCHANGED cases
     ELSE
       /\ UNCHANGED kind
       /\ IF p.state \in {"SLEEPING", "RUNNING"}
          THEN hpc' = "rescue" /\ UNCHANGED cases
          ELSE hpc' = "final" /\ cases' = cases \cup {Errored(<<Empty, "serial_error">>)}

RunnerError(p) ==
  /\ proto' = p /\ hpc' = "final"
  /\ cases' = cases \cup {Errored(<<Empty, "runner_error">>)}
  /\ UNCHANGED kind

PortException(p) == SerialException(p) \/ RunnerError(p)
-----------------------------------------------------------------------------
(* One cycle: _run_test_cycle.                                             *)

OpenCycle ==
  /\ hpc = "open" /\ Open
  /\ hpc' = "read" /\ proto' = Reset(proto)
  /\ chunk' = <<>> /\ finished' = FALSE
  /\ UNCHANGED <<kind, cmd, target, retries, cases, failures, crash>>

\* No port to open: _resolve_port finds none, or open_serial runs out of
\* attempts.
ResolveFails ==
  /\ hpc = "open" /\ ~port /\ link = "closed"
  /\ RunnerError(Reset(proto))
  /\ chunk' = <<>> /\ finished' = FALSE
  /\ UNCHANGED <<linkVars, cmd, target, retries, failures, crash>>

OpenFails ==
  /\ hpc = "open" /\ ~port /\ link = "closed"
  /\ SerialException(Reset(proto))
  /\ chunk' = <<>> /\ finished' = FALSE
  /\ UNCHANGED <<linkVars, cmd, target, retries, failures, crash>>

\* A read returns a non-empty prefix of what has arrived.
ReadChunk ==
  /\ \/ hpc = "read"  /\ hpc' = "lines"
     \/ hpc = "drain" /\ hpc' = "drained" /\ proto.state # "FINISHED"
  /\ link = "ok"
  /\ \E n \in 1..Len(toHost) :
       /\ chunk' = SubSeq(toHost, 1, n)
       /\ toHost' = SubSeq(toHost, n + 1, Len(toHost))
  /\ UNCHANGED <<port, link, toDevice, kind, cmd, proto, target, retries,
                 cases, failures, crash, finished>>

\* _on_serial_data, one line: the receivers, _check_crash, then
\* _check_assertion_failure.  Once the detector has triggered the rest of
\* every chunk is thrown away.
HandleLine ==
  /\ hpc \in {"lines", "drained"} /\ chunk # <<>>
  /\ LET line == Head(chunk)
         p    == Feed(proto, line)
     IN  /\ proto' = p
         /\ crash' \in FeedCrash(crash, line)
         /\ finished' = (finished \/ crash' = "triggered")
         /\ cases' = IF finished' /\ ~finished THEN cases \cup {Errored(Blamed(p, "crash"))}
                      ELSE cases
         /\ failures' = IF line.tag = "FAIL"
                        THEN failures \cup {Blamed(p, "unknown")} ELSE failures
         /\ chunk' = IF finished' THEN <<>> ELSE Tail(chunk)
  /\ UNCHANGED <<linkVars, hpc, kind, cmd, target, retries>>

EndChunk ==
  /\ chunk = <<>>
  /\ \/ hpc = "lines"   /\ hpc' = "check"
     \/ hpc = "drained" /\ hpc' = "drain"
  /\ UNCHANGED <<linkVars, kind, cmd, proto, chunk, target, retries, cases,
                 failures, crash, finished>>

\* The device is ready: send the ARGS and the command.  up tells whether
\* the device is there to receive them.
SendCommand(up) ==
  /\ hpc = "check" /\ proto.state = "READY" /\ link = "ok"
  /\ Write(<<cmd>>, up)
  /\ proto' = CommandSent(proto)
  /\ hpc' = IF crash = "triggered" THEN "drain" ELSE "read"
  /\ UNCHANGED <<port, link, toHost, kind, cmd, chunk, target, retries, cases,
                 failures, crash, finished>>

\* The write raises while the protocol is READY.
SendFails ==
  /\ hpc = "check" /\ proto.state = "READY" /\ link = "broken"
  /\ PortException(proto)
  /\ UNCHANGED <<linkVars, cmd, chunk, target, retries, failures, crash, finished>>

\* Mutant: the tracked failures are not reported.
ReportedNothing == cases

\* _report_test_failures, called only where DONE has been received.
Reported == cases \cup {Case(name, "FAILED") : name \in failures}

CycleDone ==
  /\ hpc \in {"check", "drain"} /\ proto.state = "FINISHED"
  /\ cases' = Reported /\ hpc' = "post"
  /\ UNCHANGED <<linkVars, kind, cmd, proto, chunk, target, retries, failures,
                 crash, finished>>

DeviceError ==
  /\ hpc = "check" /\ proto.state = "ERROR"
  /\ cases' = cases \cup {Errored(<<Empty, "device_error">>)} /\ hpc' = "drain"
  /\ UNCHANGED <<linkVars, kind, cmd, proto, chunk, target, retries, failures,
                 crash, finished>>

\* Sleep ends the loop by its condition, a detected crash by a break; both
\* go on to drain.  Otherwise the next read.
NextRead ==
  /\ hpc = "check" /\ proto.state \in {"WAITING_FOR_READY", "RUNNING", "SLEEPING"}
  /\ hpc' = IF proto.state = "SLEEPING" \/ crash = "triggered" THEN "drain" ELSE "read"
  /\ UNCHANGED <<linkVars, kind, cmd, proto, chunk, target, retries, cases,
                 failures, crash, finished>>

\* The crash detector is never reset: in a cycle after a crash the first read
\* that returns nothing ends the loop too.
CrashBreak ==
  /\ hpc = "read" /\ crash = "triggered" /\ toHost = <<>> /\ link = "ok" /\ hpc' = "drain"
  /\ UNCHANGED <<linkVars, kind, cmd, proto, chunk, target, retries, cases,
                 failures, crash, finished>>

\* The two deadlines of the read loop, both on a read that returned nothing.
\* Mutant: the READY deadline is not looked at.
ReadyTimeoutNever == FALSE

ReadyTimeout ==
  /\ hpc = "read" /\ proto.state = "WAITING_FOR_READY" /\ toHost = <<>> /\ link = "ok"
  /\ cases' = cases \cup {Errored(<<Empty, "ready_timeout">>)} /\ hpc' = "drain"
  /\ UNCHANGED <<linkVars, kind, cmd, proto, chunk, target, retries, failures,
                 crash, finished>>

HangTimeout ==
  /\ hpc = "read" /\ proto.state = "RUNNING" /\ toHost = <<>> /\ link = "ok"
  /\ ~proto.busy
  /\ cases' = cases \cup {Errored(Blamed(proto, "unknown"))} /\ hpc' = "drain"
  /\ UNCHANGED <<linkVars, kind, cmd, proto, chunk, target, retries, failures,
                 crash, finished>>

BusyElapses ==
  /\ proto.busy /\ proto' = BusyExpired(proto)
  /\ UNCHANGED <<linkVars, hpc, kind, cmd, chunk, target, retries, cases,
                 failures, crash, finished>>

\* The read raises because the port is gone: a break while RUNNING, which
\* the drain loop then meets again; an exception before that.
PortLost ==
  /\ link = "broken"
  /\ \/ hpc = "read" /\ proto.state = "RUNNING" /\ hpc' = "drain"
        /\ UNCHANGED <<kind, proto, cases>>
     \/ hpc = "read" /\ proto.state # "RUNNING" /\ PortException(proto)
     \/ hpc = "drain" /\ proto.state # "FINISHED" /\ hpc' = "post"
        /\ UNCHANGED <<kind, proto, cases>>
  /\ UNCHANGED <<linkVars, cmd, chunk, target, retries, failures, crash, finished>>

DrainTimeout ==
  /\ hpc = "drain" /\ proto.state # "FINISHED" /\ hpc' = "post"
  /\ UNCHANGED <<linkVars, kind, cmd, proto, chunk, target, retries, cases,
                 failures, crash, finished>>

\* The on-done command goes out without a CRC, and not after a wake cycle;
\* an exception on the write is swallowed.
PostTest(up) ==
  /\ hpc = "post" /\ hpc' = "close"
  /\ IF kind = "phase2" THEN UNCHANGED toDevice ELSE Write(<<OnDone>>, up)
  /\ UNCHANGED <<port, link, toHost, kind, cmd, proto, chunk, target, retries,
                 cases, failures, crash, finished>>

CloseCycle ==
  /\ hpc = "close" /\ Close
  /\ hpc' = IF kind \in {"phase2", "retry"} THEN "resumed" ELSE "top"
  /\ UNCHANGED <<kind, cmd, proto, chunk, target, retries, cases, failures,
                 crash, finished>>
-----------------------------------------------------------------------------
(* The sleep loop: stage_testing and _handle_sleep_resume.                 *)

\* Mutant: the retries are counted but not limited.
ResumeSleeperAlways ==
  /\ hpc = "top" /\ proto.state = "SLEEPING"
  /\ target' = proto.sleeping /\ hpc' = "wake"
  /\ retries' = [retries EXCEPT ![proto.sleeping] = @ + 1]
  /\ UNCHANGED <<linkVars, kind, cmd, proto, chunk, cases, failures, crash, finished>>

ResumeSleeper ==
  /\ hpc = "top" /\ proto.state = "SLEEPING"
  /\ retries[proto.sleeping] < MaxSleepRetries
  /\ target' = proto.sleeping
  /\ retries' = [retries EXCEPT ![proto.sleeping] = @ + 1]
  /\ hpc' = "wake"
  /\ UNCHANGED <<linkVars, kind, cmd, proto, chunk, cases, failures, crash, finished>>

\* Infinite sleep loop: an error under the bare test name, and out.
GiveUp ==
  /\ hpc = "top" /\ proto.state = "SLEEPING"
  /\ retries[proto.sleeping] >= MaxSleepRetries
  /\ cases' = cases \cup {Errored(<<Empty, proto.sleeping>>)}
  /\ hpc' = "final" /\ target' = proto.sleeping
  /\ UNCHANGED <<linkVars, kind, cmd, proto, chunk, retries, failures, crash, finished>>

LoopExit ==
  /\ hpc = "top" /\ proto.state # "SLEEPING" /\ hpc' = "final"
  /\ UNCHANGED <<linkVars, kind, cmd, proto, chunk, target, retries, cases,
                 failures, crash, finished>>

\* Waiting for the port is over, one way or the other: run the wake cycle.
Wake ==
  /\ hpc = "wake"
  /\ cmd' = RunWake(proto.sleeping) /\ kind' = "phase2" /\ hpc' = "open"
  /\ proto' = ResetForWake(proto)
  /\ UNCHANGED <<linkVars, chunk, target, retries, cases, failures, crash, finished>>

\* Phase 2 ended without another sleep: run the remaining tests.
RunRemaining ==
  /\ hpc = "resumed"
  /\ IF proto.state # "SLEEPING" /\ target # Empty
     THEN cmd' = ResumeAfter(target) /\ kind' = "resume" /\ hpc' = "open"
     ELSE hpc' = "top" /\ UNCHANGED <<cmd, kind>>
  /\ UNCHANGED <<linkVars, proto, chunk, target, retries, cases, failures,
                 crash, finished>>

\* Mutant: every recorded test counts as PASSED.
EnsureResultsAll == cases \cup {Case(n, "PASSED") : n \in proto.completed}

\* The finally block: _close_serial and _ensure_test_results.  Entries with
\* an empty name are dropped; every test whose CASE:START was seen and that
\* nothing else is known of is PASSED.
EnsureResults ==
  {c \in cases : c.name # Unnamed}
  \cup {Case(n, "PASSED") : n \in proto.completed \ (failures \cup {c.name : c \in cases})}

Finalize ==
  /\ hpc = "final" /\ Close
  /\ cases' = EnsureResults /\ hpc' = "end"
  /\ UNCHANGED <<kind, cmd, proto, chunk, target, retries, failures, crash, finished>>
-----------------------------------------------------------------------------
HostTypeOK ==
  /\ hpc \in Position /\ kind \in Kind /\ cmd \in HostCommand
  /\ proto \in Protocol /\ chunk \in Seq(Line)
  /\ target \in TestNames \cup {Empty}
  /\ retries \in [TestNames \cup {Empty} -> 0..MaxSleepRetries]
  /\ cases \subseteq [name : CaseName, status : Status]
  /\ failures \subseteq CaseName
  /\ crash \in CrashState /\ finished \in BOOLEAN
=============================================================================
