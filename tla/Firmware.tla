------------------------------ MODULE Firmware ------------------------------
(***************************************************************************)
(* The device: run_tests, wait_for_command, run_cycle and idle_loop of     *)
(* include/etst/doctest/runner.h, the listener, and the signal_* calls of  *)
(* test_runner.h.  What a running test does is chosen among Outcomes, and  *)
(* can differ at every execution: deep sleep and restart reboot the chip,  *)
(* so a later execution is Phase 2 of the same test.                       *)
(*                                                                         *)
(* Timing, as an assumption: the host answers a READY before the next one  *)
(* is due (the READY/ARGS race is the subject of Handshake).               *)
(***************************************************************************)
EXTENDS SerialLink, ReadyRunProtocol, FiniteSets

CONSTANTS NTests,      \* registered tests, in execution order
          NameOf,      \* test -> test case name
          SuiteOf,     \* test -> suite name, Empty for a suite-less test
          SkipMark,    \* tests declared with doctest::skip()
          NeedsEnv,    \* tests with require_env on a forwarded variable
          Match,       \* tests the forwarded filters let through
          Outcomes     \* what a test, or the board, may do

Registered == 1..NTests

AllOutcomes == {"pass", "fail", "sleep", "restart", "busy", "error", "crash",
                "hang", "slow", "reboot", "drop", "boardfail", "reset"}

ASSUME FirmwareAssumption ==
  /\ NTests \in Nat
  /\ NameOf \in [Registered -> TestNames]
  /\ SuiteOf \in [Registered -> SuiteNames \cup {Empty}]
  /\ SkipMark \subseteq Registered
  /\ NeedsEnv \subseteq Registered
  /\ Match \subseteq Registered
  /\ Outcomes \subseteq AllOutcomes

VARIABLES dev,       \* what the chip is doing
          skipMark,  \* m_skip of every registered test, since boot
          wake,      \* is_test_wake(): the command carried --wake
          pending,   \* tests context.run() has still to execute
          cur,       \* the test executing, 0 for none
          phase,     \* history: how far each test got
          bad        \* history: tests in which an assertion failed

deviceVars == <<dev, skipMark, wake, pending, cur, phase, bad>>

DeviceState == {"boot", "halt", "wait", "run", "hung", "powerdown",
                "rebooting", "asleep", "dead"}
Powered == dev \in {"wait", "run", "hung", "halt"}

Selection == INSTANCE TestSelection WITH NoName <- Empty
Registry  == [name |-> NameOf, skip |-> skipMark, match |-> Match]

Command == [tag : {"RUN", "RESUME_AFTER", "ONDONE"}, name : TestNames \cup {Empty}, wake : BOOLEAN]

DeviceInit ==
  /\ dev = "boot" /\ skipMark = SkipMark /\ wake = FALSE
  /\ pending = {} /\ cur = 0
  /\ phase = [t \in Registered |-> "idle"] /\ bad = {}
-----------------------------------------------------------------------------
(* Boot and the READY/RUN exchange.                                        *)

\* run_tests up to the first READY of wait_for_command.
Boot ==
  /\ dev = "boot"
  /\ dev' = "wait" /\ port' = TRUE /\ skipMark' = SkipMark /\ wake' = FALSE
  /\ Emit(<<Msg("READY")>>)
  /\ UNCHANGED <<link, toDevice, pending, cur, phase, bad>>

\* board_init fails: ERROR, then an endless delay loop.
BoardFailure ==
  /\ dev = "boot" /\ "boardfail" \in Outcomes
  /\ dev' = "halt" /\ port' = TRUE
  /\ Emit(<<Msg("ERROR")>>)
  /\ UNCHANGED <<link, toDevice, skipMark, wake, pending, cur, phase, bad>>

\* wait_for_command repeats READY every second while it has no command.
RepeatReady ==
  /\ dev = "wait" /\ toDevice = <<>>
  /\ link = "ok" /\ Msg("READY") \notin {toHost[i] : i \in DOMAIN toHost}
  /\ Emit(<<Msg("READY")>>)
  /\ UNCHANGED <<deviceVars, port, link, toDevice>>

\* A line without a CRC (the on-done command) is discarded and answered by
\* an immediate READY.
RejectLine ==
  /\ dev = "wait" /\ toDevice # <<>> /\ Head(toDevice).tag = "ONDONE"
  /\ toDevice' = Tail(toDevice)
  /\ Emit(<<Msg("READY")>>)
  /\ UNCHANGED <<deviceVars, port, link>>

\* Mutant: the command for the remaining tests carries --wake too.
CarriesWakeAlways(c) == c.name # Empty

CarriesWake(c) == c.wake

\* run_cycle up to context.run(): an unmet require_env sets m_skip, and the
\* environment is only there when the command takes the ARGS; --wake sets a
\* flag that no command takes back.  TEXT stands for all it prints before the
\* first test: the resume and skip messages, ETST:COUNTS, doctest's banner.
TakeCommand ==
  /\ dev = "wait" /\ toDevice # <<>> /\ Head(toDevice).tag # "ONDONE"
  /\ LET c    == Head(toDevice)
         skip == IF Selection!TakesArgs(c) THEN skipMark ELSE skipMark \cup NeedsEnv
     IN  /\ skipMark' = skip
         /\ pending' = Selection!Selected([Registry EXCEPT !.skip = skip], c)
         /\ wake' = (wake \/ CarriesWake(c))
  /\ toDevice' = Tail(toDevice)
  /\ dev' = "run"
  /\ Emit(<<Msg("TEXT")>>)
  /\ UNCHANGED <<port, link, cur, phase, bad>>
-----------------------------------------------------------------------------
(* Executing the selected tests.                                           *)

Idle    == dev = "run" /\ cur = 0
Running == dev = "run" /\ cur # 0

\* context.run() enters the next test; the listener prints CASE:START.
StartTest ==
  /\ Idle
  /\ \E t \in pending :
       /\ \A u \in pending : t <= u
       /\ cur' = t /\ pending' = pending \ {t}
       /\ phase' = [phase EXCEPT ![t] = "running"]
       /\ Emit(<<CaseLine(SuiteOf[t], NameOf[t])>>)
  /\ UNCHANGED <<port, link, toDevice, dev, skipMark, wake, bad>>

EndTest ==
  /\ Running /\ "pass" \in Outcomes
  /\ cur' = 0 /\ phase' = [phase EXCEPT ![cur] = "ended"]
  /\ UNCHANGED <<linkVars, dev, skipMark, wake, pending, bad>>

\* A failed assertion prints "file:line: ERROR:" and the test goes on.
AssertionFails ==
  /\ Running /\ "fail" \in Outcomes /\ cur \notin bad
  /\ bad' = bad \cup {cur}
  /\ Emit(<<Msg("FAIL")>>)
  /\ UNCHANGED <<port, link, toDevice, dev, skipMark, wake, pending, cur, phase>>

\* signal_busy and signal_error: the test goes on.
Announce(tag, outcome) ==
  /\ Running /\ outcome \in Outcomes
  /\ Emit(<<Msg(tag)>>)
  /\ UNCHANGED <<deviceVars, port, link, toDevice>>
SignalBusy  == Announce("BUSY", "busy")
SignalError == Announce("ERROR", "error")

\* Mutant: clear_test_wake is not called.
FinishCycleAwake ==
  /\ Idle /\ pending = {}
  /\ dev' = "wait"
  /\ Emit(<<Msg("DONE"), Msg("READY")>>)
  /\ UNCHANGED <<port, link, toDevice, skipMark, wake, pending, cur, phase, bad>>

\* After the last test: clear_test_wake and signal_done, then idle_loop waits
\* for a command, which begins with a READY.
FinishCycle ==
  /\ Idle /\ pending = {}
  /\ dev' = "wait" /\ wake' = FALSE
  /\ Emit(<<Msg("DONE"), Msg("READY")>>)
  /\ UNCHANGED <<port, link, toDevice, skipMark, pending, cur, phase, bad>>
-----------------------------------------------------------------------------
(* Leaving a test without ending it.                                       *)

\* The test prints lines and the chip is about to go down.
Leave(lines, outcome, to, left) ==
  /\ Running /\ outcome \in Outcomes
  /\ dev' = to /\ phase' = [phase EXCEPT ![cur] = left]
  /\ cur' = 0 /\ pending' = {}
  /\ Emit(lines)
  /\ UNCHANGED <<port, link, toDevice, skipMark, wake, bad>>
SignalSleep   == Leave(<<Msg("SLEEP")>>, "sleep", "powerdown", "slept")
SignalRestart == Leave(<<Msg("RESTART")>>, "restart", "rebooting", "slept")
Crash         == Leave(<<Msg("CRASH"), Msg("TRACE")>>, "crash", "rebooting", "lost")

PowerDown ==
  /\ dev \in {"powerdown", "rebooting"}
  /\ dev' = IF dev = "powerdown" THEN "asleep" ELSE "boot"
  /\ GoDown
  /\ UNCHANGED <<skipMark, wake, pending, cur, phase, bad>>

WakeUp ==
  /\ dev = "asleep" /\ dev' = "boot"
  /\ UNCHANGED <<linkVars, skipMark, wake, pending, cur, phase, bad>>

Hang ==
  /\ Running /\ "hang" \in Outcomes
  /\ dev' = "hung" /\ phase' = [phase EXCEPT ![cur] = "lost"]
  /\ UNCHANGED <<linkVars, skipMark, wake, pending, cur, bad>>

\* A brown-out or watchdog reset that prints nothing the host recognises,
\* or the board is unplugged for good.
Vanish(outcome, to) ==
  /\ Running /\ outcome \in Outcomes
  /\ dev' = to /\ phase' = [phase EXCEPT ![cur] = "lost"]
  /\ cur' = 0 /\ pending' = {}
  /\ GoDown
  /\ UNCHANGED <<skipMark, wake, bad>>
SilentReboot == Vanish("reboot", "boot")
Unplug       == Vanish("drop", "dead")

\* Touching DTR/RTS on open or close resets the chip under an idle device.
ResetOnOpen ==
  /\ dev = "wait" /\ link = "ok" /\ "reset" \in Outcomes
  /\ dev' = "boot"
  /\ GoDown
  /\ UNCHANGED <<skipMark, wake, pending, cur, phase, bad>>
-----------------------------------------------------------------------------
LeaveTest == \/ EndTest \/ SignalSleep \/ SignalRestart \/ Crash
             \/ Hang \/ SilentReboot \/ Unplug

DeviceTypeOK ==
  /\ dev \in DeviceState
  /\ skipMark \subseteq Registered /\ pending \subseteq Registered
  /\ cur \in Registered \cup {0} /\ wake \in BOOLEAN
  /\ phase \in [Registered -> {"idle", "running", "slept", "ended", "lost"}]
  /\ bad \subseteq Registered
  /\ port \in BOOLEAN /\ link \in {"closed", "ok", "broken"}
  /\ toHost \in Seq(Line) /\ toDevice \in Seq(Command)
=============================================================================
