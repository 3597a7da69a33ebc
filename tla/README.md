# pio-test-runner in TLA+

pio-test-runner (`etst`) runs doctest suites on an embedded board from a host.
The host process (`src/src/etst`, Python) opens a serial port, waits for
`ETST:READY`, sends the configuration and a command, and turns what the device
prints into a report. The firmware library (`src/include/etst`, C++) executes
the selected tests; a test may put the chip into deep sleep or restart it, which
ends the program, the connection and often the port, and the host has to pick the
run up again. This directory models that system, checks it with TLC and proves
some of it with TLAPS.

## Inventory

| part | state | operations | modelled in |
|---|---|---|---|
| protocol state machine, `ready_run_protocol.py` | state, current suite and test, sleeping test, completed tests, busy deadline, ARGS | `feed` in each state, `command_sent`, `reset_for_wake`, `reset`, `reset_all` | `ReadyRunProtocol` |
| orchestrated runner, `runner.py` 585-1175 | position of the one thread, cycle kind, command, current chunk, retry counts, test suite, failures, crash detector | `stage_testing`, `_run_test_cycle`, `_on_serial_data`, `_handle_sleep_resume`, the reports | `Runner` |
| serial port, `serial_port.py`, `runner.py` 930-1040 | port node, handle, unread data | open with retries, read, write, close | `SerialLink` |
| device program, `doctest/runner.h`, `test_runner.h` | boot/wait/run/idle, `m_skip` marks, wake flag, tests to run | `run_tests`, `wait_for_command`, `run_cycle`, `idle_loop`, listener, `signal_*` | `Firmware`, `Handshake` |
| test selection, `doctest/runner.h` 226-694, doctest | registry, filters, resume index | `apply_runner_command`, `apply_resume_after`, counts | `TestSelection`, `CommandSession` |
| options, `runner.py` 478-578, `doctest/runner.h` 399-636 | none | `_collect_env_vars`, `_build_args_and_run`, `tokenize_args`, `extract_etst_flags`, `apply_run_filters` | `Arguments`, `CommandSession` |
| line format and CRC, `protocol.py`, `protocol.h` | none | format, parse, validate | `LineFormat`; by effect in `ReadyRunProtocol` (`ok`) and `Handshake` (`crc`) |
| line-callback runner, `runner.py` 189-379, 1197-1220 | as orchestrated, PIO owns the port; time of the last line, plugins | plugin loading, `setup`, `on_testing_line_output`, `teardown` | `LineCallback` |
| `DisconnectHandler`, `TestTimingTracker` | active, count; current test, start, durations | `feed`, `finalize` | `Receivers`, in `LineCallback` |
| `TestResultReceiver` | framework, results, pending failure | `feed`, `drain_results` | `ResultReceiver` |
| robust parser, memory tracker, scripts | text in, text out | | not modelled |

Interaction: the runner calls the protocol object line by line and reads its
state after every chunk; runner and device exchange lines through the serial
link; the device's registry is shared by all cycles of one boot and lost at a
reboot; between boots only the host knows what has been executed.

What is hard about it: the host reads prefixes of what has arrived and looks at
the state once per chunk; deep sleep and restart take the port, the unread
lines and the device's memory away between any two steps; the same exception
means different things in different phases; deadlines race late answers; the
resume point counts registered tests while doctest counts passing ones; several
flags outlive the cycle they belong to (`crash_detector`, `m_skip`, the busy
deadline, `completed_tests`). In line callback mode everything is a consequence of
lines that PlatformIO hands over, silence included; options cross three parsers on
their way to the device.

What makes each part correct: the protocol state only names tests that were
announced; the runner's report is green only if everything selected passed, it
never reports a test as passed that did not, and every run ends; the device runs
the selected tests, each once, with the wake flag set exactly for the sleeper;
the handshake delivers command and configuration whole and once; a resume runs
precisely the remaining tests; a cycle's settings are the options that were given;
a silent test is reported, once, and so is every failure; a damaged line is not taken
for a sound one, and the two programs compute its CRC alike. Where the code falls short
of this, a run or an entry under Known deviations says so.

## Modules

* `ReadyRunProtocol` - the protocol object as a record and its methods as
  operators. `Feed` has one operator per state, as `feed` has one block.
* `TestSelection` - which tests a command selects on a registry. doctest itself
  is external: only the meaning of its filters and of `first` is used.
* `SerialLink` - port, handle, and the unread lines in both directions. With
  `UsbCdc` the port vanishes with the chip and takes unread lines along; without
  it (UART bridge) port and lines stay, until the host closes its handle.
* `Firmware` - the device. The test code is chosen among `Outcomes` at every
  execution: pass, failed assertion, sleep, restart, busy, `signal_error`, crash,
  hang, slow, silent reboot, pulled cable; plus a failing `board_init` and a reset
  under an idle device. A command is answered by a TEXT line, which stands for what is
  printed before the first CASE:START; `--wake` sets the flag, and only the end of a
  cycle or a boot clears it.
* `Runner` - the host thread. `hpc` is its place in `stage_testing` and
  `_run_test_cycle`; each action is one handler or one turn of a loop. An exception is
  a SerialException, which a wake cycle retries, or any other (`RunnerError`), which it
  does not.
* `Orchestration` - `Runner`, `Firmware` and `SerialLink` together, with the
  timing assumptions and the fairness.
* `TestRun` - the abstract specification: selected tests execute one at a time in
  order, may pause and be resumed a bounded number of times, and one report comes
  out that agrees with what happened. `Orchestration` refines it through
  `Abstract` (phases to status, retry counts to resumes, the case set to the report).
* `Handshake` - one READY/ARGS/RUN/DONE exchange line by line over a line that
  damages what it carries. `Orchestration` takes the ARGS and the command as one
  step and does not lose lines; this module is the justification and the limit.
* `Arguments` - how options become ETST:ARGS lines and a command, and settings
  again: pure operators, a pair per side. An argument is a sequence of words, so that
  a blank inside a value is visible to quoting and tokenizing. `Expressible` says which
  options can be given at all.
* `CommandSession` - sequences of commands on one registry without a serial line,
  each built from options and variables by `Arguments` and executed by
  `TestSelection`; the `m_skip` marks live as long as a boot.
* `LineFormat` - one line, byte by byte, from `format_crc` or `emit` to `parse_line`
  and `validate_crc`. A byte is the set of its one-bits, `^` is `SymDiff`. Each program
  has its own loop: `Crc8` is `protocol.py`'s, `DeviceCrc8` is `protocol.h`'s, and the
  `sender` is either. Only the registers of the sender and of both kinds of receiver are
  kept, so lines are of any length.
* `Receivers` - what the runner's router feeds beside the protocol, as operators: the
  external crash detector (`FeedCrash`: a line that matches opens a record, which a later
  line completes), the disconnect handler and the timing tracker. `Runner` and
  `LineCallback` use the same detector.
* `LineCallback` - the runner when PlatformIO owns the port, from the loading of the
  plugins to `teardown`, over a device and a clock. `Hear` is
  `on_testing_line_output`; its three cases are the three ways through it.
  `Driven` says whether somebody calls `command_sent` on READY.
* `ResultReceiver` - `result_receiver.py`, one action per kind of line; the results
  are a bag that is drained at any moment.
* `MC*` - registries and noise sets for TLC.
* `ReadyRunProtocol_proofs` - lemmas about the protocol's methods; used by
  `Orchestration_proofs`, `Handshake_proofs` and `LineCallback_proofs`.
* `Orchestration_proofs` - types and control of the orchestrated run;
  `SleepFlow_proofs`, which extends it - what such a run executes and reports.
* `Handshake_proofs`, `CommandSession_proofs`, `LineCallback_proofs`,
  `LineFormat_proofs`, `ResultReceiver_proofs` - the theorems about the module each
  is named after.

Operators introduced by a comment `Mutant:` are never used by a specification.
Each is a plausible bug in the definition that follows it, kept to show that the
properties notice it.

## State and actions against the code

`hpc` runs `open` (`_open_serial`), `read` (blocked in `read`), `lines` (inside
`_on_serial_data`), `check` (the tests after a read), `drain`/`drained` (waiting for
DONE), `post` (on-done command), `close`; then `top` (the `while` of `stage_testing`),
`wake` (`_handle_sleep_resume`), `resumed`, `final` (the `finally` block), `end`.
`rescue` is the `except` branch that takes a SerialException for a sleeping device.
`kind` tells which caller runs the cycle, because its exceptions end up elsewhere.
`finished` is `_finished_by_runner`, reset by each cycle, and `crash` what the crash
detector has made of the lines (nothing, an open record, triggered), never reset.
`phase` and `bad` are history: what happened to each test on the device; the host cannot
see them.

In `LineCallback`, `quiet` is the time since `_last_line_time`, `limit` the per-test
timeout of the last CASE:START, and `errors` counts the ERRORED cases. `running`,
`failed`, `window`, `again`, `first` and `missed` are the device's side and history. In
`ResultReceiver` the history counts what the lines said: `failures` per test, and in
`earned` the sections with a success and no failure.

Abstractions: a line is its tag, its CRC verdict and the names it carries;
patterns are the sets of tests they match; test counts, durations, error texts,
memory reports and per-test timeouts are left out because no transition here
depends on them. PIO's own doctest parser may add cases to the same suite; the
model is the runner without it, which the runner must cope with by its own
account (`runner.py:1052-1060`).

## Timing assumptions

They are guards in `Orchestration`, each named. `Silent`: a host deadline passes only
while the device is silent for good, or outlasts it deliberately (`slow`, `LateWake`).
`Settled`: over USB, what the device flushes before it announces a sleep, a restart or a
crash is read before the port goes; behind a UART there is no such assumption, and the
lines may wait until after the reboot. `Answered`: READY is not repeated while the host
answers one - what happens otherwise is `Handshake` with `Timely = FALSE`. `Listening`:
the second the runner waits after the on-done command is enough for an idle device.
`WokenUp`: the wait in `_handle_sleep_resume` covers the announced sleep unless
`LateWake`. `PortAbsent`: opening fails for good only when the port stays away. The
drain deadline has no assumption: it may pass at any time.

## Fairness

The host is one thread that never waits without a deadline: weak fairness of its
steps. The drain deadline is compared on every turn of its loop, also when data
keeps coming, but READY lines can disable the abstract timeout over and over:
strong fairness. The device is a loop too: it boots, reads commands, repeats READY,
finishes its cycle and wakes up: weak fairness; a running test eventually ends or
leaves in one of the ways `Outcomes` allows (a hang is one of them). Nothing forces
a test to fail, to announce busy, or a board to fail or reset. The other modules
state safety only: PlatformIO may stop reading whenever it likes, and nothing obliges
a user of the receivers to go on.

## Runs

| run | instance | shows |
|---|---|---|
| `Sleep` | 4 tests, 2 suites, the last `skip()`; pass, fail, sleep, restart; USB | the run is the abstract one (`ImplementsTestRun`); green means passed; failures reported; the host resumes a test that slept; nothing runs again; the wake flag is the sleeper's |
| `Uart` | 2 tests; pass, fail, sleep, `signal_error`, slower than the hang deadline; UART bridge; one resume per test; fair | the same sleep flow when lines printed before a sleep are still unread after it, and every run ends |
| `Faults` | 3 tests; fail, crash, hang, busy, failing board; USB | no false PASSED, no lost failure |
| `Breakage` | 3 tests, a filter that leaves out the second, the third `skip()`; sleep past the announced time, restart, hang, crash, silent reboot, reset, pulled cable, failing board, busy; USB; two resumes per test; fair | every run ends; the excluded test is entered by RESUME_AFTER only, the skipped one never |
| `Handshake` | 3 ARGS lines, up to 4 damaged READY or command lines; fair | one execution, command repeated only when lost, the exchange completes |
| `Session` | 3 tests, two of one name; pairs of options, `ETST_CASE` and `ETST_SKIP_CASE`, a host variable, a resume point | doctest runs by what was asked for; what RESUME_AFTER selects; what COUNTS announces |
| `LineCallback` | 2 tests, one annotated; 7 lines, 4 ticks; READY and the disconnect markers may be damaged; 3 plugins, one broken, one raising; `Driven` | at most one diagnosis, silence noticed, failures reported at DONE, time accounted for, plugins served |
| `ResultReceiver` | 2 names, 7 lines, either framework | each failing line is one failing result, each pass is earned |
| `LineFormat` | 2 characters, either sender, damage of 1, 2 or 7 bits, up to 2 damaged bytes, any length | sound lines pass the other program's check; one damaged byte, or an odd number of bits, is noticed |
| `SkipBeforeSleep` | a skipped test before the sleeper | violates `GreenMeansPassed` |
| `RebootLivelock` | silent reboot in a test, UART | violates `Terminates` |
| `SilentHang` | `LineCallback` without `Driven` | violates `SilenceDetected` |

`PROJECT.json` quotes, for each of the last three, the line of the repository it
disagrees with. Properties with a condition leave out a case in which the code does
something else; each such case is under Known deviations with the instance that shows
it. `FiltersHold` says which cycles keep the filters, not that all do; `CountsTold` and
`OptionsArrive` speak of filters given once (README.md:135 advises against repeating
them); `CountsTold` also says what a cycle without tests announces.

Bounds. Two to four tests give a test before, at, between and behind the resume points,
two sleepers in a row, and a suite change; `MaxSleepRetries = 3` is the code's own
constant, and a test can use it up; `Uart` takes 1 and `Breakage` 2, which keeps these
runs short and still has a sleep, a resume and a give-up. `MaxInFlight` bounds the
unread lines: 3 or 4 lets a CASE:START, a failure and a SLEEP, or DONE and READY, be
read in one chunk or in several, which is what the order of the tests after a read
depends on; the device waits when it is reached, as it does on a full buffer. `MaxNoise
= 4` allows READY and command to be damaged in turn twice; `MaxRuns = 2` is enough to
see a second execution. Two options and two variables are the least that can be shifted
onto each other or reordered. Seven lines are READY, two tests, a failure or a pair of
markers and DONE, or a reboot and the READY after it; four ticks let either test outlast
its limit (1, or 2 where annotated). Seven lines of framework output hold three test
sections. The registers of `LineFormat` have finitely many values, so its run covers
every length; two damaged bytes are the first case in which damage can cancel out.
`LineCallback`, `ResultReceiver` and `LineFormat` stop at their bounds, and their cfg
files switch the deadlock check off. There are no state constraints. `Orchestration`
stops at `hpc = "end"`: `Terminated` stutters there, so a deadlock anywhere else would
be reported.

## Proofs

The theorems hold for every value of the constants and use only the named
assumptions on them, all of which TLC evaluates in the runs.

`Orchestration_proofs` (`EmptyAssumption`, `LinkAssumption`, `RetryAssumption`,
`FirmwareAssumption`): every registry, set of outcomes, kind of port and bound.

* `TypeCorrect`: `Spec => []TypeOK`. `TypeOK` is inductive by itself. One lemma
  for the host and one for the device with a step per action, on top of lemmas
  about the operators: `CaseStartType`, `FeedType`, `MethodType` (the protocol
  methods), `SplitType` (a read), `EmitType`, `GoDownType`, `SelectedRegistered`
  (a command selects registered tests), `SerialExceptionType`.
* `RescueIsDead`: the branch at `runner.py:646` is never taken. `RescueUnreached`
  alone is not inductive: a port lost in `read` with a protocol in SLEEPING would enter
  the branch. `HostControl` adds that a read is only ever started in WAITING_FOR_READY or
  RUNNING (`ReadsUnanswering`); RUNNING leaves by `break`. The comment at `runner.py:648`
  calls the branch the expected path (Known deviations).

`SleepFlow_proofs` (the assumptions above and `DiagnosticAssumption`: the names the
runner files its own errors under are not empty): any number of tests, any bound on the
lines in flight and on the resumes, any division of the lines into reads. These
properties are false of some instances, so each theorem names those it is about, and
below is what TLC finds without each hypothesis.

The difficulty is the distance: what the host does now rests on lines the device
printed several reads, and perhaps a reboot, ago. The invariants therefore speak of
`Flight`, the lines the host has still to handle, whether read or not, and of
`Current(proto, Flight, i, t)`: when the host comes to line i, the protocol names test
t. A read moves lines within `Flight`, handling one takes its head, the device only
appends to it or, with USB, cuts it off.

* The base is `IInv`: the types, `HostControl` and `Flow`. `Flow` says for each
  position of the host and state of the device which lines can be on their way, and
  how far the tests can be: while the host may still send its command the device has
  none and the tests of that command are untouched (`Asked`, `Buffers`); while the
  device executes the host listens, and behind everything in flight comes the test
  executing (`Executing`); a READY in mid-run is preceded by what tells it from a lost
  command (`SentOnce`); a sleep is the last line, and of a test that slept (`Resting`).
  About 45 lemmas, one per action of either side, show it inductive under `Orderly`.
* `RightTestResumed`, `NothingReexecuted`, `WakeFlagTrue` follow from `IInv`
  (`Orderly`).
* `FiltersKept`, with `Filtered`: marks only grow within a boot and are those of the
  source after one; what is pending has come through them, and through the filters unless
  the command is a RESUME_AFTER.
* `EveryFailureReported`, with `FailLines` and `FailCases`: a failed assertion is on
  its way behind its own test, or noted under it, or in the report. No line that makes
  the host stop listening comes before it.
* `GreenIsPassed`, with `Endings` and `Whole`: the host stops listening only after DONE,
  after a sleep, or with an error in the report that `_ensure_test_results` keeps; tests
  begin in order; when a command is on its way or executed, every wanted test that it
  passes over has ended; behind a DONE, every wanted test the command reaches.
* `PassedIsPassed`, with `Earned`: only tests that have begun are announced or recorded;
  one that is lost is in the report, or its CRASH is in flight behind its own name, or
  the device is silent (but for READYs) and the host, still listening, knows it by name.

Hypotheses, and the deviation behind each. `Orderly` is four of them: `UniqueNames`;
`Attended`, no `slow` and no `error` (the host stops waiting for a device that goes on);
`CrashesLast`, no crash in a run with sleeps (`crash_detector` stays triggered);
`ResetsNoticed`, no reset of an idle device behind a UART bridge (the host never
notices). `slow` and `error` break the sleep flow only together with late wake-ups over
USB, so `Attended` excludes more than the deviation there. `NothingLost`: with USB, no
disconnect under a test or an idle device. `Suited`: every test has a suite.
`Resumable`: no missing variable and no skipped test before a wanted one, or no sleep at
all; a skipped test behind the last sleeper does no harm, so this is sufficient and not
necessary. `Awake`: no sleep; the error of an endless sleep is under the bare name.
`NoFailedBoot`: a board that resets under a test comes up again; otherwise its ERROR is
reported as `device_error` and the test that was lost is PASSED. `Sleep` is an instance
of the hypotheses of all of them but `PassedIsPassed`, `Faults` of all.

`Handshake_proofs` (`HandshakeAssumption`, `EmptyAssumption`): any number of ETST:ARGS
lines, damaged READYs and damaged commands, any bound on the lines in flight and any
prefix of them read at once. `TypeCorrect` and `OnlyTheHeadIsLost` hold of every
instance, damaged ETST:ARGS lines and a READY that crosses the command included. The
other two assume `Quiet`: `Timely`, and `Fragile` holding at most the command; without
either they are false (Known deviations).

* `OnlyTheHeadIsLost`: a damaged ETST:ARGS line is dropped and, with it, what the device
  held before (`runner.h:770`); so an execution lacks the first lines of one answer or
  none. The invariant `Stream` says that whole answers follow one another on their way,
  and that what the device holds is a stretch of one answer that the next line to arrive
  goes on with.
* `CycleExecutedOnce`, `LostCommandsOnly`: one invariant, `Delivery`.
  Until the command has been executed, the exchange is `Idle` (at most
  one READY on its way), `Asked` (the host has read it), `Sending` or `Sent`, and in
  the last two the lines the device holds and those on their way are 1, 2, 3 and so on
  up to what has been sent. Afterwards no READY comes before the DONE. `ExecutedOnce`
  alone is not inductive: a second command on its way is a second execution, and that
  there is none follows from there being only one READY. Lemmas `Taken`, `Split` and
  `Joined` say what feeding, reading and writing do to the lines; then one lemma per
  action.

`LineFormat_proofs` (`FormatAssumption`): every alphabet of ASCII characters, every
kind of damage and any length.

* `OneByte`: one turn of the register is injective (`ShiftInjective`: the bit shifted
  out returns as bit 0, so nothing is lost), hence so is a byte (`Crc8Injective`), and
  different bytes leave different registers (`Crc8Distinguishes`). The invariant
  `IInv` says that the receivers' registers equal the sender's until the first hit
  and differ from it between the first and the second, for the host as long as what
  arrived is ASCII. `TypeCorrect` is its base.
* `CleanLines`, its first half, is about two programs: `protocol.py` shifts and masks,
  `protocol.h` assigns an `int` to eight bits. `SameShift` compares one turn, `SameCrc8` a byte,
  `TransferRegisters` the registers behind it.
* `OddDamage`: the polynomial has an even number of terms, so a turn of the register
  keeps its parity (`Parities`: a receiver's register differs from the sender's by an
  even number of bits exactly when an even number has been damaged). Equal registers
  then mean even damage, however many bytes were hit.

`ResultReceiver_proofs` (`NamesAssumption`):

* `NoFailureLost`, `NoPassInvented`: `FailuresKept` is inductive once the types are
  known. `PassesEarned` is not: whether a pass will be recorded depends on the flags.
  `Sectioned` adds that they say what the lines since the last header said, and that
  no test is in force before the framework is known.

`LineCallback_proofs` (`LineCallbackAssumption`, `EmptyAssumption`): any tests,
plugins, timeouts, damage, driven or not. The tests are finitely many, as the
firmware's registry is; only `NoTimeLost` uses that.

* `EveryPluginServed`: `Served`, what each loop owes the plugins it has still to
  visit.
* `AtMostOneDiagnosis`: `Diagnosed`: an error leaves the runner finished, or teardown
  done. That finished runners hear nothing and skip teardown's check then bounds it.
* `EveryFailureAtDone`: `Followed` ties the two sides together: while the protocol is
  RUNNING and the device runs a test, the protocol names that test, and the failed
  tests are among those tracked. A lemma per kind of line shows what `Feed` does to it
  (`FeedEffect`, `CaseEffect`, `CommandSentEffect`); reboots and repeated READYs are
  the steps for which the invariant needs its conditions.
* `SilenceNoticed`: `Spec => [](started => SilenceDetected)`, `Driven` or not. What makes
  it true is `Watched` on top of `Followed`: while the host follows a test, the hang check is
  armed with that test's own timeout. If the host is `Driven`, `started` follows from the
  first line after the command; if not, it never becomes true, and that is the second
  theorem:
* `UndrivenNeverHangs`: nobody calls `command_sent`, so the protocol never becomes RUNNING
  and the condition of the hang check never holds. `SilentHang` shows the consequence.
* `NoTimeLost`: `Timed` says of the tests to come that they have neither a duration nor
  the timer, and of the timer's test that it has no duration yet. A CASE:START
  therefore never replaces a duration, and what the timer gives up is what the sum
  gains (`SumsRaised`).

`CommandSession_proofs` (`SessionAssumption`, `RequestsAssumption`): any
registry, options and history of cycles.

* `CountsAreTold` and `ResumeIsExact`. doctest runs by the last value of a filter
  (`InForce`, `LastPattern`) while the count takes all of them (`Delivered`); where no
  filter has two values the two agree (`OnceInForce`, `CountIsTold`). Both rest on
  doctest's numbering of the tests that pass, a bijection onto 1 .. their number
  (`NumberBijection`); `first` cuts that numbering off, and after a resume point that
  leaves out exactly the tests up to it (`RestRuns`). The numbering grows from test to
  test, so nothing is by induction; that some passing test comes first is a
  least-element argument (`WFMin`).
* `OptionsAlwaysArrive`, for any number of options with values of any length. What is
  on its way is always the text of some list of options. `OptionsRead`: tokens that
  are the arguments of a list of options are read as these mean it. An option appended
  to the list changes the reading of no token before it, because an option never ends
  in a flag that waits for a value (`Closed`; `TakesMore`, `HasValueMore` and a lemma
  per setting). `OptionsSent`, `WholeSent`, `VariablesSent` and `EnvOptionsFacts`: the
  program arguments, given apart or whole, the variables and the environment each become
  text whose tokens are again the arguments of a list of options, quoting included
  (`TokensOfText`). `FiltersSent` and `RunDelivers` put these lists in the order they
  are sent in, `MeantAsAsked` compares them with `Asked`; that a later option adds to,
  follows or overrides an earlier one is `ValuesConcat`, `SkipsConcat` and `EnvConcat`.

`RequestsAssumption` says what can be expressed at all: no value begins with a flag,
`--env` and the host's variables set a known key with one word, an option given whole has
a value without blanks. Beyond it the options do not arrive (Known deviations).

`NoTimeLost` and `OptionsAlwaysArrive` are about recursive functions over data, the folds
of the community modules. The library's induction theorems take an operator as
a parameter and cannot be instantiated here, so the induction is about a set: if the
numbers, finite subsets or sequences for which a fact holds were not all, there would be
a least one outside (`EveryNumber`, `AllSubsets`, `EverySeq`). `FlatExists` and
`SumsExist` then show that the folds' recursive functions exist.

Only model-checked: `Terminates` and `Completes`, since liveness under fairness is outside
what the proof system can do, and the refinement `ImplementsTestRun`.

## Known deviations beyond the runs

Most can be reproduced by changing the constants of a run and checking the property
named, as the item says. `OnlySelected`, `EndedByDone`, `ArgsIntact`, `CountsExact`,
`EnvForwarded` and `WindowExtendsTimeouts` are stated beside the other properties of
their modules for that purpose and belong to no run.

Orchestrated mode and handshake:

* README.md:7 says the runner "Reconnects automatically after deep sleep, restart, or
  USB disconnect". When a read fails while RUNNING the loop ends, the drain fails
  again and the cycle is over (`runner.py:683`): no reconnect, no error case, and the
  interrupted test PASSED. `Faults` with 2 tests and outcomes pass, reboot:
  `EndedByDone` fails.
* The `except` branch that resumes a device lost in deep sleep (`runner.py:646`) is dead:
  the comment at `runner.py:648` calls it "Expected - USB-CDC disconnects during deep
  sleep", but a lost port in RUNNING leaves the read loop by `break` and raises nothing.
  `RescueIsDead` proves it. Sleeping tests are resumed all the same, because SLEEP is
  heard before the port goes.
* Filters after a sleep: `_extract_filters` finds nothing in a bare RUN, and RESUME_AFTER
  takes no ARGS (`runner.py:602`, `runner.h:807`). `Sleep` with `Match <- FirstTwo`,
  outcomes pass, sleep: `OnlySelected` fails.
* A damaged ETST:ARGS line: the device forgets the ARGS before it, asks again
  (`runner.h:770`) and executes the command, which is intact, without them. `Handshake`
  with `Fragile <- AllLines`: `ArgsIntact` fails, and so do `ExecutedOnce` and
  `ResentOnlyIfLost`, when that READY crosses the command. `OnlyTheHeadIsLost` says what
  can be missing.
* The on-done command is written without a CRC (`runner.py:801`) and the device
  discards it (`runner.h:748`): in `Handshake` `dev = "asleep"` is never reached, though
  README.md:241 describes what the device does on `sleep` and `restart`.
* `require_env` after a sleep: `NeedsEnv` all tests, outcomes pass and sleep: the
  RESUME_AFTER cycle ignores the ARGS lines (`runner.h:815`), skips these tests, and
  `GreenMeansPassed` fails. README.md:253 promises the values in every cycle.
* A crash in a wake cycle leaves `crash_detector` triggered; in later cycles the lines
  behind the first of a chunk are dropped (`runner.py:839`). When one is a CASE:START, the
  SLEEP behind it names no test, and the wake cycle that follows sends `--tc ""` and runs
  everything again: `Sleep` with 2 tests and outcomes pass, sleep, crash violates
  `RightSleeper` and `NoReexecution`.
* The error of an infinite sleep loop is filed under the bare test name: with 2
  tests and pass, sleep, `NoFalsePass` fails, since `S1/alpha` is added as PASSED.
* A test outside a suite: with `FirstBare` a failure or hang of the first test is
  filed as "unknown" (`current_test_full` is empty without a suite) and the test
  is PASSED under its own name (`NoFalsePass`); with `LastBare` the test is
  reported under the suite before it (`FailuresReported`).
* The same test name in two suites (`SharedNames`, `MixedSuites`): wake cycle and
  RESUME_AFTER identify tests by bare name, `NoReexecution` and
  `WakeFlagMeansSlept` fail.
* Failures seen in a cycle that ends by a hang or `signal_error` without a later
  DONE are not reported; the test only lacks its PASSED entry. `FailuresReported`
  says so by its condition, and is not checked with `error` among the outcomes.
* A test slower than the hang deadline, or one that goes on after `signal_error`:
  the host stops waiting while the device executes. A test whose CASE:START is
  seen while draining is PASSED though it has not ended (`Faults` with `slow` or
  `error`: `NoFalsePass`), and after a wake cycle the RESUME_AFTER cycle begins on
  top of it; the READY that answers the rejected on-done command then passes for a
  lost command (`Breakage` with outcomes pass, sleep and `slow` or `error`:
  `NoReexecution`).
* `Handshake` with `Timely = FALSE`, no noise: a READY that crosses the command is
  taken for a lost command (`ready_run_protocol.py:106`) and the cycle runs twice
  (`ExecutedOnce`, `ResentOnlyIfLost`).
* COUNTS "now reflects" the filters (CHANGELOG.md:85). A RESUME_AFTER behind the last test
  announces every test as to be run (`runner.h:838`), and of a filter given twice the count
  adds up the values (`runner.h:607`) while doctest runs by the last (README.md:135):
  `Session` with `CountsExact`.
* The variables are not "forwarded on every cycle" (README.md:250): a RESUME_AFTER takes no
  ARGS (`runner.h:815`). `Session` with `EnvForwarded`.
* `m_skip` set by a missing variable stays set for the rest of
  the boot (`runner.h:378`), so a later cycle that sets it still skips the test.

Options (`Arguments`; found while translating, outside what is `Expressible`):

* A value that begins with `--` counts as a flag (`runner.py:531`): it is not quoted, and
  the filter before it has no pattern.
* An `--env` value with a blank is not quoted and arrives cut at the blank
  (`runner.py:520`).
* A bare pattern is one only when it is the single token of the command
  (`runner.h:589`), counted before the `--env` pairs are taken out: with any `--env` it
  is lost. With a resume point it becomes part of the name.
* `--env` without `=` is dropped silently by the host; the device signals an error and
  drops all remaining arguments, filters included (`runner.h:419`).
* One program argument such as `--tc foo bar` is not quoted; one that holds
  `--env A=1` is not recognised as a variable by the host and so loses its place
  behind the host's environment.
* A filter given twice counts by its last value only, as README.md:135 warns;
  `runner.h:579` says that multiple instances are handled.

Line callback mode:

* Without `Driven` the protocol stays READY: no hang check, no report at DONE
  (`SilentHang`). The override does not call the base class, so PlatformIO's own
  result parser sees nothing either.
* `disconnect.py:25` says that the runner checks `active` "to decide whether to suppress
  output or extend timeouts". It never extends one, and only the orchestrated mode
  suppresses output: `LineCallback` with `WindowExtendsTimeouts`.
* After SLEEP nothing calls `reset_for_wake` in this mode, and the protocol stays
  SLEEPING; `SilenceDetected` leaves that case out. The hang check, once started, stays
  active after DONE.
* A hung device that prints nothing more is only noticed in `teardown`, by the crash
  detector's timer. Failures before a crash and after DONE are never FAILED.
* `finalize` of the timing tracker is called by `_print_summary`, which only the
  orchestrated mode reaches: the last test has no duration. The time of a test without
  a suite is attributed to the test before it, and a second execution replaces the
  first duration (`again` leaves it out).

Result receiver: doctest prints `ERROR:` for a failed check, the receiver looks for
`FAILED:` (`runner.py:1057` looks for the former), so a failing test with a success line is
a pass; draining before the summary lets it add "all tests"; Unity's IGNORE counts as
not passed; after the summary nothing is read, so a second cycle's results are lost.

Line format: the CRC is called CRC-8/MAXIM (`protocol.py:53`, `protocol.h:48`) but is
not bit-reflected; both ends agree on it. A byte that is no longer ASCII is replaced
before the host computes the CRC, and two of them may go unnoticed for that reason
alone; a line whose suffix is lost counts as a line without CRC and is accepted
(`protocol.py:132`). Hence the conditions `ascii` and `suffix = sent`.

## Not modelled

Glob matching, comma lists and payload syntax; PlatformIO's own parser and with it
`robust_doctest_parser.py`, which only guards it; the router and the memory tracker
(an external package); `_build_initial_command` and `_restart_device`, which no code of
the runner calls; `ETST_ON_DONE=none`; the device's LIST command, the commands of
`idle_loop` other than RUN and RESTART, and its standalone start after
`ready_timeout_ms` in `Orchestration` (`LineCallback` lets the device start unasked);
bytes lost, inserted or turned into line breaks; truncation at `MAX_LINE_LEN`;
wrap-around of `millis()`; receiver and release scripts.

## Plan

Done: the modules above, in this order - protocol, selection, link, firmware,
runner, their composition with its abstract specification, handshake, session,
proofs of type correctness and control; then the line format, the receivers and line
callback mode, the result receiver, the options, each with its proofs where they
are in reach.

1. Proofs: weaker hypotheses for `GreenIsPassed` and for the sleep flow (`slow` and
   `error` without late wake-ups); the refinement as a theorem, once the abstract run
   knows crashes and lost tests.
2. Firmware: the standalone start after `ready_timeout_ms` racing a late command,
   SLEEP in `idle_loop`; an initial `ETST_RESUME_AFTER`; on-done with a valid CRC as a
   counterfactual for the retry that sends it in mid-run.
3. The reaction of the host to a malformed `--env` (an ERROR while the device goes on
   to run everything).
