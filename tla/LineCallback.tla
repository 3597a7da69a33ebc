---------------------------- MODULE LineCallback ----------------------------
(***************************************************************************)
(* EmbeddedTestRunner in line callback mode: PlatformIO owns the port and  *)
(* hands every line to on_testing_line_output; the runner only watches.    *)
(* From the loading of the receiver plugins to teardown, over a device     *)
(* that goes through its tests, may crash, fall asleep or fall silent.     *)
(* phase is where PlatformIO stands:                                       *)
(*   load      __init__, attaching the plugins one by one                  *)
(*   start     setup, notifying them           complete  teardown, likewise *)
(*   lines     the test run                    end       teardown done     *)
(* Nothing in the runner calls command_sent in this mode; the tests'       *)
(* feed_session does it for it.  Driven says whether somebody does.        *)
(* Abstractions: ERRORED cases are counted, FAILED ones are a set; the     *)
(* memory tracker and the plugins' own feed are left out.                  *)
(***************************************************************************)
EXTENDS Receivers, FiniteSetsExt

CONSTANTS Driven,        \* command_sent is called when the device is ready
          Tests,         \* <<suite, name>> of the device's tests
          HangTimeout,   \* configure_hang_timeout, in ticks
          Annotated,     \* the tests with doctest::timeout, and its value
          Fragile,       \* the tags of lines that may arrive damaged
          MaxTime, MaxLines,  \* bounds on the ticks and lines of a run
          Plugins,       \* entry points of embedded_test_runner.receivers
          Broken,        \* those that cannot be loaded, built or fed
          Raising        \* those whose lifecycle hooks raise

ASSUME LineCallbackAssumption ==
  /\ Driven \in BOOLEAN /\ Tests \subseteq SuiteNames \X TestNames
  /\ IsFiniteSet(Tests)
  /\ HangTimeout \in Nat /\ Annotated \in [Tests -> Nat]
  /\ MaxTime \in Nat /\ MaxLines \in Nat
  /\ Broken \subseteq Plugins /\ Raising \subseteq Plugins

VARIABLES
  phase, todo,            \* position; the plugins its loop has still to visit
  attached, told,         \* _plugin_receivers; history: the hooks that were called
  proto, disc, timing,    \* protocol, disconnect_handler, timing_tracker
  limit,                  \* protocol.current_test_timeout
  quiet, heard, started,  \* since _last_line_time, if > 0; _line_mode_test_started
  crash,                  \* crash_detector: what it has made of the lines
  errors, failures, reported,  \* ERRORED cases; _test_failures; FAILED cases
  finished,               \* _finished_by_runner
  dev,                    \* the device: boot, ready, run or idle
  running, window,        \* its current test; whether it announced a disconnect
  failed, left, now,      \* history: its failed tests, those to come, the time,
  first, again,           \* the time of the first test, a second round,
  lines, missed           \* the lines, a silence gone unnoticed

hostVars == <<proto, disc, timing, limit, quiet, heard, started, crash, errors,
              failures, reported, finished>>
devVars  == <<dev, running, window, failed, left, again>>
vars == <<phase, todo, attached, told, hostVars, devVars, now, first, lines, missed>>

Init ==
  /\ phase = "load" /\ todo = Plugins /\ attached = {} /\ told = {}
  /\ proto = NewProtocol /\ disc = NewDisconnect /\ timing = NewTiming /\ limit = 0
  /\ quiet = 0 /\ heard = FALSE /\ started = FALSE /\ crash = "none"
  /\ errors = 0 /\ failures = {} /\ reported = {} /\ finished = FALSE
  /\ dev = "boot" /\ running = Unnamed /\ window = FALSE /\ failed = {} /\ left = Tests
  /\ now = 0 /\ first = 0 /\ lines = 0
  /\ again = FALSE /\ missed = FALSE
-----------------------------------------------------------------------------
(* Plugins and lifecycle.                                                  *)

\* _load_receiver_plugins: one that fails is logged and skipped.
LoadPlugin ==
  /\ phase = "load"
  /\ \E p \in todo :
       todo' = todo \ {p} /\ attached' = IF p \in Broken THEN attached ELSE attached \cup {p}
  /\ UNCHANGED <<phase, told, hostVars, devVars, now, first, lines, missed>>

\* Mutant: an exception in a hook ends the loop.
NotifyPluginUncaught ==
  /\ phase \in {"start", "complete"}
  /\ \E p \in todo :
       told' = told \cup {<<p, phase>>} /\ todo' = IF p \in Raising THEN {} ELSE todo \ {p}
  /\ UNCHANGED <<phase, attached, hostVars, devVars, now, first, lines, missed>>

\* _notify_plugins: an exception in a hook is logged.
NotifyPlugin ==
  /\ phase \in {"start", "complete"}
  /\ \E p \in todo : told' = told \cup {<<p, phase>>} /\ todo' = todo \ {p}
  /\ UNCHANGED <<phase, attached, hostVars, devVars, now, first, lines, missed>>

Setup ==
  /\ phase = "load" /\ todo = {} /\ phase' = "start" /\ todo' = attached
  /\ UNCHANGED <<attached, told, hostVars, devVars, now, first, lines, missed>>

StartTesting ==
  /\ phase = "start" /\ todo = {} /\ phase' = "lines"
  /\ UNCHANGED <<todo, attached, told, hostVars, devVars, now, first, lines, missed>>

\* PlatformIO stops reading whenever it likes.
Teardown ==
  /\ phase = "lines" /\ phase' = "complete" /\ todo' = attached
  /\ UNCHANGED <<attached, told, hostVars, devVars, now, first, lines, missed>>

\* Mutant: the check is made whatever has been reported.
TeardownCheckAlways ==
  /\ phase = "complete" /\ todo = {} /\ phase' = "end"
  /\ \E silent \in BOOLEAN :
       /\ crash' = IF silent \/ crash = "pending" THEN "triggered" ELSE crash
       /\ errors' = errors + (IF crash' = "triggered" THEN 1 ELSE 0)
  /\ UNCHANGED <<todo, attached, told, proto, disc, timing, limit, quiet, heard,
                 started, failures, reported, finished, devVars, now, first, lines, missed>>

\* The rest of teardown: check_timeout triggers on a crash not yet complete
\* and on silence, by a timer of its own.
TeardownCheck ==
  /\ phase = "complete" /\ todo = {} /\ phase' = "end"
  /\ IF finished THEN UNCHANGED <<crash, errors>>
     ELSE \E silent \in BOOLEAN :
            /\ crash' = IF silent \/ crash = "pending" THEN "triggered" ELSE crash
            /\ errors' = errors + (IF crash' = "triggered" THEN 1 ELSE 0)
  /\ UNCHANGED <<todo, attached, told, proto, disc, timing, limit, quiet, heard,
                 started, failures, reported, finished, devVars, now, first, lines, missed>>
-----------------------------------------------------------------------------
(* on_testing_line_output.                                                 *)

\* Mutant: the annotation comes on top of the default.
EffectiveTimeoutAdded == HangTimeout + limit

EffectiveTimeout == IF limit > 0 THEN limit ELSE HangTimeout

Hang == started /\ heard /\ ~proto.busy /\ quiet > EffectiveTimeout

FullNameOr(p, other) == IF CurrentTestFull(p) = Unnamed THEN other ELSE CurrentTestFull(p)
UnknownTest == <<Empty, Empty>>

\* _check_assertion_failure comes last: after a crash has been reported too.
Tracked(p, line) ==
  IF line.tag = "FAIL" THEN failures \cup {FullNameOr(p, UnknownTest)} ELSE failures

\* Mutant: what the DONE line finds is not reported.
ReportAtDoneNot(p, tracked) == reported

\* _report_test_failures, on the line that makes the protocol FINISHED.
ReportAtDone(p, tracked) ==
  IF p.state = "FINISHED" /\ proto.state # "FINISHED" THEN reported \cup tracked ELSE reported

LimitOf(line) == IF line.name = Empty THEN 0 ELSE Annotated[<<line.suite, line.name>>]

\* Once it has finished the suite, the runner ignores every line.
HearNothing == finished /\ UNCHANGED hostVars

HearHang ==
  /\ ~finished /\ Hang /\ errors' = errors + 1 /\ finished' = TRUE
  /\ UNCHANGED <<proto, disc, timing, limit, quiet, heard, started, crash, failures, reported>>

HearLine(line) ==
  /\ ~finished /\ ~Hang
  /\ LET p == Feed(proto, line)
     IN  /\ proto' = IF Driven THEN CommandSent(p) ELSE p
         /\ disc' = FeedDisconnect(disc, line) /\ timing' = FeedTiming(timing, line)
         /\ limit' = IF proto.state = "RUNNING" /\ line.ok /\ line.tag = "CASE"
                     THEN LimitOf(line) ELSE limit
         /\ quiet' = 0 /\ heard' = TRUE
         /\ started' = (started \/ p.state = "RUNNING")
         /\ crash' \in FeedCrash(crash, line)
         /\ errors' = errors + (IF crash' = "triggered" THEN 1 ELSE 0)
         /\ finished' = (crash' = "triggered")
         /\ failures' = Tracked(p, line)
         /\ reported' = ReportAtDone(p, failures')

Hear(line) == HearNothing \/ HearHang \/ HearLine(line)
-----------------------------------------------------------------------------
(* The device, line by line, and time.                                     *)

Arriving(tag) ==
  {Msg(tag)} \cup (IF tag \in Fragile THEN {[Msg(tag) EXCEPT !.ok = FALSE]} ELSE {})

\* The running test has printed nothing for longer than it may; in the cycle
\* of a sleep the protocol follows no test.
Silent ==
  /\ running # Unnamed /\ proto.state # "SLEEPING" /\ ~proto.busy
  /\ quiet > (IF Annotated[running] > 0 THEN Annotated[running] ELSE HangTimeout)

\* A line arrives, and the silence of a test before it is noticed or missed.
Say(line) ==
  /\ phase = "lines" /\ lines < MaxLines /\ lines' = lines + 1 /\ Hear(line)
  /\ missed' = (missed \/ (Silent /\ ~finished'))
  /\ UNCHANGED <<phase, todo, attached, told, now>>

\* The device starts its tests when it is sent a command; unasked, some time
\* after READY (ready_timeout_ms), as it does after every reboot.
SayReady ==
  /\ dev \in {"boot", "ready"} /\ \E line \in Arriving("READY") : Say(line)
  /\ dev' \in CASE Driven /\ proto'.state = "WAITING_FOR_READY" -> {"ready"}
                [] Driven /\ proto.state = "WAITING_FOR_READY" /\ proto'.state = "RUNNING" -> {"run"}
                [] OTHER -> {"ready", "run"}
  /\ left' = IF dev' = "run" THEN Tests ELSE left
  /\ again' = (again \/ left' # left)
  /\ UNCHANGED <<running, window, failed, first>>

SayCase ==
  /\ dev = "run" /\ \E t \in left :
       Say(CaseLine(t[1], t[2])) /\ running' = t /\ left' = left \ {t}
  /\ first' = IF left = Tests THEN now ELSE first
  /\ UNCHANGED <<dev, window, failed, again>>

SayText ==
  /\ Say(Msg("TEXT")) /\ UNCHANGED <<devVars, first>>

\* The end of the panic dump, printed by the boot that follows.
SayTrace ==
  /\ dev = "boot" /\ Say(Msg("TRACE")) /\ UNCHANGED <<devVars, first>>

SayBusy ==
  /\ running # Unnamed /\ \E line \in Arriving("BUSY") : Say(line)
  /\ UNCHANGED <<devVars, first>>

SayFailure ==
  /\ running # Unnamed /\ Say(Msg("FAIL")) /\ failed' = failed \cup {running}
  /\ UNCHANGED <<dev, running, window, left, first, again>>

SayDisconnect ==
  /\ running # Unnamed /\ window' = TRUE
  /\ \E line \in Arriving("DISCONNECT") : Say(line)
  /\ UNCHANGED <<dev, running, failed, left, first, again>>

SayReconnect ==
  /\ window /\ window' = FALSE
  /\ \E line \in Arriving("RECONNECT") : Say(line)
  /\ UNCHANGED <<dev, running, failed, left, first, again>>

\* A panic or a sleep in a test, and the boot that follows; a window still
\* open is torn.
SayReboot ==
  /\ running # Unnamed /\ \E tag \in {"CRASH", "SLEEP"} : Say(Msg(tag))
  /\ dev' = "boot" /\ running' = Unnamed /\ window' = FALSE
  /\ UNCHANGED <<failed, left, first, again>>

SayDone ==
  /\ dev = "run" /\ Say(Msg("DONE")) /\ dev' = "idle" /\ running' = Unnamed
  /\ UNCHANGED <<window, failed, left, first, again>>

Tick ==
  /\ phase = "lines" /\ now < MaxTime /\ now' = now + 1
  /\ quiet' = (IF heard THEN quiet + 1 ELSE quiet) /\ timing' = TickTiming(timing)
  /\ proto' \in {proto, BusyExpired(proto)}
  /\ UNCHANGED <<phase, todo, attached, told, disc, limit, heard, started, crash, errors,
                 failures, reported, finished, devVars, first, lines, missed>>

Next ==
  \/ LoadPlugin \/ NotifyPlugin \/ Setup \/ StartTesting \/ Teardown \/ TeardownCheck
  \/ SayReady \/ SayCase \/ SayText \/ SayTrace \/ SayBusy \/ SayFailure
  \/ SayDisconnect \/ SayReconnect \/ SayReboot \/ SayDone \/ Tick

Spec == Init /\ [][Next]_vars
-----------------------------------------------------------------------------
\* However the run ends, at most one ERRORED case says so: crash, hang and the
\* check in teardown exclude each other.
OneDiagnosis == errors <= 1

\* A test that was silent for longer than its timeout, and not busy, is
\* reported at the latest when the next line arrives.
SilenceDetected == ~missed

\* Once DONE has been heard, every test with a failed assertion is FAILED.
FailuresAtDone == proto.state = "FINISHED" => failed \subseteq reported

\* A test that has announced a disconnect is not reported as hung before it is
\* back: disconnect.py has it that the runner "checks ``active`` to decide
\* whether to suppress output or extend timeouts".  False of the code (README,
\* known deviations).
WindowExtendsTimeouts == [][phase = "lines" /\ errors' > errors /\ Hang => ~disc.active]_vars

\* The durations and the running timer add up to the time since the first
\* test started: no test is timed twice and no time is lost between two.
TimeAccounted ==
  ~finished /\ ~again /\ left # Tests =>
    timing.elapsed + MapThenSumSet(LAMBDA t : timing.durations[t], Tests) = now - first

\* Every plugin that could be loaded is attached and has each of its hooks
\* called, whatever the other plugins do.
PluginsServed ==
  /\ phase \notin {"load", "start"} =>
       attached = Plugins \ Broken /\ attached \X {"start"} \subseteq told
  /\ phase = "end" => attached \X {"complete"} \subseteq told
==============================================================================
