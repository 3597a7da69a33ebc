------------------------------ MODULE Handshake ------------------------------
(***************************************************************************)
(* One cycle's READY / ARGS / RUN / DONE exchange, line by line: the host  *)
(* side of _run_test_cycle and wait_for_command, run_cycle and idle_loop   *)
(* of include/etst/doctest/runner.h, over a line that can damage what the  *)
(* host sends and what the device announces.  Orchestration takes this     *)
(* exchange as one step; here it is taken apart.                           *)
(*                                                                         *)
(* The lines of the host are numbered: 1..NArgs are the ETST:ARGS lines,   *)
(* Command is the run command, OnDone the post-test command.  A line       *)
(* arrives "good", "stray" (with garbage before it, as when a port is      *)
(* opened), "bad" (its CRC fails), or has "none" (no CRC was appended).    *)
(* Deadlines are left to Orchestration, and the tests of the cycle to one  *)
(* CASE:START.                                                             *)
(***************************************************************************)
EXTENDS ReadyRunProtocol, Sequences

CONSTANTS NArgs,        \* ETST:ARGS lines before the command
          Fragile,      \* the host's lines that noise may hit
          MaxNoise,     \* bound on the lines damaged, either way
          Timely,       \* the host answers READY within READY_INTERVAL_MS
          MaxInFlight,  \* bound on the unread lines, either way
          MaxRuns       \* bound on the executions looked at

Command == NArgs + 1
OnDone  == NArgs + 2

ASSUME HandshakeAssumption ==
  /\ NArgs \in Nat /\ MaxNoise \in Nat /\ MaxInFlight \in Nat /\ MaxRuns \in Nat
  /\ Fragile \subseteq 1..Command /\ Timely \in BOOLEAN

VARIABLES proto,      \* the host's ReadyRunProtocol
          host,       \* read, lines, send, post, closed
          chunk,      \* lines of the current read still to be fed
          next,       \* the next line to send
          toDevice, toHost,
          dev,        \* wait, run, asleep
          args,       \* ARGS lines accumulated by the device
          rushed,     \* next_ready = 0: READY comes before the next read
          runs,       \* history: the ARGS lines each execution was given
          noise       \* lines damaged so far

hostVars   == <<proto, host, chunk, next>>
deviceVars == <<dev, args, rushed, runs>>
vars == <<hostVars, deviceVars, toDevice, toHost, noise>>

Init ==
  /\ proto = NewProtocol /\ host = "read" /\ chunk = <<>> /\ next = 1
  /\ toDevice = <<>> /\ toHost = <<>> /\ noise = 0
  /\ dev = "wait" /\ args = <<>> /\ rushed = TRUE /\ runs = <<>>

\* A line arrives as it was sent, or noise damages it.
Arrives(quality, fragile) ==
  \/ quality = "good" /\ UNCHANGED noise
  \/ quality \in {"stray", "bad"} /\ fragile /\ noise < MaxNoise /\ noise' = noise + 1
-----------------------------------------------------------------------------
(* The host.                                                               *)

ReadLines ==
  /\ host = "read" /\ proto.state # "FINISHED"
  /\ \E n \in 1..Len(toHost) :
       /\ chunk' = SubSeq(toHost, 1, n)
       /\ toHost' = SubSeq(toHost, n + 1, Len(toHost))
  /\ host' = "lines"
  /\ UNCHANGED <<proto, next, deviceVars, toDevice, noise>>

FeedLine ==
  /\ host = "lines" /\ chunk # <<>>
  /\ proto' = Feed(proto, Head(chunk)) /\ chunk' = Tail(chunk)
  /\ UNCHANGED <<host, next, deviceVars, toDevice, toHost, noise>>

\* All lines of the read are handled: answer a READY, or read on.
TurnLoop ==
  /\ host = "lines" /\ chunk = <<>>
  /\ host' = CASE proto.state = "READY"    -> "send"
               [] proto.state = "FINISHED" -> "post"
               [] OTHER                    -> "read"
  /\ next' = 1
  /\ UNCHANGED <<proto, chunk, deviceVars, toDevice, toHost, noise>>

\* Mutant: the index runs past the command.
SendLineOffByOne ==
  /\ host = "send" /\ Len(toDevice) < MaxInFlight
  /\ toDevice' = Append(toDevice, [line |-> next, crc |-> "good"])
  /\ next' = next + 1
  /\ IF next = Command THEN host' = "read" /\ proto' = CommandSent(proto)
     ELSE UNCHANGED <<host, proto>>
  /\ UNCHANGED <<chunk, deviceVars, toHost, noise>>

\* The ARGS lines, then the command; command_sent() once it is written.
SendLine ==
  /\ host = "send" /\ Len(toDevice) < MaxInFlight
  /\ \E quality \in {"good", "stray", "bad"} :
       /\ Arrives(quality, next \in Fragile)
       /\ toDevice' = Append(toDevice, [line |-> next, crc |-> quality])
  /\ IF next = Command
     THEN host' = "read" /\ proto' = CommandSent(proto) /\ UNCHANGED next
     ELSE next' = next + 1 /\ UNCHANGED <<host, proto>>
  /\ UNCHANGED <<chunk, deviceVars, toHost>>

\* The on-done command is written raw, without format_crc.
PostTest ==
  /\ host = "post" /\ host' = "closed"
  /\ toDevice' = Append(toDevice, [line |-> OnDone, crc |-> "none"])
  /\ UNCHANGED <<proto, chunk, next, deviceVars, toHost, noise>>
-----------------------------------------------------------------------------
(* The device.                                                             *)

Output(lines) ==
  IF host = "closed" THEN UNCHANGED toHost
  ELSE Len(toHost) + Len(lines) <= MaxInFlight /\ toHost' = toHost \o lines

\* A host that is about to answer, or whose answer is still to be read.
Answering ==
  /\ host # "closed"
  /\ \/ toDevice # <<>> \/ host = "send" \/ proto.state = "READY"
     \/ Msg("READY") \in {toHost[i] : i \in DOMAIN toHost}
                         \cup {chunk[i] : i \in DOMAIN chunk}

\* READY, at once or when the interval has passed: what was accumulated so
\* far is dropped.
SignalReady ==
  /\ dev = "wait"
  /\ rushed \/ (Timely => ~Answering)
  /\ \E quality \in {"good", "bad"} :
       /\ Arrives(quality, TRUE)
       /\ Output(<<[Msg("READY") EXCEPT !.ok = (quality = "good")]>>)
  /\ args' = <<>> /\ rushed' = FALSE
  /\ UNCHANGED <<hostVars, dev, runs, toDevice>>

\* Mutant: an ETST:ARGS line is taken for a damaged one.
ValidCommandOnly(received) ==
  received.line = Command /\ received.crc \in {"good", "stray"}

\* Leading garbage is stripped; then the CRC decides.
Valid(received) == received.crc \in {"good", "stray"}

ReadLine ==
  /\ dev = "wait" /\ ~rushed /\ toDevice # <<>> /\ Len(runs) < MaxRuns
  /\ LET received == Head(toDevice)
     IN  /\ toDevice' = Tail(toDevice)
         /\ rushed' = ~Valid(received)
         /\ args' = IF ~Valid(received) THEN <<>>
                    ELSE IF received.line < Command THEN Append(args, received.line)
                    ELSE args
         /\ IF Valid(received) /\ received.line = Command
            THEN dev' = "run" /\ runs' = Append(runs, args)
            ELSE /\ dev' = IF Valid(received) /\ received.line = OnDone
                           THEN "asleep" ELSE "wait"
                 /\ UNCHANGED runs
  /\ UNCHANGED <<hostVars, toHost, noise>>

\* run_cycle: the test starts, ends, DONE; idle_loop waits for the next
\* command and says READY first.
RunTests ==
  /\ dev = "run" /\ dev' = "wait" /\ args' = <<>> /\ rushed' = TRUE
  /\ \E suite \in SuiteNames, name \in TestNames :
       Output(<<CaseLine(suite, name), Msg("DONE")>>)
  /\ UNCHANGED <<hostVars, runs, toDevice, noise>>
-----------------------------------------------------------------------------
HostNext   == ReadLines \/ FeedLine \/ TurnLoop \/ SendLine \/ PostTest
DeviceNext == SignalReady \/ ReadLine \/ RunTests
Next == HostNext \/ DeviceNext

Spec == Init /\ [][Next]_vars

\* Both sides loop for as long as they have something to do.
FairSpec == Spec /\ WF_vars(HostNext) /\ WF_vars(SignalReady)
                 /\ WF_vars(ReadLine) /\ WF_vars(RunTests)
-----------------------------------------------------------------------------
Wire == [line : 1..OnDone, crc : {"good", "stray", "bad", "none"}]

TypeOK ==
  /\ proto \in Protocol /\ host \in {"read", "lines", "send", "post", "closed"}
  /\ chunk \in Seq(Line) /\ toHost \in Seq(Line) /\ next \in 1..Command
  /\ toDevice \in Seq(Wire) /\ dev \in {"wait", "run", "asleep"}
  /\ args \in Seq(1..NArgs) /\ runs \in Seq(Seq(1..NArgs)) /\ rushed \in BOOLEAN
  /\ noise \in 0..MaxNoise

\* The configuration is forwarded on every cycle (README.md:250): every
\* execution was given all ETST:ARGS lines, in order and once.  False of the
\* code when noise hits one of them (README, known deviations).
ArgsIntact ==
  \A i \in DOMAIN runs : runs[i] = [n \in 1..NArgs |-> n]

\* What an execution was given when lines were lost: wait_for_command drops all
\* it holds at every READY and at every line that fails its CRC, while the rest
\* of the same answer may still be on its way and is taken.  So a configuration
\* may miss its first lines, and never one in the middle, the last ones, or the
\* order; and no line of one answer is mixed with those of another.
ArgsTail ==
  \A i \in DOMAIN runs :
    \E lost \in 0..NArgs : runs[i] = [n \in 1..(NArgs - lost) |-> n + lost]

\* The tests of one cycle are executed once, however often the command had to
\* be sent.
ExecutedOnce == Len(runs) <= 1

\* Feed's rule for a READY while RUNNING: the command is sent again only when
\* it was lost, that is, no usable copy of it is on its way to the device or
\* being executed.
ResentOnlyIfLost ==
  [][proto.state = "RUNNING" /\ proto'.state = "READY" =>
       /\ runs = <<>>
       /\ \A i \in DOMAIN toDevice :
            toDevice[i].line = Command => ~Valid(toDevice[i])]_vars

\* The exchange gets through: after any MaxNoise damaged lines the device has
\* executed and the host has seen its DONE.
Completes == <>(host = "closed")
=============================================================================
