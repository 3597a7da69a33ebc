------------------------- MODULE LineCallback_proofs -------------------------
(***************************************************************************)
(* What holds of every instance of LineCallback: any tests, plugins,       *)
(* timeouts and damage. Five inductive invariants, each for one property   *)
(* that the runs check: Served about the loops over the plugins, Diagnosed *)
(* about the errors, Followed, which ties the test the host believes to be *)
(* running to the one the device runs, Watched, which rests on Followed,   *)
(* about the timeout of a silent test, and Timed, which rests on what a    *)
(* sum over a finite set is, about durations.                              *)
(***************************************************************************)
EXTENDS LineCallback, ReadyRunProtocol_proofs, FiniteSetTheorems, TLAPS

-----------------------------------------------------------------------------
(* The plugins.                                                            *)

\* Each loop has served the attached plugins that it does not still have to
\* visit.
Served ==
  /\ phase \in {"load", "start", "lines", "complete", "end"}
  /\ phase = "load" => todo \subseteq Plugins /\ attached = (Plugins \ todo) \ Broken
  /\ phase # "load" => attached = Plugins \ Broken
  /\ phase = "start" => \A p \in attached : p \in todo \/ <<p, "start">> \in told
  /\ phase \in {"lines", "complete", "end"} => \A p \in attached : <<p, "start">> \in told
  /\ phase = "complete" => \A p \in attached : p \in todo \/ <<p, "complete">> \in told
  /\ phase = "end" => \A p \in attached : <<p, "complete">> \in told

LEMMA ServedInit == Init => Served
BY DEF Init, Served

LEMMA ServedNext == Served /\ [Next]_vars => Served'
<1> SUFFICES ASSUME Served, [Next]_vars PROVE Served'
  OBVIOUS
<1>1. CASE LoadPlugin
  <2>1. PICK p \in todo : todo' = todo \ {p}
                          /\ attached' = IF p \in Broken THEN attached ELSE attached \cup {p}
    BY <1>1 DEF LoadPlugin
  <2>2. phase = "load" /\ phase' = "load"
    BY <1>1 DEF LoadPlugin
  <2> QED BY <2>1, <2>2 DEF Served
<1>2. CASE NotifyPlugin
  <2>1. PICK p \in todo : told' = told \cup {<<p, phase>>} /\ todo' = todo \ {p}
    BY <1>2 DEF NotifyPlugin
  <2>2. phase \in {"start", "complete"} /\ phase' = phase /\ attached' = attached
    BY <1>2 DEF NotifyPlugin
  <2> QED BY <2>1, <2>2 DEF Served
<1>3. CASE Setup
  BY <1>3 DEF Setup, Served
<1>4. CASE StartTesting
  BY <1>4 DEF StartTesting, Served
<1>5. CASE Teardown
  BY <1>5 DEF Teardown, Served
<1>6. CASE TeardownCheck
  BY <1>6 DEF TeardownCheck, Served
<1>7. CASE UNCHANGED <<phase, todo, attached, told>>
  BY <1>7 DEF Served
<1>8. \A line : Say(line) => UNCHANGED <<phase, todo, attached, told>>
  BY DEF Say
<1>9. CASE SayReady \/ SayCase \/ SayText \/ SayTrace \/ SayBusy \/ SayFailure
           \/ SayDisconnect \/ SayReconnect \/ SayReboot \/ SayDone
  BY <1>7, <1>8, <1>9 DEF SayReady, SayCase, SayText, SayTrace, SayBusy, SayFailure,
     SayDisconnect, SayReconnect, SayReboot, SayDone
<1>10. CASE Tick
  BY <1>7, <1>10 DEF Tick
<1>11. CASE UNCHANGED vars
  BY <1>7, <1>11 DEF vars
<1> QED BY <1>1, <1>2, <1>3, <1>4, <1>5, <1>6, <1>9, <1>10, <1>11 DEF Next

\* Every plugin that could be loaded is attached and told of the start and of
\* the end of the partition, whatever the others raise (_notify_plugins).
THEOREM EveryPluginServed == Spec => []PluginsServed
<1>1. Served => PluginsServed
  BY DEF Served, PluginsServed
<1> QED BY ServedInit, ServedNext, <1>1, PTL DEF Spec
-----------------------------------------------------------------------------
(* The diagnosis.                                                          *)

\* An ERRORED case is the last thing that the lines of a run lead to.
Diagnosed ==
  /\ errors \in {0, 1}
  /\ errors = 1 => finished \/ phase = "end"

LEMMA DiagnosedInit == Init => Diagnosed
BY DEF Init, Diagnosed

\* A line adds a case only while there is none, and then ends the run.
LEMMA HearDiagnosed ==
  ASSUME Diagnosed, phase = "lines", NEW line, Hear(line)
  PROVE  errors' \in {0, 1} /\ (errors' = 1 => finished')
<1>1. CASE finished
  BY <1>1 DEF Hear, HearNothing, HearHang, HearLine, hostVars, Diagnosed
<1>2. CASE ~finished /\ Hang
  BY <1>2 DEF Hear, HearNothing, HearHang, HearLine, Diagnosed
<1>3. CASE ~finished /\ ~Hang
  <2>1. /\ errors' = errors + (IF crash' = "triggered" THEN 1 ELSE 0)
        /\ finished' = (crash' = "triggered")
    BY <1>3 DEF Hear, HearNothing, HearHang, HearLine
  <2>2. errors = 0
    BY <1>3 DEF Diagnosed
  <2>3. CASE crash' = "triggered"
    <3>1. errors' = 1
      BY <2>1, <2>2, <2>3
    <3> QED BY <2>1, <2>3, <3>1
  <2>4. CASE crash' # "triggered"
    <3>1. errors' = 0
      BY <2>1, <2>2, <2>4
    <3> QED BY <3>1
  <2> QED BY <2>3, <2>4
<1> QED BY <1>1, <1>2, <1>3

LEMMA DiagnosedNext == Diagnosed /\ [Next]_vars => Diagnosed'
<1> SUFFICES ASSUME Diagnosed, [Next]_vars PROVE Diagnosed'
  OBVIOUS
<1>1. CASE TeardownCheck
  <2>1. phase = "complete" /\ phase' = "end"
    BY <1>1 DEF TeardownCheck
  <2>2. CASE finished
    BY <1>1, <2>1, <2>2 DEF TeardownCheck, Diagnosed
  <2>3. CASE ~finished
    <3>1. errors' = errors + (IF crash' = "triggered" THEN 1 ELSE 0)
      BY <1>1, <2>3 DEF TeardownCheck
    <3>2. errors = 0
      BY <2>1, <2>3 DEF Diagnosed
    <3> QED BY <2>1, <3>1, <3>2 DEF Diagnosed
  <2> QED BY <2>2, <2>3
<1>2. ASSUME NEW line, Say(line) PROVE Diagnosed'
  BY <1>2, HearDiagnosed DEF Say, Diagnosed
<1>3. CASE SayReady \/ SayCase \/ SayText \/ SayTrace \/ SayBusy \/ SayFailure
           \/ SayDisconnect \/ SayReconnect \/ SayReboot \/ SayDone
  BY <1>2, <1>3 DEF SayReady, SayCase, SayText, SayTrace, SayBusy, SayFailure,
     SayDisconnect, SayReconnect, SayReboot, SayDone
<1>4. CASE phase # "end" /\ UNCHANGED <<errors, finished>>
  BY <1>4 DEF Diagnosed
<1>5. CASE LoadPlugin \/ NotifyPlugin \/ Setup \/ StartTesting \/ Teardown
  BY <1>4, <1>5 DEF LoadPlugin, NotifyPlugin, Setup, StartTesting, Teardown, hostVars
<1>6. CASE Tick
  BY <1>4, <1>6 DEF Tick
<1>7. CASE UNCHANGED vars
  BY <1>7 DEF vars, hostVars, Diagnosed
<1> QED BY <1>1, <1>3, <1>5, <1>6, <1>7 DEF Next

\* A run ends with at most one ERRORED case: a crash, a hang between lines and
\* the silence found in teardown are never reported together.
THEOREM AtMostOneDiagnosis == Spec => []OneDiagnosis
<1>1. Diagnosed => OneDiagnosis
  BY DEF Diagnosed, OneDiagnosis
<1> QED BY DiagnosedInit, DiagnosedNext, <1>1, PTL DEF Spec
-----------------------------------------------------------------------------
(* The running test.                                                       *)

\* While the host follows the tests, its current test is the device's and it
\* has kept every failure; nothing runs before the command or after DONE.
Followed ==
  /\ proto \in Protocol /\ running \in Tests \cup {Unnamed}
  /\ ~Driven => proto.state \in {"WAITING_FOR_READY", "READY"}
  /\ Driven => proto.state # "READY"
  /\ Driven /\ proto.state = "WAITING_FOR_READY" =>
       dev \in {"boot", "ready"} /\ running = Unnamed /\ failed = {}
  /\ proto.state = "RUNNING" /\ ~finished =>
       failed \subseteq failures /\ (running # Unnamed => CurrentTestFull(proto) = running)
  /\ proto.state = "FINISHED" =>
       dev = "idle" /\ running = Unnamed /\ failed \subseteq reported

\* The tests to come are tests.
LeftType == left \subseteq Tests

LEMMA LeftTypeInit == Init => LeftType
BY DEF Init, LeftType

LEMMA LeftTypeNext == LeftType /\ [Next]_vars => LeftType'
BY DEF LeftType, Next, vars, LoadPlugin, NotifyPlugin, Setup, StartTesting, Teardown,
       TeardownCheck, SayReady, SayCase, SayText, SayTrace, SayBusy, SayFailure, SayDisconnect,
       SayReconnect, SayReboot, SayDone, Tick, devVars

\* The same state and the same current test.
Alike(p, q) == q.state = p.state /\ q.suite = p.suite /\ q.name = p.name

LEMMA FollowedInit == Init => Followed
BY LineCallbackAssumption DEF Init, Followed, NewProtocol, Protocol, ProtocolState, Unnamed

\* What each kind of line does to the state and the current test.
LEMMA FeedEffect ==
  ASSUME NEW p \in Protocol, NEW line \in Line
  PROVE  /\ line.tag \in {"TEXT", "TRACE", "BUSY", "FAIL", "CRASH", "DISCONNECT", "RECONNECT"}
              => Alike(p, Feed(p, line))
         /\ line.tag = "READY" =>
              /\ Feed(p, line).suite = p.suite /\ Feed(p, line).name = p.name
              /\ p.state \in {"WAITING_FOR_READY", "RUNNING"} =>
                   Feed(p, line).state \in {p.state, "READY"}
              /\ p.state \notin {"WAITING_FOR_READY", "RUNNING"} => Alike(p, Feed(p, line))
         /\ line.tag = "SLEEP" =>
              IF p.state = "RUNNING" /\ line.ok THEN Feed(p, line).state = "SLEEPING"
              ELSE Alike(p, Feed(p, line))
         /\ line.tag = "DONE" =>
              IF p.state = "RUNNING" /\ line.ok THEN Feed(p, line).state = "FINISHED"
              ELSE Alike(p, Feed(p, line))
<1>1. CASE p.state = "WAITING_FOR_READY"
  BY <1>1 DEF Feed, FeedWaiting, Alike, Protocol, Line
<1>2. CASE p.state = "READY"
  BY <1>2 DEF Feed, FeedReady, Alike, Protocol, Line
<1>3. CASE p.state = "RUNNING"
  <2>1. Feed(p, line) = FeedRunning(p, line)
    BY <1>3 DEF Feed
  <2>2. CASE ~line.ok
    BY <1>3, <2>1, <2>2 DEF FeedRunning, Alike
  <2>3. CASE line.ok /\ line.tag = "READY"
    <3>1. FeedRunning(p, line) = IF p.name = Empty THEN [p EXCEPT !.state = "READY"] ELSE p
      BY <2>3 DEF FeedRunning, CommandLost
    <3> QED BY <1>3, <2>1, <2>3, <3>1 DEF Protocol
  <2>4. CASE line.ok /\ line.tag = "SLEEP"
    BY <1>3, <2>1, <2>4 DEF FeedRunning, CommandLost, Sleep, Protocol
  <2>5. CASE line.ok /\ line.tag = "DONE"
    BY <1>3, <2>1, <2>5 DEF FeedRunning, CommandLost, Protocol
  <2>6. CASE line.ok /\ line.tag = "BUSY"
    BY <1>3, <2>1, <2>6 DEF FeedRunning, CommandLost, Alike, Protocol
  <2>7. CASE line.ok /\ line.tag \in {"TEXT", "TRACE", "FAIL", "CRASH", "DISCONNECT", "RECONNECT"}
    BY <1>3, <2>1, <2>7 DEF FeedRunning, CommandLost, Alike
  <2> QED BY <2>2, <2>3, <2>4, <2>5, <2>6, <2>7
<1>4. CASE p.state \notin {"WAITING_FOR_READY", "READY", "RUNNING"}
  BY <1>4 DEF Feed, Alike
<1> QED BY <1>1, <1>2, <1>3, <1>4

\* CASE:START moves the host to the test it announces.
LEMMA CaseEffect ==
  ASSUME NEW p \in Protocol, NEW t \in Tests
  PROVE  /\ CaseLine(t[1], t[2]) \in Line
         /\ p.state # "RUNNING" => Feed(p, CaseLine(t[1], t[2])) = p
         /\ p.state = "RUNNING" =>
              /\ Feed(p, CaseLine(t[1], t[2])).state = "RUNNING"
              /\ CurrentTestFull(Feed(p, CaseLine(t[1], t[2]))) = t
<1>1. t[1] \in SuiteNames /\ t[2] \in TestNames /\ t = <<t[1], t[2]>>
  BY LineCallbackAssumption
<1>2. t[1] # Empty /\ t[2] # Empty
  BY <1>1, EmptyAssumption
<1>3. CaseLine(t[1], t[2]) \in Line
  BY <1>1 DEF CaseLine, Line, Tag
<1>4. p.state # "RUNNING" => Feed(p, CaseLine(t[1], t[2])) = p
  BY DEF Feed, FeedWaiting, FeedReady, CaseLine
<1>5. ASSUME p.state = "RUNNING"
      PROVE  /\ Feed(p, CaseLine(t[1], t[2])).state = "RUNNING"
             /\ CurrentTestFull(Feed(p, CaseLine(t[1], t[2]))) = t
  <2>1. Feed(p, CaseLine(t[1], t[2])) = CaseStart(p, CaseLine(t[1], t[2]))
    BY <1>5 DEF Feed, FeedRunning, CommandLost, CaseLine
  <2> DEFINE q == CaseStart(p, CaseLine(t[1], t[2]))
  <2> DEFINE s == t[1]
             n == t[2]
  <2>2. q.state = "RUNNING" /\ q.suite = t[1] /\ q.name = t[2]
    <3> HIDE DEF s, n
    <3>1. ASSUME s # Empty, n # Empty
          PROVE  LET r == CaseStart(p, CaseLine(s, n))
                 IN  r.state = "RUNNING" /\ r.suite = s /\ r.name = n
      BY <1>5, <3>1 DEF CaseStart, CaseLine, Protocol
    <3> QED BY <1>2, <3>1 DEF s, n
  <2> HIDE DEF q
  <2>3. CurrentTestFull(q) = t
    BY <1>1, <1>2, <2>2 DEF CurrentTestFull
  <2> QED BY <2>1, <2>2, <2>3 DEF q
<1> QED BY <1>3, <1>4, <1>5

\* What a line leaves of the host's view: either the runner is deaf, or the
\* protocol was fed, and the command sent if somebody does.
Fed(line) ==
  /\ ~finished
  /\ proto' = IF Driven THEN CommandSent(Feed(proto, line)) ELSE Feed(proto, line)
  /\ failures' = Tracked(Feed(proto, line), line)
  /\ reported' = ReportAtDone(Feed(proto, line), failures')
Deaf == finished' /\ UNCHANGED <<proto, failures, reported>>

LEMMA HearCases ==
  ASSUME NEW line, Hear(line)
  PROVE  Deaf \/ Fed(line)
BY DEF Hear, HearNothing, HearHang, HearLine, Deaf, Fed, hostVars

LEMMA HearType ==
  ASSUME NEW line \in Line, proto \in Protocol, Hear(line)
  PROVE  proto' \in Protocol
<1>1. Feed(proto, line) \in Protocol
  BY FeedType
<1>2. CommandSent(Feed(proto, line)) \in Protocol
  BY <1>1, MethodType
<1> QED BY <1>1, <1>2, HearCases DEF Deaf, Fed

LEMMA MsgType ==
  ASSUME NEW tag \in Tag
  PROVE  Msg(tag) \in Line /\ Msg(tag).tag = tag /\ Msg(tag).ok
<1>1. Msg(tag).tag = tag
  BY DEF Msg
<1>2. Msg(tag).ok
  BY Zenon DEF Msg
<1>3. Msg(tag) \in Line
  BY Zenon DEF Msg, Line
<1> QED BY <1>1, <1>2, <1>3

LEMMA ArrivingType ==
  ASSUME NEW tag \in Tag, NEW line \in Arriving(tag)
  PROVE  line \in Line /\ line.tag = tag
<1>1. CASE line = Msg(tag)
  BY <1>1, MsgType
<1>2. CASE line = [Msg(tag) EXCEPT !.ok = FALSE]
  <2>1. line = [tag |-> tag, ok |-> FALSE, suite |-> Empty, name |-> Empty]
    BY <1>2 DEF Msg
  <2>2. line \in Line
    BY Zenon, <2>1 DEF Line
  <2> QED BY <2>1, <2>2
<1>3. line = Msg(tag) \/ line = [Msg(tag) EXCEPT !.ok = FALSE]
  BY Zenon DEF Arriving
<1> QED BY <1>1, <1>2, <1>3

\* A line that changes neither state nor test.
LEMMA QuietLine ==
  ASSUME Followed, NEW line \in Line, Hear(line),
         line.tag \in {"TEXT", "TRACE", "BUSY", "FAIL", "CRASH", "DISCONNECT", "RECONNECT"}
  PROVE  /\ proto' \in Protocol
         /\ Alike(proto, proto')
         /\ Deaf \/ (/\ ~finished
                     /\ line.tag # "FAIL" => failures' = failures
                     /\ proto.state = "RUNNING" /\ running # Unnamed =>
                          (line.tag = "FAIL" => failures' = failures \cup {running})
                     /\ reported' = reported)
<1>1. proto' \in Protocol
  BY HearType DEF Followed
<1>2. CASE Deaf
  BY <1>1, <1>2 DEF Deaf, Alike
<1>3. CASE Fed(line)
  <2> DEFINE q == Feed(proto, line)
  <2>1. Alike(proto, q) /\ q \in Protocol
    BY FeedEffect, FeedType DEF Followed
  <2>2. proto' = IF Driven THEN CommandSent(q) ELSE q
    BY <1>3 DEF Fed
  <2>3. failures' = Tracked(q, line) /\ reported' = ReportAtDone(q, failures')
    BY <1>3 DEF Fed
  <2> HIDE DEF q
  <2>4. Alike(proto, proto')
    BY <2>1, <2>2 DEF Alike, CommandSent, Followed
  <2>5. CurrentTestFull(q) = CurrentTestFull(proto)
    BY <2>1 DEF Alike, CurrentTestFull
  <2>6. reported' = reported
    BY <2>1, <2>3 DEF ReportAtDone, Alike
  <2>7. line.tag # "FAIL" => failures' = failures
    BY <2>3 DEF Tracked
  <2>8. ASSUME proto.state = "RUNNING", running # Unnamed, line.tag = "FAIL"
        PROVE  failures' = failures \cup {running}
    <3>1. CurrentTestFull(q) = running
      BY <1>3, <2>5, <2>8 DEF Followed, Fed
    <3> QED BY <2>3, <2>8, <3>1 DEF Tracked, FullNameOr
  <2> QED BY <1>1, <1>3, <2>4, <2>6, <2>7, <2>8 DEF Fed
<1> QED BY <1>2, <1>3, HearCases

\* The other lines: what they leave when the runner hears them, and the type.
LEMMA OtherLine ==
  ASSUME Followed, NEW line \in Line, Hear(line)
  PROVE  /\ proto' \in Protocol
         /\ Deaf \/ (/\ ~finished
                     /\ proto' = IF Driven THEN CommandSent(Feed(proto, line))
                                 ELSE Feed(proto, line)
                     /\ line.tag # "FAIL" => failures' = failures
                     /\ reported' = ReportAtDone(Feed(proto, line), failures'))
BY HearType, HearCases DEF Followed, Fed, Tracked

LEMMA CommandSentEffect ==
  ASSUME NEW p \in Protocol
  PROVE  /\ p.state # "READY" => CommandSent(p) = p
         /\ p.state = "READY" => /\ CommandSent(p).state = "RUNNING"
                                 /\ CommandSent(p).suite = p.suite
                                 /\ CommandSent(p).name = p.name
BY DEF CommandSent, Protocol

\* Lines that say nothing about which test runs.
LEMMA FollowedQuiet ==
  ASSUME Followed, NEW line \in Line, Hear(line), UNCHANGED <<dev, running, failed>>,
         line.tag \in {"TEXT", "TRACE", "BUSY", "CRASH", "DISCONNECT", "RECONNECT"}
  PROVE  Followed'
<1>1. /\ proto' \in Protocol /\ Alike(proto, proto')
      /\ Deaf \/ (~finished /\ failures' = failures /\ reported' = reported)
  BY QuietLine
<1>2. CurrentTestFull(proto') = CurrentTestFull(proto)
  BY <1>1 DEF Alike, CurrentTestFull
<1> QED BY <1>1, <1>2 DEF Followed, Alike, Deaf

LEMMA FollowedFailure == ASSUME Followed, SayFailure PROVE Followed'
<1>1. /\ running # Unnamed /\ Hear(Msg("FAIL")) /\ failed' = failed \cup {running}
      /\ UNCHANGED <<dev, running>>
  BY DEF SayFailure, Say
<1>2. /\ proto' \in Protocol /\ Alike(proto, proto')
      /\ Deaf \/ (/\ ~finished /\ reported' = reported
                  /\ proto.state = "RUNNING" => failures' = failures \cup {running})
  BY <1>1, QuietLine, MsgType DEF Tag
<1>3. CurrentTestFull(proto') = CurrentTestFull(proto)
  BY <1>2 DEF Alike, CurrentTestFull
<1> QED BY <1>1, <1>2, <1>3 DEF Followed, Alike, Deaf

LEMMA FollowedReboot == ASSUME Followed, SayReboot PROVE Followed'
<1>1. PICK tag \in {"CRASH", "SLEEP"} : Hear(Msg(tag))
  BY DEF SayReboot, Say
<1>2. running # Unnamed /\ dev' = "boot" /\ running' = Unnamed /\ failed' = failed
  BY DEF SayReboot
<1>3. Msg(tag) \in Line /\ Msg(tag).tag = tag /\ Msg(tag).ok
  BY MsgType DEF Tag
<1>4. proto.state # "FINISHED" /\ (Driven => proto.state # "WAITING_FOR_READY")
  BY <1>2 DEF Followed
<1>5. CASE tag = "CRASH"
  <2>1. /\ proto' \in Protocol /\ Alike(proto, proto')
        /\ Deaf \/ (~finished /\ failures' = failures)
    BY <1>1, <1>3, <1>5, QuietLine
  <2> QED BY <1>2, <1>4, <2>1 DEF Followed, Alike, Deaf
<1>6. CASE tag = "SLEEP"
  <2>1. /\ proto' \in Protocol
        /\ Deaf \/ (/\ ~finished /\ failures' = failures
                    /\ proto' = IF Driven THEN CommandSent(Feed(proto, Msg(tag)))
                                ELSE Feed(proto, Msg(tag)))
    BY <1>1, <1>3, <1>6, OtherLine
  <2>2. IF proto.state = "RUNNING" THEN Feed(proto, Msg(tag)).state = "SLEEPING"
        ELSE Alike(proto, Feed(proto, Msg(tag)))
    BY <1>3, <1>6, FeedEffect DEF Followed
  <2>3. Feed(proto, Msg(tag)) \in Protocol
    BY <1>3, FeedType DEF Followed
  <2>4. CASE Deaf
    BY <1>2, <1>4, <2>1, <2>4 DEF Followed, Deaf
  <2>5. CASE ~Deaf
    <3>1. /\ proto'.state \in {proto.state, "SLEEPING"} /\ proto'.state # "RUNNING"
          /\ proto.state # "RUNNING" => proto'.state = proto.state
      BY <2>1, <2>2, <2>3, <2>5, CommandSentEffect DEF Followed, Alike
    <3> QED BY <1>2, <1>4, <2>1, <3>1 DEF Followed
  <2> QED BY <2>4, <2>5
<1> QED BY <1>5, <1>6

LEMMA FollowedDone == ASSUME Followed, SayDone PROVE Followed'
<1>1. /\ dev = "run" /\ Hear(Msg("DONE")) /\ dev' = "idle" /\ running' = Unnamed
      /\ failed' = failed
  BY DEF SayDone, Say
<1>2. Msg("DONE") \in Line /\ Msg("DONE").tag = "DONE" /\ Msg("DONE").ok
  BY MsgType DEF Tag
<1> DEFINE q == Feed(proto, Msg("DONE"))
<1>3. /\ proto' \in Protocol
      /\ Deaf \/ (/\ ~finished /\ failures' = failures
                  /\ proto' = IF Driven THEN CommandSent(q) ELSE q
                  /\ reported' = ReportAtDone(q, failures'))
  BY <1>1, <1>2, OtherLine
<1>4. IF proto.state = "RUNNING" THEN q.state = "FINISHED" ELSE Alike(proto, q)
  BY <1>2, FeedEffect DEF Followed
<1>5. q \in Protocol
  BY <1>2, FeedType DEF Followed
<1>6. Driven => proto.state # "WAITING_FOR_READY"
  BY <1>1 DEF Followed
<1> HIDE DEF q
<1>7. CASE Deaf
  BY <1>1, <1>3, <1>6, <1>7 DEF Followed, Deaf
<1>8. CASE ~Deaf
  <2>1. proto'.state = q.state
    BY <1>3, <1>4, <1>5, <1>8, CommandSentEffect DEF Followed, Alike
  <2>2. CASE proto.state = "RUNNING"
    <3>1. q.state = "FINISHED" /\ proto'.state = "FINISHED"
      BY <1>4, <2>1, <2>2
    <3>2. reported' = reported \cup failures /\ failed \subseteq failures
      BY <1>3, <1>8, <2>2, <3>1 DEF ReportAtDone, Followed
    <3> QED BY <1>1, <1>3, <2>2, <3>1, <3>2 DEF Followed
  <2>3. CASE proto.state # "RUNNING"
    <3>1. q.state = proto.state /\ proto'.state = proto.state
      BY <1>4, <2>1, <2>3 DEF Alike
    <3>2. proto.state = "FINISHED" => reported' = reported
      BY <1>3, <1>8 DEF ReportAtDone
    <3> QED BY <1>1, <1>3, <1>6, <2>3, <3>1, <3>2 DEF Followed
  <2> QED BY <2>2, <2>3
<1> QED BY <1>7, <1>8

LEMMA FollowedCase == ASSUME Followed, LeftType, SayCase PROVE Followed'
<1>1. PICK t \in left : Hear(CaseLine(t[1], t[2])) /\ running' = t /\ left' = left \ {t}
  BY DEF SayCase, Say
<1>2. dev = "run" /\ dev' = dev /\ failed' = failed
  BY DEF SayCase
<1>3. t \in Tests
  BY <1>1 DEF LeftType
<1> DEFINE q == Feed(proto, CaseLine(t[1], t[2]))
<1>4. CaseLine(t[1], t[2]) \in Line /\ CaseLine(t[1], t[2]).tag = "CASE"
  BY <1>3, CaseEffect DEF CaseLine, Followed
<1>5. /\ proto.state # "RUNNING" => q = proto
      /\ proto.state = "RUNNING" => q.state = "RUNNING" /\ CurrentTestFull(q) = t
  BY <1>3, CaseEffect DEF Followed
<1>6. /\ proto' \in Protocol
      /\ Deaf \/ (/\ ~finished /\ failures' = failures
                  /\ proto' = IF Driven THEN CommandSent(q) ELSE q
                  /\ reported' = ReportAtDone(q, failures'))
  BY <1>1, <1>4, OtherLine
<1>7. q \in Protocol
  BY <1>4, FeedType DEF Followed
<1>8. proto.state # "FINISHED" /\ (Driven => proto.state # "WAITING_FOR_READY")
  BY <1>2 DEF Followed
<1> HIDE DEF q
<1>9. CASE Deaf
  BY <1>1, <1>2, <1>3, <1>6, <1>8, <1>9 DEF Followed, Deaf
<1>10. CASE ~Deaf
  <2>1. proto' = q
    BY <1>5, <1>6, <1>7, <1>10, CommandSentEffect DEF Followed
  <2> QED BY <1>1, <1>2, <1>3, <1>5, <1>6, <1>8, <1>10, <2>1 DEF Followed
<1> QED BY <1>9, <1>10

LEMMA FollowedReady == ASSUME Followed, SayReady PROVE Followed'
<1>1. PICK line \in Arriving("READY") : Hear(line)
  BY DEF SayReady, Say
<1>2. line \in Line /\ line.tag = "READY"
  BY ArrivingType DEF Tag
<1>3. /\ dev \in {"boot", "ready"} /\ UNCHANGED <<running, failed>>
      /\ Driven /\ proto'.state = "WAITING_FOR_READY" => dev' = "ready"
  BY DEF SayReady
<1> DEFINE q == Feed(proto, line)
<1>4. /\ q.suite = proto.suite /\ q.name = proto.name
      /\ proto.state \in {"WAITING_FOR_READY", "RUNNING"} => q.state \in {proto.state, "READY"}
      /\ proto.state \notin {"WAITING_FOR_READY", "RUNNING"} => Alike(proto, q)
  BY <1>2, FeedEffect DEF Followed
<1>5. /\ proto' \in Protocol
      /\ Deaf \/ (/\ ~finished /\ failures' = failures
                  /\ proto' = IF Driven THEN CommandSent(q) ELSE q
                  /\ reported' = ReportAtDone(q, failures'))
  BY <1>1, <1>2, OtherLine
<1>6. q \in Protocol
  BY <1>2, FeedType DEF Followed
<1>7. proto.state # "FINISHED"
  BY <1>3 DEF Followed
<1> HIDE DEF q
<1>8. CASE Deaf
  BY <1>3, <1>5, <1>7, <1>8 DEF Followed, Deaf
<1>9. CASE ~Deaf
  <2>1. /\ q.state # "FINISHED" /\ (~Driven => q.state \in {"WAITING_FOR_READY", "READY"})
        /\ q.state = "WAITING_FOR_READY" => proto.state = "WAITING_FOR_READY"
    BY <1>4, <1>7 DEF Followed, Alike
  <2>2. /\ proto'.state # "FINISHED" /\ (Driven => proto'.state # "READY")
        /\ proto'.state = "WAITING_FOR_READY" => proto.state = "WAITING_FOR_READY"
        /\ ~Driven => proto'.state \in {"WAITING_FOR_READY", "READY"}
        /\ proto'.suite = proto.suite /\ proto'.name = proto.name
    BY <1>4, <1>5, <1>6, <1>9, <2>1, CommandSentEffect
  <2>3. CurrentTestFull(proto') = CurrentTestFull(proto)
    BY <2>2 DEF CurrentTestFull
  <2>4. Driven /\ proto'.state = "RUNNING" =>
          proto.state \in {"WAITING_FOR_READY", "RUNNING"}
    BY <1>4, <1>5, <1>6, <1>9, CommandSentEffect DEF Alike, Followed
  <2>5. ~finished /\ failures' = failures
    BY <1>5, <1>9
  <2> QED BY <1>3, <1>5, <2>2, <2>3, <2>4, <2>5 DEF Followed
<1> QED BY <1>8, <1>9

LEMMA FollowedNext == Followed /\ LeftType /\ [Next]_vars => Followed'
<1> SUFFICES ASSUME Followed, LeftType, [Next]_vars PROVE Followed'
  OBVIOUS
<1>1. CASE SayText \/ SayTrace \/ SayBusy \/ SayDisconnect \/ SayReconnect
  <2>1. PICK line \in Line :
          /\ Hear(line) /\ UNCHANGED <<dev, running, failed>>
          /\ line.tag \in {"TEXT", "TRACE", "BUSY", "DISCONNECT", "RECONNECT"}
    <3>1. CASE SayText
      BY <3>1, MsgType DEF SayText, Say, devVars, Tag
    <3>2. CASE SayBusy
      BY <3>2, ArrivingType DEF SayBusy, Say, devVars, Tag
    <3>3. CASE SayDisconnect
      BY <3>3, ArrivingType DEF SayDisconnect, Say, Tag
    <3>4. CASE SayReconnect
      BY <3>4, ArrivingType DEF SayReconnect, Say, Tag
    <3>5. CASE SayTrace
      BY <3>5, MsgType DEF SayTrace, Say, devVars, Tag
    <3> QED BY <1>1, <3>1, <3>2, <3>3, <3>4, <3>5
  <2> QED BY <2>1, FollowedQuiet
<1>2. CASE SayFailure \/ SayReboot \/ SayDone \/ SayCase \/ SayReady
  BY <1>2, FollowedFailure, FollowedReboot, FollowedDone, FollowedCase, FollowedReady
<1>3. CASE Tick
  <2>1. BusyExpired(proto) \in Protocol /\ Alike(proto, BusyExpired(proto))
    BY MethodType DEF BusyExpired, Alike, Followed, Protocol
  <2>2. proto' \in Protocol /\ Alike(proto, proto')
    BY <1>3, <2>1 DEF Tick, Alike, Followed
  <2>3. CurrentTestFull(proto') = CurrentTestFull(proto)
    BY <2>2 DEF Alike, CurrentTestFull
  <2>4. UNCHANGED <<dev, running, failed, failures, reported, finished>>
    BY <1>3 DEF Tick, devVars
  <2> QED BY <2>2, <2>3, <2>4 DEF Followed, Alike
<1>4. CASE UNCHANGED <<proto, dev, running, failed, failures, reported, finished>>
  BY <1>4 DEF Followed
<1>5. CASE LoadPlugin \/ NotifyPlugin \/ Setup \/ StartTesting \/ Teardown
  BY <1>4, <1>5 DEF LoadPlugin, NotifyPlugin, Setup, StartTesting, Teardown, hostVars, devVars
<1>6. CASE TeardownCheck
  BY <1>4, <1>6 DEF TeardownCheck, devVars
<1>7. CASE UNCHANGED vars
  BY <1>4, <1>7 DEF vars, hostVars, devVars
<1> QED BY <1>1, <1>2, <1>3, <1>5, <1>6, <1>7 DEF Next

\* When the runner has heard DONE, every test that failed an assertion is a
\* FAILED case of the suite (_report_test_failures).
THEOREM EveryFailureAtDone == Spec => []FailuresAtDone
<1>1. Followed => FailuresAtDone
  BY DEF Followed, FailuresAtDone
<1> QED BY LeftTypeInit, LeftTypeNext, FollowedInit, FollowedNext, <1>1, PTL DEF Spec
-----------------------------------------------------------------------------
(* Silence.                                                                *)

\* No silence has been missed, because while the host follows a test it waits
\* for a line with that test's own timeout.
Watched ==
  /\ missed = FALSE
  /\ proto.state # "ERROR"
  /\ proto.state = "RUNNING" /\ ~finished /\ running # Unnamed =>
       started /\ heard /\ limit = Annotated[running]

LEMMA WatchedInit == Init => Watched
BY DEF Init, Watched, NewProtocol

\* No line of this device takes the protocol to ERROR, and only READY takes it
\* to RUNNING.
LEMMA FeedStates ==
  ASSUME Followed, Driven, Watched, NEW line \in Line,
         line.tag \notin {"ERROR", "RESTART", "ARGS", "CASE"}
  PROVE  LET q == Feed(proto, line)
         IN  /\ q.state # "ERROR" /\ CommandSent(q).state # "ERROR"
             /\ CommandSent(q).state = "RUNNING" =>
                  proto.state = "RUNNING"
                  \/ (proto.state = "WAITING_FOR_READY" /\ line.tag = "READY")
<1> DEFINE q == Feed(proto, line)
<1>1. proto \in Protocol /\ proto.state \notin {"ERROR", "READY"}
  BY DEF Followed, Watched
<1>2. q \in Protocol
  BY <1>1, FeedType
<1>3. q.state = proto.state \/ q.state \in {"SLEEPING", "FINISHED"}
      \/ (line.tag = "READY" /\ q.state = "READY"
          /\ proto.state \in {"WAITING_FOR_READY", "RUNNING"})
  BY <1>1, FeedEffect DEF Alike, Line, Tag
<1> HIDE DEF q
<1> QED BY <1>1, <1>2, <1>3, CommandSentEffect DEF q

\* A silence that the device counts is one the runner notices.
LEMMA SilentIsHang ==
  ASSUME Followed, Driven, Watched, Silent, ~finished
  PROVE  Hang
<1>1. proto.state = "RUNNING"
  BY DEF Followed, Watched, Silent, Protocol, ProtocolState
<1>2. started /\ heard /\ limit = Annotated[running] /\ ~proto.busy
  BY <1>1 DEF Watched, Silent
<1> QED BY <1>2 DEF Silent, Hang, EffectiveTimeout

LEMMA SayNoticed ==
  ASSUME Followed, Driven, Watched, NEW line, Say(line)
  PROVE  /\ missed' = FALSE
         /\ ~finished' => HearLine(line)
<1>1. /\ Hear(line) /\ missed' = (missed \/ (Silent /\ ~finished'))
  BY DEF Say
<1>2. ~finished' => HearLine(line)
  BY <1>1 DEF Hear, HearNothing, HearHang, hostVars
<1>3. ~(Silent /\ ~finished')
  BY <1>2, SilentIsHang DEF HearLine
<1> QED BY <1>1, <1>2, <1>3 DEF Watched

\* A line other than CASE:START, while the same test goes on or none runs.
LEMMA WatchedLine ==
  ASSUME Followed, Driven, Watched, NEW line \in Line, Say(line),
         line.tag \notin {"ERROR", "RESTART", "ARGS", "CASE"},
         running' \in {running, Unnamed}
  PROVE  Watched'
<1> DEFINE q == Feed(proto, line)
<1>1. missed' = FALSE
  BY SayNoticed
<1>2. CASE finished'
  <2>1. Deaf \/ proto' = CommandSent(q)
    BY HearCases DEF Say, Fed
  <2>2. proto'.state # "ERROR"
    BY <2>1, FeedStates DEF Deaf, Watched
  <2> QED BY <1>1, <1>2, <2>2 DEF Watched
<1>3. CASE ~finished'
  <2>1. HearLine(line)
    BY <1>3, SayNoticed
  <2>2. /\ ~finished /\ proto' = CommandSent(q) /\ heard' = TRUE /\ limit' = limit
        /\ started' = (started \/ q.state = "RUNNING")
    BY <2>1 DEF HearLine
  <2>3. /\ proto'.state # "ERROR"
        /\ proto'.state = "RUNNING" => proto.state \in {"RUNNING", "WAITING_FOR_READY"}
    BY <2>2, FeedStates
  <2>4. proto.state = "WAITING_FOR_READY" => running' = Unnamed
    BY DEF Followed
  <2> QED BY <1>1, <2>2, <2>3, <2>4 DEF Watched
<1> QED BY <1>2, <1>3

LEMMA WatchedCase == ASSUME Followed, LeftType, Driven, Watched, SayCase PROVE Watched'
<1>1. PICK t \in left : Say(CaseLine(t[1], t[2])) /\ running' = t
  BY DEF SayCase
<1>2. t \in Tests
  BY <1>1 DEF LeftType
<1>3. t[1] \in SuiteNames /\ t[2] \in TestNames /\ t = <<t[1], t[2]>>
  BY <1>2, LineCallbackAssumption
<1> DEFINE line == CaseLine(t[1], t[2])
           q    == Feed(proto, line)
<1>4. /\ line \in Line /\ line.tag = "CASE" /\ line.name = t[2] /\ line.suite = t[1]
      /\ line.ok /\ LimitOf(line) = Annotated[t]
  <2>1. line \in Line /\ line.tag = "CASE" /\ line.name = t[2] /\ line.suite = t[1]
    BY <1>2, CaseEffect DEF CaseLine, Followed
  <2>2. line.ok
    BY Zenon DEF CaseLine
  <2>3. LimitOf(line) = Annotated[t]
    BY <1>3, <2>1, EmptyAssumption DEF LimitOf
  <2> QED BY <2>1, <2>2, <2>3
<1>5. /\ q \in Protocol /\ proto \in Protocol
      /\ proto.state # "RUNNING" => q = proto
      /\ proto.state = "RUNNING" => q.state = "RUNNING"
  BY <1>2, <1>4, CaseEffect, FeedType DEF Followed
<1> HIDE DEF q, line
<1>6. CommandSent(q) = q /\ q.state # "ERROR" /\ q.state = proto.state
  BY <1>5, CommandSentEffect DEF Followed, Watched
<1>7. Say(line) /\ q = Feed(proto, line)
  BY <1>1 DEF line, q
<1>8. missed' = FALSE
  BY <1>7, SayNoticed
<1>9. CASE finished'
  <2>1. Deaf \/ proto' = q
    BY <1>6, <1>7, HearCases DEF Say, Fed
  <2> QED BY <1>6, <1>8, <1>9, <2>1 DEF Watched, Deaf
<1>10. CASE ~finished'
  <2>1. HearLine(line)
    BY <1>7, <1>10, SayNoticed
  <2>2. /\ proto' = q /\ heard' = TRUE
        /\ started' = (started \/ q.state = "RUNNING")
    BY <1>6, <1>7, <2>1 DEF HearLine
  <2>3. proto.state = "RUNNING" => limit' = Annotated[t]
    BY <1>4, <2>1 DEF HearLine
  <2> QED BY <1>1, <1>6, <1>8, <2>2, <2>3 DEF Watched
<1> QED BY <1>9, <1>10

LEMMA WatchedNext == Driven /\ Watched /\ Followed /\ LeftType /\ [Next]_vars => Watched'
<1> SUFFICES ASSUME Driven, Watched, Followed, LeftType, [Next]_vars PROVE Watched'
  OBVIOUS
<1>1. CASE SayReady \/ SayText \/ SayTrace \/ SayBusy \/ SayFailure \/ SayDisconnect
           \/ SayReconnect \/ SayReboot \/ SayDone
  <2> DEFINE Plain(line) == /\ line \in Line /\ Say(line) /\ running' \in {running, Unnamed}
                            /\ line.tag \notin {"ERROR", "RESTART", "ARGS", "CASE"}
  <2>1. \E line : Plain(line)
    <3>1. CASE SayReady
      BY <3>1, ArrivingType DEF SayReady, Tag
    <3>2. CASE SayText
      BY <3>2, MsgType DEF SayText, devVars, Tag
    <3>3. CASE SayBusy
      BY <3>3, ArrivingType DEF SayBusy, devVars, Tag
    <3>4. CASE SayFailure
      BY <3>4, MsgType DEF SayFailure, Tag
    <3>5. CASE SayDisconnect
      BY <3>5, ArrivingType DEF SayDisconnect, Tag
    <3>6. CASE SayReconnect
      BY <3>6, ArrivingType DEF SayReconnect, Tag
    <3>7. CASE SayReboot
      <4>1. PICK tag \in {"CRASH", "SLEEP"} : Say(Msg(tag))
        BY <3>7 DEF SayReboot
      <4> QED BY <3>7, <4>1, MsgType DEF SayReboot, Tag
    <3>8. CASE SayDone
      BY <3>8, MsgType DEF SayDone, Tag
    <3>9. CASE SayTrace
      BY <3>9, MsgType DEF SayTrace, devVars, Tag
    <3> QED BY <1>1, <3>1, <3>2, <3>3, <3>4, <3>5, <3>6, <3>7, <3>8, <3>9
  <2> QED BY <2>1, WatchedLine
<1>2. CASE SayCase
  BY <1>2, WatchedCase
<1>3. CASE Tick
  <2>1. proto'.state = proto.state
    <3>1. BusyExpired(proto).state = proto.state
      BY DEF BusyExpired, Followed, Protocol
    <3> QED BY <1>3, <3>1 DEF Tick
  <2> QED BY <1>3, <2>1 DEF Tick, Watched, devVars
<1>4. CASE UNCHANGED <<proto, running, finished, missed, started, heard, limit>>
  BY <1>4 DEF Watched
<1>5. CASE LoadPlugin \/ NotifyPlugin \/ Setup \/ StartTesting \/ Teardown
  BY <1>4, <1>5 DEF LoadPlugin, NotifyPlugin, Setup, StartTesting, Teardown, hostVars, devVars
<1>6. CASE TeardownCheck
  BY <1>4, <1>6 DEF TeardownCheck, devVars
<1>7. CASE UNCHANGED vars
  BY <1>4, <1>7 DEF vars, hostVars, devVars
<1> QED BY <1>1, <1>2, <1>3, <1>5, <1>6, <1>7 DEF Next

\* Undriven, the protocol waits for READY or for a command: no line takes it
\* to RUNNING, so none arms the check.
LEMMA UnstartedNext ==
  ASSUME ~Driven, ~started, Followed, Followed', [Next]_vars
  PROVE  ~started'
<1>1. ASSUME NEW line, Hear(line) PROVE ~started'
  <2>1. CASE HearNothing \/ HearHang
    BY <2>1 DEF HearNothing, HearHang, hostVars
  <2>2. CASE HearLine(line)
    <3>1. /\ proto' = Feed(proto, line)
          /\ started' = (started \/ Feed(proto, line).state = "RUNNING")
      BY <2>2 DEF HearLine
    <3>2. proto'.state # "RUNNING"
      BY DEF Followed
    <3> QED BY <3>1, <3>2
  <2> QED BY <1>1, <2>1, <2>2 DEF Hear
<1>2. CASE SayReady \/ SayCase \/ SayText \/ SayTrace \/ SayBusy \/ SayFailure
           \/ SayDisconnect \/ SayReconnect \/ SayReboot \/ SayDone
  BY <1>1, <1>2 DEF SayReady, SayCase, SayText, SayTrace, SayBusy, SayFailure,
     SayDisconnect, SayReconnect, SayReboot, SayDone, Say
<1>3. CASE started' = started
  BY <1>3
<1>4. CASE LoadPlugin \/ NotifyPlugin \/ Setup \/ StartTesting \/ Teardown \/ TeardownCheck
           \/ Tick \/ UNCHANGED vars
  BY <1>3, <1>4 DEF LoadPlugin, NotifyPlugin, Setup, StartTesting, Teardown, TeardownCheck,
     Tick, vars, hostVars
<1> QED BY <1>2, <1>4 DEF Next

\* Where the hang check can be made at all it misses nothing: once the
\* protocol has been RUNNING, a test that is silent for longer than its timeout
\* (its own, or configure_hang_timeout's) is reported when the next line
\* arrives (runner.py:373-392).  The next theorem says when that is.
THEOREM SilenceNoticed == Spec => [](started => SilenceDetected)
<1>1. CASE Driven
  <2>1. Watched => (started => SilenceDetected)
    BY DEF Watched, SilenceDetected
  <2>2. Watched /\ Followed /\ LeftType /\ [Next]_vars => Watched'
    BY <1>1, WatchedNext
  <2> QED BY LeftTypeInit, LeftTypeNext, FollowedInit, FollowedNext, WatchedInit, <2>1, <2>2,
             PTL DEF Spec
<1>2. CASE ~Driven
  <2>1. Init => ~started
    BY DEF Init
  <2>2. ~started /\ Followed /\ Followed' /\ [Next]_vars => ~started'
    BY <1>2, UnstartedNext
  <2>3. ~started => (started => SilenceDetected)
    OBVIOUS
  <2> QED BY LeftTypeInit, LeftTypeNext, FollowedInit, FollowedNext, <2>1, <2>2, <2>3,
             PTL DEF Spec
<1> QED BY <1>1, <1>2

\* Nothing in runner.py or runner_pio.py calls command_sent in this mode, and
\* unless somebody does the check is dead: whatever the device does and however
\* long it is silent, no line finds a hang.
THEOREM UndrivenNeverHangs == ASSUME ~Driven PROVE Spec => []~Hang
<1>1. Init => ~started
  BY DEF Init
<1>2. ~started /\ Followed /\ Followed' /\ [Next]_vars => ~started'
  BY UnstartedNext
<1>3. ~started => ~Hang
  BY DEF Hang
<1> QED BY LeftTypeInit, LeftTypeNext, FollowedInit, FollowedNext, <1>1, <1>2, <1>3,
           PTL DEF Spec
-----------------------------------------------------------------------------
(* Sums over a finite set: the recursion of MapThenSumSet, by the size of  *)
(* the subsets.  The library's induction takes an operator, so the         *)
(* arguments are about sets: a set of sizes has a least one.               *)

\* A set of numbers that is not empty has a least element.
LEMMA Least ==
  ASSUME NEW S, S \subseteq Nat, S # {}
  PROVE  \E m \in S : \A k \in S : m <= k
<1>1. PICK m \in S : \A k \in S : <<k, m>> \notin OpToRel(<, Nat)
  BY NatLessThanWellFounded, WFMin, Zenon
<1>2. \A k \in S : ~(k < m)
  BY <1>1 DEF OpToRel
<1> QED
  BY <1>2

\* A set of subsets of a finite set holds all of them if it holds the empty
\* set and every set that is one element larger than a member.
LEMMA AllSubsets ==
  ASSUME NEW S, IsFiniteSet(S), NEW P, {} \in P,
         \A s \in SUBSET S : s # {} /\ (\A x \in s : s \ {x} \in P) => s \in P
  PROVE  \A s \in SUBSET S : s \in P
<1> DEFINE K == {n \in Nat : \E s \in SUBSET S : s \notin P /\ n = Cardinality(s)}
<1>1. \A s \in SUBSET S : IsFiniteSet(s) /\ Cardinality(s) \in Nat
  BY FS_Subset, FS_CardinalityType
<1>2. SUFFICES ASSUME NEW r \in SUBSET S, r \notin P PROVE FALSE
  OBVIOUS
<1>3. K \subseteq Nat /\ Cardinality(r) \in K
  BY <1>1, <1>2
<1>4. PICK m \in K : \A k \in K : m <= k
  BY <1>3, Least
<1>5. PICK s \in SUBSET S : s \notin P /\ m = Cardinality(s)
  OBVIOUS
<1>6. ASSUME NEW x \in s PROVE s \ {x} \in P
  <2>1. Cardinality(s \ {x}) = m - 1 /\ s \ {x} \in SUBSET S
    BY <1>1, <1>5, FS_RemoveElement
  <2>2. m \in Nat /\ Cardinality(s \ {x}) \in Nat
    BY <1>1, <2>1
  <2>3. Cardinality(s \ {x}) \notin K
    BY <1>4, <2>1, <2>2
  <2> QED BY <2>1, <2>2, <2>3
<1> QED BY <1>5, <1>6

\* The sum that MapThenSumSet computes, and the equation of its recursion.
First(s)     == CHOOSE x \in s : TRUE
Rest(f, g, s) == IF s = {} THEN 0 ELSE f[First(s)] + g[s \ {First(s)}]
Sums(f, S)   == CHOOSE g : g = [s \in SUBSET S |-> Rest(f, g, s)]
Numbers(f, S) == \A x \in S : f[x] \in Nat
SumOf(f, S)  == MapThenSumSet(LAMBDA t : f[t], S)

LEMMA SumIsRecursive ==
  ASSUME NEW f, NEW S
  PROVE  SumOf(f, S) = Sums(f, S)[S]
BY DEF SumOf, MapThenSumSet, MapThenFoldSet, Sums, Rest, First

\* g follows the equation on the subsets of at most n elements.
SumsUpTo(f, S, n) ==
  {g \in [SUBSET S -> Nat] :
     \A s \in SUBSET S : Cardinality(s) <= n => g[s] = Rest(f, g, s)}

LEMMA RestType ==
  ASSUME NEW S, NEW f, Numbers(f, S), NEW g \in [SUBSET S -> Nat], NEW s \in SUBSET S
  PROVE  Rest(f, g, s) \in Nat
<1>1. CASE s = {}
  BY <1>1 DEF Rest
<1>2. CASE s # {}
  <2>1. First(s) \in s
    BY <1>2 DEF First
  <2>2. f[First(s)] \in Nat /\ g[s \ {First(s)}] \in Nat
    BY <2>1 DEF Numbers
  <2> QED BY <1>2, <2>2 DEF Rest
<1> QED BY <1>1, <1>2

\* Subsets are summed by size: from those of up to n to those of up to n + 1.
LEMMA SumsStep ==
  ASSUME NEW S, IsFiniteSet(S), NEW f, Numbers(f, S), NEW n \in Nat,
         SumsUpTo(f, S, n) # {}
  PROVE  SumsUpTo(f, S, n + 1) # {}
<1>1. PICK g \in SumsUpTo(f, S, n) : TRUE
  OBVIOUS
<1> DEFINE h == [s \in SUBSET S |-> IF Cardinality(s) <= n THEN g[s] ELSE Rest(f, g, s)]
<1>2. g \in [SUBSET S -> Nat]
  BY <1>1 DEF SumsUpTo
<1>3. h \in [SUBSET S -> Nat]
  BY <1>2, RestType
<1>4. ASSUME NEW s \in SUBSET S, Cardinality(s) <= n + 1
      PROVE  h[s] = Rest(f, h, s)
  <2>1. h[s] = Rest(f, g, s)
    BY <1>1 DEF SumsUpTo
  <2>2. CASE s = {}
    BY <2>1, <2>2 DEF Rest
  <2>3. CASE s # {}
    <3> DEFINE r == s \ {First(s)}
    <3>1. First(s) \in s
      BY <2>3 DEF First
    <3>2. IsFiniteSet(s) /\ Cardinality(s) \in Nat
      BY FS_Subset, FS_CardinalityType
    <3>3. r \in SUBSET S /\ Cardinality(r) = Cardinality(s) - 1
      BY <3>1, <3>2, FS_RemoveElement
    <3>4. Cardinality(r) <= n
      BY <1>4, <3>2, <3>3
    <3>5. h[r] = g[r]
      BY <3>3, <3>4
    <3> QED BY <2>1, <2>3, <3>5 DEF Rest
  <2> QED BY <2>2, <2>3
<1>5. h \in SumsUpTo(f, S, n + 1)
  BY <1>3, <1>4 DEF SumsUpTo
<1> QED BY <1>5

LEMMA SumsExist ==
  ASSUME NEW S, IsFiniteSet(S), NEW f, Numbers(f, S), NEW n \in Nat
  PROVE  SumsUpTo(f, S, n) # {}
<1> DEFINE K == {k \in Nat : SumsUpTo(f, S, k) = {}}
<1>1. SUFFICES ASSUME n \in K PROVE FALSE
  OBVIOUS
<1>2. PICK m \in K : \A k \in K : m <= k
  BY <1>1, Least
<1>3. SumsUpTo(f, S, 0) # {}
  <2> DEFINE g == [s \in SUBSET S |-> 0]
  <2>1. ASSUME NEW s \in SUBSET S, Cardinality(s) <= 0
        PROVE  g[s] = Rest(f, g, s)
    <3>1. s = {}
      <4>1. IsFiniteSet(s) /\ Cardinality(s) \in Nat
        BY FS_Subset, FS_CardinalityType
      <4>2. Cardinality(s) = 0
        BY <2>1, <4>1
      <4> QED BY <4>1, <4>2, FS_EmptySet
    <3> QED BY <3>1 DEF Rest
  <2>2. g \in SumsUpTo(f, S, 0)
    BY <2>1 DEF SumsUpTo
  <2> QED BY <2>2
<1>4. m # 0 /\ m \in Nat
  BY <1>2, <1>3
<1>5. m - 1 \in Nat /\ m - 1 \notin K
  BY <1>2, <1>4
<1>6. SumsUpTo(f, S, m - 1) # {}
  BY <1>5
<1>7. SumsUpTo(f, S, (m - 1) + 1) # {}
  BY <1>5, <1>6, SumsStep
<1>8. (m - 1) + 1 = m
  BY <1>4
<1> QED BY <1>2, <1>7, <1>8

\* So the recursive function exists, and CHOOSE takes one that is it.
LEMMA SumsEquation ==
  ASSUME NEW S, IsFiniteSet(S), NEW f, Numbers(f, S)
  PROVE  Sums(f, S) = [s \in SUBSET S |-> Rest(f, Sums(f, S), s)]
<1>1. Cardinality(S) \in Nat
  BY FS_CardinalityType
<1>2. PICK g \in SumsUpTo(f, S, Cardinality(S)) : TRUE
  BY <1>1, SumsExist
<1>3. g \in [SUBSET S -> Nat]
  BY <1>2 DEF SumsUpTo
<1>4. \A s \in SUBSET S : g[s] = Rest(f, g, s)
  <2> TAKE s \in SUBSET S
  <2>1. Cardinality(s) <= Cardinality(S)
    BY FS_Subset
  <2> QED BY <1>2, <2>1 DEF SumsUpTo
<1>5. g = [s \in SUBSET S |-> Rest(f, g, s)]
  BY <1>3, <1>4
<1> QED BY <1>5 DEF Sums

\* What its equation says of one set.
LEMMA SumsOf ==
  ASSUME NEW S, IsFiniteSet(S), NEW f, Numbers(f, S)
  PROVE  /\ Sums(f, S)[{}] = 0
         /\ \A s \in SUBSET S : s # {} =>
              /\ First(s) \in s
              /\ Sums(f, S)[s] = f[First(s)] + Sums(f, S)[s \ {First(s)}]
<1>1. ASSUME NEW s \in SUBSET S PROVE Sums(f, S)[s] = Rest(f, Sums(f, S), s)
  <2>1. Sums(f, S) = [u \in SUBSET S |-> Rest(f, Sums(f, S), u)]
    BY SumsEquation
  <2>2. ASSUME NEW g, g = [u \in SUBSET S |-> Rest(f, Sums(f, S), u)]
        PROVE  g[s] = Rest(f, Sums(f, S), s)
    BY <2>2
  <2> QED BY <2>1, <2>2
<1>2. \A s : s # {} => First(s) \in s
  BY DEF First
<1>3. {} \in SUBSET S
  OBVIOUS
<1> QED BY <1>1, <1>2, <1>3 DEF Rest

LEMMA SumsType ==
  ASSUME NEW S, IsFiniteSet(S), NEW f, Numbers(f, S)
  PROVE  \A s \in SUBSET S : Sums(f, S)[s] \in Nat
<1> DEFINE P == {s \in SUBSET S : Sums(f, S)[s] \in Nat}
<1>1. {} \in P
  BY SumsOf
<1>2. ASSUME NEW s \in SUBSET S, s # {}, \A x \in s : s \ {x} \in P PROVE s \in P
  <2>1. First(s) \in s /\ Sums(f, S)[s] = f[First(s)] + Sums(f, S)[s \ {First(s)}]
    BY <1>2, SumsOf
  <2>2. f[First(s)] \in Nat /\ Sums(f, S)[s \ {First(s)}] \in Nat
    BY <1>2, <2>1 DEF Numbers
  <2>3. Sums(f, S)[s] \in Nat
    BY <2>1, <2>2
  <2> QED BY <2>3
<1> HIDE DEF P
<1>3. \A s \in SUBSET S : s \in P
  BY <1>1, <1>2, AllSubsets
<1> QED BY <1>3 DEF P

\* Raising one value by d raises by d the sums over the sets that it is in.
LEMMA SumsRaised ==
  ASSUME NEW S, IsFiniteSet(S), NEW f, Numbers(f, S), NEW a \in S, NEW d \in Nat,
         NEW h, Numbers(h, S), h[a] = f[a] + d, \A x \in S \ {a} : h[x] = f[x]
  PROVE  \A s \in SUBSET S : Sums(h, S)[s] = Sums(f, S)[s] + (IF a \in s THEN d ELSE 0)
<1> DEFINE P == {s \in SUBSET S : Sums(h, S)[s] = Sums(f, S)[s] + (IF a \in s THEN d ELSE 0)}
<1>2. Sums(f, S)[{}] = 0
  BY SumsOf
<1>3. Sums(h, S)[{}] = 0
  BY SumsOf
<1>4. {} \in P
  BY <1>2, <1>3
<1>5. \A s \in SUBSET S : s # {} =>
        /\ First(s) \in s
        /\ Sums(h, S)[s] = h[First(s)] + Sums(h, S)[s \ {First(s)}]
  BY SumsOf
<1>6. \A s \in SUBSET S : s # {} =>
        Sums(f, S)[s] = f[First(s)] + Sums(f, S)[s \ {First(s)}]
  BY SumsOf
<1>7. ASSUME NEW s \in SUBSET S, s # {}, \A x \in s : s \ {x} \in P PROVE s \in P
  <2>1. PICK x \in s : /\ Sums(f, S)[s] = f[x] + Sums(f, S)[s \ {x}]
                       /\ Sums(h, S)[s] = h[x] + Sums(h, S)[s \ {x}]
    BY <1>5, <1>6, <1>7
  <2>2. s \ {x} \in SUBSET S /\ f[x] \in Nat
    BY DEF Numbers
  <2>3. Sums(f, S)[s \ {x}] \in Nat
    BY <2>2, SumsType
  <2>4. Sums(h, S)[s \ {x}] = Sums(f, S)[s \ {x}] + (IF a \in s \ {x} THEN d ELSE 0)
    BY <1>7
  <2>5. CASE x = a
    BY <2>1, <2>2, <2>3, <2>4, <2>5
  <2>6. CASE x # a
    <3>1. h[x] = f[x] /\ (a \in s \ {x} <=> a \in s)
      BY <2>6
    <3> QED BY <2>1, <2>2, <2>3, <2>4, <3>1
  <2> QED BY <2>5, <2>6
<1> HIDE DEF P
<1>8. \A s \in SUBSET S : s \in P
  BY <1>4, <1>7, AllSubsets
<1> QED BY <1>8 DEF P

\* Zeros add up to 0.
LEMMA SumsZero ==
  ASSUME NEW S, IsFiniteSet(S), NEW f, Numbers(f, S), \A t \in S : f[t] = 0
  PROVE  Sums(f, S)[S] = 0
<1> DEFINE P == {s \in SUBSET S : Sums(f, S)[s] = 0}
<1>1. {} \in P
  BY SumsOf
<1>2. ASSUME NEW s \in SUBSET S, s # {}, \A x \in s : s \ {x} \in P PROVE s \in P
  <2>1. First(s) \in s /\ Sums(f, S)[s] = f[First(s)] + Sums(f, S)[s \ {First(s)}]
    BY <1>2, SumsOf
  <2>2. f[First(s)] = 0 /\ Sums(f, S)[s \ {First(s)}] = 0
    BY <1>2, <2>1
  <2> QED BY <2>1, <2>2
<1> HIDE DEF P
<1>3. \A s \in SUBSET S : s \in P
  BY <1>1, <1>2, AllSubsets
<1> QED BY <1>3 DEF P
-----------------------------------------------------------------------------
(* The time of the tests.                                                  *)

Timing == [test : Tests \cup {Unnamed}, elapsed : Nat, durations : [FullName -> Nat]]

\* The durations of the tests, in sum.
Total(k) == SumOf(k.durations, Tests)

\* The tests to come have neither a duration nor the timer, and the timer's
\* test has no duration yet: that no test is timed twice is what keeps the sum
\* in step with the clock.  From the first test on the timer runs.
Timed ==
  /\ timing \in Timing /\ now \in Nat /\ first \in Nat
  /\ ~finished /\ ~again =>
       /\ \A t \in left : timing.durations[t] = 0 /\ t # timing.test
       /\ timing.test # Unnamed => timing.durations[timing.test] = 0
       /\ left = Tests => timing.test = Unnamed
       /\ left # Tests =>
            timing.test # Unnamed /\ timing.elapsed + Total(timing) = now - first

LEMMA TestsAreNamed == Tests \subseteq FullName /\ Unnamed \notin Tests
BY LineCallbackAssumption, EmptyAssumption DEF FullName, Unnamed

LEMMA TotalFacts ==
  ASSUME NEW k \in Timing
  PROVE  /\ Numbers(k.durations, Tests) /\ Total(k) \in Nat
         /\ (\A t \in Tests : k.durations[t] = 0) => Total(k) = 0
<1>1. Numbers(k.durations, Tests)
  BY TestsAreNamed DEF Numbers, Timing
<1>2. Total(k) = Sums(k.durations, Tests)[Tests]
  BY SumIsRecursive DEF Total
<1>3. Sums(k.durations, Tests)[Tests] \in Nat
  BY <1>1, SumsType, LineCallbackAssumption
<1>4. ASSUME \A t \in Tests : k.durations[t] = 0 PROVE Sums(k.durations, Tests)[Tests] = 0
  BY <1>1, <1>4, SumsZero, LineCallbackAssumption
<1> QED BY <1>1, <1>2, <1>3, <1>4

LEMMA TimedInit == Init => Timed
<1> SUFFICES ASSUME Init PROVE Timed
  OBVIOUS
<1>1. /\ timing = [test |-> Unnamed, elapsed |-> 0, durations |-> [t \in FullName |-> 0]]
      /\ now = 0 /\ first = 0 /\ left = Tests
  BY DEF Init, NewTiming
<1>2. timing \in Timing
  BY <1>1 DEF Timing
<1>3. \A t \in Tests : timing.durations[t] = 0 /\ t # timing.test
  BY <1>1, TestsAreNamed
<1> QED BY <1>1, <1>2, <1>3 DEF Timed

\* What a line does to the timer, if the runner hears it and goes on.
LEMMA HearTiming ==
  ASSUME NEW line, Hear(line)
  PROVE  \/ finished' /\ timing' = timing
         \/ ~finished /\ timing' = FeedTiming(timing, line)
BY DEF Hear, HearNothing, HearHang, HearLine, hostVars

\* A CASE line of a test hands the timer over: what the test before it took
\* becomes its duration, and the sum takes over what the timer loses.
LEMMA CaseTiming ==
  ASSUME NEW k \in Timing, NEW t \in Tests
  PROVE  LET n == FeedTiming(k, CaseLine(t[1], t[2]))
         IN  /\ n \in Timing /\ n.test = t /\ n.elapsed = 0
             /\ k.test = Unnamed => n.durations = k.durations
             /\ k.test # Unnamed =>
                  n.durations = [k.durations EXCEPT ![k.test] = k.elapsed]
<1>1. t[1] \in SuiteNames /\ t[2] \in TestNames /\ t = <<t[1], t[2]>>
  BY LineCallbackAssumption
<1>2. t[1] # Empty /\ t[2] # Empty
  BY <1>1, EmptyAssumption
<1> DEFINE n == FeedTiming(k, CaseLine(t[1], t[2]))
<1>3. n = [FinalizeTiming(k) EXCEPT !.test = t, !.elapsed = 0]
  <2> DEFINE l == CaseLine(t[1], t[2])
  <2>1. l.tag = "CASE" /\ l.suite = t[1] /\ l.name = t[2]
    BY DEF CaseLine
  <2>2. l.ok
    BY Zenon DEF CaseLine
  <2> HIDE DEF l
  <2>3. FeedTiming(k, l) = [FinalizeTiming(k) EXCEPT !.test = t, !.elapsed = 0]
    BY <1>1, <1>2, <2>1, <2>2 DEF FeedTiming
  <2> QED BY <2>3 DEF l
<1> HIDE DEF n
<1>4. CASE k.test = Unnamed
  <2>1. n = [k EXCEPT !.test = t, !.elapsed = 0]
    BY <1>3, <1>4 DEF FinalizeTiming
  <2>2. n = [test |-> t, elapsed |-> 0, durations |-> k.durations]
    BY <2>1 DEF Timing
  <2>3. k.durations \in [FullName -> Nat]
    BY DEF Timing
  <2> QED BY <1>4, <2>2, <2>3 DEF Timing, n
<1>5. CASE k.test # Unnamed
  <2>1. n = [test |-> t, elapsed |-> 0,
             durations |-> [k.durations EXCEPT ![k.test] = k.elapsed]]
    BY <1>3, <1>5 DEF FinalizeTiming
  <2>2. k.test \in FullName /\ k.elapsed \in Nat /\ k.durations \in [FullName -> Nat]
    BY <1>5, TestsAreNamed DEF Timing
  <2>3. [k.durations EXCEPT ![k.test] = k.elapsed] \in [FullName -> Nat]
    BY <2>2
  <2> QED BY <1>5, <2>1, <2>3 DEF Timing, n
<1> QED BY <1>4, <1>5 DEF n

\* The sum with one duration, of a test that had none, put in.
LEMMA TotalRaised ==
  ASSUME NEW k \in Timing, NEW n \in Timing, k.test \in Tests, k.durations[k.test] = 0,
         n.durations = [k.durations EXCEPT ![k.test] = k.elapsed]
  PROVE  Total(n) = Total(k) + k.elapsed
<1> DEFINE f == k.durations
           h == n.durations
           a == k.test
           d == k.elapsed
<1>1. Numbers(f, Tests) /\ Numbers(h, Tests)
  BY TotalFacts
<1>2. a \in FullName /\ d \in Nat /\ f \in [FullName -> Nat]
  BY TestsAreNamed DEF Timing
<1>3. h[a] = f[a] + d /\ \A x \in Tests \ {a} : h[x] = f[x]
  BY <1>2, TestsAreNamed
<1>4. a \in Tests /\ IsFiniteSet(Tests)
  BY LineCallbackAssumption
<1>5. Total(k) = Sums(f, Tests)[Tests] /\ Total(n) = Sums(h, Tests)[Tests]
  BY SumIsRecursive DEF Total
<1> HIDE DEF f, h, a, d
<1>6. Sums(h, Tests)[Tests] = Sums(f, Tests)[Tests] + (IF a \in Tests THEN d ELSE 0)
  BY <1>1, <1>2, <1>3, <1>4, SumsRaised
<1> QED BY <1>4, <1>5, <1>6 DEF d

LEMMA TimedCase == ASSUME Timed, LeftType, SayCase PROVE Timed'
<1>1. PICK t \in left : /\ Hear(CaseLine(t[1], t[2]))
                        /\ left' = left \ {t} /\ now' = now
  BY DEF SayCase, Say
<1>2. first' = (IF left = Tests THEN now ELSE first) /\ again' = again /\ t \in Tests
  BY DEF SayCase, LeftType
<1>3. CASE finished' /\ timing' = timing
  BY <1>1, <1>2, <1>3 DEF Timed
<1>4. CASE ~finished /\ timing' = FeedTiming(timing, CaseLine(t[1], t[2]))
  <2>1. /\ timing' \in Timing /\ timing'.test = t /\ timing'.elapsed = 0
        /\ timing.test = Unnamed => timing'.durations = timing.durations
        /\ timing.test # Unnamed =>
             timing'.durations = [timing.durations EXCEPT ![timing.test] = timing.elapsed]
    BY <1>2, <1>4, CaseTiming DEF Timed
  <2>2. now' \in Nat /\ first' \in Nat
    BY <1>1, <1>2 DEF Timed
  <2>3. left' # Tests /\ t # Unnamed /\ \A u \in left' : u \in left /\ u # t
    BY <1>1, <1>2, TestsAreNamed
  <2>4. CASE again
    BY <1>2, <2>1, <2>2, <2>4 DEF Timed
  <2>5. ASSUME ~again
        PROVE  /\ \A u \in left' : timing'.durations[u] = 0 /\ u # timing'.test
               /\ timing'.durations[t] = 0
               /\ timing'.elapsed + Total(timing') = now' - first'
    <3>1. \A u \in left : timing.durations[u] = 0 /\ u # timing.test /\ u \in FullName
      BY <1>4, <2>5, TestsAreNamed DEF Timed, LeftType
    <3>2. CASE left = Tests
      <4>1. timing'.durations = timing.durations
        BY <1>4, <2>1, <2>5, <3>2 DEF Timed
      <4>2. Total(timing') = 0
        BY <2>1, <3>1, <3>2, <4>1, TotalFacts
      <4> QED BY <1>1, <1>2, <2>1, <2>2, <2>3, <3>1, <3>2, <4>1, <4>2
    <3>3. CASE left # Tests
      <4>1. timing.test \in Tests /\ timing.durations[timing.test] = 0 /\ timing \in Timing
        BY <1>4, <2>5, <3>3 DEF Timed, Timing
      <4>2. timing'.durations = [timing.durations EXCEPT ![timing.test] = timing.elapsed]
        BY <2>1, <4>1, TestsAreNamed
      <4>3. Total(timing') = Total(timing) + timing.elapsed
        BY <2>1, <4>1, <4>2, TotalRaised
      <4>4. timing.elapsed + Total(timing) = now - first
        BY <1>4, <2>5, <3>3 DEF Timed
      <4>5. Total(timing) \in Nat /\ timing.elapsed \in Nat
        BY <4>1, TotalFacts DEF Timing
      <4>6. \A u \in left : timing'.durations[u] = 0
        BY <3>1, <4>1, <4>2 DEF Timing
      <4> QED BY <1>1, <1>2, <2>1, <2>3, <3>3, <4>3, <4>4, <4>5, <4>6
    <3> QED BY <3>2, <3>3
  <2> QED BY <1>2, <2>1, <2>2, <2>3, <2>4, <2>5 DEF Timed
<1> QED BY <1>1, <1>3, <1>4, HearTiming

\* Any other line leaves the timer alone.
LEMMA TimedLine ==
  ASSUME Timed, NEW line, Hear(line), line.tag # "CASE", UNCHANGED <<now, first>>,
         left' = left \/ left' = Tests, again' <=> (again \/ left' # left)
  PROVE  Timed'
<1>1. timing' = timing /\ (finished' \/ ~finished)
  BY HearTiming DEF FeedTiming
<1>2. CASE left' = left
  <2>1. again' <=> again
    BY <1>2
  <2> QED BY <1>1, <1>2, <2>1 DEF Timed
<1>3. CASE left' # left
  <2>1. again'
    BY <1>3
  <2> QED BY <1>1, <2>1 DEF Timed
<1> QED BY <1>2, <1>3

LEMMA TimedTick == ASSUME Timed, Tick PROVE Timed'
<1>1. /\ now' = now + 1 /\ timing' = TickTiming(timing)
      /\ UNCHANGED <<finished, again, left, first>>
  BY DEF Tick, devVars
<1>2. timing \in Timing /\ now \in Nat /\ first \in Nat
  BY DEF Timed
<1>3. CASE timing.test = Unnamed
  <2>1. timing' = timing
    BY <1>1, <1>3 DEF TickTiming
  <2> QED BY <1>1, <1>2, <1>3, <2>1 DEF Timed
<1>4. CASE timing.test # Unnamed
  <2>1. /\ timing' \in Timing /\ timing'.test = timing.test
        /\ timing'.durations = timing.durations /\ timing'.elapsed = timing.elapsed + 1
    BY <1>1, <1>2, <1>4 DEF TickTiming, Timing
  <2>2. Total(timing') = Total(timing)
    BY <2>1 DEF Total
  <2>3. Total(timing) \in Nat /\ timing.elapsed \in Nat
    BY <1>2, TotalFacts DEF Timing
  <2>4. ASSUME timing.elapsed + Total(timing) = now - first
        PROVE  timing'.elapsed + Total(timing') = now' - first'
    <3>1. now' - first' = (now - first) + 1
      BY <1>1, <1>2
    <3>2. timing'.elapsed + Total(timing') = (timing.elapsed + 1) + Total(timing)
      BY <2>1, <2>2
    <3>3. (timing.elapsed + 1) + Total(timing) = (timing.elapsed + Total(timing)) + 1
      BY <2>3
    <3> QED BY <2>4, <3>1, <3>2, <3>3
  <2>5. timing' \in Timing /\ now' \in Nat /\ first' \in Nat
    BY <1>1, <1>2, <2>1
  <2>6. ASSUME ~finished, ~again
        PROVE  /\ \A t \in left' : timing'.durations[t] = 0 /\ t # timing'.test
               /\ timing'.durations[timing'.test] = 0
               /\ left' # Tests
               /\ timing'.elapsed + Total(timing') = now' - first'
    <3>1. /\ \A t \in left : timing.durations[t] = 0 /\ t # timing.test
          /\ timing.durations[timing.test] = 0
          /\ left # Tests /\ timing.elapsed + Total(timing) = now - first
      BY <1>4, <2>6 DEF Timed
    <3> QED BY <1>1, <2>1, <2>4, <3>1
  <2> QED BY <1>1, <1>4, <2>1, <2>5, <2>6 DEF Timed
<1> QED BY <1>3, <1>4

LEMMA TimedNext == LeftType /\ Timed /\ [Next]_vars => Timed'
<1> SUFFICES ASSUME LeftType, Timed, [Next]_vars PROVE Timed'
  OBVIOUS
<1>1. CASE SayReady \/ SayText \/ SayTrace \/ SayBusy \/ SayFailure
           \/ SayDisconnect \/ SayReconnect \/ SayReboot \/ SayDone
  <2>1. \E line : /\ Hear(line) /\ line.tag # "CASE" /\ UNCHANGED <<now, first>>
                  /\ (left' = left \/ left' = Tests) /\ (again' <=> (again \/ left' # left))
    <3>1. CASE SayReady
      <4>1. PICK line \in Arriving("READY") : Say(line)
        BY <3>1 DEF SayReady
      <4>2. /\ left' = IF dev' = "run" THEN Tests ELSE left
            /\ again' = (again \/ left' # left) /\ first' = first
        BY <3>1 DEF SayReady
      <4> QED BY <4>1, <4>2, ArrivingType DEF Say, Tag
    <3>2. CASE SayText
      BY <3>2, MsgType DEF SayText, Say, devVars, Tag
    <3>3. CASE SayBusy
      BY <3>3, ArrivingType DEF SayBusy, Say, devVars, Tag
    <3>4. CASE SayFailure
      BY <3>4, MsgType DEF SayFailure, Say, Tag
    <3>5. CASE SayDisconnect
      BY <3>5, ArrivingType DEF SayDisconnect, Say, Tag
    <3>6. CASE SayReconnect
      BY <3>6, ArrivingType DEF SayReconnect, Say, Tag
    <3>7. CASE SayReboot
      <4>1. PICK tag \in {"CRASH", "SLEEP"} : Say(Msg(tag))
        BY <3>7 DEF SayReboot
      <4> QED BY <3>7, <4>1, MsgType DEF SayReboot, Say, Tag
    <3>8. CASE SayDone
      BY <3>8, MsgType DEF SayDone, Say, Tag
    <3>9. CASE SayTrace
      BY <3>9, MsgType DEF SayTrace, Say, devVars, Tag
    <3> QED BY <1>1, <3>1, <3>2, <3>3, <3>4, <3>5, <3>6, <3>7, <3>8, <3>9
  <2> QED BY <2>1, TimedLine
<1>2. CASE SayCase
  BY <1>2, TimedCase
<1>3. CASE Tick
  BY <1>3, TimedTick
<1>4. CASE UNCHANGED <<timing, finished, again, left, now, first>>
  BY <1>4 DEF Timed
<1>5. CASE LoadPlugin \/ NotifyPlugin \/ Setup \/ StartTesting \/ Teardown
  BY <1>4, <1>5 DEF LoadPlugin, NotifyPlugin, Setup, StartTesting, Teardown, hostVars, devVars
<1>6. CASE TeardownCheck
  BY <1>4, <1>6 DEF TeardownCheck, devVars
<1>7. CASE UNCHANGED vars
  BY <1>4, <1>7 DEF vars, hostVars, devVars
<1> QED BY <1>1, <1>2, <1>3, <1>5, <1>6, <1>7 DEF Next

\* While the tests of one round are heard, their durations and the running
\* timer add up to the time since the first CASE:START: the tracker times no
\* test twice and loses no time between two (_finalize_current).
THEOREM NoTimeLost == Spec => []TimeAccounted
<1>1. Timed => TimeAccounted
  BY DEF Timed, TimeAccounted, Total, SumOf
<1> QED BY LeftTypeInit, LeftTypeNext, TimedInit, TimedNext, <1>1, PTL DEF Spec
==============================================================================
