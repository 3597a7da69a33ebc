------------------------ MODULE Orchestration_proofs ------------------------
(***************************************************************************)
(* What holds of every instance of Orchestration: any number of tests with *)
(* any names, any outcomes, both kinds of port, any bound on the lines in  *)
(* flight and on the resumes.  TypeOK is inductive; with it so is          *)
(* HostControl, from which it follows that the rescue branch is dead.      *)
(***************************************************************************)
EXTENDS Orchestration, ReadyRunProtocol_proofs, SequenceTheorems, TLAPS

-----------------------------------------------------------------------------
(* Type correctness.                                                       *)

\* A read hands over a prefix of what has arrived and leaves the rest.
LEMMA SplitType ==
  ASSUME NEW s \in Seq(Line), NEW n \in 1..Len(s)
  PROVE  /\ SubSeq(s, 1, n) \in Seq(Line)
         /\ SubSeq(s, n + 1, Len(s)) \in Seq(Line)
<1>1. Len(s) \in Nat /\ \A i \in 1..Len(s) : s[i] \in Line
  BY ElementOfSeq, LenProperties
<1>2. \A i \in 1..n : s[i] \in Line
  BY <1>1
<1>3. \A i \in (n + 1)..Len(s) : s[i] \in Line
  BY <1>1
<1>4. SubSeq(s, 1, n) \in Seq(Line)
  BY <1>2, SubSeqProperties
<1>5. SubSeq(s, n + 1, Len(s)) \in Seq(Line)
  <2>1. n + 1 \in Int /\ Len(s) \in Int
    BY <1>1
  <2> QED BY <1>3, <2>1, SubSeqProperties
<1> QED BY <1>4, <1>5

\* A diagnostic is filed under a case name.
LEMMA BlamedType ==
  ASSUME NEW p \in Protocol, NEW unknown \in Diagnostic
  PROVE  Blamed(p, unknown) \in CaseName
BY DEF Blamed, CurrentTestFull, Unnamed, CaseName, Protocol

LEMMA CaseType ==
  ASSUME NEW n \in CaseName, NEW status \in Status
  PROVE  Case(n, status) \in [name : CaseName, status : Status]
BY DEF Case

\* Wherever an exception sends the runner, it reports a well-formed case.
LEMMA RunnerErrorType ==
  ASSUME TypeOK, NEW p \in Protocol, RunnerError(p)
  PROVE  /\ hpc' \in Position /\ kind' \in Kind /\ proto' \in Protocol
         /\ cases' \subseteq [name : CaseName, status : Status]
<1>1. Errored(<<Empty, "runner_error">>) \in [name : CaseName, status : Status]
  BY DEF Errored, Case, CaseName, Diagnostic, Status
<1> QED BY <1>1 DEF RunnerError, TypeOK, HostTypeOK, Position

LEMMA SerialExceptionType ==
  ASSUME TypeOK, NEW p \in Protocol, SerialException(p)
  PROVE  /\ hpc' \in Position /\ kind' \in Kind /\ proto' \in Protocol
         /\ cases' \subseteq [name : CaseName, status : Status]
<1>1. Errored(<<Empty, "serial_error">>) \in [name : CaseName, status : Status]
  BY DEF Errored, Case, CaseName, Diagnostic, Status
<1> QED BY <1>1 DEF SerialException, TypeOK, HostTypeOK, Position, Kind

\* Every step of the host thread keeps the types.
LEMMA HostType ==
  ASSUME TypeOK, Host
  PROVE  TypeOK'
<1> USE DEF TypeOK, HostTypeOK, DeviceTypeOK
<1>0. UNCHANGED deviceVars /\ (HostStep \/ DrainTimeout \/ BusyElapses)
  BY DEF Host
<1> USE DEF deviceVars, linkVars
<1>1. ASSUME OpenCycle PROVE TypeOK'
  <2>1. Reset(proto) \in Protocol
    BY MethodType
  <2>2. <<>> \in Seq(Line)
    BY EmptySeq
  <2> QED BY <1>0, <1>1, <2>1, <2>2 DEF OpenCycle, Open, Position
<1>2. ASSUME ReadChunk PROVE TypeOK'
  <2>1. chunk' \in Seq(Line) /\ toHost' \in Seq(Line)
    <3>1. PICK n \in 1..Len(toHost) :
            /\ chunk' = SubSeq(toHost, 1, n)
            /\ toHost' = SubSeq(toHost, n + 1, Len(toHost))
      BY <1>2 DEF ReadChunk
    <3>2. toHost \in Seq(Line)
      OBVIOUS
    <3> QED BY <3>1, <3>2, SplitType
  <2>2. hpc' \in Position
    BY <1>2 DEF ReadChunk, Position
  <2> QED BY <1>0, <1>2, <2>1, <2>2 DEF ReadChunk
<1>3. ASSUME HandleLine PROVE TypeOK'
  <2> DEFINE line == Head(chunk)
             p    == Feed(proto, line)
  <2>1. line \in Line /\ Tail(chunk) \in Seq(Line) /\ <<>> \in Seq(Line)
    BY <1>3, HeadTailProperties, EmptySeq DEF HandleLine
  <2>2. p \in Protocol
    BY <2>1, FeedType
  <2>3. Blamed(p, "crash") \in CaseName /\ Blamed(p, "unknown") \in CaseName
    BY <2>2, BlamedType DEF Diagnostic
  <2>4. Errored(Blamed(p, "crash")) \in [name : CaseName, status : Status]
    BY <2>3, CaseType DEF Errored, Status
  <2>5. /\ proto' = p /\ crash' \in FeedCrash(crash, line)
        /\ finished' = (finished \/ crash' = "triggered")
        /\ cases' = IF finished' /\ ~finished THEN cases \cup {Errored(Blamed(p, "crash"))}
                    ELSE cases
        /\ failures' = IF line.tag = "FAIL"
                       THEN failures \cup {Blamed(p, "unknown")} ELSE failures
        /\ chunk' = IF finished' THEN <<>> ELSE Tail(chunk)
        /\ UNCHANGED <<linkVars, hpc, kind, cmd, target, retries>>
    BY <1>3 DEF HandleLine
  <2>6. crash' \in CrashState
    BY <2>5 DEF FeedCrash, CrashState
  <2> HIDE DEF line, p
  <2>7. /\ finished' \in BOOLEAN
        /\ chunk' \in Seq(Line)
        /\ cases' \subseteq [name : CaseName, status : Status]
        /\ failures' \subseteq CaseName
    BY <2>1, <2>3, <2>4, <2>5
  <2> QED BY <1>0, <2>2, <2>5, <2>6, <2>7
<1>4. ASSUME EndChunk PROVE TypeOK'
  BY <1>0, <1>4 DEF EndChunk, Position
<1>5. ASSUME SendCommand(Powered) PROVE TypeOK'
  <2>1. <<cmd>> \in Seq(Command) /\ CommandSent(proto) \in Protocol
    <3>1. cmd \in Command
      BY DEF HostCommand, Command
    <3> QED BY <3>1, MethodType
  <2>2. toDevice' \in Seq(Command)
    BY <1>5, <2>1, ConcatProperties DEF SendCommand, Write
  <2> QED BY <1>0, <1>5, <2>1, <2>2 DEF SendCommand, Position
<1>6. ASSUME SendFails PROVE TypeOK'
  BY <1>0, <1>6, SerialExceptionType, RunnerErrorType DEF SendFails, PortException
<1>7. ASSUME CycleDone PROVE TypeOK'
  <2>1. Reported \subseteq [name : CaseName, status : Status]
    BY DEF Reported, Case, Status
  <2> QED BY <1>0, <1>7, <2>1 DEF CycleDone, Position
<1>8. ASSUME DeviceError PROVE TypeOK'
  <2>1. Errored(<<Empty, "device_error">>) \in [name : CaseName, status : Status]
    BY DEF Errored, Case, CaseName, Diagnostic, Status
  <2> QED BY <1>0, <1>8, <2>1 DEF DeviceError, Position
<1>9. ASSUME NextRead PROVE TypeOK'
  BY <1>0, <1>9 DEF NextRead, Position
<1>10. ASSUME PortLost PROVE TypeOK'
  <2>1. CASE hpc' \in {"drain", "post"} /\ UNCHANGED <<kind, proto, cases>>
    BY <1>0, <1>10, <2>1 DEF PortLost, Position
  <2>2. CASE PortException(proto)
    BY <1>0, <1>10, <2>2, SerialExceptionType, RunnerErrorType DEF PortLost, PortException
  <2> QED BY <1>10, <2>1, <2>2 DEF PortLost
<1>11. ASSUME PostTest(Powered) PROVE TypeOK'
  <2>1. <<OnDone>> \in Seq(Command)
    <3>1. OnDone \in Command
      BY DEF OnDone, Command
    <3> QED BY <3>1
  <2>2. toDevice' = toDevice \/ toDevice' = toDevice \o <<OnDone>>
    <3>1. IF kind = "phase2" THEN UNCHANGED toDevice ELSE Write(<<OnDone>>, Powered)
      BY <1>11 DEF PostTest
    <3>2. CASE kind = "phase2"
      BY <3>1, <3>2
    <3>3. CASE kind # "phase2"
      <4>1. Write(<<OnDone>>, Powered)
        BY <3>1, <3>3
      <4> QED BY <4>1 DEF Write
    <3> QED BY <3>2, <3>3
  <2>3. toDevice \o <<OnDone>> \in Seq(Command)
    BY <2>1, ConcatProperties
  <2>4. toDevice' \in Seq(Command)
    BY <2>2, <2>3
  <2> QED BY <1>0, <1>11, <2>4 DEF PostTest, Position
<1>12. ASSUME CloseCycle PROVE TypeOK'
  BY <1>0, <1>12, EmptySeq DEF CloseCycle, Close, Position
<1>13. ASSUME ResumeSleeper PROVE TypeOK'
  <2>1. proto.sleeping \in TestNames \cup {Empty}
    BY DEF Protocol
  <2>2. retries' \in [TestNames \cup {Empty} -> 0..MaxSleepRetries]
    BY <1>13, <2>1, RetryAssumption DEF ResumeSleeper
  <2> QED BY <1>0, <1>13, <2>1, <2>2 DEF ResumeSleeper, Position
<1>14. ASSUME GiveUp PROVE TypeOK'
  <2>1. proto.sleeping \in TestNames \cup {Empty}
    BY DEF Protocol
  <2>2. Errored(<<Empty, proto.sleeping>>) \in [name : CaseName, status : Status]
    BY <2>1 DEF Errored, Case, CaseName, Status
  <2> QED BY <1>0, <1>14, <2>1, <2>2 DEF GiveUp, Position
<1>15. ASSUME LoopExit PROVE TypeOK'
  BY <1>0, <1>15 DEF LoopExit, Position
<1>16. ASSUME RunRemaining PROVE TypeOK'
  <2>1. cmd' \in HostCommand
    <3>1. target \in TestNames => ResumeAfter(target) \in HostCommand
      BY DEF ResumeAfter, HostCommand
    <3> QED BY <1>16, <3>1 DEF RunRemaining
  <2>2. hpc' \in Position /\ kind' \in Kind
    BY <1>16 DEF RunRemaining, Position, Kind
  <2> QED BY <1>0, <1>16, <2>1, <2>2 DEF RunRemaining
<1>17. ASSUME Finalize PROVE TypeOK'
  <2>1. EnsureResults \subseteq [name : CaseName, status : Status]
    <3>1. proto.completed \subseteq CaseName
      BY DEF Protocol, FullName, CaseName
    <3> QED BY <3>1 DEF EnsureResults, Case, Status
  <2> QED BY <1>0, <1>17, <2>1, EmptySeq DEF Finalize, Close, Position
<1>18. ASSUME ResolveFails PROVE TypeOK'
  <2>1. Reset(proto) \in Protocol
    BY MethodType
  <2> QED BY <1>0, <1>18, <2>1, EmptySeq, RunnerErrorType DEF ResolveFails
<1>19. ASSUME OpenFails PROVE TypeOK'
  <2>1. Reset(proto) \in Protocol
    BY MethodType
  <2> QED BY <1>0, <1>19, <2>1, EmptySeq, SerialExceptionType DEF OpenFails
<1>20. ASSUME Wake PROVE TypeOK'
  <2>1. proto.sleeping \in TestNames \cup {Empty}
    BY DEF Protocol
  <2> QED BY <1>0, <1>20, <2>1, MethodType DEF Wake, Position, Kind, RunWake, HostCommand
<1>21. ASSUME ReadyTimeout PROVE TypeOK'
  <2>1. Errored(<<Empty, "ready_timeout">>) \in [name : CaseName, status : Status]
    BY DEF Errored, Case, CaseName, Diagnostic, Status
  <2> QED BY <1>0, <1>21, <2>1 DEF ReadyTimeout, Position
<1>22. ASSUME HangTimeout PROVE TypeOK'
  <2>1. Errored(Blamed(proto, "unknown")) \in [name : CaseName, status : Status]
    BY BlamedType, CaseType DEF Errored, Diagnostic, Status
  <2> QED BY <1>0, <1>22, <2>1 DEF HangTimeout, Position
<1>23. ASSUME DrainTimeout PROVE TypeOK'
  BY <1>0, <1>23 DEF DrainTimeout, Position
<1>24. ASSUME BusyElapses PROVE TypeOK'
  BY <1>0, <1>24, MethodType DEF BusyElapses
<1>25. ASSUME CrashBreak PROVE TypeOK'
  BY <1>0, <1>25 DEF CrashBreak, Position
<1> QED
  BY <1>0, <1>1, <1>2, <1>3, <1>4, <1>5, <1>6, <1>7, <1>8, <1>9, <1>10, <1>11,
     <1>12, <1>13, <1>14, <1>15, <1>16, <1>17, <1>18, <1>19, <1>20, <1>21,
     <1>22, <1>23, <1>24, <1>25 DEF HostStep

\* What the device prints is a sequence of lines.
LEMMA EmitType ==
  ASSUME TypeOK, NEW lines \in Seq(Line), Emit(lines)
  PROVE  toHost' \in Seq(Line)
BY ConcatProperties DEF Emit, TypeOK, DeviceTypeOK

LEMMA MsgType ==
  ASSUME NEW tag \in Tag
  PROVE  Msg(tag) \in Line
BY DEF Msg, Line

\* Going down empties the buffers that are lost.
LEMMA GoDownType ==
  ASSUME TypeOK, GoDown
  PROVE  /\ port' \in BOOLEAN /\ link' \in {"closed", "ok", "broken"}
         /\ toHost' \in Seq(Line) /\ toDevice' \in Seq(Command)
BY EmptySeq, LinkAssumption DEF GoDown, TypeOK, DeviceTypeOK

\* A command selects registered tests only.
LEMMA SelectedRegistered ==
  ASSUME NEW skip, NEW c
  PROVE  Selection!Selected([Registry EXCEPT !.skip = skip], c) \subseteq Registered
<1> DEFINE r == [Registry EXCEPT !.skip = skip]
<1>1. DOMAIN r.name = Registered
  BY FirmwareAssumption DEF Registry
<1>2. Selection!Passing(r, c) \subseteq DOMAIN r.name
  BY DEF Selection!Passing, Selection!Tests
<1>3. Selection!Selected(r, c) \subseteq Selection!Passing(r, c)
  BY DEF Selection!Selected
<1> QED BY <1>1, <1>2, <1>3

\* A test that prints its last line and leaves.
LEMMA LeaveType ==
  ASSUME TypeOK, UNCHANGED hostVars, NEW lines \in Seq(Line), NEW outcome,
         NEW to \in DeviceState,
         NEW left \in {"idle", "running", "slept", "ended", "lost"},
         Leave(lines, outcome, to, left)
  PROVE  TypeOK'
<1>1. toHost' \in Seq(Line)
  BY EmitType DEF Leave
<1> QED
  BY <1>1 DEF Leave, TypeOK, HostTypeOK, DeviceTypeOK, hostVars

\* A test that takes the board with it.
LEMMA VanishType ==
  ASSUME TypeOK, UNCHANGED hostVars, NEW outcome, NEW to \in DeviceState,
         Vanish(outcome, to)
  PROVE  TypeOK'
BY GoDownType DEF Vanish, TypeOK, HostTypeOK, DeviceTypeOK, hostVars

\* Every step of the device keeps the types.
LEMMA DeviceType ==
  ASSUME TypeOK, Device
  PROVE  TypeOK'
<1> USE DEF TypeOK, HostTypeOK, DeviceTypeOK
<1>0. UNCHANGED hostVars /\ DeviceStep
  BY DEF Device
<1> USE DEF hostVars
<1>a. \A tag \in Tag : <<Msg(tag)>> \in Seq(Line)
  BY MsgType
<1>1. ASSUME Boot PROVE TypeOK'
  <2>1. toHost' \in Seq(Line)
    BY <1>1, <1>a, EmitType DEF Boot, Tag
  <2> QED BY <1>0, <1>1, <2>1, FirmwareAssumption DEF Boot, DeviceState
<1>2. ASSUME BoardFailure PROVE TypeOK'
  <2>1. toHost' \in Seq(Line)
    BY <1>2, <1>a, EmitType DEF BoardFailure, Tag
  <2> QED BY <1>0, <1>2, <2>1 DEF BoardFailure, DeviceState
<1>3. ASSUME RejectLine PROVE TypeOK'
  <2>1. toHost' \in Seq(Line)
    BY <1>3, <1>a, EmitType DEF RejectLine, Tag
  <2>2. toDevice' \in Seq(Command)
    BY <1>3, HeadTailProperties DEF RejectLine
  <2> QED BY <1>0, <1>3, <2>1, <2>2 DEF RejectLine, deviceVars
<1>4. ASSUME TakeCommand PROVE TypeOK'
  <2>1. toDevice' \in Seq(Command)
    BY <1>4, HeadTailProperties DEF TakeCommand
  <2>2. pending' \subseteq Registered
    BY <1>4, SelectedRegistered DEF TakeCommand
  <2>3. skipMark' \subseteq Registered /\ wake' \in BOOLEAN
    BY <1>4, FirmwareAssumption DEF TakeCommand, CarriesWake
  <2>4. /\ dev' = "run" /\ Emit(<<Msg("TEXT")>>)
        /\ UNCHANGED <<port, link, cur, phase, bad>>
    BY <1>4 DEF TakeCommand
  <2>5. toHost' \in Seq(Line)
    BY <1>a, <2>4, EmitType DEF Tag
  <2> QED BY <1>0, <2>1, <2>2, <2>3, <2>4, <2>5 DEF DeviceState
<1>5. ASSUME StartTest PROVE TypeOK'
  <2>1. PICK t \in pending :
          /\ cur' = t /\ pending' = pending \ {t}
          /\ phase' = [phase EXCEPT ![t] = "running"]
          /\ Emit(<<CaseLine(SuiteOf[t], NameOf[t])>>)
    BY <1>5 DEF StartTest
  <2>2. t \in Registered
    BY <2>1
  <2>3. CaseLine(SuiteOf[t], NameOf[t]) \in Line
    <3>1. SuiteOf[t] \in SuiteNames \cup {Empty} /\ NameOf[t] \in TestNames
      BY <2>2, FirmwareAssumption
    <3> QED BY <3>1 DEF CaseLine, Line, Tag
  <2>4. <<CaseLine(SuiteOf[t], NameOf[t])>> \in Seq(Line)
    BY <2>3
  <2>5. toHost' \in Seq(Line)
    BY <2>1, <2>4, EmitType
  <2>6. UNCHANGED <<port, link, toDevice, dev, skipMark, wake, bad>>
    BY <1>5 DEF StartTest
  <2> QED BY <1>0, <2>1, <2>2, <2>5, <2>6
<1>6. ASSUME RepeatReady PROVE TypeOK'
  <2>1. toHost' \in Seq(Line)
    BY <1>6, <1>a, EmitType DEF RepeatReady, Tag
  <2> QED BY <1>0, <1>6, <2>1 DEF RepeatReady, deviceVars
<1>7. ASSUME EndTest PROVE TypeOK'
  BY <1>0, <1>7 DEF EndTest, Running, linkVars
<1>8. ASSUME SignalSleep \/ SignalRestart \/ Crash PROVE TypeOK'
  <2>1. /\ <<Msg("SLEEP")>> \in Seq(Line) /\ <<Msg("RESTART")>> \in Seq(Line)
        /\ <<Msg("CRASH"), Msg("TRACE")>> \in Seq(Line)
    BY MsgType DEF Tag
  <2> QED BY <1>0, <1>8, <2>1, LeaveType DEF SignalSleep, SignalRestart, Crash, DeviceState
<1>9. ASSUME Hang PROVE TypeOK'
  BY <1>0, <1>9 DEF Hang, Running, DeviceState, linkVars
<1>10. ASSUME SilentReboot \/ Unplug PROVE TypeOK'
  BY <1>0, <1>10, VanishType DEF SilentReboot, Unplug, DeviceState
<1>11. ASSUME AssertionFails PROVE TypeOK'
  <2>1. toHost' \in Seq(Line)
    BY <1>11, <1>a, EmitType DEF AssertionFails, Tag
  <2> QED BY <1>0, <1>11, <2>1 DEF AssertionFails, Running
<1>12. ASSUME SignalBusy \/ SignalError PROVE TypeOK'
  <2>1. toHost' \in Seq(Line)
    BY <1>12, <1>a, EmitType DEF SignalBusy, SignalError, Announce, Tag
  <2> QED BY <1>0, <1>12, <2>1 DEF SignalBusy, SignalError, Announce, deviceVars
<1>13. ASSUME FinishCycle PROVE TypeOK'
  <2>1. <<Msg("DONE"), Msg("READY")>> \in Seq(Line)
    BY MsgType DEF Tag
  <2>2. toHost' \in Seq(Line)
    BY <1>13, <2>1, EmitType DEF FinishCycle
  <2> QED BY <1>0, <1>13, <2>2 DEF FinishCycle, DeviceState
<1>14. ASSUME PowerDown PROVE TypeOK'
  BY <1>0, <1>14, GoDownType DEF PowerDown, DeviceState
<1>15. ASSUME WakeUp PROVE TypeOK'
  BY <1>0, <1>15 DEF WakeUp, DeviceState, linkVars
<1>16. ASSUME ResetOnOpen PROVE TypeOK'
  BY <1>0, <1>16, GoDownType DEF ResetOnOpen, DeviceState
<1> QED
  BY <1>0, <1>1, <1>2, <1>3, <1>4, <1>5, <1>6, <1>7, <1>8, <1>9, <1>10, <1>11,
     <1>12, <1>13, <1>14, <1>15, <1>16 DEF DeviceStep, LeaveTest

\* The initial state is well typed.
LEMMA InitType == Init => TypeOK
<1> SUFFICES ASSUME Init PROVE TypeOK
  OBVIOUS
<1>1. NewProtocol \in Protocol
  BY DEF NewProtocol, Protocol, ProtocolState
<1>2. HostTypeOK
  <2>1. chunk \in Seq(Line)
    BY EmptySeq DEF Init, HostInit
  <2>2. retries \in [TestNames \cup {Empty} -> 0..MaxSleepRetries]
    BY RetryAssumption DEF Init, HostInit
  <2>3. cmd \in HostCommand
    BY DEF Init, HostInit, RunAll, HostCommand
  <2> QED
    BY <1>1, <2>1, <2>2, <2>3
    DEF Init, HostInit, HostTypeOK, Position, Kind, CrashState
<1>3. DeviceTypeOK
  BY EmptySeq, FirmwareAssumption
  DEF Init, DeviceInit, LinkInit, DeviceTypeOK, DeviceState
<1> QED BY <1>2, <1>3 DEF TypeOK

\* A step that changes nothing keeps the types.
LEMMA StutterType == TypeOK /\ UNCHANGED vars => TypeOK'
BY DEF TypeOK, HostTypeOK, DeviceTypeOK, vars, hostVars, deviceVars, linkVars

\* The variables of every instance keep their types in every behaviour: the
\* buffers hold lines and commands only, a case is filed under a name or a
\* diagnostic, and no test is resumed more often than stage_testing allows.
THEOREM TypeCorrect == Spec => []TypeOK
<1>1. TypeOK /\ [Next]_vars => TypeOK'
  BY HostType, DeviceType, StutterType DEF Next, Terminated
<1> QED BY <1>1, InitType, PTL DEF Spec
-----------------------------------------------------------------------------
(* The control of the host.                                                *)

\* When the host reads in its main loop it has nothing left to answer.
ReadsUnanswering == hpc = "read" => proto.state \in {"WAITING_FOR_READY", "RUNNING"}

\* RescueUnreached needs ReadsUnanswering: the exception of a lost port is
\* raised in "read" with a protocol that is not RUNNING, where it could only
\* be SLEEPING for the rescue branch to be taken.
HostControl == ReadsUnanswering /\ RescueUnreached

\* An exception raised outside RUNNING and SLEEPING ends the run or retries.
LEMMA ExceptionControl ==
  ASSUME NEW p, PortException(p), p.state \notin {"SLEEPING", "RUNNING"}
  PROVE  hpc' \in {"open", "final"}
BY DEF PortException, SerialException, RunnerError

\* Every step of the host keeps the control invariant.
LEMMA HostControlStep ==
  ASSUME TypeOK, HostControl, HostStep \/ DrainTimeout \/ BusyElapses
  PROVE  HostControl'
<1> USE DEF HostControl, ReadsUnanswering, RescueUnreached
<1>1. proto \in Protocol
  BY DEF TypeOK, HostTypeOK
<1>2. Reset(proto).state = "WAITING_FOR_READY"
  BY DEF Reset, NewProtocol
<1>3. CASE OpenCycle
  BY <1>2, <1>3 DEF OpenCycle
<1>4. CASE SendCommand(Powered)
  <2>1. proto' = CommandSent(proto) /\ hpc' \in {"drain", "read"}
        /\ proto.state = "READY"
    BY <1>4 DEF SendCommand
  <2>2. CommandSent(proto).state = "RUNNING"
    BY <1>1, <2>1 DEF CommandSent, Protocol
  <2> QED BY <2>1, <2>2
<1>5. CASE SendFails
  BY <1>5, ExceptionControl DEF SendFails
<1>6. CASE OpenFails
  BY <1>2, <1>6, ExceptionControl DEF OpenFails, PortException
<1>7. CASE PortLost
  <2>1. CASE hpc' \in {"drain", "post"}
    BY <2>1
  <2>2. CASE hpc = "read" /\ proto.state # "RUNNING" /\ PortException(proto)
    BY <2>2, ExceptionControl
  <2> QED BY <1>7, <2>1, <2>2 DEF PortLost
<1>8. CASE NextRead
  BY <1>8 DEF NextRead
<1>9. CASE BusyElapses
  BY <1>1, <1>9 DEF BusyElapses, BusyExpired, Protocol
<1>10. CASE ReadChunk \/ HandleLine \/ EndChunk \/ CycleDone \/ DeviceError
  BY <1>10 DEF ReadChunk, HandleLine, EndChunk, CycleDone, DeviceError
<1>11. CASE PostTest(Powered) \/ CloseCycle \/ DrainTimeout \/ ResolveFails
  BY <1>11 DEF PostTest, CloseCycle, DrainTimeout, ResolveFails, RunnerError
<1>12. CASE ResumeSleeper \/ GiveUp \/ LoopExit \/ RunRemaining \/ Finalize \/ Wake
  BY <1>12 DEF ResumeSleeper, GiveUp, LoopExit, RunRemaining, Finalize, Wake
<1>13. CASE ReadyTimeout \/ HangTimeout \/ CrashBreak
  BY <1>13 DEF ReadyTimeout, HangTimeout, CrashBreak
<1> QED
  BY <1>3, <1>4, <1>5, <1>6, <1>7, <1>8, <1>9, <1>10, <1>11, <1>12, <1>13
  DEF HostStep

\* The control invariant holds in every reachable state.
LEMMA ControlInvariant == Spec => []HostControl
<1>1. Init => HostControl
  BY DEF Init, HostInit, HostControl, ReadsUnanswering, RescueUnreached
<1>2. TypeOK /\ HostControl /\ [Next]_vars => HostControl'
  <2> SUFFICES ASSUME TypeOK, HostControl, [Next]_vars PROVE HostControl'
    OBVIOUS
  <2>1. CASE Host
    BY <2>1, HostControlStep DEF Host
  <2>2. CASE UNCHANGED hostVars
    BY <2>2 DEF hostVars, HostControl, ReadsUnanswering, RescueUnreached
  <2>3. UNCHANGED vars => UNCHANGED hostVars
    BY DEF vars
  <2> QED BY <2>1, <2>2, <2>3 DEF Next, Device, Terminated
<1> QED BY <1>1, <1>2, TypeCorrect, PTL DEF Spec

\* The except branch of stage_testing that resumes a device it believes asleep
\* is dead code under every fault the model has, although its comment calls the
\* case expected: no lost port, failed open or failed write reaches it.
THEOREM RescueIsDead == Spec => []RescueUnreached
<1>1. HostControl => RescueUnreached
  BY DEF HostControl
<1> QED BY <1>1, ControlInvariant, PTL
=============================================================================
