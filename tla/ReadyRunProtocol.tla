------------------------- MODULE ReadyRunProtocol -------------------------
(***************************************************************************)
(* The host's view of the READY/RUN/DONE protocol: class ReadyRunProtocol  *)
(* of src/etst/ready_run_protocol.py, as operators on one record.  The     *)
(* modules that own a host (Orchestration, Handshake) keep the record in a *)
(* variable and apply the operators where the runner calls the methods.    *)
(*                                                                         *)
(* Abstractions.  A line is a record: its tag, whether parse_line left     *)
(* crc_valid other than False, and the suite and name it carries.  A line  *)
(* that is not an ETST line has tag "TEXT".  Test counts, sleep durations, *)
(* per-test timeouts and error texts are data no transition depends on and *)
(* are left out; accumulated ARGS are counted, and completed_tests is the  *)
(* set of its members (the list never holds a name twice).  The busy       *)
(* deadline is a flag: set by BUSY, cleared by the passing of time.        *)
(***************************************************************************)
EXTENDS Naturals

CONSTANTS TestNames,   \* the test case names a device may report
          SuiteNames,  \* the suite names a device may report
          Empty        \* the empty string: no name, no suite

ASSUME EmptyAssumption == Empty \notin TestNames /\ Empty \notin SuiteNames

ProtocolState ==
  {"WAITING_FOR_READY", "READY", "RUNNING", "SLEEPING", "FINISHED", "ERROR"}

Tag == {"READY", "ARGS", "CASE", "SLEEP", "RESTART", "BUSY", "DONE", "ERROR",
        "FAIL", "CRASH", "TRACE", "TEXT", "DISCONNECT", "RECONNECT"}

Line == [tag : Tag, ok : BOOLEAN,
         suite : SuiteNames \cup {Empty}, name : TestNames \cup {Empty}]

Msg(tag) == [tag |-> tag, ok |-> TRUE, suite |-> Empty, name |-> Empty]

CaseLine(suite, name) ==
  [tag |-> "CASE", ok |-> TRUE, suite |-> suite, name |-> name]

\* A full test name: suite and name.  Unnamed is the "" that
\* current_test_full returns as long as the suite or the name is empty.
FullName == (SuiteNames \cup {Empty}) \X TestNames
Unnamed  == <<Empty, Empty>>

Protocol ==
  [state : ProtocolState, suite : SuiteNames \cup {Empty},
   name : TestNames \cup {Empty}, sleeping : TestNames \cup {Empty},
   completed : SUBSET FullName, busy : BOOLEAN, args : Nat]

NewProtocol ==
  [state |-> "WAITING_FOR_READY", suite |-> Empty, name |-> Empty,
   sleeping |-> Empty, completed |-> {}, busy |-> FALSE, args |-> 0]

CurrentTestFull(p) ==
  IF p.suite # Empty /\ p.name # Empty THEN <<p.suite, p.name>> ELSE Unnamed
-----------------------------------------------------------------------------
(* feed(), by the state the line finds the protocol in.                    *)

FeedWaiting(p, line) ==
  IF line.tag = "READY" /\ line.ok
  THEN [p EXCEPT !.state = "READY", !.args = 0]
  ELSE p

FeedReady(p, line) ==
  CASE line.tag = "ARGS"  /\ line.ok -> [p EXCEPT !.args = @ + 1]
    [] line.tag = "ERROR" /\ line.ok -> [p EXCEPT !.state = "ERROR"]
    [] OTHER -> p

\* Mutant: the name of the first test sticks.
CaseStartOnce(p, line) ==
  IF p.name # Empty THEN p
  ELSE [p EXCEPT !.suite = line.suite, !.name = line.name,
                 !.completed = @ \cup {<<line.suite, line.name>>}]

\* ETST:CASE:START: an empty suite keeps the suite of the previous case.
CaseStart(p, line) ==
  LET suite == IF line.suite # Empty THEN line.suite ELSE p.suite
  IN  IF line.name = Empty
      THEN [p EXCEPT !.suite = suite]
      ELSE [p EXCEPT !.suite = suite, !.name = line.name,
                     !.completed = @ \cup {<<suite, line.name>>}]

\* ETST:SLEEP and ETST:RESTART share the sleep flow.
Sleep(p) == [p EXCEPT !.state = "SLEEPING", !.sleeping = p.name]

\* Mutant: no READY asks for the command again.
CommandLostNever(p, line) == FALSE

\* A READY while RUNNING means the command was lost, unless a test has
\* already started: then the line falls through every branch of feed.
CommandLost(p, line) == line.tag = "READY" /\ p.name = Empty

FeedRunning(p, line) ==
  IF ~line.ok THEN p
  ELSE CASE CommandLost(p, line)              -> [p EXCEPT !.state = "READY"]
         [] line.tag = "CASE"                 -> CaseStart(p, line)
         [] line.tag \in {"SLEEP", "RESTART"} -> Sleep(p)
         [] line.tag = "BUSY"                 -> [p EXCEPT !.busy = TRUE]
         [] line.tag = "DONE"                 -> [p EXCEPT !.state = "FINISHED"]
         [] line.tag = "ERROR"                -> [p EXCEPT !.state = "ERROR"]
         [] OTHER                             -> p

Feed(p, line) ==
  CASE p.state = "WAITING_FOR_READY" -> FeedWaiting(p, line)
    [] p.state = "READY"             -> FeedReady(p, line)
    [] p.state = "RUNNING"           -> FeedRunning(p, line)
    [] OTHER                         -> p
-----------------------------------------------------------------------------
\* Mutant: command_sent() is not called.
CommandSentForgotten(p) == p

CommandSent(p) ==
  IF p.state = "READY" THEN [p EXCEPT !.state = "RUNNING"] ELSE p

ResetForWake(p) ==
  IF p.state = "SLEEPING" THEN [p EXCEPT !.state = "WAITING_FOR_READY"] ELSE p

\* reset() keeps completed_tests and the busy deadline.
Reset(p) ==
  [NewProtocol EXCEPT !.completed = p.completed, !.busy = p.busy]

BusyExpired(p) == [p EXCEPT !.busy = FALSE]
=============================================================================
