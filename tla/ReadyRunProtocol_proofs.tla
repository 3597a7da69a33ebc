----------------------- MODULE ReadyRunProtocol_proofs -----------------------
(***************************************************************************)
(* What feed() and the methods of the host's protocol record keep, of any  *)
(* record and any line: its type.  Cited by the proofs about the modules   *)
(* that own a host.                                                        *)
(***************************************************************************)
EXTENDS ReadyRunProtocol, TLAPS

\* A case line with a name: the suite stays or changes, the test is recorded.
LEMMA CaseStartType ==
  ASSUME NEW p \in Protocol, NEW line \in Line
  PROVE  CaseStart(p, line) \in Protocol
<1>1. CASE line.name = Empty
  BY <1>1 DEF CaseStart, Protocol, Line
<1>2. CASE line.name # Empty
  <2> DEFINE suite == IF line.suite # Empty THEN line.suite ELSE p.suite
  <2>1. suite \in SuiteNames \cup {Empty} /\ line.name \in TestNames
    BY <1>2 DEF Protocol, Line
  <2>2. p.completed \cup {<<suite, line.name>>} \in SUBSET FullName
    BY <2>1 DEF Protocol, FullName
  <2> HIDE DEF suite
  <2>3. [p EXCEPT !.suite = suite, !.name = line.name,
                  !.completed = @ \cup {<<suite, line.name>>}] \in Protocol
    BY <2>1, <2>2 DEF Protocol
  <2> QED BY <1>2, <2>3 DEF CaseStart, suite
<1> QED BY <1>1, <1>2

\* feed() leaves a protocol state behind, whatever line it is given.
LEMMA FeedType ==
  ASSUME NEW p \in Protocol, NEW line \in Line
  PROVE  Feed(p, line) \in Protocol
<1>1. FeedWaiting(p, line) \in Protocol
  BY DEF FeedWaiting, Protocol, ProtocolState
<1>2. FeedReady(p, line) \in Protocol
  BY DEF FeedReady, Protocol, ProtocolState
<1>3. FeedRunning(p, line) \in Protocol
  <2>1. CaseStart(p, line) \in Protocol
    BY CaseStartType
  <2>2. Sleep(p) \in Protocol
    BY DEF Sleep, Protocol, ProtocolState
  <2>3. /\ [p EXCEPT !.state = "READY"] \in Protocol /\ [p EXCEPT !.busy = TRUE] \in Protocol
        /\ [p EXCEPT !.state = "FINISHED"] \in Protocol
        /\ [p EXCEPT !.state = "ERROR"] \in Protocol
    BY DEF Protocol, ProtocolState
  <2> QED BY <2>1, <2>2, <2>3 DEF FeedRunning
<1> QED BY <1>1, <1>2, <1>3 DEF Feed

\* So do the methods the runner calls.
LEMMA MethodType ==
  ASSUME NEW p \in Protocol
  PROVE  /\ CommandSent(p) \in Protocol
         /\ ResetForWake(p) \in Protocol
         /\ Reset(p) \in Protocol
         /\ BusyExpired(p) \in Protocol
BY DEF CommandSent, ResetForWake, Reset, BusyExpired, NewProtocol, Protocol,
       ProtocolState
==============================================================================
