--------------------------- MODULE SleepFlow_proofs ---------------------------
(***************************************************************************)
(* What an orchestrated run executes and what it reports, for every        *)
(* instance of Orchestration: any number of tests, any bound on the lines  *)
(* in flight and on the resumes, both kinds of port, and the faults the    *)
(* hypotheses let through.                                                 *)
(*                                                                         *)
(* Host and device are never in the same place: what one of them does now  *)
(* rests on lines the other sent some time ago.  The invariant therefore   *)
(* speaks of Flight, the lines the host has still to handle, and of the    *)
(* test the protocol will name when it comes to a given line (Current).    *)
(*                                                                         *)
(* IInv, the base: which lines can be on their way in which position of    *)
(* the host and state of the device, and which tests are finished then.    *)
(* On top of it, each with its invariant: the tests resumed and executed   *)
(* again; the filters that reach the device with every RUN (Filtered); the *)
(* failures on their way to the report (FailLines, FailCases) and the ways *)
(* a run ends (Endings); the tests a closed cycle leaves finished (Whole); *)
(* what is said of a test that has begun, until the report names it        *)
(* (Earned).                                                               *)
(***************************************************************************)
EXTENDS Orchestration_proofs, FiniteSetTheorems

-----------------------------------------------------------------------------
(* Hypotheses.                                                             *)

\* Wake cycles and RESUME_AFTER identify a test by its bare name.
UniqueNames == \A t, u \in Registered : NameOf[t] = NameOf[u] => t = u

\* The host does not stop waiting while a test executes: no test outlasts the
\* hang deadline or goes on after signal_error.
Attended == "slow" \notin Outcomes /\ "error" \notin Outcomes

\* The crash detector is never reset: after a crash, the lines of a later
\* cycle are dropped, so there must be no later cycle.
CrashesLast == "crash" \in Outcomes => "sleep" \notin Outcomes /\ "restart" \notin Outcomes

\* A reset under an idle device is one the host notices by the lost port.
ResetsNoticed == "reset" \in Outcomes => UsbCdc

Orderly == UniqueNames /\ Attended /\ CrashesLast /\ ResetsNoticed
-----------------------------------------------------------------------------
(* The lines on their way to the host.                                     *)

Flight == chunk \o toHost

Leaving == {"SLEEP", "RESTART"}
Talk    == {"CASE", "FAIL", "BUSY", "TEXT"}
Boots   == {"READY", "ERROR"}

Only(s, tags) == \A i \in 1..Len(s) : s[i].tag \in tags
None(s, tags) == \A i \in 1..Len(s) : s[i].tag \notin tags

\* What the device prints: intact lines, and a CASE:START with a name.
Printed(s) == \A i \in 1..Len(s) : s[i].ok /\ (s[i].tag = "CASE" => s[i].name # Empty)

\* When the host comes to line i of s, it knows of some test that has started.
Introduced(p, s, i) ==
  p.name # Empty \/ \E j \in 1..(i - 1) : s[j].tag = "CASE"

\* When the host comes to line i of s, the protocol names test t.
Names(p, t) == p.name = NameOf[t] /\ (SuiteOf[t] # Empty => p.suite = SuiteOf[t])
Current(p, s, i, t) ==
  \/ \E j \in 1..(i - 1) : /\ s[j] = CaseLine(SuiteOf[t], NameOf[t])
                           /\ \A k \in (j + 1)..(i - 1) : s[k].tag # "CASE"
  \/ Names(p, t) /\ \A k \in 1..(i - 1) : s[k].tag # "CASE"

\* No READY of s is taken for a lost command, and no crash comes before the
\* test that caused it.
Guarded(p, s) ==
  \A i \in 1..Len(s) :
    /\ s[i].tag = "READY" =>
         Introduced(p, s, i) \/ \E j \in 1..(i - 1) : s[j].tag = "DONE"
    /\ s[i].tag = "CRASH" => Introduced(p, s, i)

\* Nor will the next READY be.
Closed(p, s) ==
  Introduced(p, s, Len(s) + 1) \/ \E j \in 1..Len(s) : s[j].tag = "DONE"

\* Line k of s takes the device down; what comes behind it is from the next boot.
LeavesAt(s, k) ==
  /\ k \in 1..Len(s) /\ s[k].tag \in Leaving
  /\ \A i \in 1..(k - 1) : s[i].tag \in Talk
  /\ \A i \in (k + 1)..Len(s) : s[i].tag \in Boots

\* A panic dump interrupts a test, and none is cut off.
Dumped(s) ==
  \A i \in 1..Len(s) : s[i].tag = "CRASH" =>
    /\ i + 1 \in 1..Len(s) /\ s[i + 1].tag = "TRACE"
    /\ \A j \in 1..(i - 1) : s[j].tag \in Talk
-----------------------------------------------------------------------------
\* Lines appended.
LEMMA Appended ==
  ASSUME NEW s \in Seq(Line), NEW x \in Seq(Line)
  PROVE  /\ s \o x \in Seq(Line) /\ Len(s \o x) = Len(s) + Len(x)
         /\ Len(s) \in Nat /\ Len(x) \in Nat
         /\ \A i \in 1..Len(s) : (s \o x)[i] = s[i]
         /\ \A i \in 1..Len(x) : (s \o x)[Len(s) + i] = x[i]
<1>1. Len(s) \in Nat /\ Len(x) \in Nat
  BY LenProperties
<1>2. /\ s \o x \in Seq(Line) /\ Len(s \o x) = Len(s) + Len(x)
      /\ \A i \in 1..(Len(s) + Len(x)) :
           (s \o x)[i] = IF i <= Len(s) THEN s[i] ELSE x[i - Len(s)]
  BY ConcatProperties
<1> QED BY <1>1, <1>2

\* What comes later does not change what the host knows at a line.
LEMMA AppendedKnown ==
  ASSUME NEW s \in Seq(Line), NEW x \in Seq(Line), NEW p,
         NEW i \in 1..(Len(s) + 1)
  PROVE  /\ Introduced(p, s, i) <=> Introduced(p, s \o x, i)
         /\ \A t : Current(p, s, i, t) <=> Current(p, s \o x, i, t)
<1> DEFINE r == s \o x
<1>1. Len(s) \in Nat /\ \A j \in 1..Len(s) : r[j] = s[j]
  BY Appended
<1>2. \A j \in 1..(i - 1) : r[j] = s[j]
  BY <1>1
<1> HIDE DEF r
<1>3. Introduced(p, s, i) <=> Introduced(p, r, i)
  BY <1>2 DEF Introduced
<1>4. ASSUME NEW t PROVE Current(p, s, i, t) <=> Current(p, r, i, t)
  <2>1. \A j \in 1..(i - 1) : \A k \in (j + 1)..(i - 1) : k \in 1..(i - 1)
    BY <1>1
  <2> QED BY <1>2, <2>1 DEF Current
<1> QED BY <1>3, <1>4 DEF r

\* One more line.
LEMMA OneMore ==
  ASSUME NEW s \in Seq(Line), NEW l \in Line, NEW p
  PROVE  /\ s \o <<l>> \in Seq(Line) /\ s \o <<l>> # <<>>
         /\ Len(s) \in Nat /\ Len(s \o <<l>>) = Len(s) + 1
         /\ (s \o <<l>>)[Len(s) + 1] = l
         /\ \A i \in 1..Len(s) : (s \o <<l>>)[i] = s[i]
<1>1. <<l>> \in Seq(Line) /\ Len(<<l>>) = 1 /\ <<l>>[1] = l
  OBVIOUS
<1>2. /\ s \o <<l>> \in Seq(Line) /\ Len(s \o <<l>>) = Len(s) + 1
      /\ Len(s) \in Nat
      /\ \A i \in 1..Len(s) : (s \o <<l>>)[i] = s[i]
      /\ (s \o <<l>>)[Len(s) + 1] = l
  BY <1>1, Appended
<1>3. s \o <<l>> # <<>>
  BY <1>2, EmptySeq
<1> QED BY <1>2, <1>3

\* What one more line does to the properties of the lines.
LEMMA OneMoreKept ==
  ASSUME NEW s \in Seq(Line), NEW l \in Line, NEW p
  PROVE  LET r == s \o <<l>> IN
         /\ \A tags : Only(s, tags) /\ l.tag \in tags => Only(r, tags)
         /\ \A tags : None(s, tags) /\ l.tag \notin tags => None(r, tags)
         /\ Printed(s) /\ l.ok /\ (l.tag = "CASE" => l.name # Empty) => Printed(r)
         /\ Guarded(p, s) /\ l.tag \notin {"READY", "CRASH"} => Guarded(p, r)
         /\ Guarded(p, s) /\ l.tag = "READY" /\ Closed(p, s) => Guarded(p, r)
         /\ Guarded(p, s) /\ Introduced(p, s, Len(s) + 1) => Guarded(p, r)
         /\ Closed(p, s) \/ l.tag \in {"CASE", "DONE"} => Closed(p, r)
         /\ Only(s, Talk) /\ l.tag \in Leaving => LeavesAt(r, Len(s) + 1)
         /\ \A k : LeavesAt(s, k) /\ l.tag \in Boots => LeavesAt(r, k)
         /\ Dumped(s) /\ l.tag # "CRASH" => Dumped(r)
<1> DEFINE r == s \o <<l>>
<1>1. /\ r \in Seq(Line) /\ r # <<>> /\ Len(s) \in Nat /\ Len(r) = Len(s) + 1
      /\ r[Len(s) + 1] = l /\ \A i \in 1..Len(s) : r[i] = s[i]
  BY OneMore
<1>2. \A i \in 1..(Len(s) + 1) : Introduced(p, s, i) <=> Introduced(p, r, i)
  <2>1. <<l>> \in Seq(Line)
    OBVIOUS
  <2> QED BY <2>1, AppendedKnown
<1> HIDE DEF r
<1>3. \A i \in 1..Len(r) : i \in 1..Len(s) \/ i = Len(s) + 1
  BY <1>1
<1>4. \A tags : Only(s, tags) /\ l.tag \in tags => Only(r, tags)
  BY <1>1, <1>3 DEF Only
<1>5. \A tags : None(s, tags) /\ l.tag \notin tags => None(r, tags)
  BY <1>1, <1>3 DEF None
<1>6. Printed(s) /\ l.ok /\ (l.tag = "CASE" => l.name # Empty) => Printed(r)
  BY <1>1, <1>3 DEF Printed
<1>7. ASSUME Guarded(p, s), NEW i \in 1..Len(s)
      PROVE  /\ r[i].tag = "READY" =>
                  Introduced(p, r, i) \/ \E j \in 1..(i - 1) : r[j].tag = "DONE"
             /\ r[i].tag = "CRASH" => Introduced(p, r, i)
  <2>1. i \in 1..(Len(s) + 1) /\ \A j \in 1..(i - 1) : r[j] = s[j]
    BY <1>1
  <2> QED BY <1>1, <1>2, <1>7, <2>1 DEF Guarded
<1>8. Guarded(p, s) /\ l.tag \notin {"READY", "CRASH"} => Guarded(p, r)
  BY <1>1, <1>3, <1>7 DEF Guarded
<1>9. Len(s) + 1 \in 1..(Len(s) + 1) /\ (Len(s) + 1) - 1 = Len(s)
  BY <1>1
<1>10. Guarded(p, s) /\ l.tag = "READY" /\ Closed(p, s) => Guarded(p, r)
  <2> SUFFICES ASSUME Guarded(p, s), l.tag = "READY", Closed(p, s)
               PROVE  Guarded(p, r)
    OBVIOUS
  <2>1. \/ Introduced(p, r, Len(s) + 1)
        \/ \E j \in 1..((Len(s) + 1) - 1) : r[j].tag = "DONE"
    BY <1>1, <1>2, <1>9 DEF Closed
  <2> QED BY <1>1, <1>3, <1>7, <2>1 DEF Guarded
<1>11. Guarded(p, s) /\ Introduced(p, s, Len(s) + 1) => Guarded(p, r)
  BY <1>1, <1>2, <1>3, <1>7, <1>9 DEF Guarded
<1>12. Closed(p, s) \/ l.tag \in {"CASE", "DONE"} => Closed(p, r)
  <2>1. CASE Introduced(p, s, Len(s) + 1)
    <3>1. Introduced(p, r, Len(r) + 1)
      BY <1>1, <2>1 DEF Introduced
    <3> QED BY <3>1 DEF Closed
  <2>2. CASE \E j \in 1..Len(s) : s[j].tag = "DONE"
    BY <1>1, <2>2 DEF Closed
  <2>3. CASE l.tag = "CASE"
    <3>1. Len(s) + 1 \in 1..((Len(r) + 1) - 1)
      BY <1>1
    <3>2. Introduced(p, r, Len(r) + 1)
      BY <1>1, <2>3, <3>1 DEF Introduced
    <3> QED BY <3>2 DEF Closed
  <2>4. CASE l.tag = "DONE"
    <3>1. Len(s) + 1 \in 1..Len(r)
      BY <1>1
    <3> QED BY <1>1, <2>4, <3>1 DEF Closed
  <2> QED BY <2>1, <2>2, <2>3, <2>4 DEF Closed
<1>13. Only(s, Talk) /\ l.tag \in Leaving => LeavesAt(r, Len(s) + 1)
  BY <1>1, <1>3 DEF Only, LeavesAt
<1>14. ASSUME NEW k, LeavesAt(s, k), l.tag \in Boots PROVE LeavesAt(r, k)
  BY <1>1, <1>3, <1>14 DEF LeavesAt
<1>15. ASSUME Dumped(s), l.tag # "CRASH" PROVE Dumped(r)
  <2>1. \A i \in 1..Len(s) : \A j \in 1..(i - 1) : j \in 1..Len(s)
    BY <1>1
  <2>2. \A i \in 1..Len(r) : r[i].tag = "CRASH" => i \in 1..Len(s) /\ s[i].tag = "CRASH"
    BY <1>1, <1>3, <1>15
  <2>3. \A i \in 1..Len(s) : i + 1 \in 1..Len(s) => i + 1 \in 1..Len(r)
    BY <1>1
  <2> QED BY <1>1, <1>15, <2>1, <2>2, <2>3 DEF Dumped
<1> QED BY <1>4, <1>5, <1>6, <1>8, <1>10, <1>11, <1>12, <1>13, <1>14, <1>15 DEF r

\* A panic dump is printed in one piece.
LEMMA DumpKept ==
  ASSUME NEW s \in Seq(Line), NEW a \in Line, NEW b \in Line,
         Only(s, Talk), b.tag = "TRACE"
  PROVE  Dumped((s \o <<a>>) \o <<b>>)
<1> DEFINE r == s \o <<a>>
           q == r \o <<b>>
<1>1. /\ r \in Seq(Line) /\ Len(s) \in Nat /\ Len(r) = Len(s) + 1
      /\ \A i \in 1..Len(s) : r[i] = s[i]
  BY OneMore
<1>2. /\ Len(q) = Len(r) + 1 /\ q[Len(r) + 1] = b
      /\ \A i \in 1..Len(r) : q[i] = r[i]
  <2> HIDE DEF r
  <2> QED BY <1>1, OneMore
<1> HIDE DEF r, q
<1>3. \A i \in 1..Len(q) : i \in 1..Len(s) \/ i = Len(s) + 1 \/ i = Len(s) + 2
  BY <1>1, <1>2
<1>4. \A i \in 1..Len(s) : q[i] = s[i]
  BY <1>1, <1>2
<1>5. q[Len(s) + 2].tag = "TRACE" /\ Len(q) = Len(s) + 2
  BY <1>1, <1>2
<1>6. Dumped(q)
  <2> SUFFICES ASSUME NEW i \in 1..Len(q), q[i].tag = "CRASH"
               PROVE  /\ i + 1 \in 1..Len(q) /\ q[i + 1].tag = "TRACE"
                      /\ \A j \in 1..(i - 1) : q[j].tag \in Talk
    BY DEF Dumped
  <2>1. \A j \in 1..Len(s) : q[j].tag \in Talk
    BY <1>4 DEF Only
  <2>2. i = Len(s) + 1
    BY <1>3, <1>5, <2>1 DEF Talk
  <2> QED BY <1>1, <1>5, <2>1, <2>2
<1> QED BY <1>6 DEF q, r

\* The test that has just printed its CASE:START is the current one behind it.
LEMMA CaseCurrent ==
  ASSUME NEW s \in Seq(Line), NEW t \in Registered, NEW p,
         CaseLine(SuiteOf[t], NameOf[t]) \in Line
  PROVE  LET r == s \o <<CaseLine(SuiteOf[t], NameOf[t])>>
         IN  Current(p, r, Len(r) + 1, t)
<1> DEFINE l == CaseLine(SuiteOf[t], NameOf[t])
           r == s \o <<l>>
<1>1. Len(s) \in Nat /\ Len(r) = Len(s) + 1 /\ r[Len(s) + 1] = l
  BY OneMore
<1> HIDE DEF r
<1>2. /\ Len(s) + 1 \in 1..((Len(r) + 1) - 1)
      /\ \A k \in ((Len(s) + 1) + 1)..((Len(r) + 1) - 1) : r[k].tag # "CASE"
  BY <1>1
<1> QED BY <1>1, <1>2 DEF Current, r

\* A current test has been introduced.
LEMMA CurrentIntroduced ==
  ASSUME NEW p, NEW s, NEW i, NEW t \in Registered, Current(p, s, i, t)
  PROVE  Introduced(p, s, i)
<1>1. NameOf[t] # Empty
  BY FirmwareAssumption, EmptyAssumption
<1>2. CASE Names(p, t)
  BY <1>1, <1>2 DEF Names, Introduced
<1>3. CASE \E j \in 1..(i - 1) : s[j] = CaseLine(SuiteOf[t], NameOf[t])
  BY <1>3 DEF CaseLine, Introduced
<1> QED BY <1>2, <1>3 DEF Current
-----------------------------------------------------------------------------
(* The first line handled.                                                 *)

\* What a line does to the protocol while tests execute.
LEMMA RunningEffect ==
  ASSUME NEW p \in Protocol, NEW line \in Line, p.state = "RUNNING", line.ok
  PROVE  LET q == Feed(p, line) IN
         /\ line.tag = "CASE" /\ line.name # Empty =>
              /\ q.state = "RUNNING" /\ q.name = line.name
              /\ q.sleeping = p.sleeping
              /\ line.suite # Empty => q.suite = line.suite
         /\ line.tag \in Leaving => q.state = "SLEEPING" /\ q.sleeping = p.name
         /\ line.tag = "DONE"  => q.state = "FINISHED"
         /\ line.tag = "ERROR" => q.state = "ERROR"
         /\ line.tag = "READY" /\ p.name # Empty => q = p
         /\ line.tag \in {"FAIL", "CRASH"} => q = p
         /\ line.tag \notin {"CASE", "SLEEP", "RESTART", "DONE", "ERROR", "READY"} =>
              /\ q.state = "RUNNING" /\ q.name = p.name /\ q.suite = p.suite
              /\ q.sleeping = p.sleeping
         /\ q.state = "RUNNING" /\ line.tag # "CASE" =>
              q.name = p.name /\ q.suite = p.suite
<1> DEFINE q == Feed(p, line)
<1>1. q = FeedRunning(p, line)
  BY DEF Feed
<1>2. line.tag = "CASE" /\ line.name # Empty =>
        /\ q.state = "RUNNING" /\ q.name = line.name /\ q.sleeping = p.sleeping
        /\ line.suite # Empty => q.suite = line.suite
  BY <1>1 DEF FeedRunning, CommandLost, CaseStart, Protocol
<1>3. line.tag \in Leaving => q.state = "SLEEPING" /\ q.sleeping = p.name
  BY <1>1 DEF FeedRunning, CommandLost, Sleep, Leaving, Protocol
<1>4. /\ line.tag = "DONE" => q.state = "FINISHED"
      /\ line.tag = "ERROR" => q.state = "ERROR"
  BY <1>1 DEF FeedRunning, CommandLost, Protocol
<1>5. /\ line.tag = "READY" /\ p.name # Empty => q = p
      /\ line.tag \in {"FAIL", "CRASH"} => q = p
  BY <1>1 DEF FeedRunning, CommandLost
<1>6. line.tag \notin {"CASE", "SLEEP", "RESTART", "DONE", "ERROR", "READY"} =>
        /\ q.state = "RUNNING" /\ q.name = p.name /\ q.suite = p.suite
        /\ q.sleeping = p.sleeping
  BY <1>1 DEF FeedRunning, CommandLost, Protocol
<1>7. q.state = "RUNNING" /\ line.tag # "CASE" => q.name = p.name /\ q.suite = p.suite
  BY <1>1 DEF FeedRunning, CommandLost, Sleep, Protocol
<1> QED BY <1>2, <1>3, <1>4, <1>5, <1>6, <1>7

\* Handling the first line, while the protocol stays RUNNING.
LEMMA TailKept ==
  ASSUME NEW s \in Seq(Line), s # <<>>, Printed(s), NEW p \in Protocol,
         p.state = "RUNNING", Feed(p, Head(s)).state = "RUNNING"
  PROVE  LET q == Feed(p, Head(s))
             r == Tail(s)
         IN  /\ \A i \in 2..(Len(s) + 1) :
                  /\ Introduced(p, s, i) => Introduced(q, r, i - 1)
                  /\ \A t \in Registered : Current(p, s, i, t) => Current(q, r, i - 1, t)
             /\ Guarded(p, s) => Guarded(q, r)
             /\ Closed(p, s) => Closed(q, r)
             /\ \A k : LeavesAt(s, k) => k \in 2..Len(s) /\ LeavesAt(r, k - 1)
<1> DEFINE l == Head(s)
           q == Feed(p, l)
           r == Tail(s)
<1>1. /\ l \in Line /\ r \in Seq(Line) /\ Len(r) = Len(s) - 1
      /\ \A i \in 1..Len(r) : r[i] = s[i + 1]
  BY HeadTailProperties
<1>2. Len(s) \in Nat \ {0} /\ l = s[1] /\ 1 \in 1..Len(s)
  BY EmptySeq
<1>3. l.ok /\ (l.tag = "CASE" => l.name # Empty)
  BY <1>2 DEF Printed
<1>4. /\ l.tag = "CASE" => /\ q.name = l.name
                           /\ l.suite # Empty => q.suite = l.suite
      /\ l.tag # "CASE" => q.name = p.name /\ q.suite = p.suite
      /\ l.tag \notin Leaving \cup {"DONE"}
  BY <1>1, <1>3, RunningEffect DEF Leaving
<1> HIDE DEF l, q, r
<1>5. \A i \in 1..Len(s) : i = 1 \/ (i - 1 \in 1..Len(r) /\ r[i - 1] = s[i])
  BY <1>1, <1>2
<1>6. ASSUME NEW i \in 2..(Len(s) + 1), Introduced(p, s, i)
      PROVE  Introduced(q, r, i - 1)
  <2>1. CASE p.name # Empty
    BY <1>3, <1>4, <2>1 DEF Introduced
  <2>2. CASE \E j \in 1..(i - 1) : s[j].tag = "CASE"
    <3>1. PICK j \in 1..(i - 1) : s[j].tag = "CASE"
      BY <2>2
    <3>2. CASE j = 1
      BY <1>2, <1>3, <1>4, <3>1, <3>2 DEF Introduced
    <3>3. CASE j # 1
      <4>1. j - 1 \in 1..((i - 1) - 1) /\ j \in 1..Len(s)
        BY <1>2, <3>1, <3>3
      <4>2. r[j - 1].tag = "CASE"
        BY <1>5, <3>1, <3>3, <4>1
      <4> QED BY <4>1, <4>2 DEF Introduced
    <3> QED BY <3>2, <3>3
  <2> QED BY <1>6, <2>1, <2>2 DEF Introduced
<1>7. ASSUME NEW i \in 2..(Len(s) + 1), NEW t \in Registered, Current(p, s, i, t)
      PROVE  Current(q, r, i - 1, t)
  <2>1. ASSUME NEW k \in 1..((i - 1) - 1)
        PROVE  k + 1 \in 1..(i - 1) /\ r[k] = s[k + 1]
    BY <1>1, <1>2
  <2>2. ASSUME NEW j \in 1..(i - 1), s[j] = CaseLine(SuiteOf[t], NameOf[t]),
               \A k \in (j + 1)..(i - 1) : s[k].tag # "CASE"
        PROVE  Current(q, r, i - 1, t)
    <3>1. CASE j = 1
      <4>1. Names(q, t)
        BY <1>2, <1>4, <2>2, <3>1 DEF Names, CaseLine
      <4>2. \A k \in 1..((i - 1) - 1) : k + 1 \in (j + 1)..(i - 1)
        BY <1>2, <3>1
      <4>3. \A k \in 1..((i - 1) - 1) : r[k].tag # "CASE"
        BY <2>1, <2>2, <4>2
      <4> QED BY <4>1, <4>3 DEF Current
    <3>2. CASE j # 1
      <4>1. j - 1 \in 1..((i - 1) - 1) /\ (j - 1) + 1 = j
        BY <1>2, <3>2
      <4>2. r[j - 1] = CaseLine(SuiteOf[t], NameOf[t])
        BY <2>1, <2>2, <4>1
      <4>3. \A k \in ((j - 1) + 1)..((i - 1) - 1) :
              k \in 1..((i - 1) - 1) /\ k + 1 \in (j + 1)..(i - 1)
        BY <1>2, <3>2
      <4>4. \A k \in ((j - 1) + 1)..((i - 1) - 1) : r[k].tag # "CASE"
        BY <2>1, <2>2, <4>3
      <4> QED BY <4>1, <4>2, <4>4 DEF Current
    <3> QED BY <3>1, <3>2
  <2>3. ASSUME Names(p, t), \A k \in 1..(i - 1) : s[k].tag # "CASE"
        PROVE  Current(q, r, i - 1, t)
    <3>1. l.tag # "CASE"
      <4>1. 1 \in 1..(i - 1)
        BY <1>2
      <4> QED BY <1>2, <2>3, <4>1
    <3>2. Names(q, t)
      BY <1>4, <2>3, <3>1 DEF Names
    <3>3. \A k \in 1..((i - 1) - 1) : r[k].tag # "CASE"
      BY <2>1, <2>3
    <3> QED BY <3>2, <3>3 DEF Current
  <2> QED BY <1>7, <2>2, <2>3 DEF Current
<1>8. ASSUME NEW i \in 1..Len(r), NEW tag, \E j \in 1..i : s[j].tag = tag, l.tag # tag
      PROVE  \E j \in 1..(i - 1) : r[j].tag = tag
  <2>1. PICK j \in 1..i : s[j].tag = tag
    BY <1>8
  <2>2. j # 1 /\ j \in 1..Len(s)
    BY <1>1, <1>2, <1>8, <2>1
  <2>3. j - 1 \in 1..(i - 1) /\ r[j - 1] = s[j]
    BY <1>5, <2>2
  <2> QED BY <2>1, <2>3
<1>9. ASSUME Guarded(p, s) PROVE Guarded(q, r)
  <2> SUFFICES ASSUME NEW i \in 1..Len(r)
               PROVE  /\ r[i].tag = "READY" =>
                           \/ Introduced(q, r, i)
                           \/ \E j \in 1..(i - 1) : r[j].tag = "DONE"
                      /\ r[i].tag = "CRASH" => Introduced(q, r, i)
    BY DEF Guarded
  <2>1. /\ i + 1 \in 1..Len(s) /\ i + 1 \in 2..(Len(s) + 1) /\ (i + 1) - 1 = i
        /\ r[i] = s[i + 1]
    BY <1>1, <1>2
  <2>2. Introduced(p, s, i + 1) => Introduced(q, r, i)
    BY <1>6, <2>1
  <2>3. (\E j \in 1..i : s[j].tag = "DONE") => \E j \in 1..(i - 1) : r[j].tag = "DONE"
    BY <1>4, <1>8
  <2> QED BY <1>9, <2>1, <2>2, <2>3 DEF Guarded
<1>10. ASSUME Closed(p, s) PROVE Closed(q, r)
  <2>1. CASE Introduced(p, s, Len(s) + 1)
    <3>1. Len(s) + 1 \in 2..(Len(s) + 1) /\ (Len(s) + 1) - 1 = Len(r) + 1
      BY <1>1, <1>2
    <3> QED BY <1>6, <2>1, <3>1 DEF Closed
  <2>2. CASE \E j \in 1..Len(s) : s[j].tag = "DONE"
    <3>1. PICK j \in 1..Len(s) : s[j].tag = "DONE"
      BY <2>2
    <3>2. j - 1 \in 1..Len(r) /\ r[j - 1] = s[j]
      BY <1>2, <1>4, <1>5, <3>1
    <3> QED BY <3>1, <3>2 DEF Closed
  <2> QED BY <1>10, <2>1, <2>2 DEF Closed
<1>11. ASSUME NEW k, LeavesAt(s, k) PROVE k \in 2..Len(s) /\ LeavesAt(r, k - 1)
  <2>1. k \in 2..Len(s)
    BY <1>2, <1>4, <1>11 DEF LeavesAt
  <2>2. k - 1 \in 1..Len(r) /\ r[k - 1] = s[k]
    BY <1>1, <1>2, <2>1
  <2>3. ASSUME NEW i \in 1..Len(r) PROVE i + 1 \in 1..Len(s) /\ r[i] = s[i + 1]
    BY <1>1, <1>2
  <2>4. \A i \in 1..((k - 1) - 1) : i \in 1..Len(r) /\ i + 1 \in 1..(k - 1)
    BY <2>1, <2>2
  <2>5. \A i \in ((k - 1) + 1)..Len(r) : i \in 1..Len(r) /\ i + 1 \in (k + 1)..Len(s)
    BY <1>1, <1>2, <2>1
  <2>6. \A i \in 1..((k - 1) - 1) : r[i].tag \in Talk
    BY <1>11, <2>3, <2>4 DEF LeavesAt
  <2>7. \A i \in ((k - 1) + 1)..Len(r) : r[i].tag \in Boots
    BY <1>11, <2>3, <2>5 DEF LeavesAt
  <2>8. r[k - 1].tag \in Leaving
    BY <1>11, <2>2 DEF LeavesAt
  <2> QED BY <2>1, <2>2, <2>6, <2>7, <2>8 DEF LeavesAt
<1> QED BY <1>6, <1>7, <1>9, <1>10, <1>11 DEF l, q, r

\* Handling a line leaves fewer of them, of the same kind.
LEMMA TailLines ==
  ASSUME NEW s \in Seq(Line), s # <<>>
  PROVE  /\ Tail(s) \in Seq(Line) /\ Head(s) = s[1] /\ 1 \in 1..Len(s)
         /\ \A tags : Only(s, tags) => Head(s).tag \in tags /\ Only(Tail(s), tags)
         /\ \A tags : None(s, tags) => Head(s).tag \notin tags /\ None(Tail(s), tags)
         /\ Printed(s) => /\ Head(s).ok /\ (Head(s).tag = "CASE" => Head(s).name # Empty)
                          /\ Printed(Tail(s))
         /\ Dumped(s) =>
              /\ Dumped(Tail(s))
              /\ Head(s).tag = "CRASH" => Tail(s) # <<>> /\ Tail(s)[1].tag = "TRACE"
              /\ Head(s).tag \notin Talk => None(Tail(s), {"CRASH"})
         /\ LeavesAt(s, 1) => Only(Tail(s), Boots)
<1> DEFINE r == Tail(s)
<1>1. /\ r \in Seq(Line) /\ Len(r) = Len(s) - 1
      /\ \A i \in 1..Len(r) : r[i] = s[i + 1]
  BY HeadTailProperties
<1>2. Len(s) \in Nat \ {0} /\ Head(s) = s[1] /\ 1 \in 1..Len(s)
  BY EmptySeq
<1> HIDE DEF r
<1>3. \A i \in 1..Len(r) : i + 1 \in 1..Len(s)
  BY <1>1, <1>2
<1>4. \A tags : Only(s, tags) => Head(s).tag \in tags /\ Only(r, tags)
  BY <1>1, <1>2, <1>3 DEF Only
<1>5. \A tags : None(s, tags) => Head(s).tag \notin tags /\ None(r, tags)
  BY <1>1, <1>2, <1>3 DEF None
<1>6. Printed(s) => /\ Head(s).ok /\ (Head(s).tag = "CASE" => Head(s).name # Empty)
                    /\ Printed(r)
  BY <1>1, <1>2, <1>3 DEF Printed
<1>7. ASSUME Dumped(s)
      PROVE  /\ Dumped(r)
             /\ Head(s).tag = "CRASH" => r # <<>> /\ r[1].tag = "TRACE"
             /\ Head(s).tag \notin Talk => None(r, {"CRASH"})
  <2>1. ASSUME NEW i \in 1..Len(r), r[i].tag = "CRASH"
        PROVE  /\ i + 1 \in 1..Len(r) /\ r[i + 1].tag = "TRACE"
               /\ \A j \in 1..(i - 1) : r[j].tag \in Talk
               /\ Head(s).tag \in Talk
    <3>1. /\ (i + 1) + 1 \in 1..Len(s) /\ s[(i + 1) + 1].tag = "TRACE"
          /\ \A j \in 1..((i + 1) - 1) : s[j].tag \in Talk
      BY <1>1, <1>3, <1>7, <2>1 DEF Dumped
    <3>2. i + 1 \in 1..Len(r) /\ r[i + 1] = s[(i + 1) + 1]
      BY <1>1, <1>2, <3>1
    <3>3. \A j \in 1..(i - 1) : j \in 1..Len(r) /\ j + 1 \in 1..((i + 1) - 1)
      BY <1>1, <1>2
    <3>4. 1 \in 1..((i + 1) - 1)
      BY <1>1, <1>2
    <3> QED BY <1>1, <1>2, <3>1, <3>2, <3>3, <3>4
  <2>2. ASSUME Head(s).tag = "CRASH" PROVE r # <<>> /\ r[1].tag = "TRACE"
    <3>1. 1 + 1 \in 1..Len(s) /\ s[1 + 1].tag = "TRACE"
      BY <1>2, <1>7, <2>2 DEF Dumped
    <3>2. 1 \in 1..Len(r)
      BY <1>1, <1>2, <3>1
    <3> QED BY <1>1, <3>1, <3>2, EmptySeq
  <2> QED BY <2>1, <2>2 DEF Dumped, None
<1>8. LeavesAt(s, 1) => Only(r, Boots)
  BY <1>1, <1>2, <1>3 DEF LeavesAt, Only
<1> QED BY <1>1, <1>2, <1>4, <1>5, <1>6, <1>7, <1>8 DEF r
-----------------------------------------------------------------------------
(* Lines lost: a port that goes away takes the unread ones, a host that    *)
(* has seen a crash drops the ones it has read.                            *)

\* The lines read before the others are lost.
LEMMA FrontKept ==
  ASSUME NEW a \in Seq(Line), NEW b \in Seq(Line), NEW p
  PROVE  /\ \A tags : None(a \o b, tags) => None(a, tags)
         /\ \A tags : Only(a \o b, tags) => Only(a, tags)
         /\ Printed(a \o b) => Printed(a)
         /\ Guarded(p, a \o b) => Guarded(p, a)
<1> DEFINE s == a \o b
<1>1. /\ Len(a) \in Nat /\ Len(b) \in Nat /\ Len(s) = Len(a) + Len(b)
      /\ \A i \in 1..Len(a) : s[i] = a[i]
  BY Appended
<1>2. \A i \in 1..(Len(a) + 1) : Introduced(p, a, i) <=> Introduced(p, s, i)
  BY AppendedKnown
<1> HIDE DEF s
<1>3. \A i \in 1..Len(a) : i \in 1..Len(s) /\ i \in 1..(Len(a) + 1)
  BY <1>1
<1>4. /\ \A tags : None(s, tags) => None(a, tags)
      /\ \A tags : Only(s, tags) => Only(a, tags)
      /\ Printed(s) => Printed(a)
  BY <1>1, <1>3 DEF None, Only, Printed
<1>5. ASSUME Guarded(p, s) PROVE Guarded(p, a)
  <2>1. \A i \in 1..Len(a) : \A j \in 1..(i - 1) : a[j] = s[j]
    BY <1>1
  <2> QED BY <1>1, <1>2, <1>3, <1>5, <2>1 DEF Guarded
<1> QED BY <1>4, <1>5 DEF s

\* The lines that have still to be read.
LEMMA BackKept ==
  ASSUME NEW a \in Seq(Line), NEW b \in Seq(Line)
  PROVE  /\ \A tags : None(a \o b, tags) => None(b, tags)
         /\ \A tags : Only(a \o b, tags) => Only(b, tags)
         /\ Printed(a \o b) => Printed(b)
         /\ Dumped(a \o b) => Dumped(b)
<1> DEFINE s == a \o b
<1>1. /\ Len(a) \in Nat /\ Len(b) \in Nat /\ Len(s) = Len(a) + Len(b)
      /\ \A i \in 1..Len(b) : s[Len(a) + i] = b[i]
  BY Appended
<1> HIDE DEF s
<1>2. \A i \in 1..Len(b) : Len(a) + i \in 1..Len(s)
  BY <1>1
<1>3. /\ \A tags : None(s, tags) => None(b, tags)
      /\ \A tags : Only(s, tags) => Only(b, tags)
      /\ Printed(s) => Printed(b)
  BY <1>1, <1>2 DEF None, Only, Printed
<1>4. ASSUME Dumped(s) PROVE Dumped(b)
  <2> SUFFICES ASSUME NEW i \in 1..Len(b), b[i].tag = "CRASH"
               PROVE  /\ i + 1 \in 1..Len(b) /\ b[i + 1].tag = "TRACE"
                      /\ \A j \in 1..(i - 1) : b[j].tag \in Talk
    BY DEF Dumped
  <2>1. /\ (Len(a) + i) + 1 \in 1..Len(s) /\ s[(Len(a) + i) + 1].tag = "TRACE"
        /\ \A j \in 1..((Len(a) + i) - 1) : s[j].tag \in Talk
    BY <1>1, <1>2, <1>4 DEF Dumped
  <2>2. i + 1 \in 1..Len(b) /\ Len(a) + (i + 1) = (Len(a) + i) + 1
    BY <1>1, <2>1
  <2>3. \A j \in 1..(i - 1) : j \in 1..Len(b) /\ Len(a) + j \in 1..((Len(a) + i) - 1)
    BY <1>1
  <2>4. b[i + 1].tag = "TRACE"
    BY <1>1, <2>1, <2>2
  <2> QED BY <1>1, <2>1, <2>2, <2>3, <2>4
<1> QED BY <1>3, <1>4 DEF s

\* Once a test is named, no line is taken for a lost command any more.
LEMMA NamedGuards ==
  ASSUME NEW p, NEW s, p.name # Empty
  PROVE  Guarded(p, s) /\ Closed(p, s)
BY DEF Guarded, Closed, Introduced
-----------------------------------------------------------------------------
(* The invariant.                                                          *)

Reading   == hpc \in {"read", "lines", "check"}
Asking    == hpc = "open" \/ (Reading /\ proto.state \in {"WAITING_FOR_READY", "READY"})
Expecting == Reading /\ proto.state = "RUNNING"

\* The device has a command: it has still to read it, or executes it.
Ordered == dev = "wait" /\ toDevice = <<cmd>>
Engaged == dev = "run" \/ Ordered

\* No test behind t has been touched.
Untouched(ph, t) == \A u \in Registered : u > t => ph[u] = "idle"

\* The tests a command selects have not been executed, but for the sleeper that
\* it wakes.
Fresh(ph, c) ==
  \/ c = RunAll /\ \A t \in Registered : ph[t] = "idle"
  \/ \E t \in Registered :
       /\ Untouched(ph, t)
       /\ \/ c = RunWake(NameOf[t]) /\ ph[t] = "slept"
          \/ c = ResumeAfter(NameOf[t])

Slept(ph, name) ==
  \E t \in Registered : ph[t] = "slept" /\ Untouched(ph, t) /\ name = NameOf[t]

\* Where things stand.  A port that is not held delivers nothing; only a crash
\* ends the handling of a chunk early.
Shape ==
  /\ hpc \notin {"lines", "drained"} => chunk = <<>>
  /\ hpc \in {"open", "top", "wake", "resumed"} => link # "ok"
  /\ link = "closed" => hpc \in {"open", "top", "wake", "resumed", "final", "end"}
  /\ link # "ok" => toHost = <<>>
  /\ Printed(Flight)
  /\ finished => crash = "triggered"
  /\ dev \notin {"run", "hung"} => cur = 0
  /\ dev = "wait" => ~wake

\* A wake cycle is about the sleeper alone.
Cycle ==
  /\ hpc = "wake" => proto.state = "SLEEPING" /\ target = proto.sleeping
  /\ hpc = "resumed" => kind \in {"phase2", "retry"}
  /\ kind \in {"phase2", "retry"} /\ hpc \notin {"top", "wake", "final", "end"} =>
       \E t \in Registered :
         /\ target = NameOf[t] /\ cmd = RunWake(target) /\ Untouched(phase, t)
         /\ dev = "run" => pending \subseteq {t} /\ cur \in {0, t}

\* The exchange before the command, over a port that is held.
Prompt ==
  \/ proto.state = "WAITING_FOR_READY" /\ Flight = <<>>
  \/ /\ dev = "wait" /\ toDevice = <<>>
     /\ \/ proto.state = "WAITING_FOR_READY" /\ Flight = <<Msg("READY")>>
        \/ proto.state = "READY" /\ Flight = <<>>
  \/ proto.state = "WAITING_FOR_READY" /\ Flight = <<Msg("ERROR")>> /\ dev = "halt"

\* While the host may still send its command, the device has none, and the
\* tests of that command have still to be executed.
Asked ==
  Asking => ~Engaged /\ crash = "none" /\ Fresh(phase, cmd) /\ (link = "ok" => Prompt)

\* What the device has not read is one command, or the on-done command of the
\* cycle before.
Buffers ==
  /\ toDevice # <<>> => dev \in {"wait", "hung", "halt"}
  /\ dev = "wait" =>
       \/ toDevice = <<>>
       \/ /\ toDevice = <<OnDone>> /\ link # "broken"
          /\ hpc \in {"close", "top", "wake", "resumed", "final", "end"} \/ Asking
       \/ /\ toDevice = <<cmd>> /\ Fresh(phase, cmd)
          /\ Expecting /\ link = "ok" /\ Flight = <<>> /\ crash = "none"

\* While the device executes tests the host listens, and has nothing before it
\* that would end the cycle; what is pending has not been executed.
Executing ==
  dev = "run" =>
    /\ Expecting /\ link = "ok" /\ crash = "none"
    /\ Only(Flight, Talk)
    /\ \A t \in pending :
         phase[t] = (IF wake THEN "slept" ELSE "idle") /\ Untouched(phase, t)
    /\ cur # 0 => /\ phase[cur] = "running" /\ cur \notin pending
                  /\ Untouched(phase, cur)
                  /\ Current(proto, Flight, Len(Flight) + 1, cur)

\* No command is sent a second time.
SentOnce ==
  Expecting =>
    /\ Guarded(proto, Flight)
    /\ link = "ok" /\ ~Engaged => Closed(proto, Flight)

\* The host will resume, or resumes, a test that sleeps.
Resting ==
  /\ ~None(Flight, Leaving) =>
       /\ Expecting /\ link = "ok"
       /\ dev \in {"powerdown", "rebooting", "asleep", "boot", "wait", "halt"}
       /\ UsbCdc => dev \in {"powerdown", "rebooting"}
       /\ \E k \in 1..Len(Flight) :
            /\ LeavesAt(Flight, k)
            /\ \E t \in Registered : /\ phase[t] = "slept" /\ Untouched(phase, t)
                                     /\ Current(proto, Flight, k, t)
  /\ proto.state = "SLEEPING" => Slept(phase, proto.sleeping)

\* A crash ends the run.
Crashing ==
  /\ crash # "none" \/ ~None(Flight, {"CRASH"}) =>
       "crash" \in Outcomes /\ ~Engaged /\ ~Asking
  /\ crash # "none" /\ Expecting => proto.name # Empty
  /\ Dumped(Flight)
  /\ ~None(Flight, {"CRASH"}) => Expecting /\ link = "ok" /\ crash = "none"
  /\ crash = "pending" =>
       /\ Expecting /\ link = "ok" /\ Flight # <<>> /\ Flight[1].tag = "TRACE"
  /\ UsbCdc /\ (crash = "pending" \/ ~None(Flight, {"CRASH"})) => dev = "rebooting"
  /\ "crash" \in Outcomes =>
       /\ proto.state # "SLEEPING" /\ kind = "initial"
       /\ hpc \notin {"wake", "resumed"} /\ None(Flight, Leaving)

Flow == Shape /\ Cycle /\ Asked /\ Buffers /\ Executing /\ SentOnce /\ Resting /\ Crashing
IInv == TypeOK /\ HostControl /\ Flow
-----------------------------------------------------------------------------
(* Steps of the host.                                                      *)

\* The lines in flight are lines.
LEMMA FlightType == TypeOK => Flight \in Seq(Line)
BY ConcatProperties DEF Flight, TypeOK, HostTypeOK, DeviceTypeOK

\* The device has a command only while the host expects its output.
LEMMA EngagedExpecting ==
  ASSUME IInv, Engaged
  PROVE  Expecting /\ link = "ok" /\ crash = "none"
<1>1. CASE dev = "run"
  BY <1>1 DEF IInv, Flow, Executing
<1>2. CASE Ordered
  <2>1. cmd # OnDone
    BY DEF IInv, TypeOK, HostTypeOK, HostCommand, OnDone
  <2>2. toDevice # <<>> /\ toDevice # <<OnDone>>
    BY <1>2, <2>1 DEF Ordered
  <2> QED BY <1>2, <2>2 DEF IInv, Flow, Buffers, Ordered
<1> QED BY <1>1, <1>2 DEF Engaged

\* A turn of the loop that handles nothing.
LEMMA Moves ==
  ASSUME IInv, UNCHANGED deviceVars, UNCHANGED linkVars,
         UNCHANGED <<kind, cmd, proto, chunk, target, crash, finished>>,
         chunk = <<>>,
         hpc \in {"read", "lines", "check", "drain", "drained"},
         hpc' \in {"read", "check", "drain", "post"},
         hpc' \in {"read", "check"} => Reading,
         hpc' \in {"drain", "post"} /\ Reading =>
           /\ ~Engaged /\ (dev = "wait" => toDevice = <<>>)
           /\ None(Flight, Leaving) /\ None(Flight, {"CRASH"}) /\ crash # "pending"
  PROVE  Flow'
<1> USE DEF IInv, Flow, deviceVars, linkVars
<1>1. Flight' = Flight
  BY DEF Flight
<1>2. /\ Reading' => Reading
      /\ Asking' => Asking
      /\ Expecting' => Expecting
      /\ Engaged' => Engaged
      /\ Ordered' <=> Ordered
  BY DEF Reading, Asking, Expecting, Engaged, Ordered
<1>3. /\ Reading /\ ~Reading' => /\ ~Engaged /\ (dev = "wait" => toDevice = <<>>)
                                /\ None(Flight, Leaving) /\ None(Flight, {"CRASH"})
                                /\ crash # "pending"
      /\ Asking /\ Reading' => Asking'
      /\ Expecting /\ Reading' => Expecting'
  BY DEF Reading, Asking, Expecting
<1>4. Shape'
  BY <1>1 DEF Shape
<1>5. Cycle'
  BY <1>1 DEF Cycle
<1>6. Asked'
  BY <1>1, <1>2 DEF Asked, Prompt
<1>7. Buffers'
  BY <1>1, <1>2, <1>3 DEF Buffers, Reading, Asking, Expecting
<1>8. Executing'
  BY <1>1, <1>2, <1>3, EngagedExpecting DEF Executing, Engaged, Expecting
<1>9. SentOnce'
  BY <1>1, <1>2 DEF SentOnce, Engaged, Ordered
<1>10. Resting'
  BY <1>1, <1>2, <1>3 DEF Resting, Expecting
<1>11. Crashing'
  BY <1>1, <1>2, <1>3 DEF Crashing, Expecting
<1> QED BY <1>4, <1>5, <1>6, <1>7, <1>8, <1>9, <1>10, <1>11

\* A read moves the first lines that have arrived into the chunk.
LEMMA SplitFlight ==
  ASSUME NEW s \in Seq(Line), NEW n \in 1..Len(s)
  PROVE  SubSeq(s, 1, n) \o SubSeq(s, n + 1, Len(s)) = s
<1>1. Len(s) \in Nat
  BY LenProperties
<1>2. 1 \in 1..(Len(s) + 1) /\ n \in (1 - 1)..Len(s) /\ Len(s) \in n..Len(s)
  BY <1>1
<1>3. SubSeq(s, 1, n) \o SubSeq(s, n + 1, Len(s)) = SubSeq(s, 1, Len(s))
  BY <1>2, ConcatAdjacentSubSeq
<1>4. SubSeq(s, 1, Len(s)) = s
  BY SubSeqFull
<1> QED BY <1>3, <1>4

\* Reading.
LEMMA ReadChunkStep ==
  ASSUME IInv, UNCHANGED deviceVars, ReadChunk
  PROVE  Flow'
<1> USE DEF IInv, Flow, deviceVars
<1>1. PICK n \in 1..Len(toHost) :
        chunk' = SubSeq(toHost, 1, n) /\ toHost' = SubSeq(toHost, n + 1, Len(toHost))
  BY DEF ReadChunk
<1>2. /\ link = "ok" /\ chunk = <<>>
      /\ \/ hpc = "read" /\ hpc' = "lines"
         \/ hpc = "drain" /\ hpc' = "drained"
      /\ UNCHANGED <<port, link, toDevice, kind, cmd, proto, target, retries,
                     cases, failures, crash, finished>>
  BY DEF ReadChunk, Shape
<1>3. Flight' = Flight
  <2>1. toHost \in Seq(Line)
    BY DEF TypeOK, DeviceTypeOK
  <2>2. chunk' \o toHost' = toHost
    BY <1>1, <2>1, SplitFlight
  <2>3. <<>> \o toHost = toHost
    BY <2>1, ConcatEmptySeq
  <2> QED BY <1>2, <2>2, <2>3 DEF Flight
<1>4. /\ Reading' <=> Reading
      /\ Asking' <=> Asking
      /\ Expecting' <=> Expecting
      /\ Engaged' <=> Engaged
      /\ Ordered' <=> Ordered
  BY <1>2 DEF Reading, Asking, Expecting, Engaged, Ordered
<1>5. Shape'
  BY <1>2, <1>3 DEF Shape
<1>6. Cycle'
  BY <1>2 DEF Cycle
<1>7. Asked'
  BY <1>2, <1>3, <1>4 DEF Asked, Prompt
<1>8. Buffers'
  BY <1>2, <1>3, <1>4 DEF Buffers
<1>9. Executing'
  BY <1>2, <1>3, <1>4 DEF Executing
<1>10. SentOnce'
  BY <1>2, <1>3, <1>4 DEF SentOnce
<1>11. Resting'
  BY <1>2, <1>3, <1>4 DEF Resting
<1>12. Crashing'
  BY <1>2, <1>3, <1>4 DEF Crashing
<1> QED BY <1>5, <1>6, <1>7, <1>8, <1>9, <1>10, <1>11, <1>12

\* What an intact line does to the protocol in each state.
LEMMA FeedCases ==
  ASSUME NEW p \in Protocol, NEW line \in Line, line.ok
  PROVE  LET q == Feed(p, line) IN
         /\ p.state = "WAITING_FOR_READY" =>
              IF line.tag = "READY" THEN q.state = "READY" ELSE q = p
         /\ p.state = "READY" =>
              /\ q.state \in {"READY", "ERROR"}
              /\ line.tag # "ERROR" => q.state = "READY"
         /\ p.state \in {"SLEEPING", "FINISHED", "ERROR"} => q = p
         /\ p.state = "RUNNING" =>
              /\ q.state = "READY" => line.tag = "READY" /\ p.name = Empty
              /\ q.state # "WAITING_FOR_READY"
         /\ p.state # "SLEEPING" /\ q.state = "SLEEPING" =>
              p.state = "RUNNING" /\ line.tag \in Leaving /\ q.sleeping = p.name
<1> DEFINE q == Feed(p, line)
<1>1. p.state = "WAITING_FOR_READY" =>
        IF line.tag = "READY" THEN q.state = "READY" ELSE q = p
  BY DEF Feed, FeedWaiting, Protocol
<1>2. p.state = "READY" => /\ q.state \in {"READY", "ERROR"}
                           /\ line.tag # "ERROR" => q.state = "READY"
  BY DEF Feed, FeedReady, Protocol
<1>3. p.state \in {"SLEEPING", "FINISHED", "ERROR"} => q = p
  BY DEF Feed
<1>4. ASSUME p.state = "RUNNING"
      PROVE  /\ q.state = "READY" => line.tag = "READY" /\ p.name = Empty
             /\ q.state # "WAITING_FOR_READY"
             /\ q.state = "SLEEPING" => line.tag \in Leaving /\ q.sleeping = p.name
  <2>1. q = FeedRunning(p, line)
    BY <1>4 DEF Feed
  <2>2. /\ Sleep(p).state = "SLEEPING" /\ Sleep(p).sleeping = p.name
        /\ CaseStart(p, line).state = "RUNNING"
    BY <1>4 DEF Sleep, CaseStart, Protocol
  <2>3. q \in {[p EXCEPT !.state = "READY"], CaseStart(p, line), Sleep(p),
               [p EXCEPT !.busy = TRUE], [p EXCEPT !.state = "FINISHED"],
               [p EXCEPT !.state = "ERROR"], p}
    BY <2>1 DEF FeedRunning
  <2>4. q.state = "READY" => line.tag = "READY" /\ p.name = Empty
    BY <1>4, <2>1, <2>2 DEF FeedRunning, CommandLost, Protocol
  <2>5. q.state # "WAITING_FOR_READY"
    BY <1>4, <2>2, <2>3 DEF Protocol
  <2>6. q.state = "SLEEPING" => line.tag \in Leaving /\ q.sleeping = p.name
    BY <1>4, <2>1, <2>2 DEF FeedRunning, CommandLost, Leaving, Protocol
  <2> QED BY <2>4, <2>5, <2>6
<1> QED
  <2>1. p.state \in ProtocolState
    BY DEF Protocol
  <2> QED BY <1>1, <1>2, <1>3, <1>4, <2>1 DEF ProtocolState

\* Handling the first line of a chunk takes it off the flight.
LEMMA FlightTail ==
  ASSUME TypeOK, chunk # <<>>
  PROVE  /\ Flight # <<>> /\ Head(Flight) = Head(chunk)
         /\ Tail(Flight) = Tail(chunk) \o toHost
<1>1. chunk \in Seq(Line) /\ toHost \in Seq(Line)
  BY DEF TypeOK, HostTypeOK, DeviceTypeOK
<1> QED BY <1>1, ConcatSimplifications, ConcatProperties, LenProperties, EmptySeq DEF Flight

\* The host handles the first line of its chunk, and the crash detector has not
\* triggered; the first line of a panic dump opens its record.
Handled ==
  /\ UNCHANGED deviceVars /\ UNCHANGED linkVars /\ UNCHANGED <<hpc, kind, cmd, target>>
  /\ chunk # <<>> /\ hpc \in {"lines", "drained"}
  /\ crash = "none" /\ ~finished'
  /\ crash' = (IF Head(Flight).tag = "CRASH" THEN "pending" ELSE "none")
  /\ proto' = Feed(proto, Head(Flight)) /\ Flight' = Tail(Flight)

\* In the wait for READY, or for a command that cannot be written any more.
LEMMA HandledAsking ==
  ASSUME IInv, Handled, Asking
  PROVE  Flow'
<1> USE DEF IInv, Flow, Handled, deviceVars, linkVars
<1> DEFINE l == Head(Flight)
<1>1. /\ Flight \in Seq(Line) /\ Flight # <<>> /\ l \in Line /\ proto \in Protocol
  BY FlightType, FlightTail, HeadTailProperties DEF TypeOK, HostTypeOK
<1>2. /\ l.ok /\ Printed(Flight') /\ None(Flight, Leaving) /\ Dumped(Flight')
      /\ None(Flight, {"CRASH"}) /\ None(Flight', {"CRASH"}) /\ crash' = "none"
      /\ \A tags : None(Flight, tags) => None(Flight', tags)
  <2>1. None(Flight, Leaving) /\ None(Flight, {"CRASH"})
    BY DEF Resting, Crashing, Asking, Expecting
  <2> QED BY <1>1, <2>1, TailLines DEF Shape, Crashing
<1>3. hpc = "lines" /\ proto.state \in {"WAITING_FOR_READY", "READY"}
  BY DEF Asking, Reading
<1>4. /\ proto'.state \in {"WAITING_FOR_READY", "READY", "ERROR"}
      /\ proto.state = "WAITING_FOR_READY" =>
           IF l.tag = "READY" THEN proto'.state = "READY" ELSE proto' = proto
      /\ proto.state = "READY" /\ l.tag # "ERROR" => proto'.state = "READY"
  <2> HIDE DEF l
  <2> QED BY <1>1, <1>2, <1>3, FeedCases DEF l
<1> HIDE DEF l
<1>5. /\ ~Engaged /\ crash = "none" /\ Fresh(phase, cmd) /\ (link = "ok" => Prompt)
      /\ link # "closed"
  BY <1>3 DEF Asked, Shape
<1>6. /\ Reading' <=> Reading
      /\ ~Expecting' /\ ~Expecting /\ ~Engaged'
      /\ Asking' => proto'.state # "ERROR"
  BY <1>3, <1>4, <1>5 DEF Reading, Asking, Expecting, Engaged, Ordered
<1>7. link = "ok" => Prompt' /\ Asking'
  <2> SUFFICES ASSUME link = "ok" PROVE Prompt' /\ Asking'
    OBVIOUS
  <2>1. \A x \in Line : <<x>> # <<>> /\ Head(<<x>>) = x /\ Tail(<<x>>) = <<>>
    OBVIOUS
  <2>2. Msg("READY") \in Line /\ Msg("ERROR") \in Line
    BY DEF Msg, Line, Tag
  <2>3. Msg("READY").tag = "READY" /\ Msg("ERROR").tag = "ERROR"
    BY DEF Msg
  <2>4. CASE /\ dev = "wait" /\ toDevice = <<>> /\ proto.state = "WAITING_FOR_READY"
             /\ Flight = <<Msg("READY")>>
    <3>1. l.tag = "READY" /\ Flight' = <<>>
      BY <2>1, <2>2, <2>3, <2>4 DEF l
    <3>2. proto'.state = "READY"
      BY <1>4, <2>4, <3>1
    <3> QED BY <1>3, <2>4, <3>1, <3>2 DEF Prompt, Asking, Reading
  <2>5. CASE proto.state = "WAITING_FOR_READY" /\ Flight = <<Msg("ERROR")>> /\ dev = "halt"
    <3>1. l.tag = "ERROR" /\ Flight' = <<>>
      BY <2>1, <2>2, <2>3, <2>5 DEF l
    <3>2. proto' = proto
      BY <1>4, <2>5, <3>1
    <3> QED BY <1>3, <2>5, <3>1, <3>2 DEF Prompt, Asking, Reading
  <2> QED BY <1>1, <1>5, <2>4, <2>5 DEF Prompt
<1>8. Shape'
  BY <1>2, <1>3 DEF Shape
<1>9. Cycle'
  BY <1>3 DEF Cycle
<1>10. Asked'
  BY <1>2, <1>5, <1>6, <1>7 DEF Asked
<1>11. Buffers'
  <2>1. link \in {"ok", "broken"}
    BY <1>5 DEF TypeOK, DeviceTypeOK
  <2> QED BY <1>3, <1>6, <1>7, <2>1 DEF Buffers
<1>12. Executing'
  BY <1>5 DEF Executing, Engaged
<1>13. SentOnce'
  BY <1>6 DEF SentOnce
<1>14. Resting'
  BY <1>2, <1>4 DEF Resting
<1>15. Crashing'
  BY <1>2, <1>3, <1>4, <1>5, <1>6 DEF Crashing
<1> QED BY <1>8, <1>9, <1>10, <1>11, <1>12, <1>13, <1>14, <1>15

\* While the device executes tests, or has just left them.
LEMMA HandledExpecting ==
  ASSUME IInv, Handled, Expecting
  PROVE  Flow'
<1> USE DEF IInv, Flow, Handled, deviceVars, linkVars
<1> DEFINE l == Head(Flight)
<1>1. /\ Flight \in Seq(Line) /\ Flight # <<>> /\ l \in Line /\ proto \in Protocol
      /\ Len(Flight) \in Nat
  BY FlightType, FlightTail, HeadTailProperties, LenProperties DEF TypeOK, HostTypeOK
<1>2. /\ l.ok /\ Printed(Flight) /\ Printed(Flight')
      /\ l = Flight[1] /\ 1 \in 1..Len(Flight)
      /\ \A tags : None(Flight, tags) => l.tag \notin tags /\ None(Flight', tags)
      /\ \A tags : Only(Flight, tags) => l.tag \in tags /\ Only(Flight', tags)
      /\ Dumped(Flight')
      /\ l.tag = "CRASH" => Flight' # <<>> /\ Flight'[1].tag = "TRACE"
      /\ l.tag \notin Talk => None(Flight', {"CRASH"})
  BY <1>1, TailLines DEF Shape, Crashing
<1>3. hpc = "lines" /\ proto.state = "RUNNING" /\ ~Asking /\ ~Ordered
  <2>1. hpc = "lines" /\ proto.state = "RUNNING"
    BY DEF Expecting, Reading
  <2>2. cmd # OnDone
    BY DEF TypeOK, HostTypeOK, HostCommand, OnDone
  <2>3. ~Asking
    BY <2>1 DEF Asking
  <2>4. ~Ordered
    <3>1. toDevice = <<cmd>> => toDevice # <<>> /\ toDevice # <<OnDone>>
      BY <2>2
    <3> QED BY <1>1, <2>3, <3>1 DEF Ordered, Buffers
  <2> QED BY <2>1, <2>3, <2>4
<1>4. Reading' /\ Ordered' = Ordered /\ Engaged' = Engaged
  BY <1>3 DEF Reading, Ordered, Engaged
<1>5. l.tag \in {"READY", "CRASH"} /\ (\A j \in 1..(1 - 1) : Flight[j].tag # "DONE")
        => proto.name # Empty
  BY <1>2, <1>3 DEF SentOnce, Guarded, Introduced
<1>6. l.tag = "READY" => proto.name # Empty
  BY <1>5
<1>7. proto'.state \in {"RUNNING", "SLEEPING", "FINISHED", "ERROR"}
  <2>1. proto' \in Protocol
    BY <1>1, FeedType DEF l
  <2>2. proto'.state # "READY" /\ proto'.state # "WAITING_FOR_READY"
    BY <1>1, <1>2, <1>3, <1>6, FeedCases DEF l
  <2> QED BY <2>1, <2>2 DEF Protocol, ProtocolState
<1>8. ~Asking'
  BY <1>3, <1>7 DEF Asking
<1>9. proto'.state # "RUNNING" => l.tag \notin Talk
  <2>1. l.tag = "CASE" => l.name # Empty
    BY <1>2 DEF Printed
  <2> QED BY <1>1, <1>2, <1>3, <2>1, RunningEffect DEF l, Talk
<1>10. dev = "run" => /\ Only(Flight, Talk) /\ proto'.state = "RUNNING"
  BY <1>2, <1>9, <1>7 DEF Executing
<1>0. /\ dev = "run" => crash' = "none"
      /\ l.tag = "CRASH" => /\ proto' = proto /\ ~None(Flight, {"CRASH"})
  <2>1. l.tag = "CRASH" => l.tag \notin Talk
    BY DEF Talk
  <2>2. l.tag = "CRASH" => proto' = proto
    BY <1>1, <1>2, <1>3, RunningEffect DEF l
  <2> QED BY <1>2, <1>10, <2>1, <2>2
<1>11. CASE proto'.state = "RUNNING"
  <2>1. /\ \A i \in 2..(Len(Flight) + 1) :
             \A t \in Registered :
               Current(proto, Flight, i, t) => Current(proto', Flight', i - 1, t)
        /\ Guarded(proto, Flight) => Guarded(proto', Flight')
        /\ Closed(proto, Flight) => Closed(proto', Flight')
        /\ \A k : LeavesAt(Flight, k) =>
             k \in 2..Len(Flight) /\ LeavesAt(Flight', k - 1)
    BY <1>1, <1>2, <1>3, <1>11, TailKept
  <2>2. /\ Len(Flight') = Len(Flight) - 1 /\ Len(Flight) \in Nat \ {0}
    BY <1>1, HeadTailProperties, EmptySeq
  <2>3. Len(Flight) + 1 \in 2..(Len(Flight) + 1) /\ (Len(Flight) + 1) - 1 = Len(Flight') + 1
    BY <2>2
  <2>4. Expecting' /\ ~Asking'
    BY <1>4, <1>8, <1>11 DEF Expecting
  <2>5. Shape'
    BY <1>2, <1>3 DEF Shape
  <2>6. Cycle'
    BY <1>3 DEF Cycle
  <2>7. Asked'
    BY <2>4 DEF Asked
  <2>8. Buffers'
    BY <1>1, <1>3, <1>4 DEF Buffers
  <2>9. Executing'
    <3> SUFFICES ASSUME dev = "run" PROVE Executing'
      BY DEF Executing
    <3>1. Only(Flight', Talk)
      BY <1>2, <1>10
    <3>2. cur # 0 => Current(proto', Flight', Len(Flight') + 1, cur)
      <4> SUFFICES ASSUME cur # 0 PROVE Current(proto', Flight', Len(Flight') + 1, cur)
        OBVIOUS
      <4>1. cur \in Registered /\ Current(proto, Flight, Len(Flight) + 1, cur)
        BY DEF Executing, TypeOK, DeviceTypeOK
      <4>2. Current(proto', Flight', (Len(Flight) + 1) - 1, cur)
        BY <2>1, <2>3, <4>1
      <4> QED BY <2>3, <4>2
    <3> QED BY <1>0, <2>4, <3>1, <3>2 DEF Executing
  <2>10. SentOnce'
    BY <1>4, <2>1 DEF SentOnce
  <2>11. Resting'
    <3>1. ASSUME ~None(Flight', Leaving)
          PROVE  \E k \in 1..Len(Flight') :
                   /\ LeavesAt(Flight', k)
                   /\ \E t \in Registered : /\ phase[t] = "slept" /\ Untouched(phase, t)
                                            /\ Current(proto', Flight', k, t)
      <4>1. ~None(Flight, Leaving)
        BY <1>2, <3>1
      <4>2. PICK k \in 1..Len(Flight) :
              /\ LeavesAt(Flight, k)
              /\ \E t \in Registered : /\ phase[t] = "slept" /\ Untouched(phase, t)
                                       /\ Current(proto, Flight, k, t)
        BY <4>1 DEF Resting
      <4>3. k \in 2..Len(Flight) /\ LeavesAt(Flight', k - 1)
        BY <2>1, <4>2
      <4>4. k \in 2..(Len(Flight) + 1) /\ k - 1 \in 1..Len(Flight')
        BY <2>2, <4>3
      <4>5. \A t \in Registered : Current(proto, Flight, k, t) => Current(proto', Flight', k - 1, t)
        BY <2>1, <4>4
      <4> QED BY <4>2, <4>3, <4>4, <4>5
    <3>2. ~None(Flight', Leaving) => ~None(Flight, Leaving)
      BY <1>2
    <3> QED BY <1>2, <1>11, <2>1, <2>4, <3>1, <3>2 DEF Resting
  <2>12. Crashing'
    <3>1. proto'.name # Empty \/ crash' = "none"
      BY <1>0, <1>5
    <3>2. ~None(Flight', {"CRASH"}) => ~None(Flight, {"CRASH"}) /\ crash' = "none"
      <4>1. l.tag = "CRASH" => l.tag \notin Talk
        BY DEF Talk
      <4> QED BY <1>2, <4>1
    <3> QED BY <1>0, <1>2, <1>3, <1>4, <1>11, <2>4, <3>1, <3>2 DEF Crashing
  <2> QED BY <2>5, <2>6, <2>7, <2>8, <2>9, <2>10, <2>11, <2>12
<1>12. CASE proto'.state # "RUNNING"
  <2>1. ~Expecting' /\ ~Asking' /\ dev # "run" /\ ~Engaged /\ ~Engaged'
    BY <1>3, <1>4, <1>8, <1>10, <1>12 DEF Expecting, Engaged
  <2>2. ASSUME ~None(Flight, Leaving)
        PROVE  \E t \in Registered : /\ phase[t] = "slept" /\ Untouched(phase, t)
                                     /\ Current(proto, Flight, 1, t) /\ LeavesAt(Flight, 1)
    <3>1. PICK k \in 1..Len(Flight) :
            /\ LeavesAt(Flight, k)
            /\ \E t \in Registered : /\ phase[t] = "slept" /\ Untouched(phase, t)
                                     /\ Current(proto, Flight, k, t)
      BY <2>2 DEF Resting
    <3>2. k = 1
      <4>1. CASE k # 1
        <5>1. 1 \in 1..(k - 1)
          BY <3>1, <4>1
        <5> QED BY <1>2, <1>9, <1>12, <3>1, <5>1 DEF LeavesAt
      <4> QED BY <4>1
    <3> QED BY <3>1, <3>2
  <2>3. None(Flight', Leaving)
    <3>1. CASE None(Flight, Leaving)
      BY <1>2, <3>1
    <3>2. CASE ~None(Flight, Leaving)
      <4>1. Only(Flight', Boots)
        BY <1>1, <2>2, <3>2, TailLines
      <4> QED BY <4>1 DEF None, Only, Boots, Leaving
    <3> QED BY <3>1, <3>2
  <2>4. ASSUME proto'.state = "SLEEPING"
        PROVE  Slept(phase, proto'.sleeping) /\ ~None(Flight, Leaving)
    <3>1. l.tag \in Leaving /\ proto'.sleeping = proto.name
      BY <1>1, <1>2, <1>3, <2>4, FeedCases DEF l
    <3>2. ~None(Flight, Leaving)
      BY <1>2, <3>1
    <3>3. PICK t \in Registered : /\ phase[t] = "slept" /\ Untouched(phase, t)
                                  /\ Current(proto, Flight, 1, t)
      BY <2>2, <3>2
    <3>4. Names(proto, t)
      <4>1. \A j \in 1..(1 - 1) : FALSE
        OBVIOUS
      <4> QED BY <3>3, <4>1 DEF Current
    <3> QED BY <3>1, <3>2, <3>3, <3>4 DEF Slept, Names
  <2>5. Shape'
    BY <1>2, <1>3 DEF Shape
  <2>6. Cycle'
    BY <1>3 DEF Cycle
  <2>7. Asked'
    BY <2>1 DEF Asked
  <2>8. Buffers'
    BY <1>1, <1>3 DEF Buffers
  <2>9. Executing'
    BY <2>1 DEF Executing
  <2>10. SentOnce'
    BY <2>1 DEF SentOnce
  <2>11. Resting'
    BY <2>3, <2>4 DEF Resting
  <2>12. Crashing'
    <3>1. None(Flight', {"CRASH"}) /\ crash' = "none"
      BY <1>0, <1>2, <1>3, <1>9, <1>12
    <3> QED BY <1>2, <1>3, <2>1, <2>3, <2>4, <3>1 DEF Crashing
  <2> QED BY <2>5, <2>6, <2>7, <2>8, <2>9, <2>10, <2>11, <2>12
<1> QED BY <1>11, <1>12

\* Afterwards, when nothing it hears sends the host back to a command.
LEMMA HandledElse ==
  ASSUME IInv, Handled, ~Asking, ~Expecting
  PROVE  Flow'
<1> USE DEF IInv, Flow, Handled, deviceVars, linkVars
<1> DEFINE l == Head(Flight)
<1>1. /\ Flight \in Seq(Line) /\ Flight # <<>> /\ l \in Line /\ proto \in Protocol
  BY FlightType, FlightTail, HeadTailProperties DEF TypeOK, HostTypeOK
<1>2. /\ l.ok /\ Printed(Flight') /\ None(Flight, Leaving) /\ l.tag \notin Leaving
      /\ \A tags : None(Flight, tags) => None(Flight', tags)
      /\ None(Flight, {"CRASH"}) /\ Dumped(Flight') /\ crash' = "none"
  <2>1. None(Flight, Leaving) /\ None(Flight, {"CRASH"})
    BY DEF Resting, Crashing
  <2> QED BY <1>1, <2>1, TailLines DEF Shape, Crashing
<1>3. /\ proto'.state = "SLEEPING" => proto' = proto
      /\ proto.state \in {"SLEEPING", "FINISHED", "ERROR"} => proto' = proto
  BY <1>1, <1>2, FeedCases DEF l
<1>4. ~Asking' /\ ~Expecting' /\ ~Engaged /\ ~Engaged'
  <2>1. hpc = "drained" \/ proto.state \in {"SLEEPING", "FINISHED", "ERROR"}
    BY <1>1 DEF Asking, Expecting, Reading, Protocol, ProtocolState
  <2>2. ~Asking' /\ ~Expecting'
    BY <1>3, <2>1 DEF Asking, Expecting, Reading
  <2>3. ~Engaged
    BY EngagedExpecting
  <2> QED BY <2>2, <2>3 DEF Engaged, Ordered
<1>5. Shape'
  BY <1>2 DEF Shape
<1>6. Cycle'
  BY DEF Cycle
<1>7. Asked'
  BY <1>4 DEF Asked
<1>8. Buffers'
  BY DEF Buffers
<1>9. Executing'
  BY <1>4 DEF Executing, Engaged
<1>10. SentOnce'
  BY <1>4 DEF SentOnce
<1>11. Resting'
  BY <1>2, <1>3 DEF Resting
<1>12. Crashing'
  BY <1>2, <1>3, <1>4 DEF Crashing
<1> QED BY <1>5, <1>6, <1>7, <1>8, <1>9, <1>10, <1>11, <1>12

\* The detector has triggered, at this line or at an earlier one: the rest of
\* the chunk is dropped.
LEMMA DropStep ==
  ASSUME IInv, UNCHANGED deviceVars, UNCHANGED linkVars,
         UNCHANGED <<hpc, kind, cmd, target>>,
         chunk # <<>>, hpc \in {"lines", "drained"},
         crash # "none" \/ Head(Flight).tag = "CRASH",
         proto' = Feed(proto, Head(Flight)), chunk' = <<>>, crash' = "triggered"
  PROVE  Flow'
<1> USE DEF IInv, Flow, deviceVars, linkVars
<1> DEFINE l == Head(Flight)
<1>1. /\ Flight \in Seq(Line) /\ Flight # <<>> /\ l \in Line /\ proto \in Protocol
      /\ chunk \in Seq(Line) /\ toHost \in Seq(Line)
  BY FlightType, FlightTail, HeadTailProperties DEF TypeOK, HostTypeOK, DeviceTypeOK
<1>2. /\ l.ok /\ l = Flight[1] /\ 1 \in 1..Len(Flight)
      /\ l.tag = "CASE" => l.name # Empty
      /\ \A tags : None(Flight, tags) => l.tag \notin tags
  BY <1>1, TailLines DEF Shape
<1>3. "crash" \in Outcomes /\ ~Engaged /\ ~Asking /\ None(Flight, Leaving)
      /\ proto.state # "SLEEPING" /\ kind = "initial"
  BY <1>2 DEF Crashing
<1>4. /\ Flight' = toHost /\ Printed(Flight') /\ None(Flight', Leaving)
      /\ Dumped(Flight') /\ None(Flight', {"CRASH"})
  <2>1. Flight' = toHost
    BY <1>1, ConcatEmptySeq DEF Flight
  <2>2. Printed(toHost) /\ None(toHost, Leaving) /\ Dumped(toHost)
    BY <1>1, <1>3, BackKept DEF Shape, Flight, Crashing
  <2>3. None(toHost, {"CRASH"})
    <3>1. CASE crash = "triggered"
      <4>1. None(Flight, {"CRASH"})
        BY <3>1 DEF Crashing
      <4> QED BY <1>1, <4>1, BackKept DEF Flight
    <3>2. CASE crash # "triggered"
      <4>1. l.tag \in {"CRASH", "TRACE"}
        BY <1>1, <1>2, <3>2 DEF Crashing, TypeOK, HostTypeOK, CrashState
      <4>2. None(Tail(Flight), {"CRASH"})
        BY <1>1, <4>1, TailLines DEF Crashing, Talk
      <4>3. Tail(Flight) = Tail(chunk) \o toHost /\ Tail(chunk) \in Seq(Line)
        BY <1>1, FlightTail, HeadTailProperties
      <4> QED BY <1>1, <4>2, <4>3, BackKept
    <3> QED BY <3>1, <3>2
  <2> QED BY <2>1, <2>2, <2>3
<1>5. proto'.state # "SLEEPING"
  BY <1>1, <1>2, <1>3, FeedCases DEF l
<1>6. Expecting => proto.name # Empty
  <2>1. CASE crash # "none"
    BY <2>1 DEF Crashing
  <2>2. CASE l.tag = "CRASH"
    BY <1>2, <2>2 DEF SentOnce, Guarded, Introduced
  <2> QED BY <2>1, <2>2 DEF l
<1>7. /\ ~Asking' /\ ~Engaged'
      /\ Expecting' => proto'.name # Empty
  <2>1. CASE Expecting
    <3>1. proto.state = "RUNNING" /\ proto.name # Empty
      BY <1>6, <2>1 DEF Expecting
    <3>2. proto'.state \notin {"READY", "WAITING_FOR_READY"}
      BY <1>1, <1>2, <3>1, FeedCases DEF l
    <3>3. proto'.state = "RUNNING" => proto'.name # Empty
      BY <1>1, <1>2, <3>1, RunningEffect DEF l
    <3> QED BY <1>3, <3>2, <3>3 DEF Asking, Expecting, Engaged, Ordered
  <2>2. CASE ~Expecting
    <3>1. hpc = "drained" \/ proto.state \in {"SLEEPING", "FINISHED", "ERROR"}
      BY <1>1, <1>3, <2>2 DEF Asking, Expecting, Reading, Protocol, ProtocolState
    <3>2. proto.state \in {"SLEEPING", "FINISHED", "ERROR"} => proto' = proto
      BY <1>1, <1>2, FeedCases DEF l
    <3> QED BY <1>3, <3>1, <3>2 DEF Asking, Expecting, Reading, Engaged, Ordered
  <2> QED BY <2>1, <2>2
<1>8. Shape'
  BY <1>4 DEF Shape
<1>9. Cycle'
  BY <1>3 DEF Cycle
<1>10. Asked'
  BY <1>7 DEF Asked
<1>11. Buffers'
  BY <1>1, <1>3 DEF Buffers
<1>12. Executing'
  BY <1>3 DEF Executing, Engaged
<1>13. SentOnce'
  BY <1>7, NamedGuards DEF SentOnce
<1>14. Resting'
  BY <1>4, <1>5 DEF Resting
<1>15. Crashing'
  BY <1>3, <1>4, <1>5, <1>7 DEF Crashing
<1> QED BY <1>8, <1>9, <1>10, <1>11, <1>12, <1>13, <1>14, <1>15

\* One line of a chunk.
LEMMA HandleLineStep ==
  ASSUME IInv, UNCHANGED deviceVars, HandleLine
  PROVE  Flow'
<1> DEFINE l == Head(Flight)
<1>1. /\ chunk # <<>> /\ l = Head(chunk) /\ l \in Line
      /\ Flight # <<>> /\ Tail(Flight) = Tail(chunk) \o toHost /\ l = Flight[1]
  <2>1. chunk # <<>> /\ TypeOK
    BY DEF HandleLine, IInv
  <2>2. Flight # <<>> /\ l = Head(chunk) /\ Tail(Flight) = Tail(chunk) \o toHost
    BY <2>1, FlightTail
  <2>3. Flight \in Seq(Line)
    BY <2>1, FlightType
  <2> QED BY <2>1, <2>2, <2>3, HeadTailProperties
<1> HIDE DEF l
<1>2. /\ hpc \in {"lines", "drained"} /\ proto' = Feed(proto, l)
      /\ crash' \in FeedCrash(crash, l)
      /\ finished' = (finished \/ crash' = "triggered")
      /\ chunk' = (IF finished' THEN <<>> ELSE Tail(chunk))
      /\ UNCHANGED linkVars /\ UNCHANGED <<hpc, kind, cmd, target>>
  BY <1>1 DEF HandleLine
<1>3. /\ finished => crash = "triggered"
      /\ crash = "pending" => l.tag = "TRACE"
      /\ crash \in CrashState
  BY <1>1 DEF IInv, Flow, Shape, Crashing, TypeOK, HostTypeOK
<1>4. CASE crash' = "triggered"
  <2>1. chunk' = <<>> /\ (crash # "none" \/ l.tag = "CRASH")
    BY <1>2, <1>4 DEF FeedCrash
  <2> QED BY <1>1, <1>2, <1>4, <2>1, DropStep DEF l
<1>5. CASE crash' # "triggered"
  <2>1. crash = "none" /\ crash' = (IF l.tag = "CRASH" THEN "pending" ELSE "none")
    BY <1>2, <1>3, <1>5 DEF FeedCrash, CrashState
  <2>2. ~finished' /\ chunk' = Tail(chunk)
    BY <1>2, <1>3, <1>5, <2>1
  <2>3. Flight' = Tail(Flight)
    BY <1>1, <1>2, <2>2 DEF Flight, linkVars
  <2>4. Handled
    BY <1>1, <1>2, <2>1, <2>2, <2>3 DEF Handled, l
  <2> QED BY <2>4, HandledAsking, HandledExpecting, HandledElse
<1> QED BY <1>4, <1>5

\* Nothing is in flight.
LEMMA NoLines ==
  /\ \A tags : Only(<<>>, tags) /\ None(<<>>, tags)
  /\ Printed(<<>>) /\ Dumped(<<>>) /\ \A p : Guarded(p, <<>>)
BY DEF Only, None, Printed, Guarded, Dumped

\* The command goes out.
LEMMA SendCommandStep ==
  ASSUME IInv, UNCHANGED deviceVars, SendCommand(Powered)
  PROVE  Flow'
<1> USE DEF IInv, Flow, deviceVars
<1>1. /\ hpc = "check" /\ proto.state = "READY" /\ link = "ok"
      /\ Write(<<cmd>>, Powered) /\ proto' = CommandSent(proto)
      /\ hpc' = IF crash = "triggered" THEN "drain" ELSE "read"
      /\ UNCHANGED <<port, link, toHost, kind, cmd, chunk, target, crash, finished>>
  BY DEF SendCommand
<1>2. Asking /\ ~Engaged /\ crash = "none" /\ Fresh(phase, cmd) /\ Prompt
  BY <1>1 DEF Asking, Reading, Asked
<1>3. dev = "wait" /\ toDevice = <<>> /\ Flight = <<>>
  BY <1>1, <1>2 DEF Prompt
<1>4. toDevice' = <<cmd>>
  BY <1>1, <1>3 DEF Write, Powered
<1>5. /\ proto'.state = "RUNNING" /\ hpc' = "read" /\ Flight' = <<>> /\ chunk' = <<>>
      /\ proto'.sleeping = proto.sleeping
  BY <1>1, <1>2, <1>3 DEF CommandSent, TypeOK, HostTypeOK, Protocol, Flight, Shape
<1>6. /\ Reading' /\ Expecting' /\ ~Asking' /\ Ordered' /\ Engaged'
  BY <1>1, <1>3, <1>4, <1>5 DEF Reading, Expecting, Asking, Ordered, Engaged
<1>7. Shape'
  BY <1>1, <1>5, NoLines DEF Shape
<1>8. Cycle'
  BY <1>1, <1>3, <1>5 DEF Cycle
<1>9. Asked'
  BY <1>6 DEF Asked
<1>10. Buffers'
  BY <1>1, <1>2, <1>3, <1>4, <1>5, <1>6 DEF Buffers
<1>11. Executing'
  BY <1>3 DEF Executing
<1>12. SentOnce'
  BY <1>5, <1>6, NoLines DEF SentOnce
<1>13. Resting'
  BY <1>5, NoLines DEF Resting
<1>14. Crashing'
  BY <1>1, <1>2, <1>5, NoLines DEF Crashing
<1> QED BY <1>7, <1>8, <1>9, <1>10, <1>11, <1>12, <1>13, <1>14

\* An exception before the command is out: a wake cycle may be tried again, any
\* other one ends the run.
LEMMA ExceptionStep ==
  ASSUME IInv, UNCHANGED deviceVars, UNCHANGED linkVars,
         UNCHANGED <<cmd, target, crash>>,
         Asking, link # "ok", chunk' = <<>>, finished' => crash = "triggered",
         NEW p, PortException(p), p.state \in {"WAITING_FOR_READY", "READY"}
  PROVE  Flow'
<1> USE DEF IInv, Flow, deviceVars, linkVars
<1>1. /\ toHost = <<>> /\ Flight' = <<>> /\ proto' = p
      /\ ~Engaged /\ ~Engaged' /\ crash = "none" /\ Fresh(phase, cmd)
  BY DEF Shape, Asked, PortException, SerialException, RunnerError, Engaged, Ordered, Flight
<1>2. \/ kind = "phase2" /\ hpc' = "open" /\ kind' = "retry"
      \/ hpc' = "final" /\ kind' = kind
  BY DEF PortException, SerialException, RunnerError
<1>3. ~Expecting' /\ ~Reading' /\ (Asking' <=> hpc' = "open")
  BY <1>2 DEF Expecting, Asking, Reading
<1>4. ~(hpc \in {"top", "wake", "final", "end"}) /\ ~Expecting
  BY DEF Asking, Reading, Expecting
<1>5. Shape'
  BY <1>1, <1>2, NoLines DEF Shape
<1>6. Cycle'
  BY <1>1, <1>2, <1>4 DEF Cycle
<1>7. Asked'
  BY <1>1 DEF Asked
<1>8. Buffers'
  BY <1>2, <1>3, <1>4 DEF Buffers
<1>9. Executing'
  BY <1>1 DEF Executing, Engaged
<1>10. SentOnce'
  BY <1>3 DEF SentOnce
<1>11. Resting'
  BY <1>1, NoLines DEF Resting
<1>12. Crashing'
  <2>1. "crash" \in Outcomes => kind = "initial" /\ hpc' = "final" /\ kind' = kind
    BY <1>2 DEF Crashing
  <2> QED BY <1>1, <1>2, <2>1, NoLines DEF Crashing
<1> QED BY <1>5, <1>6, <1>7, <1>8, <1>9, <1>10, <1>11, <1>12

\* The write of the command fails.
LEMMA SendFailsStep ==
  ASSUME IInv, UNCHANGED deviceVars, SendFails
  PROVE  Flow'
<1>1. /\ hpc = "check" /\ proto.state = "READY" /\ link = "broken"
      /\ PortException(proto) /\ UNCHANGED linkVars
      /\ UNCHANGED <<cmd, chunk, target, crash, finished>>
  BY DEF SendFails
<1>2. Asking /\ chunk' = <<>> /\ (finished' => crash = "triggered")
  BY <1>1 DEF Asking, Reading, IInv, Flow, Shape
<1> QED BY <1>1, <1>2, ExceptionStep

\* No port to open.
LEMMA OpenFailsStep ==
  ASSUME IInv, UNCHANGED deviceVars, OpenFails \/ ResolveFails
  PROVE  Flow'
<1>1. /\ hpc = "open" /\ link = "closed" /\ PortException(Reset(proto))
      /\ chunk' = <<>> /\ finished' = FALSE /\ UNCHANGED linkVars
      /\ UNCHANGED <<cmd, target, crash>>
  BY DEF OpenFails, ResolveFails, PortException
<1>2. Asking /\ Reset(proto).state = "WAITING_FOR_READY"
  BY <1>1 DEF Asking, Reset, NewProtocol
<1> QED BY <1>1, <1>2, ExceptionStep

\* The port is lost.
LEMMA PortLostStep ==
  ASSUME IInv, UNCHANGED deviceVars, PortLost
  PROVE  Flow'
<1> USE DEF IInv, Flow
<1>1. /\ link = "broken" /\ toHost = <<>> /\ UNCHANGED linkVars
      /\ UNCHANGED <<cmd, chunk, target, crash, finished>>
      /\ hpc \in {"read", "drain"}
  BY DEF PortLost, Shape
<1>2. chunk = <<>> /\ Flight = <<>>
  BY <1>1 DEF Shape, Flight
<1>3. ~Engaged
  BY <1>1, EngagedExpecting
<1>4. CASE hpc = "read" /\ proto.state # "RUNNING" /\ PortException(proto)
  <2>1. proto.state = "WAITING_FOR_READY"
    BY <1>4 DEF HostControl, ReadsUnanswering
  <2>2. Asking /\ chunk' = <<>> /\ (finished' => crash = "triggered")
    BY <1>1, <1>2, <1>4, <2>1 DEF Asking, Reading, Shape
  <2> QED BY <1>1, <1>4, <2>1, <2>2, ExceptionStep
<1>5. CASE \/ hpc = "read" /\ proto.state = "RUNNING" /\ hpc' = "drain"
              /\ UNCHANGED <<kind, proto, cases>>
           \/ hpc = "drain" /\ proto.state # "FINISHED" /\ hpc' = "post"
              /\ UNCHANGED <<kind, proto, cases>>
  <2>1. hpc = "read" /\ dev = "wait" => toDevice = <<>>
    BY <1>1, <1>5 DEF Buffers
  <2>2. None(Flight, Leaving) /\ None(Flight, {"CRASH"}) /\ crash # "pending"
    BY <1>1, <1>2, NoLines DEF Crashing
  <2>3. /\ hpc' \in {"drain", "post"} /\ UNCHANGED <<kind, proto>>
        /\ Reading => hpc = "read"
    BY <1>1, <1>5 DEF Reading
  <2> QED BY <1>1, <1>2, <1>3, <2>1, <2>2, <2>3, Moves
<1> QED BY <1>4, <1>5 DEF PortLost

\* The cycle begins.
LEMMA OpenCycleStep ==
  ASSUME IInv, UNCHANGED deviceVars, OpenCycle
  PROVE  Flow'
<1> USE DEF IInv, Flow, deviceVars
<1>1. /\ hpc = "open" /\ hpc' = "read" /\ proto' = Reset(proto)
      /\ link' = IF link = "closed" THEN "ok" ELSE link
      /\ UNCHANGED <<port, toHost, toDevice>>
      /\ chunk' = <<>> /\ finished' = FALSE
      /\ UNCHANGED <<kind, cmd, target, crash>>
  BY DEF OpenCycle, Open
<1>2. Asking /\ link # "ok" /\ toHost = <<>>
  BY <1>1 DEF Asking, Shape
<1>3. Flight' = <<>> /\ proto'.state = "WAITING_FOR_READY"
  BY <1>1, <1>2 DEF Flight, Reset, NewProtocol
<1>4. Reading' /\ Asking' /\ ~Expecting' /\ Prompt' /\ ~Engaged /\ ~Engaged'
  BY <1>1, <1>2, <1>3 DEF Reading, Asking, Expecting, Prompt, Engaged, Ordered, Asked
<1>5. link' \in {"ok", "broken"} /\ (link = "broken" <=> link' = "broken")
  BY <1>1, <1>2 DEF TypeOK, DeviceTypeOK
<1>6. Shape'
  BY <1>1, <1>2, <1>3, <1>5, NoLines DEF Shape
<1>7. Cycle'
  BY <1>1 DEF Cycle
<1>8. Asked'
  BY <1>1, <1>2, <1>4 DEF Asked
<1>9. Buffers'
  BY <1>1, <1>4, <1>5 DEF Buffers, Expecting, Reading
<1>10. Executing'
  BY <1>4 DEF Executing, Engaged
<1>11. SentOnce'
  BY <1>4 DEF SentOnce
<1>12. Resting'
  BY <1>3, NoLines DEF Resting
<1>13. Crashing'
  BY <1>1, <1>2, <1>3, NoLines DEF Crashing
<1> QED BY <1>6, <1>7, <1>8, <1>9, <1>10, <1>11, <1>12, <1>13

\* A cycle that has ended, or a host that has seen a crash: the device has no
\* command, and nothing announces that it leaves.
LEMMA Over ==
  ASSUME IInv, crash = "triggered" \/ ~(Asking \/ Expecting)
  PROVE  /\ ~Engaged /\ None(Flight, Leaving)
         /\ None(Flight, {"CRASH"}) /\ crash # "pending"
         /\ hpc \notin {"close", "top", "wake", "resumed", "final", "end"} /\ dev = "wait"
              => toDevice = <<>>
<1> USE DEF IInv, Flow
<1>1. ~Engaged
  BY EngagedExpecting
<1>2. None(Flight, Leaving)
  <2>1. CASE crash = "triggered"
    BY <2>1 DEF Crashing
  <2>2. CASE ~Expecting
    BY <2>2 DEF Resting
  <2> QED BY <2>1, <2>2
<1>3. /\ crash = "triggered" => ~Asking
      /\ None(Flight, {"CRASH"}) /\ crash # "pending"
  BY DEF Crashing
<1>4. hpc \notin {"close", "top", "wake", "resumed", "final", "end"} /\ dev = "wait"
        => toDevice = <<>>
  BY <1>3 DEF Buffers
<1> QED BY <1>1, <1>2, <1>3, <1>4

\* The turns of the loop that only look at what the last read has brought.
LEMMA TurnStep ==
  ASSUME IInv, UNCHANGED deviceVars,
         EndChunk \/ CycleDone \/ DeviceError \/ NextRead \/ CrashBreak \/ DrainTimeout
  PROVE  Flow'
<1>1. /\ UNCHANGED linkVars
      /\ UNCHANGED <<kind, cmd, proto, chunk, target, crash, finished>>
  BY DEF EndChunk, CycleDone, DeviceError, NextRead, CrashBreak, DrainTimeout
<1>2. chunk = <<>>
  BY DEF EndChunk, CycleDone, DeviceError, NextRead, CrashBreak, DrainTimeout,
         IInv, Flow, Shape
<1>3. /\ hpc \in {"read", "lines", "check", "drain", "drained"}
      /\ hpc' \in {"read", "check", "drain", "post"}
      /\ hpc' \in {"read", "check"} => Reading
      /\ hpc' \in {"drain", "post"} /\ Reading => crash = "triggered" \/ ~(Asking \/ Expecting)
  <2>1. CASE EndChunk
    BY <2>1 DEF EndChunk, Reading
  <2>2. CASE CycleDone \/ DeviceError
    BY <2>2 DEF CycleDone, DeviceError, Reading, Asking, Expecting
  <2>3. CASE NextRead \/ CrashBreak
    BY <2>3 DEF NextRead, CrashBreak, Reading, Asking, Expecting
  <2>4. CASE DrainTimeout
    BY <2>4 DEF DrainTimeout, Reading
  <2> QED BY <2>1, <2>2, <2>3, <2>4
<1>4. Reading => hpc \notin {"close", "top", "wake", "resumed", "final", "end"}
  BY DEF Reading
<1> QED BY <1>1, <1>2, <1>3, <1>4, Over, Moves

\* A deadline passes on a device that says nothing any more.
LEMMA DeadlineStep ==
  ASSUME IInv, Attended, UNCHANGED deviceVars,
         (ReadyTimeout \/ HangTimeout) /\ Silent
  PROVE  Flow'
<1> USE DEF IInv, Flow
<1>1. dev # "run" /\ dev # "wait"
  BY DEF Attended, Silent
<1>2. /\ UNCHANGED linkVars /\ hpc = "read" /\ hpc' = "drain" /\ toHost = <<>>
      /\ UNCHANGED <<kind, cmd, proto, chunk, target, crash, finished>>
  BY DEF ReadyTimeout, HangTimeout
<1>3. chunk = <<>> /\ Flight = <<>>
  BY <1>2 DEF Shape, Flight
<1>4. /\ ~Engaged /\ None(Flight, Leaving)
      /\ None(Flight, {"CRASH"}) /\ crash # "pending"
  BY <1>1, <1>3, NoLines DEF Engaged, Ordered, Crashing
<1> QED BY <1>1, <1>2, <1>3, <1>4, Moves

\* The on-done command.
LEMMA PostTestStep ==
  ASSUME IInv, UNCHANGED deviceVars, PostTest(Powered)
  PROVE  Flow'
<1> USE DEF IInv, Flow, deviceVars
<1>1. /\ hpc = "post" /\ hpc' = "close"
      /\ toDevice' = IF kind # "phase2" /\ Powered /\ link = "ok"
                     THEN toDevice \o <<OnDone>> ELSE toDevice
      /\ UNCHANGED <<port, link, toHost, kind, cmd, proto, chunk, target, crash, finished>>
  BY DEF PostTest, Write
<1>2. ~Asking /\ ~Expecting /\ ~Asking' /\ ~Expecting' /\ Flight' = Flight
  BY <1>1 DEF Asking, Expecting, Reading, Flight
<1>3. ~Engaged /\ None(Flight, Leaving) /\ (dev = "wait" => toDevice = <<>>)
  BY <1>1, <1>2, Over
<1>4. /\ <<>> \o <<OnDone>> = <<OnDone>>
      /\ toDevice' # <<>> => toDevice # <<>> \/ Powered
  BY <1>1
<1>5. dev = "wait" => toDevice' = <<>> \/ (toDevice' = <<OnDone>> /\ link = "ok")
  BY <1>1, <1>3, <1>4
<1>6. ~Engaged'
  <2>1. cmd # OnDone
    BY DEF TypeOK, HostTypeOK, HostCommand, OnDone
  <2>2. <<OnDone>> # <<cmd>> /\ <<>> # <<cmd>>
    BY <2>1
  <2> QED BY <1>1, <1>3, <1>5, <2>2 DEF Engaged, Ordered
<1>7. Shape'
  BY <1>1, <1>2 DEF Shape
<1>8. Cycle'
  BY <1>1 DEF Cycle
<1>9. Asked'
  BY <1>2 DEF Asked
<1>10. Buffers'
  <2>1. toDevice' # <<>> => dev \in {"wait", "hung", "halt"}
    BY <1>3, <1>4 DEF Buffers, Powered, Engaged
  <2> QED BY <1>1, <1>5, <2>1 DEF Buffers
<1>11. Executing'
  BY <1>3 DEF Executing, Engaged
<1>12. SentOnce'
  BY <1>2 DEF SentOnce
<1>13. Resting'
  BY <1>1, <1>2, <1>3 DEF Resting
<1>14. Crashing'
  BY <1>1, <1>2, <1>6 DEF Crashing
<1> QED BY <1>7, <1>8, <1>9, <1>10, <1>11, <1>12, <1>13, <1>14

\* The port is closed, after a cycle or at the end of the run.
LEMMA CloseStep ==
  ASSUME IInv, UNCHANGED deviceVars, CloseCycle \/ Finalize
  PROVE  Flow'
<1> USE DEF IInv, Flow, deviceVars
<1>1. /\ hpc \in {"close", "final"}
      /\ hpc = "close" => hpc' = IF kind \in {"phase2", "retry"} THEN "resumed" ELSE "top"
      /\ hpc = "final" => hpc' = "end"
      /\ link' = "closed" /\ toHost' = <<>>
      /\ UNCHANGED <<port, toDevice, kind, cmd, proto, chunk, target, crash, finished>>
  BY DEF CloseCycle, Finalize, Close
<1>2. ~Asking /\ ~Expecting /\ ~Asking' /\ ~Expecting' /\ chunk = <<>> /\ Flight' = <<>>
  BY <1>1 DEF Asking, Expecting, Reading, Flight, Shape
<1>3. ~Engaged /\ ~Engaged'
  BY <1>1, <1>2, Over DEF Engaged, Ordered
<1>4. Shape'
  BY <1>1, <1>2, NoLines DEF Shape
<1>5. Cycle'
  BY <1>1, <1>3 DEF Cycle, Engaged
<1>6. Asked'
  BY <1>2 DEF Asked
<1>7. Buffers'
  BY <1>1, <1>2 DEF Buffers
<1>8. Executing'
  BY <1>3 DEF Executing, Engaged
<1>9. SentOnce'
  BY <1>2 DEF SentOnce
<1>10. Resting'
  BY <1>1, <1>2, NoLines DEF Resting
<1>11. Crashing'
  BY <1>1, <1>2, <1>3, NoLines DEF Crashing
<1> QED BY <1>4, <1>5, <1>6, <1>7, <1>8, <1>9, <1>10, <1>11

\* The decisions of stage_testing between two cycles, as far as no new cycle
\* begins.
LEMMA DecideStep ==
  ASSUME IInv, UNCHANGED deviceVars, ResumeSleeper \/ GiveUp \/ LoopExit
  PROVE  Flow'
<1> USE DEF IInv, Flow, deviceVars, linkVars
<1>1. /\ hpc = "top" /\ UNCHANGED linkVars
      /\ \/ hpc' = "wake" /\ proto.state = "SLEEPING" /\ target' = proto.sleeping
         \/ hpc' = "final"
      /\ UNCHANGED <<kind, cmd, proto, chunk, crash, finished>>
  BY DEF ResumeSleeper, GiveUp, LoopExit
<1>2. ~Asking /\ ~Expecting /\ ~Asking' /\ ~Expecting' /\ Flight' = Flight
  BY <1>1 DEF Asking, Expecting, Reading, Flight
<1>3. ~Engaged /\ ~Engaged' /\ None(Flight, Leaving)
  BY <1>1, <1>2, Over DEF Engaged, Ordered
<1>4. Shape'
  BY <1>1, <1>2 DEF Shape
<1>5. Cycle'
  BY <1>1 DEF Cycle
<1>6. Asked'
  BY <1>2 DEF Asked
<1>7. Buffers'
  BY <1>1, <1>2 DEF Buffers
<1>8. Executing'
  BY <1>3 DEF Executing, Engaged
<1>9. SentOnce'
  BY <1>2 DEF SentOnce
<1>10. Resting'
  BY <1>1, <1>2, <1>3 DEF Resting
<1>11. Crashing'
  BY <1>1, <1>2, <1>3 DEF Crashing
<1> QED BY <1>4, <1>5, <1>6, <1>7, <1>8, <1>9, <1>10, <1>11

\* A wake cycle, or the cycle for the remaining tests, begins.
LEMMA BeginStep ==
  ASSUME IInv, UNCHANGED deviceVars,
         Wake \/ (RunRemaining /\ hpc' = "open")
  PROVE  Flow'
<1> USE DEF IInv, Flow, deviceVars, linkVars
<1>1. /\ hpc \in {"wake", "resumed"} /\ hpc' = "open" /\ UNCHANGED linkVars
      /\ UNCHANGED <<chunk, target, crash, finished>>
  BY DEF Wake, RunRemaining
<1>2. \/ /\ hpc = "wake" /\ kind' = "phase2" /\ cmd' = RunWake(proto.sleeping)
         /\ proto' = ResetForWake(proto)
      \/ /\ hpc = "resumed" /\ kind' = "resume" /\ cmd' = ResumeAfter(target)
         /\ proto' = proto /\ proto.state # "SLEEPING"
  BY <1>1 DEF Wake, RunRemaining
<1>3. ~Asking /\ ~Expecting /\ ~Expecting' /\ Asking'
  BY <1>1 DEF Asking, Expecting, Reading
<1>4. /\ chunk = <<>> /\ toHost = <<>> /\ Flight' = <<>> /\ link # "ok"
      /\ "crash" \notin Outcomes /\ crash = "none"
  BY <1>1 DEF Shape, Flight, Crashing
<1>5. ~Engaged'
  <2>1. cmd' # OnDone
    BY <1>2 DEF RunAll, RunWake, ResumeAfter, OnDone
  <2>2. <<OnDone>> # <<cmd'>> /\ <<>> # <<cmd'>>
    BY <2>1
  <2>3. dev # "run" /\ (dev = "wait" => toDevice = <<>> \/ toDevice = <<OnDone>>)
    BY <1>3 DEF Executing, Buffers
  <2> QED BY <1>1, <2>2, <2>3 DEF Engaged, Ordered
<1>6. /\ Fresh(phase, cmd') /\ proto'.state # "SLEEPING"
      /\ hpc = "wake" =>
           \E t \in Registered :
             target = NameOf[t] /\ cmd' = RunWake(target) /\ Untouched(phase, t)
  <2>1. CASE hpc = "wake"
    <3>1. proto.state = "SLEEPING" /\ target = proto.sleeping
      BY <2>1 DEF Cycle
    <3>2. PICK t \in Registered : /\ phase[t] = "slept" /\ Untouched(phase, t)
                                  /\ proto.sleeping = NameOf[t]
      BY <3>1 DEF Resting, Slept
    <3>3. proto'.state = "WAITING_FOR_READY"
      BY <1>2, <2>1, <3>1 DEF ResetForWake, TypeOK, HostTypeOK, Protocol
    <3> QED BY <1>2, <2>1, <3>1, <3>2, <3>3 DEF Fresh
  <2>2. CASE hpc = "resumed"
    <3>1. PICK t \in Registered : target = NameOf[t] /\ Untouched(phase, t)
      BY <2>2 DEF Cycle
    <3> QED BY <1>2, <2>2, <3>1 DEF Fresh
  <2> QED BY <1>1, <2>1, <2>2
<1>7. Shape'
  BY <1>1, <1>4, NoLines DEF Shape
<1>8. Cycle'
  BY <1>1, <1>2, <1>3, <1>6 DEF Cycle, Executing
<1>9. Asked'
  BY <1>1, <1>4, <1>5, <1>6 DEF Asked
<1>10. Buffers'
  BY <1>1, <1>3 DEF Buffers
<1>11. Executing'
  BY <1>3 DEF Executing
<1>12. SentOnce'
  BY <1>3 DEF SentOnce
<1>13. Resting'
  BY <1>4, <1>6, NoLines DEF Resting
<1>14. Crashing'
  BY <1>1, <1>4, NoLines DEF Crashing
<1> QED BY <1>7, <1>8, <1>9, <1>10, <1>11, <1>12, <1>13, <1>14

\* The sleeper slept again: back to the loop.
LEMMA AgainStep ==
  ASSUME IInv, UNCHANGED deviceVars, RunRemaining, hpc' = "top"
  PROVE  Flow'
<1> USE DEF IInv, Flow, deviceVars, linkVars
<1>1. /\ hpc = "resumed" /\ UNCHANGED linkVars
      /\ UNCHANGED <<kind, cmd, proto, chunk, target, crash, finished>>
  BY DEF RunRemaining
<1>2. ~Asking /\ ~Expecting /\ ~Asking' /\ ~Expecting' /\ Flight' = Flight
  BY <1>1 DEF Asking, Expecting, Reading, Flight
<1>3. ~Engaged /\ ~Engaged' /\ None(Flight, Leaving)
  BY <1>1, <1>2, Over DEF Engaged, Ordered
<1>4. Shape'
  BY <1>1, <1>2 DEF Shape
<1>5. Cycle'
  BY DEF Cycle
<1>6. Asked'
  BY <1>2 DEF Asked
<1>7. Buffers'
  BY <1>1, <1>2 DEF Buffers
<1>8. Executing'
  BY <1>3 DEF Executing, Engaged
<1>9. SentOnce'
  BY <1>2 DEF SentOnce
<1>10. Resting'
  BY <1>1, <1>2, <1>3 DEF Resting
<1>11. Crashing'
  BY <1>1, <1>2, <1>3 DEF Crashing
<1> QED BY <1>4, <1>5, <1>6, <1>7, <1>8, <1>9, <1>10, <1>11

\* The busy deadline has no part in any of this.
LEMMA BusyElapsesStep ==
  ASSUME IInv, UNCHANGED deviceVars, BusyElapses
  PROVE  Flow'
<1> USE DEF IInv, Flow, deviceVars, linkVars
<1>1. /\ UNCHANGED linkVars /\ proto' = BusyExpired(proto)
      /\ UNCHANGED <<hpc, kind, cmd, chunk, target, crash, finished>>
  BY DEF BusyElapses
<1>2. /\ proto'.state = proto.state /\ proto'.name = proto.name
      /\ proto'.suite = proto.suite /\ proto'.sleeping = proto.sleeping
      /\ Flight' = Flight
  BY <1>1 DEF BusyExpired, TypeOK, HostTypeOK, Protocol, Flight
<1>3. \A i : Introduced(proto', Flight, i) <=> Introduced(proto, Flight, i)
  BY <1>2 DEF Introduced
<1>4. /\ Guarded(proto', Flight) <=> Guarded(proto, Flight)
      /\ Closed(proto', Flight) <=> Closed(proto, Flight)
  BY <1>3 DEF Guarded, Closed
<1>5. \A i : \A t \in Registered : Current(proto', Flight, i, t) <=> Current(proto, Flight, i, t)
  BY <1>2 DEF Current, Names
<1>6. /\ Reading' <=> Reading
      /\ Asking' <=> Asking
      /\ Expecting' <=> Expecting
      /\ Engaged' <=> Engaged
      /\ Ordered' <=> Ordered
  BY <1>1, <1>2 DEF Reading, Asking, Expecting, Engaged, Ordered
<1>7. Shape'
  BY <1>1, <1>2 DEF Shape
<1>8. Cycle'
  BY <1>1, <1>2 DEF Cycle
<1>9. Asked'
  BY <1>1, <1>2, <1>6 DEF Asked, Prompt
<1>10. Buffers'
  BY <1>1, <1>2, <1>6 DEF Buffers
<1>11. Executing'
  <2> SUFFICES ASSUME dev = "run" PROVE Executing'
    BY DEF Executing
  <2>1. cur # 0 => Current(proto', Flight', Len(Flight') + 1, cur)
    <3>1. cur # 0 => cur \in Registered
      BY DEF TypeOK, DeviceTypeOK
    <3> QED BY <1>2, <1>5, <3>1 DEF Executing
  <2> QED BY <1>1, <1>2, <1>6, <2>1 DEF Executing
<1>12. SentOnce'
  BY <1>1, <1>2, <1>4, <1>6 DEF SentOnce
<1>13. Resting'
  BY <1>1, <1>2, <1>5, <1>6 DEF Resting
<1>14. Crashing'
  BY <1>1, <1>2, <1>6 DEF Crashing
<1> QED BY <1>7, <1>8, <1>9, <1>10, <1>11, <1>12, <1>13, <1>14

\* Every step of the host thread.
LEMMA HostFlow ==
  ASSUME IInv, Attended, Host
  PROVE  Flow'
<1>1. UNCHANGED deviceVars
  BY DEF Host
<1>2. CASE OpenCycle
  BY <1>1, <1>2, OpenCycleStep
<1>3. CASE ReadChunk
  BY <1>1, <1>3, ReadChunkStep
<1>4. CASE HandleLine
  BY <1>1, <1>4, HandleLineStep
<1>5. CASE EndChunk \/ CycleDone \/ DeviceError \/ NextRead \/ CrashBreak \/ DrainTimeout
  BY <1>1, <1>5, TurnStep
<1>6. CASE SendCommand(Powered)
  BY <1>1, <1>6, SendCommandStep
<1>7. CASE SendFails
  BY <1>1, <1>7, SendFailsStep
<1>8. CASE PortLost
  BY <1>1, <1>8, PortLostStep
<1>9. CASE PostTest(Powered)
  BY <1>1, <1>9, PostTestStep
<1>10. CASE CloseCycle \/ Finalize
  BY <1>1, <1>10, CloseStep
<1>11. CASE ResumeSleeper \/ GiveUp \/ LoopExit
  BY <1>1, <1>11, DecideStep
<1>12. CASE RunRemaining
  <2>1. hpc' \in {"open", "top"}
    BY <1>12 DEF RunRemaining
  <2> QED BY <1>1, <1>12, <2>1, BeginStep, AgainStep
<1>13. CASE Wake
  BY <1>1, <1>13, BeginStep
<1>14. CASE ResolveFails
  BY <1>1, <1>14, OpenFailsStep
<1>15. CASE OpenFails
  BY <1>1, <1>15, OpenFailsStep
<1>16. CASE (ReadyTimeout \/ HangTimeout) /\ Silent
  BY <1>1, <1>16, DeadlineStep
<1>17. CASE BusyElapses
  BY <1>1, <1>17, BusyElapsesStep
<1> QED
  BY <1>2, <1>3, <1>4, <1>5, <1>6, <1>7, <1>8, <1>9, <1>10, <1>11, <1>12, <1>13,
     <1>14, <1>15, <1>16, <1>17 DEF Host, HostStep
-----------------------------------------------------------------------------
(* Steps of the device.                                                    *)

\* A line the device prints reaches a host that listens.
LEMMA FlightGrows ==
  ASSUME TypeOK, UNCHANGED <<link, chunk>>, NEW l \in Line, Emit(<<l>>)
  PROVE  /\ link = "ok" => Flight' = Flight \o <<l>>
         /\ link # "ok" => Flight' = Flight /\ toHost' = toHost
<1>1. <<l>> \in Seq(Line)
  OBVIOUS
<1>2. chunk \in Seq(Line) /\ toHost \in Seq(Line)
  BY DEF TypeOK, HostTypeOK, DeviceTypeOK
<1>3. chunk \o (toHost \o <<l>>) = (chunk \o toHost) \o <<l>>
  BY <1>1, <1>2, ConcatAssociative
<1> QED BY <1>3 DEF Flight, Emit

\* The device speaks without being asked: READY, or ERROR from a board that
\* does not start.
LEMMA SpeaksStep ==
  ASSUME IInv, UNCHANGED hostVars, UNCHANGED <<link, cur, phase>>,
         NEW tag \in {"READY", "ERROR"}, Emit(<<Msg(tag)>>), toDevice' = <<>>,
         dev \in {"boot", "wait"}, dev' = IF tag = "READY" THEN "wait" ELSE "halt",
         ~Engaged, dev' = "wait" => ~wake',
         Asking /\ link = "ok" => proto.state = "WAITING_FOR_READY" /\ Flight = <<>>
  PROVE  Flow'
<1> USE DEF IInv, Flow, hostVars
<1> DEFINE l == Msg(tag)
<1>1. l \in Line /\ l.tag = tag /\ l.ok /\ Flight \in Seq(Line)
  BY FlightType DEF Msg, Line, Tag
<1>2. /\ link = "ok" => Flight' = Flight \o <<l>>
      /\ link # "ok" => Flight' = Flight /\ toHost' = toHost
  BY <1>1, FlightGrows
<1>3. /\ Printed(Flight')
      /\ \A tags : None(Flight, tags) /\ tag \notin tags => None(Flight', tags)
      /\ Guarded(proto, Flight) /\ Closed(proto, Flight) =>
           Guarded(proto, Flight') /\ Closed(proto, Flight')
      /\ link # "ok" /\ Guarded(proto, Flight) => Guarded(proto, Flight')
      /\ Dumped(Flight')
      /\ \A k : LeavesAt(Flight, k) => LeavesAt(Flight', k)
  BY <1>1, <1>2, OneMoreKept DEF Shape, Crashing, Boots
<1>4. /\ Asking' <=> Asking
      /\ Expecting' <=> Expecting
      /\ ~Engaged'
  <2>1. <<>> # <<cmd>>
    OBVIOUS
  <2> QED BY <2>1 DEF Asking, Expecting, Reading, Engaged, Ordered
<1>5. /\ None(Flight, Leaving) => None(Flight', Leaving)
      /\ ~None(Flight, Leaving) =>
           \E k \in 1..Len(Flight') :
             /\ LeavesAt(Flight', k)
             /\ \E t \in Registered : /\ phase[t] = "slept" /\ Untouched(phase, t)
                                      /\ Current(proto, Flight', k, t)
  <2>1. None(Flight, Leaving) => None(Flight', Leaving)
    BY <1>3 DEF Leaving
  <2>2. ASSUME ~None(Flight, Leaving)
        PROVE  \E k \in 1..Len(Flight') :
                 /\ LeavesAt(Flight', k)
                 /\ \E t \in Registered : /\ phase[t] = "slept" /\ Untouched(phase, t)
                                          /\ Current(proto, Flight', k, t)
    <3>1. PICK k \in 1..Len(Flight) :
            /\ LeavesAt(Flight, k)
            /\ \E t \in Registered : /\ phase[t] = "slept" /\ Untouched(phase, t)
                                     /\ Current(proto, Flight, k, t)
      BY <2>2 DEF Resting
    <3>2. Flight' = Flight \o <<l>> /\ <<l>> \in Seq(Line)
      BY <1>1, <1>2, <2>2 DEF Resting
    <3>3. k \in 1..(Len(Flight) + 1) /\ k \in 1..Len(Flight')
      BY <1>1, <3>2, OneMore
    <3>4. \A t : Current(proto, Flight, k, t) => Current(proto, Flight', k, t)
      <4> HIDE DEF Flight, l
      <4> QED BY <1>1, <3>2, <3>3, AppendedKnown
    <3> QED BY <1>3, <3>1, <3>3, <3>4
  <2> QED BY <2>1, <2>2
<1>7. Flight # <<>> /\ link = "ok" => Flight' # <<>> /\ Flight'[1] = Flight[1]
  <2> SUFFICES ASSUME Flight # <<>>, link = "ok"
               PROVE  Flight' # <<>> /\ Flight'[1] = Flight[1]
    OBVIOUS
  <2>1. 1 \in 1..Len(Flight)
    BY <1>1, EmptySeq
  <2> QED BY <1>1, <1>2, <2>1, OneMore
<1>6. Asking /\ link = "ok" => Flight' = <<Msg(tag)>>
  <2>1. <<>> \o <<l>> = <<l>>
    OBVIOUS
  <2> QED BY <1>2, <2>1
<1> HIDE DEF l
<1>8. Shape'
  BY <1>2, <1>3 DEF Shape
<1>9. Cycle'
  BY DEF Cycle
<1>10. Asked'
  BY <1>4, <1>6 DEF Asked, Prompt
<1>11. Buffers'
  BY DEF Buffers
<1>12. Executing'
  BY DEF Executing
<1>13. SentOnce'
  BY <1>3, <1>4 DEF SentOnce
<1>14. Resting'
  BY <1>3, <1>4, <1>5 DEF Resting, Leaving
<1>15. Crashing'
  BY <1>3, <1>4, <1>5, <1>7 DEF Crashing
<1> QED BY <1>8, <1>9, <1>10, <1>11, <1>12, <1>13, <1>14, <1>15

\* READY or ERROR after a boot, READY repeated, READY in answer to a line that
\* is no command.
LEMMA UnaskedStep ==
  ASSUME IInv, UNCHANGED hostVars,
         Boot \/ BoardFailure \/ (RepeatReady /\ Answered) \/ RejectLine
  PROVE  Flow'
<1> USE DEF IInv, Flow, hostVars, deviceVars
<1>1. toDevice \in Seq(Command) /\ <<>> # <<cmd>>
  BY DEF TypeOK, DeviceTypeOK
<1>2. CASE Boot \/ BoardFailure
  <2>1. /\ dev = "boot" /\ toDevice' = toDevice /\ toDevice = <<>>
        /\ UNCHANGED <<link, cur, phase>>
    BY <1>2 DEF Boot, BoardFailure, Buffers
  <2>2. ~Engaged
    BY <2>1 DEF Engaged, Ordered
  <2>3. Asking /\ link = "ok" => proto.state = "WAITING_FOR_READY" /\ Flight = <<>>
    BY <2>1 DEF Asked, Prompt
  <2>4. CASE Boot
    BY <2>1, <2>2, <2>3, <2>4, SpeaksStep DEF Boot
  <2>5. CASE BoardFailure
    BY <2>1, <2>2, <2>3, <2>5, SpeaksStep DEF BoardFailure
  <2> QED BY <1>2, <2>4, <2>5
<1>3. CASE RepeatReady /\ Answered
  <2>1. /\ dev = "wait" /\ dev' = "wait" /\ toDevice' = toDevice /\ toDevice = <<>>
        /\ UNCHANGED <<link, cur, phase>> /\ Emit(<<Msg("READY")>>) /\ ~wake'
    BY <1>3 DEF RepeatReady, Shape
  <2>2. ~Engaged
    BY <1>1, <2>1 DEF Engaged, Ordered
  <2>3. Flight # <<Msg("READY")>>
    <3>1. /\ \A i \in 1..Len(chunk) : chunk[i].tag # "READY"
          /\ \A i \in 1..Len(toHost) : toHost[i] # Msg("READY")
          /\ chunk \in Seq(Line) /\ toHost \in Seq(Line)
      BY <1>3 DEF RepeatReady, Answered, TypeOK, HostTypeOK, DeviceTypeOK
    <3>2. /\ \A i \in 1..Len(chunk) : Flight[i] # Msg("READY")
          /\ \A i \in 1..Len(toHost) : Flight[Len(chunk) + i] # Msg("READY")
          /\ Len(Flight) = Len(chunk) + Len(toHost)
          /\ Len(chunk) \in Nat /\ Len(toHost) \in Nat
      <4>1. \A i \in 1..Len(chunk) : chunk[i] # Msg("READY")
        BY <3>1 DEF Msg
      <4> QED BY <3>1, <4>1, Appended DEF Flight
    <3>3. Len(Flight) = 1 => Flight[1] # Msg("READY")
      BY <3>2
    <3> QED BY <3>3
  <2>4. Asking /\ link = "ok" => proto.state = "WAITING_FOR_READY" /\ Flight = <<>>
    BY <1>3, <2>1, <2>3 DEF Asked, Prompt, Answered
  <2> QED BY <2>1, <2>2, <2>4, SpeaksStep
<1>4. CASE RejectLine
  <2>1. /\ dev = "wait" /\ dev' = "wait" /\ toDevice # <<>>
        /\ Head(toDevice).tag = "ONDONE" /\ toDevice' = Tail(toDevice)
        /\ UNCHANGED <<link, cur, phase>> /\ Emit(<<Msg("READY")>>) /\ ~wake'
    BY <1>4 DEF RejectLine, Shape
  <2>2. toDevice = <<OnDone>>
    <3>1. cmd.tag # "ONDONE" /\ Head(<<cmd>>) = cmd
      BY DEF TypeOK, HostTypeOK, HostCommand
    <3> QED BY <2>1, <3>1 DEF Buffers
  <2>3. toDevice' = <<>>
    BY <2>1, <2>2
  <2>4. ~Engaged
    <3>1. cmd # OnDone
      BY DEF TypeOK, HostTypeOK, HostCommand, OnDone
    <3>2. <<OnDone>> # <<cmd>>
      BY <3>1
    <3> QED BY <2>1, <2>2, <3>2 DEF Engaged, Ordered
  <2>5. Asking /\ link = "ok" => proto.state = "WAITING_FOR_READY" /\ Flight = <<>>
    BY <2>1 DEF Asked, Prompt
  <2> QED BY <2>1, <2>3, <2>4, <2>5, SpeaksStep
<1> QED BY <1>2, <1>3, <1>4

\* What a device that executes tests tells of the host.
LEMMA RunFacts ==
  ASSUME IInv, dev = "run"
  PROVE  /\ Expecting /\ ~Asking /\ link = "ok" /\ crash = "none" /\ toDevice = <<>>
         /\ proto.state = "RUNNING" /\ Reading /\ Flight \in Seq(Line)
         /\ None(Flight, Leaving) /\ None(Flight, {"CRASH"}) /\ Guarded(proto, Flight)
         /\ cur # 0 => /\ cur \in Registered /\ phase[cur] = "running"
                       /\ Introduced(proto, Flight, Len(Flight) + 1)
                       /\ Closed(proto, Flight)
<1> USE DEF IInv, Flow
<1>1. /\ Expecting /\ link = "ok" /\ crash = "none" /\ Only(Flight, Talk) /\ toDevice = <<>>
  BY DEF Executing, Buffers
<1>2. proto.state = "RUNNING" /\ Reading /\ ~Asking
  BY <1>1 DEF Expecting, Asking, Reading
<1>3. None(Flight, Leaving) /\ None(Flight, {"CRASH"})
  BY <1>1 DEF Only, None, Talk, Leaving
<1>4. cur # 0 => /\ cur \in Registered /\ phase[cur] = "running"
                 /\ Introduced(proto, Flight, Len(Flight) + 1)
  BY CurrentIntroduced DEF Executing, TypeOK, DeviceTypeOK
<1> QED BY <1>1, <1>2, <1>3, <1>4, FlightType DEF SentOnce, Closed

\* The tests behind a test stay untouched when the one executing goes on.
LEMMA UntouchedKept ==
  ASSUME TypeOK, NEW x, NEW u \in Registered, phase[u] # "idle", phase' = [phase EXCEPT ![u] = x],
         NEW t \in Registered, Untouched(phase, t)
  PROVE  Untouched(phase', t)
BY DEF Untouched, Registered, TypeOK, DeviceTypeOK

\* The device goes on executing the tests of its command.
LEMMA GoesOn ==
  ASSUME IInv, UNCHANGED hostVars, dev = "run", dev' = "run",
         UNCHANGED <<link, toDevice>>,
         Printed(Flight'), Only(Flight', Talk), Guarded(proto, Flight'),
         \A t \in pending' :
           phase'[t] = (IF wake' THEN "slept" ELSE "idle") /\ Untouched(phase', t),
         cur' # 0 => /\ phase'[cur'] = "running" /\ cur' \notin pending'
                     /\ Untouched(phase', cur')
                     /\ Current(proto, Flight', Len(Flight') + 1, cur'),
         \A t \in Registered :
           Untouched(phase, t) /\ pending \subseteq {t} /\ cur \in {0, t} =>
             Untouched(phase', t) /\ pending' \subseteq {t} /\ cur' \in {0, t}
  PROVE  Flow'
<1> USE DEF IInv, Flow, hostVars
<1>1. /\ Expecting /\ ~Asking /\ link = "ok" /\ crash = "none" /\ toDevice = <<>>
      /\ proto.state = "RUNNING" /\ None(Flight', Leaving) /\ None(Flight', {"CRASH"})
      /\ None(Flight, Leaving) /\ Dumped(Flight')
  BY RunFacts DEF Only, None, Talk, Leaving, Dumped
<1>2. /\ Asking' <=> Asking
      /\ Expecting' <=> Expecting
      /\ Engaged'
  BY DEF Asking, Expecting, Reading, Engaged
<1>3. Shape'
  BY <1>1 DEF Shape
<1>4. Cycle'
  BY DEF Cycle
<1>5. Asked'
  BY <1>1, <1>2 DEF Asked
<1>6. Buffers'
  BY <1>1 DEF Buffers
<1>7. Executing'
  BY <1>1, <1>2 DEF Executing
<1>8. SentOnce'
  BY <1>2 DEF SentOnce
<1>9. Resting'
  BY <1>1 DEF Resting
<1>10. Crashing'
  BY <1>1 DEF Crashing
<1> QED BY <1>3, <1>4, <1>5, <1>6, <1>7, <1>8, <1>9, <1>10

\* The device stops executing tests.
LEMMA Stops ==
  ASSUME IInv, UNCHANGED hostVars, dev = "run", dev' # "run",
         toDevice' = <<>>, link' \in {"ok", "broken"}, link' # "ok" => toHost' = <<>>,
         dev' # "hung" => cur' = 0, dev' = "wait" => ~wake',
         Printed(Flight'), Guarded(proto, Flight'), Dumped(Flight'),
         link' = "ok" => Closed(proto, Flight'),
         ~None(Flight', Leaving) =>
           /\ dev' \in {"powerdown", "rebooting"} /\ link' = "ok"
           /\ LeavesAt(Flight', Len(Flight')) /\ Len(Flight') \in 1..Len(Flight')
           /\ \E t \in Registered : /\ phase'[t] = "slept" /\ Untouched(phase', t)
                                    /\ Current(proto, Flight', Len(Flight'), t),
         ~None(Flight', {"CRASH"}) =>
           "crash" \in Outcomes /\ dev' = "rebooting" /\ link' = "ok",
         "crash" \in Outcomes => None(Flight', Leaving),
         \A t \in Registered :
           Untouched(phase, t) /\ pending \subseteq {t} /\ cur \in {0, t} =>
             Untouched(phase', t)
  PROVE  Flow'
<1> USE DEF IInv, Flow, hostVars
<1>1. /\ Expecting /\ ~Asking /\ link = "ok" /\ crash = "none" /\ proto.state = "RUNNING"
      /\ Reading
  BY RunFacts
<1>2. /\ Asking' <=> Asking
      /\ Expecting' <=> Expecting
      /\ ~Engaged'
  <2>1. <<>> # <<cmd>>
    OBVIOUS
  <2> QED BY <2>1 DEF Asking, Expecting, Reading, Engaged, Ordered
<1>3. Shape'
  BY <1>1 DEF Shape, Reading
<1>4. Cycle'
  BY DEF Cycle
<1>5. Asked'
  BY <1>1, <1>2 DEF Asked
<1>6. Buffers'
  BY DEF Buffers
<1>7. Executing'
  BY DEF Executing
<1>8. SentOnce'
  BY <1>2 DEF SentOnce
<1>9. Resting'
  BY <1>1, <1>2 DEF Resting
<1>10. Crashing'
  BY <1>1, <1>2 DEF Crashing
<1> QED BY <1>3, <1>4, <1>5, <1>6, <1>7, <1>8, <1>9, <1>10

\* A test that executes stays the current one while it prints.
LEMMA CurrentKept ==
  ASSUME NEW s \in Seq(Line), NEW l \in Line, l.tag # "CASE", NEW p,
         NEW t \in Registered, Current(p, s, Len(s) + 1, t)
  PROVE  LET r == s \o <<l>> IN Current(p, r, Len(r) + 1, t)
<1> DEFINE r == s \o <<l>>
<1>1. /\ Len(s) \in Nat /\ Len(r) = Len(s) + 1 /\ r[Len(s) + 1] = l
      /\ \A i \in 1..Len(s) : r[i] = s[i]
  BY OneMore
<1> HIDE DEF r
<1>2. (Len(s) + 1) - 1 = Len(s) /\ (Len(r) + 1) - 1 = Len(s) + 1
  BY <1>1
<1>3. \A k \in 1..(Len(s) + 1) : k \in 1..Len(s) \/ k = Len(s) + 1
  BY <1>1
<1>4. CASE \E j \in 1..Len(s) : /\ s[j] = CaseLine(SuiteOf[t], NameOf[t])
                                /\ \A k \in (j + 1)..Len(s) : s[k].tag # "CASE"
  <2>1. PICK j \in 1..Len(s) : /\ s[j] = CaseLine(SuiteOf[t], NameOf[t])
                               /\ \A k \in (j + 1)..Len(s) : s[k].tag # "CASE"
    BY <1>4
  <2>2. /\ j \in 1..(Len(s) + 1) /\ r[j] = CaseLine(SuiteOf[t], NameOf[t])
        /\ \A k \in (j + 1)..(Len(s) + 1) :
             (k \in 1..Len(s) /\ k \in (j + 1)..Len(s)) \/ k = Len(s) + 1
    BY <1>1, <2>1
  <2>3. \A k \in (j + 1)..(Len(s) + 1) : r[k].tag # "CASE"
    BY <1>1, <2>1, <2>2
  <2>4. \E i \in 1..((Len(r) + 1) - 1) :
          /\ r[i] = CaseLine(SuiteOf[t], NameOf[t])
          /\ \A k \in (i + 1)..((Len(r) + 1) - 1) : r[k].tag # "CASE"
    <3>1. \E i \in 1..(Len(s) + 1) : /\ r[i] = CaseLine(SuiteOf[t], NameOf[t])
                                    /\ \A k \in (i + 1)..(Len(s) + 1) : r[k].tag # "CASE"
      BY <2>2, <2>3, Zenon
    <3> QED BY <1>2, <3>1, Zenon
  <2> QED BY <2>4, SMT DEF Current
<1>5. CASE Names(p, t) /\ \A k \in 1..Len(s) : s[k].tag # "CASE"
  <2>1. \A k \in 1..(Len(s) + 1) : r[k].tag # "CASE"
    BY <1>1, <1>3, <1>5
  <2> QED BY <1>2, <1>5, <2>1 DEF Current
<1> QED BY <1>2, <1>4, <1>5 DEF Current, r

\* context.run() enters the next test.
LEMMA StartTestStep ==
  ASSUME IInv, UNCHANGED hostVars, StartTest
  PROVE  Flow'
<1> USE DEF IInv, Flow
<1>1. dev = "run" /\ cur = 0 /\ UNCHANGED <<link, toDevice, dev, wake>>
  BY DEF StartTest, Idle
<1>2. PICK t \in pending :
        /\ \A u \in pending : t <= u
        /\ cur' = t /\ pending' = pending \ {t}
        /\ phase' = [phase EXCEPT ![t] = "running"]
        /\ Emit(<<CaseLine(SuiteOf[t], NameOf[t])>>)
  BY DEF StartTest
<1>3. /\ t \in Registered /\ t # 0 /\ pending \subseteq Registered
      /\ phase \in [Registered -> {"idle", "running", "slept", "ended", "lost"}]
      /\ Registered \subseteq Nat
  BY DEF TypeOK, DeviceTypeOK, Registered
<1> DEFINE l == CaseLine(SuiteOf[t], NameOf[t])
<1>4. l \in Line /\ l.ok /\ l.tag = "CASE" /\ l.name # Empty
  BY <1>3, FirmwareAssumption, EmptyAssumption DEF CaseLine, Line, Tag
<1>5. /\ link = "ok" /\ Flight \in Seq(Line) /\ Guarded(proto, Flight)
      /\ Only(Flight, Talk) /\ Printed(Flight)
  BY <1>1, RunFacts DEF Executing, Shape
<1>6. Flight' = Flight \o <<l>>
  BY <1>1, <1>2, <1>4, <1>5, FlightGrows DEF hostVars
<1>7. Current(proto, Flight', Len(Flight') + 1, t)
  BY <1>3, <1>4, <1>5, <1>6, CaseCurrent
<1> HIDE DEF l
<1>8. Printed(Flight') /\ Only(Flight', Talk) /\ Guarded(proto, Flight')
  BY <1>4, <1>5, <1>6, OneMoreKept DEF Talk
<1>9. \A u \in pending : phase[u] = (IF wake THEN "slept" ELSE "idle") /\ Untouched(phase, u)
  BY <1>1 DEF Executing
<1>10. ASSUME NEW u \in Registered, Untouched(phase, u), t <= u
       PROVE  Untouched(phase', u)
  BY <1>2, <1>3, <1>10 DEF Untouched
<1>11. \A u \in pending' :
         phase'[u] = (IF wake' THEN "slept" ELSE "idle") /\ Untouched(phase', u)
  BY <1>1, <1>2, <1>3, <1>9, <1>10
<1>12. phase'[t] = "running" /\ Untouched(phase', t)
  BY <1>2, <1>3, <1>9, <1>10
<1>13. ASSUME NEW u \in Registered, Untouched(phase, u), pending \subseteq {u}
       PROVE  Untouched(phase', u) /\ pending' \subseteq {u} /\ cur' \in {0, u}
  BY <1>2, <1>3, <1>10, <1>13
<1> QED BY <1>1, <1>2, <1>7, <1>8, <1>11, <1>12, <1>13, GoesOn

\* A test ends.
LEMMA EndTestStep ==
  ASSUME IInv, UNCHANGED hostVars, EndTest
  PROVE  Flow'
<1> USE DEF IInv, Flow
<1>1. /\ dev = "run" /\ cur # 0 /\ cur' = 0 /\ phase' = [phase EXCEPT ![cur] = "ended"]
      /\ UNCHANGED <<link, toHost, toDevice, dev, wake, pending>>
  BY DEF EndTest, Running, linkVars
<1>2. cur \in Registered /\ phase[cur] = "running" /\ Guarded(proto, Flight)
  BY <1>1, RunFacts
<1>3. /\ Flight' = Flight /\ Printed(Flight) /\ Only(Flight, Talk)
      /\ cur \notin pending /\ pending \subseteq Registered
      /\ \A u \in pending : /\ phase[u] = (IF wake THEN "slept" ELSE "idle")
                            /\ Untouched(phase, u)
      /\ phase \in [Registered -> {"idle", "running", "slept", "ended", "lost"}]
  BY <1>1 DEF Flight, hostVars, Shape, Executing, TypeOK, DeviceTypeOK
<1>4. \A t \in Registered : Untouched(phase, t) => Untouched(phase', t)
  BY <1>1, <1>2, UntouchedKept
<1>5. \A u \in pending' : phase'[u] = (IF wake' THEN "slept" ELSE "idle") /\ Untouched(phase', u)
  BY <1>1, <1>2, <1>3, <1>4
<1> QED BY <1>1, <1>2, <1>3, <1>4, <1>5, GoesOn

\* A failed assertion, or a request for patience.
LEMMA PrintsStep ==
  ASSUME IInv, UNCHANGED hostVars, AssertionFails \/ SignalBusy
  PROVE  Flow'
<1> USE DEF IInv, Flow
<1>1. PICK tag \in {"FAIL", "BUSY"} : Emit(<<Msg(tag)>>)
  BY DEF AssertionFails, SignalBusy, Announce
<1>2. /\ dev = "run" /\ cur # 0
      /\ UNCHANGED <<link, toDevice, dev, wake, pending, cur, phase>>
  BY DEF AssertionFails, SignalBusy, Announce, Running, deviceVars
<1> DEFINE l == Msg(tag)
<1>3. l \in Line /\ l.ok /\ l.tag = tag
  BY DEF Msg, Line, Tag
<1>4. /\ link = "ok" /\ Flight \in Seq(Line) /\ Guarded(proto, Flight)
      /\ Only(Flight, Talk) /\ Printed(Flight) /\ cur \in Registered
      /\ Current(proto, Flight, Len(Flight) + 1, cur)
  BY <1>2, RunFacts DEF Executing, Shape
<1>5. Flight' = Flight \o <<l>>
  BY <1>1, <1>2, <1>3, <1>4, FlightGrows DEF hostVars
<1> HIDE DEF l
<1>6. Printed(Flight') /\ Only(Flight', Talk) /\ Guarded(proto, Flight')
  BY <1>3, <1>4, <1>5, OneMoreKept DEF Talk
<1>7. Current(proto, Flight', Len(Flight') + 1, cur)
  BY <1>3, <1>4, <1>5, CurrentKept
<1>8. /\ \A u \in pending : phase[u] = (IF wake THEN "slept" ELSE "idle") /\ Untouched(phase, u)
      /\ phase[cur] = "running" /\ cur \notin pending /\ Untouched(phase, cur)
  BY <1>2 DEF Executing
<1> QED BY <1>2, <1>6, <1>7, <1>8, GoesOn

\* Two lines printed in one piece.
LEMMA FlightGrowsTwice ==
  ASSUME TypeOK, UNCHANGED <<link, chunk>>, link = "ok",
         NEW a \in Line, NEW b \in Line, Emit(<<a, b>>)
  PROVE  Flight \o <<a>> \in Seq(Line) /\ Flight' = (Flight \o <<a>>) \o <<b>>
<1>1. <<a>> \in Seq(Line) /\ <<b>> \in Seq(Line) /\ <<a, b>> = <<a>> \o <<b>>
  <2>1. <<a>> \in Seq(Line) /\ <<b>> \in Seq(Line)
    OBVIOUS
  <2>2. <<a, b>> = <<a>> \o <<b>>
    <3>1. <<a>> \o <<b>> = [i \in 1..2 |-> IF i <= 1 THEN <<a>>[i] ELSE <<b>>[i - 1]]
      BY Len(<<a>>) = 1, Len(<<b>>) = 1, <2>1
    <3>2. <<a, b>> = [i \in 1..2 |-> IF i <= 1 THEN <<a>>[i] ELSE <<b>>[i - 1]]
      OBVIOUS
    <3> QED BY <3>1, <3>2
  <2> QED BY <2>1, <2>2
<1>2. chunk \in Seq(Line) /\ toHost \in Seq(Line) /\ Flight \in Seq(Line)
  BY FlightType DEF TypeOK, HostTypeOK, DeviceTypeOK
<1>3. Flight' = chunk \o (toHost \o (<<a>> \o <<b>>))
  BY <1>1 DEF Flight, Emit
<1>4. toHost \o <<a>> \in Seq(Line)
  BY <1>1, <1>2, ConcatProperties
<1>5. toHost \o (<<a>> \o <<b>>) = (toHost \o <<a>>) \o <<b>>
  BY <1>1, <1>2, ConcatAssociative
<1>6. chunk \o ((toHost \o <<a>>) \o <<b>>) = (chunk \o (toHost \o <<a>>)) \o <<b>>
  BY <1>1, <1>2, <1>4, ConcatAssociative
<1>7. chunk \o (toHost \o <<a>>) = (chunk \o toHost) \o <<a>>
  BY <1>1, <1>2, ConcatAssociative
<1>8. Flight \o <<a>> \in Seq(Line)
  BY <1>1, <1>2, ConcatProperties
<1> QED BY <1>3, <1>5, <1>6, <1>7, <1>8 DEF Flight

\* DONE, and the READY that idle_loop begins with.
LEMMA FinishCycleStep ==
  ASSUME IInv, UNCHANGED hostVars, FinishCycle
  PROVE  Flow'
<1> USE DEF IInv, Flow
<1>1. /\ dev = "run" /\ cur = 0 /\ dev' = "wait" /\ cur' = 0
      /\ Emit(<<Msg("DONE"), Msg("READY")>>)
      /\ UNCHANGED <<link, toDevice, phase>> /\ ~wake'
  BY DEF FinishCycle, Idle
<1>2. /\ link = "ok" /\ toDevice = <<>> /\ Flight \in Seq(Line) /\ Guarded(proto, Flight)
      /\ None(Flight, Leaving) /\ None(Flight, {"CRASH"}) /\ Printed(Flight)
      /\ Dumped(Flight)
  BY <1>1, RunFacts DEF Shape, Crashing
<1> DEFINE done  == Msg("DONE")
           ready == Msg("READY")
           s     == Flight \o <<done>>
<1>3. /\ done \in Line /\ done.ok /\ done.tag = "DONE"
      /\ ready \in Line /\ ready.ok /\ ready.tag = "READY"
  BY DEF Msg, Line, Tag
<1>4. s \in Seq(Line) /\ Flight' = s \o <<ready>>
  <2> HIDE DEF done, ready
  <2> QED BY <1>1, <1>2, <1>3, FlightGrowsTwice DEF hostVars, done, ready
<1> HIDE DEF done, ready
<1>5. /\ Printed(s) /\ Guarded(proto, s) /\ Closed(proto, s)
      /\ None(s, Leaving) /\ None(s, {"CRASH"}) /\ Dumped(s)
  BY <1>2, <1>3, OneMoreKept DEF Leaving
<1> HIDE DEF s
<1>6. /\ Printed(Flight') /\ Guarded(proto, Flight') /\ Closed(proto, Flight')
      /\ None(Flight', Leaving) /\ None(Flight', {"CRASH"}) /\ Dumped(Flight')
  BY <1>3, <1>4, <1>5, OneMoreKept DEF Leaving
<1> QED BY <1>1, <1>2, <1>6, Stops

\* The test that executes ends abnormally; nothing behind it is touched.
LEMMA LeftKept ==
  ASSUME IInv, dev = "run", cur # 0, NEW x, phase' = [phase EXCEPT ![cur] = x]
  PROVE  \A t \in Registered :
           Untouched(phase, t) /\ pending \subseteq {t} /\ cur \in {0, t} =>
             Untouched(phase', t)
<1>1. cur \in Registered /\ phase[cur] = "running"
  BY RunFacts
<1> QED BY <1>1, UntouchedKept DEF IInv

\* A test sends the device to sleep or restarts it.
LEMMA LeaveStep ==
  ASSUME IInv, CrashesLast, UNCHANGED hostVars, SignalSleep \/ SignalRestart
  PROVE  Flow'
<1> USE DEF IInv, Flow
<1>1. PICK tag \in Leaving :
        /\ Emit(<<Msg(tag)>>)
        /\ "crash" \notin Outcomes /\ phase' = [phase EXCEPT ![cur] = "slept"]
  BY DEF SignalSleep, SignalRestart, Leave, Leaving, CrashesLast
<1>2. /\ dev = "run" /\ cur # 0 /\ dev' \in {"powerdown", "rebooting"}
      /\ cur' = 0 /\ UNCHANGED <<link, toDevice>>
  BY DEF SignalSleep, SignalRestart, Leave, Running
<1>3. \A t \in Registered : Untouched(phase, t) /\ pending \subseteq {t} /\ cur \in {0, t} =>
                              Untouched(phase', t)
  BY <1>1, <1>2, LeftKept
<1> DEFINE l == Msg(tag)
<1>4. l \in Line /\ l.ok /\ l.tag = tag /\ l.tag \in Leaving
  BY DEF Msg, Line, Tag, Leaving
<1>5. /\ link = "ok" /\ toDevice = <<>> /\ Flight \in Seq(Line) /\ Guarded(proto, Flight)
      /\ None(Flight, {"CRASH"}) /\ Printed(Flight) /\ Dumped(Flight)
      /\ Only(Flight, Talk) /\ cur \in Registered /\ phase[cur] = "running"
      /\ Introduced(proto, Flight, Len(Flight) + 1) /\ Closed(proto, Flight)
      /\ Current(proto, Flight, Len(Flight) + 1, cur) /\ Untouched(phase, cur)
  BY <1>2, RunFacts DEF Executing, Shape, Crashing
<1>6. Flight' = Flight \o <<l>>
  BY <1>1, <1>2, <1>4, <1>5, FlightGrows DEF hostVars
<1> HIDE DEF l
<1>7. /\ Printed(Flight') /\ Guarded(proto, Flight') /\ Closed(proto, Flight')
      /\ None(Flight', {"CRASH"}) /\ Dumped(Flight')
      /\ LeavesAt(Flight', Len(Flight) + 1)
  <2>1. l.tag \notin {"CRASH", "CASE", "DONE"} /\ l.tag # "CRASH"
    BY <1>4 DEF Leaving
  <2> QED BY <1>4, <1>5, <1>6, <2>1, OneMoreKept
<1>8. /\ Len(Flight) \in Nat /\ Len(Flight') = Len(Flight) + 1
      /\ Len(Flight) + 1 \in 1..(Len(Flight) + 1) /\ <<l>> \in Seq(Line)
  BY <1>4, <1>5, <1>6, OneMore
<1>9. Current(proto, Flight', Len(Flight'), cur)
  <2>1. Current(proto, Flight \o <<l>>, Len(Flight) + 1, cur)
    <3> HIDE DEF Flight
    <3>1. Current(proto, Flight, Len(Flight) + 1, cur) <=>
            Current(proto, Flight \o <<l>>, Len(Flight) + 1, cur)
      BY <1>5, <1>8, AppendedKnown, Zenon
    <3> QED BY <1>5, <3>1
  <2> QED BY <1>6, <1>8, <2>1
<1>10. phase'[cur] = "slept" /\ Untouched(phase', cur)
  <2>1. phase \in [Registered -> {"idle", "running", "slept", "ended", "lost"}]
    BY DEF TypeOK, DeviceTypeOK
  <2>2. Untouched(phase', cur)
    BY <1>1, <1>5, UntouchedKept
  <2> QED BY <1>1, <1>5, <2>1, <2>2
<1>11. LeavesAt(Flight', Len(Flight')) /\ Len(Flight') \in 1..Len(Flight')
  BY <1>7, <1>8
<1> QED BY <1>1, <1>2, <1>3, <1>5, <1>7, <1>9, <1>10, <1>11, Stops

\* A test crashes.
LEMMA CrashStep ==
  ASSUME IInv, UNCHANGED hostVars, Crash
  PROVE  Flow'
<1> USE DEF IInv, Flow
<1>1. /\ Emit(<<Msg("CRASH"), Msg("TRACE")>>) /\ "crash" \in Outcomes
      /\ phase' = [phase EXCEPT ![cur] = "lost"]
      /\ dev = "run" /\ cur # 0 /\ dev' = "rebooting"
      /\ cur' = 0 /\ UNCHANGED <<link, toDevice>>
  BY DEF Crash, Leave, Running
<1>2. \A t \in Registered : Untouched(phase, t) /\ pending \subseteq {t} /\ cur \in {0, t} =>
                              Untouched(phase', t)
  BY <1>1, LeftKept
<1> DEFINE a == Msg("CRASH")
           b == Msg("TRACE")
           s == Flight \o <<a>>
<1>3. /\ a \in Line /\ a.ok /\ a.tag = "CRASH"
      /\ b \in Line /\ b.ok /\ b.tag = "TRACE"
  BY DEF Msg, Line, Tag
<1>4. /\ link = "ok" /\ toDevice = <<>> /\ Flight \in Seq(Line) /\ Guarded(proto, Flight)
      /\ None(Flight, Leaving) /\ Printed(Flight) /\ Only(Flight, Talk)
      /\ Introduced(proto, Flight, Len(Flight) + 1) /\ Closed(proto, Flight)
  BY <1>1, RunFacts DEF Executing, Shape
<1>5. s \in Seq(Line) /\ Flight' = s \o <<b>>
  <2> HIDE DEF a, b
  <2> QED BY <1>1, <1>3, <1>4, FlightGrowsTwice DEF hostVars, a, b
<1> HIDE DEF a, b
<1>6. /\ Printed(s) /\ Guarded(proto, s) /\ Closed(proto, s) /\ None(s, Leaving)
  BY <1>3, <1>4, OneMoreKept DEF Leaving
<1>7. Dumped(Flight')
  BY <1>3, <1>4, <1>5, DumpKept DEF s
<1> HIDE DEF s
<1>8. /\ Printed(Flight') /\ Guarded(proto, Flight') /\ Closed(proto, Flight')
      /\ None(Flight', Leaving)
  BY <1>3, <1>5, <1>6, OneMoreKept DEF Leaving
<1> QED BY <1>1, <1>2, <1>4, <1>7, <1>8, Stops

\* A test hangs, or the board resets or is unplugged under it: nothing is said.
LEMMA SilentStep ==
  ASSUME IInv, UNCHANGED hostVars, Hang \/ SilentReboot \/ Unplug
  PROVE  Flow'
<1> USE DEF IInv, Flow
<1>1. /\ dev = "run" /\ cur # 0 /\ dev' \in {"hung", "boot", "dead"}
      /\ dev' # "hung" => cur' = 0
      /\ phase' = [phase EXCEPT ![cur] = "lost"]
  BY DEF Hang, SilentReboot, Unplug, Vanish, Running
<1>2. /\ link = "ok" /\ toDevice = <<>> /\ Flight \in Seq(Line) /\ Guarded(proto, Flight)
      /\ None(Flight, Leaving) /\ None(Flight, {"CRASH"}) /\ Printed(Flight)
      /\ Closed(proto, Flight)
  BY <1>1, RunFacts DEF Shape
<1>3. /\ toDevice' = <<>>
      /\ \/ link' = link /\ toHost' = toHost
         \/ link' = "broken" /\ toHost' = <<>>
  BY <1>2 DEF Hang, SilentReboot, Unplug, Vanish, GoDown, linkVars
<1>4. chunk \in Seq(Line) /\ toHost \in Seq(Line) /\ chunk' = chunk
  BY DEF TypeOK, HostTypeOK, DeviceTypeOK, hostVars
<1>5. /\ Flight' = Flight \/ Flight' = chunk
      /\ link' # "broken" => Flight' = Flight
  BY <1>3, <1>4, ConcatEmptySeq DEF Flight
<1>6. /\ Printed(Flight') /\ Guarded(proto, Flight')
      /\ None(Flight', Leaving) /\ None(Flight', {"CRASH"}) /\ Dumped(Flight')
  <2>1. /\ Printed(chunk) /\ Guarded(proto, chunk)
        /\ None(chunk, Leaving) /\ None(chunk, {"CRASH"})
    BY <1>2, <1>4, FrontKept DEF Flight
  <2>2. \A x : None(x, {"CRASH"}) => Dumped(x)
    BY DEF None, Dumped
  <2> QED BY <1>2, <1>5, <2>1, <2>2
<1>7. link' = "ok" => Closed(proto, Flight')
  BY <1>2, <1>5
<1>8. \A t \in Registered : Untouched(phase, t) /\ pending \subseteq {t} /\ cur \in {0, t} =>
                              Untouched(phase', t)
  BY <1>1, LeftKept
<1>9. link' \in {"ok", "broken"} /\ (link' # "ok" => toHost' = <<>>)
  BY <1>2, <1>3
<1>10. dev' # "run"
  BY <1>1
<1> QED BY <1>1, <1>3, <1>6, <1>7, <1>8, <1>9, <1>10, Stops

\* The device goes down, or comes up again, with nothing under way.
LEMMA GoesDown ==
  ASSUME IInv, UNCHANGED hostVars, UNCHANGED <<cur, phase>>,
         dev \in {"powerdown", "rebooting", "asleep", "wait"}, dev' \in {"asleep", "boot"},
         toDevice' = <<>>, Flight' = Flight \/ Flight' = chunk,
         UsbCdc \/ Flight' # Flight \/ link' # link \/ dev = "wait" =>
           None(Flight, Leaving) /\ None(Flight, {"CRASH"}) /\ crash # "pending",
         link' = "ok" => link = "ok" /\ Flight' = Flight /\ dev # "wait",
         link' # "ok" => toHost' = <<>>,
         link' = "closed" => link = "closed"
  PROVE  Flow'
<1> USE DEF IInv, Flow, hostVars
<1>1. chunk \in Seq(Line) /\ toHost \in Seq(Line)
  BY DEF TypeOK, HostTypeOK, DeviceTypeOK
<1>2. /\ Printed(Flight') /\ (None(Flight, Leaving) => None(Flight', Leaving))
      /\ None(Flight, {"CRASH"}) => None(Flight', {"CRASH"})
      /\ Guarded(proto, Flight) => Guarded(proto, Flight')
      /\ Dumped(Flight')
  <2>1. \A x : None(x, {"CRASH"}) => Dumped(x)
    BY DEF None, Dumped
  <2> QED BY <1>1, <2>1, FrontKept DEF Flight, Shape, Crashing
<1>3. /\ Asking' <=> Asking
      /\ Expecting' <=> Expecting
      /\ ~Engaged'
      /\ dev # "wait" => ~Engaged
  BY DEF Asking, Expecting, Reading, Engaged, Ordered
<1>4. Shape'
  BY <1>2 DEF Shape
<1>5. Cycle'
  BY DEF Cycle
<1>6. Asked'
  BY <1>3 DEF Asked, Prompt
<1>7. Buffers'
  BY DEF Buffers
<1>8. Executing'
  BY DEF Executing
<1>9. SentOnce'
  BY <1>2, <1>3 DEF SentOnce
<1>10. Resting'
  BY <1>2, <1>3 DEF Resting
<1>11. Crashing'
  BY <1>2, <1>3 DEF Crashing
<1> QED BY <1>4, <1>5, <1>6, <1>7, <1>8, <1>9, <1>10, <1>11

\* Sleep, restart, waking up, and a reset of an idle device.
LEMMA PowerStep ==
  ASSUME IInv, ResetsNoticed, UNCHANGED hostVars,
         (PowerDown /\ Settled) \/ WakeUp \/ ResetOnOpen
  PROVE  Flow'
<1> USE DEF IInv, Flow
<1>1. chunk \in Seq(Line) /\ toHost \in Seq(Line) /\ chunk' = chunk
  BY DEF TypeOK, HostTypeOK, DeviceTypeOK, hostVars
<1>2. CASE PowerDown /\ Settled
  <2>1. /\ dev \in {"powerdown", "rebooting"} /\ dev' \in {"asleep", "boot"}
        /\ toDevice' = <<>> /\ UNCHANGED <<cur, phase>>
        /\ link' = IF UsbCdc /\ link = "ok" THEN "broken" ELSE link
        /\ toHost' = IF UsbCdc THEN <<>> ELSE toHost
        /\ UsbCdc /\ link = "ok" => toHost = <<>> /\ chunk = <<>>
    BY <1>2 DEF PowerDown, Settled, GoDown
  <2>2. toHost' = toHost /\ (link' # "ok" => toHost' = <<>>)
    BY <2>1 DEF Shape
  <2>3. Flight' = Flight
    BY <1>1, <2>2 DEF Flight
  <2>4. UsbCdc => None(Flight, Leaving) /\ None(Flight, {"CRASH"}) /\ crash # "pending"
    <3>1. UsbCdc /\ link = "ok" => Flight = <<>>
      BY <2>1 DEF Flight
    <3> QED BY <3>1, NoLines DEF Resting, Crashing
  <2>5. link' # link => UsbCdc
    BY <2>1
  <2> QED BY <2>1, <2>2, <2>3, <2>4, <2>5, GoesDown
<1>3. CASE WakeUp
  <2>1. /\ dev = "asleep" /\ dev' = "boot" /\ UNCHANGED linkVars /\ UNCHANGED <<cur, phase>>
    BY <1>3 DEF WakeUp
  <2>2. /\ toDevice' = <<>> /\ Flight' = Flight
        /\ UsbCdc => None(Flight, Leaving) /\ None(Flight, {"CRASH"}) /\ crash # "pending"
    BY <1>1, <2>1 DEF Buffers, Resting, Crashing, Flight, linkVars
  <2>3. link' = link /\ (link' # "ok" => toHost' = <<>>)
    BY <2>1 DEF Shape, linkVars
  <2> QED BY <2>1, <2>2, <2>3, GoesDown
<1>4. CASE ResetOnOpen
  <2>1. UsbCdc
    BY <1>4 DEF ResetOnOpen, ResetsNoticed
  <2>2. /\ dev = "wait" /\ dev' = "boot" /\ UNCHANGED <<cur, phase>>
        /\ toDevice' = <<>> /\ link' = "broken" /\ toHost' = <<>>
    BY <1>4, <2>1 DEF ResetOnOpen, GoDown
  <2>3. /\ None(Flight, Leaving) /\ None(Flight, {"CRASH"}) /\ crash # "pending"
        /\ Flight' = chunk
    BY <1>1, <2>1, <2>2, ConcatEmptySeq DEF Resting, Crashing, Flight
  <2> QED BY <2>2, <2>3, GoesDown
<1> QED BY <1>2, <1>3, <1>4

\* The module instantiated counts as this one does.
LEMMA SameCardinality ==
  ASSUME NEW S
  PROVE  Selection!Cardinality(S) = Cardinality(S)
BY DEF Selection!Cardinality, Cardinality

\* A wake cycle selects the sleeper alone, RESUME_AFTER the tests behind it.
LEMMA SelectedFresh ==
  ASSUME UniqueNames, NEW skip \in SUBSET Registered, NEW t \in Registered
  PROVE  LET r == [Registry EXCEPT !.skip = skip] IN
         /\ Selection!Selected(r, RunWake(NameOf[t])) \subseteq {t}
         /\ \A u \in Selection!Selected(r, ResumeAfter(NameOf[t])) : u > t
<1> DEFINE r == [Registry EXCEPT !.skip = skip]
           a == ResumeAfter(NameOf[t])
<1>1. r.name = NameOf /\ Selection!Tests(r) = Registered /\ NameOf[t] # Empty
  BY FirmwareAssumption, EmptyAssumption DEF Registry, Selection!Tests
<1>2. Selection!Selected(r, RunWake(NameOf[t])) \subseteq {t}
  <2>1. \A u \in Selection!Passing(r, RunWake(NameOf[t])) :
          u \in Registered /\ NameOf[u] = NameOf[t]
    BY <1>1 DEF Selection!Passing, RunAll, RunWake
  <2> QED BY <2>1 DEF Selection!Selected, UniqueNames
<1>3. ASSUME NEW u \in Selection!Selected(r, a) PROVE u > t
  <2>1. Selection!ResumeIndex(r, a) = t
    <3>1. {v \in Selection!Tests(r) : r.name[v] = a.name} = {t}
      BY <1>1 DEF UniqueNames, ResumeAfter
    <3>2. (CHOOSE v \in {t} : \A w \in {t} : v <= w) = t
      BY DEF Registered
    <3> QED BY <3>1, <3>2 DEF Selection!ResumeIndex, ResumeAfter
  <2>2. /\ u \in Registered /\ Selection!Rank(r, a, u) > t
        /\ Selection!Passing(r, a) \subseteq Registered
    BY <1>1, <2>1 DEF Selection!Selected, Selection!Passing
  <2>3. Selection!Rank(r, a, u) \in Nat /\ Selection!Rank(r, a, u) <= u
    <3> DEFINE below == {v \in Selection!Passing(r, a) : v <= u}
    <3>1. Selection!Rank(r, a, u) = Cardinality(below)
      BY SameCardinality DEF Selection!Rank
    <3>2. u \in Nat \ {0} /\ below \in SUBSET (1..u)
      BY <2>2, FirmwareAssumption DEF Registered
    <3> HIDE DEF below
    <3>3. IsFiniteSet(1..u) /\ Cardinality(1..u) = u
      BY <3>2, FS_Interval
    <3>4. IsFiniteSet(below) /\ Cardinality(below) <= Cardinality(1..u)
      BY <3>2, <3>3, FS_Subset
    <3>5. Cardinality(below) \in Nat
      BY <3>4, FS_CardinalityType
    <3> QED BY <3>1, <3>3, <3>4, <3>5
  <2>4. u \in Int /\ t \in Int
    BY <2>2 DEF Registered
  <2> HIDE DEF a, r
  <2> QED BY <2>2, <2>3, <2>4
<1> QED BY <1>2, <1>3

\* The tests a command selects are fresh, and the wake flag tells which they are.
LEMMA SelectedUntouched ==
  ASSUME UniqueNames, TypeOK, NEW skip \in SUBSET Registered,
         NEW c \in HostCommand, Fresh(phase, c),
         NEW u \in Selection!Selected([Registry EXCEPT !.skip = skip], c)
  PROVE  phase[u] = (IF CarriesWake(c) THEN "slept" ELSE "idle") /\ Untouched(phase, u)
<1>1. u \in Registered /\ \A t \in Registered : t \in Nat /\ NameOf[t] # Empty
  <2>1. u \in Registered
    BY SelectedRegistered
  <2>2. \A t \in Registered : t \in Nat /\ NameOf[t] # Empty
    BY FirmwareAssumption, EmptyAssumption DEF Registered
  <2> QED BY <2>1, <2>2
<1>2. CASE c = RunAll /\ \A t \in Registered : phase[t] = "idle"
  BY <1>1, <1>2 DEF RunAll, RunWake, CarriesWake, Untouched
<1>3. ASSUME NEW t \in Registered, Untouched(phase, t), c = RunWake(NameOf[t]), phase[t] = "slept"
      PROVE  phase[u] = (IF CarriesWake(c) THEN "slept" ELSE "idle") /\ Untouched(phase, u)
  <2>1. u = t
    BY <1>3, SelectedFresh
  <2>2. CarriesWake(c)
    BY <1>1, <1>3 DEF RunAll, RunWake, CarriesWake
  <2> QED BY <1>3, <2>1, <2>2
<1>4. ASSUME NEW t \in Registered, Untouched(phase, t), c = ResumeAfter(NameOf[t])
      PROVE  phase[u] = (IF CarriesWake(c) THEN "slept" ELSE "idle") /\ Untouched(phase, u)
  <2>1. u > t
    BY <1>4, SelectedFresh
  <2>2. ~CarriesWake(c)
    BY <1>4 DEF ResumeAfter, CarriesWake
  <2> QED BY <1>1, <1>4, <2>1, <2>2 DEF Untouched
<1> QED BY <1>2, <1>3, <1>4 DEF Fresh

\* run_cycle up to context.run().
LEMMA TakeCommandStep ==
  ASSUME IInv, UniqueNames, UNCHANGED hostVars, TakeCommand
  PROVE  Flow'
<1> USE DEF IInv, Flow, hostVars
<1>1. /\ dev = "wait" /\ dev' = "run" /\ toDevice # <<>> /\ Head(toDevice).tag # "ONDONE"
      /\ toDevice' = Tail(toDevice) /\ wake' = CarriesWake(Head(toDevice))
      /\ Emit(<<Msg("TEXT")>>) /\ UNCHANGED <<link, cur, phase>>
  <2>1. toDevice # <<>> /\ toDevice \in Seq(Command)
    BY DEF TakeCommand, TypeOK, DeviceTypeOK
  <2>2. Head(toDevice) \in Command
    BY <2>1, HeadTailProperties
  <2>3. CarriesWake(Head(toDevice)) \in BOOLEAN
    BY <2>2 DEF CarriesWake, Command
  <2>4. dev = "wait" /\ ~wake /\ wake' = (wake \/ CarriesWake(Head(toDevice)))
    BY DEF TakeCommand, Shape
  <2>5. wake' = CarriesWake(Head(toDevice))
    BY <2>3, <2>4
  <2> QED BY <2>4, <2>5 DEF TakeCommand
<1>2. PICK skip \in SUBSET Registered :
        pending' = Selection!Selected([Registry EXCEPT !.skip = skip], Head(toDevice))
  <2> DEFINE skip == IF Selection!TakesArgs(Head(toDevice)) THEN skipMark
                     ELSE skipMark \cup NeedsEnv
  <2>1. skip \in SUBSET Registered
    BY FirmwareAssumption DEF TypeOK, DeviceTypeOK
  <2>2. pending' = Selection!Selected([Registry EXCEPT !.skip = skip], Head(toDevice))
    BY DEF TakeCommand
  <2> QED BY <2>1, <2>2
<1>3. /\ toDevice = <<cmd>> /\ Fresh(phase, cmd) /\ Expecting /\ link = "ok"
      /\ Flight = <<>> /\ crash = "none"
  <2>1. toDevice # <<OnDone>>
    <3>1. Head(<<OnDone>>) = OnDone /\ OnDone.tag = "ONDONE"
      BY DEF OnDone
    <3> QED BY <1>1, <3>1
  <2> QED BY <1>1, <2>1 DEF Buffers
<1>4. /\ toDevice' = <<>> /\ wake' = CarriesWake(cmd) /\ cmd \in HostCommand
      /\ pending' = Selection!Selected([Registry EXCEPT !.skip = skip], cmd)
  BY <1>1, <1>2, <1>3 DEF TypeOK, HostTypeOK
<1>5. /\ Flight' = <<Msg("TEXT")>> /\ cur' = 0 /\ proto.state = "RUNNING" /\ Reading
      /\ Expecting' /\ ~Asking' /\ ~Asking /\ Engaged'
  <2>1. Msg("TEXT") \in Line
    BY DEF Msg, Line, Tag
  <2>2. Flight' = Flight \o <<Msg("TEXT")>>
    BY <1>1, <1>3, <2>1, FlightGrows
  <2>3. <<>> \o <<Msg("TEXT")>> = <<Msg("TEXT")>>
    OBVIOUS
  <2> QED BY <1>1, <1>3, <2>2, <2>3 DEF Shape, Expecting, Asking, Reading, Engaged
<1>6. /\ Printed(Flight') /\ Only(Flight', Talk) /\ Guarded(proto, Flight')
       /\ None(Flight', Leaving) /\ None(Flight', {"CRASH"}) /\ Dumped(Flight')
  <2>1. /\ Len(<<Msg("TEXT")>>) = 1 /\ <<Msg("TEXT")>>[1].tag = "TEXT"
        /\ <<Msg("TEXT")>>[1].ok
    BY DEF Msg
  <2> QED BY <1>5, <2>1 DEF Printed, Only, Guarded, None, Dumped, Talk, Leaving
<1>7. \A u \in pending' :
        phase'[u] = (IF wake' THEN "slept" ELSE "idle") /\ Untouched(phase', u)
  BY <1>1, <1>3, <1>4, SelectedUntouched
<1>8. Shape'
  BY <1>1, <1>3, <1>5, <1>6 DEF Shape
<1>9. Cycle'
  <2>1. ASSUME kind \in {"phase2", "retry"}
        PROVE  \E t \in Registered :
                 /\ target = NameOf[t] /\ cmd = RunWake(target) /\ Untouched(phase, t)
                 /\ pending' \subseteq {t}
    <3>1. PICK t \in Registered : /\ target = NameOf[t] /\ cmd = RunWake(target)
                                  /\ Untouched(phase, t)
      BY <1>5, <2>1 DEF Cycle, Reading
    <3>2. pending' \subseteq {t}
      BY <1>4, <3>1, SelectedFresh
    <3> QED BY <3>1, <3>2
  <2> QED BY <1>1, <1>5, <2>1 DEF Cycle
<1>10. Asked'
  BY <1>5 DEF Asked
<1>11. Buffers'
  BY <1>1, <1>4 DEF Buffers
<1>12. Executing'
  BY <1>1, <1>3, <1>5, <1>7, <1>6 DEF Executing
<1>13. SentOnce'
  BY <1>5, <1>6 DEF SentOnce
<1>14. Resting'
  BY <1>5, <1>6 DEF Resting
<1>15. Crashing'
  BY <1>3, <1>5, <1>6 DEF Crashing
<1> QED BY <1>8, <1>9, <1>10, <1>11, <1>12, <1>13, <1>14, <1>15

\* Every step of the device.
LEMMA DeviceFlow ==
  ASSUME IInv, Orderly, Device
  PROVE  Flow'
<1> USE DEF Orderly
<1>1. UNCHANGED hostVars
  BY DEF Device
<1>2. CASE Boot \/ BoardFailure \/ (RepeatReady /\ Answered) \/ RejectLine
  BY <1>1, <1>2, UnaskedStep
<1>3. CASE TakeCommand
  BY <1>1, <1>3, TakeCommandStep
<1>4. CASE StartTest
  BY <1>1, <1>4, StartTestStep
<1>5. CASE LeaveTest
  BY <1>1, <1>5, EndTestStep, LeaveStep, CrashStep, SilentStep DEF LeaveTest
<1>6. CASE AssertionFails \/ SignalBusy
  BY <1>1, <1>6, PrintsStep
<1>7. CASE SignalError
  BY <1>7 DEF SignalError, Announce, Attended
<1>8. CASE FinishCycle
  BY <1>1, <1>8, FinishCycleStep
<1>9. CASE (PowerDown /\ Settled) \/ WakeUp \/ ResetOnOpen
  BY <1>1, <1>9, PowerStep
<1> QED
  BY <1>2, <1>3, <1>4, <1>5, <1>6, <1>7, <1>8, <1>9 DEF Device, DeviceStep
-----------------------------------------------------------------------------
(* The theorems.                                                           *)

\* A run begins with no test executed and nothing in flight.
LEMMA InitFlow == Init => Flow
<1> SUFFICES ASSUME Init PROVE Flow
  OBVIOUS
<1>1. /\ hpc = "open" /\ kind = "initial" /\ cmd = RunAll /\ proto = NewProtocol
      /\ chunk = <<>> /\ crash = "none" /\ ~finished
      /\ dev = "boot" /\ pending = {} /\ cur = 0 /\ link = "closed"
      /\ toHost = <<>> /\ toDevice = <<>>
      /\ \A t \in Registered : phase[t] = "idle"
  BY DEF Init, HostInit, DeviceInit, LinkInit
<1>2. /\ Flight = <<>> /\ proto.state = "WAITING_FOR_READY"
      /\ ~Reading /\ ~Expecting /\ ~Engaged /\ Fresh(phase, cmd)
  BY <1>1 DEF Flight, NewProtocol, Reading, Expecting, Engaged, Ordered, Fresh
<1>3. Shape /\ Cycle
  BY <1>1, <1>2, NoLines DEF Shape, Cycle
<1>4. Asked /\ Buffers /\ Executing /\ SentOnce
  BY <1>1, <1>2 DEF Asked, Buffers, Executing, SentOnce
<1>5. Resting /\ Crashing
  BY <1>1, <1>2, NoLines DEF Resting, Crashing
<1> QED BY <1>3, <1>4, <1>5 DEF Flow

\* A step that changes nothing.
LEMMA StutterFlow == IInv /\ UNCHANGED vars => Flow'
<1> SUFFICES ASSUME IInv, UNCHANGED vars PROVE Flow'
  OBVIOUS
<1> USE DEF IInv, Flow, vars, hostVars, deviceVars, linkVars
<1>1. /\ Flight' = Flight
      /\ Reading' <=> Reading
      /\ Asking' <=> Asking
      /\ Expecting' <=> Expecting
      /\ Engaged' <=> Engaged
      /\ Ordered' <=> Ordered
  BY DEF Flight, Reading, Asking, Expecting, Engaged, Ordered
<1>2. Shape' /\ Cycle'
  BY <1>1 DEF Shape, Cycle
<1>3. Asked' /\ Buffers'
  BY <1>1 DEF Asked, Prompt, Buffers
<1>4. Executing' /\ SentOnce'
  BY <1>1 DEF Executing, SentOnce
<1>5. Resting' /\ Crashing'
  BY <1>1 DEF Resting, Crashing
<1> QED BY <1>2, <1>3, <1>4, <1>5

\* The invariant is inductive.
LEMMA FlowInvariant ==
  ASSUME Orderly
  PROVE  Spec => []IInv
<1>1. Init => IInv
  BY InitType, InitFlow
  DEF IInv, Init, HostInit, HostControl, ReadsUnanswering, RescueUnreached
<1>2. TypeOK' /\ HostControl' /\ IInv /\ [Next]_vars => IInv'
  <2> SUFFICES ASSUME TypeOK', HostControl', IInv, [Next]_vars PROVE IInv'
    OBVIOUS
  <2>1. CASE Host
    BY <2>1, HostFlow DEF IInv, Orderly
  <2>2. CASE Device
    BY <2>2, DeviceFlow DEF IInv
  <2>3. CASE UNCHANGED vars
    BY <2>3, StutterFlow DEF IInv
  <2> QED BY <2>1, <2>2, <2>3 DEF Next, Terminated
<1> QED BY <1>1, <1>2, TypeCorrect, ControlInvariant, PTL DEF Spec

\* A test is only entered from the selection of the last command.
LEMMA PendingEntered ==
  ASSUME IInv, [Next]_vars, NEW t \in Registered,
         phase[t] # "running", phase'[t] = "running"
  PROVE  dev = "run" /\ t \in pending
<1> USE DEF IInv, Flow
<1>1. phase \in [Registered -> {"idle", "running", "slept", "ended", "lost"}]
  BY DEF TypeOK, DeviceTypeOK
<1>2. CASE StartTest
  <2>1. PICK u \in pending : phase' = [phase EXCEPT ![u] = "running"]
    BY <1>2 DEF StartTest
  <2>2. dev = "run" /\ u = t
    BY <1>1, <1>2, <2>1 DEF StartTest, Idle
  <2> QED BY <2>1, <2>2
<1>3. CASE LeaveTest
  <2>1. \E x \in {"ended", "slept", "lost"} : phase' = [phase EXCEPT ![cur] = x]
    BY <1>3 DEF LeaveTest, EndTest, SignalSleep, SignalRestart, Crash, Leave,
                Hang, SilentReboot, Unplug, Vanish
  <2> QED BY <1>1, <2>1
<1>4. CASE UNCHANGED phase
  BY <1>4
<1>5. Device => StartTest \/ LeaveTest \/ UNCHANGED phase
  BY DEF Device, DeviceStep, Boot, BoardFailure, RejectLine, TakeCommand, RepeatReady,
         AssertionFails, SignalBusy, SignalError, Announce, ResetOnOpen, FinishCycle,
         WakeUp, PowerDown, deviceVars
<1>6. Host \/ UNCHANGED vars => UNCHANGED phase
  BY DEF Host, vars, deviceVars
<1> QED BY <1>2, <1>3, <1>4, <1>5, <1>6 DEF Next, Terminated

\* The wake flag tells what was selected.
LEMMA Entering ==
  ASSUME IInv, [Next]_vars, NEW t \in Registered,
         phase[t] # "running", phase'[t] = "running"
  PROVE  phase[t] = IF wake THEN "slept" ELSE "idle"
BY PendingEntered DEF IInv, Flow, Executing

\* In an orderly run the test stage_testing waits for and resumes is one that
\* did ask for the sleep, whatever lines of it were on their way when the port
\* went down, and however often it slept before.
THEOREM RightTestResumed ==
  ASSUME Orderly
  PROVE  Spec => []RightSleeper
<1>1. IInv => RightSleeper
  BY DEF IInv, Flow, Cycle, Resting, Slept, RightSleeper
<1> QED BY <1>1, FlowInvariant, PTL

\* In an orderly run no reboot, repeated READY or resumed cycle makes the
\* device execute a test again that has ended, hung or crashed.
THEOREM NothingReexecuted ==
  ASSUME Orderly
  PROVE  Spec => NoReexecution
<1>1. IInv /\ [Next]_vars =>
        [\A t \in Registered : phase[t] \in {"ended", "lost"} => phase'[t] # "running"]_vars
  BY Entering
<1> QED BY <1>1, FlowInvariant, PTL DEF Spec, NoReexecution

\* In an orderly run is_test_wake() is true in a test exactly when an earlier
\* execution of that test put the device to sleep.
THEOREM WakeFlagTrue ==
  ASSUME Orderly
  PROVE  Spec => WakeFlagMeansSlept
<1>1. IInv /\ [Next]_vars =>
        [\A t \in Registered : phase[t] # "running" /\ phase'[t] = "running" =>
           (wake <=> phase[t] = "slept")]_vars
  <2> SUFFICES ASSUME IInv, [Next]_vars, NEW t \in Registered,
                      phase[t] # "running", phase'[t] = "running"
               PROVE  wake <=> phase[t] = "slept"
    OBVIOUS
  <2>1. phase[t] = IF wake THEN "slept" ELSE "idle"
    BY Entering
  <2> QED BY <2>1
<1> QED BY <1>1, FlowInvariant, PTL DEF Spec, WakeFlagMeansSlept
-----------------------------------------------------------------------------
(* Which tests are executed at all.                                        *)

\* Without a sleep or a restart there is only the first cycle.
OneCycle ==
  /\ kind = "initial" /\ cmd = RunAll /\ hpc \notin {"wake", "resumed"}
  /\ proto.state # "SLEEPING" /\ None(Flight, Leaving)
  /\ \A i \in 1..Len(toDevice) : toDevice[i] \in {cmd, OnDone}

\* Skip marks are only ever added to those of the source; what is pending has
\* come through them, and through the filters if the command took those along.
Filtered ==
  /\ SkipMark \subseteq skipMark
  /\ dev = "run" =>
       \A t \in pending : t \notin SkipMark /\ (t \in Match \/ cmd.tag = "RESUME_AFTER")

\* Whatever the state of the protocol, only a line that announces it makes the
\* host expect a sleep.
LEMMA SleepingAnnounced ==
  ASSUME NEW p \in Protocol, NEW line \in Line,
         p.state # "SLEEPING", line.tag \notin Leaving
  PROVE  Feed(p, line).state # "SLEEPING"
BY DEF Feed, FeedWaiting, FeedReady, FeedRunning, CommandLost, CaseStart, Protocol, Leaving

\* The host alone never leaves the first cycle.
LEMMA OneCycleHost ==
  ASSUME TypeOK, OneCycle, Host
  PROVE  OneCycle'
<1> USE DEF OneCycle, linkVars
<1>1. chunk \in Seq(Line) /\ toHost \in Seq(Line) /\ proto \in Protocol
      /\ toDevice \in Seq(Command)
  BY DEF TypeOK, HostTypeOK, DeviceTypeOK
<1>2. Reset(proto).state # "SLEEPING" /\ CommandSent(proto).state # "SLEEPING"
      /\ BusyExpired(proto).state # "SLEEPING"
  BY <1>1 DEF Reset, NewProtocol, CommandSent, BusyExpired, Protocol
<1>3. None(<<>>, Leaving) /\ None(toHost, Leaving) /\ None(chunk, Leaving)
  BY <1>1, NoLines, FrontKept, BackKept DEF Flight
<1>4. <<>> \o toHost = toHost /\ chunk \o <<>> = chunk /\ <<>> \o <<>> = <<>>
  BY <1>1, ConcatEmptySeq
<1>5. CASE OpenCycle
  BY <1>2, <1>3, <1>4, <1>5 DEF OpenCycle, Open, Flight
<1>6. CASE ReadChunk
  <2>1. PICK n \in 1..Len(toHost) :
          chunk' = SubSeq(toHost, 1, n) /\ toHost' = SubSeq(toHost, n + 1, Len(toHost))
    BY <1>6 DEF ReadChunk
  <2>2. Flight' = toHost
    BY <1>1, <2>1, SplitFlight DEF Flight
  <2> QED BY <1>3, <1>6, <2>2 DEF ReadChunk
<1>7. CASE HandleLine
  <2>1. chunk # <<>> /\ proto' = Feed(proto, Head(chunk))
        /\ chunk' \in {<<>>, Tail(chunk)}
        /\ UNCHANGED linkVars /\ UNCHANGED <<hpc, kind, cmd>>
    BY <1>7 DEF HandleLine
  <2>2. /\ Head(chunk) \in Line /\ Tail(chunk) \in Seq(Line)
        /\ Head(chunk).tag \notin Leaving /\ None(Tail(chunk) \o toHost, Leaving)
    <3>1. /\ Flight \in Seq(Line) /\ Flight # <<>> /\ Head(Flight) = Head(chunk)
          /\ Tail(Flight) = Tail(chunk) \o toHost
      BY <2>1, FlightType, FlightTail
    <3>2. Head(chunk) \in Line /\ Tail(chunk) \in Seq(Line)
      BY <1>1, <2>1, HeadTailProperties
    <3>3. Head(Flight).tag \notin Leaving /\ None(Tail(Flight), Leaving)
      BY <3>1, TailLines
    <3> QED BY <3>1, <3>2, <3>3
  <2>3. None(Flight', Leaving)
    BY <1>3, <1>4, <2>1, <2>2 DEF Flight
  <2> QED BY <1>1, <2>1, <2>2, <2>3, SleepingAnnounced
<1>8. CASE SendCommand(Powered) \/ PostTest(Powered)
  <2>1. \E c \in {cmd, OnDone} :
          toDevice' = toDevice \o <<c>> \/ toDevice' = toDevice
    BY <1>8 DEF SendCommand, PostTest, Write
  <2>2. /\ UNCHANGED <<chunk, toHost, kind, cmd>> /\ hpc' \in {"drain", "read", "close"}
        /\ proto' = proto \/ proto' = CommandSent(proto)
    BY <1>8 DEF SendCommand, PostTest
  <2>3. \A i \in 1..Len(toDevice') : toDevice'[i] \in {cmd, OnDone}
    <3>1. PICK c \in {cmd, OnDone} : toDevice' = toDevice \o <<c>> \/ toDevice' = toDevice
      BY <2>1
    <3>2. \A i \in 1..Len(toDevice \o <<c>>) :
            (toDevice \o <<c>>)[i] = IF i <= Len(toDevice) THEN toDevice[i] ELSE c
      BY <1>1
    <3>3. Len(toDevice) \in Nat /\ Len(toDevice \o <<c>>) = Len(toDevice) + 1
      BY <1>1
    <3> QED BY <3>1, <3>2, <3>3
  <2> QED BY <1>2, <2>2, <2>3 DEF Flight
<1>9. CASE SendFails \/ OpenFails \/ PortLost \/ ResolveFails
  <2>1. UNCHANGED linkVars /\ UNCHANGED <<kind, cmd>> /\ chunk' \in {chunk, <<>>}
        /\ hpc' \notin {"wake", "resumed"} /\ proto'.state # "SLEEPING"
    BY <1>2, <1>9 DEF SendFails, OpenFails, PortLost, ResolveFails, PortException,
                      SerialException, RunnerError
  <2> QED BY <1>3, <1>4, <2>1 DEF Flight
<1>10. CASE EndChunk \/ CycleDone \/ DeviceError \/ NextRead \/ CrashBreak \/ DrainTimeout
            \/ ReadyTimeout \/ HangTimeout
  BY <1>10 DEF EndChunk, CycleDone, DeviceError, NextRead, CrashBreak, DrainTimeout,
               ReadyTimeout, HangTimeout, Flight
<1>11. CASE CloseCycle \/ Finalize
  BY <1>3, <1>4, <1>11 DEF CloseCycle, Finalize, Close, Flight
<1>12. CASE ResumeSleeper \/ GiveUp \/ LoopExit \/ RunRemaining \/ Wake
  BY <1>12 DEF ResumeSleeper, GiveUp, LoopExit, RunRemaining, Wake, Flight
<1>13. CASE BusyElapses
  BY <1>2, <1>13 DEF BusyElapses, Flight
<1> QED BY <1>5, <1>6, <1>7, <1>8, <1>9, <1>10, <1>11, <1>12, <1>13 DEF Host, HostStep

\* Two parts without the tags, one without them.
LEMMA NoneTogether ==
  ASSUME NEW a \in Seq(Line), NEW b \in Seq(Line), NEW tags, None(a, tags), None(b, tags)
  PROVE  None(a \o b, tags)
<1> DEFINE s == a \o b
<1>1. /\ Len(a) \in Nat /\ Len(b) \in Nat /\ Len(s) = Len(a) + Len(b)
      /\ \A i \in 1..Len(a) : s[i] = a[i]
      /\ \A i \in 1..Len(b) : s[Len(a) + i] = b[i]
  BY Appended
<1> HIDE DEF s
<1>2. \A i \in 1..Len(s) :
        i \in 1..Len(a) \/ (i - Len(a) \in 1..Len(b) /\ Len(a) + (i - Len(a)) = i)
  BY <1>1
<1>3. None(s, tags)
  BY <1>1, <1>2 DEF None
<1> QED BY <1>3 DEF s

\* Nor does a device without a sleep or a restart.
LEMMA OneCycleDevice ==
  ASSUME TypeOK, OneCycle, Outcomes \cap {"sleep", "restart"} = {}, Device
  PROVE  OneCycle'
<1> USE DEF OneCycle, hostVars
<1>1. /\ chunk \in Seq(Line) /\ toHost \in Seq(Line) /\ toDevice \in Seq(Command)
      /\ UNCHANGED hostVars /\ Flight \in Seq(Line)
  BY FlightType DEF TypeOK, HostTypeOK, DeviceTypeOK, Device
<1>2. \/ UNCHANGED toHost
      \/ toHost' = <<>>
      \/ \E tag \in {"READY", "ERROR", "FAIL", "BUSY", "TEXT"} :
           UNCHANGED link /\ Emit(<<Msg(tag)>>)
      \/ \E t \in Registered : UNCHANGED link /\ Emit(<<CaseLine(SuiteOf[t], NameOf[t])>>)
      \/ FinishCycle \/ Crash
  <2>1. CASE Boot \/ BoardFailure \/ RepeatReady \/ RejectLine
    BY <2>1 DEF Boot, BoardFailure, RepeatReady, RejectLine
  <2>2. CASE StartTest
    BY <2>2 DEF StartTest, TypeOK, DeviceTypeOK
  <2>3. CASE AssertionFails \/ SignalBusy \/ SignalError
    BY <2>3 DEF AssertionFails, SignalBusy, SignalError, Announce
  <2>4. CASE LeaveTest
    BY <2>4 DEF LeaveTest, EndTest, SignalSleep, SignalRestart, Leave, Hang,
                SilentReboot, Unplug, Vanish, GoDown, linkVars
  <2>5. CASE TakeCommand \/ ResetOnOpen \/ WakeUp \/ PowerDown
    BY <2>5 DEF TakeCommand, ResetOnOpen, WakeUp, PowerDown, GoDown, linkVars
  <2> QED BY <2>1, <2>2, <2>3, <2>4, <2>5 DEF Device, DeviceStep
<1>3. toDevice' \in {toDevice, <<>>, Tail(toDevice)} /\ (toDevice = <<>> => toDevice' = <<>>)
  <2>1. CASE UNCHANGED toDevice
    BY <2>1
  <2>2. CASE toDevice' = <<>>
    BY <2>2
  <2>3. CASE toDevice # <<>> /\ toDevice' = Tail(toDevice)
    BY <2>3
  <2> QED BY <2>1, <2>2, <2>3
          DEF Device, DeviceStep, Boot, BoardFailure, RepeatReady, RejectLine, TakeCommand,
              StartTest, AssertionFails, SignalBusy, SignalError, Announce, LeaveTest,
              EndTest, SignalSleep, SignalRestart, Crash, Leave, Hang, SilentReboot, Unplug,
              Vanish, GoDown, FinishCycle, WakeUp, PowerDown, ResetOnOpen, linkVars
<1>4. \A i \in 1..Len(toDevice') : toDevice'[i] \in {cmd, OnDone}
  <2>1. CASE toDevice = <<>> \/ toDevice' # Tail(toDevice)
    BY <1>3, <2>1
  <2>2. CASE toDevice # <<>> /\ toDevice' = Tail(toDevice)
    <3>1. /\ Len(toDevice') = Len(toDevice) - 1 /\ Len(toDevice) \in Nat
          /\ \A i \in 1..Len(toDevice') : toDevice'[i] = toDevice[i + 1]
      BY <1>1, <2>2, HeadTailProperties, LenProperties
    <3> QED BY <3>1
  <2> QED BY <1>3, <2>1, <2>2
<1>5. None(Flight', Leaving)
  <2>1. CASE UNCHANGED toHost
    BY <1>1, <2>1 DEF Flight
  <2>2. CASE toHost' = <<>>
    <3>1. Flight' = chunk
      BY <1>1, <2>2, ConcatEmptySeq DEF Flight
    <3> QED BY <1>1, <3>1, FrontKept DEF Flight
  <2>3. ASSUME NEW l \in Line, l.tag \notin Leaving, UNCHANGED link, Emit(<<l>>)
        PROVE  None(Flight', Leaving)
    BY <1>1, <2>3, FlightGrows, OneMoreKept
  <2>4. CASE \E tag \in {"READY", "ERROR", "FAIL", "BUSY", "TEXT"} :
               UNCHANGED link /\ Emit(<<Msg(tag)>>)
    <3>1. \A tag \in {"READY", "ERROR", "FAIL", "BUSY", "TEXT"} :
            Msg(tag) \in Line /\ Msg(tag).tag \notin Leaving
      BY DEF Msg, Line, Tag, Leaving
    <3> QED BY <2>3, <2>4, <3>1
  <2>5. CASE \E t \in Registered : UNCHANGED link /\ Emit(<<CaseLine(SuiteOf[t], NameOf[t])>>)
    <3>1. \A t \in Registered : /\ CaseLine(SuiteOf[t], NameOf[t]) \in Line
                                /\ CaseLine(SuiteOf[t], NameOf[t]).tag \notin Leaving
      BY FirmwareAssumption DEF CaseLine, Line, Tag, Leaving
    <3> QED BY <2>3, <2>5, <3>1
  <2>6. CASE FinishCycle \/ Crash
    <3>1. PICK x \in {"DONE", "CRASH"}, y \in {"READY", "TRACE"} :
            Emit(<<Msg(x), Msg(y)>>) /\ UNCHANGED link
      BY <2>6 DEF FinishCycle, Crash, Leave
    <3>2. Msg(x) \in Line /\ Msg(y) \in Line /\ Msg(x).tag = x /\ Msg(y).tag = y
      BY DEF Msg, Line, Tag
    <3>3. x \notin Leaving /\ y \notin Leaving
      BY DEF Leaving
    <3> DEFINE a == Msg(x)
               b == Msg(y)
    <3>4. a \in Line /\ b \in Line /\ a.tag = x /\ b.tag = y /\ Emit(<<a, b>>)
      BY <3>1, <3>2
    <3> HIDE DEF a, b
    <3>5. CASE link = "ok"
      <4>1. Flight \o <<a>> \in Seq(Line) /\ Flight' = (Flight \o <<a>>) \o <<b>>
        BY <1>1, <3>1, <3>4, <3>5, FlightGrowsTwice
      <4>2. None(Flight \o <<a>>, Leaving)
        BY <1>1, <3>3, <3>4, OneMoreKept
      <4> QED BY <3>3, <3>4, <4>1, <4>2, OneMoreKept
    <3>6. CASE link # "ok"
      <4>1. toHost' = toHost
        BY <3>4, <3>6 DEF Emit
      <4> QED BY <1>1, <4>1 DEF Flight
    <3> QED BY <3>5, <3>6
  <2> QED BY <1>2, <2>1, <2>2, <2>4, <2>5, <2>6
<1> QED BY <1>1, <1>4, <1>5

\* The command reaches the device as the host sent it, and the host waits.
LEMMA FilteredStep ==
  ASSUME IInv, Filtered, [Next]_vars
  PROVE  Filtered'
<1> USE DEF IInv, Flow, TypeOK, DeviceTypeOK, Filtered
<1>1. CASE Host
  <2>1. UNCHANGED deviceVars
    BY <1>1 DEF Host
  <2>2. dev = "run" => hpc \notin {"wake", "resumed"}
    BY DEF Executing, Expecting, Reading
  <2>3. dev = "run" => cmd' = cmd
    BY <1>1, <2>2 DEF Host, HostStep, OpenCycle, ReadChunk, HandleLine, EndChunk,
       SendCommand, SendFails, CycleDone, DeviceError, NextRead, CrashBreak, PortLost,
       PostTest, CloseCycle, ResumeSleeper, GiveUp, LoopExit, RunRemaining, Finalize,
       ResolveFails, OpenFails, Wake, ReadyTimeout, HangTimeout, DrainTimeout, BusyElapses
  <2> QED BY <2>1, <2>3 DEF deviceVars
<1>2. CASE Device /\ TakeCommand
  <2>1. UNCHANGED hostVars
    BY <1>2 DEF Device
  <2>2. toDevice = <<cmd>>
    <3>1. Head(<<OnDone>>) = OnDone /\ OnDone.tag = "ONDONE"
      BY DEF OnDone
    <3> QED BY <1>2, <3>1 DEF Buffers, TakeCommand
  <2>3. Head(toDevice) = cmd /\ cmd \in HostCommand
    BY <2>2 DEF HostTypeOK
  <2>4. PICK skip \in SUBSET Registered :
          /\ SkipMark \subseteq skip /\ skipMark' = skip
          /\ pending' = Selection!Selected([Registry EXCEPT !.skip = skip], cmd)
    <3> DEFINE skip == IF Selection!TakesArgs(cmd) THEN skipMark ELSE skipMark \cup NeedsEnv
    <3>1. skip \in SUBSET Registered /\ SkipMark \subseteq skip
      BY FirmwareAssumption
    <3>2. /\ skipMark' = skip
          /\ pending' = Selection!Selected([Registry EXCEPT !.skip = skip], cmd)
      BY <1>2, <2>3 DEF TakeCommand
    <3> QED BY <3>1, <3>2
  <2>5. \A t \in pending' : t \notin skip /\ (t \in Match \/ cmd.tag = "RESUME_AFTER")
    BY <2>3, <2>4 DEF Selection!Selected, Selection!Passing, Selection!TakesArgs, Registry,
       HostCommand
  <2> QED BY <2>1, <2>4, <2>5 DEF hostVars
<1>3. CASE Device /\ ~TakeCommand
  <2>1. UNCHANGED hostVars
    BY <1>3 DEF Device
  <2>2. /\ SkipMark \subseteq skipMark'
        /\ dev' = "run" => dev = "run" /\ pending' \subseteq pending
    BY <1>3 DEF Device, DeviceStep, Boot, BoardFailure, RejectLine, RepeatReady, StartTest,
       Idle, LeaveTest, EndTest, SignalSleep, SignalRestart, Crash, Leave, Hang,
       SilentReboot, Unplug, Vanish, Running, AssertionFails, SignalBusy, SignalError,
       Announce, ResetOnOpen, FinishCycle, WakeUp, PowerDown, deviceVars
  <2> QED BY <2>1, <2>2 DEF hostVars
<1>4. CASE UNCHANGED vars
  BY <1>4 DEF vars, hostVars, deviceVars
<1> QED BY <1>1, <1>2, <1>3, <1>4 DEF Next, Terminated

\* In an orderly run no test is entered that is marked skip(), and no test that
\* the filters exclude but by a RESUME_AFTER, however often the device sleeps,
\* reboots and takes its handshake again in between.
THEOREM FiltersKept ==
  ASSUME Orderly
  PROVE  Spec => FiltersHold
<1>1. Init => Filtered
  BY DEF Init, DeviceInit, Filtered
<1>2. IInv /\ Filtered /\ [Next]_vars => Filtered'
  BY FilteredStep
<1>3. IInv /\ Filtered /\ [Next]_vars =>
        [\A t \in Registered : phase[t] # "running" /\ phase'[t] = "running" =>
           t \notin SkipMark /\ (t \in Match \/ cmd.tag = "RESUME_AFTER")]_vars
  <2> SUFFICES ASSUME IInv, Filtered, [Next]_vars, NEW t \in Registered,
                      phase[t] # "running", phase'[t] = "running"
               PROVE  t \notin SkipMark /\ (t \in Match \/ cmd.tag = "RESUME_AFTER")
    OBVIOUS
  <2>1. dev = "run" /\ t \in pending
    BY PendingEntered
  <2> QED BY <2>1 DEF Filtered
<1> QED BY <1>1, <1>2, <1>3, FlowInvariant, PTL DEF Spec, FiltersHold
-----------------------------------------------------------------------------
(* What the report says of the failures, and how a run ends.               *)

\* Every test belongs to a suite: a test of none is reported under the suite
\* of the test before it.
Suited == \A t \in Registered : SuiteOf[t] # Empty

\* A port that goes away while a test executes takes the lines not yet read
\* with it, and the runner reports nothing.
NothingLost == UsbCdc => Outcomes \cap {"reboot", "reset", "drop"} = {}

\* The lines after which the host stops listening to the tests of a cycle.
Ending == Leaving \cup {"CRASH", "DONE", "ERROR"}
FailsFirst(s) ==
  \A j \in 1..Len(s) : \A i \in 1..(j - 1) : s[i].tag \in Ending => s[j].tag # "FAIL"

\* The failure of t will be told, and filed under t.
OnItsWay(t) ==
  \E i \in 1..Len(Flight) : Flight[i].tag = "FAIL" /\ Current(proto, Flight, i, t)

\* The failure of t has been noted, and is in the report.
Noted(t)    == /\ failures # {}
               /\ SuiteOf[t] # Empty => FullNameOf(t) \in failures
Reddened(t) == /\ \E c \in cases : c.status = "FAILED" /\ c.name # Unnamed
               /\ SuiteOf[t] # Empty => Case(FullNameOf(t), "FAILED") \in cases

\* No failure is lost on the way to the host, nor between it and the report.
FailLines ==
  /\ crash # "none" \/ ~Expecting => None(Flight, {"FAIL"})
  /\ FailsFirst(Flight)
  /\ Unnamed \notin failures
  /\ \A t \in bad : OnItsWay(t) \/ Noted(t)

Afterwards == hpc \in {"post", "close", "top", "resumed", "final", "end"}
FailCases == Afterwards /\ proto.state = "FINISHED" => \A t \in bad : Reddened(t)

\* The report has an error in it, and one that _ensure_test_results keeps.
Complained == \E c \in cases : c.status = "ERRORED" /\ c.name # Unnamed

\* The host stops listening only after DONE, after a sleep, or with an error in
\* the report.
Endings ==
  /\ Afterwards \/ hpc \in {"drain", "drained"} =>
       \/ proto.state = "FINISHED" \/ Complained
       \/ proto.state = "SLEEPING" /\ hpc \notin {"final", "end"}
  /\ crash = "triggered" => Complained
  /\ Expecting /\ link = "broken" => crash = "triggered"
  /\ Expecting /\ dev \in {"powerdown", "rebooting"} =>
       crash # "none" \/ ~None(Flight, Leaving \cup {"CRASH"})

\* A diagnostic has a name, so it is not dropped from the report.
LEMMA DiagnosticsNamed ==
  /\ \A d \in Diagnostic : <<Empty, d>> # Unnamed
  /\ \A p, d : d \in Diagnostic => Blamed(p, d) # Unnamed
<1>1. \A d \in Diagnostic : <<Empty, d>> # Unnamed
  BY DiagnosticAssumption DEF Unnamed
<1> QED BY <1>1 DEF Blamed

\* An error, once reported, stays in the report.
LEMMA ErrorAdded ==
  ASSUME NEW n, n # Unnamed, cases' = cases \cup {Errored(n)}
  PROVE  Complained'
<1>1. Errored(n) \in cases' /\ Errored(n).status = "ERRORED" /\ Errored(n).name = n
  BY DEF Errored, Case
<1> QED BY <1>1 DEF Complained

\* A case, once added, stays in the report, unless it has no name.
LEMMA CasesKept ==
  ASSUME [Next]_vars
  PROVE  \A c \in cases : c.name # Unnamed => c \in cases'
<1>1. CASE Host
  <2>1. CASE Finalize
    BY <2>1 DEF Finalize, EnsureResults
  <2>2. CASE cases \subseteq cases'
    BY <2>2
  <2>3. HandleLine => cases \subseteq cases'
    BY DEF HandleLine
  <2>4. SendFails \/ OpenFails \/ PortLost => cases \subseteq cases'
    BY DEF SendFails, OpenFails, PortLost, SerialException, RunnerError, PortException
  <2>5. CycleDone \/ DeviceError \/ ReadyTimeout \/ HangTimeout \/ GiveUp \/ ResolveFails
          => cases \subseteq cases'
    BY DEF CycleDone, Reported, DeviceError, ReadyTimeout, HangTimeout, GiveUp, ResolveFails,
           RunnerError
  <2> QED BY <1>1, <2>1, <2>2, <2>3, <2>4, <2>5
          DEF Host, HostStep, OpenCycle, ReadChunk, EndChunk, SendCommand, NextRead,
              CrashBreak, PostTest, CloseCycle, ResumeSleeper, LoopExit, RunRemaining, Wake,
              DrainTimeout, BusyElapses
<1>2. CASE Device \/ UNCHANGED vars
  BY <1>2 DEF Device, vars, hostVars
<1> QED BY <1>1, <1>2 DEF Next, Terminated

\* So does an error.
LEMMA ComplaintStays ==
  ASSUME Complained, [Next]_vars
  PROVE  Complained'
BY CasesKept DEF Complained

\* A step of the host other than the handling of a line: it takes no line away
\* that was still to be handled, and stops listening only when there is none,
\* or after a crash.
LEMMA HostMoves ==
  ASSUME IInv, Host, ~HandleLine
  PROVE  /\ UNCHANGED <<failures, crash, bad, dev, phase>>
         /\ Flight' = Flight \/ (Flight = <<>> /\ Flight' = <<>>)
                             \/ (~Expecting /\ Flight' = <<>>)
         /\ Expecting => \/ /\ Expecting' /\ Flight' = Flight
                            /\ proto'.name = proto.name /\ proto'.suite = proto.suite
                            /\ UNCHANGED <<link, cmd>>
                         \/ ~Expecting' /\ (crash = "triggered" \/ Flight = <<>>)
<1> USE DEF IInv, Flow, Flight
<1>1. /\ proto \in Protocol /\ chunk \in Seq(Line) /\ toHost \in Seq(Line)
      /\ UNCHANGED deviceVars
  BY DEF TypeOK, HostTypeOK, DeviceTypeOK, Host
<1>2. <<>> \o <<>> = <<>> /\ chunk \o <<>> = chunk /\ <<>> \o toHost = toHost
  BY <1>1, ConcatEmptySeq
<1>3. CASE OpenCycle
  <2>1. hpc = "open" /\ chunk = <<>> /\ toHost = <<>> /\ ~Expecting
    BY <1>3 DEF OpenCycle, Shape, Expecting, Reading
  <2> QED BY <1>1, <1>2, <1>3, <2>1 DEF OpenCycle, Open, deviceVars
<1>4. CASE ReadChunk
  <2>1. PICK n \in 1..Len(toHost) :
          chunk' = SubSeq(toHost, 1, n) /\ toHost' = SubSeq(toHost, n + 1, Len(toHost))
    BY <1>4 DEF ReadChunk
  <2>2. chunk = <<>> /\ Flight' = Flight
    BY <1>1, <1>2, <1>4, <2>1, SplitFlight DEF ReadChunk, Shape
  <2> QED BY <1>1, <1>4, <2>2 DEF ReadChunk, Expecting, Reading, deviceVars
<1>5. CASE EndChunk \/ CycleDone \/ DeviceError \/ NextRead \/ CrashBreak \/ DrainTimeout
  <2>1. /\ UNCHANGED linkVars /\ UNCHANGED <<cmd, proto, chunk, failures, crash>>
    BY <1>5 DEF EndChunk, CycleDone, DeviceError, NextRead, CrashBreak, DrainTimeout
  <2>2. Expecting => Expecting' \/ crash = "triggered"
    BY <1>5 DEF EndChunk, CycleDone, DeviceError, NextRead, CrashBreak, DrainTimeout,
                Expecting, Reading
  <2> QED BY <1>1, <2>1, <2>2 DEF deviceVars, linkVars
<1>6. CASE SendCommand(Powered) \/ PostTest(Powered)
  <2>1. ~Expecting
    BY <1>6 DEF SendCommand, PostTest, Expecting, Reading
  <2> QED BY <1>1, <1>6, <2>1 DEF SendCommand, PostTest, deviceVars
<1>7. CASE SendFails \/ OpenFails \/ ResolveFails \/ PortLost
  <2>1. /\ UNCHANGED linkVars /\ UNCHANGED <<cmd, failures, crash>>
        /\ chunk' = chunk \/ chunk' = <<>>
        /\ hpc \in {"check", "open", "read", "drain"} /\ link # "ok"
    BY <1>7 DEF SendFails, OpenFails, ResolveFails, PortLost
  <2>2. Flight = <<>> /\ Flight' = <<>>
    BY <1>2, <2>1 DEF Shape, linkVars
  <2>3. ~Expecting'
    BY <1>7 DEF SendFails, OpenFails, ResolveFails, PortLost,
                SerialException, RunnerError, PortException,
                Expecting, Reading
  <2> QED BY <1>1, <2>1, <2>2, <2>3 DEF deviceVars
<1>8. CASE CloseCycle \/ Finalize
  <2>1. ~Expecting /\ chunk = <<>> /\ chunk' = <<>> /\ toHost' = <<>>
    BY <1>8 DEF CloseCycle, Finalize, Close, Expecting, Reading, Shape
  <2> QED BY <1>1, <1>2, <1>8, <2>1 DEF CloseCycle, Finalize, deviceVars
<1>9. CASE ReadyTimeout \/ HangTimeout
  <2>1. /\ UNCHANGED linkVars /\ UNCHANGED <<cmd, proto, chunk, failures, crash>>
        /\ hpc = "read" /\ toHost = <<>> /\ hpc' = "drain"
    BY <1>9 DEF ReadyTimeout, HangTimeout
  <2>2. Flight = <<>> /\ Flight' = <<>> /\ ~Expecting'
    BY <1>2, <2>1 DEF Shape, linkVars, Expecting, Reading
  <2> QED BY <1>1, <2>1, <2>2 DEF deviceVars
<1>10. CASE ResumeSleeper \/ GiveUp \/ LoopExit \/ RunRemaining \/ Wake
  <2>1. ~Expecting /\ UNCHANGED linkVars /\ UNCHANGED <<chunk, failures, crash>>
    BY <1>10 DEF ResumeSleeper, GiveUp, LoopExit, RunRemaining, Wake, Expecting, Reading
  <2> QED BY <1>1, <2>1 DEF deviceVars, linkVars
<1>11. CASE BusyElapses
  <2>1. /\ UNCHANGED linkVars /\ UNCHANGED <<hpc, cmd, chunk, failures, crash>>
        /\ proto'.state = proto.state /\ proto'.name = proto.name
        /\ proto'.suite = proto.suite
    BY <1>1, <1>11 DEF BusyElapses, BusyExpired, Protocol
  <2> QED BY <1>1, <2>1 DEF deviceVars, linkVars, Expecting, Reading
<1> QED BY <1>3, <1>4, <1>5, <1>6, <1>7, <1>8, <1>9, <1>10, <1>11 DEF Host, HostStep

\* No failure is on its way, before the step or after it.
LEMMA NoFailures ==
  ASSUME FailLines, None(Flight, {"FAIL"}), None(Flight', {"FAIL"}),
         UNCHANGED <<bad, failures>>
  PROVE  FailLines'
<1>1. FailsFirst(Flight')
  BY DEF FailsFirst, None
<1>2. \A t \in bad : Noted(t)
  BY DEF FailLines, OnItsWay, None
<1> QED BY <1>1, <1>2 DEF FailLines, Noted

\* A host that listens handles a line that does not end the cycle.
LEMMA StillExpecting ==
  ASSUME IInv, Handled, Expecting, Head(Flight).tag \notin Ending
  PROVE  /\ Expecting'
         /\ \A i \in 2..(Len(Flight) + 1) : \A t \in Registered :
              Current(proto, Flight, i, t) => Current(proto', Flight', i - 1, t)
<1> USE DEF IInv, Flow, Handled
<1> DEFINE l == Head(Flight)
<1>1. /\ Flight \in Seq(Line) /\ Flight # <<>> /\ l \in Line /\ proto \in Protocol
  BY FlightType, FlightTail, HeadTailProperties DEF TypeOK, HostTypeOK
<1>2. /\ l.ok /\ Printed(Flight) /\ l = Flight[1] /\ 1 \in 1..Len(Flight)
      /\ l.tag = "CASE" => l.name # Empty
  BY <1>1, TailLines DEF Shape
<1>3. proto.state = "RUNNING" /\ Reading
  BY DEF Expecting
<1>4. l.tag = "READY" => proto.name # Empty
  <2>1. Guarded(proto, Flight)
    BY DEF SentOnce
  <2>2. \A j \in 1..(1 - 1) : FALSE
    OBVIOUS
  <2> QED BY <1>2, <2>1, <2>2 DEF Guarded, Introduced
<1>5. proto'.state = "RUNNING"
  <2>1. l.tag \notin {"SLEEP", "RESTART", "CRASH", "DONE", "ERROR"}
    BY DEF Ending, Leaving
  <2> HIDE DEF l
  <2>2. proto' = Feed(proto, l)
    BY DEF l
  <2>3. l.tag = "READY" => Feed(proto, l) = proto
    BY <1>1, <1>2, <1>3, <1>4, RunningEffect
  <2>4. l.tag = "CASE" => Feed(proto, l).state = "RUNNING"
    BY <1>1, <1>2, <1>3, RunningEffect
  <2>5. l.tag \notin {"CASE", "READY"} => Feed(proto, l).state = "RUNNING"
    BY <1>1, <1>2, <1>3, <2>1, RunningEffect
  <2> QED BY <1>3, <2>2, <2>3, <2>4, <2>5
<1>6. Expecting'
  BY <1>3, <1>5 DEF Expecting, Reading
<1> QED BY <1>1, <1>2, <1>3, <1>5, <1>6, TailKept

\* What comes behind the first line.
LEMMA FailsFirstTail ==
  ASSUME NEW s \in Seq(Line), s # <<>>, FailsFirst(s)
  PROVE  /\ FailsFirst(Tail(s))
         /\ Head(s).tag \in Ending => None(s, {"FAIL"})
<1>1. /\ Tail(s) \in Seq(Line) /\ Len(Tail(s)) = Len(s) - 1
      /\ \A i \in 1..Len(Tail(s)) : Tail(s)[i] = s[i + 1]
      /\ Len(s) \in Nat \ {0} /\ Head(s) = s[1] /\ 1 \in 1..Len(s)
  BY HeadTailProperties, EmptySeq
<1> DEFINE r == Tail(s)
<1> HIDE DEF r
<1>2. ASSUME NEW j \in 1..Len(r), NEW i \in 1..(j - 1), r[i].tag \in Ending
      PROVE  r[j].tag # "FAIL"
  <2>1. /\ j + 1 \in 1..Len(s) /\ i + 1 \in 1..((j + 1) - 1)
        /\ r[j] = s[j + 1] /\ r[i] = s[i + 1]
    BY <1>1 DEF r
  <2> QED BY <1>2, <2>1 DEF FailsFirst
<1>3. ASSUME Head(s).tag \in Ending, NEW j \in 1..Len(s)
      PROVE  s[j].tag # "FAIL"
  <2>1. CASE j = 1
    BY <1>1, <1>3, <2>1 DEF Ending, Leaving
  <2>2. CASE j # 1
    <3>1. 1 \in 1..(j - 1)
      BY <1>1, <2>2
    <3> QED BY <1>1, <1>3, <3>1 DEF FailsFirst
  <2> QED BY <2>1, <2>2
<1> QED BY <1>2, <1>3 DEF FailsFirst, None, r

\* The host handles a line.
LEMMA FailLinesHandled ==
  ASSUME IInv, FailLines, UNCHANGED deviceVars, HandleLine
  PROVE  FailLines'
<1> USE DEF FailLines
<1> DEFINE l == Head(Flight)
<1>1. /\ chunk # <<>> /\ hpc \in {"lines", "drained"}
      /\ UNCHANGED linkVars /\ UNCHANGED <<hpc, kind, cmd, target>>
      /\ proto' = Feed(proto, Head(chunk))
      /\ crash' \in FeedCrash(crash, Head(chunk))
      /\ finished' = (finished \/ crash' = "triggered")
      /\ chunk' = (IF finished' THEN <<>> ELSE Tail(chunk))
      /\ failures' = IF Head(chunk).tag = "FAIL"
                     THEN failures \cup {Blamed(proto', "unknown")} ELSE failures
  BY DEF HandleLine
<1>2. /\ chunk \in Seq(Line) /\ toHost \in Seq(Line) /\ Flight \in Seq(Line)
      /\ Flight # <<>> /\ Head(chunk) = l /\ Tail(Flight) = Tail(chunk) \o toHost
      /\ bad' = bad /\ Tail(chunk) \in Seq(Line)
  BY <1>1, FlightType, FlightTail, HeadTailProperties
     DEF IInv, TypeOK, HostTypeOK, DeviceTypeOK, deviceVars
<1>3. Flight' \in {toHost, Tail(Flight)}
  <2>1. <<>> \o toHost = toHost
    BY <1>2, ConcatEmptySeq
  <2> QED BY <1>1, <1>2, <2>1 DEF Flight, linkVars
<1> HIDE DEF l
<1>4. CASE None(Flight, {"FAIL"})
  <2>1. l.tag # "FAIL" /\ None(Tail(Flight), {"FAIL"})
    BY <1>2, <1>4, TailLines DEF l
  <2>2. None(toHost, {"FAIL"})
    BY <1>2, <2>1, BackKept
  <2> QED BY <1>1, <1>2, <1>3, <1>4, <2>1, <2>2, NoFailures
<1>5. CASE ~None(Flight, {"FAIL"})
  <2>1. Expecting /\ crash = "none" /\ l.tag \notin Ending
    BY <1>2, <1>5, FailsFirstTail DEF l
  <2>2. l.tag # "CRASH" /\ crash' = "none" /\ ~finished'
    <3>1. l.tag # "CRASH" /\ ~finished
      BY <2>1 DEF IInv, Flow, Shape, Ending
    <3> QED BY <1>1, <1>2, <2>1, <3>1 DEF FeedCrash
  <2>3. Handled
    <3>1. Flight' = Tail(Flight)
      BY <1>1, <1>2, <2>2 DEF Flight, linkVars
    <3> QED BY <1>1, <1>2, <2>1, <2>2, <3>1 DEF Handled, l
  <2>4. /\ Expecting' /\ crash' = "none"
        /\ \A i \in 2..(Len(Flight) + 1) : \A t \in Registered :
             Current(proto, Flight, i, t) => Current(proto', Flight', i - 1, t)
    BY <2>1, <2>2, <2>3, StillExpecting DEF l
  <2>5. FailsFirst(Flight')
    BY <1>2, <2>3, FailsFirstTail DEF Handled
  <2>6. Unnamed \notin failures'
    <3>1. Blamed(proto', "unknown") # Unnamed
      BY DiagnosticsNamed DEF Diagnostic
    <3> QED BY <1>1, <3>1
  <2>7. ASSUME NEW t \in bad, OnItsWay(t)
        PROVE  OnItsWay(t)' \/ Noted(t)'
    <3>1. t \in Registered
      BY DEF IInv, TypeOK, DeviceTypeOK
    <3>2. PICK i \in 1..Len(Flight) : Flight[i].tag = "FAIL" /\ Current(proto, Flight, i, t)
      BY <2>7 DEF OnItsWay
    <3>3. /\ Len(Flight) \in Nat /\ Len(Flight') = Len(Flight) - 1 /\ l = Flight[1]
          /\ \A k \in 1..Len(Flight') : Flight'[k] = Flight[k + 1]
      BY <1>2, <2>3, HeadTailProperties, LenProperties DEF Handled, l
    <3>4. CASE i = 1
      <4>1. Names(proto, t)
        BY <3>2, <3>4 DEF Current
      <4>2. l.tag = "FAIL" /\ l \in Line /\ l.ok /\ proto.state = "RUNNING" /\ proto \in Protocol
        BY <1>2, <2>1, <3>2, <3>3, <3>4, TailLines, HeadTailProperties
           DEF IInv, Flow, Shape, Expecting, TypeOK, HostTypeOK, l
      <4>3. proto' = proto
        <5>1. Feed(proto, l) = proto
          BY <4>2, RunningEffect
        <5> QED BY <1>1, <1>2, <5>1
      <4>4. SuiteOf[t] # Empty => Blamed(proto', "unknown") = FullNameOf(t)
        <5>1. NameOf[t] # Empty
          BY <3>1, FirmwareAssumption, EmptyAssumption
        <5> QED BY <4>1, <4>3, <5>1 DEF Names, Blamed, CurrentTestFull, Unnamed, FullNameOf
      <4>5. failures' = failures \cup {Blamed(proto', "unknown")}
        BY <1>1, <1>2, <4>2
      <4> QED BY <4>4, <4>5 DEF Noted
    <3>5. CASE i # 1
      <4>1. i \in 2..(Len(Flight) + 1) /\ i - 1 \in 1..Len(Flight') /\ (i - 1) + 1 = i
        BY <3>3, <3>5
      <4>2. Current(proto', Flight', i - 1, t) /\ Flight'[i - 1].tag = "FAIL"
        BY <2>4, <3>1, <3>2, <3>3, <4>1
      <4> QED BY <4>1, <4>2 DEF OnItsWay
    <3> QED BY <3>4, <3>5
  <2>8. ASSUME NEW t \in bad, Noted(t) PROVE Noted(t)'
    BY <1>1, <2>8 DEF Noted
  <2> QED BY <1>2, <2>4, <2>5, <2>6, <2>7, <2>8
<1> QED BY <1>4, <1>5

\* Lines that the device adds to those in flight.
LEMMA FailLinesGrow ==
  ASSUME IInv, FailLines, UNCHANGED hostVars, Expecting' <=> Expecting,
         NEW x \in Seq(Line), Flight' = Flight \o x, None(x, {"FAIL"}), bad' = bad
  PROVE  FailLines'
<1> USE DEF FailLines, hostVars
<1>1. Flight \in Seq(Line)
  BY FlightType DEF IInv
<1>2. /\ Len(Flight) \in Nat /\ Len(x) \in Nat /\ Len(Flight') = Len(Flight) + Len(x)
      /\ \A i \in 1..Len(Flight) : Flight'[i] = Flight[i]
      /\ \A i \in 1..Len(x) : Flight'[Len(Flight) + i] = x[i]
  BY <1>1, Appended
<1>3. \A j \in 1..Len(Flight') : Flight'[j].tag = "FAIL" => j \in 1..Len(Flight)
  <2>1. \A j \in 1..Len(Flight') : j \in 1..Len(Flight) \/
          (j - Len(Flight) \in 1..Len(x) /\ Len(Flight) + (j - Len(Flight)) = j)
    BY <1>2
  <2> QED BY <1>2, <2>1 DEF None
<1>4. FailsFirst(Flight')
  <2> SUFFICES ASSUME NEW j \in 1..Len(Flight'), NEW i \in 1..(j - 1),
                      Flight'[i].tag \in Ending, Flight'[j].tag = "FAIL"
               PROVE  FALSE
    BY DEF FailsFirst
  <2>1. j \in 1..Len(Flight)
    BY <1>3
  <2>2. i \in 1..Len(Flight)
    BY <1>2, <2>1
  <2> QED BY <1>2, <2>1, <2>2 DEF FailsFirst
<1>5. ASSUME NEW t \in bad, OnItsWay(t) PROVE OnItsWay(t)'
  <2>1. PICK i \in 1..Len(Flight) : Flight[i].tag = "FAIL" /\ Current(proto, Flight, i, t)
    BY <1>5 DEF OnItsWay
  <2>2. i \in 1..(Len(Flight) + 1) /\ i \in 1..Len(Flight')
    BY <1>2
  <2>3. Current(proto, Flight', i, t)
    BY <1>1, <2>1, <2>2, AppendedKnown
  <2> QED BY <1>2, <2>1, <2>2, <2>3 DEF OnItsWay
<1>6. None(Flight, {"FAIL"}) => None(Flight', {"FAIL"})
  BY <1>1, NoneTogether
<1> QED BY <1>4, <1>5, <1>6 DEF Noted

\* An assertion fails in the test that executes.
LEMMA FailLinesAssertion ==
  ASSUME IInv, FailLines, UNCHANGED hostVars, AssertionFails
  PROVE  FailLines'
<1> USE DEF FailLines, hostVars
<1> DEFINE l == Msg("FAIL")
<1>1. dev = "run" /\ cur # 0 /\ bad' = bad \cup {cur} /\ Emit(<<l>>) /\ UNCHANGED link
  BY DEF AssertionFails, Running
<1>2. /\ Flight \in Seq(Line) /\ link = "ok" /\ crash = "none" /\ Expecting
      /\ Only(Flight, Talk) /\ cur \in Registered
      /\ Current(proto, Flight, Len(Flight) + 1, cur)
  BY <1>1, RunFacts DEF IInv, Flow, Executing
<1>3. l \in Line /\ l.tag = "FAIL"
  BY DEF Msg, Line, Tag
<1>4. Flight' = Flight \o <<l>>
  BY <1>1, <1>2, <1>3, FlightGrows DEF IInv
<1> HIDE DEF l
<1>5. /\ Len(Flight) \in Nat /\ Len(Flight') = Len(Flight) + 1
      /\ Flight'[Len(Flight) + 1] = l /\ <<l>> \in Seq(Line)
      /\ \A i \in 1..Len(Flight) : Flight'[i] = Flight[i]
  BY <1>2, <1>3, <1>4, OneMore
<1>6. Expecting'
  BY <1>2 DEF Expecting, Reading
<1>7. FailsFirst(Flight')
  <2>1. \A j \in 1..Len(Flight') : \A i \in 1..(j - 1) : i \in 1..Len(Flight)
    BY <1>5
  <2>2. \A i \in 1..Len(Flight) : Flight'[i].tag \notin Ending
    BY <1>2, <1>5 DEF Only, Talk, Ending, Leaving
  <2> QED BY <2>1, <2>2 DEF FailsFirst
<1>8. \A i \in 1..(Len(Flight) + 1) : \A t :
        Current(proto, Flight, i, t) => Current(proto, Flight', i, t)
  BY <1>2, <1>4, <1>5, AppendedKnown
<1>9. ASSUME NEW t \in bad, OnItsWay(t) PROVE OnItsWay(t)'
  <2>1. PICK i \in 1..Len(Flight) : Flight[i].tag = "FAIL" /\ Current(proto, Flight, i, t)
    BY <1>9 DEF OnItsWay
  <2>2. i \in 1..(Len(Flight) + 1) /\ i \in 1..Len(Flight')
    BY <1>5
  <2> QED BY <1>5, <1>8, <2>1, <2>2 DEF OnItsWay
<1>10. OnItsWay(cur)'
  <2>1. Len(Flight) + 1 \in 1..Len(Flight') /\ Len(Flight) + 1 \in 1..(Len(Flight) + 1)
    BY <1>5
  <2>2. cur' = cur
    BY DEF AssertionFails
  <2> QED BY <1>2, <1>3, <1>5, <1>8, <2>1, <2>2 DEF OnItsWay
<1>11. cur' = cur
  BY DEF AssertionFails
<1> QED BY <1>1, <1>2, <1>6, <1>7, <1>9, <1>10, <1>11 DEF Noted

\* What the device adds to the lines in flight: nothing that tells of a failure,
\* unless an assertion fails.  It takes none away.
LEMMA DeviceSays ==
  ASSUME IInv, NothingLost, ResetsNoticed, Device, ~AssertionFails
  PROVE  /\ UNCHANGED bad
         /\ \E x \in Seq(Line) : None(x, {"FAIL"}) /\ Flight' = Flight \o x
<1> USE DEF IInv, Flow, hostVars
<1>1. /\ chunk \in Seq(Line) /\ toHost \in Seq(Line) /\ Flight \in Seq(Line)
      /\ UNCHANGED hostVars
  BY FlightType DEF TypeOK, HostTypeOK, DeviceTypeOK, Device
<1>2. ASSUME UNCHANGED toHost
      PROVE  \E x \in Seq(Line) : None(x, {"FAIL"}) /\ Flight' = Flight \o x
  <2>1. <<>> \in Seq(Line) /\ Flight \o <<>> = Flight /\ Flight' = Flight
    BY <1>1, <1>2, EmptySeq, ConcatEmptySeq DEF Flight
  <2> QED BY <2>1, NoLines
<1>3. ASSUME NEW l \in Line, l.tag # "FAIL", UNCHANGED link, Emit(<<l>>)
      PROVE  \E x \in Seq(Line) : None(x, {"FAIL"}) /\ Flight' = Flight \o x
  <2>1. link = "ok" \/ UNCHANGED toHost
    BY <1>3 DEF Emit
  <2>2. link = "ok" => Flight' = Flight \o <<l>>
    BY <1>1, <1>3, FlightGrows
  <2>3. <<l>> \in Seq(Line) /\ None(<<l>>, {"FAIL"})
    <3>1. <<l>> \in Seq(Line) /\ Len(<<l>>) = 1 /\ <<l>>[1] = l
      OBVIOUS
    <3> QED BY <1>3, <3>1 DEF None
  <2> QED BY <1>2, <2>1, <2>2, <2>3
<1>4. CASE Boot \/ BoardFailure \/ RepeatReady \/ RejectLine
  <2>1. PICK tag \in {"READY", "ERROR"} : UNCHANGED <<link, bad>> /\ Emit(<<Msg(tag)>>)
    BY <1>4 DEF Boot, BoardFailure, RepeatReady, RejectLine, deviceVars
  <2>2. Msg(tag) \in Line /\ Msg(tag).tag # "FAIL"
    BY DEF Msg, Line, Tag
  <2> QED BY <1>3, <2>1, <2>2
<1>5. CASE StartTest
  <2>1. PICK t \in Registered :
          UNCHANGED <<link, bad>> /\ Emit(<<CaseLine(SuiteOf[t], NameOf[t])>>)
    BY <1>5 DEF StartTest, TypeOK, DeviceTypeOK
  <2>2. CaseLine(SuiteOf[t], NameOf[t]) \in Line /\ CaseLine(SuiteOf[t], NameOf[t]).tag # "FAIL"
    BY FirmwareAssumption DEF CaseLine, Line, Tag
  <2> QED BY <1>3, <2>1, <2>2
<1>6. CASE SignalBusy \/ SignalError \/ SignalSleep \/ SignalRestart \/ TakeCommand
  <2>1. PICK tag \in {"BUSY", "ERROR", "SLEEP", "RESTART", "TEXT"} :
          UNCHANGED <<link, bad>> /\ Emit(<<Msg(tag)>>)
    BY <1>6 DEF SignalBusy, SignalError, Announce, SignalSleep, SignalRestart, TakeCommand,
                Leave, deviceVars
  <2>2. Msg(tag) \in Line /\ Msg(tag).tag # "FAIL"
    BY DEF Msg, Line, Tag
  <2> QED BY <1>3, <2>1, <2>2
<1>7. CASE SilentReboot \/ Unplug \/ ResetOnOpen
  <2>1. ~UsbCdc
    BY <1>7 DEF SilentReboot, Unplug, Vanish, ResetOnOpen, NothingLost, ResetsNoticed
  <2>2. UNCHANGED <<toHost, bad>>
    BY <1>7, <2>1 DEF SilentReboot, Unplug, Vanish, ResetOnOpen, GoDown
  <2> QED BY <1>2, <2>2
<1>8. CASE PowerDown /\ Settled
  <2>1. UsbCdc => toHost = <<>>
    BY <1>8 DEF Settled, Shape
  <2>2. UNCHANGED <<toHost, bad>>
    BY <1>8, <2>1 DEF PowerDown, GoDown
  <2> QED BY <1>2, <2>2
<1>9. CASE EndTest \/ Hang \/ WakeUp
  BY <1>2, <1>9 DEF EndTest, Hang, WakeUp, linkVars
<1>10. CASE FinishCycle \/ Crash
  <2>1. PICK x \in {"DONE", "CRASH"}, y \in {"READY", "TRACE"} :
          Emit(<<Msg(x), Msg(y)>>) /\ UNCHANGED <<link, bad>>
    BY <1>10 DEF FinishCycle, Crash, Leave
  <2>2. link = "ok"
    BY <1>10, RunFacts DEF FinishCycle, Idle, Crash, Leave, Running
  <2> DEFINE a == Msg(x)
             b == Msg(y)
  <2>3. a \in Line /\ b \in Line /\ a.tag # "FAIL" /\ b.tag # "FAIL" /\ Emit(<<a, b>>)
    BY <2>1 DEF Msg, Line, Tag
  <2> HIDE DEF a, b
  <2>4. <<a>> \in Seq(Line) /\ <<b>> \in Seq(Line)
    BY <2>3
  <2>5. Flight' = (Flight \o <<a>>) \o <<b>>
    BY <1>1, <2>1, <2>2, <2>3, FlightGrowsTwice
  <2>6. Flight' = Flight \o (<<a>> \o <<b>>) /\ <<a>> \o <<b>> \in Seq(Line)
    BY <1>1, <2>4, <2>5, ConcatAssociative, ConcatProperties
  <2>7. None(<<a>>, {"FAIL"}) /\ None(<<b>>, {"FAIL"})
    <3>1. Len(<<a>>) = 1 /\ <<a>>[1] = a /\ Len(<<b>>) = 1 /\ <<b>>[1] = b
      OBVIOUS
    <3> QED BY <2>3, <3>1 DEF None
  <2>8. None(<<a>> \o <<b>>, {"FAIL"})
    BY <2>4, <2>7, NoneTogether
  <2> QED BY <2>1, <2>6, <2>8
<1> QED BY <1>4, <1>5, <1>6, <1>7, <1>8, <1>9, <1>10
        DEF Device, DeviceStep, LeaveTest

\* The host and the device keep every failure on its way until it is noted.
LEMMA FailLinesStep ==
  ASSUME Orderly, NothingLost, IInv, FailLines, [Next]_vars
  PROVE  FailLines'
<1>1. CASE UNCHANGED vars
  BY <1>1 DEF FailLines, OnItsWay, Noted, Flight, Expecting, Reading, vars, hostVars,
              deviceVars, linkVars
<1>2. CASE Host /\ HandleLine
  BY <1>2, FailLinesHandled DEF Host
<1>3. CASE Host /\ ~HandleLine
  <2>1. /\ UNCHANGED <<failures, crash, bad>>
        /\ Flight' = Flight \/ Flight' = <<>>
        /\ Expecting => \/ /\ Expecting' /\ Flight' = Flight
                           /\ proto'.name = proto.name /\ proto'.suite = proto.suite
                        \/ crash # "none" \/ Flight = <<>>
    BY <1>3, HostMoves
  <2>2. CASE None(Flight, {"FAIL"})
    BY <2>1, <2>2, NoLines, NoFailures
  <2>3. CASE ~None(Flight, {"FAIL"})
    <3>1. /\ Expecting /\ Expecting' /\ Flight' = Flight /\ crash = "none"
          /\ proto'.name = proto.name /\ proto'.suite = proto.suite
      BY <2>1, <2>3, NoLines DEF FailLines
    <3>2. \A i : \A t : Current(proto, Flight, i, t) => Current(proto', Flight', i, t)
      BY <3>1 DEF Current, Names
    <3>3. \A t \in bad : OnItsWay(t) => OnItsWay(t)'
      BY <3>1, <3>2 DEF OnItsWay
    <3> QED BY <2>1, <3>1, <3>3 DEF FailLines, Noted
  <2> QED BY <2>2, <2>3
<1>4. CASE Device /\ AssertionFails
  BY <1>4, FailLinesAssertion DEF Device
<1>5. CASE Device /\ ~AssertionFails
  <2>1. UNCHANGED hostVars /\ (Expecting' <=> Expecting)
    BY <1>5 DEF Device, hostVars, Expecting, Reading
  <2>2. PICK x \in Seq(Line) : None(x, {"FAIL"}) /\ Flight' = Flight \o x
    BY <1>5, DeviceSays DEF Orderly
  <2>3. UNCHANGED bad
    BY <1>5, DeviceSays DEF Orderly
  <2> QED BY <2>1, <2>2, <2>3, FailLinesGrow
<1> QED BY <1>1, <1>2, <1>3, <1>4, <1>5 DEF Next, Terminated

\* After a cycle the host is where it stands because DONE has been received
\* before, or right now.
LEMMA FinishedBefore ==
  ASSUME IInv, Host, Afterwards', proto'.state = "FINISHED"
  PROVE  CycleDone \/ (Afterwards /\ proto.state = "FINISHED")
<1>1. proto \in Protocol
  BY DEF IInv, TypeOK, HostTypeOK
<1>2. ~OpenCycle /\ ~ReadChunk /\ ~HandleLine /\ ~EndChunk /\ ~SendCommand(Powered)
      /\ ~DeviceError /\ ~NextRead /\ ~CrashBreak /\ ~ReadyTimeout /\ ~HangTimeout
      /\ ~ResumeSleeper /\ ~Wake
  BY DEF OpenCycle, ReadChunk, HandleLine, EndChunk, SendCommand, DeviceError, NextRead,
         CrashBreak, ReadyTimeout, HangTimeout, ResumeSleeper, Wake, Afterwards
<1>3. CASE SendFails \/ OpenFails \/ ResolveFails \/ PortLost \/ DrainTimeout
  <2>1. Reset(proto).state # "FINISHED"
    BY DEF Reset, NewProtocol
  <2>2. PortLost => proto'.state # "FINISHED"
    BY DEF PortLost,
           SerialException, RunnerError, PortException, IInv, HostControl, ReadsUnanswering
  <2> QED BY <1>3, <2>1, <2>2 DEF SendFails, OpenFails, ResolveFails, DrainTimeout,
                                  SerialException, RunnerError, PortException
<1>4. CASE PostTest(Powered) \/ CloseCycle \/ GiveUp \/ LoopExit \/ RunRemaining \/ Finalize
  BY <1>4 DEF PostTest, CloseCycle, GiveUp, LoopExit, RunRemaining, Finalize, Afterwards
<1>5. CASE BusyElapses
  BY <1>1, <1>5 DEF BusyElapses, BusyExpired, Protocol, Afterwards
<1> QED BY <1>2, <1>3, <1>4, <1>5 DEF Host, HostStep

\* What has been noted is in the report once the cycle is closed.
LEMMA FailCasesStep ==
  ASSUME IInv, FailLines, FailCases, [Next]_vars
  PROVE  FailCases'
<1>1. ASSUME NEW t \in bad, Reddened(t) PROVE Reddened(t)'
  <2>1. FullNameOf(t) # Unnamed
    <3>1. t \in Registered
      BY DEF IInv, TypeOK, DeviceTypeOK
    <3>2. NameOf[t] # Empty
      BY <3>1, FirmwareAssumption, EmptyAssumption
    <3> QED BY <3>2 DEF FullNameOf, Unnamed
  <2>2. Case(FullNameOf(t), "FAILED").name = FullNameOf(t)
    BY DEF Case
  <2> QED BY <1>1, <2>1, <2>2, CasesKept DEF Reddened
<1>2. CASE CycleDone /\ Host
  <2>1. /\ hpc \in {"check", "drain"} /\ proto.state = "FINISHED" /\ cases' = Reported
        /\ bad' = bad
    BY <1>2 DEF CycleDone, Host, deviceVars
  <2>2. None(Flight, {"FAIL"})
    BY <2>1 DEF FailLines, Expecting
  <2>3. ASSUME NEW t \in bad PROVE Reddened(t)'
    <3>1. Noted(t)
      BY <2>2 DEF FailLines, OnItsWay, None
    <3>2. PICK n \in failures : TRUE
      BY <3>1 DEF Noted
    <3>3. n # Unnamed
      BY <3>2 DEF FailLines
    <3>4. \A m \in failures : /\ Case(m, "FAILED") \in cases'
                              /\ Case(m, "FAILED").status = "FAILED"
                              /\ Case(m, "FAILED").name = m
      BY <2>1 DEF Reported, Case
    <3> QED BY <3>1, <3>2, <3>3, <3>4 DEF Noted, Reddened
  <2> QED BY <2>1, <2>3 DEF FailCases
<1>3. CASE Host /\ ~CycleDone
  <2>1. bad' = bad
    BY <1>3 DEF Host, deviceVars
  <2>2. Afterwards' /\ proto'.state = "FINISHED" => Afterwards /\ proto.state = "FINISHED"
    BY <1>3, FinishedBefore
  <2> QED BY <1>1, <2>1, <2>2 DEF FailCases
<1>4. CASE Device
  <2>1. UNCHANGED hostVars
    BY <1>4 DEF Device
  <2>2. CASE AssertionFails
    <3>1. Reading
      BY <2>2, RunFacts DEF AssertionFails, Running
    <3> QED BY <2>1, <3>1 DEF Reading, FailCases, Afterwards, hostVars
  <2>3. CASE ~AssertionFails
    <3>1. UNCHANGED bad
      BY <1>4, <2>3 DEF Device, DeviceStep, Boot, BoardFailure, RejectLine, TakeCommand, StartTest,
                        RepeatReady, LeaveTest, EndTest, SignalSleep, SignalRestart, Crash, Leave,
                        Hang, SilentReboot, Unplug, Vanish, SignalBusy, SignalError, Announce,
                        ResetOnOpen, FinishCycle, WakeUp, PowerDown, deviceVars
    <3> QED BY <1>1, <2>1, <3>1 DEF FailCases, Afterwards, hostVars
  <2> QED BY <2>2, <2>3
<1>5. CASE UNCHANGED vars
  BY <1>1, <1>5 DEF FailCases, Afterwards, vars, hostVars, deviceVars
<1> QED BY <1>2, <1>3, <1>4, <1>5 DEF Next, Terminated

\* The host begins to listen to a cycle when it has sent the command.
LEMMA ExpectingBegins ==
  ASSUME IInv, Host, ~Expecting, Expecting'
  PROVE  SendCommand(Powered)
<1>1. proto \in Protocol
  BY DEF IInv, TypeOK, HostTypeOK
<1>2. ASSUME NEW line, proto.state # "RUNNING" PROVE Feed(proto, line).state # "RUNNING"
  BY <1>1, <1>2 DEF Feed, FeedWaiting, FeedReady, Protocol
<1>3. ~HandleLine
  BY <1>2 DEF HandleLine, Expecting, Reading
<1>4. ~OpenCycle
  BY DEF OpenCycle, Reset, NewProtocol, Expecting
<1>5. ~BusyElapses
  BY <1>1 DEF BusyElapses, BusyExpired, Protocol, Expecting, Reading
<1>6. ~SendFails /\ ~OpenFails /\ ~PortLost /\ ~ResolveFails
  BY DEF SendFails, OpenFails, PortLost, ResolveFails,
         SerialException, RunnerError, PortException, Expecting, Reading
<1> QED BY <1>3, <1>4, <1>5, <1>6
        DEF Host, HostStep, ReadChunk, EndChunk, CycleDone, DeviceError, NextRead, CrashBreak,
            PostTest, CloseCycle, ResumeSleeper, GiveUp, LoopExit, RunRemaining, Finalize,
            Wake, ReadyTimeout, HangTimeout, DrainTimeout, Expecting, Reading

\* An exception that ends the run is reported.
LEMMA ExceptionReported ==
  ASSUME NEW p, PortException(p)
  PROVE  hpc' \in {"open", "rescue"} \/ Complained'
<1>1. <<Empty, "serial_error">> # Unnamed /\ <<Empty, "runner_error">> # Unnamed
  BY DiagnosticsNamed DEF Diagnostic
<1> QED BY <1>1, ErrorAdded DEF SerialException, RunnerError, PortException

\* A crash is reported with its line.
LEMMA CrashReported ==
  ASSUME IInv, crash = "triggered" => Complained, [Next]_vars
  PROVE  crash' = "triggered" => Complained'
<1>1. CASE crash = "triggered"
  BY <1>1, ComplaintStays
<1>2. CASE crash # "triggered" /\ HandleLine /\ crash' = "triggered"
  <2>1. ~finished
    BY <1>2 DEF IInv, Flow, Shape
  <2>2. cases' = cases \cup {Errored(Blamed(proto', "crash"))}
    BY <1>2, <2>1 DEF HandleLine
  <2>3. Blamed(proto', "crash") # Unnamed
    BY DiagnosticsNamed DEF Diagnostic
  <2> QED BY <2>2, <2>3, ErrorAdded
<1>3. CASE crash # "triggered" /\ ~HandleLine
  <2>1. CASE Host
    BY <1>3, <2>1, HostMoves
  <2>2. CASE Device \/ UNCHANGED vars
    BY <1>3, <2>2 DEF Device, vars, hostVars
  <2> QED BY <1>3, <2>1, <2>2 DEF Next, Terminated
<1> QED BY <1>1, <1>2, <1>3

\* Where the host stands when it no longer listens to a cycle.
Past == Afterwards \/ hpc \in {"drain", "drained"}
Justified ==
  \/ proto.state = "FINISHED" \/ Complained
  \/ proto.state = "SLEEPING" /\ hpc \notin {"final", "end"}

\* When the host stops listening to a cycle, it has a reason for it.
LEMMA JustifiedStep ==
  ASSUME IInv, Endings, [Next]_vars, Host, Past', ~Complained'
  PROVE  Justified'
<1>1. ~Complained /\ crash # "triggered"
  BY ComplaintStays DEF Endings
<1>2. proto \in Protocol /\ (Past => Justified)
  BY DEF IInv, TypeOK, HostTypeOK, Endings, Past, Justified
<1>3. ASSUME Past, UNCHANGED proto, hpc' \in {"final", "end"} => proto.state # "SLEEPING"
      PROVE  Justified'
  BY <1>1, <1>2, <1>3 DEF Justified
<1>4. CASE ReadChunk \/ EndChunk \/ DrainTimeout \/ PostTest(Powered) \/ CloseCycle
           \/ LoopExit \/ RunRemaining
  <2>1. Past /\ UNCHANGED proto /\ (hpc' \in {"final", "end"} => proto.state # "SLEEPING")
    BY <1>4 DEF ReadChunk, EndChunk, DrainTimeout, PostTest, CloseCycle, LoopExit,
                RunRemaining, Past, Afterwards
  <2> QED BY <1>3, <2>1
<1>5. CASE Finalize
  <2>1. Past /\ UNCHANGED proto /\ proto.state # "SLEEPING"
    BY <1>1, <1>2, <1>5 DEF Finalize, Past, Afterwards, Justified
  <2> QED BY <1>3, <2>1
<1>6. CASE HandleLine
  <2>1. hpc = "drained" /\ hpc' = "drained" /\ proto' = Feed(proto, Head(chunk))
    BY <1>6 DEF HandleLine, Past, Afterwards
  <2>2. proto.state \in {"FINISHED", "SLEEPING"} /\ Past
    BY <1>1, <1>2, <2>1 DEF Past, Justified
  <2>3. proto' = proto
    BY <2>1, <2>2 DEF Feed
  <2> QED BY <1>3, <2>1, <2>2, <2>3
<1>7. CASE CycleDone \/ NextRead
  BY <1>1, <1>7 DEF CycleDone, NextRead, Past, Afterwards, Justified
<1>8. ~CrashBreak /\ ~SendCommand(Powered) /\ ~OpenCycle /\ ~ResumeSleeper /\ ~Wake
  BY <1>1 DEF CrashBreak, SendCommand, OpenCycle, ResumeSleeper, Wake, Past, Afterwards
<1>9. ~DeviceError /\ ~ReadyTimeout /\ ~ResolveFails
  <2>1. \A d \in {"device_error", "ready_timeout", "runner_error"} : <<Empty, d>> # Unnamed
    BY DiagnosticsNamed DEF Diagnostic
  <2> QED BY <2>1, ErrorAdded DEF DeviceError, ReadyTimeout, ResolveFails, RunnerError
<1>10. ~HangTimeout
  <2>1. Blamed(proto, "unknown") # Unnamed
    BY DiagnosticsNamed DEF Diagnostic
  <2> QED BY <2>1, ErrorAdded DEF HangTimeout
<1>11. ~GiveUp
  <2>1. GiveUp => \E t \in Registered : proto.sleeping = NameOf[t]
    BY DEF GiveUp, IInv, Flow, Resting, Slept
  <2>2. GiveUp => <<Empty, proto.sleeping>> # Unnamed
    BY <2>1, FirmwareAssumption, EmptyAssumption DEF Unnamed
  <2> QED BY <2>2, ErrorAdded DEF GiveUp
<1>12. ~SendFails /\ ~OpenFails
  BY ExceptionReported DEF SendFails, OpenFails, PortException, Past, Afterwards
<1>13. CASE PortLost
  <2>1. ~PortException(proto)
    BY ExceptionReported DEF Past, Afterwards
  <2>2. ~(hpc = "read" /\ proto.state = "RUNNING" /\ link = "broken")
    BY <1>1 DEF Endings, Expecting, Reading
  <2>3. hpc = "drain" /\ hpc' = "post" /\ UNCHANGED proto
    BY <1>13, <2>1, <2>2 DEF PortLost
  <2> QED BY <1>3, <2>3 DEF Past
<1>14. CASE BusyElapses
  <2>1. /\ UNCHANGED hpc /\ proto'.state = proto.state
    BY <1>2, <1>14 DEF BusyElapses, BusyExpired, Protocol
  <2> QED BY <1>1, <1>2, <2>1 DEF Past, Afterwards, Justified
<1> QED BY <1>4, <1>5, <1>6, <1>7, <1>8, <1>9, <1>10, <1>11, <1>12, <1>13, <1>14
        DEF Host, HostStep

\* While the host listens, the port breaks and the device leaves only behind a
\* line that says so.
LEMMA ListeningStep ==
  ASSUME Orderly, NothingLost, IInv, Endings, [Next]_vars, Expecting'
  PROVE  /\ link' = "broken" => crash' = "triggered"
         /\ dev' \in {"powerdown", "rebooting"} =>
              crash' # "none" \/ ~None(Flight', Leaving \cup {"CRASH"})
<1> DEFINE Farewell == Leaving \cup {"CRASH"}
<1>1. /\ Expecting /\ link = "broken" => crash = "triggered"
      /\ Expecting /\ dev \in {"powerdown", "rebooting"} =>
           crash # "none" \/ ~None(Flight, Farewell)
  BY DEF Endings
<1>2. CASE Host /\ SendCommand(Powered)
  <2>1. link' = "ok" /\ dev' = dev /\ dev = "wait"
    <3>1. hpc = "check" /\ proto.state = "READY" /\ link = "ok" /\ link' = "ok"
      BY <1>2 DEF SendCommand
    <3>2. Prompt
      BY <3>1 DEF IInv, Flow, Asked, Asking, Reading
    <3> QED BY <1>2, <3>1, <3>2 DEF Prompt, Host, deviceVars
  <2> QED BY <2>1
<1>3. CASE Host /\ HandleLine
  <2>1. Expecting
    BY <1>3, ExpectingBegins DEF HandleLine, SendCommand
  <2>2. /\ UNCHANGED <<link, dev, toHost>> /\ chunk # <<>>
        /\ proto' = Feed(proto, Head(chunk))
        /\ crash' \in FeedCrash(crash, Head(chunk))
        /\ chunk' = (IF finished \/ crash' = "triggered" THEN <<>> ELSE Tail(chunk))
    <3>1. /\ chunk # <<>> /\ UNCHANGED linkVars
          /\ proto' = Feed(proto, Head(chunk))
          /\ crash' \in FeedCrash(crash, Head(chunk))
          /\ chunk' = (IF finished \/ crash' = "triggered" THEN <<>> ELSE Tail(chunk))
      BY <1>3 DEF HandleLine
    <3>2. UNCHANGED dev
      BY <1>3 DEF Host, deviceVars
    <3> QED BY <3>1, <3>2 DEF linkVars
  <2>3. ASSUME crash' = "none", ~None(Flight, Farewell)
        PROVE  ~None(Flight', Farewell)
    <3>1. crash = "none" /\ ~finished /\ Head(chunk).tag # "CRASH"
      BY <2>2, <2>3 DEF IInv, Flow, Shape, FeedCrash, TypeOK, HostTypeOK, CrashState
    <3>2. Flight \in Seq(Line) /\ Flight # <<>> /\ Head(Flight) = Head(chunk)
          /\ Flight' = Tail(Flight) /\ Head(Flight) \in Line /\ proto \in Protocol
      <4>1. /\ chunk \in Seq(Line) /\ toHost \in Seq(Line) /\ Flight \in Seq(Line)
            /\ proto \in Protocol
        BY FlightType DEF IInv, TypeOK, HostTypeOK, DeviceTypeOK
      <4>2. /\ Flight # <<>> /\ Head(Flight) = Head(chunk)
            /\ Tail(Flight) = Tail(chunk) \o toHost
        BY <2>2, FlightTail DEF IInv
      <4>3. chunk' = Tail(chunk) /\ toHost' = toHost
        BY <2>2, <2>3, <3>1
      <4>4. Flight' = Tail(Flight)
        BY <4>2, <4>3 DEF Flight
      <4>5. Head(Flight) \in Line
        BY <4>1, <4>2, HeadTailProperties
      <4> QED BY <4>1, <4>2, <4>4, <4>5
    <3>3. Head(Flight).tag \notin Leaving
      <4>1. Head(Flight).ok
        BY <3>2, TailLines DEF IInv, Flow, Shape
      <4>2. proto.state = "RUNNING" /\ proto'.state = "RUNNING"
        BY <2>1 DEF Expecting
      <4>3. proto' = Feed(proto, Head(Flight))
        BY <2>2, <3>2
      <4> QED BY <3>2, <4>1, <4>2, <4>3, RunningEffect
    <3>4. /\ Head(Flight) = Flight[1] /\ Len(Tail(Flight)) = Len(Flight) - 1
          /\ Len(Flight) \in Nat
          /\ \A i \in 1..Len(Tail(Flight)) : Tail(Flight)[i] = Flight[i + 1]
      BY <3>2, HeadTailProperties, LenProperties
    <3>5. PICK i \in 1..Len(Flight) : Flight[i].tag \in Farewell
      BY <2>3 DEF None
    <3>6. i # 1
      BY <3>1, <3>2, <3>3, <3>4, <3>5
    <3>7. i - 1 \in 1..Len(Tail(Flight)) /\ (i - 1) + 1 = i
      BY <3>4, <3>6
    <3>8. Tail(Flight)[i - 1].tag \in Farewell
      BY <3>4, <3>5, <3>7
    <3> QED BY <3>2, <3>7, <3>8 DEF None
  <2>4. crash = "triggered" => crash' = "triggered"
    BY <2>2 DEF FeedCrash
  <2>5. crash # "none" => crash' # "none"
    BY <2>2 DEF FeedCrash
  <2> QED BY <1>1, <2>1, <2>2, <2>3, <2>4, <2>5
<1>4. CASE Host /\ ~HandleLine /\ ~SendCommand(Powered)
  <2>1. Expecting
    BY <1>4, ExpectingBegins
  <2>2. UNCHANGED <<crash, dev>> /\ Flight' = Flight /\ UNCHANGED link
    BY <1>4, <2>1, HostMoves
  <2> QED BY <1>1, <2>1, <2>2
<1>5. CASE UNCHANGED vars
  <2>1. /\ Expecting /\ UNCHANGED <<link, crash, dev>> /\ Flight' = Flight
    BY <1>5 DEF vars, hostVars, deviceVars, linkVars, Expecting, Reading, Flight
  <2> QED BY <1>1, <2>1
<1>6. CASE Device
  <2>1. Expecting /\ UNCHANGED hostVars /\ UNCHANGED crash
    BY <1>6 DEF Device, hostVars, Expecting, Reading
  <2>2. CASE PowerDown /\ Settled
    <3>1. dev' \notin {"powerdown", "rebooting"} /\ dev \in {"powerdown", "rebooting"}
      BY <2>2 DEF PowerDown
    <3>2. link' = "broken" => crash = "triggered"
      <4>1. CASE link = "broken"
        BY <1>1, <2>1, <4>1
      <4>2. CASE link = "ok" /\ UsbCdc
        <5>1. Flight = <<>>
          BY <2>2, <4>2, ConcatEmptySeq, EmptySeq DEF Settled, Flight
        <5>2. crash # "none"
          BY <1>1, <2>1, <3>1, <5>1, NoLines
        <5> QED BY <5>1, <5>2 DEF IInv, Flow, Crashing, TypeOK, HostTypeOK, CrashState
      <4>3. link' = "broken" => link = "broken" \/ (link = "ok" /\ UsbCdc)
        BY <2>2 DEF PowerDown, GoDown
      <4> QED BY <4>1, <4>2, <4>3
    <3> QED BY <2>1, <3>1, <3>2
  <2>3. CASE SilentReboot \/ Unplug \/ ResetOnOpen
    <3>1. ~UsbCdc
      BY <2>3 DEF SilentReboot, Unplug, Vanish, ResetOnOpen, NothingLost, Orderly, ResetsNoticed
    <3>2. UNCHANGED link /\ dev' \notin {"powerdown", "rebooting"}
      BY <2>3, <3>1 DEF SilentReboot, Unplug, Vanish, ResetOnOpen, GoDown
    <3> QED BY <1>1, <2>1, <3>2
  <2>4. CASE SignalSleep \/ SignalRestart \/ Crash
    <3>1. PICK tag \in {"SLEEP", "RESTART", "CRASH"} :
            /\ UNCHANGED link /\ dev = "run"
            /\ Emit(<<Msg(tag)>>) \/ Emit(<<Msg(tag), Msg("TRACE")>>)
      BY <2>4 DEF SignalSleep, SignalRestart, Crash, Leave, Running
    <3> DEFINE a == Msg(tag)
               b == Msg("TRACE")
    <3>2. a \in Line /\ b \in Line /\ a.tag \in Farewell
      BY DEF Msg, Line, Tag, Leaving
    <3>3. link = "ok" /\ Flight \in Seq(Line)
      BY <3>1, RunFacts
    <3>4. Emit(<<a>>) \/ Emit(<<a, b>>)
      BY <3>1
    <3> HIDE DEF a, b
    <3> DEFINE r == Flight \o <<a>>
    <3>5. Flight' = r \/ Flight' = r \o <<b>>
      BY <2>1, <3>1, <3>2, <3>3, <3>4, FlightGrows, FlightGrowsTwice DEF IInv, hostVars
    <3>6. r \in Seq(Line) /\ Len(r) \in Nat /\ Len(Flight) + 1 \in 1..Len(r)
          /\ r[Len(Flight) + 1] = a
      BY <3>2, <3>3, OneMore
    <3> HIDE DEF r
    <3>7. /\ Len(r \o <<b>>) = Len(r) + 1
          /\ \A i \in 1..Len(r) : (r \o <<b>>)[i] = r[i]
      BY <3>2, <3>6, OneMore
    <3>8. Len(Flight) + 1 \in 1..Len(Flight') /\ Flight'[Len(Flight) + 1] = a
      BY <3>5, <3>6, <3>7
    <3>9. ~None(Flight', Farewell)
      BY <3>2, <3>8 DEF None
    <3> QED BY <3>1, <3>3, <3>9
  <2>5. CASE /\ UNCHANGED link /\ dev' \notin {"powerdown", "rebooting"}
    BY <1>1, <2>1, <2>5
  <2> QED BY <1>6, <2>2, <2>3, <2>4, <2>5
          DEF Device, DeviceStep, Boot, BoardFailure, RejectLine, RepeatReady, TakeCommand,
              StartTest, LeaveTest, EndTest, Hang, AssertionFails, SignalBusy, SignalError,
              Announce, FinishCycle, WakeUp, Running, Idle, deviceVars, linkVars
<1> QED BY <1>2, <1>3, <1>4, <1>5, <1>6 DEF Next, Terminated

\* How a run ends.
LEMMA EndingsStep ==
  ASSUME Orderly, NothingLost, IInv, Endings, [Next]_vars
  PROVE  Endings'
<1>1. crash' = "triggered" => Complained'
  BY CrashReported DEF Endings
<1>2. Past' => Justified'
  <2>1. CASE Complained'
    BY <2>1 DEF Justified
  <2>2. CASE ~Complained' /\ Host
    BY <2>2, JustifiedStep
  <2>3. CASE ~Complained' /\ (Device \/ UNCHANGED vars)
    <3>1. UNCHANGED hostVars
      BY <2>3 DEF Device, vars
    <3> QED BY <3>1 DEF Endings, Past, Justified, Afterwards, Complained, hostVars
  <2> QED BY <2>1, <2>2, <2>3 DEF Next, Terminated
<1> QED BY <1>1, <1>2, ListeningStep DEF Endings, Past, Justified

\* All of it.
LEMMA ReportInvariant ==
  ASSUME Orderly, NothingLost
  PROVE  Spec => [](IInv /\ FailLines /\ FailCases /\ Endings)
<1>1. Init => FailLines /\ FailCases /\ Endings
  <2> SUFFICES ASSUME Init PROVE FailLines /\ FailCases /\ Endings
    OBVIOUS
  <2>1. Flight = <<>> /\ bad = {} /\ failures = {} /\ hpc = "open" /\ crash = "none"
    BY DEF Init, HostInit, LinkInit, DeviceInit, Flight
  <2>2. FailsFirst(<<>>)
    BY DEF FailsFirst
  <2> QED BY <2>1, <2>2, NoLines
          DEF FailLines, FailCases, Endings, Afterwards, Expecting, Reading
<1>2. IInv /\ FailLines /\ FailCases /\ Endings /\ [Next]_vars
        => FailLines' /\ FailCases' /\ Endings'
  BY FailLinesStep, FailCasesStep, EndingsStep
<1> QED BY <1>1, <1>2, FlowInvariant, PTL DEF Spec

\* A failed assertion of a test in a run that ends with DONE is in the report
\* under that test, whatever sleeps, crashes and hangs there were and in however
\* many pieces the lines were read.
THEOREM EveryFailureReported ==
  ASSUME Orderly, NothingLost, Suited
  PROVE  Spec => []FailuresReported
<1>1. TypeOK /\ FailCases => FailuresReported
  BY DEF TypeOK, DeviceTypeOK, FailCases, Afterwards, Reddened, Suited, FailuresReported
<1> QED BY <1>1, ReportInvariant, PTL DEF IInv
-----------------------------------------------------------------------------
(* What a green report means.                                              *)

\* RESUME_AFTER counts the tests that pass the filters: only where no skipped
\* test comes before a wanted one are these the tests behind the sleeper.
SkippedLast == NeedsEnv = {} /\ \A t \in Wanted, s \in SkipMark : t < s
Resumable   == Outcomes \cap {"sleep", "restart"} = {} \/ SkippedLast

\* The tests that a command takes to be over, and those up to which it goes.
Due(c, t)   == \E u \in Registered : \/ c = RunWake(NameOf[u]) /\ t < u
                                     \/ c = ResumeAfter(NameOf[u]) /\ t <= u
Reach(c, t) == \A u \in Registered : c = RunWake(NameOf[u]) => t <= u

\* Which command a cycle sends.
Kinds ==
  /\ kind = "initial" => cmd = RunAll
  /\ kind = "resume"  => \E u \in Registered : cmd = ResumeAfter(NameOf[u])
  /\ hpc = "top" /\ kind \in {"phase2", "retry"} => proto.state = "SLEEPING"
  /\ hpc \in {"final", "end"} /\ proto.state = "FINISHED" => kind \notin {"phase2", "retry"}

\* The skip marks are those of the source whenever the device selects.
Marks == skipMark = SkipMark /\ (OneCycle \/ SkippedLast)

\* No wanted test is passed over: not by a test that starts, by a command that
\* is sent, by the cycle that executes it, or by its DONE.
InOrder == \A u \in Registered : phase[u] # "idle" =>
             \A t \in Wanted : t < u => phase[t] = "ended"
Commanded == Asking \/ Ordered => \A t \in Wanted : Due(cmd, t) => phase[t] = "ended"
Carried == dev = "run" =>
  \A t \in Wanted : Reach(cmd, t) => phase[t] = "ended" \/ t \in pending \/ t = cur
Concluded == ~None(Flight, {"DONE"}) \/ (proto.state = "FINISHED" /\ hpc # "open") =>
  \A t \in Wanted : Reach(cmd, t) => phase[t] = "ended"
Whole == InOrder /\ Commanded /\ Carried /\ Concluded

\* The commands that name a test name one test.
LEMMA NamedCommands ==
  ASSUME UniqueNames, NEW u \in Registered, NEW v \in Registered
  PROVE  /\ RunWake(NameOf[u]) = RunWake(NameOf[v]) => u = v
         /\ ResumeAfter(NameOf[u]) = ResumeAfter(NameOf[v]) => u = v
         /\ RunWake(NameOf[u]) # ResumeAfter(NameOf[v])
         /\ RunWake(NameOf[u]) # RunAll /\ ResumeAfter(NameOf[u]) # RunAll
<1>1. NameOf[u] # Empty
  BY FirmwareAssumption, EmptyAssumption
<1>2. /\ \A n, m : RunWake(n) = RunWake(m) => n = m
      /\ \A n, m : ResumeAfter(n) = ResumeAfter(m) => n = m
      /\ \A n, m : RunWake(n) # ResumeAfter(m)
  <2>1. \A n : RunWake(n).name = n /\ RunWake(n).tag = "RUN"
    BY DEF RunAll, RunWake
  <2>2. \A n : ResumeAfter(n).name = n /\ ResumeAfter(n).tag = "RESUME_AFTER"
    BY DEF ResumeAfter
  <2>3. \A n, m : RunWake(n) = RunWake(m) => n = m
    BY <2>1
  <2>4. \A n, m : ResumeAfter(n) = ResumeAfter(m) => n = m
    BY <2>2
  <2>5. \A n, m : RunWake(n) # ResumeAfter(m)
    BY <2>1, <2>2
  <2> QED BY <2>3, <2>4, <2>5
<1>3. RunAll.name = Empty /\ \A n : RunWake(n).name = n /\ ResumeAfter(n).name = n
  BY DEF RunAll, RunWake, ResumeAfter
<1>4. RunWake(NameOf[u]) # RunAll /\ ResumeAfter(NameOf[u]) # RunAll
  BY <1>1, <1>3
<1> QED BY <1>2, <1>4 DEF UniqueNames

\* The rank of a test among the passing ones.
LEMMA Ranked ==
  ASSUME NEW r, NEW c, Selection!Passing(r, c) \subseteq Registered,
         NEW t \in Selection!Passing(r, c)
  PROVE  /\ Selection!Rank(r, c, t) \in Nat \ {0}
         /\ 1..t \subseteq Selection!Passing(r, c) => Selection!Rank(r, c, t) = t
<1> DEFINE below == {v \in Selection!Passing(r, c) : v <= t}
<1>1. Selection!Rank(r, c, t) = Cardinality(below)
  BY SameCardinality DEF Selection!Rank
<1>2. /\ t \in Nat \ {0} /\ below \in SUBSET (1..t) /\ t \in below
      /\ 1..t \subseteq Selection!Passing(r, c) => below = 1..t
  BY FirmwareAssumption DEF Registered
<1> HIDE DEF below
<1>3. IsFiniteSet(1..t) /\ Cardinality(1..t) = t
  BY <1>2, FS_Interval
<1>4. IsFiniteSet(below)
  BY <1>2, <1>3, FS_Subset
<1>5. Cardinality(below) \in Nat /\ Cardinality(below) # 0
  BY <1>2, <1>4, FS_CardinalityType, FS_EmptySet
<1> QED BY <1>1, <1>2, <1>3, <1>5

\* A command selects every wanted test that it should execute.
LEMMA AllSelected ==
  ASSUME UniqueNames, NEW c, c.tag = "RUN" \/ SkippedLast,
         \/ c = RunAll
         \/ \E u \in Registered : c \in {RunWake(NameOf[u]), ResumeAfter(NameOf[u])},
         NEW t \in Wanted, ~Due(c, t), Reach(c, t)
  PROVE  t \in Selection!Selected([Registry EXCEPT !.skip = SkipMark], c)
<1> DEFINE r == [Registry EXCEPT !.skip = SkipMark]
<1>1. /\ r.name = NameOf /\ r.skip = SkipMark /\ r.match = Match
      /\ Selection!Tests(r) = Registered
  BY FirmwareAssumption DEF Registry, Selection!Tests
<1> HIDE DEF r
<1>2. t \in Registered /\ t \in Match /\ t \notin SkipMark
  BY DEF Wanted
<1>3. Selection!Passing(r, c) \subseteq Registered
  BY <1>1 DEF Selection!Passing
<1>4. \A u \in Registered : u \in Nat \ {0} /\ NameOf[u] # Empty
  BY FirmwareAssumption, EmptyAssumption DEF Registered
<1>5. CASE c.tag = "RUN"
  <2>1. c.name = Empty \/ c.name = NameOf[t]
    <3>1. ASSUME NEW u \in Registered, c = RunWake(NameOf[u]) PROVE c.name = NameOf[t]
      <4>1. t <= u /\ ~(t < u)
        BY <3>1 DEF Due, Reach
      <4>2. t = u
        BY <1>2, <1>4, <4>1
      <4> QED BY <3>1, <4>2 DEF RunAll, RunWake
    <3>2. \A u \in Registered : c # ResumeAfter(NameOf[u])
      BY <1>5 DEF ResumeAfter
    <3>3. c = RunAll => c.name = Empty
      BY DEF RunAll, RunWake
    <3> QED BY <3>1, <3>2, <3>3
  <2>2. t \in Selection!Passing(r, c)
    BY <1>1, <1>2, <1>5, <2>1 DEF Selection!Passing
  <2>3. Selection!ResumeIndex(r, c) = 0
    BY <1>5 DEF Selection!ResumeIndex
  <2>4. Selection!Rank(r, c, t) \in Nat \ {0}
    BY <1>3, <2>2, Ranked
  <2> QED BY <2>2, <2>3, <2>4 DEF Selection!Selected, r
<1>6. CASE c.tag # "RUN"
  <2>1. PICK u \in Registered : c = ResumeAfter(NameOf[u])
    BY <1>6 DEF RunAll, RunWake
  <2>2. t > u
    BY <1>2, <1>4, <2>1 DEF Due
  <2>3. Selection!Passing(r, c) = Registered \ SkipMark
    BY <1>1, <1>6 DEF Selection!Passing, Selection!TakesArgs
  <2>4. 1..t \subseteq Selection!Passing(r, c)
    <3> SUFFICES ASSUME NEW v \in 1..t PROVE v \in Registered /\ v \notin SkipMark
      BY <2>3
    <3>1. v \in Registered
      BY <1>2, FirmwareAssumption DEF Registered
    <3>2. v \in SkipMark => t < v
      BY <1>6 DEF SkippedLast
    <3> QED BY <1>2, <1>4, <3>1, <3>2
  <2>5. t \in Selection!Passing(r, c)
    BY <1>2, <2>3
  <2>6. Selection!Rank(r, c, t) = t
    BY <1>3, <2>4, <2>5, Ranked
  <2>7. Selection!ResumeIndex(r, c) = u
    <3>1. {v \in Selection!Tests(r) : r.name[v] = c.name} = {u}
      BY <1>1, <2>1 DEF UniqueNames, ResumeAfter
    <3>2. (CHOOSE v \in {u} : \A w \in {u} : v <= w) = u
      BY DEF Registered
    <3>3. c.tag = "RESUME_AFTER"
      BY <2>1 DEF ResumeAfter
    <3> QED BY <3>1, <3>2, <3>3 DEF Selection!ResumeIndex
  <2> QED BY <2>2, <2>5, <2>6, <2>7 DEF Selection!Selected, r
<1> QED BY <1>5, <1>6

\* The marks stay what they are.
LEMMA MarksStep ==
  ASSUME TypeOK, Resumable, Marks, [Next]_vars
  PROVE  Marks'
<1>1. OneCycle /\ Outcomes \cap {"sleep", "restart"} = {} => OneCycle'
  <2>1. CASE UNCHANGED vars
    BY <2>1 DEF OneCycle, Flight, vars, hostVars, linkVars
  <2> QED BY <2>1, OneCycleHost, OneCycleDevice DEF Next, Terminated
<1>2. OneCycle' \/ SkippedLast
  BY <1>1 DEF Marks, Resumable
<1>3. skipMark' = SkipMark
  <2>1. CASE TakeCommand
    <3> DEFINE c == Head(toDevice)
    <3>1. /\ toDevice # <<>> /\ c.tag # "ONDONE"
          /\ skipMark' = IF Selection!TakesArgs(c) THEN skipMark ELSE skipMark \cup NeedsEnv
      BY <2>1 DEF TakeCommand
    <3>2. OneCycle => Selection!TakesArgs(c)
      <4>1. c = toDevice[1] /\ 1 \in 1..Len(toDevice)
        BY <3>1, EmptySeq DEF TypeOK, DeviceTypeOK
      <4>2. OneCycle => c \in {RunAll, OnDone}
        BY <4>1 DEF OneCycle
      <4> QED BY <3>1, <4>2 DEF RunAll, RunWake, OnDone, Selection!TakesArgs
    <3>3. SkippedLast => skipMark \cup NeedsEnv = skipMark
      BY DEF SkippedLast
    <3> QED BY <3>1, <3>2, <3>3 DEF Marks
  <2>2. CASE Boot
    BY <2>2 DEF Boot
  <2>3. CASE UNCHANGED skipMark
    BY <2>3 DEF Marks
  <2>4. Device => TakeCommand \/ Boot \/ UNCHANGED skipMark
    BY DEF Device, DeviceStep, BoardFailure, RejectLine, RepeatReady, StartTest, LeaveTest,
           EndTest, SignalSleep, SignalRestart, Crash, Leave, Hang, SilentReboot, Unplug,
           Vanish, AssertionFails, SignalBusy, SignalError, Announce, ResetOnOpen,
           FinishCycle, WakeUp, PowerDown, deviceVars
  <2>5. Host \/ UNCHANGED vars => UNCHANGED skipMark
    BY DEF Host, vars, deviceVars
  <2> QED BY <2>1, <2>2, <2>3, <2>4, <2>5 DEF Next, Terminated
<1> QED BY <1>2, <1>3 DEF Marks

\* Outside the two actions that set a new command, it stays what it is.
LEMMA SameCommand ==
  ASSUME Host, ~Wake, ~(RunRemaining /\ hpc' = "open")
  PROVE  cmd' = cmd /\ (kind' = kind \/ (kind = "phase2" /\ kind' = "retry"))
<1>1. SendFails \/ OpenFails \/ PortLost =>
        cmd' = cmd /\ (kind' = kind \/ (kind = "phase2" /\ kind' = "retry"))
  BY DEF SendFails, OpenFails, PortLost, SerialException, RunnerError, PortException
<1>2. /\ RunRemaining => UNCHANGED <<cmd, kind>>
      /\ ResolveFails => UNCHANGED <<cmd, kind>>
  BY DEF RunRemaining, ResolveFails, RunnerError
<1> QED BY <1>1, <1>2
        DEF Host, HostStep, OpenCycle, ReadChunk, HandleLine, EndChunk, SendCommand, CycleDone,
            DeviceError, NextRead, CrashBreak, PostTest, CloseCycle, ResumeSleeper, GiveUp,
            LoopExit, Finalize, ReadyTimeout, HangTimeout, DrainTimeout, BusyElapses

\* The kind of a cycle tells its command.
LEMMA KindsStep ==
  ASSUME IInv, Kinds, [Next]_vars
  PROVE  Kinds'
<1> USE DEF Kinds
<1>1. CASE Device \/ UNCHANGED vars
  <2>1. UNCHANGED hostVars
    BY <1>1 DEF Device, vars
  <2> QED BY <2>1 DEF hostVars
<1>2. CASE Host /\ Wake
  BY <1>2 DEF Wake
<1>3. CASE Host /\ RunRemaining /\ hpc' = "open"
  <2>1. /\ cmd' = ResumeAfter(target) /\ kind' = "resume" /\ hpc = "resumed"
    BY <1>3 DEF RunRemaining
  <2>2. \E u \in Registered : target = NameOf[u]
    BY <2>1 DEF IInv, Flow, Cycle
  <2> QED BY <1>3, <2>1, <2>2
<1>4. CASE Host /\ ~Wake /\ ~(RunRemaining /\ hpc' = "open")
  <2>1. cmd' = cmd /\ (kind' = kind \/ (kind = "phase2" /\ kind' = "retry"))
    BY <1>4, SameCommand
  <2>2. /\ kind' = "initial" => cmd' = RunAll
        /\ kind' = "resume"  => \E u \in Registered : cmd' = ResumeAfter(NameOf[u])
    BY <2>1
  <2>3. hpc' = "top" /\ kind' \in {"phase2", "retry"} => proto'.state = "SLEEPING"
    <3>1. hpc' = "top" => CloseCycle \/ RunRemaining \/ (BusyElapses /\ hpc = "top")
      BY <1>4 DEF Host, HostStep, OpenCycle, ReadChunk, HandleLine, EndChunk, SendCommand,
                  CycleDone, DeviceError, NextRead, CrashBreak, PostTest, ResumeSleeper,
                  GiveUp, LoopExit, Finalize, ResolveFails, ReadyTimeout, HangTimeout,
                  DrainTimeout, BusyElapses, SendFails, OpenFails, PortLost,
                  SerialException, RunnerError, PortException,
                  Wake
    <3>2. CASE CloseCycle
      BY <3>2 DEF CloseCycle
    <3>3. CASE RunRemaining /\ hpc' = "top"
      <4>1. \E u \in Registered : target = NameOf[u]
        BY <3>3 DEF RunRemaining, IInv, Flow, Cycle
      <4>2. target # Empty
        BY <4>1, FirmwareAssumption, EmptyAssumption
      <4> QED BY <3>3, <4>2 DEF RunRemaining
    <3>4. CASE BusyElapses /\ hpc = "top"
      <4>1. proto'.state = proto.state /\ kind' = kind
        BY <3>4 DEF BusyElapses, BusyExpired, IInv, TypeOK, HostTypeOK, Protocol
      <4> QED BY <3>4, <4>1
    <3> QED BY <3>1, <3>2, <3>3, <3>4
  <2>4. hpc' \in {"final", "end"} /\ proto'.state = "FINISHED" => kind' \notin {"phase2", "retry"}
    <3> SUFFICES ASSUME hpc' \in {"final", "end"}, proto'.state = "FINISHED"
                 PROVE  kind' \notin {"phase2", "retry"}
      OBVIOUS
    <3>1. Afterwards /\ proto.state = "FINISHED"
      <4>1. ~CycleDone
        BY DEF CycleDone
      <4> QED BY <1>4, <4>1, FinishedBefore DEF Afterwards
    <3>2. CASE LoopExit \/ Finalize
      BY <3>1, <3>2 DEF LoopExit, Finalize
    <3>3. CASE BusyElapses
      BY <3>1, <3>3 DEF BusyElapses
    <3>4. LoopExit \/ Finalize \/ BusyElapses
      <4>1. ~GiveUp
        BY <3>1 DEF GiveUp
      <4>2. ~SendFails /\ ~OpenFails /\ ~PortLost /\ ~ResolveFails
        BY <3>1 DEF SendFails, OpenFails, PortLost, ResolveFails, Afterwards
      <4> QED BY <1>4, <4>1, <4>2
          DEF Host, HostStep, OpenCycle, ReadChunk, HandleLine, EndChunk, SendCommand,
              CycleDone, DeviceError, NextRead, CrashBreak, PostTest, CloseCycle,
              ResumeSleeper, RunRemaining, ReadyTimeout, HangTimeout, DrainTimeout, Wake,
              Afterwards
    <3> QED BY <3>2, <3>3, <3>4
  <2> QED BY <2>2, <2>3, <2>4
<1> QED BY <1>1, <1>2, <1>3, <1>4 DEF Next, Terminated

\* The host begins to ask for a command to be executed only with a new one.
LEMMA AskingBegins ==
  ASSUME IInv, Host, ~Wake, ~(RunRemaining /\ hpc' = "open"), Asking'
  PROVE  Asking
<1>1. proto \in Protocol
  BY DEF IInv, TypeOK, HostTypeOK
<1>2. CASE HandleLine
  <2>1. /\ chunk # <<>> /\ proto' = Feed(proto, Head(chunk)) /\ hpc' = hpc
        /\ chunk \in Seq(Line)
    BY <1>2 DEF HandleLine, IInv, TypeOK, HostTypeOK
  <2>2. Reading /\ proto'.state \in {"WAITING_FOR_READY", "READY"}
    BY <2>1, <1>2 DEF Asking, Reading, HandleLine
  <2>3. CASE proto.state = "RUNNING"
    <3>1. /\ Expecting /\ Head(Flight) = Head(chunk) /\ Flight # <<>> /\ Flight \in Seq(Line)
          /\ Head(Flight) \in Line
      BY <2>1, <2>2, <2>3, FlightTail, FlightType, HeadTailProperties DEF Expecting, IInv
    <3>2. /\ Head(Flight) = Flight[1] /\ 1 \in 1..Len(Flight) /\ Head(Flight).ok
          /\ Head(Flight).tag = "CASE" => Head(Flight).name # Empty
      BY <3>1, TailLines DEF IInv, Flow, Shape
    <3>3. Head(Flight).tag = "READY" => proto.name # Empty
      <4>1. Guarded(proto, Flight)
        BY <3>1 DEF IInv, Flow, SentOnce
      <4>2. \A j \in 1..(1 - 1) : FALSE
        OBVIOUS
      <4> QED BY <3>2, <4>1, <4>2 DEF Guarded, Introduced
    <3>4. proto' = Feed(proto, Head(Flight))
      BY <2>1, <3>1
    <3>5. proto'.state \notin {"WAITING_FOR_READY", "READY"}
      <4> DEFINE l == Head(Flight)
      <4> HIDE DEF l
      <4>1. /\ l \in Line /\ l.ok /\ proto' = Feed(proto, l)
            /\ l.tag = "READY" => proto.name # Empty
        BY <3>1, <3>2, <3>3, <3>4 DEF l
      <4>2. proto' = FeedRunning(proto, l)
        BY <2>3, <4>1 DEF Feed
      <4> QED BY <1>1, <2>3, <4>1, <4>2
              DEF FeedRunning, CommandLost, CaseStart, Sleep, Protocol
    <3> QED BY <2>2, <3>5
  <2>4. CASE proto.state # "RUNNING"
    <3>1. proto.state \in {"WAITING_FOR_READY", "READY"}
      BY <1>1, <2>1, <2>2, <2>4 DEF Feed
    <3> QED BY <2>2, <3>1 DEF Asking
  <2> QED BY <2>3, <2>4
<1>3. CASE SendFails \/ OpenFails \/ PortLost
  <2>1. hpc' = "open"
    BY <1>3 DEF SendFails, OpenFails, PortLost,
                SerialException, RunnerError, PortException, Asking, Reading
  <2>2. PortLost => hpc = "read" /\ proto.state \in {"WAITING_FOR_READY"}
    BY <2>1 DEF PortLost, IInv, HostControl, ReadsUnanswering
  <2> QED BY <1>3, <2>2 DEF SendFails, OpenFails, Asking, Reading
<1>4. CASE BusyElapses
  BY <1>1, <1>4 DEF BusyElapses, BusyExpired, Protocol, Asking, Reading
<1>5. CASE SendCommand(Powered)
  BY <1>5 DEF SendCommand, Asking, Reading
<1>6. CASE OpenCycle
  BY <1>6 DEF OpenCycle, Asking
<1>7. CASE ReadChunk \/ EndChunk \/ CycleDone \/ DeviceError \/ NextRead \/ CrashBreak
           \/ ReadyTimeout \/ HangTimeout \/ DrainTimeout
  BY <1>7 DEF ReadChunk, EndChunk, CycleDone, DeviceError, NextRead, CrashBreak,
              ReadyTimeout, HangTimeout, DrainTimeout, Asking, Reading
<1>8. CASE PostTest(Powered) \/ CloseCycle \/ ResumeSleeper \/ GiveUp \/ LoopExit
           \/ RunRemaining \/ Finalize \/ ResolveFails
  BY <1>8 DEF PostTest, CloseCycle, ResumeSleeper, GiveUp, LoopExit, RunRemaining,
              Finalize, ResolveFails, Asking, Reading
<1> QED BY <1>2, <1>3, <1>4, <1>5, <1>6, <1>7, <1>8 DEF Host, HostStep

\* The DONE that closes a cycle is one that was in flight.
LEMMA DoneReceived ==
  ASSUME IInv, Host,
         ~None(Flight', {"DONE"}) \/ (proto'.state = "FINISHED" /\ hpc' # "open")
  PROVE  ~None(Flight, {"DONE"}) \/ (proto.state = "FINISHED" /\ hpc # "open")
<1>1. proto \in Protocol /\ chunk \in Seq(Line) /\ toHost \in Seq(Line) /\ Flight \in Seq(Line)
  BY FlightType DEF IInv, TypeOK, HostTypeOK, DeviceTypeOK
<1>2. CASE HandleLine
  <2>1. /\ chunk # <<>> /\ proto' = Feed(proto, Head(chunk)) /\ UNCHANGED <<hpc, toHost>>
        /\ chunk' = <<>> \/ chunk' = Tail(chunk)
    BY <1>2 DEF HandleLine, linkVars
  <2>2. /\ Flight # <<>> /\ Head(Flight) = Head(chunk)
        /\ Tail(Flight) = Tail(chunk) \o toHost /\ Tail(chunk) \in Seq(Line)
    BY <1>1, <2>1, FlightTail, HeadTailProperties DEF IInv
  <2>3. ~None(Flight', {"DONE"}) => ~None(Flight, {"DONE"})
    <3> SUFFICES ASSUME None(Flight, {"DONE"}) PROVE None(Flight', {"DONE"})
      OBVIOUS
    <3>1. None(Tail(Flight), {"DONE"})
      BY <1>1, <2>2, TailLines
    <3>2. None(toHost, {"DONE"})
      <4>1. None(Tail(chunk) \o toHost, {"DONE"})
        BY <2>2, <3>1
      <4> QED BY <1>1, <2>2, <4>1, BackKept
    <3>3. <<>> \o toHost = toHost
      BY <1>1, ConcatEmptySeq
    <3> QED BY <2>1, <2>2, <3>1, <3>2, <3>3 DEF Flight
  <2>4. CASE proto'.state = "FINISHED" /\ hpc' # "open" /\ proto.state # "FINISHED"
    <3>1. Head(chunk).tag = "DONE"
      <4>1. ASSUME NEW l, Feed(proto, l).state = "FINISHED" PROVE l.tag = "DONE"
        BY <1>1, <2>4, <4>1 DEF Feed, FeedWaiting, FeedReady, FeedRunning, CommandLost,
                                CaseStart, Sleep, Protocol
      <4> QED BY <2>1, <2>4, <4>1
    <3> QED BY <1>1, <2>2, <3>1, TailLines
  <2> QED BY <2>1, <2>3, <2>4
<1>3. CASE ~HandleLine
  <2>1. ~None(Flight', {"DONE"}) => ~None(Flight, {"DONE"})
    BY <1>3, HostMoves, NoLines
  <2>2. CASE proto'.state = "FINISHED" /\ hpc' # "open"
    <3>1. ~OpenCycle /\ ~OpenFails /\ ~ResolveFails
      BY <2>2 DEF OpenCycle, OpenFails, ResolveFails,
                  SerialException, RunnerError, PortException, Reset, NewProtocol
    <3>2. CASE BusyElapses
      BY <1>1, <2>2, <3>2 DEF BusyElapses, BusyExpired, Protocol
    <3>3. ~SendCommand(Powered) /\ ~Wake
      BY <1>1, <2>2 DEF SendCommand, CommandSent, Wake, Protocol
    <3> QED BY <1>3, <2>2, <3>1, <3>2, <3>3
        DEF Host, HostStep, ReadChunk, EndChunk, CycleDone, DeviceError, NextRead, CrashBreak,
            PostTest, CloseCycle, ResumeSleeper, GiveUp, LoopExit, Finalize, RunRemaining,
            ReadyTimeout, HangTimeout, DrainTimeout, SendFails, PortLost,
            SerialException, RunnerError, PortException
  <2> QED BY <2>1, <2>2
<1> QED BY <1>2, <1>3

\* A step of the host passes no test over.
LEMMA WholeHost ==
  ASSUME Orderly, IInv, IInv', Endings, Whole, Host, ~Complained
  PROVE  Whole'
<1> USE DEF Whole
<1>1. UNCHANGED <<dev, phase, pending, cur>>
  BY DEF Host, deviceVars
<1>2. InOrder'
  BY <1>1 DEF InOrder
<1>3. Asking' \/ Ordered' => Asking' \/ Expecting'
  <2> SUFFICES ASSUME Ordered' PROVE Asking' \/ Expecting'
    OBVIOUS
  <2>1. dev' = "wait" /\ toDevice' = <<cmd'>> /\ cmd' \in HostCommand /\ Buffers'
    BY DEF Ordered, IInv, Flow, TypeOK, HostTypeOK
  <2>2. <<cmd'>> # <<OnDone>> /\ <<cmd'>> # <<>>
    <3>1. cmd' # OnDone
      BY <2>1 DEF HostCommand, OnDone
    <3>2. <<cmd'>>[1] = cmd' /\ <<OnDone>>[1] = OnDone /\ Len(<<cmd'>>) = 1
      OBVIOUS
    <3>3. <<cmd'>> # <<>>
      BY <3>2
    <3> QED BY <3>1, <3>2, <3>3
  <2> QED BY <2>1, <2>2 DEF Buffers
<1>4. CASE Wake
  <2>1. /\ hpc = "wake" /\ hpc' = "open" /\ cmd' = RunWake(proto.sleeping)
        /\ UNCHANGED <<linkVars, chunk>>
    BY <1>4 DEF Wake
  <2>2. PICK u \in Registered : phase[u] = "slept" /\ proto.sleeping = NameOf[u]
    BY <2>1 DEF IInv, Flow, Cycle, Resting, Slept
  <2>3. Commanded'
    <3>1. ASSUME NEW t \in Wanted, Due(cmd', t) PROVE phase[t] = "ended"
      <4>1. PICK v \in Registered : \/ cmd' = RunWake(NameOf[v]) /\ t < v
                                    \/ cmd' = ResumeAfter(NameOf[v]) /\ t <= v
        BY <3>1 DEF Due
      <4>2. t < u
        BY <2>1, <2>2, <4>1, NamedCommands DEF Orderly
      <4> QED BY <2>2, <4>2 DEF InOrder
    <3> QED BY <1>1, <3>1 DEF Commanded
  <2>4. dev # "run"
    BY <2>1 DEF IInv, Flow, Executing, Expecting, Reading
  <2>5. Flight' = <<>>
    <3>1. chunk = <<>> /\ toHost = <<>> /\ UNCHANGED toHost
      BY <2>1 DEF IInv, Flow, Shape, linkVars
    <3> QED BY <2>1, <3>1, ConcatEmptySeq, EmptySeq DEF Flight
  <2> QED BY <1>1, <1>2, <2>1, <2>3, <2>4, <2>5, NoLines DEF Carried, Concluded
<1>5. CASE RunRemaining /\ hpc' = "open"
  <2>1. /\ hpc = "resumed" /\ cmd' = ResumeAfter(target) /\ proto.state # "SLEEPING"
        /\ UNCHANGED <<linkVars, chunk>>
    BY <1>5 DEF RunRemaining
  <2>2. PICK u \in Registered : target = NameOf[u] /\ cmd = RunWake(target)
    BY <2>1 DEF IInv, Flow, Cycle
  <2>3. proto.state = "FINISHED"
    BY <2>1 DEF Endings, Afterwards
  <2>4. \A t \in Wanted : t <= u => phase[t] = "ended"
    <3>1. \A t : t <= u => Reach(cmd, t)
      BY <2>2, NamedCommands DEF Reach, Orderly
    <3> QED BY <2>1, <2>3, <3>1 DEF Concluded
  <2>5. Commanded'
    <3>1. ASSUME NEW t \in Wanted, Due(cmd', t) PROVE phase[t] = "ended"
      <4>1. PICK v \in Registered : \/ cmd' = RunWake(NameOf[v]) /\ t < v
                                    \/ cmd' = ResumeAfter(NameOf[v]) /\ t <= v
        BY <3>1 DEF Due
      <4>2. t <= u
        BY <2>1, <2>2, <4>1, NamedCommands DEF Orderly
      <4> QED BY <2>4, <4>2
    <3> QED BY <1>1, <3>1 DEF Commanded
  <2>6. dev # "run"
    BY <2>1 DEF IInv, Flow, Executing, Expecting, Reading
  <2>7. Flight' = <<>>
    <3>1. chunk = <<>> /\ toHost = <<>> /\ UNCHANGED toHost
      BY <2>1 DEF IInv, Flow, Shape, linkVars
    <3> QED BY <2>1, <3>1, ConcatEmptySeq, EmptySeq DEF Flight
  <2> QED BY <1>1, <1>2, <1>5, <2>5, <2>6, <2>7, NoLines DEF Carried, Concluded
<1>6. CASE ~Wake /\ ~(RunRemaining /\ hpc' = "open")
  <2>1. cmd' = cmd
    BY <1>6, SameCommand
  <2>2. Asking' \/ Ordered' => Asking \/ Ordered
    <3>1. CASE Asking'
      BY <1>6, <3>1, AskingBegins
    <3>2. CASE Ordered' /\ ~Asking'
      <4>1. Expecting'
        BY <1>3, <3>2
      <4>2. CASE Expecting
        <5>1. ~SendCommand(Powered) /\ ~PostTest(Powered)
          BY <4>2 DEF SendCommand, PostTest, Expecting, Reading
        <5>2. toDevice' = toDevice
          BY <5>1 DEF Host, HostStep, OpenCycle, Open, ReadChunk, HandleLine, EndChunk,
                 CycleDone, DeviceError, NextRead, CrashBreak, CloseCycle, Close, ResumeSleeper,
                 GiveUp, LoopExit, RunRemaining, Finalize, ResolveFails, OpenFails, SendFails,
                 PortLost, Wake, ReadyTimeout, HangTimeout, DrainTimeout, BusyElapses, linkVars
        <5> QED BY <1>1, <2>1, <3>2, <5>2 DEF Ordered
      <4>3. CASE ~Expecting
        <5>1. SendCommand(Powered)
          BY <4>1, <4>3, ExpectingBegins
        <5> QED BY <5>1 DEF SendCommand, Asking, Reading
      <4> QED BY <4>2, <4>3
    <3> QED BY <3>1, <3>2
  <2>3. Commanded'
    BY <1>1, <2>1, <2>2 DEF Commanded
  <2>4. Carried'
    BY <1>1, <2>1 DEF Carried
  <2>5. Concluded'
    BY <1>1, <2>1, DoneReceived DEF Concluded
  <2> QED BY <1>2, <2>3, <2>4, <2>5
<1> QED BY <1>4, <1>5, <1>6

\* Only the end of a cycle is announced with DONE.
LEMMA NothingDone ==
  ASSUME IInv, Device, ~FinishCycle, None(Flight, {"DONE"})
  PROVE  None(Flight', {"DONE"})
<1>1. /\ chunk \in Seq(Line) /\ toHost \in Seq(Line) /\ Flight \in Seq(Line)
      /\ UNCHANGED chunk
  BY FlightType DEF IInv, TypeOK, HostTypeOK, DeviceTypeOK, Device, hostVars
<1>2. CASE toHost' = toHost
  BY <1>1, <1>2 DEF Flight
<1>3. CASE toHost' = <<>>
  <2>1. Flight' = chunk
    BY <1>1, <1>3, ConcatEmptySeq DEF Flight
  <2> QED BY <1>1, <2>1, FrontKept DEF Flight
<1>4. ASSUME NEW l \in Line, l.tag # "DONE", UNCHANGED link, Emit(<<l>>)
      PROVE  None(Flight', {"DONE"})
  <2>1. UNCHANGED hostVars
    BY DEF Device
  <2> QED BY <1>1, <1>2, <1>4, <2>1, FlightGrows, OneMoreKept DEF IInv, Emit
<1>5. ASSUME NEW tag \in {"READY", "ERROR", "FAIL", "BUSY", "TEXT", "SLEEP", "RESTART"},
             UNCHANGED link, Emit(<<Msg(tag)>>)
      PROVE  None(Flight', {"DONE"})
  <2>1. Msg(tag) \in Line /\ Msg(tag).tag # "DONE"
    BY DEF Msg, Line, Tag
  <2> QED BY <1>4, <1>5, <2>1
<1>6. CASE Boot \/ BoardFailure \/ RepeatReady \/ RejectLine
  BY <1>5, <1>6 DEF Boot, BoardFailure, RepeatReady, RejectLine
<1>7. CASE \/ AssertionFails \/ SignalBusy \/ SignalError \/ SignalSleep \/ SignalRestart
           \/ TakeCommand
  BY <1>5, <1>7 DEF AssertionFails, SignalBusy, SignalError, Announce, SignalSleep,
                    SignalRestart, TakeCommand, Leave
<1>8. CASE StartTest
  <2>1. PICK t \in Registered : UNCHANGED link /\ Emit(<<CaseLine(SuiteOf[t], NameOf[t])>>)
    BY <1>8 DEF StartTest, IInv, TypeOK, DeviceTypeOK
  <2>2. CaseLine(SuiteOf[t], NameOf[t]) \in Line /\ CaseLine(SuiteOf[t], NameOf[t]).tag # "DONE"
    BY FirmwareAssumption DEF CaseLine, Line, Tag
  <2> QED BY <1>4, <2>1, <2>2
<1>9. EndTest \/ Hang \/ WakeUp => toHost' = toHost
  BY DEF EndTest, Hang, WakeUp, linkVars
<1>10. PowerDown \/ ResetOnOpen \/ SilentReboot \/ Unplug => toHost' \in {<<>>, toHost}
  BY DEF PowerDown, ResetOnOpen, SilentReboot, Unplug, Vanish, GoDown
<1>11. CASE Crash
  <2>1. link = "ok" /\ UNCHANGED <<link, chunk>> /\ Emit(<<Msg("CRASH"), Msg("TRACE")>>)
    BY <1>1, <1>11, RunFacts DEF Crash, Leave, Running
  <2> DEFINE a == Msg("CRASH")
             b == Msg("TRACE")
  <2>2. a \in Line /\ b \in Line /\ a.tag # "DONE" /\ b.tag # "DONE" /\ Emit(<<a, b>>)
    BY <2>1 DEF Msg, Line, Tag
  <2> HIDE DEF a, b
  <2>3. Flight \o <<a>> \in Seq(Line) /\ Flight' = (Flight \o <<a>>) \o <<b>>
    BY <2>1, <2>2, FlightGrowsTwice DEF IInv
  <2>4. None(Flight \o <<a>>, {"DONE"})
    BY <1>1, <2>2, OneMoreKept
  <2> QED BY <2>2, <2>3, <2>4, OneMoreKept
<1> QED BY <1>2, <1>3, <1>6, <1>7, <1>8, <1>9, <1>10, <1>11 DEF Device, DeviceStep, LeaveTest

\* What has ended stays so.
LEMMA EndedStays ==
  ASSUME IInv, Device, NEW t \in Registered, phase[t] = "ended"
  PROVE  phase'[t] = "ended"
<1>1. phase \in [Registered -> {"idle", "running", "slept", "ended", "lost"}]
  BY DEF IInv, TypeOK, DeviceTypeOK
<1>2. CASE StartTest
  <2>1. PICK u \in pending : phase' = [phase EXCEPT ![u] = "running"]
    BY <1>2 DEF StartTest
  <2>2. phase[u] \in {"slept", "idle"}
    BY <1>2, <2>1 DEF StartTest, Idle, IInv, Flow, Executing
  <2> QED BY <1>1, <2>1, <2>2
<1>3. CASE LeaveTest
  <2>1. /\ \E x \in {"ended", "slept", "lost"} : phase' = [phase EXCEPT ![cur] = x]
        /\ dev = "run" /\ cur # 0
    BY <1>3 DEF LeaveTest, EndTest, SignalSleep, SignalRestart, Crash, Leave,
                Hang, SilentReboot, Unplug, Vanish, Running
  <2>2. phase[cur] = "running"
    BY <2>1, RunFacts
  <2> QED BY <1>1, <2>1, <2>2
<1>4. StartTest \/ LeaveTest \/ UNCHANGED phase
  BY DEF Device, DeviceStep, Boot, BoardFailure, RejectLine, TakeCommand, RepeatReady,
         AssertionFails, SignalBusy, SignalError, Announce, ResetOnOpen, FinishCycle,
         WakeUp, PowerDown, deviceVars
<1> QED BY <1>2, <1>3, <1>4

\* The device takes a command: it goes on where the command says.
LEMMA WholeTaken ==
  ASSUME Orderly, IInv, Marks, Commanded, TakeCommand
  PROVE  \A t \in Wanted : Reach(cmd, t) => phase[t] = "ended" \/ t \in pending'
<1> DEFINE c == Head(toDevice)
<1>1. /\ dev = "wait" /\ toDevice # <<>> /\ c.tag # "ONDONE"
      /\ pending' = Selection!Selected([Registry EXCEPT !.skip = skipMark'], c)
      /\ skipMark' = IF Selection!TakesArgs(c) THEN skipMark ELSE skipMark \cup NeedsEnv
  BY DEF TakeCommand
<1>2. toDevice = <<cmd>> /\ Fresh(phase, cmd)
  <2>1. toDevice # <<OnDone>>
    <3>1. Head(<<OnDone>>) = OnDone /\ OnDone.tag = "ONDONE"
      BY DEF OnDone
    <3> QED BY <1>1, <3>1
  <2> QED BY <1>1, <2>1 DEF IInv, Flow, Buffers
<1>3. c = cmd
  BY <1>2
<1> HIDE DEF c
<1>4. cmd.tag = "RUN" \/ SkippedLast
  <2>1. CASE OneCycle
    BY <2>1 DEF OneCycle, RunAll, RunWake
  <2> QED BY <2>1 DEF Marks
<1>5. skipMark' = SkipMark
  <2>1. SkippedLast => skipMark \cup NeedsEnv = skipMark
    BY DEF SkippedLast
  <2> QED BY <1>1, <1>3, <1>4, <2>1 DEF Marks, Selection!TakesArgs
<1>6. \/ cmd = RunAll
      \/ \E u \in Registered : cmd \in {RunWake(NameOf[u]), ResumeAfter(NameOf[u])}
  BY <1>2 DEF Fresh
<1>7. ASSUME NEW t \in Wanted, Reach(cmd, t), ~Due(cmd, t) PROVE t \in pending'
  BY <1>1, <1>3, <1>4, <1>5, <1>6, <1>7, AllSelected DEF Orderly
<1>8. \A t \in Wanted : Due(cmd, t) => phase[t] = "ended"
  BY <1>1, <1>2 DEF Commanded, Ordered
<1> QED BY <1>7, <1>8

\* The test that starts is the next one.
LEMMA WholeStarted ==
  ASSUME Orderly, IInv, Kinds, InOrder, Carried, StartTest
  PROVE  InOrder' /\ (UNCHANGED cmd => Carried')
<1>1. dev = "run" /\ cur = 0
  BY DEF StartTest, Idle
<1>2. PICK u \in pending :
        /\ \A v \in pending : u <= v
        /\ cur' = u /\ pending' = pending \ {u}
        /\ phase' = [phase EXCEPT ![u] = "running"]
  BY DEF StartTest
<1>3. /\ u \in Registered /\ Registered \subseteq Nat \ {0} /\ Wanted \subseteq Registered
      /\ phase \in [Registered -> {"idle", "running", "slept", "ended", "lost"}]
  BY DEF IInv, TypeOK, DeviceTypeOK, Registered, Wanted
<1>4. Untouched(phase, u) /\ phase[u] \in {"slept", "idle"} /\ Expecting
  BY <1>1, <1>2 DEF IInv, Flow, Executing
<1>5. ASSUME NEW t \in Wanted, t < u PROVE phase[t] = "ended"
  <2>1. Reach(cmd, t)
    <3>1. ASSUME NEW v \in Registered, cmd = RunWake(NameOf[v]) PROVE t <= v
      <4>1. kind \notin {"initial", "resume"}
        BY <3>1, NamedCommands DEF Kinds, Orderly
      <4>2. PICK w \in Registered :
              target = NameOf[w] /\ cmd = RunWake(target) /\ pending \subseteq {w}
        BY <1>1, <1>4, <4>1 DEF IInv, Flow, Cycle, TypeOK, HostTypeOK, Kind, Expecting, Reading
      <4>3. v = w /\ u = w
        BY <1>2, <3>1, <4>2, NamedCommands DEF Orderly
      <4> QED BY <1>3, <1>5, <4>3
    <3> QED BY <3>1 DEF Reach
  <2>2. t \notin pending /\ t # cur
    BY <1>1, <1>2, <1>3, <1>5
  <2> QED BY <1>1, <2>1, <2>2 DEF Carried
<1>6. InOrder'
  <2> SUFFICES ASSUME NEW v \in Registered, phase'[v] # "idle", NEW t \in Wanted, t < v
               PROVE  phase'[t] = "ended"
    BY DEF InOrder
  <2>1. v <= u
    <3>1. v > u => phase[v] = "idle" /\ v # u
      BY <1>3, <1>4 DEF Untouched
    <3>2. v # u => phase[v] # "idle"
      BY <1>2, <1>3
    <3> QED BY <1>3, <3>1, <3>2
  <2>2. t < u /\ t \in Registered
    BY <1>3, <2>1
  <2>3. phase[t] = "ended"
    BY <1>5, <2>2
  <2> QED BY <1>2, <1>3, <2>2, <2>3
<1>7. UNCHANGED cmd => Carried'
  <2>1. \A t \in Wanted : phase[t] = "ended" => phase'[t] = "ended"
    BY <1>2, <1>3, <1>4
  <2>2. \A t \in pending : t \in pending' \/ t = cur'
    BY <1>2
  <2>3. ASSUME NEW t \in Wanted, Reach(cmd, t)
        PROVE  phase[t] = "ended" \/ t \in pending
    <3>1. t # cur
      BY <1>1, <1>3
    <3> QED BY <1>1, <2>3, <3>1 DEF Carried
  <2> QED BY <2>1, <2>2, <2>3 DEF Carried
<1> QED BY <1>6, <1>7

\* A step of the device passes no test over.
LEMMA WholeDevice ==
  ASSUME Orderly, IInv, Kinds, Marks, Whole, Device
  PROVE  Whole'
<1> USE DEF Whole
<1>1. UNCHANGED hostVars /\ UNCHANGED cmd /\ Wanted \subseteq Registered
  BY DEF Device, hostVars, Wanted
<1>2. \A t \in Wanted : phase[t] = "ended" => phase'[t] = "ended"
  BY <1>1, EndedStays
<1>3. InOrder'
  <2>1. CASE StartTest
    BY <2>1, WholeStarted
  <2>2. CASE ~StartTest
    <3>1. \A u \in Registered : phase'[u] # "idle" => phase[u] # "idle"
      <4>1. CASE LeaveTest
        <5>1. /\ \E x \in {"ended", "slept", "lost"} : phase' = [phase EXCEPT ![cur] = x]
              /\ dev = "run" /\ cur # 0
          BY <4>1 DEF LeaveTest, EndTest, SignalSleep, SignalRestart, Crash, Leave,
                      Hang, SilentReboot, Unplug, Vanish, Running
        <5>2. phase[cur] = "running"
          BY <5>1, RunFacts
        <5>3. phase \in [Registered -> {"idle", "running", "slept", "ended", "lost"}]
          BY DEF IInv, TypeOK, DeviceTypeOK
        <5> QED BY <5>1, <5>2, <5>3
      <4>2. CASE UNCHANGED phase
        BY <4>2
      <4> QED BY <2>2, <4>1, <4>2
          DEF Device, DeviceStep, Boot, BoardFailure, RejectLine, TakeCommand, RepeatReady,
              AssertionFails, SignalBusy, SignalError, Announce, ResetOnOpen, FinishCycle,
              WakeUp, PowerDown, deviceVars
    <3> QED BY <1>2, <3>1 DEF InOrder
  <2> QED BY <2>1, <2>2
<1>4. Commanded'
  <2>1. Asking' <=> Asking
    BY <1>1 DEF hostVars, Asking, Reading
  <2>2. Ordered' => Ordered
    <3> SUFFICES ASSUME dev' = "wait", toDevice' = <<cmd>>, toDevice' # <<>>
                 PROVE  dev = "wait" /\ toDevice = <<cmd>>
      <4>1. Len(<<cmd'>>) = 1
        OBVIOUS
      <4>2. <<cmd'>> # <<>>
        BY <4>1
      <4> QED BY <1>1, <4>2 DEF Ordered
    <3>1. CASE RejectLine
      <4>1. toDevice = <<OnDone>>
        <5>1. dev = "wait" /\ toDevice # <<>> /\ Head(toDevice).tag = "ONDONE"
          BY <3>1 DEF RejectLine
        <5>2. toDevice # <<cmd>>
          <6>1. Head(<<cmd>>) = cmd /\ cmd.tag # "ONDONE"
            BY DEF IInv, TypeOK, HostTypeOK, HostCommand
          <6> QED BY <5>1, <6>1
        <5> QED BY <5>1, <5>2 DEF IInv, Flow, Buffers
      <4>2. toDevice' = <<>>
        BY <3>1, <4>1 DEF RejectLine
      <4> QED BY <4>2
    <3>2. CASE Boot \/ FinishCycle
      <4>1. dev \in {"boot", "run"} /\ toDevice' = toDevice
        BY <3>2 DEF Boot, FinishCycle, Idle
      <4>2. toDevice = <<>>
        BY <4>1 DEF IInv, Flow, Buffers
      <4> QED BY <4>1, <4>2
    <3>3. CASE UNCHANGED <<dev, toDevice>>
      BY <3>3
    <3> QED BY <3>1, <3>2, <3>3
        DEF Device, DeviceStep, BoardFailure, TakeCommand, RepeatReady, StartTest, LeaveTest,
            EndTest, SignalSleep, SignalRestart, Crash, Leave, Hang, SilentReboot, Unplug,
            Vanish, Idle, Running, AssertionFails, SignalBusy, SignalError, Announce,
            ResetOnOpen, WakeUp, PowerDown, GoDown, deviceVars, linkVars
  <2> QED BY <1>1, <1>2, <2>1, <2>2 DEF Commanded
<1>5. Carried'
  <2>1. CASE StartTest
    BY <1>1, <2>1, WholeStarted
  <2>2. CASE TakeCommand
    BY <1>1, <1>2, <2>2, WholeTaken DEF Carried
  <2>3. CASE EndTest
    <3>1. /\ dev = "run" /\ cur \in Registered /\ pending' = pending
          /\ phase' = [phase EXCEPT ![cur] = "ended"]
      BY <2>3, RunFacts DEF EndTest, Running
    <3>2. phase'[cur] = "ended"
      BY <3>1 DEF IInv, TypeOK, DeviceTypeOK
    <3> QED BY <1>1, <1>2, <3>1, <3>2 DEF Carried
  <2>4. CASE dev' = "run" => dev = "run" /\ UNCHANGED <<pending, cur>>
    BY <1>1, <1>2, <2>4 DEF Carried
  <2> QED BY <2>1, <2>2, <2>3, <2>4
      DEF Device, DeviceStep, Boot, BoardFailure, RepeatReady, RejectLine, LeaveTest,
          SignalSleep, SignalRestart, Crash, Leave, Hang, SilentReboot, Unplug, Vanish,
          AssertionFails, SignalBusy, SignalError, Announce, ResetOnOpen, FinishCycle,
          WakeUp, PowerDown, deviceVars
<1>6. Concluded'
  <2>1. CASE FinishCycle
    <3>1. dev = "run" /\ cur = 0 /\ pending = {}
      BY <2>1 DEF FinishCycle, Idle
    <3>2. \A t \in Wanted : t # cur
      BY <1>1, <3>1 DEF Registered
    <3>3. \A t \in Wanted : Reach(cmd, t) => phase[t] = "ended"
      BY <3>1, <3>2 DEF Carried
    <3> QED BY <1>1, <1>2, <3>3 DEF Concluded
  <2>2. CASE ~FinishCycle
    <3>1. ~None(Flight', {"DONE"}) => ~None(Flight, {"DONE"})
      BY <2>2, NothingDone
    <3>2. UNCHANGED <<proto, hpc>>
      BY <1>1 DEF hostVars
    <3> QED BY <1>1, <1>2, <3>1, <3>2 DEF Concluded
  <2> QED BY <2>1, <2>2
<1> QED BY <1>3, <1>4, <1>5, <1>6

\* All of it.
LEMMA GreenInvariant ==
  ASSUME Orderly, NothingLost, Resumable
  PROVE  Spec => []((IInv /\ FailCases /\ Endings) /\ Marks /\ Kinds /\ (Complained \/ Whole))
<1>1. Init => Marks /\ Kinds /\ Whole
  <2> SUFFICES ASSUME Init PROVE Marks /\ Kinds /\ Whole
    OBVIOUS
  <2>1. /\ hpc = "open" /\ kind = "initial" /\ cmd = RunAll /\ proto = NewProtocol
        /\ Flight = <<>> /\ toDevice = <<>> /\ dev = "boot" /\ skipMark = SkipMark
        /\ \A t \in Registered : phase[t] = "idle"
    BY DEF Init, HostInit, LinkInit, DeviceInit, Flight
  <2>2. Marks
    BY <2>1, NoLines DEF Marks, OneCycle, NewProtocol
  <2>3. Kinds
    BY <2>1 DEF Kinds
  <2>4. \A t : ~Due(cmd, t)
    BY <2>1, NamedCommands DEF Due, Orderly
  <2> QED BY <2>1, <2>2, <2>3, <2>4, NoLines DEF Whole, InOrder, Commanded, Carried, Concluded
<1>2. (IInv /\ FailCases /\ Endings) /\ (IInv /\ FailCases /\ Endings)' /\ [Next]_vars
        /\ Marks /\ Kinds /\ (Complained \/ Whole)
      => Marks' /\ Kinds' /\ (Complained \/ Whole)'
  <2> SUFFICES ASSUME IInv, IInv', Endings, [Next]_vars, Marks, Kinds, Complained \/ Whole
               PROVE  Marks' /\ Kinds' /\ (Complained' \/ Whole')
    OBVIOUS
  <2>1. Marks' /\ Kinds'
    BY MarksStep, KindsStep DEF IInv
  <2>2. CASE Complained
    BY <2>1, <2>2, ComplaintStays
  <2>3. CASE Whole /\ ~Complained /\ Host
    BY <2>1, <2>3, WholeHost
  <2>4. CASE Whole /\ Device
    BY <2>1, <2>4, WholeDevice
  <2>5. CASE Whole /\ UNCHANGED vars
    <3>1. Whole'
      BY <2>5 DEF Whole, InOrder, Commanded, Carried, Concluded, Asking, Ordered, Reading,
                  Flight, vars, hostVars, deviceVars, linkVars
    <3> QED BY <2>1, <3>1
  <2> QED BY <2>2, <2>3, <2>4, <2>5 DEF Next, Terminated
<1>3. Spec => [](IInv /\ FailCases /\ Endings)
  BY ReportInvariant, PTL
<1> QED BY <1>1, <1>2, <1>3, PTL DEF Spec

\* The last command reaches every test.
LEMMA AllReached ==
  ASSUME TypeOK, Kinds, hpc \in {"final", "end"}, proto.state = "FINISHED", NEW t
  PROVE  Reach(cmd, t)
<1>1. kind \in {"initial", "resume"}
  BY DEF Kinds, TypeOK, HostTypeOK, Kind
<1>2. ASSUME NEW u \in Registered, NEW v \in Registered
      PROVE  RunWake(NameOf[u]) # RunAll /\ RunWake(NameOf[u]) # ResumeAfter(NameOf[v])
  <2>1. NameOf[u] # Empty
    BY FirmwareAssumption, EmptyAssumption
  <2>2. /\ RunAll.name = Empty
        /\ \A n, m : /\ RunWake(n).name = n /\ RunWake(n).tag = "RUN"
                     /\ ResumeAfter(m).tag = "RESUME_AFTER"
    BY DEF RunAll, RunWake, ResumeAfter
  <2>3. RunWake(NameOf[u]) # RunAll
    BY <2>1, <2>2
  <2>4. RunWake(NameOf[u]) # ResumeAfter(NameOf[v])
    BY <2>2
  <2> QED BY <2>3, <2>4
<1> QED BY <1>1, <1>2 DEF Kinds, Reach

\* A run with no error and no failure in its report is one in which every test
\* the user selected executed to its end with no failed assertion, whatever
\* sleeps, resumes, hangs and lost commands there were.
THEOREM GreenIsPassed ==
  ASSUME Orderly, NothingLost, Resumable
  PROVE  Spec => []GreenMeansPassed
<1>1. IInv /\ FailCases /\ Endings /\ Kinds /\ (Complained \/ Whole) => GreenMeansPassed
  <2> SUFFICES ASSUME IInv, FailCases, Endings, Kinds, Complained \/ Whole,
                      hpc = "end", \A c \in cases : c.status = "PASSED",
                      NEW t \in Wanted
               PROVE  Passed(t)
    BY DEF GreenMeansPassed
  <2>1. ~Complained
    BY DEF Complained
  <2>2. proto.state = "FINISHED"
    BY <2>1 DEF Endings, Afterwards
  <2>3. bad = {}
    <3>1. \A u \in bad : Reddened(u)
      BY <2>2 DEF FailCases, Afterwards
    <3> QED BY <3>1 DEF Reddened
  <2>4. Reach(cmd, t)
    BY <2>2, AllReached DEF IInv
  <2>5. phase[t] = "ended"
    BY <2>1, <2>2, <2>4 DEF Whole, Concluded
  <2> QED BY <2>3, <2>5 DEF Passed
<1> QED BY <1>1, GreenInvariant, PTL
-----------------------------------------------------------------------------
(* What a PASSED entry means.                                              *)

\* No test sends the device to sleep: the error of a sleep that never ends is
\* filed under the bare test name, and the test is PASSED under its full one.
Awake == Outcomes \cap {"sleep", "restart"} = {}

\* A board that reset under a test comes up again, and so does not announce an
\* error of its own.
NoFailedBoot == "reboot" \in Outcomes => "boardfail" \notin Outcomes

\* Only the start of a test is announced, and recorded.
Begun(n, ph) == \E u \in Registered : n = FullNameOf(u) /\ ph[u] # "idle"
Genuine(s, ph) ==
  \A i \in 1..Len(s) : s[i].tag = "CASE" => Begun(<<s[i].suite, s[i].name>>, ph)
Recorded(p, ph) == \A n \in p.completed : Begun(n, ph)

\* Only the test executing has begun and is neither over nor lost.
AtWork == \A t \in Registered : /\ phase[t] # "slept"
                                /\ phase[t] = "running" => dev = "run" /\ t = cur

\* The report names t, or the host will put the loss of t into it: a crash is on
\* its way or half read, or the device has fallen silent and the host listens.
Told(t) == \E c \in cases : c.name = FullNameOf(t)
Crashed(p, s, t) ==
  \E i \in 1..Len(s) : /\ s[i].tag = "CRASH" /\ Current(p, s, i, t)
                       /\ \A j \in 1..(i - 1) : s[j].tag \in Talk
Muted(p, s, t) == Only(s, Talk \cup {"READY"}) /\ Current(p, s, Len(s) + 1, t)
Telling(t) ==
  /\ Expecting
  /\ \/ crash = "none" /\ Crashed(proto, Flight, t)
     \/ crash = "pending" /\ Names(proto, t)
     \/ /\ crash = "none" /\ dev \in {"hung", "dead", "boot", "wait"} /\ Muted(proto, Flight, t)
        /\ dev \in {"boot", "wait"} => "reboot" \in Outcomes
LostTold == \A t \in Registered : phase[t] = "lost" => Told(t) \/ Telling(t)

\* PASSED entries are added last.
NoPassedYet == hpc # "end" => \A c \in cases : c.status # "PASSED"

Earned == Genuine(Flight, phase) /\ Recorded(proto, phase) /\ AtWork /\ LostTold /\ NoPassedYet

\* What has begun stays so.
LEMMA BegunStays ==
  ASSUME IInv, [Next]_vars, NEW n, Begun(n, phase)
  PROVE  Begun(n, phase')
<1>1. PICK u \in Registered : n = FullNameOf(u) /\ phase[u] # "idle"
  BY DEF Begun
<1>2. phase \in [Registered -> {"idle", "running", "slept", "ended", "lost"}]
  BY DEF IInv, TypeOK, DeviceTypeOK
<1>3. \/ UNCHANGED phase
      \/ \E v, x : x # "idle" /\ phase' = [phase EXCEPT ![v] = x]
  <2>1. Device => \/ UNCHANGED phase
                  \/ \E v, x : x # "idle" /\ phase' = [phase EXCEPT ![v] = x]
    <3>1. StartTest => \E v : phase' = [phase EXCEPT ![v] = "running"]
      BY DEF StartTest
    <3>2. LeaveTest => \E x \in {"ended", "slept", "lost"} : phase' = [phase EXCEPT ![cur] = x]
      BY DEF LeaveTest, EndTest, SignalSleep, SignalRestart, Crash, Leave,
             Hang, SilentReboot, Unplug, Vanish
    <3>3. Device => StartTest \/ LeaveTest \/ UNCHANGED phase
      BY DEF Device, DeviceStep, Boot, BoardFailure, RejectLine, TakeCommand, RepeatReady,
             AssertionFails, SignalBusy, SignalError, Announce, ResetOnOpen, FinishCycle,
             WakeUp, PowerDown, deviceVars
    <3> QED BY <3>1, <3>2, <3>3
  <2>2. Host \/ UNCHANGED vars => UNCHANGED phase
    BY DEF Host, vars, deviceVars
  <2> QED BY <2>1, <2>2 DEF Next, Terminated
<1>4. phase'[u] # "idle"
  BY <1>1, <1>2, <1>3
<1> QED BY <1>1, <1>4 DEF Begun

\* Fewer lines are genuine, and so is one more.
LEMMA GenuineParts ==
  ASSUME NEW a \in Seq(Line), NEW b \in Seq(Line), NEW ph
  PROVE  Genuine(a \o b, ph) <=> Genuine(a, ph) /\ Genuine(b, ph)
<1> DEFINE s == a \o b
<1>1. /\ Len(a) \in Nat /\ Len(b) \in Nat /\ Len(s) = Len(a) + Len(b)
      /\ \A i \in 1..Len(a) : s[i] = a[i]
      /\ \A i \in 1..Len(b) : s[Len(a) + i] = b[i]
  BY Appended
<1> HIDE DEF s
<1>2. \A i \in 1..Len(s) :
        i \in 1..Len(a) \/ (i - Len(a) \in 1..Len(b) /\ Len(a) + (i - Len(a)) = i)
  BY <1>1
<1>3. /\ \A i \in 1..Len(a) : i \in 1..Len(s)
      /\ \A i \in 1..Len(b) : Len(a) + i \in 1..Len(s)
  BY <1>1
<1>4. Genuine(s, ph) => Genuine(a, ph) /\ Genuine(b, ph)
  BY <1>1, <1>3 DEF Genuine
<1>5. Genuine(a, ph) /\ Genuine(b, ph) => Genuine(s, ph)
  BY <1>1, <1>2 DEF Genuine
<1> QED BY <1>4, <1>5 DEF s

\* No line is genuine, nor are there lines left to be.
LEMMA GenuineNone ==
  ASSUME NEW ph
  PROVE  Genuine(<<>>, ph) /\ \A s \in Seq(Line) : None(s, {"CASE"}) => Genuine(s, ph)
<1>1. Genuine(<<>>, ph)
  BY DEF Genuine
<1>2. \A s \in Seq(Line) : None(s, {"CASE"}) => Genuine(s, ph)
  BY DEF Genuine, None
<1> QED BY <1>1, <1>2

\* The first line handled: the rest is genuine.
LEMMA GenuineTail ==
  ASSUME NEW s \in Seq(Line), s # <<>>, NEW ph, Genuine(s, ph)
  PROVE  /\ Genuine(Tail(s), ph)
         /\ Head(s).tag = "CASE" => Begun(<<Head(s).suite, Head(s).name>>, ph)
<1>1. /\ Tail(s) \in Seq(Line) /\ Len(Tail(s)) = Len(s) - 1
      /\ \A i \in 1..Len(Tail(s)) : Tail(s)[i] = s[i + 1]
      /\ Head(s) = s[1] /\ 1 \in 1..Len(s) /\ Len(s) \in Nat
  BY HeadTailProperties, TailLines, LenProperties
<1>2. \A i \in 1..Len(Tail(s)) : i + 1 \in 1..Len(s)
  BY <1>1
<1> QED BY <1>1, <1>2 DEF Genuine

\* The host records the test of a CASE:START, and no other.
LEMMA FeedRecords ==
  ASSUME Suited, NEW p \in Protocol, NEW line \in Line, NEW ph, Recorded(p, ph),
         line.tag = "CASE" => Begun(<<line.suite, line.name>>, ph)
  PROVE  Recorded(Feed(p, line), ph)
<1>1. line.tag = "CASE" => line.suite # Empty
  BY DEF Begun, FullNameOf, Suited
<1>2. line.tag # "CASE" => Feed(p, line).completed = p.completed
  BY DEF Feed, FeedWaiting, FeedReady, FeedRunning, CommandLost, Sleep, Protocol
<1>3. line.tag = "CASE" => \/ Feed(p, line).completed = p.completed
                           \/ Feed(p, line).completed = p.completed \cup {<<line.suite, line.name>>}
  <2>1. line.tag = "CASE" => Feed(p, line) \in {p, CaseStart(p, line)}
    BY DEF Feed, FeedWaiting, FeedReady, FeedRunning, CommandLost
  <2>2. line.tag = "CASE" =>
          CaseStart(p, line).completed \in
            {p.completed, p.completed \cup {<<line.suite, line.name>>}}
    BY <1>1 DEF CaseStart, Protocol
  <2> QED BY <2>1, <2>2
<1> QED BY <1>2, <1>3 DEF Recorded

\* The host reads, handles and drops lines, and adds none.
LEMMA GenuineHost ==
  ASSUME Suited, IInv, Host, Genuine(Flight, phase), Recorded(proto, phase)
  PROVE  Genuine(Flight', phase) /\ Recorded(proto', phase)
<1>1. /\ proto \in Protocol /\ chunk \in Seq(Line) /\ toHost \in Seq(Line)
      /\ Flight \in Seq(Line)
  BY FlightType DEF IInv, TypeOK, HostTypeOK, DeviceTypeOK
<1>2. CASE HandleLine
  <2>1. /\ chunk # <<>> /\ chunk' \in {<<>>, Tail(chunk)} /\ toHost' = toHost
        /\ proto' = Feed(proto, Head(chunk))
    BY <1>2 DEF HandleLine, linkVars
  <2>2. /\ Flight # <<>> /\ Head(Flight) = Head(chunk) /\ Tail(Flight) = Tail(chunk) \o toHost
        /\ Head(chunk) \in Line /\ Tail(chunk) \in Seq(Line)
    BY <1>1, <2>1, FlightTail, HeadTailProperties DEF IInv
  <2>3. /\ Genuine(Tail(Flight), phase)
        /\ Head(chunk).tag = "CASE" => Begun(<<Head(chunk).suite, Head(chunk).name>>, phase)
    <3> HIDE DEF Flight
    <3> QED BY <1>1, <2>2, GenuineTail
  <2>4. Genuine(toHost, phase)
    <3>1. Genuine(Tail(chunk) \o toHost, phase)
      BY <2>2, <2>3
    <3> QED BY <1>1, <2>2, <3>1, GenuineParts, Zenon
  <2>5. <<>> \o toHost = toHost
    BY <1>1, ConcatEmptySeq
  <2>6. Genuine(Flight', phase)
    BY <2>1, <2>2, <2>3, <2>4, <2>5 DEF Flight
  <2> QED BY <1>1, <2>1, <2>2, <2>3, <2>6, FeedRecords
<1>3. CASE ~HandleLine
  <2>1. Flight' = Flight \/ Flight' = <<>>
    BY <1>3, HostMoves
  <2>2. proto' \in
          {proto, Reset(proto), CommandSent(proto), ResetForWake(proto), BusyExpired(proto)}
    <3>1. CASE OpenCycle \/ ResolveFails \/ OpenFails
      BY <3>1 DEF OpenCycle, ResolveFails, OpenFails, SerialException, RunnerError, PortException
    <3>2. CASE SendCommand(Powered) \/ Wake \/ BusyElapses
      BY <3>2 DEF SendCommand, Wake, BusyElapses
    <3>3. CASE SendFails \/ PortLost
      BY <3>3 DEF SendFails, PortLost, SerialException, RunnerError, PortException
    <3>4. CASE \/ ReadChunk \/ EndChunk \/ CycleDone \/ DeviceError \/ NextRead \/ CrashBreak
               \/ PostTest(Powered) \/ CloseCycle \/ ResumeSleeper \/ GiveUp \/ LoopExit
               \/ RunRemaining \/ Finalize \/ ReadyTimeout \/ HangTimeout \/ DrainTimeout
      BY <3>4 DEF ReadChunk, EndChunk, CycleDone, DeviceError, NextRead, CrashBreak, PostTest,
                  CloseCycle, ResumeSleeper, GiveUp, LoopExit, RunRemaining, Finalize,
                  ReadyTimeout, HangTimeout, DrainTimeout
    <3> QED BY <1>3, <3>1, <3>2, <3>3, <3>4 DEF Host, HostStep
  <2>3. proto'.completed = proto.completed
    BY <1>1, <2>2 DEF Reset, NewProtocol, CommandSent, ResetForWake, BusyExpired, Protocol
  <2> QED BY <2>1, <2>3, GenuineNone DEF Recorded
<1> QED BY <1>2, <1>3

\* The device announces a test when it enters it.
LEMMA GenuineDevice ==
  ASSUME IInv, Device, [Next]_vars, Genuine(Flight, phase)
  PROVE  Genuine(Flight', phase')
<1>1. /\ chunk \in Seq(Line) /\ toHost \in Seq(Line) /\ Flight \in Seq(Line)
      /\ UNCHANGED hostVars
  BY FlightType DEF IInv, TypeOK, HostTypeOK, DeviceTypeOK, Device
<1>2. Genuine(Flight, phase')
  BY BegunStays DEF Genuine
<1>3. \/ UNCHANGED toHost
      \/ toHost' = <<>>
      \/ \E tag \in {"READY", "ERROR", "FAIL", "BUSY", "SLEEP", "RESTART", "TEXT"} :
           UNCHANGED link /\ Emit(<<Msg(tag)>>)
      \/ StartTest
      \/ FinishCycle \/ Crash
  <2>1. CASE Boot \/ BoardFailure \/ RepeatReady \/ RejectLine
    BY <2>1 DEF Boot, BoardFailure, RepeatReady, RejectLine
  <2>2. CASE AssertionFails \/ SignalBusy \/ SignalError
    BY <2>2 DEF AssertionFails, SignalBusy, SignalError, Announce
  <2>3. CASE LeaveTest
    BY <2>3 DEF LeaveTest, EndTest, SignalSleep, SignalRestart, Leave, Hang,
                SilentReboot, Unplug, Vanish, GoDown, linkVars
  <2>4. CASE TakeCommand \/ ResetOnOpen \/ WakeUp \/ PowerDown
    BY <2>4 DEF TakeCommand, ResetOnOpen, WakeUp, PowerDown, GoDown, linkVars
  <2> QED BY <2>1, <2>2, <2>3, <2>4 DEF Device, DeviceStep
<1>4. CASE UNCHANGED toHost
  BY <1>1, <1>2, <1>4 DEF Flight, hostVars
<1>5. CASE toHost' = <<>>
  <2>1. Flight' = chunk
    BY <1>1, <1>5, ConcatEmptySeq DEF Flight, hostVars
  <2> QED BY <1>1, <1>2, <2>1, GenuineParts DEF Flight
<1>6. ASSUME NEW l \in Line, UNCHANGED link, Emit(<<l>>),
             l.tag = "CASE" => Begun(<<l.suite, l.name>>, phase')
      PROVE  Genuine(Flight', phase')
  <2>1. <<l>> \in Seq(Line) /\ Len(<<l>>) = 1 /\ <<l>>[1] = l
    OBVIOUS
  <2>2. Genuine(<<l>>, phase')
    BY <1>6, <2>1 DEF Genuine
  <2>3. Flight' = Flight \/ Flight' = Flight \o <<l>>
    BY <1>1, <1>6, FlightGrows DEF IInv, hostVars
  <2>4. Genuine(Flight \o <<l>>, phase')
    BY <1>1, <1>2, <2>1, <2>2, GenuineParts, Zenon
  <2> QED BY <1>2, <2>3, <2>4, Zenon
<1>7. CASE \E tag \in {"READY", "ERROR", "FAIL", "BUSY", "SLEEP", "RESTART", "TEXT"} :
             UNCHANGED link /\ Emit(<<Msg(tag)>>)
  <2>1. \A tag \in {"READY", "ERROR", "FAIL", "BUSY", "SLEEP", "RESTART", "TEXT"} :
          Msg(tag) \in Line /\ Msg(tag).tag # "CASE"
    BY DEF Msg, Line, Tag
  <2> QED BY <1>6, <1>7, <2>1
<1>8. CASE StartTest
  <2>1. PICK t \in pending : /\ phase' = [phase EXCEPT ![t] = "running"]
                             /\ UNCHANGED link /\ Emit(<<CaseLine(SuiteOf[t], NameOf[t])>>)
    BY <1>8 DEF StartTest
  <2>2. /\ t \in Registered
        /\ phase \in [Registered -> {"idle", "running", "slept", "ended", "lost"}]
    BY DEF IInv, TypeOK, DeviceTypeOK
  <2>3. /\ CaseLine(SuiteOf[t], NameOf[t]) \in Line
        /\ CaseLine(SuiteOf[t], NameOf[t]).suite = SuiteOf[t]
        /\ CaseLine(SuiteOf[t], NameOf[t]).name = NameOf[t]
    BY <2>2, FirmwareAssumption DEF CaseLine, Line, Tag
  <2>4. Begun(<<SuiteOf[t], NameOf[t]>>, phase')
    BY <2>1, <2>2 DEF Begun, FullNameOf
  <2> QED BY <1>6, <2>1, <2>3, <2>4
<1>9. CASE FinishCycle \/ Crash
  <2>1. PICK x \in {"DONE", "CRASH"}, y \in {"READY", "TRACE"} :
          UNCHANGED link /\ Emit(<<Msg(x), Msg(y)>>)
    BY <1>9 DEF FinishCycle, Crash, Leave
  <2> DEFINE a == Msg(x)
             b == Msg(y)
  <2>2. /\ a \in Line /\ b \in Line /\ a.tag # "CASE" /\ b.tag # "CASE"
        /\ UNCHANGED link /\ Emit(<<a, b>>)
    BY <2>1 DEF Msg, Line, Tag
  <2> HIDE DEF a, b
  <2>3. CASE link = "ok"
    <3>1. Flight \o <<a>> \in Seq(Line) /\ Flight' = (Flight \o <<a>>) \o <<b>>
      BY <1>1, <2>2, <2>3, FlightGrowsTwice DEF IInv, hostVars
    <3>2. \A l \in Line : l.tag # "CASE" => Genuine(<<l>>, phase') /\ <<l>> \in Seq(Line)
      <4> TAKE l \in Line
      <4>1. <<l>> \in Seq(Line) /\ Len(<<l>>) = 1 /\ <<l>>[1] = l
        OBVIOUS
      <4> QED BY <4>1 DEF Genuine
    <3>3. Genuine(Flight \o <<a>>, phase')
      BY <1>1, <1>2, <2>2, <3>2, GenuineParts, Zenon
    <3>4. Genuine((Flight \o <<a>>) \o <<b>>, phase')
      BY <2>2, <3>1, <3>2, <3>3, GenuineParts, Zenon
    <3> QED BY <3>1, <3>4, Zenon
  <2>4. CASE link # "ok"
    <3>1. toHost' = toHost
      BY <2>2, <2>4 DEF Emit
    <3> QED BY <1>4, <3>1
  <2> QED BY <2>3, <2>4
<1> QED BY <1>3, <1>4, <1>5, <1>7, <1>8, <1>9

\* A test that has begun is over or lost, or it is the one executing.
LEMMA AtWorkStep ==
  ASSUME IInv, Awake, AtWork, [Next]_vars
  PROVE  AtWork'
<1>1. /\ phase \in [Registered -> {"idle", "running", "slept", "ended", "lost"}]
      /\ pending \subseteq Registered
  BY DEF IInv, TypeOK, DeviceTypeOK
<1>2. CASE UNCHANGED <<phase, cur, dev>>
  BY <1>2 DEF AtWork
<1>3. CASE StartTest
  <2>1. PICK t \in pending : cur' = t /\ phase' = [phase EXCEPT ![t] = "running"]
    BY <1>3 DEF StartTest
  <2>2. dev = "run" /\ dev' = "run" /\ cur = 0 /\ 0 \notin Registered
    BY <1>3 DEF StartTest, Idle, Registered
  <2> QED BY <1>1, <2>1, <2>2 DEF AtWork
<1>4. CASE LeaveTest
  <2>1. \E x \in {"ended", "lost"} : phase' = [phase EXCEPT ![cur] = x]
    BY <1>4 DEF LeaveTest, EndTest, SignalSleep, SignalRestart, Crash, Leave,
                Hang, SilentReboot, Unplug, Vanish, Awake
  <2> QED BY <1>1, <2>1 DEF AtWork
<1>5. CASE Device /\ ~StartTest /\ ~LeaveTest
  <2>1. UNCHANGED <<phase, cur>>
    BY <1>5 DEF Device, DeviceStep, Boot, BoardFailure, RejectLine, TakeCommand, RepeatReady,
                AssertionFails, SignalBusy, SignalError, Announce, ResetOnOpen, FinishCycle,
                WakeUp, PowerDown, deviceVars
  <2>2. dev = "run" => dev' = "run" \/ cur = 0
    BY <1>5 DEF Device, DeviceStep, Boot, BoardFailure, RejectLine, TakeCommand, RepeatReady,
                AssertionFails, SignalBusy, SignalError, Announce, ResetOnOpen, FinishCycle,
                WakeUp, PowerDown, deviceVars, Idle
  <2>3. 0 \notin Registered
    BY DEF Registered
  <2> QED BY <2>1, <2>2, <2>3 DEF AtWork
<1>6. Host \/ UNCHANGED vars => UNCHANGED <<phase, cur, dev>>
  BY DEF Host, vars, deviceVars
<1> QED BY <1>2, <1>3, <1>4, <1>5, <1>6 DEF Next, Terminated

\* Errors and failures are all that is added before the run ends.
LEMMA NoPassedStep ==
  ASSUME NoPassedYet, [Next]_vars
  PROVE  NoPassedYet'
<1> USE DEF NoPassedYet
<1>1. CASE Host
  <2>1. CASE Finalize
    BY <2>1 DEF Finalize
  <2>2. CASE HandleLine
    BY <2>2 DEF HandleLine, Errored, Case
  <2>3. CASE SendFails \/ OpenFails \/ PortLost
    BY <2>3 DEF SendFails, OpenFails, PortLost,
                SerialException, RunnerError, PortException, Errored, Case
  <2>4. CASE CycleDone
    BY <2>4 DEF CycleDone, Reported, Case
  <2>5. CASE DeviceError \/ ReadyTimeout \/ HangTimeout \/ GiveUp \/ ResolveFails
    BY <2>5 DEF DeviceError, ReadyTimeout, HangTimeout, GiveUp, ResolveFails, RunnerError,
                Errored, Case
  <2>6. CASE UNCHANGED cases /\ hpc # "end"
    BY <2>6
  <2>7. CASE \/ OpenCycle \/ ReadChunk \/ EndChunk \/ SendCommand(Powered) \/ NextRead
             \/ CrashBreak \/ PostTest(Powered) \/ CloseCycle \/ ResumeSleeper \/ LoopExit
             \/ RunRemaining \/ Wake \/ DrainTimeout
    <3>1. UNCHANGED cases /\ hpc # "end"
      BY <2>7 DEF OpenCycle, ReadChunk, EndChunk, SendCommand, NextRead, CrashBreak, PostTest,
                  CloseCycle, ResumeSleeper, LoopExit, RunRemaining, Wake, DrainTimeout
    <3> QED BY <3>1
  <2>8. CASE BusyElapses
    BY <2>8 DEF BusyElapses
  <2> QED BY <1>1, <2>1, <2>2, <2>3, <2>4, <2>5, <2>7, <2>8 DEF Host, HostStep
<1>2. CASE Device \/ UNCHANGED vars
  BY <1>2 DEF Device, vars, hostVars
<1> QED BY <1>1, <1>2 DEF Next, Terminated
-----------------------------------------------------------------------------
(* A test that is lost.                                                    *)

\* The next line handled, what is said of the lines behind it stays.
LEMMA CrashedTail ==
  ASSUME NEW s \in Seq(Line), s # <<>>, NEW p, NEW q, NEW t \in Registered,
         Head(s).tag # "CRASH", Crashed(p, s, t),
         \A i \in 2..(Len(s) + 1) : Current(p, s, i, t) => Current(q, Tail(s), i - 1, t)
  PROVE  Head(s).tag \in Talk /\ Crashed(q, Tail(s), t)
<1>1. /\ Tail(s) \in Seq(Line) /\ Len(Tail(s)) = Len(s) - 1
      /\ \A k \in 1..Len(Tail(s)) : Tail(s)[k] = s[k + 1]
      /\ Head(s) = s[1] /\ 1 \in 1..Len(s) /\ Len(s) \in Nat
  BY HeadTailProperties, TailLines, LenProperties
<1>2. PICK i \in 1..Len(s) : /\ s[i].tag = "CRASH" /\ Current(p, s, i, t)
                             /\ \A j \in 1..(i - 1) : s[j].tag \in Talk
  BY DEF Crashed
<1>3. i # 1
  BY <1>1, <1>2
<1>4. /\ i \in 2..(Len(s) + 1) /\ i - 1 \in 1..Len(Tail(s)) /\ (i - 1) + 1 = i
      /\ 1 \in 1..(i - 1)
      /\ \A j \in 1..((i - 1) - 1) : j + 1 \in 1..(i - 1) /\ j \in 1..Len(Tail(s))
  BY <1>1, <1>3
<1>5. Tail(s)[i - 1].tag = "CRASH" /\ Current(q, Tail(s), i - 1, t)
  BY <1>1, <1>2, <1>4
<1>6. \A j \in 1..((i - 1) - 1) : Tail(s)[j].tag \in Talk
  BY <1>1, <1>2, <1>4
<1>7. Crashed(q, Tail(s), t)
  BY <1>4, <1>5, <1>6 DEF Crashed
<1> QED BY <1>1, <1>2, <1>4, <1>7

LEMMA MutedTail ==
  ASSUME NEW s \in Seq(Line), s # <<>>, NEW p, NEW q, NEW t \in Registered, Muted(p, s, t),
         \A i \in 2..(Len(s) + 1) : Current(p, s, i, t) => Current(q, Tail(s), i - 1, t)
  PROVE  Head(s).tag \in Talk \cup {"READY"} /\ Muted(q, Tail(s), t)
<1>1. /\ Head(s).tag \in Talk \cup {"READY"} /\ Only(Tail(s), Talk \cup {"READY"})
      /\ 1 \in 1..Len(s) /\ Len(s) \in Nat
  BY TailLines, LenProperties DEF Muted
<1>2. Len(Tail(s)) = Len(s) - 1
  BY HeadTailProperties
<1>3. Len(s) + 1 \in 2..(Len(s) + 1) /\ (Len(s) + 1) - 1 = Len(Tail(s)) + 1
  BY <1>1, <1>2
<1>4. Current(q, Tail(s), Len(Tail(s)) + 1, t)
  BY <1>3 DEF Muted
<1> QED BY <1>1, <1>4 DEF Muted

\* A crash, a hang or a lost port is filed under the test the protocol names.
LEMMA BlamedIsNamed ==
  ASSUME Suited, NEW t \in Registered, NEW p, Names(p, t), NEW unknown
  PROVE  Blamed(p, unknown) = FullNameOf(t)
<1>1. NameOf[t] # Empty /\ SuiteOf[t] # Empty
  BY FirmwareAssumption, EmptyAssumption DEF Suited
<1> QED BY <1>1 DEF Names, Blamed, CurrentTestFull, Unnamed, FullNameOf

\* The host stops listening to a device that says nothing more only with the
\* hang deadline.
LEMMA HostGivesUp ==
  ASSUME IInv, Endings, Host, ~HandleLine, Expecting, crash = "none", ~Expecting'
  PROVE  HangTimeout /\ Flight = <<>>
<1> USE DEF IInv, Flow, Expecting, Reading
<1>1. link # "broken" /\ proto.state = "RUNNING" /\ Flight = <<>>
  BY HostMoves DEF Endings
<1>2. ~OpenCycle /\ ~ResolveFails /\ ~OpenFails /\ ~SendCommand(Powered) /\ ~SendFails
      /\ ~CycleDone /\ ~DeviceError /\ ~CrashBreak /\ ~PortLost /\ ~ReadyTimeout
  BY <1>1 DEF OpenCycle, ResolveFails, OpenFails, SendCommand, SendFails, CycleDone,
              DeviceError, CrashBreak, PortLost, ReadyTimeout
<1>3. ~PostTest(Powered) /\ ~CloseCycle /\ ~ResumeSleeper /\ ~GiveUp /\ ~LoopExit
      /\ ~RunRemaining /\ ~Finalize /\ ~Wake /\ ~DrainTimeout
  BY DEF PostTest, CloseCycle, ResumeSleeper, GiveUp, LoopExit, RunRemaining, Finalize,
         Wake, DrainTimeout
<1>4. ~ReadChunk /\ ~EndChunk /\ ~NextRead
  BY <1>1 DEF ReadChunk, EndChunk, NextRead
<1>5. ~BusyElapses
  BY <1>1 DEF BusyElapses, BusyExpired, TypeOK, HostTypeOK, Protocol
<1> QED BY <1>1, <1>2, <1>3, <1>4, <1>5 DEF Host, HostStep

\* A case under the name of a test stays in the report.
LEMMA ToldStays ==
  ASSUME [Next]_vars, NEW t \in Registered, Told(t)
  PROVE  Told(t)'
<1>1. PICK c \in cases : c.name = FullNameOf(t)
  BY DEF Told
<1>2. c.name # Unnamed
  BY <1>1, FirmwareAssumption, EmptyAssumption DEF FullNameOf, Unnamed
<1> QED BY <1>1, <1>2, CasesKept DEF Told, FullNameOf

\* An error filed under a test.
LEMMA ToldNow ==
  ASSUME NEW t \in Registered, cases' = cases \cup {Errored(FullNameOf(t))}
  PROVE  Told(t)'
<1>1. Errored(FullNameOf(t)) \in cases' /\ Errored(FullNameOf(t)).name = FullNameOf(t)
  BY DEF Errored, Case
<1> QED BY <1>1 DEF Told, FullNameOf

\* The host goes on to what it will report, or reports it.
LEMMA TellingHost ==
  ASSUME IInv, Endings, Suited, Host, NEW t \in Registered, Telling(t)
  PROVE  Told(t)' \/ Telling(t)'
<1>1. /\ Expecting /\ crash \in {"none", "pending"} /\ Flight \in Seq(Line)
      /\ UNCHANGED deviceVars /\ proto \in Protocol /\ proto.state = "RUNNING" /\ ~finished
  BY FlightType DEF Telling, IInv, Flow, Shape, TypeOK, HostTypeOK, Host, Expecting
<1>2. CASE HandleLine
  <2>1. /\ chunk # <<>> /\ hpc \in {"lines", "drained"} /\ UNCHANGED linkVars
        /\ UNCHANGED <<hpc, kind, cmd, target>> /\ proto' = Feed(proto, Head(chunk))
        /\ crash' \in FeedCrash(crash, Head(chunk))
        /\ finished' = (crash' = "triggered")
        /\ cases' = IF finished' THEN cases \cup {Errored(Blamed(proto', "crash"))} ELSE cases
        /\ chunk' = IF finished' THEN <<>> ELSE Tail(chunk)
    BY <1>1, <1>2 DEF HandleLine
  <2>2. /\ Flight # <<>> /\ Head(Flight) = Head(chunk) /\ Tail(Flight) = Tail(chunk) \o toHost
    BY <2>1, FlightTail DEF IInv
  <2>3. /\ Head(Flight) \in Line /\ Head(Flight).ok /\ Head(Flight) = Flight[1]
    BY <1>1, <2>2, TailLines, HeadTailProperties DEF IInv, Flow, Shape
  <2>4. ASSUME crash' = "triggered", Names(proto', t) PROVE Told(t)'
    <3>1. cases' = cases \cup {Errored(FullNameOf(t))}
      BY <2>1, <2>4, BlamedIsNamed
    <3> QED BY <3>1, ToldNow
  <2>5. CASE crash = "pending"
    <3>1. Flight[1].tag = "TRACE" /\ Names(proto, t)
      BY <2>5 DEF Telling, IInv, Flow, Crashing
    <3>2. crash' = "triggered"
      BY <2>1, <2>2, <2>3, <2>5, <3>1 DEF FeedCrash
    <3>3. Names(proto', t)
      <4>1. /\ Feed(proto, Head(Flight)).name = proto.name
            /\ Feed(proto, Head(Flight)).suite = proto.suite
        <5> HIDE DEF Flight
        <5> QED BY <1>1, <2>3, <3>1, RunningEffect
      <4> QED BY <2>1, <2>2, <3>1, <4>1 DEF Names
    <3> QED BY <2>4, <3>2, <3>3
  <2>6. CASE crash = "none" /\ Head(Flight).tag = "CRASH"
    <3>1. Crashed(proto, Flight, t)
      <4>1. Head(Flight).tag \notin Talk \cup {"READY"} /\ 1 \in 1..Len(Flight)
        BY <1>1, <2>2, <2>6, TailLines DEF Talk
      <4> QED BY <2>3, <2>6, <4>1 DEF Telling, Muted, Only
    <3>2. PICK i \in 1..Len(Flight) : /\ Current(proto, Flight, i, t)
                                      /\ \A j \in 1..(i - 1) : Flight[j].tag \in Talk
      BY <3>1 DEF Crashed
    <3>3. i = 1
      <4>1. i # 1 => 1 \in 1..(i - 1)
        OBVIOUS
      <4>2. Flight[1].tag \notin Talk
        BY <2>3, <2>6 DEF Talk
      <4> QED BY <3>2, <4>1, <4>2
    <3>4. Names(proto, t)
      BY <3>2, <3>3 DEF Current
    <3>5. proto' = proto
      <4>1. Feed(proto, Head(Flight)) = proto
        <5> HIDE DEF Flight
        <5> QED BY <1>1, <2>3, <2>6, RunningEffect
      <4> QED BY <2>1, <2>2, <4>1
    <3>6. crash' \in {"pending", "triggered"}
      BY <2>1, <2>2, <2>6 DEF FeedCrash
    <3>7. Expecting'
      BY <1>1, <2>1, <3>5 DEF Expecting, Reading
    <3>8. Names(proto', t)
      BY <3>4, <3>5
    <3> QED BY <2>4, <3>6, <3>7, <3>8 DEF Telling
  <2>7. CASE crash = "none" /\ Head(Flight).tag # "CRASH"
    <3>1. crash' = "none" /\ ~finished'
      BY <2>1, <2>2, <2>7 DEF FeedCrash
    <3>2. Flight' = Tail(Flight) /\ Handled
      <4>1. Flight' = Tail(Flight)
        BY <2>1, <2>2, <3>1 DEF Flight, linkVars
      <4> QED BY <1>1, <2>1, <2>2, <2>7, <3>1, <4>1 DEF Handled
    <3>3. Head(Flight).tag \in Talk \cup {"READY"}
      <4>1. CASE Crashed(proto, Flight, t)
        <5>1. PICK i \in 1..Len(Flight) : /\ Flight[i].tag = "CRASH"
                                          /\ \A j \in 1..(i - 1) : Flight[j].tag \in Talk
          BY <4>1 DEF Crashed
        <5>2. i # 1
          BY <2>3, <2>7, <5>1
        <5>3. 1 \in 1..(i - 1)
          BY <5>2
        <5> QED BY <2>3, <5>1, <5>3
      <4>2. CASE Muted(proto, Flight, t)
        BY <1>1, <2>2, <4>2, TailLines DEF Muted
      <4> QED BY <2>7, <4>1, <4>2 DEF Telling
    <3>4. Head(Flight).tag \notin Ending
      BY <2>7, <3>3 DEF Talk, Ending, Leaving
    <3>5. /\ Expecting'
          /\ \A i \in 2..(Len(Flight) + 1) : Current(proto, Flight, i, t) =>
                                              Current(proto', Tail(Flight), i - 1, t)
      <4>1. /\ Expecting'
            /\ \A i \in 2..(Len(Flight) + 1) : Current(proto, Flight, i, t) =>
                                                Current(proto', Flight', i - 1, t)
        BY <1>1, <3>2, <3>4, StillExpecting
      <4> QED BY <3>2, <4>1
    <3>6. /\ Crashed(proto, Flight, t) => Crashed(proto', Flight', t)
          /\ Muted(proto, Flight, t) => Muted(proto', Flight', t)
      <4> HIDE DEF Flight
      <4>1. Crashed(proto, Flight, t) => Crashed(proto', Tail(Flight), t)
        BY <1>1, <2>2, <2>7, <3>5, CrashedTail
      <4>2. Muted(proto, Flight, t) => Muted(proto', Tail(Flight), t)
        BY <1>1, <2>2, <3>5, MutedTail
      <4> QED BY <3>2, <4>1, <4>2
    <3>7. dev' = dev
      BY <3>2 DEF Handled, deviceVars
    <3> QED BY <2>7, <3>1, <3>5, <3>6, <3>7 DEF Telling
  <2> QED BY <1>1, <2>5, <2>6, <2>7
<1>3. CASE ~HandleLine /\ Expecting'
  <2>1. /\ UNCHANGED <<crash, dev>> /\ Flight' = Flight
        /\ proto'.name = proto.name /\ proto'.suite = proto.suite
    BY <1>1, <1>3, HostMoves
  <2>2. \A s, i : Current(proto, s, i, t) => Current(proto', s, i, t)
    BY <2>1 DEF Current, Names
  <2>3. /\ Crashed(proto, Flight, t) => Crashed(proto', Flight', t)
        /\ Muted(proto, Flight, t) => Muted(proto', Flight', t)
        /\ Names(proto, t) => Names(proto', t)
    BY <2>1, <2>2 DEF Crashed, Muted, Names
  <2> QED BY <1>3, <2>1, <2>3 DEF Telling
<1>4. CASE ~HandleLine /\ ~Expecting'
  <2>1. crash = "none"
    <3>1. crash = "triggered" \/ Flight = <<>>
      BY <1>1, <1>4, HostMoves
    <3> QED BY <1>1, <3>1 DEF IInv, Flow, Crashing
  <2>2. HangTimeout /\ Flight = <<>>
    BY <1>1, <1>4, <2>1, HostGivesUp
  <2>3. Names(proto, t)
    <3>1. Len(Flight) = 0 /\ \A j \in 1..0 : FALSE
      BY <2>2
    <3>2. Muted(proto, Flight, t)
      BY <2>1, <3>1 DEF Telling, Crashed
    <3> QED BY <3>1, <3>2 DEF Muted, Current
  <2>4. cases' = cases \cup {Errored(FullNameOf(t))}
    BY <2>2, <2>3, BlamedIsNamed DEF HangTimeout
  <2> QED BY <2>4, ToldNow
<1> QED BY <1>2, <1>3, <1>4

\* A silent device is heard of again only with a READY.
LEMMA MutedGrows ==
  ASSUME NEW s \in Seq(Line), NEW p, NEW t \in Registered, Muted(p, s, t)
  PROVE  Msg("READY") \in Line /\ Muted(p, s \o <<Msg("READY")>>, t)
<1> DEFINE l == Msg("READY")
<1>1. l \in Line /\ l.tag = "READY" /\ l.tag \in Talk \cup {"READY"} /\ l.tag # "CASE"
  BY DEF Msg, Line, Tag
<1> HIDE DEF l
<1>2. Only(s \o <<l>>, Talk \cup {"READY"})
  BY <1>1, OneMoreKept DEF Muted
<1>3. Current(p, s \o <<l>>, Len(s \o <<l>>) + 1, t)
  BY <1>1, CurrentKept DEF Muted
<1> QED BY <1>1, <1>2, <1>3 DEF Muted, l

\* What is said behind a crash does not take it back.
LEMMA CrashedGrows ==
  ASSUME NEW s \in Seq(Line), NEW l \in Line, NEW p, NEW t \in Registered, Crashed(p, s, t)
  PROVE  Crashed(p, s \o <<l>>, t)
<1> DEFINE r == s \o <<l>>
<1>1. /\ Len(s) \in Nat /\ Len(r) = Len(s) + 1 /\ <<l>> \in Seq(Line)
      /\ \A i \in 1..Len(s) : r[i] = s[i]
  BY OneMore
<1>2. PICK i \in 1..Len(s) : /\ s[i].tag = "CRASH" /\ Current(p, s, i, t)
                             /\ \A j \in 1..(i - 1) : s[j].tag \in Talk
  BY DEF Crashed
<1>3. i \in 1..(Len(s) + 1)
  BY <1>1
<1>4. Current(p, r, i, t)
  BY <1>1, <1>2, <1>3, AppendedKnown
<1> HIDE DEF r
<1>5. i \in 1..Len(r) /\ \A j \in 1..(i - 1) : r[j] = s[j]
  BY <1>1
<1>6. Crashed(p, r, t)
  BY <1>1, <1>2, <1>4, <1>5 DEF Crashed
<1> QED BY <1>6 DEF r

\* The device does not take back what it has said, nor does it get another
\* command.
LEMMA TellingDevice ==
  ASSUME IInv, Endings, OneCycle, Orderly, NothingLost, NoFailedBoot, Device,
         NEW t \in Registered, phase[t] = "lost", Telling(t)
  PROVE  Telling(t)'
<1>1. /\ UNCHANGED hostVars /\ DeviceStep /\ Expecting /\ Flight \in Seq(Line)
      /\ ~Asking
  BY FlightType DEF Telling, IInv, Flow, Device, Expecting, Asking, Reading
<1>2. Expecting' /\ crash' = crash /\ proto' = proto
  BY <1>1 DEF hostVars, Expecting, Reading
<1>3. CASE crash = "pending"
  <2>1. Names(proto, t)
    BY <1>3 DEF Telling
  <2> QED BY <1>2, <1>3, <2>1 DEF Telling
<1>4. CASE crash = "none" /\ Crashed(proto, Flight, t)
  <2>1. ~None(Flight, {"CRASH"}) /\ Flight # <<>>
    BY <1>4 DEF Crashed, None
  <2>2. link = "ok" /\ ~Engaged /\ (UsbCdc => dev = "rebooting")
    BY <2>1 DEF IInv, Flow, Crashing
  <2>3. toDevice # <<>> /\ dev = "wait" => toDevice = <<OnDone>>
    BY <2>1 DEF IInv, Flow, Buffers
  <2>4. ~(UsbCdc /\ PowerDown /\ Settled)
    <3>1. Settled /\ UsbCdc => Flight = <<>>
      BY <2>2 DEF Settled, Flight
    <3> QED BY <2>1, <3>1
  <2>5. ~TakeCommand
    <3>1. <<OnDone>> # <<>> /\ Head(<<OnDone>>) = OnDone
      OBVIOUS
    <3> QED BY <2>3, <3>1 DEF TakeCommand, OnDone
  <2>6. \/ Boot \/ BoardFailure \/ RepeatReady \/ RejectLine
        \/ WakeUp
        \/ ~UsbCdc /\ (ResetOnOpen \/ PowerDown)
    BY <1>1, <2>2, <2>4, <2>5
       DEF DeviceStep, StartTest, LeaveTest, EndTest, SignalSleep, SignalRestart, Crash, Leave,
           Hang, SilentReboot, Unplug, Vanish, AssertionFails, SignalBusy, SignalError,
           Announce, FinishCycle, Idle, Running, Engaged, ResetOnOpen
  <2>7. \/ toHost' = toHost
        \/ UNCHANGED link /\ \E tag \in {"READY", "ERROR"} : Emit(<<Msg(tag)>>)
    BY <2>6 DEF Boot, BoardFailure, RepeatReady, RejectLine, ResetOnOpen, PowerDown, WakeUp,
                GoDown, linkVars
  <2>8. CASE toHost' = toHost
    <3>1. Flight' = Flight
      BY <1>1, <2>8 DEF Flight, hostVars
    <3> QED BY <1>2, <1>4, <3>1 DEF Telling
  <2>9. CASE UNCHANGED link /\ \E tag \in {"READY", "ERROR"} : Emit(<<Msg(tag)>>)
    <3>1. PICK l \in Line : Emit(<<l>>)
      BY <2>9 DEF Msg, Line, Tag
    <3>2. Flight' = Flight \o <<l>>
      BY <1>1, <2>2, <2>9, <3>1, FlightGrows DEF IInv, hostVars
    <3>3. Crashed(proto, Flight', t)
      BY <1>1, <1>4, <3>2, CrashedGrows
    <3> QED BY <1>2, <1>4, <3>3 DEF Telling
  <2> QED BY <2>7, <2>8, <2>9
<1>5. CASE /\ crash = "none" /\ dev \in {"hung", "dead", "boot", "wait"}
           /\ Muted(proto, Flight, t) /\ (dev \in {"boot", "wait"} => "reboot" \in Outcomes)
  <2>1. link = "ok"
    BY <1>1, <1>5 DEF IInv, Flow, Shape, Endings, Expecting, Reading, TypeOK, DeviceTypeOK
  <2>2. dev \in {"boot", "wait"} /\ "reboot" \in Outcomes
    <3>1. dev \notin {"hung", "dead"}
      BY <1>1 DEF DeviceStep, Boot, BoardFailure, RejectLine, TakeCommand, StartTest,
                  RepeatReady, LeaveTest, EndTest, SignalSleep, SignalRestart, Crash, Leave,
                  Hang, SilentReboot, Unplug, Vanish, AssertionFails, SignalBusy, SignalError,
                  Announce, ResetOnOpen, FinishCycle, WakeUp, Idle, Running, PowerDown
    <3> QED BY <1>5, <3>1
  <2>3. dev = "wait" => toDevice = <<>>
    <3> SUFFICES ASSUME dev = "wait", toDevice # <<>> PROVE FALSE
      OBVIOUS
    <3>1. Fresh(phase, cmd)
      BY <1>1 DEF IInv, Flow, Buffers, Expecting, Reading
    <3>2. \A u \in Registered : NameOf[u] # Empty
      BY FirmwareAssumption, EmptyAssumption
    <3>3. \A u \in Registered : cmd # RunWake(NameOf[u]) /\ cmd # ResumeAfter(NameOf[u])
      BY <3>2 DEF OneCycle, RunAll, RunWake, ResumeAfter
    <3> QED BY <3>1, <3>3 DEF Fresh
  <2>4. (Boot \/ RepeatReady) /\ dev' = "wait" /\ UNCHANGED link /\ Emit(<<Msg("READY")>>)
    <3>1. "boardfail" \notin Outcomes /\ "reset" \notin Outcomes
      BY <2>2 DEF NoFailedBoot, NothingLost, Orderly, ResetsNoticed
    <3>2. Boot \/ RepeatReady
      BY <1>1, <2>2, <2>3, <3>1
         DEF DeviceStep, BoardFailure, RejectLine, TakeCommand, StartTest, LeaveTest, EndTest,
             SignalSleep, SignalRestart, Crash, Leave, Hang, SilentReboot, Unplug, Vanish,
             AssertionFails, SignalBusy, SignalError, Announce, ResetOnOpen, FinishCycle,
             WakeUp, Idle, Running, PowerDown
    <3> QED BY <3>2 DEF Boot, RepeatReady, deviceVars
  <2>5. Muted(proto, Flight', t)
    <3>1. Msg("READY") \in Line
      BY DEF Msg, Line, Tag
    <3>2. Flight' = Flight \o <<Msg("READY")>>
      BY <1>1, <2>1, <2>4, <3>1, FlightGrows DEF IInv, hostVars
    <3>3. Muted(proto, Flight \o <<Msg("READY")>>, t)
      <4> HIDE DEF Flight
      <4> QED BY <1>1, <1>5, MutedGrows
    <3> QED BY <3>2, <3>3
  <2> QED BY <1>2, <1>5, <2>2, <2>4, <2>5 DEF Telling
<1> QED BY <1>3, <1>4, <1>5 DEF Telling

\* The test the device is lost with is the one the host knows.
LEMMA LossBegins ==
  ASSUME IInv, NothingLost, Device, NEW t \in Registered,
         phase[t] # "lost", phase'[t] = "lost"
  PROVE  Telling(t)'
<1>1. /\ UNCHANGED hostVars /\ DeviceStep
      /\ phase \in [Registered -> {"idle", "running", "slept", "ended", "lost"}]
      /\ pending \subseteq Registered
  BY DEF Device, IInv, TypeOK, DeviceTypeOK
<1>2. Crash \/ Hang \/ SilentReboot \/ Unplug
  <2>1. ~StartTest
    BY <1>1 DEF StartTest
  <2>2. ~(EndTest \/ SignalSleep \/ SignalRestart)
    BY <1>1 DEF EndTest, SignalSleep, SignalRestart, Leave
  <2>3. LeaveTest
    BY <1>1, <2>1 DEF DeviceStep, Boot, BoardFailure, RejectLine, TakeCommand, RepeatReady,
                AssertionFails, SignalBusy, SignalError, Announce, ResetOnOpen, FinishCycle,
                WakeUp, PowerDown, deviceVars
  <2> QED BY <2>2, <2>3 DEF LeaveTest
<1>3. dev = "run" /\ cur # 0 /\ cur = t
  BY <1>1, <1>2 DEF Crash, Leave, Hang, SilentReboot, Unplug, Vanish, Running
<1>4. /\ Expecting /\ link = "ok" /\ crash = "none" /\ Flight \in Seq(Line) /\ Only(Flight, Talk)
      /\ Current(proto, Flight, Len(Flight) + 1, t)
  BY <1>3, FlightType DEF IInv, Flow, Executing
<1>5. Expecting' /\ crash' = "none" /\ proto' = proto
  BY <1>1, <1>4 DEF hostVars, Expecting, Reading
<1>6. CASE Crash
  <2> DEFINE a == Msg("CRASH")
             b == Msg("TRACE")
             s == Flight \o <<a>>
  <2>1. /\ a \in Line /\ a.tag = "CRASH" /\ b \in Line
        /\ UNCHANGED link /\ Emit(<<a, b>>)
    BY <1>6 DEF Msg, Line, Tag, Crash, Leave
  <2> HIDE DEF a, b
  <2>2. s \in Seq(Line) /\ Flight' = s \o <<b>>
    BY <1>1, <1>4, <2>1, FlightGrowsTwice DEF IInv, hostVars
  <2>3. Crashed(proto, s, t)
    <3> HIDE DEF Flight
    <3>1. <<a>> \in Seq(Line)
      BY <2>1
    <3>2. /\ Len(Flight) \in Nat /\ Len(s) = Len(Flight) + 1 /\ s[Len(Flight) + 1] = a
          /\ \A i \in 1..Len(Flight) : s[i] = Flight[i]
      BY <1>4, <2>1, OneMore
    <3>3. Len(Flight) + 1 \in 1..(Len(Flight) + 1) /\ (Len(Flight) + 1) - 1 = Len(Flight)
      BY <3>2
    <3>4. Current(proto, s, Len(Flight) + 1, t)
      BY <1>4, <3>1, <3>3, AppendedKnown
    <3> HIDE DEF s
    <3>5. \A i \in 1..((Len(Flight) + 1) - 1) : s[i].tag \in Talk
      BY <1>4, <3>2, <3>3 DEF Only
    <3> QED BY <2>1, <3>2, <3>3, <3>4, <3>5 DEF Crashed
  <2>4. Crashed(proto, Flight', t)
    <3> HIDE DEF s
    <3> QED BY <2>1, <2>2, <2>3, CrashedGrows
  <2> QED BY <1>5, <2>4 DEF Telling
<1>7. CASE Hang \/ SilentReboot \/ Unplug
  <2>1. UNCHANGED toHost
    BY <1>7 DEF Hang, SilentReboot, Unplug, Vanish, GoDown, linkVars, NothingLost
  <2>2. Flight' = Flight
    BY <1>1, <2>1 DEF Flight, hostVars
  <2>3. Muted(proto, Flight', t)
    BY <1>4, <2>2 DEF Muted, Only
  <2>4. dev' \in {"hung", "boot", "dead"} /\ (dev' = "boot" => "reboot" \in Outcomes)
    BY <1>7 DEF Hang, SilentReboot, Unplug, Vanish
  <2> QED BY <1>5, <2>3, <2>4 DEF Telling
<1> QED BY <1>2, <1>6, <1>7

\* A lost test is told of, from the moment it is lost.
LEMMA LostToldStep ==
  ASSUME IInv, Endings, OneCycle, Orderly, NothingLost, Suited, NoFailedBoot, LostTold,
         [Next]_vars
  PROVE  LostTold'
<1> SUFFICES ASSUME NEW t \in Registered, phase'[t] = "lost" PROVE Told(t)' \/ Telling(t)'
  BY DEF LostTold
<1>1. CASE Host
  <2>1. phase[t] = "lost"
    BY <1>1 DEF Host, deviceVars
  <2> QED BY <1>1, <2>1, ToldStays, TellingHost DEF LostTold
<1>2. CASE Device
  <2>1. CASE phase[t] = "lost"
    BY <1>2, <2>1, ToldStays, TellingDevice DEF LostTold
  <2>2. CASE phase[t] # "lost"
    BY <1>2, <2>2, LossBegins
  <2> QED BY <2>1, <2>2
<1>3. CASE UNCHANGED vars
  <2>1. phase[t] = "lost" /\ UNCHANGED <<cases, dev, hpc, proto, crash, chunk, toHost>>
    BY <1>3 DEF vars, deviceVars, hostVars, linkVars
  <2>2. Flight' = Flight
    BY <2>1 DEF Flight
  <2>3. Told(t) => Told(t)'
    BY <2>1 DEF Told, FullNameOf
  <2>4. Telling(t) => Telling(t)'
    BY <2>1, <2>2 DEF Telling, Expecting, Reading
  <2> QED BY <2>1, <2>3, <2>4 DEF LostTold
<1> QED BY <1>1, <1>2, <1>3 DEF Next, Terminated

\* All of it, from step to step.
LEMMA EarnedStep ==
  ASSUME IInv, Endings, OneCycle, Earned, Orderly, NothingLost, Suited, Awake, NoFailedBoot,
         [Next]_vars
  PROVE  OneCycle' /\ Earned'
<1>1. OneCycle'
  <2>1. CASE UNCHANGED vars
    BY <2>1 DEF OneCycle, Flight, vars, hostVars, linkVars
  <2> QED BY <2>1, OneCycleHost, OneCycleDevice DEF Next, Terminated, IInv, Awake
<1>2. Genuine(Flight, phase)' /\ Recorded(proto, phase)'
  <2>1. CASE Host
    <3>1. phase' = phase
      BY <2>1 DEF Host, deviceVars
    <3> QED BY <2>1, <3>1, GenuineHost DEF Earned
  <2>2. CASE Device
    <3>1. proto' = proto
      BY <2>2 DEF Device, hostVars
    <3>2. Recorded(proto, phase')
      BY BegunStays DEF Earned, Recorded
    <3> QED BY <2>2, <3>1, <3>2, GenuineDevice DEF Earned
  <2>3. CASE UNCHANGED vars
    <3>1. UNCHANGED <<phase, proto, chunk, toHost>>
      BY <2>3 DEF vars, deviceVars, hostVars, linkVars
    <3>2. Flight' = Flight
      BY <3>1 DEF Flight
    <3> QED BY <3>1, <3>2 DEF Earned
  <2> QED BY <2>1, <2>2, <2>3 DEF Next, Terminated
<1>3. AtWork' /\ LostTold' /\ NoPassedYet'
  BY AtWorkStep, LostToldStep, NoPassedStep DEF Earned
<1> QED BY <1>1, <1>2, <1>3 DEF Earned

\* The report is written over a device that executes nothing.
LEMMA PassedAtTheEnd ==
  ASSUME IInv, FailLines, FailCases, Endings, Earned, UniqueNames, Suited, Finalize,
         UNCHANGED deviceVars
  PROVE  NoFalsePass'
<1> SUFFICES ASSUME NEW t \in Registered, Case(FullNameOf(t), "PASSED") \in cases'
             PROVE  Passed(t)
  BY DEF NoFalsePass, FullNameOf, Passed, deviceVars
<1>1. hpc = "final" /\ cases' = EnsureResults
  BY DEF Finalize
<1>2. ~Expecting
  BY <1>1 DEF Expecting, Reading
<1>3. /\ FullNameOf(t) \in proto.completed
      /\ FullNameOf(t) \notin failures
      /\ \A c \in cases : c.name # FullNameOf(t)
  <2>1. Case(FullNameOf(t), "PASSED") \notin cases
    BY <1>1 DEF Earned, NoPassedYet, Case
  <2>2. PICK n \in proto.completed \ (failures \cup {c.name : c \in cases}) :
          Case(FullNameOf(t), "PASSED") = Case(n, "PASSED")
    BY <1>1, <2>1 DEF EnsureResults
  <2>3. n = FullNameOf(t)
    BY <2>2 DEF Case
  <2> QED BY <2>2, <2>3
<1>4. phase[t] # "idle"
  <2>1. PICK u \in Registered : FullNameOf(t) = FullNameOf(u) /\ phase[u] # "idle"
    BY <1>3 DEF Earned, Recorded, Begun
  <2>2. NameOf[t] = NameOf[u]
    BY <2>1 DEF FullNameOf
  <2> QED BY <2>1, <2>2 DEF UniqueNames
<1>5. phase[t] \notin {"running", "slept"}
  <2>1. dev # "run"
    BY <1>2 DEF IInv, Flow, Executing
  <2> QED BY <2>1 DEF Earned, AtWork
<1>6. phase[t] # "lost"
  BY <1>2, <1>3 DEF Earned, LostTold, Told, Telling
<1>7. t \notin bad
  <2>1. ~Noted(t)
    BY <1>3 DEF Noted, Suited
  <2>2. ~OnItsWay(t)
    BY <1>2 DEF FailLines, None, OnItsWay
  <2> QED BY <2>1, <2>2 DEF FailLines
<1>8. phase[t] \in {"idle", "running", "slept", "ended", "lost"}
  BY DEF IInv, TypeOK, DeviceTypeOK
<1> QED BY <1>4, <1>5, <1>6, <1>7, <1>8 DEF Passed

\* A test that the report calls PASSED has ended, with no failed assertion,
\* whatever the report says of the others.
THEOREM PassedIsPassed ==
  ASSUME Orderly, NothingLost, Suited, Awake, NoFailedBoot
  PROVE  Spec => []NoFalsePass
<1>1. Init => OneCycle /\ Earned /\ NoFalsePass
  <2> SUFFICES ASSUME Init PROVE OneCycle /\ Earned /\ NoFalsePass
    OBVIOUS
  <2>1. /\ Flight = <<>> /\ cases = {} /\ hpc = "open" /\ proto.completed = {}
        /\ phase = [t \in Registered |-> "idle"]
    BY DEF Init, HostInit, LinkInit, DeviceInit, Flight, NewProtocol
  <2>2. OneCycle
    BY NoLines DEF Init, HostInit, LinkInit, OneCycle, Flight, NewProtocol
  <2>3. Earned
    BY <2>1, GenuineNone DEF Earned, Recorded, AtWork, LostTold, NoPassedYet
  <2> QED BY <2>1, <2>2, <2>3 DEF NoFalsePass
<1>2. IInv /\ FailLines /\ FailCases /\ Endings /\ OneCycle /\ Earned /\ NoFalsePass
        /\ [Next]_vars => OneCycle' /\ Earned' /\ NoFalsePass'
  <2> SUFFICES ASSUME IInv, FailLines, FailCases, Endings, OneCycle, Earned, NoFalsePass,
                      [Next]_vars
               PROVE  OneCycle' /\ Earned' /\ NoFalsePass'
    OBVIOUS
  <2>1. CASE hpc # "end" /\ Finalize /\ UNCHANGED deviceVars
    BY <2>1, EarnedStep, PassedAtTheEnd DEF Orderly
  <2>2. CASE hpc = "end"
    <3>1. UNCHANGED vars
      BY <2>2 DEF Next, Terminated
    <3> QED BY <3>1, EarnedStep
            DEF NoFalsePass, Passed, vars, hostVars, deviceVars
  <2>3. CASE hpc # "end" /\ hpc' # "end"
    BY <2>3, EarnedStep DEF NoFalsePass
  <2>4. hpc # "end" /\ hpc' = "end" => Finalize /\ UNCHANGED deviceVars
    <3>1. Device => hpc' = hpc
      BY DEF Device, hostVars
    <3>2. Host /\ hpc # "end" /\ hpc' = "end" => Finalize
      BY DEF Host, HostStep, OpenCycle, ReadChunk, HandleLine, EndChunk, SendCommand, SendFails,
             CycleDone, DeviceError, NextRead, CrashBreak, PortLost, PostTest, CloseCycle,
             ResumeSleeper, GiveUp, LoopExit, RunRemaining, ResolveFails, OpenFails, Wake,
             ReadyTimeout, HangTimeout, DrainTimeout, BusyElapses,
             SerialException, RunnerError, PortException
    <3>3. UNCHANGED vars => hpc' = hpc
      BY DEF vars, hostVars
    <3> QED BY <3>1, <3>2, <3>3 DEF Next, Terminated, Host
  <2> QED BY <2>1, <2>2, <2>3, <2>4
<1> QED BY <1>1, <1>2, ReportInvariant, PTL DEF Spec
=============================================================================
