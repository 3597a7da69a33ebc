--------------------------- MODULE CommandSession ---------------------------
(***************************************************************************)
(* What a device executes over a session of commands, each built from the  *)
(* options and variables of one `pio test`: run_tests and idle_loop of     *)
(* include/etst/doctest/runner.h, one run_cycle per command, without the   *)
(* serial line.  The cycles of one boot share the registry whose m_skip    *)
(* marks extract_etst_flags and apply_env_requirements change; a reboot    *)
(* restores the declared marks.                                            *)
(***************************************************************************)
EXTENDS TestSelection, Arguments

CONSTANTS NTests,    \* registered tests, in execution order
          NameOf,    \* test -> name
          SkipMark,  \* tests declared with doctest::skip()
          NeedsEnv,  \* tests with require_env(Required)
          Required,  \* the key of that variable
          Falsy,     \* the words KEY=VALUE that env_is takes for unset
          Matches,   \* pattern -> the tests whose name it matches
          Words,     \* the flags and the words of values
          Requests   \* the options and variables a run may be given

Registered == 1..NTests

ASSUME SessionAssumption ==
  /\ NTests \in Nat /\ DOMAIN NameOf = Registered
  /\ SkipMark \subseteq Registered /\ NeedsEnv \subseteq Registered
  /\ \A p \in DOMAIN Matches : Matches[p] \subseteq Registered
  /\ \A q \in Requests : Required \in DOMAIN q.hostEnv

ASSUME RequestsAssumption ==
  /\ Flags \subseteq Words
  /\ \A q \in Requests : Expressible(q.options, q.whole, q.vars, q.hostEnv, Words)

VARIABLES skip,   \* the tests whose m_skip is set
          cycle   \* history: the current cycle, what it was asked, and what it ran

sessionVars == <<skip, cycle>>

MatchesOf(patterns) == UNION {Matches[p] : p \in patterns \cap DOMAIN Matches}

\* extract_etst_flags: modify_skip on the matching tests, flag by flag.
Flagged(marks, s) ==
  FoldLeft(LAMBDA m, f : IF f[1] = "--skip-tc" THEN m \cup MatchesOf({f[2]})
                         ELSE m \ MatchesOf({f[2]}), marks, s.flags)

\* apply_env_requirements: modify_skip by name on the tests not satisfied.
Unmet(s) ==
  IF s.env[Required] # <<>> /\ Head(s.env[Required]) \notin Falsy THEN {}
  ELSE {t \in Registered : \E u \in NeedsEnv : NameOf[u] = NameOf[t]}

MarksFor(marks, s) == Flagged(marks, s) \cup Unmet(s)

\* The tests doctest passes over: --no-skip disregards the marks.
Barred(marks, s) ==
  (IF s.noskip THEN {} ELSE marks) \cup MatchesOf(s.tce)
    \cup (IF s.tc = {} THEN {} ELSE Registered \ MatchesOf(s.tc))

RegistryFor(marks, s) ==
  [name |-> NameOf, skip |-> Barred(marks, s), match |-> Registered]

NoCycle == [tag |-> "none", name |-> NoName, asked |-> {}, got |-> {}, barred |-> {},
            ran |-> {}, counted |-> 0]

Init == skip = SkipMark /\ cycle = NoCycle

Cycle ==
  /\ cycle.tag = "none"
  /\ \E q \in Requests :
       LET o == [args |-> ProgramArgs(q.options, q.whole), vars |-> q.vars,
                 hostEnv |-> q.hostEnv, resume |-> q.resume]
           s == InForce(o)
           c == [tag  |-> BuildArgsAndRun(o).tag,
                 name |-> IF q.resume = <<>> THEN NoName ELSE Head(q.resume)]
           r == RegistryFor(MarksFor(skip, s), s)
           counted == CountedRun(RegistryFor(MarksFor(skip, s), Delivered(o)), c)
       IN  /\ skip' = MarksFor(skip, s)
           /\ cycle' = [tag |-> c.tag, name |-> c.name,
                        asked |-> Asked(q.options, q.vars, q.hostEnv), got |-> s,
                        barred |-> r.skip, ran |-> Selected(r, c), counted |-> counted]

\* DONE has been signalled, and idle_loop waits for the next command.
Idle == cycle.tag # "none" /\ cycle' = NoCycle /\ UNCHANGED skip

Reboot == skip' = SkipMark /\ cycle' = NoCycle

Next == Cycle \/ Idle \/ Reboot

Spec == Init /\ [][Next]_sessionVars
-----------------------------------------------------------------------------
\* RESUME_AFTER runs exactly the registered tests behind the named one that
\* are not passed over - as long as the first test of that name and those
\* before it would themselves run, since doctest's "first" counts only those.
ResumeRunsTheRest ==
  cycle.tag = "RESUME_AFTER" =>
    LET at == ResumeIndex([name |-> NameOf], cycle)
    IN  cycle.barred \cap 1..at = {} =>
          cycle.ran = {t \in Registered \ cycle.barred : t > at}

\* ETST:COUNTS is accurate (CHANGELOG.md:85): it announces the number of tests
\* the cycle goes on to execute.  False of the code (README, known deviations).
CountsExact == cycle.tag # "none" => cycle.counted = Cardinality(cycle.ran)

\* What ETST:COUNTS announces when no filter is given two values: the tests the
\* cycle executes, and the passing ones, resumed over, where it executes none
\* (run_cycle subtracts only what leaves something).
CountsTold ==
  cycle.tag # "none" /\ Once(cycle.asked) =>
    cycle.counted = IF cycle.ran = {} THEN Cardinality(Registered \ cycle.barred)
                    ELSE Cardinality(cycle.ran)

\* doctest runs by the filters, skip flags and environment the user asked for,
\* through the command line, the variables, quoting and tokenizing, if no filter
\* is given two values; what of it a RESUME_AFTER carries is all but the
\* environment.
OptionsArrive ==
  cycle.tag # "none" /\ Once(cycle.asked) =>
    /\ cycle.tag = "RUN" => cycle.got = cycle.asked
    /\ cycle.tag = "RESUME_AFTER" => [cycle.got EXCEPT !.env = cycle.asked.env] = cycle.asked

\* The variables are forwarded on every cycle (README.md:250), a RESUME_AFTER
\* included.  False of the code (README, known deviations).
EnvForwarded == cycle.tag # "none" => cycle.got.env = cycle.asked.env
=============================================================================
