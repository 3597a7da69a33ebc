----------------------------- MODULE Arguments -----------------------------
(***************************************************************************)
(* How options travel: from `pio test -a` and the ETST_* variables through *)
(* _build_args_and_run and _collect_env_vars (src/etst/runner.py) into     *)
(* ETST:ARGS lines and a command, and on the device through run_cycle,     *)
(* tokenize_args, extract_etst_flags and apply_run_filters                 *)
(* (include/etst/doctest/runner.h) into the settings of a cycle.           *)
(*                                                                         *)
(* A program argument and a value are sequences of words, more than one    *)
(* when they contain blanks; a text is a sequence of pieces, each quoted   *)
(* or not.  KEY=VALUE is one word.  The suite flags, which only match      *)
(* another field, are left out, and so is the splitting at commas.         *)
(***************************************************************************)
EXTENDS Naturals, SequencesExt

CONSTANT KeyOf   \* word KEY=VALUE -> its key

SkipFlags  == {"--skip-tc", "--unskip-tc"}
ValueFlags == {"--tc", "--tce"} \cup SkipFlags
Flags      == ValueFlags \cup {"--no-skip", "--env"}

\* startsWith("--")
Flag(arg) == Head(arg) \in Flags

\* arg i of args is a flag whose value is the next one.
HasValue(args, i) ==
  i \in 1..(Len(args) - 1) /\ Flag(args[i]) /\ ~Flag(args[i + 1])
IsEnv(args, i) == i \in 1..(Len(args) - 1) /\ args[i] = <<"--env">>

\* The list of f(1), f(2), ... without those that are empty.
Pieces(n, f(_)) == FlattenSeq([i \in 1..n |-> f(i)])
-----------------------------------------------------------------------------
(* The host.                                                               *)

Bare(words)   == [words |-> words, quoted |-> FALSE]

\* Mutant: a value with a blank is not quoted.
FormattedBare(value) == Bare(value)

Formatted(value) == [words |-> value, quoted |-> Len(value) > 1]

\* The variables, in the order of env_map.
EnvMap == <<"--tc", "--tce", "--unskip-tc", "--skip-tc", "--no-skip">>

VarParts(vars) ==
  LET part(i) == CASE vars[EnvMap[i]] = <<>>    -> <<>>
                   [] vars[EnvMap[i]] # <<>> /\ EnvMap[i] = "--no-skip" -> <<Bare(<<EnvMap[i]>>)>>
                   [] OTHER -> <<Bare(<<EnvMap[i]>>), Formatted(vars[EnvMap[i]])>>
  IN  Pieces(Len(EnvMap), part)

\* The program arguments but for the --env pairs.
FilterParts(args) ==
  LET part(i) == CASE IsEnv(args, i) \/ IsEnv(args, i - 1) -> <<>>
                   [] ~IsEnv(args, i - 1) /\ HasValue(args, i - 1) -> <<Formatted(args[i])>>
                   [] OTHER -> <<Bare(args[i])>>
  IN  Pieces(Len(args), part)

\* key -> the argument that sets it, or <<>>: ETST_ENV_* and the --env pairs,
\* which override them.
CollectEnvVars(args, hostEnv) ==
  LET at(k) == {i \in DOMAIN args : IsEnv(args, i) /\ KeyOf[Head(args[i + 1])] = k}
  IN  [k \in DOMAIN hostEnv |->
         IF at(k) = {} THEN hostEnv[k] ELSE args[Max(at(k)) + 1]]

\* o: args, the program arguments; vars and hostEnv, the ETST_* variables;
\* resume, <<name>> with ETST_RESUME_AFTER and otherwise <<>>.
BuildArgsAndRun(o) ==
  LET env   == CollectEnvVars(o.args, o.hostEnv)
      keys  == SetToSeq({k \in DOMAIN env : env[k] # <<>>})
      parts == FilterParts(o.args) \o VarParts(o.vars)
      lines == [i \in DOMAIN keys |-> <<Bare(<<"--env">>), Bare(env[keys[i]])>>]
               \o (IF parts = <<>> THEN <<>> ELSE <<parts>>)
  IN  [lines |-> lines,
       tag   |-> IF o.resume # <<>> THEN "RESUME_AFTER" ELSE "RUN",
       text  |-> IF o.resume # <<>> THEN parts ELSE <<>>]
-----------------------------------------------------------------------------
(* The device.                                                             *)

\* run_cycle: the ARGS join RUN and RUN_ALL; RESUME_AFTER keeps its own text.
Body(c) == IF c.tag = "RUN" THEN FlattenSeq(c.lines) ELSE c.text

TokenizeArgs(text) ==
  LET tokens(i) == IF text[i].quoted THEN <<text[i].words>>
                   ELSE [j \in DOMAIN text[i].words |-> <<text[i].words[j]>>]
  IN  Pieces(Len(text), tokens)

\* extract_etst_flags: a flag takes whatever token follows it.
TakesNext(args, i) ==
  i \in 1..(Len(args) - 1) /\ args[i] \in {<<f>> : f \in SkipFlags \cup {"--env"}}

\* --env without KEY= drops all arguments; what came before it stays applied.
Malformed(args) ==
  {i \in DOMAIN args : IsEnv(args, i) /\ Head(args[i + 1]) \notin DOMAIN KeyOf}
Applied(args) ==
  IF Malformed(args) = {} THEN args ELSE SubSeq(args, 1, Min(Malformed(args)) - 1)

\* What is left for doctest.
Rest(args) ==
  LET left(i) == IF TakesNext(args, i) \/ TakesNext(args, i - 1) THEN <<>> ELSE <<args[i]>>
  IN  IF Malformed(args) = {} THEN Pieces(Len(args), left) ELSE <<>>

\* build_doctest_argv and the capture of the patterns of flag for the count.
Patterns(args, flag) ==
  {args[i + 1] : i \in {j \in DOMAIN args : HasValue(args, j) /\ args[j] = <<flag>>}}

\* doctest's applyCommandLine: the last value of a flag (README.md:135).
LastPattern(args, flag) ==
  LET at == {i \in DOMAIN args : HasValue(args, i) /\ args[i] = <<flag>>}
  IN  IF at = {} THEN {} ELSE {args[Max(at) + 1]}

NoSettings(keys) ==
  [tc |-> {}, tce |-> {}, flags |-> <<>>, noskip |-> FALSE, env |-> [k \in keys |-> <<>>]]

ApplyRunFilters(text, keys) ==
  LET args    == TokenizeArgs(text)
      done    == Applied(args)
      rest    == Rest(args)
      flag(i) == IF TakesNext(done, i) /\ Head(done[i]) \in SkipFlags
                 THEN <<<<Head(done[i]), done[i + 1]>>>> ELSE <<>>
      sets(k) == {i \in DOMAIN done : IsEnv(done, i) /\ KeyOf[Head(done[i + 1])] = k}
  IN  IF Len(args) = 1 /\ ~Flag(args[1])
      THEN [NoSettings(keys) EXCEPT !.tc = {args[1]}]
      ELSE [tc     |-> Patterns(rest, "--tc"),
            tce    |-> Patterns(rest, "--tce"),
            flags  |-> Pieces(Len(done), flag),
            noskip |-> \E i \in DOMAIN rest : rest[i] = <<"--no-skip">> /\ ~HasValue(rest, i),
            env    |-> [k \in keys |-> IF sets(k) = {} THEN <<>> ELSE done[Max(sets(k)) + 1]]]

ApplyCommandLine(text) ==
  LET args == TokenizeArgs(text)
  IN  IF Len(args) = 1 /\ ~Flag(args[1])
      THEN [tc |-> {args[1]}, tce |-> {}]
      ELSE [tc |-> LastPattern(Rest(args), "--tc"), tce |-> LastPattern(Rest(args), "--tce")]

\* The settings options lead to, as run_cycle counts by them: every value of a
\* filter is captured.
Delivered(o) == ApplyRunFilters(Body(BuildArgsAndRun(o)), DOMAIN o.hostEnv)

\* The settings doctest runs by.
InForce(o) ==
  LET filters == ApplyCommandLine(Body(BuildArgsAndRun(o)))
  IN  [Delivered(o) EXCEPT !.tc = filters.tc, !.tce = filters.tce]
-----------------------------------------------------------------------------
(* What is asked for.  A list of options, each a flag and its value, is    *)
(* given as two program arguments or, whole, as one.                       *)

ProgramArgs(options, whole) ==
  LET args(i) == IF whole \/ options[i].value = <<>>
                 THEN <<<<options[i].flag>> \o options[i].value>>
                 ELSE <<<<options[i].flag>>, options[i].value>>
  IN  Pieces(Len(options), args)

\* What a run can be given, in words of W.  A value that begins with a flag
\* would be read as one, --env sets a key with one word, and an option given
\* whole has no blank in its value.
Value(W)   == {v \in Seq(W) : v # <<>> /\ Head(v) \notin Flags}
Setting(W) == {v \in Value(W) : Len(v) = 1 /\ Head(v) \in DOMAIN KeyOf}
Option(W)  ==
  [flag : ValueFlags, value : Value(W)] \cup [flag : {"--env"}, value : Setting(W)]
    \cup [flag : {"--no-skip"}, value : {<<>>}]
Short(W)   == {o \in Option(W) : Len(o.value) < 2}

VarsFit(vars, W) == \A i \in DOMAIN EnvMap : vars[EnvMap[i]] \in Value(W) \cup {<<>>}
EnvFits(env, W)  ==
  \A k \in DOMAIN env : env[k] = <<>> \/ (env[k] \in Setting(W) /\ KeyOf[Head(env[k])] = k)

Expressible(options, whole, vars, hostEnv, W) ==
  /\ options \in Seq(Option(W)) /\ whole \in BOOLEAN
  /\ whole => options \in Seq(Short(W))
  /\ VarsFit(vars, W) /\ EnvFits(hostEnv, W) /\ IsFiniteSet(DOMAIN hostEnv)

\* The settings options and variables stand for: every value of a filter; the
\* skip flags in their order, the variables behind the options; and the last
\* --env of a key, which wins over the host's.
Asked(options, vars, hostEnv) ==
  LET values(f) == {options[i].value : i \in {j \in DOMAIN options : options[j].flag = f}}
                     \cup ({vars[f]} \ {<<>>})
      flag(i)   == IF options[i].flag \in SkipFlags
                   THEN <<<<options[i].flag, options[i].value>>>> ELSE <<>>
      var(i)    == IF EnvMap[i] \in SkipFlags /\ vars[EnvMap[i]] # <<>>
                   THEN <<<<EnvMap[i], vars[EnvMap[i]]>>>> ELSE <<>>
      sets(k)   == {i \in DOMAIN options :
                      options[i].flag = "--env" /\ KeyOf[Head(options[i].value)] = k}
  IN  [tc     |-> values("--tc"),
       tce    |-> values("--tce"),
       flags  |-> Pieces(Len(options), flag) \o Pieces(Len(EnvMap), var),
       noskip |-> values("--no-skip") # {},
       env    |-> [k \in DOMAIN hostEnv |->
                     IF sets(k) = {} THEN hostEnv[k] ELSE options[Max(sets(k))].value]]

\* No filter is asked for with two values ("Don't repeat flags", README.md:135).
Once(asked) ==
  /\ \A v, w \in asked.tc : v = w
  /\ \A v, w \in asked.tce : v = w
=============================================================================
