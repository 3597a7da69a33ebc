-------------------------- MODULE MCCommandSession --------------------------
(* A registry of three tests, two of one name, and requests of up to two   *)
(* options.  A value with a blank needs an argument of its own; --env has  *)
(* none.                                                                   *)
EXTENDS CommandSession

SharedNames == <<"alpha", "beta", "alpha">>
NoTests     == {}
OnlySecond  == {2}

One   == <<"foo">>
Two   == <<"foo", "bar">>
Keys  == [w \in {"GPS=1", "GPS=0"} |-> "GPS"]
AllWords == Flags \cup {"foo", "bar"} \cup DOMAIN Keys
Match == (One :> {1, 2}) @@ (Two :> {2, 3})

Choice ==
  {[flag |-> f, value |-> v] : f \in ValueFlags, v \in {One, Two}}
    \cup {[flag |-> "--env", value |-> <<w>>] : w \in DOMAIN Keys}
    \cup {[flag |-> "--no-skip", value |-> <<>>]}

Variables ==
  {[f \in {EnvMap[i] : i \in DOMAIN EnvMap} |->
      CASE f = "--tc" -> tc [] f = "--skip-tc" -> sk [] OTHER -> <<>>] :
     tc \in {<<>>, Two}, sk \in {<<>>, One}}

Asks ==
  {q \in [options : UNION {[1..n -> Choice] : n \in 0..2}, whole : BOOLEAN, vars : Variables,
          hostEnv : [{"GPS"} -> {<<>>, <<"GPS=1">>}], resume : {<<"alpha">>, <<"beta">>, <<>>}] :
     q.whole => \A i \in DOMAIN q.options : Len(q.options[i].value) < 2}
==============================================================================
