--------------------------- MODULE MCLineCallback ---------------------------
(* Two tests in two suites and three plugins, for LineCallback. *)
EXTENDS LineCallback

TwoTests   == {<<"S1", "alpha">>, <<"S2", "beta">>}
BetaLonger == [t \in Tests |-> IF t[2] = "beta" THEN 2 ELSE 0]
==============================================================================
