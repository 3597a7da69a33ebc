--------------------------- MODULE MCOrchestration ---------------------------
(* Small registries for Orchestration. *)
EXTENDS Orchestration

\* Three tests in two suites, all names distinct.
DistinctNames == <<"alpha", "beta", "gamma">>
TwoSuites     == <<"S1", "S1", "S2">>

\* The same test name in two suites.
SharedNames == <<"alpha", "beta", "beta">>
MixedSuites == <<"S1", "S1", "S2">>

\* The first, or the last, test belongs to no suite.
FirstBare == <<Empty, "S1", "S1">>
LastBare  == <<"S1", "S1", Empty>>

\* Two tests.
TwoNames == <<"alpha", "beta">>
OneSuite == <<"S1", "S1">>

\* Four tests, the last of them skipped.
FourNames  == <<"alpha", "beta", "gamma", "delta">>
FourSuites == <<"S1", "S1", "S2", "S2">>
OnlyFourth == {4}

NoTests  == {}
AllTests == Registered
FirstTwo  == {1, 2}
OnlyFirst == {1}

\* A filter that leaves the second out, and a skip() it does not concern.
FirstAndThird == {1, 3}
OnlyThird     == {3}
==============================================================================
