-------------------------- MODULE MCResultReceiver --------------------------
(* Two test names, interchangeable, for ResultReceiver. *)
EXTENDS ResultReceiver, TLC

Symmetry == Permutations(Names)
==============================================================================
