---------------------------- MODULE MCLineFormat ----------------------------
(* Two characters and a few ways to damage them, for LineFormat. *)
EXTENDS LineFormat

\* "E" and "S".
Letters   == {{0, 2, 6}, {0, 1, 4, 6}}
BitErrors == {{0}, {3}, {6}, {1, 2}, 0..6}
EveryBit  == {{i} : i \in Bit}
==============================================================================
