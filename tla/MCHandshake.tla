----------------------------- MODULE MCHandshake -----------------------------
(* Which of the host's lines noise may hit, for Handshake. *)
EXTENDS Handshake

CommandOnly == {Command}
AllLines    == 1..Command
==============================================================================
