----------------------------- MODULE MCConsole -----------------------------
(* Console.tla with values for TLC, given in MCConsole.cfg: one letter and *)
(* the space, of which four fill the buffer and a fifth goes beyond it.    *)
EXTENDS Console

CONSTANTS a
=============================================================================
