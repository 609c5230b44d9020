---------------------------- MODULE MCProcesses ----------------------------
(* Processes.tla with values for TLC: two program threads at a time, two   *)
(* process slots and three process structures, so that both lists fill up, *)
(* addresses and slots are used again, and a hole can hide a process.      *)
EXTENDS Processes

CONSTANTS kernel, idle, a, b, p, q, r
=============================================================================
