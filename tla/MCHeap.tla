------------------------------- MODULE MCHeap -------------------------------
(* Heap.tla with values for TLC: pages of 2 addresses, so that a request   *)
(* can be smaller than its block, and a table that can fill up.            *)
EXTENDS Heap
=============================================================================
