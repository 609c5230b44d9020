-------------------------- MODULE MCHeapPreempted --------------------------
(* HeapPreempted.tla with values for TLC, given in MCHeapPreempted.cfg: a   *)
(* table of four entries over a region of three pages, so that two blocks   *)
(* can be held, freed and merged while a call is interrupted, the mass      *)
(* entry can be carved up, and every entry can be taken.  LOW and THREE cut *)
(* the addresses into the three parts that memset clears.                   *)
EXTENDS HeapPreempted
=============================================================================
