----------------------------- MODULE MCScheduler -----------------------------
(* Scheduler.tla with values for TLC: three slots besides the kernel's and *)
(* the idle thread's and four addresses for threads, so that the list can  *)
(* fill up, a thread can starve behind a reaped one, and an address can be *)
(* used again in another slot.                                             *)
EXTENDS Scheduler

CONSTANTS kernel, idle, a, b, c, d
=============================================================================
