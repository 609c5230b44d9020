---------------------------- MODULE Multitasking ----------------------------
(***************************************************************************)
(* What the kernel promises about threads, without slots, pointers or      *)
(* saved registers: one thread has the processor; a thread that has ended  *)
(* is never given it again; its memory is taken back only after it ended   *)
(* and never while the processor still stands on its stack; the kernel and *)
(* idle threads never end.  Scheduler.tla is shown to implement this.      *)
(***************************************************************************)

CONSTANTS
  Thread,    \* the threads
  Kernel,    \* thread_kernel
  Idle       \* thread_idle

VARIABLES
  ready,     \* the threads that may be given the processor
  ended,     \* the threads that have ended and still hold their memory
  running    \* the thread whose instructions the processor executes

vars == <<ready, ended, running>>

Init ==
  /\ ready = {Kernel, Idle}
  /\ ended = {}
  /\ running = Kernel

Spawn(t) ==
  /\ t \notin ready \cup ended
  /\ ready' = ready \cup {t}
  /\ UNCHANGED <<ended, running>>

End(t) ==
  /\ t \in ready \ {Kernel, Idle}
  /\ ready' = ready \ {t}
  /\ ended' = ended \cup {t}
  /\ UNCHANGED running

Switch ==
  /\ running' \in ready
  /\ UNCHANGED <<ready, ended>>

Reap(t) ==
  /\ t \in ended /\ t # running
  /\ ended' = ended \ {t}
  /\ running' \in ready
  /\ UNCHANGED ready

Next == Switch \/ \E t \in Thread : Spawn(t) \/ End(t) \/ Reap(t)

Spec == Init /\ [][Next]_vars

=============================================================================
