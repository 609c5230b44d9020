------------------------------ MODULE Scheduler ------------------------------
(***************************************************************************)
(* The round-robin scheduler: src/kernel/system/taskmgr.c, thread.c and    *)
(* tswitch.asm, from the moment kernel_before_run has called               *)
(* taskmgr_start.  One processor executes one thread at a time; the timer  *)
(* interrupt runs taskmgr_schedule between any two steps of a thread.      *)
(* Every other operation here runs with interrupts off (cli ... sti), so   *)
(* it is one step.  CLI commands, which create and kill threads, run in    *)
(* the kernel thread.                                                      *)
(*                                                                         *)
(* A thread is named by the address of its thread_t, which the heap may    *)
(* hand out again after it is freed.  taskmgr_next is assigned and used    *)
(* only inside taskmgr_schedule and is not a variable here.                *)
(***************************************************************************)
EXTENDS Integers

CONSTANTS
  MAX,     \* TASKMGR_MAX, the slots of taskmgr_list
  Addr,    \* the addresses of thread_t structures
  Kernel,  \* thread_kernel
  Idle,    \* thread_idle
  NULL

ASSUME SchedulerAssumption ==
  /\ MAX \in Nat /\ MAX >= 2
  /\ Kernel \in Addr /\ Idle \in Addr /\ Kernel # Idle
  /\ NULL \notin Addr

VARIABLES
  list,     \* taskmgr_list
  index,    \* taskmgr_index
  current,  \* taskmgr_current
  count,    \* taskmgr_count
  state,    \* thread->state, "FREED" when the heap does not hold the thread_t
  context,  \* the thread whose registers thread->registers holds
  pending,  \* a thread the kernel thread has created and not yet made ready
  cpu,      \* the thread whose instructions the processor executes
  halted    \* a panic has stopped the machine

vars == <<list, index, current, count, state, context, pending, cpu, halted>>

Slot  == 0 .. MAX - 1
\* Where a loop over the slots that stops at its first match stops.
Least(S) == {i \in S : \A j \in S : i =< j}

State == {"FREED", "HALTED", "RUNNING", "TERMINATED"}

\* taskmgr_count only grows; beyond MAX all its values are one value here.
Counted(n) == IF n > MAX THEN n ELSE n + 1

\* The boot has readied the idle thread and started the task manager.
Init ==
  /\ list = [i \in Slot |-> IF i = 0 THEN Kernel ELSE IF i = 1 THEN Idle ELSE NULL]
  /\ index = 0
  /\ current = Kernel
  /\ count = 2
  /\ state = [a \in Addr |-> IF a \in {Kernel, Idle} THEN "RUNNING" ELSE "FREED"]
  /\ context = [a \in Addr |-> a]
  /\ pending = NULL
  /\ cpu = Kernel
  /\ halted = FALSE

\* thread_create, thread_create_ext: the heap gives the memory, the registers are set
\* up to enter the thread's own function.
Create(a) ==
  /\ ~halted /\ cpu = Kernel /\ pending = NULL
  /\ state[a] = "FREED"
  /\ state' = [state EXCEPT ![a] = "HALTED"]
  /\ context' = [context EXCEPT ![a] = a]
  /\ pending' = a
  /\ UNCHANGED <<list, index, current, count, cpu, halted>>

FreeSlots == {i \in Slot : list[i] = NULL}
FreeSlot  == Least(FreeSlots)            \* taskmgr_free_index

\* taskmgr_ready_thread: the thread takes the lowest free slot; a full list is a panic.
Ready ==
  /\ ~halted /\ cpu = Kernel /\ pending # NULL
  /\ \E i \in FreeSlot :
       /\ list' = [list EXCEPT ![i] = pending]
       /\ count' = Counted(count)
       /\ state' = [state EXCEPT ![pending] = "RUNNING"]
  /\ pending' = NULL
  /\ UNCHANGED <<index, current, context, cpu, halted>>

\* The same for a process whose program could not be loaded: its thread is NULL, and so
\* is the slot it is put in; the store to thread->state goes to low memory.
ReadyNull ==
  /\ ~halted /\ cpu = Kernel /\ pending = NULL
  /\ FreeSlots # {}
  /\ count' = Counted(count)
  /\ UNCHANGED <<list, index, current, state, context, pending, cpu, halted>>

ListFull ==
  /\ ~halted /\ cpu = Kernel
  /\ FreeSlots = {}
  /\ halted' = TRUE
  /\ UNCHANGED <<list, index, current, count, state, context, pending, cpu>>

\* thread_exit: the thread whose function has returned marks itself and spins until the
\* timer takes the processor from it.  The kernel and idle threads loop forever.
Exit ==
  /\ ~halted /\ cpu \notin {Kernel, Idle}
  /\ state[cpu] # "TERMINATED"
  /\ state' = [state EXCEPT ![cpu] = "TERMINATED"]
  /\ UNCHANGED <<list, index, current, count, context, pending, cpu, halted>>

Listed(a) == \E i \in Slot : list[i] = a

\* taskmgr_terminate, called by the KILL command with a thread of a program; a pointer
\* that is not in the list changes nothing.
Terminate(a) ==
  /\ ~halted /\ cpu = Kernel /\ pending = NULL
  /\ Listed(a)
  /\ state' = [state EXCEPT ![a] = "TERMINATED"]
  /\ UNCHANGED <<list, index, current, count, context, pending, cpu, halted>>

-----------------------------------------------------------------------------
(* taskmgr_schedule, called by pit_handler with interrupts off.            *)

Occupied == {i \in Slot : list[i] # NULL}

Wrapped(above) == IF above = {} THEN {0} ELSE Least(above)

AfterSkip(i) == Wrapped({j \in Occupied : j > i + 1})   \* the index advanced twice

\* The slot the search from slot i ends at.  Above the last thread it runs past the end
\* of the array: the word there is not NULL (the heap block that follows taskmgr_list
\* holds the idle thread, whose first field is its stack pointer), and the index is
\* then too large and starts again at 0.
After(i) == Wrapped({j \in Occupied : j > i})

\* A HALTED thread is passed over by calling taskmgr_schedule again with index at its
\* slot.  The calls end at the first slot, in turn from index on, whose successor is not
\* HALTED; taskmgr_current is then the thread of that slot.
PassedOver(i) == \E n \in After(i) : state[list[n]] = "HALTED"

Distance(i) == IF i >= index THEN i - index ELSE i - index + MAX

Turn == {i \in Occupied :
           /\ ~PassedOver(i)
           /\ \A j \in Occupied : ~PassedOver(j) => Distance(i) =< Distance(j)}

EndedNever(a) == FALSE                   \* taskmgr_schedule without the TERMINATED case
Ended(a) == state[a] = "TERMINATED"

NotCleared(l, i) == l                    \* a reaped thread left in its slot
Cleared(l, i) == [l EXCEPT ![i] = NULL]  \* taskmgr_list[taskmgr_index] = NULL

SavedStale(i) == current                 \* taskmgr_current not updated first
Saved(i) == list[i]                      \* the thread_t that switch_thread saves into

RestartThere(n) == n                     \* taskmgr_index = 0 forgotten
Restart(n) == 0                          \* where the turn goes after the thread in slot n

\* switch_thread: the processor's registers go to thread `from`, those of `to` are loaded.
SwitchTo(from, to) ==
  /\ current' = from
  /\ context' = [context EXCEPT ![from] = cpu]
  /\ cpu' = context'[to]

\* The next thread, in slot n, has ended: its stack and thread_t are freed, and the
\* kernel thread gets the processor.
Reap(i, n) ==
  /\ Ended(list[n])
  /\ state' = [state EXCEPT ![list[n]] = "FREED"]
  /\ list' = Cleared(list, n)
  /\ index' = Restart(n)
  /\ SwitchTo(Saved(i), list'[0])

Pass(i, n) ==
  /\ ~Ended(list[n])
  /\ index' = n
  /\ SwitchTo(Saved(i), list[n])
  /\ UNCHANGED <<list, state>>

Tick ==
  /\ ~halted
  /\ IF list[index] = NULL
       THEN /\ index' = 0
            /\ current' = NULL
            /\ UNCHANGED <<list, state, context, cpu>>
       ELSE \E i \in Turn : \E n \in After(i) : Reap(i, n) \/ Pass(i, n)
  /\ UNCHANGED <<count, pending, halted>>

Next ==
  \/ \E a \in Addr : Create(a)
  \/ Ready
  \/ ReadyNull
  \/ ListFull
  \/ Exit
  \/ \E a \in Addr \ {Kernel, Idle} : Terminate(a)
  \/ Tick

Spec == Init /\ [][Next]_vars

\* The timer interrupt keeps coming: pit_init programs it once, and every handler and
\* every cli section ends with interrupts on.
FairSpec == Spec /\ WF_vars(Tick)

-----------------------------------------------------------------------------
TypeOK ==
  /\ list \in [Slot -> Addr \cup {NULL}]
  /\ index \in Slot
  /\ current \in Addr \cup {NULL}
  /\ count \in 0 .. MAX + 1
  /\ state \in [Addr -> State]
  /\ context \in [Addr -> Addr]
  /\ pending \in Addr \cup {NULL}
  /\ cpu \in Addr
  /\ halted \in BOOLEAN

\* No freed thread_t is reachable: the list, taskmgr_current and the thread that is
\* about to be made ready all point to memory the heap still holds, and no thread is in
\* the list twice (it would be freed twice).
NoDangling ==
  /\ \A i \in Slot : list[i] # NULL => state[list[i]] # "FREED"
  /\ \A i, j \in Slot : (list[i] # NULL /\ list[i] = list[j]) => i = j
  /\ current # NULL => state[current] # "FREED"
  /\ pending # NULL => state[pending] = "HALTED" /\ ~Listed(pending)

\* Every thread that waits for the processor finds its own registers in its thread_t,
\* whatever was created, killed or reaped meanwhile: taskmgr_index always designates the
\* thread that is really running, so switch_thread saves into the right one.
ContextsKept ==
  /\ list[index] = cpu
  /\ \A a \in Addr : (state[a] # "FREED" /\ a # cpu) => context[a] = a

\* The THREADS command, which copies the first taskmgr_count slots, misses no thread.
CountCovers == \A i \in Occupied : i < count

\* taskmgr_schedule never calls itself and never finds its own slot empty: no listed
\* thread is HALTED and the slot of the running thread is never cleared.
NeverRecurses == list[index] # NULL /\ \A i \in Occupied : state[list[i]] # "HALTED"

\* The scheduler implements Multitasking.tla: ended threads never run again, only ended
\* threads are reaped, and never the one whose stack the interrupt handler stands on.
M == INSTANCE Multitasking
       WITH Thread  <- Addr,
            ready   <- {a \in Addr : Listed(a) /\ state[a] = "RUNNING"},
            ended   <- {a \in Addr : Listed(a) /\ state[a] = "TERMINATED"},
            running <- cpu

ImplementsMultitasking == M!Spec

\* The kernel thread and the idle thread get the processor again and again, whatever
\* the other threads do, unless the machine has stopped.
KernelRuns == []<>(halted \/ cpu = Kernel) /\ []<>(halted \/ cpu = Idle)

\* Round robin: the thread of a slot gets the processor, or ends and is reaped, unless
\* threads below it are reaped for ever (a reaped thread sends the turn back to the
\* kernel thread) or the machine stops.
ReapedBelow(i) == \E j \in Slot : j < i /\ list[j] # NULL /\ list'[j] = NULL

EveryTurn ==
  \A i \in Slot :
    \/ []<><<ReapedBelow(i)>>_vars
    \/ [](list[i] # NULL => <>(halted \/ index = i \/ list[i] = NULL))

\* Under the same condition the memory of a thread that has ended is taken back.
EndedReaped ==
  \A i \in Slot :
    \/ []<><<ReapedBelow(i)>>_vars
    \/ []((list[i] # NULL /\ state[list[i]] = "TERMINATED") => <>(halted \/ list[i] = NULL))

=============================================================================
