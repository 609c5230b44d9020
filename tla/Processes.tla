------------------------------ MODULE Processes ------------------------------
(***************************************************************************)
(* Programs: src/kernel/runtime/process.c and elf.c, and the commands RUN, *)
(* KILL and TESTTHREAD, on top of Scheduler.tla.  The kernel thread loops  *)
(* over cli_monitor, which executes at most one command, and               *)
(* procmgr_monitor; the timer and the other threads interleave with every  *)
(* step of it.                                                             *)
(*                                                                         *)
(* A process is named by the address of its process_t.  `own` and `lost`   *)
(* are history variables: which thread was made for a process, and which   *)
(* threads ended without their own process being killed.  Nothing tells a  *)
(* process that its thread has returned: its pointer goes stale, and when  *)
(* the heap uses the address again KILL hits the wrong thread.             *)
(***************************************************************************)
EXTENDS Scheduler

CONSTANTS
  PMAX,        \* proc_count_max, the slots of proc_list
  Proc,        \* the addresses of process_t structures
  THREAD_IDS,  \* bound: thread_cid stays at or below it
  PROC_IDS     \* bound: proc_id stays at or below it

ASSUME ProcessesAssumption ==
  /\ PMAX \in Nat \ {0}
  /\ NULL \notin Proc
  /\ THREAD_IDS \in Nat /\ THREAD_IDS >= 2
  /\ PROC_IDS \in Nat

VARIABLES
  plist,       \* proc_list
  pstate,      \* proc->state, "FREED" when the heap does not hold the process_t
  pthread,     \* proc->thread
  pid,         \* proc->id
  proc_id,     \* the next process id
  tid,         \* thread->id
  thread_cid,  \* the next thread id
  at,          \* where the kernel thread is in its loop
  proc,        \* the process the current command works on
  own,         \* history: the id of the thread made for a process, or NONE
  lost         \* history: the ids of the threads that ended by themselves or were
               \* killed in place of another process's

procVars == <<plist, pstate, pthread, pid, proc_id, tid, thread_cid, at, proc, own, lost>>
allVars  == <<vars, procVars>>

PSlot == 0 .. PMAX - 1
At    == {"cli", "attach", "start", "ready", "killed", "monitor"}
NONE  == -1

ProcInit ==
  /\ Init
  /\ plist = [i \in PSlot |-> NULL]
  /\ pstate = [p \in Proc |-> "FREED"]
  /\ pthread = [p \in Proc |-> NULL]
  /\ pid = [p \in Proc |-> 0]
  /\ proc_id = 0
  /\ tid = [a \in Addr |-> IF a = Idle THEN 1 ELSE 0]
  /\ thread_cid = 2
  /\ at = "cli"
  /\ proc = NULL
  /\ own = [p \in Proc |-> NONE]
  /\ lost = {}

Kernel_at(place) == ~halted /\ cpu = Kernel /\ at = place

Loaded(p) == \E i \in PSlot : plist[i] = p        \* procmgr_is_loaded

-----------------------------------------------------------------------------
(* RUN: procmgr_load_file and procmgr_start.                               *)

FreePSlots == {i \in PSlot : plist[i] = NULL}

NextId(id) == id + 1                              \* proc_id++, thread_cid++

\* procmgr_load_file up to elf_attach, for a file that was read and has the signature
\* (otherwise nothing changes).  A full list leaves the process out of it.
Load(p) ==
  /\ Kernel_at("cli") /\ pstate[p] = "FREED" /\ proc_id < PROC_IDS
  /\ pstate' = [pstate EXCEPT ![p] = "HALTED"]
  /\ pthread' = [pthread EXCEPT ![p] = NULL]
  /\ own' = [own EXCEPT ![p] = NONE]
  /\ \/ /\ FreePSlots = {}
        /\ at' = "monitor"
        /\ UNCHANGED <<plist, pid, proc_id, proc>>
     \/ \E i \in Least(FreePSlots) :
          /\ plist' = [plist EXCEPT ![i] = p]
          /\ pid' = [pid EXCEPT ![p] = proc_id]
          /\ proc_id' = NextId(proc_id)
          /\ at' = "attach"
          /\ proc' = p
  /\ UNCHANGED <<vars, tid, thread_cid, lost>>

\* thread_create gives the next id.
CreateWithId(a) ==
  /\ Create(a)
  /\ thread_cid < THREAD_IDS
  /\ tid' = [tid EXCEPT ![a] = thread_cid]
  /\ thread_cid' = NextId(thread_cid)

\* elf_attach of a valid executable makes the thread.
Attach(a) ==
  /\ Kernel_at("attach")
  /\ CreateWithId(a)
  /\ pthread' = [pthread EXCEPT ![proc] = a]
  /\ own' = [own EXCEPT ![proc] = thread_cid]
  /\ at' = "start"
  /\ UNCHANGED <<plist, pstate, pid, proc_id, proc, lost>>

\* elf_attach of any other file fails; procmgr_load's caller does not look.
AttachFails ==
  /\ Kernel_at("attach")
  /\ at' = "start"
  /\ UNCHANGED <<vars, plist, pstate, pthread, pid, proc_id, tid, thread_cid, proc, own, lost>>

\* procmgr_start, up to taskmgr_ready_thread.
StartProcess ==
  /\ Kernel_at("start")
  /\ pstate' = [pstate EXCEPT ![proc] = "RUNNING"]
  /\ at' = "ready"
  /\ UNCHANGED <<vars, plist, pthread, pid, proc_id, tid, thread_cid, proc, own, lost>>

\* taskmgr_ready_thread(proc->thread), the last step of RUN and of TESTTHREAD.
ReadyThread ==
  /\ Kernel_at("ready")
  /\ Ready \/ ReadyNull \/ ListFull
  /\ at' = "monitor"
  /\ UNCHANGED <<plist, pstate, pthread, pid, proc_id, tid, thread_cid, proc, own, lost>>

\* TESTTHREAD: a thread that belongs to no process.
TestThread(a) ==
  /\ Kernel_at("cli")
  /\ CreateWithId(a)
  /\ at' = "ready"
  /\ UNCHANGED <<plist, pstate, pthread, pid, proc_id, proc, own, lost>>

-----------------------------------------------------------------------------
(* KILL: procmgr_get_byid and procmgr_terminate.                           *)

\* The loaded process with this id, in the lowest slot that has one.
ById(id) == {plist[i] : i \in Least({j \in PSlot : plist[j] # NULL /\ pid[plist[j]] = id})}

\* The thread is marked first ...
Kill(id) ==
  /\ Kernel_at("cli")
  /\ \E p \in ById(id) :
       /\ pthread[p] # NULL
       /\ Terminate(pthread[p])
       /\ proc' = p
       /\ lost' = lost \cup ({tid[pthread[p]]} \ {own[p]})
  /\ at' = "killed"
  /\ UNCHANGED <<plist, pstate, pthread, pid, proc_id, tid, thread_cid, own>>

\* ... there is no such process, or its thread is not in the list, and KILL gives up ...
KillFails(id) ==
  /\ Kernel_at("cli")
  /\ \A p \in ById(id) : pthread[p] = NULL \/ ~Listed(pthread[p])
  /\ at' = "monitor"
  /\ UNCHANGED <<vars, plist, pstate, pthread, pid, proc_id, tid, thread_cid, proc, own, lost>>

MarkedNever(p) == pstate                                \* the process left RUNNING
Marked(p) == [pstate EXCEPT ![p] = "TERMINATED"]

\* ... and, with interrupts on again, the process.
KillMarks ==
  /\ Kernel_at("killed")
  /\ pstate' = Marked(proc)
  /\ at' = "monitor"
  /\ UNCHANGED <<vars, plist, pthread, pid, proc_id, tid, thread_cid, proc, own, lost>>

-----------------------------------------------------------------------------
(* The rest of the loop, the other threads and the timer.                  *)

NoCommand ==
  /\ Kernel_at("cli")
  /\ at' = "monitor"
  /\ UNCHANGED <<vars, plist, pstate, pthread, pid, proc_id, tid, thread_cid, proc, own, lost>>

NoHoleBelow(i) == \A j \in PSlot : j < i => plist[j] # NULL

\* A monitor that looks at running processes too, and one that stops at the first slot.
CleanableRunning ==
  Least({i \in PSlot : NoHoleBelow(i) /\ plist[i] # NULL /\ pstate[plist[i]] # "HALTED"})
CleanableFirst ==
  {i \in PSlot : i = 0 /\ plist[i] # NULL /\ pstate[plist[i]] = "TERMINATED"}

\* Where procmgr_monitor finds a process to clean: its search ends at the first empty slot.
Cleanable ==
  Least({i \in PSlot : NoHoleBelow(i) /\ plist[i] # NULL /\ pstate[plist[i]] = "TERMINATED"})

Monitor ==
  /\ Kernel_at("monitor")
  /\ \/ \E i \in Cleanable :
          /\ plist' = [plist EXCEPT ![i] = NULL]
          /\ pstate' = [pstate EXCEPT ![plist[i]] = "FREED"]
     \/ Cleanable = {} /\ UNCHANGED <<plist, pstate>>
  /\ at' = "cli"
  /\ UNCHANGED <<vars, pthread, pid, proc_id, tid, thread_cid, proc, own, lost>>

KernelStep ==
  \/ \E p \in Proc : Load(p)
  \/ \E a \in Addr : Attach(a)
  \/ AttachFails
  \/ StartProcess
  \/ ReadyThread
  \/ \E a \in Addr : TestThread(a)
  \/ \E id \in 0 .. PROC_IDS : Kill(id) \/ KillFails(id)
  \/ KillMarks
  \/ NoCommand
  \/ Monitor

\* A thread_exit that frees its own thread_t instead of leaving that to the scheduler.
ThreadExitFrees ==
  /\ ~halted /\ cpu \notin {Kernel, Idle}
  /\ state' = [state EXCEPT ![cpu] = "FREED"]
  /\ list' = [list EXCEPT ![index] = NULL]
  /\ lost' = lost \cup {tid[cpu]}
  /\ UNCHANGED <<index, current, count, context, pending, cpu, halted>>
  /\ UNCHANGED <<plist, pstate, pthread, pid, proc_id, tid, thread_cid, at, proc, own>>

ThreadExit ==
  /\ Exit
  /\ lost' = lost \cup {tid[cpu]}
  /\ UNCHANGED <<plist, pstate, pthread, pid, proc_id, tid, thread_cid, at, proc, own>>

TimerTick == Tick /\ UNCHANGED procVars

ProcNext == KernelStep \/ ThreadExit \/ TimerTick

ProcSpec == ProcInit /\ [][ProcNext]_allVars

\* The timer keeps coming, and a time slice is long: the kernel thread, given the
\* processor again and again, gets on with its loop.
ProcFairSpec == ProcSpec /\ WF_vars(Tick) /\ SF_allVars(KernelStep)

-----------------------------------------------------------------------------
ProcTypeOK ==
  /\ TypeOK
  /\ plist \in [PSlot -> Proc \cup {NULL}]
  /\ pstate \in [Proc -> State]
  /\ pthread \in [Proc -> Addr \cup {NULL}]
  /\ pid \in [Proc -> 0 .. PROC_IDS]
  /\ proc_id \in 0 .. PROC_IDS
  /\ tid \in [Addr -> 0 .. THREAD_IDS]
  /\ thread_cid \in 2 .. THREAD_IDS
  /\ at \in At
  /\ proc \in Proc \cup {NULL}
  /\ own \in [Proc -> 0 .. THREAD_IDS \cup {NONE}]
  /\ lost \subseteq 0 .. THREAD_IDS

\* A running process whose thread is not lost still points to that very thread, so KILL
\* reaches the right one: the scheduler has not freed it, and the address was not given
\* to another thread, except while KILL itself is between its two marks.
PointsToOwn ==
  \A p \in Proc :
    (/\ Loaded(p) /\ pstate[p] = "RUNNING" /\ pthread[p] # NULL
     /\ own[p] \notin lost /\ ~(at = "killed" /\ proc = p))
    => state[pthread[p]] \in {"HALTED", "RUNNING"} /\ tid[pthread[p]] = own[p]

\* A process_t is freed only when the thread made for it will not run again.
FreedWhenEnded ==
  [][\A p \in Proc : (pstate[p] # "FREED" /\ pstate'[p] = "FREED") =>
       \A a \in Addr : ~(state[a] \in {"HALTED", "RUNNING"} /\ tid[a] = own[p])]_allVars

\* With its programs the kernel still is a scheduler: no command reaches the task list
\* but through the scheduler's own operations.
ImplementsScheduler == Spec

\* procmgr_monitor frees a killed process, unless an empty slot below hides it.
KilledCleaned ==
  \A i \in PSlot :
    (plist[i] # NULL /\ pstate[plist[i]] = "TERMINATED" /\ NoHoleBelow(i))
      ~> (halted \/ plist[i] = NULL \/ ~NoHoleBelow(i))

=============================================================================
