--------------------------- MODULE ProcessesProofs ---------------------------
(***************************************************************************)
(* Theorems about Scheduler.tla, for every number of slots and every set   *)
(* of thread addresses, and about Processes.tla, for every size of its two *)
(* lists.  The program commands refine the scheduler, so the scheduler's   *)
(* own theorems hold of the whole; and a process points to its own thread. *)
(***************************************************************************)
EXTENDS Processes, TLAPS

-----------------------------------------------------------------------------
(* The scheduler alone.                                                    *)

\* The invariant behind all of them.
Inv ==
  /\ TypeOK
  /\ list[0] = Kernel /\ list[1] = Idle
  /\ state[Kernel] = "RUNNING" /\ state[Idle] = "RUNNING"
  /\ \A i \in Slot : list[i] # NULL => state[list[i]] \in {"RUNNING", "TERMINATED"}
  /\ \A i, j \in Slot : (list[i] # NULL /\ list[i] = list[j]) => i = j
  /\ \A a \in Addr : state[a] \in {"RUNNING", "TERMINATED"} => Listed(a)
  /\ list[index] = cpu
  /\ \A a \in Addr : (state[a] # "FREED" /\ a # cpu) => context[a] = a
  /\ pending # NULL => state[pending] = "HALTED"
  /\ current \in Addr /\ state[current] # "FREED"

LEMMA InitInv == Init => Inv
<1> SUFFICES ASSUME Init PROVE Inv
  OBVIOUS
<1>1. 0 \in Slot /\ 1 \in Slot
  BY SchedulerAssumption DEF Slot
<1>2. list[0] = Kernel /\ list[1] = Idle
  BY <1>1 DEF Init
<1>3. \A i \in Slot : list[i] # NULL => i \in {0, 1}
  BY DEF Init
<1>4. TypeOK
  <2>1. list \in [Slot -> Addr \cup {NULL}]
    BY SchedulerAssumption DEF Init
  <2>2. state \in [Addr -> State]
    BY DEF Init, State
  <2>3. context \in [Addr -> Addr]
    BY DEF Init
  <2>4. index \in Slot /\ count \in 0 .. MAX + 1
    BY <1>1, SchedulerAssumption DEF Init
  <2>5. current \in Addr /\ pending = NULL /\ cpu \in Addr /\ halted = FALSE
    BY SchedulerAssumption DEF Init
  <2>6. QED
    BY <2>1, <2>2, <2>3, <2>4, <2>5 DEF TypeOK
<1>5. \A a \in Addr : state[a] # "FREED" => a \in {Kernel, Idle}
  BY DEF Init
<1>6. state[Kernel] = "RUNNING" /\ state[Idle] = "RUNNING"
  BY SchedulerAssumption DEF Init
<1>7. Listed(Kernel) /\ Listed(Idle)
  BY <1>1, <1>2 DEF Listed
<1>8. \A a \in Addr : context[a] = a
  BY DEF Init
<1>9. index = 0 /\ cpu = Kernel /\ current = Kernel /\ pending = NULL
  BY DEF Init
<1>10. \A i \in Slot : list[i] # NULL => state[list[i]] \in {"RUNNING", "TERMINATED"}
  BY <1>2, <1>3, <1>6
<1>11. \A i, j \in Slot : (list[i] # NULL /\ list[i] = list[j]) => i = j
  BY <1>2, <1>3, SchedulerAssumption
<1>12. QED
  BY <1>2, <1>4, <1>5, <1>6, <1>7, <1>8, <1>9, <1>10, <1>11, SchedulerAssumption DEF Inv

LEMMA CreateInv == ASSUME Inv, NEW a \in Addr, Create(a) PROVE Inv'
  BY SchedulerAssumption DEF Create, Inv, TypeOK, Slot, State, Listed

LEMMA ReadyInv == ASSUME Inv, Ready PROVE Inv'
  BY SchedulerAssumption DEF Ready, Inv, TypeOK, Slot, State, Listed, FreeSlot, FreeSlots,
     Least, Counted

LEMMA ExitInv == ASSUME Inv, Exit PROVE Inv'
  BY SchedulerAssumption DEF Exit, Inv, TypeOK, Slot, State, Listed

LEMMA TerminateInv ==
  ASSUME Inv, NEW a \in Addr \ {Kernel, Idle}, Terminate(a) PROVE Inv'
  BY SchedulerAssumption DEF Terminate, Inv, TypeOK, Slot, State, Listed

-----------------------------------------------------------------------------
(* The timer interrupt.                                                    *)

LEMMA AfterOccupied ==
  ASSUME Inv, NEW i \in Slot, NEW n \in After(i)
  PROVE  n \in Occupied /\ (n > i \/ n = 0)
  BY SchedulerAssumption DEF Inv, TypeOK, After, Wrapped, Least, Occupied, Slot

\* No listed thread is HALTED, so taskmgr_schedule never calls itself: it works on the
\* slot of the running thread.
LEMMA TurnIsIndex ==
  ASSUME Inv, NEW i \in Turn
  PROVE  i = index
<1>1. \A j \in Slot : ~PassedOver(j)
  BY AfterOccupied DEF PassedOver, Inv, Occupied
<1>2. index \in Occupied
  BY SchedulerAssumption DEF Inv, TypeOK, Occupied
<1>3. Distance(i) =< Distance(index)
  BY <1>1, <1>2 DEF Turn, Occupied
<1>4. QED
  BY <1>3, <1>2, SchedulerAssumption DEF Distance, Turn, Occupied, Slot, Inv, TypeOK

LEMMA PassInv ==
  ASSUME Inv, Tick, NEW i \in Turn, NEW n \in After(i), Pass(i, n) PROVE Inv'
<1>1. i = index /\ n \in Occupied
  BY TurnIsIndex, AfterOccupied DEF Turn, Occupied
<1>2. list[n] \in Addr /\ list[index] = cpu /\ cpu \in Addr
  BY <1>1 DEF Occupied, Inv, TypeOK
<1>3. context' = [context EXCEPT ![cpu] = cpu] /\ current' = cpu
  BY <1>1, <1>2 DEF Pass, SwitchTo, Saved
<1>4. state[list[n]] # "FREED" /\ state[cpu] # "FREED"
  BY <1>1, <1>2, SchedulerAssumption DEF Occupied, Inv, TypeOK
<1>5. cpu' = list[n]
  BY <1>1, <1>2, <1>3, <1>4 DEF Pass, SwitchTo, Inv, TypeOK
<1>6. UNCHANGED <<list, state, count, pending, halted>> /\ index' = n
  BY DEF Pass, Tick
<1>7. n \in Slot
  BY <1>1 DEF Occupied
<1>8. TypeOK'
  BY <1>2, <1>3, <1>5, <1>6, <1>7 DEF Inv, TypeOK
<1>9. \A a \in Addr : context'[a] = IF a = cpu THEN cpu ELSE context[a]
  BY <1>2, <1>3 DEF Inv, TypeOK
<1>10. \A a \in Addr : (state'[a] # "FREED" /\ a # cpu') => context'[a] = a
  BY <1>6, <1>9 DEF Inv
<1>11. \A a \in Addr : Listed(a)' = Listed(a)
  BY <1>6 DEF Listed
<1>12. QED
  BY <1>2, <1>3, <1>4, <1>5, <1>6, <1>8, <1>10, <1>11 DEF Inv

LEMMA ReapInv ==
  ASSUME Inv, Tick, NEW i \in Turn, NEW n \in After(i), Reap(i, n) PROVE Inv'
<1>1. i = index /\ n \in Occupied /\ n \in Slot
  BY TurnIsIndex, AfterOccupied DEF Turn, Occupied
<1>2. list[n] \in Addr /\ list[index] = cpu /\ cpu \in Addr /\ index \in Slot
  BY <1>1 DEF Occupied, Inv, TypeOK
<1>3. state[list[n]] = "TERMINATED"
  BY DEF Reap, Ended
<1>4. n # 0 /\ n # 1 /\ n # index
  BY <1>1, <1>3, AfterOccupied, SchedulerAssumption DEF Inv, TypeOK, Slot
<1>5. list' = [list EXCEPT ![n] = NULL] /\ state' = [state EXCEPT ![list[n]] = "FREED"]
  BY DEF Reap, Cleared
<1>6. list'[0] = Kernel /\ list'[1] = Idle
  BY <1>4, <1>5, SchedulerAssumption DEF Inv, TypeOK, Slot
<1>7. context' = [context EXCEPT ![cpu] = cpu] /\ current' = cpu /\ index' = 0
  BY <1>1, <1>2 DEF Reap, SwitchTo, Saved, Restart
<1>8. cpu # list[n]
  BY <1>1, <1>2, <1>4 DEF Inv, Occupied
<1>9. \A a \in Addr : context'[a] = IF a = cpu THEN cpu ELSE context[a]
  BY <1>2, <1>7 DEF Inv, TypeOK
<1>10. cpu' = Kernel
  BY <1>6, <1>9, SchedulerAssumption DEF Reap, SwitchTo, Inv
<1>11. UNCHANGED <<count, pending, halted>>
  BY DEF Tick
<1>12. 0 \in Slot
  BY SchedulerAssumption DEF Slot
<1>13. TypeOK'
  BY <1>1, <1>2, <1>5, <1>7, <1>10, <1>11, <1>12, SchedulerAssumption DEF Inv, TypeOK, State
<1>14. \A a \in Addr : state'[a] = IF a = list[n] THEN "FREED" ELSE state[a]
  BY <1>2, <1>5 DEF Inv, TypeOK
<1>15. \A j \in Slot : list'[j] = IF j = n THEN NULL ELSE list[j]
  BY <1>1, <1>5 DEF Inv, TypeOK
<1>16. \A j \in Slot : list'[j] # NULL => state'[list'[j]] \in {"RUNNING", "TERMINATED"}
  BY <1>1, <1>14, <1>15 DEF Inv, TypeOK, Occupied
<1>17. \A j, k \in Slot : (list'[j] # NULL /\ list'[j] = list'[k]) => j = k
  BY <1>15 DEF Inv
<1>18. \A a \in Addr : state'[a] \in {"RUNNING", "TERMINATED"} => Listed(a)'
  BY <1>14, <1>15 DEF Inv, Listed
<1>19. \A a \in Addr : (state'[a] # "FREED" /\ a # cpu') => context'[a] = a
  BY <1>9, <1>14 DEF Inv
<1>20. state'[Kernel] = "RUNNING" /\ state'[Idle] = "RUNNING"
  BY <1>3, <1>14, SchedulerAssumption DEF Inv
<1>21. pending' # NULL => state'[pending'] = "HALTED"
  BY <1>3, <1>11, <1>14 DEF Inv, TypeOK
<1>22. state'[current'] # "FREED" /\ current' \in Addr
  BY <1>1, <1>2, <1>7, <1>8, <1>14, SchedulerAssumption DEF Inv, TypeOK
<1>23. QED
  BY <1>6, <1>7, <1>10, <1>13, <1>16, <1>17, <1>18, <1>19, <1>20, <1>21, <1>22 DEF Inv

LEMMA TickSwitches ==
  ASSUME Inv, Tick
  PROVE  \E i \in Turn : \E n \in After(i) : Reap(i, n) \/ Pass(i, n)
  BY SchedulerAssumption DEF Tick, Inv, TypeOK

LEMMA NextInv == Inv /\ [Next]_vars => Inv'
<1> SUFFICES ASSUME Inv, [Next]_vars PROVE Inv'
  OBVIOUS
<1>1. ASSUME NEW a \in Addr, Create(a) PROVE Inv'
  BY <1>1, CreateInv
<1>2. CASE Ready
  BY <1>2, ReadyInv
<1>3. CASE ListFull
  BY <1>3 DEF ListFull, Inv, TypeOK, Listed
<1>4. CASE Exit
  BY <1>4, ExitInv
<1>9. CASE ReadyNull
  BY <1>9, SchedulerAssumption DEF ReadyNull, Counted, Inv, TypeOK, Listed
<1>5. ASSUME NEW a \in Addr \ {Kernel, Idle}, Terminate(a) PROVE Inv'
  BY <1>5, TerminateInv
<1>6. CASE Tick
  BY <1>6, TickSwitches, ReapInv, PassInv
<1>7. CASE UNCHANGED vars
  BY <1>7 DEF vars, Inv, TypeOK, Listed
<1>8. QED
  BY <1>1, <1>2, <1>3, <1>4, <1>5, <1>6, <1>7, <1>9 DEF Next

-----------------------------------------------------------------------------
(* The properties of the runs.                                             *)

\* Type correctness.
THEOREM SchedulerTyped == Spec => []TypeOK
<1>1. Inv => TypeOK
  BY DEF Inv
<1>2. QED
  BY <1>1, InitInv, NextInv, PTL DEF Spec

\* No slot, no taskmgr_current and no thread about to be made ready points to a freed
\* thread_t, and no thread is listed twice.
THEOREM SchedulerNoDangling == Spec => []NoDangling
<1>1. Inv => NoDangling
  <2> SUFFICES ASSUME Inv PROVE NoDangling
    OBVIOUS
  <2>1. pending # NULL => ~Listed(pending)
    BY DEF Inv, TypeOK, Listed
  <2>2. QED
    BY <2>1 DEF Inv, NoDangling
<1>2. QED
  BY <1>1, InitInv, NextInv, PTL DEF Spec

\* Every waiting thread's registers are in its own thread_t.
THEOREM SchedulerKeepsContexts == Spec => []ContextsKept
<1>1. Inv => ContextsKept
  BY DEF Inv, ContextsKept
<1>2. QED
  BY <1>1, InitInv, NextInv, PTL DEF Spec

\* taskmgr_schedule never calls itself.
THEOREM SchedulerNeverRecurses == Spec => []NeverRecurses
<1>1. Inv => NeverRecurses
  BY SchedulerAssumption DEF Inv, TypeOK, NeverRecurses, Occupied
<1>2. QED
  BY <1>1, InitInv, NextInv, PTL DEF Spec

\* taskmgr_count is above every occupied slot: a new thread takes the lowest free slot,
\* and the slot below that one was already counted.
THEOREM SchedulerCounts == Spec => []CountCovers
<1>1. Init => CountCovers
  BY SchedulerAssumption DEF Init, CountCovers, Occupied, Slot
<1>2. Inv /\ CountCovers /\ [Next]_vars => CountCovers'
  <2> SUFFICES ASSUME Inv, CountCovers, [Next]_vars PROVE CountCovers'
    OBVIOUS
  <2>1. CASE Ready
    <3>1. PICK i \in FreeSlot : list' = [list EXCEPT ![i] = pending] /\ count' = Counted(count)
      BY <2>1 DEF Ready
    <3>2. i \in Slot /\ \A j \in Slot : j < i => j \in Occupied
      BY SchedulerAssumption DEF FreeSlot, FreeSlots, Least, Occupied, Slot
    <3>3. i =< count
      BY <3>2, SchedulerAssumption DEF CountCovers, Slot, Inv, TypeOK
    <3>4. \A j \in Occupied' : j = i \/ j \in Occupied
      BY <3>1, <3>2 DEF Occupied, Inv, TypeOK
    <3>5. QED
      BY <3>1, <3>2, <3>3, <3>4, SchedulerAssumption
      DEF CountCovers, Counted, Slot, Occupied, Inv, TypeOK
  <2>2. CASE Tick
    <3>1. count' = count /\ Occupied' \subseteq Occupied
      BY <2>2, TickSwitches DEF Tick, Reap, Pass, Cleared, Occupied, Inv, TypeOK
    <3>2. QED
      BY <3>1 DEF CountCovers
  <2>3. CASE UNCHANGED <<list, count>>
    BY <2>3 DEF CountCovers, Occupied
  <2>4. CASE ReadyNull
    BY <2>4, SchedulerAssumption
    DEF ReadyNull, CountCovers, Counted, Occupied, Slot, Inv, TypeOK
  <2>5. QED
    BY <2>1, <2>2, <2>3, <2>4 DEF Next, Create, ListFull, Exit, Terminate, vars
<1>3. QED
  BY <1>1, <1>2, InitInv, NextInv, PTL DEF Spec

-----------------------------------------------------------------------------
(* The refinement.                                                         *)

ReadySet == {a \in Addr : Listed(a) /\ state[a] = "RUNNING"}
EndedSet == {a \in Addr : Listed(a) /\ state[a] = "TERMINATED"}

LEMMA InitMaps == Init => M!Init
<1> SUFFICES ASSUME Init PROVE ReadySet = {Kernel, Idle} /\ EndedSet = {} /\ cpu = Kernel
  BY DEF M!Init, ReadySet, EndedSet
<1>1. Inv
  BY InitInv
<1>2. \A a \in Addr : state[a] # "FREED" => a \in {Kernel, Idle}
  BY DEF Init
<1>3. Listed(Kernel) /\ Listed(Idle)
  BY <1>1, SchedulerAssumption DEF Inv
<1>4. QED
  BY <1>1, <1>2, <1>3, SchedulerAssumption DEF Init, Inv, ReadySet, EndedSet

LEMMA ReadyMaps ==
  ASSUME Inv, Ready PROVE M!Spawn(pending)
<1>1. PICK i \in FreeSlot : /\ list' = [list EXCEPT ![i] = pending]
                            /\ state' = [state EXCEPT ![pending] = "RUNNING"]
  BY DEF Ready
<1>2. i \in Slot /\ list[i] = NULL /\ pending \in Addr /\ state[pending] = "HALTED"
  BY DEF FreeSlot, FreeSlots, Least, Ready, Inv, TypeOK
<1>3. \A a \in Addr : Listed(a)' <=> (Listed(a) \/ a = pending)
  BY <1>1, <1>2, SchedulerAssumption DEF Listed, Inv, TypeOK
<1>4. \A a \in Addr : state'[a] = IF a = pending THEN "RUNNING" ELSE state[a]
  BY <1>1, <1>2 DEF Inv, TypeOK
<1>5. pending \notin ReadySet \cup EndedSet
  BY <1>2 DEF ReadySet, EndedSet
<1>6. ReadySet' = ReadySet \cup {pending} /\ EndedSet' = EndedSet
  BY <1>2, <1>3, <1>4 DEF ReadySet, EndedSet
<1>7. UNCHANGED cpu
  BY DEF Ready
<1>8. QED
  BY <1>5, <1>6, <1>7 DEF M!Spawn, ReadySet, EndedSet

\* Marking a listed thread TERMINATED, by itself or by KILL.
LEMMA MarkMaps ==
  ASSUME Inv, NEW a \in Addr \ {Kernel, Idle}, Listed(a),
         state' = [state EXCEPT ![a] = "TERMINATED"], UNCHANGED <<list, cpu>>
  PROVE  M!End(a) \/ UNCHANGED <<ReadySet, EndedSet, cpu>>
<1>1. \A b \in Addr : state'[b] = IF b = a THEN "TERMINATED" ELSE state[b]
  BY DEF Inv, TypeOK
<1>2. \A b \in Addr : Listed(b)' = Listed(b)
  BY DEF Listed
<1>3. state[a] \in {"RUNNING", "TERMINATED"}
  BY SchedulerAssumption DEF Inv, Listed
<1>4. CASE state[a] = "RUNNING"
  <2>1. a \in ReadySet \ {Kernel, Idle}
    BY <1>4 DEF ReadySet
  <2>2. ReadySet' = ReadySet \ {a} /\ EndedSet' = EndedSet \cup {a}
    BY <1>1, <1>2, <1>4 DEF ReadySet, EndedSet
  <2>3. QED
    BY <2>1, <2>2 DEF M!End, ReadySet, EndedSet
<1>5. CASE state[a] = "TERMINATED"
  BY <1>1, <1>2, <1>5 DEF ReadySet, EndedSet
<1>6. QED
  BY <1>3, <1>4, <1>5

LEMMA PassMaps ==
  ASSUME Inv, Tick, NEW i \in Turn, NEW n \in After(i), Pass(i, n) PROVE M!Switch
<1>1. UNCHANGED <<list, state>> /\ Inv'
  BY PassInv DEF Pass
<1>2. ReadySet' = ReadySet /\ EndedSet' = EndedSet
  BY <1>1 DEF ReadySet, EndedSet, Listed
<1>3. index' = n /\ n \in Slot /\ cpu' = list[n]
  BY <1>1, AfterOccupied DEF Pass, Inv, Occupied, Turn
<1>4. cpu' \in ReadySet
  BY <1>1, <1>3, AfterOccupied, SchedulerAssumption
  DEF Pass, Ended, Inv, TypeOK, ReadySet, Listed, Occupied
<1>5. QED
  BY <1>2, <1>4 DEF M!Switch, ReadySet, EndedSet

LEMMA ReapMaps ==
  ASSUME Inv, Tick, NEW i \in Turn, NEW n \in After(i), Reap(i, n)
  PROVE  M!Reap(list[n]) /\ list[n] \in Addr
<1> index \in Slot
  BY DEF Inv, TypeOK
<1>a. Inv' /\ i = index
  BY ReapInv, TurnIsIndex
<1>b. n \in Slot /\ list[n] # NULL
  BY <1>a, AfterOccupied DEF Occupied
<1>1. Inv' /\ i = index /\ n \in Slot /\ list[n] \in Addr /\ state[list[n]] = "TERMINATED"
  BY <1>a, <1>b DEF Reap, Ended, Inv, TypeOK
<1>2. n # index
  BY <1>1, AfterOccupied, SchedulerAssumption DEF Inv, TypeOK, Slot, Occupied
<1>3. list[n] # cpu
  BY <1>1, <1>2, SchedulerAssumption DEF Inv, TypeOK
<1>4. \A j \in Slot : list'[j] = IF j = n THEN NULL ELSE list[j]
  BY <1>1 DEF Reap, Cleared, Inv, TypeOK
<1>5. \A a \in Addr : state'[a] = IF a = list[n] THEN "FREED" ELSE state[a]
  BY <1>1 DEF Reap, Inv, TypeOK
<1>6. \A a \in Addr : a # list[n] => Listed(a)' = Listed(a)
  BY <1>4, SchedulerAssumption DEF Listed
<1>7. ReadySet' = ReadySet
  BY <1>1, <1>5, <1>6 DEF ReadySet
<1>8. EndedSet' = EndedSet \ {list[n]} /\ list[n] \in EndedSet
  BY <1>1, <1>5, <1>6 DEF EndedSet, Listed
<1>9. cpu' = Kernel /\ Kernel \in ReadySet'
  BY <1>1, SchedulerAssumption DEF Reap, Restart, Inv, ReadySet
<1>10. QED
  BY <1>1, <1>3, <1>7, <1>8, <1>9 DEF M!Reap, ReadySet, EndedSet

\* The scheduler implements the abstract multitasking.
THEOREM SchedulerRefines == Spec => ImplementsMultitasking
<1>1. Inv /\ [Next]_vars => [M!Next]_<<ReadySet, EndedSet, cpu>>
  <2> SUFFICES ASSUME Inv, [Next]_vars
               PROVE  M!Next \/ UNCHANGED <<ReadySet, EndedSet, cpu>>
    OBVIOUS
  <2>1. ASSUME NEW a \in Addr, Create(a) PROVE UNCHANGED <<ReadySet, EndedSet, cpu>>
    <3>1. UNCHANGED <<list, cpu>> /\ state[a] = "FREED"
      BY <2>1 DEF Create
    <3>2. \A b \in Addr : state'[b] = IF b = a THEN "HALTED" ELSE state[b]
      BY <2>1 DEF Create, Inv, TypeOK
    <3>3. QED
      BY <3>1, <3>2 DEF ReadySet, EndedSet, Listed
  <2>2. CASE Ready
    <3>1. pending \in Addr
      BY <2>2 DEF Ready, Inv, TypeOK
    <3>2. M!Spawn(pending)
      BY <2>2, ReadyMaps
    <3>3. QED
      BY <3>1, <3>2 DEF M!Next, M!Spawn
  <2>3. CASE ReadyNull \/ ListFull \/ UNCHANGED vars
    <3>1. UNCHANGED <<list, state, cpu>>
      BY <2>3 DEF ReadyNull, ListFull, vars
    <3>2. QED
      BY <3>1 DEF ReadySet, EndedSet, Listed
  <2>4. CASE Exit
    <3>1. cpu \in Addr \ {Kernel, Idle} /\ Listed(cpu)
      BY <2>4 DEF Exit, Inv, TypeOK, Listed
    <3>2. QED
      BY <2>4, <3>1, MarkMaps DEF Exit, M!Next
  <2>5. ASSUME NEW a \in Addr \ {Kernel, Idle}, Terminate(a)
        PROVE  M!Next \/ UNCHANGED <<ReadySet, EndedSet, cpu>>
    BY <2>5, MarkMaps DEF Terminate, M!Next
  <2>6. CASE Tick
    <3>1. PICK i \in Turn : \E n \in After(i) : Reap(i, n) \/ Pass(i, n)
      BY <2>6, TickSwitches
    <3>2. PICK n \in After(i) : Reap(i, n) \/ Pass(i, n)
      BY <3>1
    <3>3. CASE Pass(i, n)
      BY <2>6, <3>3, PassMaps DEF M!Next
    <3>4. CASE Reap(i, n)
      <4>1. M!Reap(list[n]) /\ list[n] \in Addr
        BY <2>6, <3>4, ReapMaps
      <4>2. QED
        BY <4>1 DEF M!Next, M!Reap
    <3>5. QED
      BY <3>2, <3>3, <3>4
  <2>7. QED
    BY <2>1, <2>2, <2>3, <2>4, <2>5, <2>6 DEF Next
<1>2. QED
  BY <1>1, InitMaps, InitInv, NextInv, PTL
  DEF Spec, ImplementsMultitasking, M!Spec, M!vars, ReadySet, EndedSet

-----------------------------------------------------------------------------
(* The programs on top of it.                                              *)

\* What the commands need: no process points to the kernel's or the idle thread, and
\* between a TESTTHREAD or RUN and its last step the pointers are well-typed.
ThreadsOfPrograms ==
  /\ plist \in [PSlot -> Proc \cup {NULL}]
  /\ pthread \in [Proc -> (Addr \ {Kernel, Idle}) \cup {NULL}]

PInv == Inv /\ ThreadsOfPrograms

LEMMA ProcInitInv == ProcInit => PInv
  BY InitInv, SchedulerAssumption, ProcessesAssumption DEF ProcInit, PInv, ThreadsOfPrograms

\* Every step of the kernel thread's loop is a step of the scheduler or none.
LEMMA StepMaps == ASSUME PInv, [ProcNext]_allVars PROVE [Next]_vars
<1>1. ASSUME NEW p \in Proc, Load(p) PROVE UNCHANGED vars
  BY <1>1 DEF Load
<1>2. ASSUME NEW a \in Addr, Attach(a) \/ TestThread(a) PROVE Next
  BY <1>2 DEF Attach, TestThread, CreateWithId, Next
<1>3. CASE ReadyThread
  BY <1>3 DEF ReadyThread, Next
<1>4. ASSUME NEW id \in 0 .. PROC_IDS, Kill(id) PROVE Next
  <2>1. PICK p \in ById(id) : pthread[p] # NULL /\ Terminate(pthread[p])
    BY <1>4 DEF Kill
  <2>2. p \in Proc
    BY <2>1 DEF ById, Least, PInv, ThreadsOfPrograms
  <2>3. pthread[p] \in Addr \ {Kernel, Idle}
    BY <2>1, <2>2 DEF PInv, ThreadsOfPrograms
  <2>4. QED
    BY <2>1, <2>3 DEF Next, Terminate
<1>5. ASSUME NEW id \in 0 .. PROC_IDS, KillFails(id) PROVE UNCHANGED vars
  BY <1>5 DEF KillFails
<1>6. CASE AttachFails \/ StartProcess \/ KillMarks \/ NoCommand \/ Monitor
  BY <1>6 DEF AttachFails, StartProcess, KillMarks, NoCommand, Monitor
<1>7. CASE ThreadExit \/ TimerTick
  BY <1>7 DEF ThreadExit, TimerTick, Next
<1>8. CASE UNCHANGED allVars
  BY <1>8 DEF allVars
<1>9. QED
  BY <1>1, <1>2, <1>3, <1>4, <1>5, <1>6, <1>7, <1>8 DEF ProcNext, KernelStep

LEMMA ProcNextInv == ASSUME PInv, [ProcNext]_allVars PROVE PInv'
<1>1. Inv'
  BY StepMaps, NextInv DEF PInv
<1>2. ThreadsOfPrograms'
  <2>1. ASSUME NEW p \in Proc, Load(p) PROVE ThreadsOfPrograms'
    BY <2>1 DEF Load, Least, FreePSlots, PInv, ThreadsOfPrograms
  <2>2. ASSUME NEW a \in Addr, Attach(a) PROVE ThreadsOfPrograms'
    <3>1. a \notin {Kernel, Idle}
      BY <2>2 DEF Attach, CreateWithId, Create, PInv, Inv
    <3>2. QED
      BY <2>2, <3>1 DEF Attach, PInv, ThreadsOfPrograms
  <2>3. CASE Monitor
    BY <2>3 DEF Monitor, Cleanable, Least, PInv, ThreadsOfPrograms
  <2>4. CASE UNCHANGED <<plist, pthread>>
    BY <2>4 DEF PInv, ThreadsOfPrograms
  <2>5. ASSUME NEW a \in Addr, TestThread(a) PROVE UNCHANGED <<plist, pthread>>
    BY <2>5 DEF TestThread
  <2>6. ASSUME NEW id, Kill(id) \/ KillFails(id) PROVE UNCHANGED <<plist, pthread>>
    BY <2>6 DEF Kill, KillFails
  <2>7. ASSUME AttachFails \/ StartProcess \/ ReadyThread \/ KillMarks \/ NoCommand
        PROVE  UNCHANGED <<plist, pthread>>
    BY <2>7 DEF AttachFails, StartProcess, ReadyThread, KillMarks, NoCommand
  <2>8. ASSUME ThreadExit \/ TimerTick \/ UNCHANGED allVars
        PROVE  UNCHANGED <<plist, pthread>>
    BY <2>8 DEF ThreadExit, TimerTick, allVars, procVars
  <2>9. QED
    BY <2>1, <2>2, <2>3, <2>4, <2>5, <2>6, <2>7, <2>8 DEF ProcNext, KernelStep
<1>3. QED
  BY <1>1, <1>2 DEF PInv

\* RUN, KILL, TESTTHREAD and procmgr_monitor reach the task list only through the
\* scheduler's operations.
THEOREM ProcessesRefineScheduler == ProcSpec => ImplementsScheduler
<1>1. ProcInit => Init
  BY DEF ProcInit
<1>2. PInv /\ [ProcNext]_allVars => [Next]_vars
  BY StepMaps
<1>3. PInv /\ [ProcNext]_allVars => PInv'
  BY ProcNextInv
<1>4. QED
  BY <1>1, <1>2, <1>3, ProcInitInv, PTL DEF ProcSpec, ImplementsScheduler, Spec

\* So, whatever commands are given, an ended thread never runs again and threads keep
\* their own registers.
THEOREM ProcessesKeepScheduler == ProcSpec => ImplementsMultitasking /\ []ContextsKept
  BY ProcessesRefineScheduler, SchedulerRefines, SchedulerKeepsContexts, PTL
  DEF ImplementsScheduler

-----------------------------------------------------------------------------
(* Which thread a process points to.                                       *)

Live(a) == state[a] \in {"HALTED", "RUNNING"}

\* No living thread is the one made for this process.
Gone(p) == \A a \in Addr : Live(a) => tid[a] # own[p]

\* The processes whose pointer must be right: their own thread neither was killed nor
\* ended, and KILL is not between its two marks.
Watched(p) ==
  /\ own[p] # NONE /\ own[p] \notin lost
  /\ pstate[p] \in {"HALTED", "RUNNING"}
  /\ ~(at = "killed" /\ proc = p)

\* A process is loaded once, and the heap holds it as long.
Loads ==
  /\ \A i \in PSlot : plist[i] # NULL => pstate[plist[i]] # "FREED"
  /\ \A i, j \in PSlot : plist[i] # NULL /\ plist[i] = plist[j] => i = j

\* An id is given once: no two threads in memory share one, nor do two processes.
Ids ==
  /\ \A a \in Addr : tid[a] < thread_cid
  /\ \A a, b \in Addr : state[a] # "FREED" /\ state[b] # "FREED" /\ tid[a] = tid[b] => a = b
  /\ \A p \in Proc : own[p] < thread_cid /\ (own[p] = NONE <=> pthread[p] = NULL)
  /\ \A p, q \in Proc : own[p] # NONE /\ own[p] = own[q] => p = q
  /\ \A id \in lost : id < thread_cid

\* What is lost does not live, and the thread of a killed process does not either.
Lost ==
  /\ \A a \in Addr : Live(a) => tid[a] \notin lost
  /\ \A p \in Proc : pstate[p] = "TERMINATED" => Gone(p)
  /\ at = "killed" => proc \in Proc /\ Gone(proc)

Own ==
  /\ \A p \in Proc : Watched(p) => Live(pthread[p]) /\ tid[pthread[p]] = own[p]
  /\ at \in {"attach", "start"} => proc \in Proc /\ pstate[proc] = "HALTED"

LEMMA ProcTypeInit == ProcInit => ProcTypeOK
<1> SUFFICES ASSUME ProcInit PROVE ProcTypeOK
  OBVIOUS
<1>1. TypeOK
  BY InitInv DEF ProcInit, Inv
<1>2. THREAD_IDS \in Nat /\ THREAD_IDS >= 2 /\ PROC_IDS \in Nat
  BY ProcessesAssumption
<1>3. /\ plist \in [PSlot -> Proc \cup {NULL}]
      /\ pthread \in [Proc -> Addr \cup {NULL}]
      /\ proc \in Proc \cup {NULL}
  BY DEF ProcInit
<1>4. pstate \in [Proc -> State] /\ at \in At
  BY DEF ProcInit, State, At
<1>5. /\ pid \in [Proc -> 0 .. PROC_IDS]
      /\ proc_id \in 0 .. PROC_IDS
      /\ tid \in [Addr -> 0 .. THREAD_IDS]
      /\ thread_cid \in 2 .. THREAD_IDS
      /\ own \in [Proc -> 0 .. THREAD_IDS \cup {NONE}]
      /\ lost \subseteq 0 .. THREAD_IDS
  BY <1>2 DEF ProcInit
<1>6. QED
  BY <1>1, <1>3, <1>4, <1>5 DEF ProcTypeOK

LEMMA OwnInit == ProcInit => Loads /\ Ids /\ Lost /\ Own
<1> SUFFICES ASSUME ProcInit PROVE Loads /\ Ids /\ Lost /\ Own
  OBVIOUS
<1>1. Loads
  BY DEF ProcInit, Loads
<1>2. Ids
  <2>1. \A a \in Addr : state[a] # "FREED" => a \in {Kernel, Idle}
    BY DEF ProcInit, Init
  <2>2. \A a \in Addr : tid[a] = IF a = Idle THEN 1 ELSE 0
    BY DEF ProcInit
  <2>3. \A p \in Proc : own[p] = NONE /\ pthread[p] = NULL
    BY DEF ProcInit
  <2>4. thread_cid = 2 /\ lost = {}
    BY DEF ProcInit
  <2>5. QED
    BY <2>1, <2>2, <2>3, <2>4, SchedulerAssumption DEF Ids, NONE
<1>3. Lost
  BY DEF ProcInit, Lost
<1>4. Own
  BY DEF ProcInit, Own, Watched
<1>5. QED
  BY <1>1, <1>2, <1>3, <1>4

-----------------------------------------------------------------------------
(* A step that leaves the processes alone: the timer and a thread's end.   *)

\* Threads die and are freed, and the ids of those that end are lost.
LEMMA ThreadsOnlyEnd ==
  ASSUME Loads, Ids, Lost, Own,
         UNCHANGED <<plist, pstate, pthread, pid, proc_id, tid, thread_cid, at, proc, own>>,
         \A a \in Addr : state'[a] # state[a] => state'[a] \in {"TERMINATED", "FREED"},
         \A a \in Addr : state[a] = "FREED" => state'[a] = "FREED",
         lost \subseteq lost',
         \A id \in lost' \ lost : \E a \in Addr : id = tid[a] /\ state[a] # "FREED" /\ ~Live(a)',
         \A a \in Addr : Live(a) /\ ~Live(a)' => tid[a] \in lost',
         \A p \in Proc : pthread[p] \in Addr \cup {NULL}
  PROVE  Loads' /\ Ids' /\ Lost' /\ Own'
<1>1. \A a \in Addr : Live(a)' => Live(a)
  BY DEF Live
<1>2. Loads'
  BY DEF Loads
<1>3. Ids'
  BY DEF Ids
<1>4. Lost'
  <2>1. ASSUME NEW a \in Addr, Live(a)', tid[a] \in lost' PROVE FALSE
    <3>1. tid[a] \notin lost
      BY <1>1, <2>1 DEF Lost
    <3>2. PICK b \in Addr : tid[a] = tid[b] /\ state[b] # "FREED" /\ ~Live(b)'
      BY <2>1, <3>1
    <3>3. a = b
      BY <1>1, <2>1, <3>2 DEF Ids, Live
    <3>4. QED
      BY <2>1, <3>2, <3>3
  <2>2. \A p \in Proc : Gone(p) => Gone(p)'
    BY <1>1 DEF Gone
  <2>3. QED
    BY <2>1, <2>2 DEF Lost
<1>5. Own'
  <2>1. ASSUME NEW p \in Proc, Watched(p)'
        PROVE  (Live(pthread[p]) /\ tid[pthread[p]] = own[p])'
    <3>1. Watched(p)
      BY <2>1 DEF Watched
    <3>2. Live(pthread[p]) /\ tid[pthread[p]] = own[p]
      BY <3>1 DEF Own
    <3>3. pthread[p] \in Addr
      BY <3>1 DEF Ids, Watched
    <3>4. own[p] \notin lost'
      BY <2>1 DEF Watched
    <3>5. Live(pthread[p])'
      BY <3>2, <3>3, <3>4 DEF Live
    <3>6. QED
      BY <3>2, <3>5
  <2>2. QED
    BY <2>1 DEF Own
<1>6. QED
  BY <1>2, <1>3, <1>4, <1>5

OwnInv == ProcTypeOK /\ PInv /\ Loads /\ Ids /\ Lost /\ Own

\* What the proofs below use of the invariant.
LEMMA Facts ==
  ASSUME OwnInv
  PROVE  /\ state \in [Addr -> State] /\ tid \in [Addr -> 0 .. THREAD_IDS]
         /\ pstate \in [Proc -> State] /\ pthread \in [Proc -> Addr \cup {NULL}]
         /\ own \in [Proc -> 0 .. THREAD_IDS \cup {NONE}]
         /\ plist \in [PSlot -> Proc \cup {NULL}] /\ lost \subseteq 0 .. THREAD_IDS
         /\ thread_cid \in 2 .. THREAD_IDS /\ NULL \notin Proc /\ NULL \notin Addr
         /\ \A p \in Proc : own[p] \in Int
  BY SchedulerAssumption, ProcessesAssumption DEF OwnInv, ProcTypeOK, TypeOK, NONE

LEMMA TickOwns ==
  ASSUME OwnInv, TimerTick
  PROVE  Loads' /\ Ids' /\ Lost' /\ Own'
<1>1. UNCHANGED procVars /\ Tick
  BY DEF TimerTick
<1>2. list[index] # NULL
  BY SchedulerAssumption DEF OwnInv, PInv, Inv, TypeOK
<1>3. \A a \in Addr : state'[a] # state[a] => state'[a] = "FREED" /\ state[a] = "TERMINATED"
  <2>1. PICK i \in Turn : \E n \in After(i) : Reap(i, n) \/ Pass(i, n)
    BY <1>1, <1>2 DEF Tick
  <2>2. PICK n \in After(i) : Reap(i, n) \/ Pass(i, n)
    BY <2>1
  <2>3. CASE Pass(i, n)
    BY <2>3 DEF Pass
  <2>4. CASE Reap(i, n)
    <3>1. state' = [state EXCEPT ![list[n]] = "FREED"] /\ state[list[n]] = "TERMINATED"
      BY <2>4 DEF Reap, Ended
    <3>2. QED
      BY <3>1, Facts
  <2>5. QED
    BY <2>2, <2>3, <2>4
<1>4. \A a \in Addr : state[a] = "FREED" => state'[a] = "FREED"
  BY <1>3
<1>5. \A a \in Addr : Live(a) => Live(a)'
  BY <1>3 DEF Live
<1>6. lost' = lost /\ \A p \in Proc : pthread[p] \in Addr \cup {NULL}
  BY <1>1, Facts DEF procVars
<1>7. UNCHANGED <<plist, pstate, pthread, pid, proc_id, tid, thread_cid, at, proc, own>>
  BY <1>1 DEF procVars
<1>8. Loads /\ Ids /\ Lost /\ Own
  BY DEF OwnInv
<1>9. QED
  BY <1>3, <1>4, <1>5, <1>6, <1>7, <1>8, ThreadsOnlyEnd

LEMMA ExitOwns ==
  ASSUME OwnInv, ThreadExit
  PROVE  Loads' /\ Ids' /\ Lost' /\ Own'
<1>1. /\ state' = [state EXCEPT ![cpu] = "TERMINATED"]
      /\ lost' = lost \cup {tid[cpu]}
      /\ UNCHANGED <<plist, pstate, pthread, pid, proc_id, tid, thread_cid, at, proc, own>>
  BY DEF ThreadExit, Exit
<1>2. cpu \in Addr /\ state[cpu] # "FREED"
  BY SchedulerAssumption DEF OwnInv, PInv, Inv, TypeOK
<1>3. \A a \in Addr : state'[a] = IF a = cpu THEN "TERMINATED" ELSE state[a]
  BY <1>1, Facts
<1>4. \A a \in Addr : Live(a) /\ ~Live(a)' => a = cpu
  BY <1>3 DEF Live
<1>5. \A a \in Addr : a = cpu => ~Live(a)'
  BY <1>3 DEF Live
<1>6. Loads /\ Ids /\ Lost /\ Own
  BY DEF OwnInv
<1>7. \A id \in lost' \ lost : \E a \in Addr : id = tid[a] /\ state[a] # "FREED" /\ ~Live(a)'
  BY <1>1, <1>2, <1>5
<1>8. \A a \in Addr : Live(a) /\ ~Live(a)' => tid[a] \in lost'
  BY <1>1, <1>4
<1>9. \A p \in Proc : pthread[p] \in Addr \cup {NULL}
  BY Facts
<1>10. /\ \A a \in Addr : state'[a] # state[a] => state'[a] \in {"TERMINATED", "FREED"}
       /\ \A a \in Addr : state[a] = "FREED" => state'[a] = "FREED"
       /\ lost \subseteq lost'
  BY <1>1, <1>2, <1>3
<1>11. QED
  BY <1>1, <1>6, <1>7, <1>8, <1>9, <1>10, ThreadsOnlyEnd

-----------------------------------------------------------------------------
(* The commands.                                                           *)

\* The process's thread is marked; if it was another's thread by now, that one is lost.
LEMMA KillOwns ==
  ASSUME OwnInv, NEW id, Kill(id)
  PROVE  Loads' /\ Ids' /\ Lost' /\ Own'
<1>1. PICK p \in ById(id) :
        /\ pthread[p] # NULL
        /\ state' = [state EXCEPT ![pthread[p]] = "TERMINATED"]
        /\ proc' = p
        /\ lost' = lost \cup ({tid[pthread[p]]} \ {own[p]})
        /\ Terminate(pthread[p])
  BY DEF Kill, Terminate
<1> DEFINE t == pthread[p]
<1>2. p \in Proc /\ pstate[p] # "FREED"
  <2>1. PICK i \in PSlot : plist[i] = p /\ plist[i] # NULL
    BY DEF ById, Least
  <2>2. QED
    BY <2>1, Facts DEF OwnInv, Loads
<1>3. t \in Addr /\ state[t] # "FREED"
  <2>1. t \in Addr
    BY <1>1, <1>2, Facts
  <2>2. PICK i \in Slot : list[i] = t
    BY <1>1 DEF Terminate, Listed
  <2>3. t # NULL
    BY <2>1, Facts
  <2>4. state[list[i]] \in {"RUNNING", "TERMINATED"}
    BY <2>2, <2>3 DEF OwnInv, PInv, Inv
  <2>5. QED
    BY <2>1, <2>2, <2>4
<1>4. /\ at = "cli" /\ at' = "killed"
      /\ UNCHANGED <<plist, pstate, pthread, pid, proc_id, tid, thread_cid, own>>
  BY DEF Kill, Kernel_at
<1>5. \A a \in Addr : state'[a] = IF a = t THEN "TERMINATED" ELSE state[a]
  BY <1>1, Facts
<1>6. \A a \in Addr : Live(a)' <=> Live(a) /\ a # t
  BY <1>5 DEF Live
<1>7. own[p] # NONE /\ own[p] \in Int
  BY <1>1, <1>2, Facts DEF OwnInv, Ids
<1>8. Loads'
  BY <1>4 DEF OwnInv, Loads
<1>9. Ids'
  <2>1. \A a \in Addr : state'[a] # "FREED" => state[a] # "FREED"
    BY <1>3, <1>5
  <2>2. \A k \in lost' : k < thread_cid
    BY <1>1, <1>3 DEF OwnInv, Ids
  <2>3. QED
    BY <1>4, <2>1, <2>2 DEF OwnInv, Ids
<1>10. \A a \in Addr : Live(a)' => tid[a] # tid[t]
  BY <1>3, <1>6 DEF OwnInv, Ids, Live
<1>11. Gone(p)'
  <2>1. CASE tid[t] = own[p]
    BY <1>4, <1>10, <2>1 DEF Gone
  <2>2. CASE pstate[p] = "TERMINATED"
    BY <1>2, <1>4, <1>6, <2>2 DEF OwnInv, Lost, Gone
  <2>3. CASE tid[t] # own[p] /\ pstate[p] # "TERMINATED"
    <3>1. pstate[p] \in {"HALTED", "RUNNING"}
      BY <1>2, <2>3, Facts DEF State
    <3>2. ~Watched(p)
      BY <1>2, <2>3 DEF OwnInv, Own
    <3>3. own[p] \in lost
      BY <1>4, <1>7, <3>1, <3>2 DEF Watched
    <3>4. QED
      BY <1>4, <1>6, <3>3 DEF OwnInv, Lost, Gone
  <2>4. QED
    BY <2>1, <2>2, <2>3
<1>12. Lost'
  <2>1. \A a \in Addr : Live(a)' => tid[a] \notin lost'
    BY <1>1, <1>6, <1>10 DEF OwnInv, Lost
  <2>2. \A q \in Proc : Gone(q) => Gone(q)'
    BY <1>4, <1>6 DEF Gone
  <2>3. QED
    BY <1>1, <1>2, <1>4, <1>11, <2>1, <2>2 DEF OwnInv, Lost
<1>13. Own'
  <2>1. ASSUME NEW q \in Proc, Watched(q)' PROVE (Live(pthread[q]) /\ tid[pthread[q]] = own[q])'
    <3>1. q # p /\ own[q] # NONE /\ own[q] \notin lost' /\ pstate[q] \in {"HALTED", "RUNNING"}
      BY <1>1, <1>4, <2>1 DEF Watched
    <3>2. Watched(q)
      BY <1>1, <1>4, <3>1 DEF Watched
    <3>3. Live(pthread[q]) /\ tid[pthread[q]] = own[q] /\ pthread[q] \in Addr
      BY <3>1, <3>2, Facts DEF OwnInv, Own, Ids
    <3>4. pthread[q] # t
      <4>1. ASSUME pthread[q] = t PROVE FALSE
        <5>1. tid[t] = own[q] /\ own[q] # own[p]
          BY <1>2, <3>1, <3>3, <4>1 DEF OwnInv, Ids
        <5>2. QED
          BY <1>1, <3>1, <5>1
      <4>2. QED
        BY <4>1
    <3>5. Live(pthread[q])'
      BY <1>4, <1>6, <3>3, <3>4 DEF Live
    <3>6. QED
      BY <1>4, <3>3, <3>5
  <2>2. QED
    BY <1>4, <2>1 DEF Own
<1>14. QED
  BY <1>8, <1>9, <1>12, <1>13

\* A thread is created at an address the heap had back, with an id that nobody has had.
LEMMA NewThread ==
  ASSUME OwnInv, NEW a \in Addr, CreateWithId(a)
  PROVE  /\ thread_cid' = thread_cid + 1
         /\ \A b \in Addr : Live(b)' <=> Live(b) \/ b = a
         /\ \A b \in Addr : state'[b] # "FREED" <=> state[b] # "FREED" \/ b = a
         /\ \A b \in Addr : tid'[b] = IF b = a THEN thread_cid ELSE tid[b]
         /\ state[a] = "FREED" /\ cpu = Kernel
<1>1. /\ state[a] = "FREED" /\ cpu = Kernel
      /\ state' = [state EXCEPT ![a] = "HALTED"]
      /\ tid' = [tid EXCEPT ![a] = thread_cid]
      /\ thread_cid' = thread_cid + 1
  BY DEF CreateWithId, Create, NextId
<1>2. \A b \in Addr : state'[b] = IF b = a THEN "HALTED" ELSE state[b]
  BY <1>1, Facts
<1>3. \A b \in Addr : tid'[b] = IF b = a THEN thread_cid ELSE tid[b]
  BY <1>1, Facts
<1>4. QED
  BY <1>1, <1>2, <1>3 DEF Live

LEMMA TestThreadOwns ==
  ASSUME OwnInv, NEW a \in Addr, TestThread(a)
  PROVE  Loads' /\ Ids' /\ Lost' /\ Own'
<1>1. /\ thread_cid' = thread_cid + 1
      /\ \A b \in Addr : Live(b)' <=> Live(b) \/ b = a
      /\ \A b \in Addr : state'[b] # "FREED" <=> state[b] # "FREED" \/ b = a
      /\ \A b \in Addr : tid'[b] = IF b = a THEN thread_cid ELSE tid[b]
      /\ state[a] = "FREED"
  BY NewThread DEF TestThread
<1>2. /\ at = "cli" /\ at' = "ready"
      /\ UNCHANGED <<plist, pstate, pthread, pid, proc_id, proc, own, lost>>
  BY DEF TestThread, Kernel_at
<1>3. thread_cid \in Int /\ \A b \in Addr : tid[b] \in Int
  BY Facts
<1>4. Loads'
  BY <1>2 DEF OwnInv, Loads
<1>5. Ids'
  <2>1. \A b \in Addr : tid'[b] < thread_cid'
    BY <1>1, <1>3 DEF OwnInv, Ids
  <2>2. \A b, c \in Addr : state'[b] # "FREED" /\ state'[c] # "FREED" /\ tid'[b] = tid'[c] => b = c
    BY <1>1, <1>3 DEF OwnInv, Ids
  <2>3. \A p \in Proc : own[p] < thread_cid'
    BY <1>1, <1>3, Facts DEF OwnInv, Ids
  <2>4. \A id \in lost : id < thread_cid'
    BY <1>1, <1>3, Facts DEF OwnInv, Ids
  <2>5. QED
    BY <1>2, <2>1, <2>2, <2>3, <2>4 DEF OwnInv, Ids
<1>6. Lost'
  <2>1. thread_cid \notin lost /\ \A p \in Proc : own[p] # thread_cid
    BY <1>3, Facts DEF OwnInv, Ids
  <2>2. \A b \in Addr : Live(b)' => tid'[b] \notin lost
    BY <1>1, <2>1 DEF OwnInv, Lost
  <2>3. \A p \in Proc : Gone(p) => Gone(p)'
    BY <1>1, <1>2, <2>1 DEF Gone
  <2>4. QED
    BY <1>2, <2>2, <2>3 DEF OwnInv, Lost
<1>7. Own'
  <2>1. ASSUME NEW p \in Proc, Watched(p)' PROVE (Live(pthread[p]) /\ tid[pthread[p]] = own[p])'
    <3>1. Watched(p)
      BY <1>2, <2>1 DEF Watched
    <3>2. Live(pthread[p]) /\ tid[pthread[p]] = own[p] /\ pthread[p] \in Addr
      BY <3>1, Facts DEF OwnInv, Own, Ids, Watched
    <3>3. pthread[p] # a
      BY <1>1, <3>2 DEF Live
    <3>4. state'[pthread[p]] \in {"HALTED", "RUNNING"} /\ tid'[pthread[p]] = own[p]
      BY <1>1, <3>2, <3>3 DEF Live
    <3>5. QED
      BY <1>2, <3>4 DEF Live
  <2>2. QED
    BY <1>2, <2>1 DEF Own
<1>8. QED
  BY <1>4, <1>5, <1>6, <1>7

\* The new thread is the process's own.
LEMMA AttachOwns ==
  ASSUME OwnInv, NEW a \in Addr, Attach(a)
  PROVE  Loads' /\ Ids' /\ Lost' /\ Own'
<1>1. /\ thread_cid' = thread_cid + 1
      /\ \A b \in Addr : Live(b)' <=> Live(b) \/ b = a
      /\ \A b \in Addr : state'[b] # "FREED" <=> state[b] # "FREED" \/ b = a
      /\ \A b \in Addr : tid'[b] = IF b = a THEN thread_cid ELSE tid[b]
      /\ state[a] = "FREED"
  BY NewThread DEF Attach
<1>2. /\ at = "attach" /\ at' = "start"
      /\ pthread' = [pthread EXCEPT ![proc] = a]
      /\ own' = [own EXCEPT ![proc] = thread_cid]
      /\ UNCHANGED <<plist, pstate, pid, proc_id, proc, lost>>
  BY DEF Attach, Kernel_at
<1>3. thread_cid \in Int /\ (\A b \in Addr : tid[b] \in Int) /\ thread_cid # NONE
  BY Facts DEF NONE
<1>4. proc \in Proc /\ pstate[proc] = "HALTED"
  BY <1>2 DEF OwnInv, Own
<1>5. \A p \in Proc : /\ pthread'[p] = IF p = proc THEN a ELSE pthread[p]
                      /\ own'[p] = IF p = proc THEN thread_cid ELSE own[p]
  BY <1>2, Facts
<1>6. Loads'
  BY <1>2 DEF OwnInv, Loads
<1>7. thread_cid \notin lost /\ \A p \in Proc : own[p] # thread_cid
  BY <1>3, Facts DEF OwnInv, Ids
<1>8. Ids'
  <2>1. \A b \in Addr : tid'[b] < thread_cid'
    BY <1>1, <1>3 DEF OwnInv, Ids
  <2>2. \A b, c \in Addr : state'[b] # "FREED" /\ state'[c] # "FREED" /\ tid'[b] = tid'[c] => b = c
    BY <1>1, <1>3 DEF OwnInv, Ids
  <2>3. \A p \in Proc : own'[p] < thread_cid' /\ (own'[p] = NONE <=> pthread'[p] = NULL)
    <3>1. \A p \in Proc : own[p] < thread_cid + 1 /\ (own[p] = NONE <=> pthread[p] = NULL)
      BY <1>3, Facts DEF OwnInv, Ids
    <3>2. a # NULL /\ thread_cid < thread_cid + 1
      BY <1>3, Facts
    <3>3. QED
      BY <1>1, <1>3, <1>5, <3>1, <3>2
  <2>4. \A id \in lost : id < thread_cid'
    BY <1>1, <1>3, Facts DEF OwnInv, Ids
  <2>5. \A p, q \in Proc : own'[p] # NONE /\ own'[p] = own'[q] => p = q
    BY <1>5, <1>7 DEF OwnInv, Ids
  <2>6. QED
    BY <1>2, <2>1, <2>2, <2>3, <2>4, <2>5 DEF Ids
<1>9. Lost'
  <2>1. \A b \in Addr : Live(b)' => tid'[b] \notin lost
    BY <1>1, <1>7 DEF OwnInv, Lost
  <2>2. \A p \in Proc : p # proc /\ Gone(p) => Gone(p)'
    BY <1>1, <1>5, <1>7 DEF Gone
  <2>3. QED
    BY <1>2, <1>4, <2>1, <2>2 DEF OwnInv, Lost
<1>10. Own'
  <2>1. ASSUME NEW p \in Proc, Watched(p)' PROVE (Live(pthread[p]) /\ tid[pthread[p]] = own[p])'
    <3>1. CASE p = proc
      <4>1. state'[a] \in {"HALTED", "RUNNING"} /\ tid'[a] = thread_cid
        BY <1>1 DEF Live
      <4>2. QED
        BY <1>5, <3>1, <4>1 DEF Live
    <3>2. CASE p # proc
      <4>1. Watched(p)
        BY <1>2, <1>5, <2>1, <3>2 DEF Watched
      <4>2. Live(pthread[p]) /\ tid[pthread[p]] = own[p] /\ pthread[p] \in Addr
        BY <4>1, Facts DEF OwnInv, Own, Ids, Watched
      <4>3. pthread[p] # a
        BY <1>1, <4>2 DEF Live
      <4>4. state'[pthread[p]] \in {"HALTED", "RUNNING"} /\ tid'[pthread[p]] = own[p]
        BY <1>1, <4>2, <4>3 DEF Live
      <4>5. QED
        BY <1>5, <3>2, <4>4 DEF Live
    <3>3. QED
      BY <3>1, <3>2
  <2>2. QED
    BY <1>2, <1>4, <2>1 DEF Own
<1>11. QED
  BY <1>6, <1>8, <1>9, <1>10

\* RUN takes a process_t the heap had back: no slot held it.
LEMMA LoadOwns ==
  ASSUME OwnInv, NEW p \in Proc, Load(p)
  PROVE  Loads' /\ Ids' /\ Lost' /\ Own'
<1>1. /\ at = "cli" /\ pstate[p] = "FREED"
      /\ pstate' = [pstate EXCEPT ![p] = "HALTED"]
      /\ pthread' = [pthread EXCEPT ![p] = NULL]
      /\ own' = [own EXCEPT ![p] = NONE]
      /\ UNCHANGED <<vars, tid, thread_cid, lost>>
  BY DEF Load, Kernel_at
<1>2. \A q \in Proc : /\ pstate'[q] = IF q = p THEN "HALTED" ELSE pstate[q]
                      /\ pthread'[q] = IF q = p THEN NULL ELSE pthread[q]
                      /\ own'[q] = IF q = p THEN NONE ELSE own[q]
  BY <1>1, Facts
<1>3. UNCHANGED <<state, tid, thread_cid, lost>>
  BY <1>1 DEF vars
<1>4. \A i \in PSlot : plist[i] # p
  BY <1>1, Facts DEF OwnInv, Loads
<1>5. at' \in {"attach", "monitor"} /\ (at' = "attach" => proc' = p)
  BY DEF Load
<1>6. \/ plist' = plist
      \/ \E i \in PSlot : plist' = [plist EXCEPT ![i] = p]
  BY DEF Load, Least, FreePSlots
<1>7. Loads'
  <2>1. CASE plist' = plist
    BY <1>2, <2>1, Facts DEF OwnInv, Loads
  <2>2. ASSUME NEW i \in PSlot, plist' = [plist EXCEPT ![i] = p] PROVE Loads'
    <3>1. \A j \in PSlot : plist'[j] = IF j = i THEN p ELSE plist[j]
      BY <2>2, Facts
    <3>2. \A j \in PSlot : plist'[j] # NULL => pstate'[plist'[j]] # "FREED"
      BY <1>2, <3>1, Facts DEF OwnInv, Loads
    <3>3. \A j, k \in PSlot : plist'[j] # NULL /\ plist'[j] = plist'[k] => j = k
      BY <1>4, <3>1 DEF OwnInv, Loads
    <3>4. QED
      BY <3>2, <3>3 DEF Loads
  <2>3. QED
    BY <1>6, <2>1, <2>2
<1>8. Ids'
  <2>1. \A q \in Proc : own'[q] < thread_cid' /\ (own'[q] = NONE <=> pthread'[q] = NULL)
    <3>1. NONE < thread_cid
      BY Facts DEF NONE
    <3>2. QED
      BY <1>2, <1>3, <3>1 DEF OwnInv, Ids
  <2>2. \A q, r \in Proc : own'[q] # NONE /\ own'[q] = own'[r] => q = r
    BY <1>2 DEF OwnInv, Ids
  <2>3. QED
    BY <1>3, <2>1, <2>2 DEF OwnInv, Ids
<1>9. Lost'
  <2>1. \A a \in Addr : Live(a)' <=> Live(a)
    BY <1>3 DEF Live
  <2>2. \A q \in Proc : q # p /\ Gone(q) => Gone(q)'
    BY <1>2, <1>3, <2>1 DEF Gone
  <2>3. \A q \in Proc : pstate'[q] = "TERMINATED" => q # p /\ Gone(q)
    BY <1>2 DEF OwnInv, Lost
  <2>4. at' # "killed"
    BY <1>5
  <2>5. QED
    BY <1>3, <2>1, <2>2, <2>3, <2>4 DEF OwnInv, Lost
<1>10. Own'
  <2>1. ASSUME NEW q \in Proc, Watched(q)' PROVE (Live(pthread[q]) /\ tid[pthread[q]] = own[q])'
    <3>1. q # p
      BY <1>2, <2>1 DEF Watched
    <3>2. Watched(q)
      BY <1>1, <1>2, <1>3, <2>1, <3>1 DEF Watched
    <3>3. Live(pthread[q]) /\ tid[pthread[q]] = own[q]
      BY <3>2 DEF OwnInv, Own
    <3>4. QED
      BY <1>2, <1>3, <3>1, <3>3 DEF Live
  <2>2. QED
    BY <1>2, <1>5, <2>1 DEF Own
<1>11. QED
  BY <1>7, <1>8, <1>9, <1>10

\* A process is marked running, or terminated after its thread is gone.
LEMMA MarkOwns ==
  ASSUME OwnInv, NEW mark \in {"RUNNING", "TERMINATED"},
         proc \in Proc,
         pstate' = [pstate EXCEPT ![proc] = mark],
         mark = "RUNNING" => pstate[proc] \in {"HALTED", "RUNNING"} /\ at # "killed",
         mark = "TERMINATED" => Gone(proc),
         at' \notin {"attach", "start", "killed"},
         UNCHANGED <<vars, plist, pthread, pid, proc_id, tid, thread_cid, proc, own, lost>>
  PROVE  Loads' /\ Ids' /\ Lost' /\ Own'
<1>1. \A q \in Proc : pstate'[q] = IF q = proc THEN mark ELSE pstate[q]
  BY Facts
<1>2. UNCHANGED <<state, plist, pthread, tid, thread_cid, proc, own, lost>>
  BY DEF vars
<1>3. Loads'
  BY <1>1, <1>2, Facts DEF OwnInv, Loads
<1>4. Ids'
  BY <1>2 DEF OwnInv, Ids
<1>5. Lost'
  <2>1. \A q \in Proc : Gone(q)' <=> Gone(q)
    BY <1>2 DEF Gone, Live
  <2>2. \A q \in Proc : pstate'[q] = "TERMINATED" => Gone(q)
    BY <1>1 DEF OwnInv, Lost
  <2>3. \A a \in Addr : Live(a)' <=> Live(a)
    BY <1>2 DEF Live
  <2>4. QED
    BY <1>2, <2>1, <2>2, <2>3 DEF OwnInv, Lost
<1>6. Own'
  <2>1. ASSUME NEW q \in Proc, Watched(q)' PROVE Watched(q)
    <3>1. CASE q = proc
      <4>1. mark = "RUNNING"
        BY <1>1, <2>1, <3>1 DEF Watched
      <4>2. QED
        BY <1>2, <2>1, <3>1, <4>1 DEF Watched
    <3>2. CASE q # proc
      BY <1>1, <1>2, <2>1, <3>2 DEF Watched
    <3>3. QED
      BY <3>1, <3>2
  <2>2. ASSUME NEW q \in Proc, Watched(q)' PROVE (Live(pthread[q]) /\ tid[pthread[q]] = own[q])'
    BY <1>2, <2>1, <2>2 DEF OwnInv, Own, Live
  <2>3. QED
    BY <2>2 DEF Own
<1>7. QED
  BY <1>3, <1>4, <1>5, <1>6

\* The steps that only move the kernel thread in its loop.
LEMMA MoveOwns ==
  ASSUME OwnInv,
         UNCHANGED <<vars, plist, pstate, pthread, pid, proc_id, tid, thread_cid, proc, own, lost>>,
         at = "killed" => at' = at,
         at' = "killed" => at = at',
         at' = "start" => at \in {"attach", "start"},
         at' = "attach" => at = at'
  PROVE  Loads' /\ Ids' /\ Lost' /\ Own'
<1>1. UNCHANGED <<state, plist, pstate, pthread, tid, thread_cid, proc, own, lost>>
  BY DEF vars
<1>2. \A p \in Proc : Watched(p)' => Watched(p)
  BY <1>1 DEF Watched
<1>3. \A a \in Addr : Live(a)' <=> Live(a)
  BY <1>1 DEF Live
<1>4. \A p \in Proc : Gone(p)' <=> Gone(p)
  BY <1>1 DEF Gone, Live
<1>5. Loads' /\ Ids'
  BY <1>1 DEF OwnInv, Loads, Ids
<1>6. Lost'
  BY <1>1, <1>3, <1>4 DEF OwnInv, Lost
<1>7. Own'
  <2>1. ASSUME NEW q \in Proc, Watched(q)' PROVE (Live(pthread[q]) /\ tid[pthread[q]] = own[q])'
    BY <1>1, <1>2, <2>1 DEF OwnInv, Own, Live
  <2>2. at' \in {"attach", "start"} => proc' \in Proc /\ pstate'[proc'] = "HALTED"
    BY <1>1 DEF OwnInv, Own
  <2>3. QED
    BY <2>1, <2>2 DEF Own
<1>8. QED
  BY <1>5, <1>6, <1>7

\* The thread made ready was alive before.
LEMMA ReadyOwns ==
  ASSUME OwnInv, ReadyThread
  PROVE  Loads' /\ Ids' /\ Lost' /\ Own'
<1>1. /\ at = "ready" /\ at' = "monitor"
      /\ UNCHANGED <<plist, pstate, pthread, pid, proc_id, tid, thread_cid, proc, own, lost>>
  BY DEF ReadyThread, Kernel_at
<1>2. \A a \in Addr : /\ Live(a)' <=> Live(a)
                      /\ state'[a] # "FREED" <=> state[a] # "FREED"
  <2>1. CASE ReadyNull \/ ListFull
    BY <2>1 DEF ReadyNull, ListFull, Live
  <2>2. CASE Ready
    <3>1. state' = [state EXCEPT ![pending] = "RUNNING"] /\ pending # NULL
      BY <2>2 DEF Ready
    <3>2. state[pending] = "HALTED"
      BY <3>1 DEF OwnInv, PInv, Inv
    <3>3. \A a \in Addr : state'[a] = IF a = pending THEN "RUNNING" ELSE state[a]
      BY <3>1, Facts
    <3>4. QED
      BY <3>2, <3>3 DEF Live
  <2>3. QED
    BY <2>1, <2>2 DEF ReadyThread
<1>3. Loads'
  BY <1>1 DEF OwnInv, Loads
<1>4. Ids'
  BY <1>1, <1>2 DEF OwnInv, Ids
<1>5. Lost'
  <2>1. \A p \in Proc : Gone(p) => Gone(p)'
    BY <1>1, <1>2 DEF Gone
  <2>2. QED
    BY <1>1, <1>2, <2>1 DEF OwnInv, Lost
<1>6. Own'
  <2>1. ASSUME NEW q \in Proc, Watched(q)' PROVE (Live(pthread[q]) /\ tid[pthread[q]] = own[q])'
    <3>1. Watched(q)
      BY <1>1, <2>1 DEF Watched
    <3>2. Live(pthread[q]) /\ tid[pthread[q]] = own[q] /\ pthread[q] \in Addr
      BY <3>1, Facts DEF OwnInv, Own, Ids, Watched
    <3>3. Live(pthread[q])'
      BY <1>1, <1>2, <3>2 DEF Live
    <3>4. QED
      BY <1>1, <3>2, <3>3
  <2>2. QED
    BY <1>1, <2>1 DEF Own
<1>7. QED
  BY <1>3, <1>4, <1>5, <1>6

\* procmgr_monitor frees the process and forgets it: no other slot held it.
LEMMA MonitorOwns ==
  ASSUME OwnInv, Monitor
  PROVE  Loads' /\ Ids' /\ Lost' /\ Own'
<1>1. /\ at = "monitor" /\ at' = "cli"
      /\ UNCHANGED <<state, pthread, tid, thread_cid, proc, own, lost>>
  BY DEF Monitor, Kernel_at, vars
<1>2. CASE UNCHANGED <<plist, pstate>>
  <2>1. UNCHANGED <<vars, plist, pstate, pthread, pid, proc_id, tid, thread_cid, proc, own, lost>>
    BY <1>2 DEF Monitor
  <2>2. QED
    BY <1>1, <2>1, MoveOwns
<1>3. ASSUME NEW i \in PSlot, plist[i] # NULL, pstate[plist[i]] = "TERMINATED",
             plist' = [plist EXCEPT ![i] = NULL],
             pstate' = [pstate EXCEPT ![plist[i]] = "FREED"]
      PROVE  Loads' /\ Ids' /\ Lost' /\ Own'
  <2>1. \A j \in PSlot : plist'[j] = IF j = i THEN NULL ELSE plist[j]
    BY <1>3, Facts
  <2>2. \A q \in Proc : pstate'[q] = IF q = plist[i] THEN "FREED" ELSE pstate[q]
    BY <1>3, Facts
  <2>3. Loads'
    <3>1. \A j \in PSlot : plist'[j] # NULL => pstate'[plist'[j]] # "FREED"
      BY <1>3, <2>1, <2>2, Facts DEF OwnInv, Loads
    <3>2. \A j, k \in PSlot : plist'[j] # NULL /\ plist'[j] = plist'[k] => j = k
      BY <2>1 DEF OwnInv, Loads
    <3>3. QED
      BY <3>1, <3>2 DEF Loads
  <2>4. Ids'
    BY <1>1 DEF OwnInv, Ids
  <2>5. Lost'
    <3>1. \A q \in Proc : Gone(q)' <=> Gone(q)
      BY <1>1 DEF Gone, Live
    <3>2. \A q \in Proc : pstate'[q] = "TERMINATED" => pstate[q] = "TERMINATED"
      BY <2>2
    <3>3. \A a \in Addr : Live(a)' <=> Live(a)
      BY <1>1 DEF Live
    <3>4. QED
      BY <1>1, <3>1, <3>2, <3>3 DEF OwnInv, Lost
  <2>6. Own'
    <3>1. ASSUME NEW q \in Proc, Watched(q)' PROVE (Live(pthread[q]) /\ tid[pthread[q]] = own[q])'
      <4>1. Watched(q)
        BY <1>1, <2>2, <3>1 DEF Watched
      <4>2. QED
        BY <1>1, <4>1 DEF OwnInv, Own, Live
    <3>2. QED
      BY <1>1, <3>1 DEF Own
  <2>7. QED
    BY <2>3, <2>4, <2>5, <2>6
<1>4. QED
  BY <1>2, <1>3 DEF Monitor, Cleanable, Least

-----------------------------------------------------------------------------
LEMMA TypeKept == ASSUME OwnInv, [ProcNext]_allVars PROVE ProcTypeOK'
<1>1. PInv'
  BY ProcNextInv DEF OwnInv
<1>2. TypeOK' /\ plist' \in [PSlot -> Proc \cup {NULL}] /\ pthread' \in [Proc -> Addr \cup {NULL}]
  BY <1>1 DEF PInv, Inv, ThreadsOfPrograms
<1> DEFINE T == /\ pstate' \in [Proc -> State]
                /\ pid' \in [Proc -> 0 .. PROC_IDS]
                /\ proc_id' \in 0 .. PROC_IDS
                /\ tid' \in [Addr -> 0 .. THREAD_IDS]
                /\ thread_cid' \in 2 .. THREAD_IDS
                /\ at' \in At
                /\ proc' \in Proc \cup {NULL}
                /\ own' \in [Proc -> 0 .. THREAD_IDS \cup {NONE}]
                /\ lost' \subseteq 0 .. THREAD_IDS
<1>3. /\ pstate \in [Proc -> State] /\ pid \in [Proc -> 0 .. PROC_IDS]
      /\ proc_id \in 0 .. PROC_IDS /\ tid \in [Addr -> 0 .. THREAD_IDS]
      /\ thread_cid \in 2 .. THREAD_IDS /\ at \in At /\ proc \in Proc \cup {NULL}
      /\ own \in [Proc -> 0 .. THREAD_IDS \cup {NONE}] /\ lost \subseteq 0 .. THREAD_IDS
      /\ pthread \in [Proc -> Addr \cup {NULL}] /\ plist \in [PSlot -> Proc \cup {NULL}]
  BY DEF OwnInv, ProcTypeOK
<1>4. THREAD_IDS \in Nat /\ PROC_IDS \in Nat
  BY ProcessesAssumption
<1>5. /\ {"HALTED", "RUNNING", "TERMINATED", "FREED"} \subseteq State
      /\ {"cli", "attach", "start", "ready", "killed", "monitor"} \subseteq At
  BY DEF State, At
<1>6. ASSUME NEW p \in Proc, Load(p) PROVE T
  <2>1. /\ pstate' = [pstate EXCEPT ![p] = "HALTED"] /\ own' = [own EXCEPT ![p] = NONE]
        /\ proc_id < PROC_IDS /\ at' \in {"attach", "monitor"}
        /\ UNCHANGED <<tid, thread_cid, lost>>
        /\ \/ UNCHANGED <<pid, proc_id, proc>>
           \/ /\ pid' = [pid EXCEPT ![p] = proc_id]
              /\ proc_id' = proc_id + 1
              /\ proc' = p
    BY <1>6 DEF Load, NextId
  <2>2. pstate' \in [Proc -> State] /\ own' \in [Proc -> 0 .. THREAD_IDS \cup {NONE}] /\ at' \in At
    BY <1>3, <1>5, <2>1
  <2>3. pid' \in [Proc -> 0 .. PROC_IDS] /\ proc_id' \in 0 .. PROC_IDS /\ proc' \in Proc \cup {NULL}
    BY <1>3, <1>4, <2>1
  <2>4. QED
    BY <1>3, <2>1, <2>2, <2>3
<1>7. ASSUME NEW a \in Addr, CreateWithId(a)
      PROVE  tid' \in [Addr -> 0 .. THREAD_IDS] /\ thread_cid' \in 2 .. THREAD_IDS
  BY <1>3, <1>4, <1>7 DEF CreateWithId, NextId
<1>8. ASSUME NEW a \in Addr, Attach(a) PROVE T
  <2>1. own' \in [Proc -> 0 .. THREAD_IDS \cup {NONE}]
    <3>1. own' = [own EXCEPT ![proc] = thread_cid]
      BY <1>8 DEF Attach
    <3>2. thread_cid \in 0 .. THREAD_IDS
      BY <1>3, <1>4
    <3>3. QED
      BY <1>3, <3>1, <3>2
  <2>2. at' \in At
    BY <1>5, <1>8 DEF Attach
  <2>3. QED
    BY <1>3, <1>7, <1>8, <2>1, <2>2 DEF Attach
<1>9. ASSUME NEW a \in Addr, TestThread(a) PROVE T
  <2>1. at' \in At
    BY <1>5, <1>9 DEF TestThread
  <2>2. QED
    BY <1>3, <1>7, <1>9, <2>1 DEF TestThread
<1>10. ASSUME NEW id, Kill(id) PROVE T
  <2>1. PICK p \in ById(id) :
          pthread[p] # NULL /\ proc' = p /\ lost' = lost \cup ({tid[pthread[p]]} \ {own[p]})
    BY <1>10 DEF Kill
  <2>2. p \in Proc
    BY <1>3, <2>1 DEF ById, Least
  <2>3. pthread[p] \in Addr
    BY <1>3, <2>1, <2>2
  <2>4. at' \in At /\ UNCHANGED <<pstate, pid, proc_id, tid, thread_cid, own>>
    BY <1>5, <1>10 DEF Kill
  <2>5. lost' \subseteq 0 .. THREAD_IDS
    BY <1>3, <2>1, <2>3
  <2>6. QED
    BY <1>3, <2>1, <2>2, <2>4, <2>5
<1>11. ASSUME AttachFails \/ ReadyThread \/ NoCommand \/ (\E id \in 0 .. PROC_IDS : KillFails(id))
       PROVE  T
  <2>1. at' \in At /\ UNCHANGED <<pstate, pid, proc_id, tid, thread_cid, proc, own, lost>>
    BY <1>5, <1>11 DEF AttachFails, ReadyThread, NoCommand, KillFails
  <2>2. QED
    BY <1>3, <2>1
<1>12. ASSUME StartProcess \/ KillMarks PROVE T
  <2>1. /\ at' \in At /\ UNCHANGED <<pid, proc_id, tid, thread_cid, proc, own, lost>>
        /\ \/ pstate' = [pstate EXCEPT ![proc] = "RUNNING"]
           \/ pstate' = [pstate EXCEPT ![proc] = "TERMINATED"]
    BY <1>5, <1>12 DEF StartProcess, KillMarks, Marked
  <2>2. pstate' \in [Proc -> State]
    BY <1>3, <1>5, <2>1
  <2>3. QED
    BY <1>3, <2>1, <2>2
<1>13. ASSUME Monitor PROVE T
  <2>1. at' \in At /\ UNCHANGED <<pid, proc_id, tid, thread_cid, proc, own, lost>>
    BY <1>5, <1>13 DEF Monitor
  <2>2. \/ pstate' = pstate
        \/ \E i \in Cleanable : pstate' = [pstate EXCEPT ![plist[i]] = "FREED"]
    BY <1>13 DEF Monitor
  <2>3. pstate' \in [Proc -> State]
    BY <1>3, <1>5, <2>2
  <2>4. QED
    BY <1>3, <2>1, <2>3
<1>14. ASSUME ThreadExit PROVE T
  <2>1. UNCHANGED <<pstate, pid, proc_id, tid, thread_cid, at, proc, own>>
    BY <1>14 DEF ThreadExit
  <2>2. lost' = lost \cup {tid[cpu]} /\ cpu \in Addr
    BY <1>14 DEF ThreadExit, OwnInv, ProcTypeOK, TypeOK
  <2>3. QED
    BY <1>3, <2>1, <2>2
<1>15. ASSUME TimerTick \/ UNCHANGED allVars PROVE T
  BY <1>3, <1>15 DEF TimerTick, allVars, procVars
<1>16. T
  BY <1>6, <1>8, <1>9, <1>10, <1>11, <1>12, <1>13, <1>14, <1>15 DEF ProcNext, KernelStep
<1>17. QED
  BY <1>2, <1>16 DEF ProcTypeOK

LEMMA OwnNext == ASSUME OwnInv, [ProcNext]_allVars PROVE OwnInv'
<1>1. ProcTypeOK' /\ PInv'
  BY TypeKept, ProcNextInv DEF OwnInv
<1> DEFINE Rest == Loads' /\ Ids' /\ Lost' /\ Own'
<1>2. ASSUME NEW a \in Addr, Attach(a) \/ TestThread(a) PROVE Rest
  BY <1>2, AttachOwns, TestThreadOwns
<1>3. ASSUME NEW p \in Proc, Load(p) PROVE Rest
  BY <1>3, LoadOwns
<1>4. ASSUME NEW id \in 0 .. PROC_IDS, Kill(id) PROVE Rest
  BY <1>4, KillOwns
<1>5. ASSUME StartProcess PROVE Rest
  <2>1. proc \in Proc /\ pstate[proc] = "HALTED" /\ at = "start"
    BY <1>5 DEF StartProcess, Kernel_at, OwnInv, Own
  <2>2. /\ pstate' = [pstate EXCEPT ![proc] = "RUNNING"] /\ at' = "ready"
        /\ UNCHANGED <<vars, plist, pthread, pid, proc_id, tid, thread_cid, proc, own, lost>>
    BY <1>5 DEF StartProcess
  <2>3. QED
    BY <2>1, <2>2, MarkOwns
<1>6. ASSUME KillMarks PROVE Rest
  <2>1. proc \in Proc /\ Gone(proc)
    BY <1>6 DEF KillMarks, Kernel_at, OwnInv, Lost
  <2>2. /\ pstate' = [pstate EXCEPT ![proc] = "TERMINATED"] /\ at' = "monitor"
        /\ UNCHANGED <<vars, plist, pthread, pid, proc_id, tid, thread_cid, proc, own, lost>>
    BY <1>6 DEF KillMarks, Marked
  <2>3. QED
    BY <2>1, <2>2, MarkOwns
<1>7. ASSUME AttachFails \/ NoCommand \/ UNCHANGED allVars
             \/ \E id \in 0 .. PROC_IDS : KillFails(id)
      PROVE  Rest
  <2>1. UNCHANGED <<vars, plist, pstate, pthread, pid, proc_id, tid, thread_cid, proc, own, lost>>
    BY <1>7 DEF AttachFails, NoCommand, KillFails, allVars, procVars
  <2>2. \/ at = "attach" /\ at' = "start"
        \/ at = "cli" /\ at' = "monitor"
        \/ at' = at
    BY <1>7 DEF AttachFails, NoCommand, KillFails, Kernel_at, allVars, procVars
  <2>3. QED
    BY <2>1, <2>2, MoveOwns
<1>8. ASSUME ReadyThread \/ Monitor \/ ThreadExit \/ TimerTick PROVE Rest
  BY <1>8, ReadyOwns, MonitorOwns, ExitOwns, TickOwns
<1>9. Rest
  BY <1>2, <1>3, <1>4, <1>5, <1>6, <1>7, <1>8 DEF ProcNext, KernelStep
<1>10. QED
  BY <1>1, <1>9 DEF OwnInv

LEMMA ProcessesSane == ProcSpec => []OwnInv
<1>1. ProcInit => OwnInv
  BY ProcInitInv, ProcTypeInit, OwnInit DEF OwnInv
<1>2. OwnInv /\ [ProcNext]_allVars => OwnInv'
  BY OwnNext
<1>3. QED
  BY <1>1, <1>2, PTL DEF ProcSpec

\* Every variable of the program commands keeps its type.
THEOREM ProcessesTyped == ProcSpec => []ProcTypeOK
<1>1. OwnInv => ProcTypeOK
  BY DEF OwnInv
<1>2. QED
  BY <1>1, ProcessesSane, PTL

\* KILL reaches the thread that RUN made, however the timer interleaves and however
\* often the heap gives the addresses of ended threads to new ones, as long as the
\* program's thread has not ended before: of that nothing tells the process.
THEOREM KillReachesOwn == ProcSpec => []PointsToOwn
<1>1. OwnInv => PointsToOwn
  <2> SUFFICES ASSUME OwnInv, NEW p \in Proc,
                      Loaded(p), pstate[p] = "RUNNING", pthread[p] # NULL,
                      own[p] \notin lost, ~(at = "killed" /\ proc = p)
               PROVE  state[pthread[p]] \in {"HALTED", "RUNNING"} /\ tid[pthread[p]] = own[p]
    BY DEF PointsToOwn
  <2>1. own[p] # NONE
    BY DEF OwnInv, Ids
  <2>2. Watched(p)
    BY <2>1 DEF Watched
  <2>3. QED
    BY <2>2 DEF OwnInv, Own, Live
<1>2. QED
  BY <1>1, ProcessesSane, PTL

\* procmgr_monitor gives a process_t back to the heap only when the thread made for it
\* will not run again.
THEOREM MonitorFreesEnded == ProcSpec => FreedWhenEnded
<1> DEFINE Ends == \A p \in Proc : (pstate[p] # "FREED" /\ pstate'[p] = "FREED") =>
                     \A a \in Addr : ~(state[a] \in {"HALTED", "RUNNING"} /\ tid[a] = own[p])
<1>1. ASSUME OwnInv, [ProcNext]_allVars PROVE Ends
  <2> SUFFICES ASSUME NEW p \in Proc, pstate[p] # "FREED", pstate'[p] = "FREED"
               PROVE  Gone(p)
    BY DEF Gone, Live
  <2>1. CASE Monitor
    <3>1. PICK i \in Cleanable : pstate' = [pstate EXCEPT ![plist[i]] = "FREED"]
      BY <2>1 DEF Monitor
    <3>2. pstate[plist[i]] = "TERMINATED" /\ plist[i] = p
      BY <3>1, Facts, <1>1 DEF Cleanable, Least
    <3>3. QED
      BY <1>1, <3>2 DEF OwnInv, Lost
  <2>2. ASSUME NEW q \in Proc, Load(q) PROVE FALSE
    <3>1. pstate' = [pstate EXCEPT ![q] = "HALTED"]
      BY <2>2 DEF Load
    <3>2. QED
      BY <1>1, <3>1, Facts
  <2>3. ASSUME StartProcess \/ KillMarks PROVE FALSE
    <3>1. \/ pstate' = [pstate EXCEPT ![proc] = "RUNNING"]
          \/ pstate' = [pstate EXCEPT ![proc] = "TERMINATED"]
      BY <2>3 DEF StartProcess, KillMarks, Marked
    <3>2. QED
      BY <1>1, <3>1, Facts
  <2>4. pstate' # pstate
    OBVIOUS
  <2>5. \A a \in Addr : ~Attach(a) /\ ~TestThread(a)
    BY <2>4 DEF Attach, TestThread
  <2>6. \A id \in 0 .. PROC_IDS : ~Kill(id) /\ ~KillFails(id)
    BY <2>4 DEF Kill, KillFails
  <2>7. ~AttachFails /\ ~ReadyThread /\ ~NoCommand /\ ~ThreadExit /\ ~TimerTick
    BY <2>4 DEF AttachFails, ReadyThread, NoCommand, ThreadExit, TimerTick, procVars
  <2>8. ~UNCHANGED allVars
    BY <2>4 DEF allVars, procVars
  <2>9. QED
    BY <1>1, <2>1, <2>2, <2>3, <2>5, <2>6, <2>7, <2>8 DEF ProcNext, KernelStep
<1>2. QED
  BY <1>1, ProcessesSane, PTL DEF ProcSpec, FreedWhenEnded
=============================================================================
