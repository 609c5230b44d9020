# A verification project for NapalmtorchOS

NapalmtorchOS is a 32-bit x86 hobby kernel: it boots from GRUB, manages its own heap, switches
threads from the timer interrupt, keeps a small file system on an ATA disk, loads ELF programs
and offers a command line. These modules model the parts of it that keep state others rely on;
TLC checks them on small instances and TLAPS proves some of the results for every instance.
The repository has no documentation and no tests. Everything here is read from the code
(paths below are relative to the repository: `kernel/...` stands for `src/kernel/...`), and what
the code is compared with are its own comments and help texts.

## 1. The system

### Components, their state and their operations

| Component | Source | State | Operations |
|---|---|---|---|
| Heap | `kernel/system/memmgr.c` | `mm_table` of entries (ptr, size, state), `mm_info.data_used` | `mm_allocate`, `mm_free` with `mm_merge_nearest` |
| Scheduler, threads | `kernel/system/taskmgr.c`, `thread.c`, `tswitch.asm` | `taskmgr_list`, `taskmgr_index`, `taskmgr_current`, `taskmgr_count`; per thread its state and saved registers | `thread_create`, `taskmgr_ready_thread`, `taskmgr_terminate`, `thread_exit`, `taskmgr_schedule` + `switch_thread` |
| Processes | `kernel/runtime/process.c`, `elf.c` | `proc_list`; per process state, id, thread | `procmgr_load_file`, `elf_attach`, `procmgr_start`, `procmgr_terminate`, `procmgr_monitor` |
| Block table | `kernel/filesys/filesys.c` 205-566 | the table of sector runs, on the disk | `fs_blktable_allocate`, `free`, `merge_free`, `create_entry`, `delete_entry`, `get_index` |
| File table | `kernel/filesys/filesys.c` 568-1226, `vfs.c` | the flat table of directories and files, on the disk; `fs_rootdir` | resolving a path; creating, writing, renaming, copying, deleting; `fs_mount` |
| Keyboard, command line | `kernel/hardware/devices/input/keyboard_ps2.c`, `kernel/system/cli.c`, `lib/stream.c`, `strsplit` of `lib/string.c` | the input buffer, `kbps2_keymap`, `cli_executing`, `cli_args` | the IRQ 1 handler; `cli_monitor`, `cli_execute` |
| Terminal | `kernel/system/terminal.c` | cursor, colours, size | writing, new line, scrolling, deleting |
| Boot, services, interrupts | `kernel/core/kernel.c`, `kernel/system/service.c`, `kernel/hardware/interrupts/` | `services_list`, `isr_handlers`, the interrupt flag | `kernel_boot`, `kernel_before_run`, `service_register/start`, `irq_register`, `irq_handler`, `pit_handler` |
| Volume | `kernel/filesys/filesys.c` 15-156, 568-581 | the information sector, `fs_info`, `fs_rootdir` | `fs_format`, `fs_wipe`, `fs_root_create`, `fs_mount` |
| Timer, clock | `kernel/hardware/common/pit.c`, `rtc.c`, `lib/time.c` | counters; the time last read | `pit_calculate`, `rtc_read`, `time_pack`, `time_unpack`, `time_string_*` |
| Libraries | `lib/string.c`, `common.c`, `memory.c` | callers' buffers, `string_t` | the string functions, numbers to and from text |
| Paging | `kernel/hardware/common/paging.c` | one page directory | `paging_map` |
| Disk driver | `kernel/hardware/devices/storage/ata_pio.c` | none | `atapio_read`, `atapio_write` |
| Output | `kernel/graphics/`, `video/`, `serial.c`, `debug.c` | pixels, a serial port | drawing, printing, panic |
| Commands, tools | `kernel/system/commands/`, `appmaker/`, `disk/` | none | |

### How they interact

After the boot there is one processor and three kinds of context on it: the kernel thread, which
loops over `cli_monitor` and `procmgr_monitor` and executes every command; the idle thread and
the threads of programs; and interrupts. The timer interrupt calls `taskmgr_schedule` and may
take the processor from any thread between any two instructions that do not lie between `cli`
and `sti`; the keyboard interrupt writes into the buffer the command line reads. Threads call
the heap; the scheduler calls it inside the timer interrupt to free ended threads; programs call
it through a table of function pointers. The file system is called by the kernel thread alone.
A panic prints with interrupts off and halts: in the modules it is a state nothing leaves.

### What is hard, and what correctness means

* **Heap.** Blocks are carved from one "mass" entry, merged by a loop that deletes from the table
  it walks, and matched by exact size. Correct: two callers never hold the same byte, no memory is
  lost, and the figure that decides whether to grant a request is exact. The heap has no lock and is
  entered by the timer's handler and by programs in the middle of the kernel's own calls; correct is
  then that it is damaged only where a call uses what it read before the interruption.
* **Scheduler.** `taskmgr_current` is stale between ticks, ended threads are freed by the interrupt
  handler of another thread, the slot search has no bound. Correct: the registers of a thread are
  saved into that thread, nothing freed is reachable, every thread gets its turn.
* **Processes.** Nothing connects the end of a thread with its process; commands are preempted at
  every step; addresses are used again. Correct: KILL ends the right thread, no process structure
  is freed under a running thread, killed processes are cleaned up.
* **Block and file tables.** Each operation is a series of disk writes that a power failure cuts
  anywhere, mounting repairs nothing, and references between the tables are positions. Correct: no
  two files share a sector, a file reads back what was written, no sectors leak, paths lead to
  their entries, directories form a tree, listings are complete, and no entry falls out of the part of
  the table that is searched. Names are copied without their end (`strcpy`), so a shorter name over a
  longer one does not take its place.
* **Volume.** Formatting is a series of writes over what is there. Correct: a disk that shows a root
  can be used, however often formats were cut short, and the boot sector survives.
* **Command line.** The buffer has no lock; Enter is polled. Correct: the command that runs is the
  line typed, one press is one command, every Enter held is answered.
* **Terminal.** Two variables hold the cursor, two handlers and every thread write them, and there is
  no lock. Correct: whatever was lost in between, the cursor is on the screen once nobody is writing.
* **Boot.** Interrupts come on in the middle of it: by the disk driver, by `rtc_init` and by
  `taskmgr_ready_thread`, before the keyboard is ready. Correct: no service is used before it is
  registered and initialized, and the keyboard answers at the prompt.
* **Clock.** A register is selected with interrupts off and read with interrupts on. Correct: each
  field of `rtc_time` gets its own register's value, and the time shown is the one that was read.
* **Libraries.** Strings whose end is not copied, numbers at the end of their type, a buffer grown at
  every append. Correct: the string is what the calls promise, a number reads back as itself.
* **Paging, spinlocks**: section 6.

The hazards behind these, each at its line and with the properties that would catch it, are
listed in `PROJECT.json`.

## 2. The modules

| Module | Models | Correspondence |
|---|---|---|
| `Allocator` | what a user of an allocator may count on | `live`: the blocks handed out. Implemented by `Heap` and by `BlockTable` |
| `Heap` | the heap | `table`, `data_used` are `mm_table`, `mm_info.data_used`; one step per `mm_allocate`; `mm_free` is `Free` and then one step per iteration of the merge loop (`scan`) |
| `HeapPreempted` | a call of the heap interrupted by others | extends `Heap`; one *slow* call goes through memmgr.c with a step for every load from and store to the table and the counter, as the unoptimised build makes them: `pc` is the next one, `at`, `near`, `del` the indexes of the loops it is in, `reg` what it has loaded; `Whole` is a step of a call by the timer's handler or another thread, which ends before the slow one goes on |
| `Multitasking` | what the kernel promises about threads | implemented by `Scheduler` |
| `Scheduler` | threads and the timer | variables named after the source's globals; `context[t]` is whose registers thread `t`'s save area holds, `cpu` whose instructions run. Operations under `cli` are one step; `Tick` is `taskmgr_schedule` with `switch_thread` |
| `Processes` | RUN, KILL, TESTTHREAD, the monitor | extends `Scheduler`; `at` is the kernel thread's place in its loop; each step of it is preemptible |
| `BlockTable` | the block table | one step per disk write, `pc`, `scan`, `local` and `below` the running operation's locals, `Crash` between any two writes |
| `Files` | file operations over `BlockTable` | `fpc`, `op`, `blk`, `pos` the file operation's locals; its block table calls are the actions of `BlockTable` |
| `EntryName` | the name field of an entry | `strcpy` into it leaves what lies behind the new name; a name as long as the field leaves no end |
| `Directories` | paths, the tree, listing | a path is the sequence of its parts; `Scan`, `Walk` are the loops of `fs_parent_from_path`; every loop sees the sectors below `max_used` only, which `fs_info_write` computes in a step of its own; a name without an end is read on into `parent_index` (`NameOf`), and the model ends at a name longer than its field (`Overrun`) |
| `Volume` | formatting and mounting | `disk` is every sector, with the kind of record it holds; one step per disk write; `Use` stands for what `Files` does in between |
| `Console` | keyboard and command line | `Keyboard` is the interrupt handler, which runs between any two steps of `Cli`; clearing goes cell by cell |
| `Terminal` | the cursor | `cx`, `cy` are `term_cx`, `term_cy`; `call[t]` is where in `terminal.c` a thread is and `reg[t]` what it is about to store; a thread's step is one access, a handler's the whole function |
| `Boot` | `kernel_boot` to the main loop, services, interrupt handlers, the clock | extends `Terminal`; `stage` is the boot's next step, a service's registration and its start being two; `waiting` and `irq1` are the keyboard controller, `reading` and `chosen` where each caller of `rtc_read` is |
| `Numbers` | `itoa`, `ultoa`, `atol`, `strhex`, `ftoa`, the character classes | functions; `UINT` is the width |
| `Strings` | `string.c` and `memory.c` on a caller's buffer, `term_vprintf`'s numbers | `buf` is the buffer, `text` the string the calls promise |
| `StringObject` | `string_t` | `data`, `length`; `blocks` counts what it has allocated |
| `TimeOfDay` | `rtc_read`'s decoding, `lib/time.c`, `pit_calculate` | variables named after the source's |
| `Library` | the last four | a behaviour is one of buffer, object, clock and timer, which share nothing |
| `MC*` | values and state constraints for TLC | |
| `*Proofs` | theorems and proofs | |

`Processes` composes the scheduler with the process manager and is shown to implement it;
`Files` composes the file table with the block table, and `Volume` shows that formatting ends in the initial
states of `BlockTable` and `Directories` (`VolumeSound`). `Boot` runs the terminal's steps on the threads
and handlers that call it, at the times they can, and is shown to implement `Terminal`.

Of the hardware, `Boot` takes three things as given, because the code is written for them: the keyboard
controller signals the first scancode that waits and another only when the one before has been read (a
key that `irq_handler` acknowledges without a handler is never read, and the keyboard is silent from
then on); an interrupt is not delivered again before its end has been signalled, which `irq_handler`
does after the handler has returned; and a processor with interrupts off takes none.

Variables marked *history* or *ghost* are written and never read by the modelled code. Most
important among them are `faults` (`Heap`, `BlockTable`), `ffaults` (`Files`), `races`
(`HeapPreempted`), `events` (`Volume`) and `slips` (`Strings`): they name the
events in which this code damages its own structures. The properties say that without those
events all is well: the list of events is complete, which is what the model checker and the
proofs establish. The events are:

| Event | Where | What happens |
|---|---|---|
| `mass_exhausted` | `memmgr.c:190`, `filesys.c:259` | the mass entry has less than the request and wraps around |
| `mass_used` | `memmgr.c:181` | the mass entry itself is handed out as an exact fit |
| `false_merge` | `memmgr.c:213`, `filesys.c:317` | the neighbour test takes one size of the wrong entry: a block that starts that far below but is of another size is merged |
| `crash_merge`, `crash_fold` | `filesys.c:356`, `387` | the machine stops between the two writes of a merge |
| `crash_alloc`, `table_full` | `filesys.c:261-262`, `705` | sectors leave the mass entry and reach no entry, or no file |
| `no_block`, `shifted` | `vfs.c:334`, `filesys.c:538` | an entry is written for a file that was given no block, or with the wrong index |
| `found` | `memmgr.c:181-183`, `160-163` | another call takes the block a slow call has found to fit, or frees or merges away the one it is freeing |
| `mass`, `slot` | `memmgr.c:189-193`, `266-271` | the mass entry, or the empty entry found, changes while it is carved or filled |
| `merge`, `fold` | `memmgr.c:227-237`, `246-254`, `277-284` | one of the two entries to be joined changes between the loads that decide so and the last store that clears the second |
| `count` | `memmgr.c:148`, `164` | an update of `data_used` is lost; no block is affected |
| `kept`, `too_small` | `filesys.c:30` | a format keeps old tables, as it does not wipe or its wiping ends before them, or is of a disk too small for its own |
| `label` | `filesys.c:572` | the root's new name is copied over a longer one |
| `boot_as_table` | `filesys.c:15-24` | a format without room in the block table put the file table at sector 0 |
| `not_ended`, `shorter` | `string.c:6-25`, `70-80` | what is behind the copied characters is not an end |
| `too_far`, `compared` | `string.c:52-63`, `153-157` | `strnset` goes beyond the end; `strncmp` assigns a character instead of comparing |
| `crash_replace`, `crash_create` | `filesys.c:1201-1205`, `1134-1147` | the machine stops while a file's entry and its block disagree |

## 3. What the runs check

| Run | Instance | Shows |
|---|---|---|
| `heap` | 5 entries, 12 addresses in pages of 2, requests of 1, 2, 3, 6 | `NoOverlap`, `NothingLost`, `Accounting`, and that held blocks stay put (`AllocatorPromise`) |
| `heap_preempted` | 4 entries, 6 addresses in pages of 2, requests of 2 and 4 | `HeapSurvives`: no damage without one of the named races, and none to blocks from `count` |
| `scheduler` | 5 slots, 4 threads besides kernel and idle | `NoDangling`, `ContextsKept`, `NeverRecurses`; refinement of `Multitasking`; `KernelRuns`, `EveryTurn`, `EndedReaped` under fairness |
| `processes` | 4 slots, 2 program threads, 2 process slots, 3 process structures, thread ids up to 4, process ids up to 3 | `PointsToOwn`, `FreedWhenEnded`, `KilledCleaned`; the system still implements `Scheduler` |
| `blocks` | 6 entries, 3 to a sector, 7 free sectors, sizes 1 to 3 | `NoOverlap`, `NothingLost`, `AllocatorPromise`, with crashes |
| `files` | 2 files, the names x and xy in fields of 2, 2 values, 5 block entries, 4 free sectors | `OwnBlock`, `ReadsBack`, `NoLeak`, with crashes |
| `directories` | 4 entries, 2 to a sector, the names a and ab in fields of 2, paths of up to 3 parts | `Acyclic`, `EveryEntrySeen`, `Resolves`, `ListingExact`, `OperationsExact`, with crashes |
| `volume` | 13 sectors, 4 block entries, 4 file entries, formats of 4, 10 and 13 sectors, wiped or not | `VolumeSound`, `BootSectorKept`, with crashes |
| `library` | a buffer of 6, 4 words, bytes as words (width 256), 14 moments, 40 ticks | `StringsKept`, `NumbersReadBack`, `TimeKept` |
| `parent_path` | the same | *violation*: with /ab the only directory and the root untouched, a path through a missing one is resolved |
| `boot` | two threads, a screen of 2 by 2, five services in five slots, two registers, two scancodes waiting | `CursorOnScreen`, `KeyboardAnswers`, `ReadsOwnRegister` |
| `console` | a buffer of 5, one letter and the space | `CommandIsTyped`, `BoundsNeedNoLuck`, `OneRunPerPress`, `EnterAnswered`, `ReadyAgain` |

Type correctness, which includes that every C integer keeps its width, is stated in the modules
(`TypeOK`, `ProcTypeOK`) and proved for the heap, the scheduler, the processes, the block table, the
directories, the console and, as parts of their invariants, the files, the terminal and the boot; so is
`CountCovers`, by which THREADS copies every thread. The runs check the properties that go beyond it.
Every property of a passing run has a mutant: a change to a definition that a slip in the code
could be, under which TLC finds the property violated.

### Bounds, and why they are enough

* **Heap**: four blocks besides the mass entry are needed for a merge to chain over two neighbours
  with a held block left; a page of two makes requests smaller than blocks; six is a request larger
  than half of the region, so that the mass entry runs out while the total would do. Table full,
  region full, wrap-around (width 32) and all three events occur.
* **Preempted heap**: three pages hold two blocks and the mass entry, four entries those and an empty one, which
  is enough for each of the six races, for the mass entry to be handed out and for a panic (each was confirmed
  reachable). Of the pieces in which `memset` clears a pointer, cut at 2^16 and 2^24 in the code, the instance cuts
  at 4 and 8, so that its addresses differ in two of the three. One call is slow, others come whole, and
  a second slow call inside the first is not explored. A behaviour is followed until its first damaging
  event, and no further slow call is made after a race (`Followed`).
* **Scheduler**: three slots for programs are the least in which a thread starves behind one that
  is created and reaped below it, and an address comes back in another slot; the list can be full.
  `count` grows for ever in the code; above the number of slots its values are one.
* **Processes**: two process slots make a hole below a killed process; the id counters are bounded
  (`THREAD_IDS`, `PROC_IDS`), which allows three processes and two thread creations,
  enough for an address to be used again by another's thread.
* **Block table**: merging below, merging above, both folds, a full table and an empty mass entry
  all occur. State constraint `Explored`: once a damaging event has happened the operation is
  followed to its end and no further, because no property speaks about what follows.
* **Files**: two files are the least that can disturb each other; of their names one begins the other and
  fills the field, and an uninitialised name field holds zeros or what makes the shorter name the longer,
  with no end. Files lie in the root directory, whose index, 0, ends such a string. Permutations of
  the values are a symmetry: they are only compared for equality, and no liveness is checked.
  `Explored` as above.
* **Directories**: depth three is the least at which a middle part can be missing, two sectors the least
  in which an entry can lie outside the searched part. Names as in Files; in a directory that is
  not the root a name without an end runs on and equals none of the names in the instance's paths. Tables whose root was renamed or
  deleted are explored up to two entries only (`Explored`).
* **Volume**: four block entries can be full when the disk is formatted again; the smaller size cuts the
  second table off, so that a crash meets tables of two formats; and a
  wiping of four sectors ends before the tables.
* **Library**: all numbers of the type that are at an end, change their number of digits or their sign, of
  eight bits instead of 32; noon, midnight and both ends of the year; 40 ticks are twenty milliseconds and
  five of the run's seconds, which have four of them in place of 1001. The hexadecimal form of four bytes needs a
  longer buffer than the run's, and is covered by the proof. The timer's counters do not wrap around in the
  model: `pit_millis_total` has 32 bits and does so after 49 days.
* **Console**: five cells hold two words and the space between, an empty word and a full buffer. The
  model ends when a bound is left; what lies behind the buffer is not modelled.

* **Boot**: two threads are the least that can lose an update of the cursor, and `DRIFT` lets one more
  writer start while it is already off the screen; a screen of two by two has a first and a last row and
  column that differ. Of the clock's seven registers two tell a right from a wrong one, and the handler
  reads them at every second interrupt (`HALF`) instead of every 512th. All services fit exactly. A panic
  halts the machine, so deadlock is not an error in this run.

### Fairness

* `WF(Tick)`: the timer is programmed once, in `pit_init`; every handler and every `cli` section
  of the modelled code ends with interrupts on (`switch_thread` executes `sti` itself), so an
  interrupt that is due is taken. Nothing is assumed of the threads.
* `SF(KernelStep)` in `Processes`: a time slice is half a millisecond, thousands of instructions, so
  a kernel thread that gets the processor again and again (which `KernelRuns` shows under `WF(Tick)`
  alone) makes progress in its loop, whose waits are none. It is strong fairness because the steps
  are disabled while another thread has the processor.
* `WF(Cli)` in `Console`: the kernel thread polls for ever and its commands return. The keyboard is
  not fair: keys may never come. A held key that is released between two polls is missed, which is
  why `EnterAnswered` has an alternative.

`EveryTurn` and `EndedReaped` carry a condition the code really needs: after reaping a thread the
turn returns to slot 0 (`taskmgr.c:127`), so threads above one that is created and ends again and
again may starve. `KernelRuns` needs no such condition.

## 4. What is proved

TLAPS checks the proofs for every value of the constants under the named assumptions beside them:
`HeapAssumption`, `SchedulerAssumption`, `ProcessesAssumption`, `BlockTableAssumption`,
`FilesAssumption`, `EntryNameAssumption`, `DirectoriesAssumption`, `VolumeAssumption`, `ConsoleAssumption`,
`TerminalAssumption`, `BootAssumption`, `NumbersAssumption`, `StringsAssumption`, `StringObjectAssumption`,
`TimeAssumption`. They say no more than that sizes are positive, that the region fits the word, that the
kernel and idle threads are distinct addresses, that a table fills its sectors, that names are
strings (sequences) and the empty name is one of them, that an integer has 8 to 32 bits, that the characters
of strings are those of ASCII without NUL, and that the clock shows moments of 2000 to 2099 (`rtc.c` adds the
century to two digits).

* **Heap** (`HeapProofs`): `HeapTyped`, `HeapDisjoint`, `HeapComplete`, `HeapKeepsPromise`, and
  `HeapRefines`: without corrupting events it implements `Allocator`. `NoOverlap` alone is not
  inductive, because a carve is only disjoint from the rest if the mass entry is the top of the
  region. `Shape` adds that, and that every other entry is empty or a block of positive size inside
  the region. Its preservation has one lemma per operation; `ShapeJoin` is the heart and serves
  merging and folding alike: an entry that grows by exactly the neighbour that is cleared keeps
  everything disjoint and covered. The carve rests on the mass entry having enough, which is what
  the absence of `mass_exhausted` says. `HeapAccounts` (`Accounting`) is about a sum over the table: its terms
  are the volumes of held blocks, a volume is the cardinality of the block's bytes, and a sum that changes in
  one term changes by that term; wrapping around cancels because every count stays within the word.
* **Preempted heap** (`HeapProofs`, from its section on how often an address is described): `HeapPreemptedSurvives`
  (`HeapSurvives`). While a slow call is between two of its steps the table is neither the one before nor
  the one after, and whole calls in between may merge, carve and free, so `NoOverlap` is no part of an
  invariant. What is kept is a count: for every address of the machine, `Times` says how many entries
  describe it, an entry being an arc (`Arc`) on the circle of 2^32 addresses, because a half-moved mass
  entry may wrap around. A slow call changes at most two entries; `before` is what they were when it decided
  to, `seen` what it has made of them so far. `Described` says that the count of every address is one inside the
  region and none outside, but for what `seen` describes and `before` did not, and the other way round.
  `StagedCarve` and `StagedJoin` say how far `seen` has got at each place; at their ends `seen` and `before`
  describe the same addresses, and both are forgotten (`Settles`). A whole call adds an arc where it takes an
  equal one away, so it keeps the count without having to know where the slow call is (`GroundWhole`);
  a store of the slow call keeps it if the entry it changes still is as `seen`, and otherwise it is a race
  (`ChangeFirst`, `ChangeSecond`). `Balance` is the same for `data_used`, with `Owed` for what is held and not yet
  counted. Back at rest nothing is extra or owed, and a count of one everywhere is `NoOverlap` and
  `NothingLost`. That a call nobody interrupts meets no race is the other half: `Knows` says, for every
  place, which of the things it has loaded are still so (`Alone`).
* **Scheduler** (`ProcessesProofs`, first part): `Inv` adds to the type invariant that kernel and idle keep slots
  0 and 1 and never end, that every running or terminated thread is listed exactly once, and
  `list[index] = cpu`: the slot of the index is always the running thread's. From it
  `SchedulerNoDangling`, `SchedulerKeepsContexts`, `SchedulerNeverRecurses`, `SchedulerCounts` follow, and
  the refinement `SchedulerRefines` has a step lemma per operation.
* **Processes** (`ProcessesProofs`, second part): `ProcessesRefineScheduler` maps each step of the commands to a
  step of `Scheduler` or none. It needs `PInv`: a process's thread pointer is never the kernel's or
  idle thread's, so KILL cannot end those. `ProcessesKeepScheduler` carries the scheduler's results over.
  `ProcessesTyped`, `KillReachesOwn` (`PointsToOwn`) and `MonitorFreesEnded` (`FreedWhenEnded`) come from
  `OwnInv`: thread ids are never given twice, a process that has been given no id yet is the one RUN is
  loading, an entry lost from the list belongs to nobody, and a pointer whose thread has been freed is
  found out by the id its owner had. That last part is why an address that is used again does no harm.
* **Block table** (`FilesProofs`, first part): `BlockTableTyped`, `BlocksApart` (`NoOverlap`), `NoSectorLost`
  (`NothingLost`) and `BlockTableKeepsPromise`, the refinement of `Allocator` with every crash. The
  argument is the heap's, but an operation is a series of writes, and between the two writes of a
  merge two entries cover the same sectors: `TableSound` says that everything is disjoint and covered but
  for the one entry that the running merge has still to clear (`Pending`), and a crash at that point is
  the event `crash_merge` or `crash_fold`.
* **Files** (`FilesProofs`, second part): `FilesOwnBlocks` (`OwnBlock`), `FilesReadBack` (`ReadsBack`) and `NoBlockLeaks`
  (`NoLeak`). Every step of a file operation is shown to be a step of `BlockTable` or none, so
  `TableSound` holds throughout; on top of it `FileInv` says what each point of each operation knows about
  its entry and block. A file refers to its block by position, so two facts about the table carry it:
  freeing and merging leave every held entry where it is, and the index that `fs_blktable_get_index` counts is
  the block's own unless an entry before it is empty and the mass entry is gone, which is `shifted`.
* **Directories** (`DirectoriesProofs`): nothing is assumed of what an uninitialised name field holds, so a name may
  have no end and read as a longer one. `DirectoriesTyped`; `NoDirectoryInItself` (`Acyclic`), by a least
  counterexample along the parent references; `EntriesStaySeen` (`EveryEntrySeen`), about the two steps
  in which `max_used` is behind the table; and `PathsLeadToEntries` (`Resolves`), `ListingsAreExact`
  (`ListingExact`), `OperationsAreExact` (`OperationsExact`), which compare the loops with
  definitions that know no order. For these the scan of the table is brought into closed form (`ScanExact`: the
  first entry that matches, and nothing behind it is looked at), the walk along a path is shown to
  follow the parents (`WalkExact`), and the names from the root to an entry, which are defined by
  levels, are shown to settle after as many levels as there are entries (`PathsSettle`). What creating, deleting and
  renaming do to the tree is then one lemma each.
* **Volume** (`VolumeProofs`): `VolumesAreSound` (`VolumeSound`) and `BootSectorSurvives` (`BootSectorKept`). The
  invariant has three layers. `VolumeTyped` holds whatever happens: sectors can be read, and the file table
  is at its place or at 0. `RoomForFiles` needs that no format kept old tables: then the block table is empty
  when the mass entry is written, so the file table gets entry 1 and the root directory never lands on
  sector 0. `DiskSound` needs that the format was large enough too: it says how far the tables have got at
  each write, and that a root which a mount would find (`HasRoot`) implies complete tables, which is what a
  crash leaves behind. The proof showed that wiping is not what protects the boot sector: a format with wiping
  that ends before the block table keeps the old one, and a full one sends the root directory to sector 0.
* **Console** (`ConsoleProofs`): `ConsoleTyped`; `ConsoleOneRunPerPress` from `PressPending`: Enter down and
  nothing executing means a press that has not been used; `ConsoleBounds` (`BoundsNeedNoLuck`) from
  `Splitting`: at each string the copied ones number the spaces passed; and `ConsoleRunsWhatIsTyped`
  (`CommandIsTyped`) from `Echoed` (the buffer is what was typed, as long as no key comes too late) and
  `Divided` (what is copied so far are the first words of that line), with words counted by the ends up to
  a position (`Rank`).
* **Boot and terminal** (`BootProofs`): `BootImplementsTerminal` maps a step of the kernel to one of the
  terminal's or none, so `BootCursorOnScreen` is the terminal's own result. Its invariant `TermInv`
  says that an off-screen column or row has a witness: a thread in `terminal.c` that has yet to make
  the test which puts it right. `BootReadsOwnRegister` rests on `RtcInv`: while a thread is in the clock's
  handler the interrupt has not been ended, hence no other thread is, and what is selected is the
  register that thread is at. `BootKeyboardAnswers` needs `Slots >= 5`; `KbInv` says which slots and flags
  each stage of the boot has filled, and that a key that waits has its interrupt pending.

* **Libraries** (`LibraryProofs`): `LibraryStringsKept` (`StringsKept`), `LibraryNumbersReadBack`
  (`NumbersReadBack`) and `LibraryTimeKept` (`TimeKept`), for every width of 8 to 32 bits, every buffer and every
  moment. What is printed is a function defined recursively over the number; TLA+ promises a value for
  such a definition only if a function with that equation exists, which `RecursionExists` shows
  where each number goes down to a smaller one. What is read is a fold over the characters;
  `StepsExist` and `ValueIs` give its value on every beginning of the string, from which `ValueAppend` says what one
  more digit does. With these, `UltoaReads`, `SignedReads`, `StrhexReads` and `FtoaReads` are one division
  with remainder per digit, and `AtolReads` follows because wrapping at each digit is wrapping once. The
  invariant has four parts. `StringInv`: the buffer holds the promised string and its NUL (`Holds`), and a number
  it shows is the one printed; one lemma per string function. `ObjectInv`: the block of a `string_t` is
  the string, its NUL and no more. `ClockInv`: the stored time is the promised one of what was asked, the
  packed one is its packing, and what is shown is its text; the text is then parted at
  the characters a reader looks for, which no number contains. `TimerInv`: `total` and `ticks` are what
  the counters below them add up to.

Some of these need an induction over positions, sizes or levels. The library's induction theorems are out
of the provers' reach, so such an argument is made as a least counterexample in a well-founded set
(`WFMin` with `NatLessThanWellFounded`, or with `FS_StrictSubsetOrderingWellFounded` over finite sets).

Only model-checked are the liveness properties (`KernelRuns`, `EveryTurn`, `EndedReaped`, `KilledCleaned`,
`EnterAnswered`, `ReadyAgain`): fairness is outside the prover's reach. Every safety property of a passing run is a
theorem.

## 5. Where the code and its own words disagree

One run, `parent_path`, ends in a counterexample against a comment it quotes in `PROJECT.json`:
`fs_parent_from_path` does not return empty for a path through a missing directory
(`filesys.c:829-849`): its loop skips the part that is missing and looks for the next one where it stands. In the
run's table the root is untouched and /ab is the only directory, and the parent of /a/ab/a is /ab.

Three more disagreements follow from the models and need no run of their own. `taskmgr_schedule`
says it updates the current thread, but `taskmgr_current` names the thread switched away from until the
next tick, so heap blocks are recorded with the wrong owner (`taskmgr.c:104-110`; `SwitchTo` of
`Scheduler`). KILL's help speaks of thread ids (`cli.h:37`) but the command looks its argument up among the
processes, which are counted separately (`Kill` of `Processes`). And `fs_blktable_get_index` returns
the index of another entry once the mass entry is used up (`filesys.c:525-538`), which is the event
`shifted` of `Files`.

What the library modules state as exceptions is what the code does: `atol` keeps the low 32 bits, so a number
too large for them reads as another one, and anything that is no number reads as 0; `term_vprintf` prints `%u`
through the signed conversion; an hour of the 12-hour clock from noon to one in the morning is decoded
wrongly, and a clock in binary mode has no century; the timer's second has 1001 ms. `string_append` of
an empty string clears one byte behind a block that the string fills. None of the `time_*` functions is
called at this commit.

Modelling also showed code that has no effect at this commit: the search of `fs_blktable_allocate`
for a free block compares data sectors with the bounds of the table and never matches, so space
returns only by folding into the mass entry; `pause` is never called, so no listed thread is halted; the
recursion in `taskmgr_schedule` and its early return are unreachable (proved); the mutating file
operations are reachable from no command, and are modelled as an interface.

## 6. Not modelled, and the plan

What could still be added to the models:

1. VMODE, which changes the screen's size under the terminal: `term_width` and `term_height` stay.
2. A second slow call inside the first in `HeapPreempted`. Left out there are also the loads nothing depends on (those
   of `mm_validate_entry` when it may not panic, and of the `mm_get_nearest` whose result line 242 throws away),
   the clearing of a block's contents and the owner's field of an entry.
3. What a name longer than its field does to the entry behind it (`Overrun` of `Directories`): the renamings and
   `fs_file_create` leave characters in `parent_index`, the size and the block index.
4. The characters `strsplit` measures one by one (`Console` takes its counting loops as one step), and the read at
   `cli.c:156`: a key that comes there has already changed the line, which `disturbed` says.

Of the properties the runs check, those that no theorem states are the liveness properties (section 4).

Not modelled, and why:

* **Paging.** RUN maps a program's 4 MB region again while an older program of the same address may
  still run, and nothing flushes the TLB (`paging.c`, `elf.c:73`): whether the copy of the new image
  lands in the old one's memory, and which of the two the old thread continues in, depends on the
  processor's cache. The physical block of an ended program is never freed.
* **Spinlock.** Its values are swapped (`thread.h:5-6`): taking it neither waits nor excludes, and the modules
  treat it as nothing. What it would protect are counters for a printed percentage;
  `taskmgr_calculate_cpu_usage` (`taskmgr.c:87`) and THREADS (`cmd_threads.c:17`) read them, and the
  threads, with interrupts on, and may look at a thread that was freed meanwhile.
* **KILL of an id nobody has** prints the name of a process at address 0 (`process.c:82`); what lies there
  is outside the model, which lets the command change nothing. VIEW -t prints a block as a string that may
  have no end (`cmd_view.c:16`); looking up "/" as a file reads an uninitialised pointer
  (`filesys.c:901-909`): the models call it with names only.
* **System calls** (`syscall.c`): the table of functions a program asks for is allocated anew at every call
  and never freed (`elf.c:9`: `method_table_loaded` is never set); what the calls do
  to the heap is in `HeapPreempted`.

Left out for good: pixels and logging (no state another part reads), port input and
output of the drivers (a sector is read or written in one step, as every caller uses it), the
multiboot header, real-mode calls, CPU identification, the informational commands, the sample
programs and the build scripts.
