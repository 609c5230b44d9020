------------------------------ MODULE BlockTable ------------------------------
(***************************************************************************)
(* The block table of the file system, the fs_blktable_ functions of       *)
(* src/kernel/filesys/filesys.c: entries on the disk that describe runs of *)
(* consecutive sectors.  Entry 0, the mass entry, is the never-yet-used    *)
(* top of the disk.                                                        *)
(*                                                                         *)
(* Every operation re-reads the table and writes it back one sector at a   *)
(* time.  A step here is what lies between two of those writes, and the    *)
(* machine may stop between any two: the next boot mounts the disk as it   *)
(* is (fs_mount repairs nothing).  Operations do not overlap: the file     *)
(* system is called from the kernel thread only.                           *)
(*                                                                         *)
(* The history variable `faults` records the events that damage the table; *)
(* no action reads it.                                                     *)
(***************************************************************************)
EXTENDS Integers, FiniteSets

CONSTANTS
  COUNT_MAX,     \* fs_info.blk_table_count_max, the entries of the table
  PER_SECTOR,    \* the entries in one sector of the table
  UINT,          \* 2^32: sector numbers and counts are uint32_t
  DATA_START,    \* fs_info.blk_data_start
  DISK_END,      \* blk_data_start + blk_data_sector_count
  FILE_SECTORS,  \* fs_info.file_table_sector_count
  Sizes          \* the sector counts callers allocate

ASSUME BlockTableAssumption ==
  /\ COUNT_MAX \in Nat /\ COUNT_MAX >= 2
  /\ PER_SECTOR \in Nat \ {0}
  /\ UINT \in Nat
  /\ DATA_START \in Nat \ {0}
  /\ DISK_END \in Nat /\ DISK_END < UINT
  /\ FILE_SECTORS \in Nat \ {0}
  /\ DATA_START + FILE_SECTORS =< DISK_END
  /\ Sizes \subseteq 1 .. UINT - 1

VARIABLES
  table,   \* the table on the disk
  pc,      \* where the running operation is
  scan,    \* the index its loop has come to
  local,   \* the entry it holds in a local variable
  below,   \* merge_free's `mass` in its first loop: the start of the block below the mass entry
  faults   \* history: the damaging events so far

vars == <<table, pc, scan, local, below, faults>>

Index == 0 .. COUNT_MAX - 1
At    == {"idle", "carved", "merge", "delete", "fold", "clear"}

\* Granting or merging sectors that somebody holds, and losing sectors nobody holds.
Overlaps == {"mass_exhausted", "false_merge", "crash_merge", "crash_fold"}
Leaks    == {"table_full", "crash_alloc"}

Wrap(x) == x % UINT
Least(S) == {i \in S : \A j \in S : i =< j}

NULL_BLKENTRY == [start |-> 0, count |-> 0, state |-> "FREE"]
Empty(e) == e.start = 0 \/ e.count = 0

\* fs_format, up to the root directory: the mass entry and the block of the file table.
Init ==
  /\ table = [i \in Index |->
       CASE i = 0 -> [start |-> DATA_START + FILE_SECTORS,
                      count |-> DISK_END - DATA_START - FILE_SECTORS, state |-> "FREE"]
         [] i = 1 -> [start |-> DATA_START, count |-> FILE_SECTORS, state |-> "USED"]
         [] OTHER -> NULL_BLKENTRY]
  /\ pc = "idle" /\ scan = 0 /\ local = NULL_BLKENTRY /\ below = 0
  /\ faults = {}

\* An operation ends, and its local variables with it.
Done == pc' = "idle" /\ scan' = 0 /\ local' = NULL_BLKENTRY /\ below' = 0

-----------------------------------------------------------------------------
(* fs_blktable_allocate.  Its search for a FREE block of the same size     *)
(* accepts only entries for which fs_blktable_validate_sector holds, which *)
(* compares the entry's first DATA sector with the bounds of the TABLE     *)
(* (and its end with the length of the table): no entry of a formatted     *)
(* disk passes, so every allocation carves the mass entry.                 *)

Carved(s) == [start |-> Wrap(table[0].start + s), count |-> Wrap(table[0].count - s),
              state |-> "FREE"]

\* The mass entry is written back smaller, whatever is left of it.
Allocate(s) ==
  /\ pc = "idle"
  /\ table' = [table EXCEPT ![0] = Carved(s)]
  /\ local' = [start |-> Wrap(Carved(s).start - s), count |-> s, state |-> "USED"]
  /\ pc' = "carved"
  /\ faults' = IF s > table[0].count THEN faults \cup {"mass_exhausted"} ELSE faults
  /\ UNCHANGED <<scan, below>>

FreeIndexes == {i \in Index : table[i] = NULL_BLKENTRY}      \* fs_blktable_freeindex

\* fs_blktable_create_entry: the lowest empty entry describes the block.
CreateEntry ==
  /\ pc = "carved"
  /\ \/ \E i \in Least(FreeIndexes) :
          /\ table' = [table EXCEPT ![i] = local]
          /\ UNCHANGED faults
     \/ /\ FreeIndexes = {}
        /\ faults' = faults \cup {"table_full"}
        /\ UNCHANGED table
  /\ Done

-----------------------------------------------------------------------------
(* fs_blktable_free and fs_blktable_merge_free.                            *)

Equals(e) == {i \in Index : table[i] = e}

\* fs_blktable_nearest: the first entry, of any state, that ends where the FREE block e
\* starts or that starts one size of e below it.
Nearest(t, e) ==
  Least({i \in Index \ {0} :
    /\ ~Empty(e) /\ e.state = "FREE" /\ ~Empty(t[i])
    /\ \/ Wrap(t[i].start + t[i].count) = e.start
       \/ Wrap(e.start - e.count) = t[i].start})

StartBelow(t) ==
  IF Nearest(t, t[0]) = {} THEN 0 ELSE t[CHOOSE i \in Nearest(t, t[0]) : TRUE].start

\* Callers pass the entry at a file's block index; the first entry equal to it is freed.
Free(i) ==
  /\ pc = "idle"
  /\ table[i].start # 0
  /\ \E k \in Least(Equals(table[i])) : table' = [table EXCEPT ![k].state = "FREE"]
  /\ below' = StartBelow(table')
  /\ pc' = "merge" /\ scan' = 1
  /\ UNCHANGED <<local, faults>>

AbsorbsHeld(i, n) ==                 \* the test of nearest.state forgotten
  /\ i >= scan /\ ~Empty(table[i]) /\ table[i].state = "FREE"
  /\ n \in Nearest(table, table[i])
  /\ table[n].start # table[i].start /\ table[n].start # below

\* The entries from scan on for which the body of the first loop merges something.
Absorbs(i, n) ==
  /\ i >= scan /\ ~Empty(table[i]) /\ table[i].state = "FREE"
  /\ n \in Nearest(table, table[i])
  /\ table[n].start # table[i].start /\ table[n].start # below /\ table[n].state = "FREE"

Absorbing == {i \in Index \ {0} : \E n \in Index : Absorbs(i, n)}

GrownNot(e, n) == [e EXCEPT !.start = n.start]    \* the count of n not added
Grown(e, n) == [start |-> IF e.start > n.start THEN n.start ELSE e.start,
                count |-> Wrap(e.count + n.count), state |-> "FREE"]

\* Entry i is written back with the block of entry n in it ...
MergeGrow ==
  /\ pc = "merge"
  /\ \E i \in Least(Absorbing), n \in Index :
       /\ Absorbs(i, n)
       /\ table' = [table EXCEPT ![i] = Grown(table[i], table[n])]
       /\ local' = table[n]
       /\ scan' = i + 1
       /\ faults' = IF table[n].start + table[n].count = table[i].start
                      THEN faults ELSE faults \cup {"false_merge"}
  /\ pc' = "delete"
  /\ UNCHANGED below

NotDeleted(e) == {table}                          \* a merge without the deletion
Deleted(e) == {[table EXCEPT ![k] = NULL_BLKENTRY] : k \in Least(Equals(e))}

\* ... and fs_blktable_delete_entry clears the first entry equal to what entry n was; when
\* there is none, merge_free gives up.
MergeDelete ==
  /\ pc = "delete"
  /\ \/ /\ table' \in Deleted(local)
        /\ pc' = "merge" /\ local' = NULL_BLKENTRY
        /\ UNCHANGED <<scan, below>>
     \/ Equals(local) = {} /\ Done /\ UNCHANGED table
  /\ UNCHANGED faults

\* The second loop: from scan on, the entries that end at the mass entry.
Foldable ==
  {i \in Index \ {0} :
     /\ i >= scan /\ ~Empty(table[i]) /\ table[i].state = "FREE"
     /\ Wrap(table[i].start + table[i].count) = table[0].start}

MergeEnds ==
  /\ pc = "merge"
  /\ Absorbing = {}
  /\ pc' = "fold" /\ scan' = 1 /\ below' = 0
  /\ UNCHANGED <<table, local, faults>>

\* The mass entry is written back with the block of entry i in it ...
Fold ==
  /\ pc = "fold"
  /\ \E i \in Least(Foldable) :
       /\ table' = [table EXCEPT ![0] =
            [start |-> table[i].start, count |-> Wrap(table[0].count + table[i].count),
             state |-> "FREE"]]
       /\ scan' = i
  /\ pc' = "clear"
  /\ UNCHANGED <<local, below, faults>>

\* ... entry i is cleared, and the loop goes on in the next sector of the table.
FoldClear ==
  /\ pc = "clear"
  /\ table' = [table EXCEPT ![scan] = NULL_BLKENTRY]
  /\ pc' = "fold" /\ scan' = ((scan \div PER_SECTOR) + 1) * PER_SECTOR
  /\ UNCHANGED <<local, below, faults>>

FoldEnds ==
  /\ pc = "fold"
  /\ Foldable = {}
  /\ Done
  /\ UNCHANGED <<table, faults>>

\* The machine stops in the middle of an operation and mounts the disk again.
Crash ==
  /\ pc # "idle"
  /\ faults' = faults \cup (CASE pc = "carved" -> {"crash_alloc"}
                              [] pc = "delete" -> {"crash_merge"}
                              [] pc = "clear"  -> {"crash_fold"}
                              [] OTHER         -> {})
  /\ Done
  /\ UNCHANGED table

Next ==
  \/ \E s \in Sizes : Allocate(s)
  \/ CreateEntry
  \/ \E i \in Index \ {0, 1} : Free(i)
  \/ MergeGrow
  \/ MergeDelete
  \/ MergeEnds
  \/ Fold
  \/ FoldClear
  \/ FoldEnds
  \/ Crash

Spec == Init /\ [][Next]_vars

-----------------------------------------------------------------------------
UInt  == 0 .. UINT - 1
Entry == [start : UInt, count : UInt, state : {"FREE", "USED"}]

TypeOK ==
  /\ table \in [Index -> Entry]
  /\ pc \in At
  /\ scan \in 0 .. COUNT_MAX + PER_SECTOR
  /\ local \in Entry
  /\ below \in UInt
  /\ faults \subseteq Overlaps \cup Leaks

Sectors == DATA_START .. DISK_END - 1
In(a, e) == e.start =< a /\ a < e.start + e.count

\* The entry an interrupted operation has yet to clear.
Doomed(i) ==
  \/ pc = "delete" /\ table[i] = local
  \/ pc = "clear" /\ i = scan

Undamaged == faults \cap Overlaps = {}

\* No sector is described by two entries but for the one a merge is about to clear: two
\* files never share a sector, and free space never covers a file, however operations
\* are cut short, unless one of the damaging events has happened (fs_blktable_allocate,
\* fs_blktable_merge_free).
NoOverlap ==
  Undamaged =>
    \A i, j \in Index :
      (i # j /\ ~Doomed(i) /\ ~Doomed(j)) => \A a \in Sectors : ~(In(a, table[i]) /\ In(a, table[j]))

\* Every sector is described by some entry, or is being handed out: nothing leaks unless
\* the table was full or the machine stopped in the middle of an allocation.
NothingLost ==
  faults = {} =>
    \A a \in Sectors : (\E i \in Index : In(a, table[i])) \/ (pc = "carved" /\ In(a, local))

Held == {[ptr |-> table[i].start, size |-> table[i].count] :
           i \in {k \in Index : table[k].state = "USED"}}

A == INSTANCE Allocator WITH live <- Held, DATA_BASE <- DATA_START, DATA_END <- DISK_END

\* The block table keeps the abstract allocator's promise until the first damaging event:
\* a block is granted only from sectors nobody holds, one block is given up by a free, and
\* neither merging nor a crash at any point changes what is held.
AllocatorPromise ==
  [][faults' \cap Overlaps = {} => (A!Next /\ pc \in {"idle", "carved"}) \/ Held' = Held]_vars

=============================================================================
