-------------------------------- MODULE Files --------------------------------
(***************************************************************************)
(* Files: the fs_file_ and fs_filetable_ functions of                      *)
(* src/kernel/filesys/filesys.c and the file operations of vfs.c, on top   *)
(* of BlockTable.tla.  A file operation is a sequence of disk writes, some *)
(* of them those of the block table, and the machine may stop between any  *)
(* two.  Paths are Directories.tla's subject: here every file is in the    *)
(* root directory and a path is a name, kept in a field (EntryName.tla).   *)
(*                                                                         *)
(* A file is named by its index in the file table; `wrote` remembers what  *)
(* was last written to it in full, and `ffaults` the events that damage    *)
(* files (no action reads either).                                         *)
(***************************************************************************)
EXTENDS BlockTable, EntryName

CONSTANTS
  FMAX,    \* fs_info.file_table_count_max: the files the table has room for
  Name,    \* file names that the field has room for
  Value,   \* what a caller writes: the value of every sector it writes
  Stack,   \* what an uninitialised name field of a local variable may hold: anything
  JUNK,    \* a sector that no file's data was written to
  TORN     \* history: a file that is being written

ASSUME FilesAssumption ==
  /\ FMAX \in Nat \ {0}
  /\ JUNK \notin Value /\ TORN \notin Value /\ TORN # JUNK
  /\ \A n \in Name : Fits(n)

VARIABLES
  ftable,  \* the file entries of the file table
  data,    \* the contents of the data sectors
  fpc,     \* where the running file operation is
  op,      \* its arguments
  blk,     \* the block it was given
  pos,     \* i of its write loop
  wrote,   \* history: the value a file has, TORN while that is undecided
  ffaults  \* history: the damaging events so far

fvars   == <<ftable, data, fpc, op, blk, pos, wrote, ffaults>>
allVars == <<vars, fvars>>

Slots == 1 .. FMAX
Lens  == Sizes \cup {0}                  \* fs_bytes_to_sectors of a caller's byte count
NONE  == -1                              \* the index of no block entry
NULL_FILE == [name |-> Blank, size |-> 0, blk_index |-> 0]
NoOp  == [kind |-> "none", slot |-> 0, name |-> <<>>, len |-> 0, value |-> JUNK]

FInit ==
  /\ Init
  /\ ftable = [i \in Slots |-> NULL_FILE]
  /\ data = [a \in Sectors |-> JUNK]
  /\ fpc = "idle" /\ op = NoOp /\ blk = NULL_BLKENTRY /\ pos = 0
  /\ wrote = [i \in Slots |-> JUNK]
  /\ ffaults = {}

FDone == fpc' = "idle" /\ op' = NoOp /\ blk' = NULL_BLKENTRY /\ pos' = 0

Files == {i \in Slots : ftable[i] # NULL_FILE}
ByName(n)  == Least({i \in Files : Str(ftable[i].name) = n})       \* fs_get_file_byname
FreeFiles  == Least(Slots \ Files)                            \* fs_filetable_freeindex

\* fs_blktable_get_index counts the entries that are not empty up to the first equal one.
GetIndex(e) ==
  {Cardinality({j \in Index : j < i /\ ~Empty(table[j])}) : i \in Least(Equals(e))}

BlockIndex(e) == IF Empty(e) THEN NONE ELSE CHOOSE n \in GetIndex(e) : TRUE
\* fs_blktable_at_index and fs_blktable_read.
AtIndex(n) == IF n = NONE THEN NULL_BLKENTRY ELSE table[n]

\* The table operation a file operation has called returns before it goes on.
At_(place) == fpc = place /\ pc = "idle"

Running(o, place) == op' = o /\ fpc' = place

-----------------------------------------------------------------------------
(* Calls of the block table.                                               *)

\* fs_blktable_allocate on behalf of operation o; of no sectors it does nothing.
AllocateFor(o, place) ==
  /\ Running(o, place)
  /\ IF o.len = 0 THEN UNCHANGED vars ELSE Allocate(o.len)
  /\ UNCHANGED <<ftable, data, blk, pos, ffaults>>

BlockStep ==
  /\ \/ CreateEntry /\ blk' = IF FreeIndexes = {} THEN NULL_BLKENTRY ELSE local
     \/ (MergeGrow \/ MergeDelete \/ MergeEnds \/ Fold \/ FoldClear \/ FoldEnds) /\ UNCHANGED blk
  /\ UNCHANGED <<ftable, data, fpc, op, pos, wrote, ffaults>>

-----------------------------------------------------------------------------
(* fs_file_write of a path that names no file, and vfs_copy_file.          *)

StartNew(n, len, v) ==
  /\ At_("idle")
  /\ ByName(n) = {} /\ len > 0                        \* "Cannot create blank file"
  /\ AllocateFor([NoOp EXCEPT !.kind = "new", !.name = n, !.len = len, !.value = v], "alloc")
  /\ UNCHANGED wrote

\* Nothing stops the copy from having the name of another file.
StartCopy(n, m) ==
  /\ At_("idle")
  /\ \E i \in ByName(m) :
       AllocateFor([NoOp EXCEPT !.kind = "copy", !.name = n, !.slot = i,
                                !.len = ftable[i].size], "alloc")
  /\ UNCHANGED wrote

Fill(e, v) == [a \in Sectors |-> IF In(a, e) THEN v ELSE data[a]]

CopiedShort(dest, src) ==                 \* the last sector forgotten
  [a \in Sectors |->
     IF dest.start =< a /\ a + 1 < dest.start + src.count THEN data[src.start + (a - dest.start)]
                                                          ELSE data[a]]

\* fs_blktable_copy, sector by sector, as many as the source has.
Copied(dest, src) ==
  [a \in Sectors |->
     IF dest.start =< a /\ a < dest.start + src.count THEN data[src.start + (a - dest.start)]
                                                      ELSE data[a]]

\* The new block is filled (fs_blktable_fill passes the value 0 on as the address of the
\* data: the sectors get what lies there) or gets the copy.  Without a block
\* the copy is written from sector 0 on, over the boot and information sectors.
Prepare ==
  /\ At_("alloc") /\ op.kind \in {"new", "copy"}
  /\ data' = IF op.kind = "new" THEN Fill(blk, JUNK)
                                ELSE Copied(blk, AtIndex(ftable[op.slot].blk_index))
  /\ fpc' = "enter"
  /\ ffaults' = IF op.len > 0 /\ Empty(blk) THEN ffaults \cup {"no_block"} ELSE ffaults
  /\ UNCHANGED <<vars, ftable, op, blk, pos, wrote>>

NewFile(field) == [name |-> StrCpy(field, op.name), size |-> op.len, blk_index |-> BlockIndex(blk)]

\* The index that is about to be stored is not that of the block: the mass entry is used
\* up, its count is 0, and fs_blktable_get_index does not count it.
Shifted == ~Empty(blk) /\ AtIndex(BlockIndex(blk)) # blk

\* fs_filetable_create_file: the lowest free entry; without one the block is lost.
Enter ==
  /\ At_("enter")
  /\ \/ \E i \in FreeFiles, field \in Stack :
          /\ ftable' = [ftable EXCEPT ![i] = NewFile(field)]
          /\ wrote' = [wrote EXCEPT ![i] = IF op.kind = "copy" THEN wrote[op.slot] ELSE TORN]
          /\ ffaults' = IF Shifted THEN ffaults \cup {"shifted"} ELSE ffaults
          /\ IF op.kind = "copy"
               THEN FDone
               ELSE /\ op' = [op EXCEPT !.slot = i]
                    /\ blk' = AtIndex(BlockIndex(blk))
                    /\ fpc' = "write" /\ UNCHANGED pos
     \/ /\ FreeFiles = {}
        /\ ffaults' = IF op.len > 0 THEN ffaults \cup {"table_full"} ELSE ffaults
        /\ FDone
        /\ UNCHANGED <<ftable, wrote>>
  /\ UNCHANGED <<vars, data>>

\* The write loop, one sector at a time.
WriteSector ==
  /\ At_("write") /\ pos < blk.count
  /\ data' = IF blk.start + pos \in Sectors THEN [data EXCEPT ![blk.start + pos] = op.value]
                                            ELSE data
  /\ pos' = pos + 1
  /\ UNCHANGED <<vars, ftable, fpc, op, blk, wrote, ffaults>>

WriteEnds ==
  /\ At_("write") /\ pos >= blk.count
  /\ wrote' = [wrote EXCEPT ![op.slot] = IF blk.count = 0 THEN JUNK ELSE op.value]
  /\ FDone
  /\ UNCHANGED <<vars, ftable, data, ffaults>>

-----------------------------------------------------------------------------
(* fs_file_write of a file that exists.                                    *)

FreeNoBlock(n) == UNCHANGED vars          \* the old block kept
\* Freeing the NULL block entry fails.
FreeBlock(n) == IF AtIndex(n).start = 0 THEN UNCHANGED vars ELSE Free(n)

\* The old block is freed first ...
StartOverwrite(n, len, v) ==
  /\ At_("idle")
  /\ \E i \in ByName(n) :
       /\ FreeBlock(ftable[i].blk_index)
       /\ Running([kind |-> "over", slot |-> i, name |-> n, len |-> len, value |-> v], "freed")
       /\ wrote' = [wrote EXCEPT ![i] = TORN]
  /\ UNCHANGED <<ftable, data, blk, pos, ffaults>>

\* ... then another is allocated ...
Reallocate ==
  /\ At_("freed") /\ op.kind = "over"
  /\ AllocateFor(op, "alloc")
  /\ UNCHANGED wrote

\* ... and the file entry updated, before the data is written.
Update ==
  /\ At_("alloc") /\ op.kind = "over"
  /\ ftable' = [ftable EXCEPT ![op.slot].blk_index = BlockIndex(blk), ![op.slot].size = op.len]
  /\ ffaults' = ffaults \cup (IF Shifted THEN {"shifted"} ELSE {})
                        \cup (IF op.len > 0 /\ Empty(blk) THEN {"no_block"} ELSE {})
  /\ fpc' = "write"
  /\ UNCHANGED <<vars, data, op, blk, pos, wrote>>

-----------------------------------------------------------------------------
(* vfs_delete_file and vfs_rename_file.                                    *)

\* The block is freed first; a file without one (of size 0) is not deleted.
StartDelete(n) ==
  /\ At_("idle")
  /\ \E i \in ByName(n) :
       /\ AtIndex(ftable[i].blk_index).start # 0
       /\ Free(ftable[i].blk_index)
       /\ Running([NoOp EXCEPT !.kind = "delete", !.slot = i, !.name = n], "freed")
       /\ wrote' = [wrote EXCEPT ![i] = TORN]
  /\ UNCHANGED <<ftable, data, blk, pos, ffaults>>

\* fs_filetable_delete_file clears the first entry equal to the file's.
DeletedNot == ftable                       \* the entry left in the table
DeletedEntry ==
  [ftable EXCEPT ![CHOOSE k \in Least({j \in Slots : ftable[j] = ftable[op.slot]}) : TRUE] = NULL_FILE]

DeleteEntry ==
  /\ At_("freed") /\ op.kind = "delete"
  /\ ftable' = DeletedEntry
  /\ wrote' = [wrote EXCEPT ![op.slot] = JUNK]
  /\ FDone
  /\ UNCHANGED <<vars, data, ffaults>>

Rename(n, m) ==
  /\ At_("idle")
  /\ \E i \in ByName(n) : ftable' = [ftable EXCEPT ![i].name = StrCpy(ftable[i].name, m)]
  /\ UNCHANGED <<vars, data, fpc, op, blk, pos, wrote, ffaults>>

-----------------------------------------------------------------------------
\* The machine stops.  Between the freeing of a file's block and the update of its entry
\* the entry names a block that is not its own; between the allocation of a block and the
\* writing of an entry nothing names it.
FCrash ==
  /\ fpc # "idle"
  /\ IF pc = "idle" THEN UNCHANGED vars ELSE Crash
  /\ ffaults' = ffaults
       \cup (IF op.kind \in {"over", "delete"} /\ fpc \in {"freed", "alloc"} THEN {"crash_replace"}
                                                                             ELSE {})
       \cup (IF op.kind \in {"new", "copy"} /\ fpc \in {"alloc", "enter"} THEN {"crash_create"}
                                                                          ELSE {})
  /\ FDone
  /\ UNCHANGED <<ftable, data, wrote>>

FNext ==
  \/ BlockStep
  \/ \E n \in Name, len \in Lens, v \in Value : StartNew(n, len, v) \/ StartOverwrite(n, len, v)
  \/ \E n, m \in Name : StartCopy(n, m) \/ Rename(n, m)
  \/ Prepare
  \/ Enter
  \/ WriteSector
  \/ WriteEnds
  \/ Reallocate
  \/ Update
  \/ \E n \in Name : StartDelete(n)
  \/ DeleteEntry
  \/ FCrash

FSpec == FInit /\ [][FNext]_allVars

-----------------------------------------------------------------------------
\* Nothing has happened that makes an entry name a block that is not its file's.
Sound == Undamaged /\ ffaults \subseteq {"table_full", "crash_create"}

\* The file an operation has freed the block of, and not yet given another.
Between == IF op.kind \in {"over", "delete"} /\ fpc \in {"freed", "alloc"} THEN {op.slot} ELSE {}

BlockOf(i) == AtIndex(ftable[i].blk_index)
\* fs_file_read: the sectors of the file's block.
ReadData(i) == [k \in 0 .. BlockOf(i).count - 1 |-> data[BlockOf(i).start + k]]

\* Through every sequence of operations, merges of the block table and harmless crashes,
\* a file's blk_index names a held block of the file's size, and no other file's: the
\* index was taken from the table once and the table has moved nothing since.
OwnBlock ==
  Sound => \A i \in Files \ Between :
    /\ ftable[i].size = 0 => ftable[i].blk_index = NONE
    /\ ftable[i].size > 0 => BlockOf(i).state = "USED" /\ BlockOf(i).count = ftable[i].size
    /\ \A j \in Files \ Between :
         (i # j /\ ftable[i].size > 0) => ftable[i].blk_index # ftable[j].blk_index

\* What was last written to a file is what reading it returns, whatever was done to other
\* files since; a copy has what its source had.
ReadsBack ==
  Sound => \A i \in Files \ Between :
    (ftable[i].size > 0 /\ wrote[i] # TORN) =>
      ReadData(i) = [k \in 0 .. ftable[i].size - 1 |-> wrote[i]]

\* Every held block belongs to a file, the file table or the operation that runs: no
\* sequence of operations loses disk space, unless the disk or a table was full, a file was
\* given the index of another's block, or the machine stopped while the block table was
\* changed or a file was made or replaced (the events of faults and ffaults).
NoLeak ==
  (faults = {} /\ ffaults = {} /\ pc = "idle") =>
    \A k \in Index \ {1} : table[k].state = "USED" =>
      table[k] = blk \/ \E i \in Files : ftable[i].blk_index = k

=============================================================================
