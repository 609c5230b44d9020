-------------------------------- MODULE Volume --------------------------------
(***************************************************************************)
(* The disk as a whole: fs_format, fs_wipe, fs_root_create and fs_mount of *)
(* src/kernel/filesys/filesys.c, which lay out the information sector, the *)
(* block table and the file table that BlockTable.tla and Directories.tla  *)
(* start from.  Formatting is a sequence of disk writes; the machine may   *)
(* stop between any two, and the next boot mounts what it finds.           *)
(*                                                                         *)
(* A sector holds a record of the kind that was written to it.  The use of *)
(* the disk between two formats is Files.tla's subject: here it is one     *)
(* file, and another name for the root.                                    *)
(*                                                                         *)
(* The history variable `events` names what damages a disk; no action      *)
(* reads it.                                                               *)
(***************************************************************************)
EXTENDS EntryName, FiniteSets

CONSTANTS
  DISK,         \* the sectors of the disk
  UINT,         \* 2^32: sector numbers and counts are uint32_t
  BLK_SECTORS,  \* fs_info.blk_table_sector_count
  PER_SECTOR,   \* the block entries in one sector
  FILE_SECTORS, \* fs_info.file_table_sector_count
  FPER_SECTOR,  \* the file entries in one sector
  Formats,      \* the sizes given to fs_format, in sectors
  LABEL,        \* the name of a new root directory
  Relabel       \* a name the root is given later

SECTOR_INFO == 1
SECTOR_BLKS == 4
DATA_START  == SECTOR_BLKS + BLK_SECTORS + 4
COUNT_MAX   == BLK_SECTORS * PER_SECTOR
FILE_MAX    == FILE_SECTORS * FPER_SECTOR

ASSUME VolumeAssumption ==
  /\ UINT \in Nat /\ BLK_SECTORS \in Nat \ {0} /\ FILE_SECTORS \in Nat \ {0}
  /\ PER_SECTOR \in Nat /\ PER_SECTOR >= 2 /\ FPER_SECTOR \in Nat \ {0}
  /\ DISK \in Nat /\ DATA_START + FILE_SECTORS < DISK /\ DISK < UINT
  /\ Formats \subseteq SECTOR_BLKS .. DISK
  /\ Fits(LABEL) /\ Fits(Relabel)

VARIABLES
  disk,     \* the contents of the sectors
  info,     \* fs_info
  rootdir,  \* fs_rootdir
  pc,       \* where fs_format is; "off" before fs_mount, "idle" when nothing runs
  size,     \* its argument, in sectors
  pos,      \* i of fs_wipe's loop
  files,    \* fs_blk_files
  events    \* history: what has damaged the disk

vars == <<disk, info, rootdir, pc, size, pos, files, events>>

Wrap(x) == x % UINT
Least(S) == {i \in S : \A j \in S : i =< j}

NULL_BLKENTRY == [start |-> 0, count |-> 0, state |-> "FREE"]
NULL_DIR == [type |-> "NULL", name |-> Blank, parent |-> 0, status |-> 0]
NO_INFO == [blk_max |-> 0, blk_sectors |-> 0, data_start |-> 0, data_count |-> 0,
            file_start |-> 0, file_max |-> 0, file_sectors |-> 0, max_used |-> 0]

Zero == [kind |-> "zero"]
Boot == [kind |-> "boot"]
Info(i) == [kind |-> "info", info |-> i]
Blocks(t) == [kind |-> "blocks", at |-> t]
Entries(t) == [kind |-> "entries", at |-> t]

InfoOn == IF disk[SECTOR_INFO].kind = "info" THEN disk[SECTOR_INFO].info ELSE NO_INFO
BlocksIn(c) == IF c.kind = "blocks" THEN c.at ELSE [k \in 0 .. PER_SECTOR - 1 |-> NULL_BLKENTRY]
EntriesIn(c) == IF c.kind = "entries" THEN c.at ELSE [k \in 0 .. FPER_SECTOR - 1 |-> NULL_DIR]

\* The two tables as the functions of filesys.c see them: entries by index.
BlockAt(i) == BlocksIn(disk[SECTOR_BLKS + i \div PER_SECTOR])[i % PER_SECTOR]
EntryAt(i) == EntriesIn(disk[info.file_start + i \div FPER_SECTOR])[i % FPER_SECTOR]

WithBlock(d, i, e) ==
  LET s == SECTOR_BLKS + i \div PER_SECTOR
  IN  [d EXCEPT ![s] = Blocks([BlocksIn(d[s]) EXCEPT ![i % PER_SECTOR] = e])]
WithEntry(d, start, i, e) ==
  LET s == start + i \div FPER_SECTOR
  IN  [d EXCEPT ![s] = Entries([EntriesIn(d[s]) EXCEPT ![i % FPER_SECTOR] = e])]

\* fs_info_write of i: the table of file entries is where i says it is.
MaxUsed(i) ==
  LET S == {k \in 0 .. i.file_sectors - 1 :
              \E j \in 0 .. FPER_SECTOR - 1 : EntriesIn(disk[i.file_start + k])[j].type # "NULL"}
  IN  1 + CHOOSE m \in S \cup {0} : \A n \in S : n =< m

InfoWrite(i) ==
  LET new == [i EXCEPT !.max_used = MaxUsed(i)]
  IN  info' = new /\ disk' = [disk EXCEPT ![SECTOR_INFO] = Info(new)]

\* A disk nobody has used, with or without a boot loader.
Init ==
  /\ disk \in {[s \in 0 .. DISK - 1 |-> IF s = 0 THEN b ELSE Zero] : b \in {Boot, Zero}}
  /\ info = NO_INFO /\ rootdir = NULL_DIR
  /\ pc = "off" /\ size = 0 /\ pos = 0 /\ files = NULL_BLKENTRY
  /\ events = {}

-----------------------------------------------------------------------------
(* Booting and using.                                                      *)

\* What fs_filetable_read_dir(0) returns.  The boot loader's code is taken for a table of
\* entries when the information sector says that the table starts at sector 0.
RootOn(i) ==
  IF i.file_max = 0 THEN {NULL_DIR}
  ELSE IF disk[i.file_start].kind = "boot" THEN {NULL_DIR, [NULL_DIR EXCEPT !.type = "DIR"]}
  ELSE {EntriesIn(disk[i.file_start])[0]}

Mount ==
  /\ pc = "off"
  /\ rootdir' \in RootOn(InfoOn)
  /\ InfoWrite(InfoOn)
  /\ files' = IF InfoOn.blk_max = 0 THEN NULL_BLKENTRY ELSE BlockAt(1)
  /\ pc' = "idle"
  /\ events' = IF InfoOn.file_max > 0 /\ disk[InfoOn.file_start].kind = "boot"
                 THEN events \cup {"boot_as_table"} ELSE events
  /\ UNCHANGED <<size, pos>>

FreeBlocks == Least({i \in 0 .. COUNT_MAX - 1 : BlockAt(i) = NULL_BLKENTRY})
FreeEntries == Least({i \in 0 .. FILE_MAX - 1 : EntryAt(i).type = "NULL"})

Mounted == pc = "idle" /\ rootdir.type = "DIR" /\ info.blk_max > 0 /\ info.file_start > 0

\* A file of one sector is made (fs_file_create; Files.tla has the steps).
Use ==
  /\ Mounted /\ BlockAt(0).count > 0
  /\ \E i \in FreeBlocks, k \in FreeEntries :
       LET mass == [BlockAt(0) EXCEPT !.start = @ + 1, !.count = @ - 1]
           held == [start |-> BlockAt(0).start, count |-> 1, state |-> "USED"]
           file == [NULL_DIR EXCEPT !.type = "FILE"]
           new  == WithEntry(WithBlock(WithBlock(disk, 0, mass), i, held), info.file_start, k, file)
       IN  disk' = new
  /\ UNCHANGED <<info, rootdir, pc, size, pos, files, events>>

\* The root gets another name on the disk (vfs_rename_dir); rootdir has it after a mount.
RelabelRoot ==
  /\ Mounted /\ EntryAt(0).type = "DIR"
  /\ disk' = WithEntry(disk, info.file_start, 0, [EntryAt(0) EXCEPT !.name = StrCpy(@, Relabel)])
  /\ UNCHANGED <<info, rootdir, pc, size, pos, files, events>>

-----------------------------------------------------------------------------
(* fs_format.                                                              *)

\* There is something in the tables that a format keeps if it does not wipe, or if its wiping
\* ends before the block table.
Kept(n) == \E s \in SECTOR_BLKS .. n - 1 : disk[s].kind \in {"blocks", "entries"}
Reaches(n, wipe) == wipe /\ n > SECTOR_BLKS

Format(n, wipe) ==
  /\ pc = "idle"
  /\ size' = n /\ pos' = 0
  /\ pc' = IF wipe THEN "wipe" ELSE "info"
  /\ events' = events \cup (IF ~Reaches(n, wipe) /\ Kept(DISK) THEN {"kept"} ELSE {})
                      \cup (IF n < DATA_START + FILE_SECTORS THEN {"too_small"} ELSE {})
  /\ UNCHANGED <<disk, info, rootdir, files>>

Continue(place) == pc' = place /\ UNCHANGED <<size, rootdir>>

AfterInfo(s) == s + SECTOR_INFO + 1        \* the wiping begins behind the information sector
Wiped(s) == s
WipeSector ==
  /\ pc = "wipe" /\ Wiped(pos) < size
  /\ disk' = [disk EXCEPT ![Wiped(pos)] = Zero]
  /\ pos' = pos + 1
  /\ UNCHANGED <<info, rootdir, pc, size, files, events>>

WipeEnds ==
  /\ pc = "wipe" /\ Wiped(pos) >= size
  /\ pos' = 0 /\ Continue("info")
  /\ events' = IF size = DISK THEN {} ELSE events
  /\ UNCHANGED <<disk, info, files>>

DataCount(n) == Wrap(n - (BLK_SECTORS + 8))

\* fs_info_create: the fields of the file table keep what they are.
InfoCreate ==
  /\ pc = "info"
  /\ InfoWrite([info EXCEPT !.blk_max = COUNT_MAX, !.blk_sectors = BLK_SECTORS,
                            !.data_start = DATA_START, !.data_count = DataCount(size)])
  /\ Continue("mass")
  /\ UNCHANGED <<pos, files, events>>

WriteMass ==
  /\ pc = "mass"
  /\ disk' = WithBlock(disk, 0, [start |-> info.data_start, count |-> info.data_count, state |-> "FREE"])
  /\ Continue("files")
  /\ UNCHANGED <<info, pos, files, events>>

WriteFilesInfo ==
  /\ pc = "files"
  /\ InfoWrite([info EXCEPT !.file_max = FILE_MAX, !.file_sectors = FILE_SECTORS])
  /\ Continue("carve")
  /\ UNCHANGED <<pos, files, events>>

\* fs_blktable_allocate carves the block of the file table from the mass entry (see
\* BlockTable.tla) ...
CarveFiles ==
  /\ pc = "carve"
  /\ disk' = WithBlock(disk, 0, [start |-> Wrap(BlockAt(0).start + FILE_SECTORS),
                                 count |-> Wrap(BlockAt(0).count - FILE_SECTORS), state |-> "FREE"])
  /\ files' = [start |-> BlockAt(0).start, count |-> FILE_SECTORS, state |-> "USED"]
  /\ Continue("enter")
  /\ UNCHANGED <<info, pos, events>>

\* ... and enters it at the lowest empty index; with none it returns NULL_BLKENTRY.
EnterFiles ==
  /\ pc = "enter"
  /\ \/ \E i \in FreeBlocks : disk' = WithBlock(disk, i, files) /\ UNCHANGED files
     \/ FreeBlocks = {} /\ files' = NULL_BLKENTRY /\ UNCHANGED disk
  /\ Continue("start")
  /\ UNCHANGED <<info, pos, events>>

FileStartKept == info.file_start           \* fs_info.file_table_start not set
FileStart == files.start
WriteFileStart ==
  /\ pc = "start"
  /\ InfoWrite([info EXCEPT !.file_start = FileStart])
  /\ Continue("root")
  /\ UNCHANGED <<pos, files, events>>

\* fs_root_create: the label is copied over the name of the root directory mounted before.
RootCreate ==
  /\ pc = "root"
  /\ LET root == [type |-> "DIR", name |-> StrCpy(rootdir.name, LABEL), parent |-> 0, status |-> 255]
     IN  /\ rootdir' = root
         /\ disk' = WithEntry(disk, info.file_start, 0, root)
  /\ events' = IF Covers(LABEL, rootdir.name) THEN events ELSE events \cup {"label"}
  /\ pc' = "done"
  /\ UNCHANGED <<info, size, pos, files>>

FormatEnds ==
  /\ pc = "done"
  /\ pc' = "idle" /\ size' = 0
  /\ UNCHANGED <<disk, info, rootdir, pos, files, events>>

\* The machine stops; memory is empty when it starts again.
Crash ==
  /\ pc # "off"
  /\ info' = NO_INFO /\ rootdir' = NULL_DIR /\ files' = NULL_BLKENTRY
  /\ pc' = "off" /\ size' = 0 /\ pos' = 0
  /\ UNCHANGED <<disk, events>>

Next ==
  \/ Mount
  \/ Use
  \/ RelabelRoot
  \/ \E n \in Formats, wipe \in BOOLEAN : Format(n, wipe)
  \/ WipeSector
  \/ WipeEnds
  \/ InfoCreate
  \/ WriteMass
  \/ WriteFilesInfo
  \/ CarveFiles
  \/ EnterFiles
  \/ WriteFileStart
  \/ RootCreate
  \/ FormatEnds
  \/ Crash

Spec == Init /\ [][Next]_vars

-----------------------------------------------------------------------------
B == INSTANCE BlockTable WITH
       table <- [i \in 0 .. COUNT_MAX - 1 |-> BlockAt(i)],
       DISK_END <- DISK, Sizes <- {1},
       pc <- "idle", scan <- 0, local <- NULL_BLKENTRY, below <- 0, faults <- {}

D == INSTANCE Directories WITH
       table <- [i \in 0 .. FILE_MAX - 1 |-> EntryAt(i)], max_used <- info.max_used,
       MAX <- FILE_MAX, PER_SECTOR <- FPER_SECTOR, Name <- {Relabel}, Stack <- {Blank}, DEPTH <- 1,
       pc <- "idle"

\* A format of the whole disk, wiped or never used, ends in the state BlockTable.tla and
\* Directories.tla start from, whatever the disk and the memory held before and however
\* often earlier formats were cut short (fs_format).
FormatComplete ==
  (pc = "done" /\ size = DISK /\ events = {}) => B!Init /\ D!Init

Holding(s) == {i \in 0 .. COUNT_MAX - 1 :
                 BlockAt(i).start =< s /\ s < BlockAt(i).start + BlockAt(i).count}

\* A disk that shows a root directory can be used: its file table lies on sectors that the
\* block table describes once and as used.  A format that is cut short anywhere leaves a disk
\* without a root, on which every path is refused, or the one that was there (fs_format, fs_mount).
RootMeansComplete ==
  (pc = "idle" /\ rootdir.type = "DIR" /\ events \subseteq {"label"}) =>
    \A s \in info.file_start .. info.file_start + FILE_SECTORS - 1 :
      \E i \in 0 .. COUNT_MAX - 1 : Holding(s) = {i} /\ BlockAt(i).state = "USED"

\* Both: what a format promises when it ends, and what holds when it does not.
VolumeSound == FormatComplete /\ RootMeansComplete

\* Formatting leaves the boot sector alone unless it wipes the disk: the file table is never
\* placed at sector 0 (fs_format, fs_blktable_allocate).
BootSectorKept ==
  [][(disk'[0] # disk[0] /\ events' \subseteq {"label", "too_small"}) => pc = "wipe"]_vars

=============================================================================
