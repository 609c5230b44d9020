----------------------------- MODULE VolumeProofs -----------------------------
(***************************************************************************)
(* Theorems about Volume.tla, for every size of the disk and of its two    *)
(* tables and every sequence of formats, uses and crashes: what a format   *)
(* promises, and that it leaves the boot sector alone.  The invariant says *)
(* what each step of fs_format finds done by the steps before it.          *)
(***************************************************************************)
EXTENDS Volume, TLAPS

-----------------------------------------------------------------------------
(* The layout of the disk.                                                 *)

LEMMA Layout ==
  /\ UINT \in Nat /\ DISK \in Nat /\ DISK < UINT /\ UINT > 0
  /\ BLK_SECTORS \in Nat /\ BLK_SECTORS > 0 /\ FILE_SECTORS \in Nat /\ FILE_SECTORS > 0
  /\ PER_SECTOR \in Nat /\ PER_SECTOR >= 2 /\ FPER_SECTOR \in Nat /\ FPER_SECTOR > 0
  /\ DATA_START = BLK_SECTORS + 8 /\ DATA_START \in Nat /\ DATA_START + FILE_SECTORS < DISK
  /\ COUNT_MAX \in Nat /\ COUNT_MAX >= 2 /\ FILE_MAX \in Nat /\ FILE_MAX > 0
  /\ SECTOR_INFO = 1 /\ SECTOR_BLKS = 4
<1>1. /\ UINT \in Nat /\ DISK \in Nat /\ DISK < UINT /\ UINT > 0
      /\ BLK_SECTORS \in Nat /\ BLK_SECTORS > 0 /\ FILE_SECTORS \in Nat /\ FILE_SECTORS > 0
      /\ PER_SECTOR \in Nat /\ PER_SECTOR >= 2 /\ FPER_SECTOR \in Nat /\ FPER_SECTOR > 0
      /\ DATA_START = BLK_SECTORS + 8 /\ DATA_START \in Nat /\ DATA_START + FILE_SECTORS < DISK
  BY VolumeAssumption DEF DATA_START, SECTOR_BLKS
<1>2. ASSUME NEW a \in Nat, NEW b \in Nat, a > 0, b > 0
      PROVE  a * b \in Nat /\ a * b >= b
  BY <1>2
<1>3. COUNT_MAX \in Nat /\ COUNT_MAX >= 2
  BY <1>1, <1>2 DEF COUNT_MAX
<1>4. FILE_MAX \in Nat /\ FILE_MAX > 0
  BY <1>1, <1>2 DEF FILE_MAX
<1>5. QED
  BY <1>1, <1>3, <1>4 DEF SECTOR_INFO, SECTOR_BLKS

\* Where the entry i of a table with n entries in a sector lies.
LEMMA Placed ==
  ASSUME NEW n \in Nat, n > 0, NEW i \in Nat
  PROVE  i = n * (i \div n) + (i % n) /\ i \div n \in Nat /\ i % n \in 0 .. n - 1
OBVIOUS

LEMMA PlacedIn ==
  ASSUME NEW n \in Nat, n > 0, NEW c \in Nat, NEW i \in 0 .. c * n - 1
  PROVE  i \div n \in 0 .. c - 1 /\ i % n \in 0 .. n - 1
<1>0. c * n \in Nat /\ i \in Nat /\ i < c * n
  OBVIOUS
<1> DEFINE q == i \div n
           r == i % n
<1>1. i = n * q + r /\ q \in Nat /\ r \in 0 .. n - 1
  BY <1>0, Placed
<1> HIDE DEF q, r
<1>2. q < c
  <2>1. SUFFICES ASSUME q >= c PROVE FALSE
    BY <1>1
  <2>2. PICK d \in Nat : q = c + d
    <3>1. q - c \in Nat /\ q = c + (q - c)
      BY <1>1, <2>1
    <3>2. QED
      BY <3>1
  <2>3. n * q = c * n + n * d /\ n * d >= 0
    BY <2>2
  <2>4. QED
    BY <1>0, <1>1, <2>3
<1>3. QED
  BY <1>1, <1>2 DEF q, r

LEMMA PlacedOnce ==
  ASSUME NEW n \in Nat, n > 0, NEW i \in Nat, NEW j \in Nat, i \div n = j \div n, i % n = j % n
  PROVE  i = j
BY Placed

LEMMA PlacedFirst ==
  ASSUME NEW n \in Nat, n > 0
  PROVE  0 \div n = 0 /\ 0 % n = 0 /\ (n >= 2 => 1 \div n = 0 /\ 1 % n = 1)
OBVIOUS

-----------------------------------------------------------------------------
(* Reading and writing the disk.                                           *)

Block == [start : Nat, count : Nat, state : {"FREE", "USED"}]

IsInfo(i) ==
  /\ i = [blk_max |-> i.blk_max, blk_sectors |-> i.blk_sectors, data_start |-> i.data_start,
          data_count |-> i.data_count, file_start |-> i.file_start, file_max |-> i.file_max,
          file_sectors |-> i.file_sectors, max_used |-> i.max_used]
  /\ i.file_start \in {0, DATA_START} /\ i.file_max \in Nat

\* Every sector holds a record, and the one that is read as information is.
DiskOK(d) ==
  /\ DOMAIN d = 0 .. DISK - 1
  /\ \A s \in 0 .. DISK - 1 :
       /\ d[s].kind = "blocks" => d[s].at \in [0 .. PER_SECTOR - 1 -> Block]
       /\ d[s].kind = "entries" => DOMAIN d[s].at = 0 .. FPER_SECTOR - 1
  /\ d[SECTOR_INFO].kind = "info" => IsInfo(d[SECTOR_INFO].info)

BlockOf(d, i) == BlocksIn(d[SECTOR_BLKS + i \div PER_SECTOR])[i % PER_SECTOR]
EntryOf(d, i) == EntriesIn(d[DATA_START + i \div FPER_SECTOR])[i % FPER_SECTOR]

BlockSectors == SECTOR_BLKS .. SECTOR_BLKS + BLK_SECTORS - 1
FileSectors  == DATA_START .. DATA_START + FILE_SECTORS - 1

LEMMA SectorsApart ==
  /\ \A s \in BlockSectors : s \in 0 .. DISK - 1 /\ s > 1 /\ s \notin FileSectors /\ s < DATA_START
  /\ \A s \in FileSectors : s \in 0 .. DISK - 1 /\ s > 1 /\ s \notin BlockSectors /\ s >= SECTOR_BLKS
  /\ SECTOR_BLKS \in BlockSectors /\ DATA_START \in FileSectors
  BY Layout DEF BlockSectors, FileSectors

LEMMA InfoApart ==
  ASSUME NEW d, NEW e, \A s \in 0 .. DISK - 1 : s # SECTOR_INFO => e[s] = d[s]
  PROVE  /\ \A s \in BlockSectors : e[s] = d[s]
         /\ \A s \in FileSectors : e[s] = d[s]
<1>1. SECTOR_INFO = 1
  BY DEF SECTOR_INFO
<1>2. \A s \in BlockSectors : s \in 0 .. DISK - 1 /\ s # SECTOR_INFO
  BY <1>1, SectorsApart
<1>3. \A s \in FileSectors : s \in 0 .. DISK - 1 /\ s # SECTOR_INFO
  BY <1>1, SectorsApart
<1>4. QED
  BY <1>2, <1>3

LEMMA BlockPlace ==
  ASSUME NEW i \in 0 .. COUNT_MAX - 1
  PROVE  /\ SECTOR_BLKS + i \div PER_SECTOR \in BlockSectors /\ i % PER_SECTOR \in 0 .. PER_SECTOR - 1
         /\ i \in Nat /\ i \div PER_SECTOR \in Nat
<1>1. i \div PER_SECTOR \in 0 .. BLK_SECTORS - 1 /\ i % PER_SECTOR \in 0 .. PER_SECTOR - 1
  BY Layout, PlacedIn DEF COUNT_MAX
<1>2. QED
  BY <1>1, Layout DEF BlockSectors

LEMMA EntryPlace ==
  ASSUME NEW i \in 0 .. FILE_MAX - 1
  PROVE  /\ DATA_START + i \div FPER_SECTOR \in FileSectors /\ i % FPER_SECTOR \in 0 .. FPER_SECTOR - 1
         /\ i \in Nat /\ i \div FPER_SECTOR \in Nat
<1>1. i \div FPER_SECTOR \in 0 .. FILE_SECTORS - 1 /\ i % FPER_SECTOR \in 0 .. FPER_SECTOR - 1
  BY Layout, PlacedIn DEF FILE_MAX
<1>2. QED
  BY <1>1, Layout DEF FileSectors

LEMMA BlockTyped ==
  ASSUME NEW d, DiskOK(d), NEW i \in 0 .. COUNT_MAX - 1
  PROVE  BlockOf(d, i) \in Block /\ NULL_BLKENTRY \in Block
<1>1. NULL_BLKENTRY \in Block
  BY DEF NULL_BLKENTRY, Block
<1>2. \A s \in 0 .. DISK - 1 : BlocksIn(d[s]) \in [0 .. PER_SECTOR - 1 -> Block]
  BY <1>1 DEF DiskOK, BlocksIn
<1>3. QED
  BY <1>1, <1>2, BlockPlace, SectorsApart DEF BlockOf

\* A block entry that is written is the only one that changes.
LEMMA BlockWritten ==
  ASSUME NEW d, DiskOK(d), NEW i \in 0 .. COUNT_MAX - 1, NEW e \in Block
  PROVE  /\ DiskOK(WithBlock(d, i, e))
         /\ \A j \in 0 .. COUNT_MAX - 1 : BlockOf(WithBlock(d, i, e), j) = IF j = i THEN e ELSE BlockOf(d, j)
         /\ \A s \in 0 .. DISK - 1 : s \notin BlockSectors => WithBlock(d, i, e)[s] = d[s]
<1> DEFINE s == SECTOR_BLKS + i \div PER_SECTOR
           k == i % PER_SECTOR
           t == [BlocksIn(d[s]) EXCEPT ![k] = e]
           new == WithBlock(d, i, e)
<1>1. new = [d EXCEPT ![s] = Blocks(t)]
  BY DEF WithBlock
<1>2. s \in BlockSectors /\ k \in 0 .. PER_SECTOR - 1 /\ s \in 0 .. DISK - 1 /\ s > 1
  BY BlockPlace, SectorsApart
<1>3. BlocksIn(d[s]) \in [0 .. PER_SECTOR - 1 -> Block]
  <2>1. NULL_BLKENTRY \in Block
    BY DEF NULL_BLKENTRY, Block
  <2>2. QED
    BY <1>2, <2>1 DEF DiskOK, BlocksIn
<1>4. t \in [0 .. PER_SECTOR - 1 -> Block] /\ t[k] = e
      /\ \A j \in 0 .. PER_SECTOR - 1 : j # k => t[j] = BlocksIn(d[s])[j]
  BY <1>2, <1>3
<1>5. Blocks(t).kind = "blocks" /\ Blocks(t).at = t /\ BlocksIn(Blocks(t)) = t
  BY DEF Blocks, BlocksIn
<1>6. DOMAIN d = 0 .. DISK - 1
  BY DEF DiskOK
<1>7. \A x \in 0 .. DISK - 1 : new[x] = IF x = s THEN Blocks(t) ELSE d[x]
  BY <1>1, <1>2, <1>6
<1>8. DOMAIN new = 0 .. DISK - 1
  BY <1>1, <1>6
<1>9. \A j \in 0 .. COUNT_MAX - 1 : (SECTOR_BLKS + j \div PER_SECTOR = s /\ j % PER_SECTOR = k) => j = i
  <2> SUFFICES ASSUME NEW j \in 0 .. COUNT_MAX - 1, SECTOR_BLKS + j \div PER_SECTOR = s, j % PER_SECTOR = k
               PROVE  j = i
    OBVIOUS
  <2>1. i \in Nat /\ j \in Nat /\ i \div PER_SECTOR \in Nat /\ j \div PER_SECTOR \in Nat
    BY BlockPlace
  <2>2. i \div PER_SECTOR = j \div PER_SECTOR
    BY <2>1, Layout
  <2>3. QED
    BY <2>1, <2>2, Layout, PlacedOnce
<1> HIDE DEF s, k, t, new
<1>10. DiskOK(new)
  <2>1. SECTOR_INFO \in 0 .. DISK - 1 /\ SECTOR_INFO # s
    BY <1>2, Layout
  <2>2. QED
    BY <1>2, <1>4, <1>5, <1>7, <1>8, <2>1 DEF DiskOK
<1>11. ASSUME NEW j \in 0 .. COUNT_MAX - 1 PROVE BlockOf(new, j) = IF j = i THEN e ELSE BlockOf(d, j)
  <2> DEFINE u == SECTOR_BLKS + j \div PER_SECTOR
             l == j % PER_SECTOR
  <2>1. u \in 0 .. DISK - 1 /\ l \in 0 .. PER_SECTOR - 1
    BY BlockPlace, SectorsApart
  <2>2. BlockOf(new, j) = BlocksIn(new[u])[l] /\ BlockOf(d, j) = BlocksIn(d[u])[l]
    BY DEF BlockOf
  <2>3. (u = s /\ l = k) <=> j = i
    BY <1>9 DEF s, k
  <2> HIDE DEF u, l
  <2>4. CASE u = s
    BY <1>4, <1>5, <1>7, <2>1, <2>2, <2>3, <2>4
  <2>5. CASE u # s
    BY <1>7, <2>1, <2>2, <2>3, <2>5
  <2>6. QED
    BY <2>4, <2>5
<1>12. QED
  BY <1>2, <1>7, <1>10, <1>11 DEF new

\* So is an entry of the file table.
LEMMA EntryWritten ==
  ASSUME NEW d, DiskOK(d), NEW i \in 0 .. FILE_MAX - 1, NEW e
  PROVE  /\ DiskOK(WithEntry(d, DATA_START, i, e))
         /\ \A j \in 0 .. FILE_MAX - 1 :
              EntryOf(WithEntry(d, DATA_START, i, e), j) = IF j = i THEN e ELSE EntryOf(d, j)
         /\ \A s \in 0 .. DISK - 1 : s \notin FileSectors => WithEntry(d, DATA_START, i, e)[s] = d[s]
         /\ \A s \in FileSectors : WithEntry(d, DATA_START, i, e)[s].kind = "entries" \/ WithEntry(d, DATA_START, i, e)[s] = d[s]
<1> DEFINE s == DATA_START + i \div FPER_SECTOR
           k == i % FPER_SECTOR
           t == [EntriesIn(d[s]) EXCEPT ![k] = e]
           new == WithEntry(d, DATA_START, i, e)
<1>1. new = [d EXCEPT ![s] = Entries(t)]
  BY DEF WithEntry
<1>2. s \in FileSectors /\ k \in 0 .. FPER_SECTOR - 1 /\ s \in 0 .. DISK - 1 /\ s > 1
  BY EntryPlace, SectorsApart
<1>3. DOMAIN EntriesIn(d[s]) = 0 .. FPER_SECTOR - 1
  BY <1>2 DEF DiskOK, EntriesIn
<1>4. DOMAIN t = 0 .. FPER_SECTOR - 1 /\ t[k] = e
      /\ \A j \in 0 .. FPER_SECTOR - 1 : j # k => t[j] = EntriesIn(d[s])[j]
  BY <1>2, <1>3
<1>5. Entries(t).kind = "entries" /\ Entries(t).at = t /\ EntriesIn(Entries(t)) = t
  BY DEF Entries, EntriesIn
<1>6. DOMAIN d = 0 .. DISK - 1
  BY DEF DiskOK
<1>7. \A x \in 0 .. DISK - 1 : new[x] = IF x = s THEN Entries(t) ELSE d[x]
  BY <1>1, <1>2, <1>6
<1>8. DOMAIN new = 0 .. DISK - 1
  BY <1>1, <1>6
<1>9. \A j \in 0 .. FILE_MAX - 1 : (DATA_START + j \div FPER_SECTOR = s /\ j % FPER_SECTOR = k) => j = i
  <2> SUFFICES ASSUME NEW j \in 0 .. FILE_MAX - 1, DATA_START + j \div FPER_SECTOR = s, j % FPER_SECTOR = k
               PROVE  j = i
    OBVIOUS
  <2>1. i \in Nat /\ j \in Nat /\ i \div FPER_SECTOR \in Nat /\ j \div FPER_SECTOR \in Nat
    BY EntryPlace
  <2>2. i \div FPER_SECTOR = j \div FPER_SECTOR
    BY <2>1, Layout
  <2>3. QED
    BY <2>1, <2>2, Layout, PlacedOnce
<1> HIDE DEF s, k, t, new
<1>10. DiskOK(new)
  <2>1. SECTOR_INFO \in 0 .. DISK - 1 /\ SECTOR_INFO # s
    BY <1>2, Layout
  <2>2. QED
    BY <1>2, <1>4, <1>5, <1>7, <1>8, <2>1 DEF DiskOK
<1>11. ASSUME NEW j \in 0 .. FILE_MAX - 1 PROVE EntryOf(new, j) = IF j = i THEN e ELSE EntryOf(d, j)
  <2> DEFINE u == DATA_START + j \div FPER_SECTOR
             l == j % FPER_SECTOR
  <2>1. u \in 0 .. DISK - 1 /\ l \in 0 .. FPER_SECTOR - 1
    BY EntryPlace, SectorsApart
  <2>2. EntryOf(new, j) = EntriesIn(new[u])[l] /\ EntryOf(d, j) = EntriesIn(d[u])[l]
    BY DEF EntryOf
  <2>3. (u = s /\ l = k) <=> j = i
    BY <1>9 DEF s, k
  <2> HIDE DEF u, l
  <2>4. CASE u = s
    BY <1>4, <1>5, <1>7, <2>1, <2>2, <2>3, <2>4
  <2>5. CASE u # s
    BY <1>7, <2>1, <2>2, <2>3, <2>5
  <2>6. QED
    BY <2>4, <2>5
<1>12. \A x \in FileSectors : new[x].kind = "entries" \/ new[x] = d[x]
  BY <1>5, <1>7, SectorsApart
<1>13. QED
  BY <1>2, <1>7, <1>10, <1>11, <1>12 DEF new

LEMMA BootWritten ==
  ASSUME NEW d, DiskOK(d), NEW e
  PROVE  DiskOK(WithEntry(d, 0, 0, e))
<1> DEFINE t == [EntriesIn(d[0]) EXCEPT ![0] = e]
           new == WithEntry(d, 0, 0, e)
<1>1. 0 + 0 \div FPER_SECTOR = 0 /\ 0 % FPER_SECTOR = 0 /\ 0 \in 0 .. DISK - 1 /\ SECTOR_INFO \in 0 .. DISK - 1
      /\ SECTOR_INFO # 0
  BY Layout, PlacedFirst
<1>2. new = [d EXCEPT ![0] = Entries(t)]
  BY <1>1 DEF WithEntry
<1>3. DOMAIN t = 0 .. FPER_SECTOR - 1
  BY <1>1 DEF DiskOK, EntriesIn
<1>4. Entries(t).kind = "entries" /\ Entries(t).at = t
  BY DEF Entries
<1>5. DOMAIN new = 0 .. DISK - 1 /\ \A x \in 0 .. DISK - 1 : new[x] = IF x = 0 THEN Entries(t) ELSE d[x]
  BY <1>1, <1>2 DEF DiskOK
<1> HIDE DEF t, new
<1>6. DiskOK(new)
  BY <1>1, <1>3, <1>4, <1>5 DEF DiskOK
<1>7. QED
  BY <1>6 DEF new

\* What fs_info_write changes besides the sector it writes.
SameInfo(i, j) ==
  /\ j.blk_max = i.blk_max /\ j.blk_sectors = i.blk_sectors /\ j.data_start = i.data_start
  /\ j.data_count = i.data_count /\ j.file_start = i.file_start /\ j.file_max = i.file_max
  /\ j.file_sectors = i.file_sectors

LEMMA InfoWritten ==
  ASSUME DiskOK(disk), NEW i, IsInfo(i), InfoWrite(i)
  PROVE  /\ IsInfo(info') /\ SameInfo(i, info') /\ info'.max_used = MaxUsed(i)
         /\ DiskOK(disk') /\ disk'[SECTOR_INFO] = Info(info')
         /\ \A s \in 0 .. DISK - 1 : s # SECTOR_INFO => disk'[s] = disk[s]
<1> DEFINE m == MaxUsed(i)
<1>1. info' = [i EXCEPT !.max_used = m] /\ disk' = [disk EXCEPT ![SECTOR_INFO] = Info(info')]
  BY DEF InfoWrite
<1> HIDE DEF m
<1>2. info' = [blk_max |-> i.blk_max, blk_sectors |-> i.blk_sectors, data_start |-> i.data_start,
               data_count |-> i.data_count, file_start |-> i.file_start, file_max |-> i.file_max,
               file_sectors |-> i.file_sectors, max_used |-> m]
  BY <1>1 DEF IsInfo
<1>3. IsInfo(info') /\ SameInfo(i, info') /\ info'.max_used = m
  BY <1>2 DEF IsInfo, SameInfo
<1>4. SECTOR_INFO \in 0 .. DISK - 1
  BY Layout
<1>5. Info(info').kind = "info" /\ Info(info').info = info'
  BY DEF Info
<1>6. DOMAIN disk' = 0 .. DISK - 1
      /\ \A s \in 0 .. DISK - 1 : disk'[s] = IF s = SECTOR_INFO THEN Info(info') ELSE disk[s]
  BY <1>1, <1>4 DEF DiskOK
<1>7. DiskOK(disk')
  BY <1>3, <1>4, <1>5, <1>6 DEF DiskOK
<1>8. QED
  BY <1>3, <1>4, <1>6, <1>7 DEF m

-----------------------------------------------------------------------------
(* The invariant.                                                          *)

Places == {"off", "idle", "wipe", "info", "mass", "files", "carve", "enter", "start", "root", "done"}
Formatting == Places \ {"off", "idle"}
Later == {"carve", "enter", "start", "root", "done"}

TheFiles == [start |-> DATA_START, count |-> FILE_SECTORS, state |-> "USED"]
Rest(n)  == [start |-> DATA_START + FILE_SECTORS, count |-> n - DATA_START - FILE_SECTORS, state |-> "FREE"]
Whole(n) == [start |-> DATA_START, count |-> n - DATA_START, state |-> "FREE"]

\* Whatever has happened to the disk, its sectors can be read, the file table is at its place
\* or nowhere, and the step a format has come to has been prepared by those before.
VolumeTyped ==
  /\ DiskOK(disk) /\ IsInfo(info)
  /\ pc \in Places /\ size \in Nat /\ pos \in Nat
  /\ pc \in Formatting => size \in SECTOR_BLKS .. DISK
  /\ pc = "wipe" => \A s \in 0 .. DISK - 1 : s < pos => disk[s] = Zero
  /\ pc = "mass" => info.data_start = DATA_START /\ info.data_count = DataCount(size)
  /\ pc \in {"files", "carve"} => BlockOf(disk, 0).start = DATA_START
  /\ pc \in Later => info.file_max = FILE_MAX /\ info.file_sectors = FILE_SECTORS
  /\ pc = "enter" => files = TheFiles
  /\ pc = "start" => files \in {TheFiles, NULL_BLKENTRY}

\* A format has room for the block of the file table.
RoomForFiles ==
  (events \subseteq {"label", "too_small"}) =>
    /\ pc = "wipe" => size > SECTOR_BLKS \/ disk[SECTOR_BLKS].kind # "blocks"
    /\ pc \in {"info", "mass"} => disk[SECTOR_BLKS].kind # "blocks"
    /\ pc \in {"files", "carve", "enter"} => BlockOf(disk, 1) = NULL_BLKENTRY
    /\ pc = "start" => files = TheFiles
    /\ pc \in {"root", "done"} => info.file_start = DATA_START

\* The file table's sectors are described once, and as used.
TablesSound ==
  /\ BlockOf(disk, 1) = TheFiles
  /\ \A i \in 0 .. COUNT_MAX - 1 :
       i # 1 => BlockOf(disk, i).start >= DATA_START + FILE_SECTORS \/ BlockOf(disk, i).count = 0

\* A mount finds a root directory.
HasRoot ==
  /\ disk[SECTOR_INFO].kind = "info" /\ disk[SECTOR_INFO].info.file_start = DATA_START
  /\ disk[DATA_START].kind = "entries" /\ disk[DATA_START].at[0].type = "DIR"

NoBlocks  == \A s \in BlockSectors : disk[s].kind # "blocks"
NoEntries == \A s \in FileSectors : disk[s].kind # "entries"

OnlyMass(e) == \A i \in 0 .. COUNT_MAX - 1 : BlockOf(disk, i) = IF i = 0 THEN e ELSE NULL_BLKENTRY
BothBlocks ==
  \A i \in 0 .. COUNT_MAX - 1 : BlockOf(disk, i) = CASE i = 0 -> Rest(size)
                                                     [] i = 1 -> TheFiles
                                                     [] OTHER -> NULL_BLKENTRY
OnlyRoot == \A i \in 0 .. FILE_MAX - 1 : EntryOf(disk, i) = IF i = 0 THEN rootdir ELSE NULL_DIR
NewRoot  == [type |-> "DIR", name |-> StrCpy(Blank, LABEL), parent |-> 0, status |-> 255]

\* What a format of a disk it can use has done when it comes to a step, and what a disk with a
\* root directory is like.
DiskSound ==
  (events \subseteq {"label"}) =>
    /\ disk[0].kind # "entries"
    /\ pc \in Formatting => size >= DATA_START + FILE_SECTORS
    /\ HasRoot => TablesSound
    /\ (pc = "idle" /\ rootdir.type = "DIR") => info.file_start = DATA_START /\ TablesSound
    /\ pc \in {"info", "mass"} => NoBlocks
    /\ pc \in Formatting \ {"wipe", "done"} => NoEntries
    /\ pc \in {"files", "carve"} => OnlyMass(Whole(size))
    /\ pc = "enter" => OnlyMass(Rest(size))
    /\ pc \in {"start", "root", "done"} => BothBlocks
    /\ pc \in {"root", "done"} => info.max_used = 1
    /\ pc = "done" => OnlyRoot /\ rootdir.type = "DIR" /\ (events = {} => rootdir = NewRoot)

VolumeInv == VolumeTyped /\ RoomForFiles /\ DiskSound

-----------------------------------------------------------------------------
(* Its steps.                                                              *)

LEMMA BlocksSame ==
  ASSUME \A s \in BlockSectors : disk'[s] = disk[s]
  PROVE  /\ \A i \in 0 .. COUNT_MAX - 1 : BlockOf(disk', i) = BlockOf(disk, i)
         /\ BlockOf(disk', 0) = BlockOf(disk, 0) /\ BlockOf(disk', 1) = BlockOf(disk, 1)
         /\ TablesSound' <=> TablesSound
<1>1. \A i \in 0 .. COUNT_MAX - 1 : BlockOf(disk', i) = BlockOf(disk, i)
  BY BlockPlace DEF BlockOf
<1>2. 0 \in 0 .. COUNT_MAX - 1 /\ 1 \in 0 .. COUNT_MAX - 1
  BY Layout
<1>3. QED
  BY <1>1, <1>2 DEF TablesSound

\* The first two entries of the block table are in its first sector.
LEMMA BlockFirst ==
  ASSUME NEW d, d[SECTOR_BLKS].kind # "blocks"
  PROVE  BlockOf(d, 0) = NULL_BLKENTRY /\ BlockOf(d, 1) = NULL_BLKENTRY
<1>1. /\ 0 \div PER_SECTOR = 0 /\ 0 % PER_SECTOR = 0 /\ 1 \div PER_SECTOR = 0 /\ 1 % PER_SECTOR = 1
      /\ SECTOR_BLKS + 0 = SECTOR_BLKS /\ 0 \in 0 .. PER_SECTOR - 1 /\ 1 \in 0 .. PER_SECTOR - 1
  BY Layout, PlacedFirst
<1>2. QED
  BY <1>1 DEF BlockOf, BlocksIn

LEMMA BlocksNone ==
  ASSUME NEW d, \A s \in BlockSectors : d[s].kind # "blocks"
  PROVE  \A i \in 0 .. COUNT_MAX - 1 : BlockOf(d, i) = NULL_BLKENTRY
  BY BlockPlace DEF BlockOf, BlocksIn

LEMMA EntriesNone ==
  ASSUME NEW d, \A s \in FileSectors : d[s].kind # "entries"
  PROVE  \A i \in 0 .. FILE_MAX - 1 : EntryOf(d, i) = NULL_DIR
  BY EntryPlace DEF EntryOf, EntriesIn

LEMMA InitKeeps == Init => VolumeInv
<1> SUFFICES ASSUME Init PROVE VolumeInv
  OBVIOUS
<1>1. /\ DOMAIN disk = 0 .. DISK - 1 /\ \A s \in 0 .. DISK - 1 : s # 0 => disk[s] = Zero
      /\ disk[0] \in {Zero, Boot}
  BY Layout DEF Init
<1>2. info = NO_INFO /\ rootdir = NULL_DIR /\ pc = "off" /\ size = 0 /\ pos = 0 /\ events = {}
  BY DEF Init
<1>3. Zero.kind = "zero" /\ Boot.kind = "boot"
  BY DEF Zero, Boot
<1>4. \A s \in 0 .. DISK - 1 : disk[s].kind \notin {"blocks", "entries", "info"}
  BY <1>1, <1>3
<1>5. SECTOR_INFO \in 0 .. DISK - 1 /\ 0 \in 0 .. DISK - 1
  BY Layout
<1>6. DiskOK(disk) /\ IsInfo(info)
  BY <1>1, <1>2, <1>4, <1>5 DEF DiskOK, IsInfo, NO_INFO
<1>7. VolumeTyped
  BY <1>2, <1>6 DEF VolumeTyped, Places, Formatting, Later
<1>8. RoomForFiles
  BY <1>2 DEF RoomForFiles
<1>9. DiskSound
  BY <1>2, <1>4, <1>5 DEF DiskSound, HasRoot, Formatting
<1>10. QED
  BY <1>7, <1>8, <1>9 DEF VolumeInv

LEMMA InfoOnIs ==
  ASSUME DiskOK(disk)
  PROVE  IsInfo(InfoOn) /\ (InfoOn.file_start = DATA_START => disk[SECTOR_INFO].kind = "info" /\ InfoOn = disk[SECTOR_INFO].info)
<1>1. IsInfo(NO_INFO) /\ NO_INFO.file_start = 0 /\ DATA_START # 0
  BY Layout DEF IsInfo, NO_INFO
<1>2. QED
  BY <1>1 DEF InfoOn, DiskOK

LEMMA MountKeeps == ASSUME VolumeInv, Mount PROVE VolumeInv'
<1>0. VolumeTyped /\ RoomForFiles /\ DiskSound
  BY DEF VolumeInv
<1>1. /\ InfoWrite(InfoOn) /\ rootdir' \in RootOn(InfoOn) /\ pc' = "idle" /\ UNCHANGED <<size, pos>>
      /\ events' = IF InfoOn.file_max > 0 /\ disk[InfoOn.file_start].kind = "boot"
                     THEN events \cup {"boot_as_table"} ELSE events
  BY DEF Mount
<1>2. /\ IsInfo(info') /\ SameInfo(InfoOn, info') /\ DiskOK(disk') /\ disk'[SECTOR_INFO] = Info(info')
      /\ \A s \in 0 .. DISK - 1 : s # SECTOR_INFO => disk'[s] = disk[s]
  BY <1>0, <1>1, InfoOnIs, InfoWritten DEF VolumeTyped
<1>3. VolumeTyped'
  BY <1>0, <1>1, <1>2 DEF VolumeTyped, Places, Formatting, Later
<1>4. RoomForFiles'
  BY <1>1 DEF RoomForFiles
<1>5. ASSUME events' \subseteq {"label"} PROVE DiskSound'
  <2>1. events \subseteq {"label"} /\ events' = events /\ ~(InfoOn.file_max > 0 /\ disk[InfoOn.file_start].kind = "boot")
    BY <1>1, <1>5
  <2>2. disk[0].kind # "entries" /\ (HasRoot => TablesSound)
    BY <1>0, <2>1 DEF DiskSound
  <2>3. Info(info').kind = "info" /\ Info(info').info = info'
    BY DEF Info
  <2>4. DATA_START \in 0 .. DISK - 1 /\ DATA_START # SECTOR_INFO /\ 0 \in 0 .. DISK - 1 /\ 0 # SECTOR_INFO
    BY Layout
  <2>5. HasRoot' => HasRoot
    <3>1. info'.file_start = InfoOn.file_start
      BY <1>2 DEF SameInfo
    <3>2. QED
      BY <1>0, <1>2, <2>3, <2>4, <3>1, InfoOnIs DEF HasRoot, VolumeTyped
  <2>6. TablesSound' <=> TablesSound
    BY <1>2, SectorsApart, BlocksSame, Layout
  <2>7. rootdir'.type = "DIR" => info'.file_start = DATA_START /\ HasRoot
    <3>1. SUFFICES ASSUME rootdir'.type = "DIR" PROVE info'.file_start = DATA_START /\ HasRoot
      OBVIOUS
    <3>2. NULL_DIR.type # "DIR"
      BY DEF NULL_DIR
    <3>3. disk[InfoOn.file_start].kind # "boot"
      <4>1. InfoOn.file_max # 0
        BY <1>1, <3>1, <3>2 DEF RootOn
      <4>2. QED
        BY <1>0, <2>1, <4>1, InfoOnIs DEF IsInfo, VolumeTyped
    <3>4. rootdir' = EntriesIn(disk[InfoOn.file_start])[0]
      BY <1>1, <3>1, <3>2, <3>3 DEF RootOn
    <3>5. 0 \in 0 .. FPER_SECTOR - 1
      BY Layout
    <3>6. disk[InfoOn.file_start].kind = "entries" /\ disk[InfoOn.file_start].at[0].type = "DIR"
      BY <3>1, <3>2, <3>4, <3>5 DEF EntriesIn
    <3>7. InfoOn.file_start = DATA_START
      BY <1>0, <2>2, <3>6, InfoOnIs DEF IsInfo, VolumeTyped
    <3>8. QED
      BY <1>0, <1>2, <3>6, <3>7, InfoOnIs DEF HasRoot, SameInfo, VolumeTyped
  <2>8. disk'[0] = disk[0]
    BY <1>2, <2>4
  <2>9. QED
    BY <1>1, <2>2, <2>5, <2>6, <2>7, <2>8 DEF DiskSound, Formatting
<1>6. DiskSound'
  BY <1>5 DEF DiskSound
<1>7. QED
  BY <1>3, <1>4, <1>6 DEF VolumeInv

LEMMA UsableAt ==
  ASSUME VolumeInv, Mounted
  PROVE  info.file_start = DATA_START
  BY DEF VolumeInv, VolumeTyped, IsInfo, Mounted

\* A name or a file in the table does not make a root where there is none.
LEMMA UseKeeps == ASSUME VolumeInv, Use PROVE VolumeInv'
<1>0. VolumeTyped /\ RoomForFiles /\ DiskSound
  BY DEF VolumeInv
<1>1. info.file_start = DATA_START
  BY UsableAt DEF Use
<1>2. PICK i \in FreeBlocks, k \in FreeEntries :
        disk' = WithEntry(WithBlock(WithBlock(disk, 0, [BlockAt(0) EXCEPT !.start = @ + 1, !.count = @ - 1]), i,
                                    [start |-> BlockAt(0).start, count |-> 1, state |-> "USED"]),
                          info.file_start, k, [NULL_DIR EXCEPT !.type = "FILE"])
  BY DEF Use
<1> DEFINE b == BlockOf(disk, 0)
           mass == [b EXCEPT !.start = @ + 1, !.count = @ - 1]
           held == [start |-> b.start, count |-> 1, state |-> "USED"]
           file == [NULL_DIR EXCEPT !.type = "FILE"]
           d1 == WithBlock(disk, 0, mass)
           d2 == WithBlock(d1, i, held)
<1>3. /\ Mounted /\ b.count > 0 /\ disk' = WithEntry(d2, DATA_START, k, file)
      /\ UNCHANGED <<info, rootdir, pc, size, pos, files, events>>
  BY <1>1, <1>2 DEF Use, BlockAt, BlockOf
<1>4. i \in 0 .. COUNT_MAX - 1 /\ BlockOf(disk, i) = NULL_BLKENTRY
  BY DEF FreeBlocks, Least, BlockAt, BlockOf
<1>5. k \in 0 .. FILE_MAX - 1 /\ EntryOf(disk, k).type = "NULL"
  BY <1>1 DEF FreeEntries, Least, EntryAt, EntryOf
<1>6. b \in Block /\ DiskOK(disk) /\ 0 \in 0 .. COUNT_MAX - 1 /\ 1 \in 0 .. COUNT_MAX - 1
  BY <1>0, BlockTyped, Layout DEF VolumeTyped
<1> HIDE DEF b
<1>7. mass \in Block /\ held \in Block /\ mass.start = b.start + 1 /\ mass.count = b.count - 1
  <2>1. b.start + 1 \in Nat /\ b.count - 1 \in Nat /\ b.start \in Nat
    BY <1>3, <1>6 DEF Block
  <2>2. mass \in Block
    BY <1>6, <2>1 DEF Block
  <2>3. mass.start = b.start + 1 /\ mass.count = b.count - 1
    BY <1>6 DEF Block
  <2>4. held \in Block
    BY <2>1 DEF Block
  <2>5. QED
    BY <2>2, <2>3, <2>4
<1> HIDE DEF mass
<1>8. /\ DiskOK(d1)
      /\ \A j \in 0 .. COUNT_MAX - 1 : BlockOf(d1, j) = IF j = 0 THEN mass ELSE BlockOf(disk, j)
      /\ \A s \in 0 .. DISK - 1 : s \notin BlockSectors => d1[s] = disk[s]
  BY <1>6, <1>7, BlockWritten
<1> HIDE DEF d1
<1>9. /\ DiskOK(d2)
      /\ \A j \in 0 .. COUNT_MAX - 1 : BlockOf(d2, j) = IF j = i THEN held ELSE BlockOf(d1, j)
      /\ \A s \in 0 .. DISK - 1 : s \notin BlockSectors => d2[s] = d1[s]
  BY <1>4, <1>7, <1>8, BlockWritten
<1> HIDE DEF d2
<1>10. /\ DiskOK(disk')
       /\ \A j \in 0 .. FILE_MAX - 1 : EntryOf(disk', j) = IF j = k THEN file ELSE EntryOf(d2, j)
       /\ \A s \in 0 .. DISK - 1 : s \notin FileSectors => disk'[s] = d2[s]
  BY <1>3, <1>5, <1>9, EntryWritten
<1>11. \A j \in 0 .. COUNT_MAX - 1 : BlockOf(disk', j) = BlockOf(d2, j)
  BY <1>10, BlockPlace, SectorsApart DEF BlockOf
<1>12. \A s \in 0 .. DISK - 1 : s \notin FileSectors /\ s \notin BlockSectors => disk'[s] = disk[s]
  BY <1>8, <1>9, <1>10
<1>13. VolumeTyped'
  <2>1. pc = "idle"
    BY <1>3 DEF Mounted
  <2>2. QED
    BY <1>0, <1>3, <1>10, <2>1 DEF VolumeTyped, Formatting, Later, Places
<1>14. RoomForFiles'
  BY <1>3 DEF RoomForFiles, Mounted
<1>15. ASSUME events' \subseteq {"label"} PROVE DiskSound'
  <2>1. disk[0].kind # "entries" /\ TablesSound /\ pc = "idle"
    BY <1>0, <1>3, <1>15 DEF DiskSound, Mounted
  <2>2. 0 \in 0 .. DISK - 1 /\ 0 \notin FileSectors /\ 0 \notin BlockSectors
    BY Layout, SectorsApart
  <2>3. b.start >= DATA_START + FILE_SECTORS /\ b.start \in Nat
    <3>1. b.count # 0 /\ b.start \in Nat
      BY <1>3, <1>6 DEF Block
    <3>2. QED
      BY <1>6, <2>1, <3>1 DEF TablesSound, b
  <2>4. i # 1
    <3>1. TheFiles # NULL_BLKENTRY
      BY Layout DEF TheFiles, NULL_BLKENTRY
    <3>2. QED
      BY <1>4, <2>1, <3>1 DEF TablesSound
  <2>5. BlockOf(disk', 1) = TheFiles
    BY <1>6, <1>8, <1>9, <1>11, <2>1, <2>4 DEF TablesSound
  <2>6. ASSUME NEW j \in 0 .. COUNT_MAX - 1, j # 1
        PROVE  BlockOf(disk', j).start >= DATA_START + FILE_SECTORS \/ BlockOf(disk', j).count = 0
    <3>1. BlockOf(disk', j) = IF j = i THEN held ELSE IF j = 0 THEN mass ELSE BlockOf(disk, j)
      BY <1>8, <1>9, <1>11
    <3>2. held.start = b.start
      OBVIOUS
    <3>3. mass.start >= DATA_START + FILE_SECTORS /\ held.start >= DATA_START + FILE_SECTORS
      BY <1>7, <2>3, <3>2, Layout
    <3>4. QED
      BY <2>1, <2>6, <3>1, <3>3 DEF TablesSound
  <2>7. TablesSound'
    BY <2>5, <2>6 DEF TablesSound
  <2>8. disk'[0] = disk[0]
    BY <1>12, <2>2
  <2>9. QED
    BY <1>1, <1>3, <2>1, <2>7, <2>8 DEF DiskSound, Formatting
<1>16. DiskSound'
  BY <1>15 DEF DiskSound
<1>17. QED
  BY <1>13, <1>14, <1>16 DEF VolumeInv

LEMMA RelabelKeeps == ASSUME VolumeInv, RelabelRoot PROVE VolumeInv'
<1>0. VolumeTyped /\ RoomForFiles /\ DiskSound
  BY DEF VolumeInv
<1>1. info.file_start = DATA_START
  BY UsableAt DEF RelabelRoot
<1> DEFINE e == [EntryAt(0) EXCEPT !.name = StrCpy(@, Relabel)]
<1>2. disk' = WithEntry(disk, DATA_START, 0, e)
  BY <1>1 DEF RelabelRoot
<1> HIDE DEF e
<1>3. Mounted /\ UNCHANGED <<info, rootdir, pc, size, pos, files, events>>
  BY DEF RelabelRoot
<1>4. 0 \in 0 .. FILE_MAX - 1 /\ DiskOK(disk)
  BY <1>0, Layout DEF VolumeTyped
<1>5. DiskOK(disk') /\ \A s \in 0 .. DISK - 1 : s \notin FileSectors => disk'[s] = disk[s]
  BY <1>2, <1>4, EntryWritten
<1>6. VolumeTyped'
  <2>1. pc = "idle"
    BY <1>3 DEF Mounted
  <2>2. QED
    BY <1>0, <1>3, <1>5, <2>1 DEF VolumeTyped, Formatting, Later, Places
<1>7. RoomForFiles'
  BY <1>3 DEF RoomForFiles, Mounted
<1>8. ASSUME events' \subseteq {"label"} PROVE DiskSound'
  <2>1. disk[0].kind # "entries" /\ TablesSound /\ pc = "idle"
    BY <1>0, <1>3, <1>8 DEF DiskSound, Mounted
  <2>2. TablesSound' /\ disk'[0] = disk[0]
    BY <1>5, <2>1, SectorsApart, BlocksSame, Layout
  <2>3. QED
    BY <1>1, <1>3, <2>1, <2>2 DEF DiskSound, Formatting
<1>9. DiskSound'
  BY <1>8 DEF DiskSound
<1>10. QED
  BY <1>6, <1>7, <1>9 DEF VolumeInv

LEMMA FormatKeeps ==
  ASSUME VolumeInv, NEW n \in Formats, NEW wipe \in BOOLEAN, Format(n, wipe)
  PROVE  VolumeInv'
<1>0. VolumeTyped /\ RoomForFiles /\ DiskSound
  BY DEF VolumeInv
<1>1. /\ pc = "idle" /\ size' = n /\ pos' = 0 /\ pc' = IF wipe THEN "wipe" ELSE "info"
      /\ UNCHANGED <<disk, info, rootdir, files>> /\ n \in SECTOR_BLKS .. DISK /\ n \in Nat
  BY VolumeAssumption, Layout DEF Format
<1>2. /\ events \subseteq events'
      /\ (~Reaches(n, wipe) /\ Kept(DISK)) => "kept" \in events'
      /\ n < DATA_START + FILE_SECTORS => "too_small" \in events'
  BY DEF Format
<1>3. VolumeTyped'
  <2>1. \A s \in 0 .. DISK - 1 : ~(s < 0)
    OBVIOUS
  <2>2. QED
    BY <1>0, <1>1, <2>1 DEF VolumeTyped, Places, Formatting, Later
<1>4. ~Kept(DISK) => NoBlocks /\ NoEntries
  <2>1. \A s \in BlockSectors \cup FileSectors : s \in SECTOR_BLKS .. DISK - 1
    BY SectorsApart, Layout DEF BlockSectors
  <2>2. QED
    BY <2>1 DEF Kept, NoBlocks, NoEntries
<1>5. ASSUME events' \subseteq {"label", "too_small"} PROVE RoomForFiles'
  <2>1. Reaches(n, wipe) \/ (NoBlocks /\ NoEntries)
    BY <1>2, <1>4, <1>5
  <2>2. NoBlocks => disk[SECTOR_BLKS].kind # "blocks"
    BY SectorsApart DEF NoBlocks
  <2>3. QED
    BY <1>1, <2>1, <2>2 DEF RoomForFiles, Reaches
<1>6. RoomForFiles'
  BY <1>5 DEF RoomForFiles
<1>7. ASSUME events' \subseteq {"label"} PROVE DiskSound'
  <2>1. n >= DATA_START + FILE_SECTORS /\ events \subseteq {"label"}
    BY <1>1, <1>2, <1>7, Layout
  <2>2. disk[0].kind # "entries" /\ (HasRoot => TablesSound)
    BY <1>0, <2>1 DEF DiskSound
  <2>3. wipe \/ (NoBlocks /\ NoEntries)
    BY <1>2, <1>4, <1>7 DEF Reaches
  <2>4. (HasRoot' <=> HasRoot) /\ (TablesSound' <=> TablesSound) /\ (NoBlocks' <=> NoBlocks) /\ (NoEntries' <=> NoEntries)
    BY <1>1 DEF HasRoot, TablesSound, NoBlocks, NoEntries
  <2>5. QED
    BY <1>1, <2>1, <2>2, <2>3, <2>4 DEF DiskSound, Formatting
<1>8. DiskSound'
  BY <1>7 DEF DiskSound
<1>9. QED
  BY <1>3, <1>6, <1>8 DEF VolumeInv

\* Wiping begins with the sectors before the tables: no root is found any more when they go.
LEMMA WipeSectorKeeps == ASSUME VolumeInv, WipeSector PROVE VolumeInv'
<1>0. VolumeTyped /\ RoomForFiles /\ DiskSound
  BY DEF VolumeInv
<1>1. /\ pc = "wipe" /\ pos < size /\ disk' = [disk EXCEPT ![pos] = Zero] /\ pos' = pos + 1
      /\ UNCHANGED <<info, rootdir, pc, size, files, events>>
  BY DEF WipeSector, Wiped
<1>2. pos \in 0 .. DISK - 1 /\ size \in SECTOR_BLKS .. DISK /\ pos \in Nat
  BY <1>0, <1>1, Layout DEF VolumeTyped, Formatting, Places
<1>3. /\ DOMAIN disk' = 0 .. DISK - 1
      /\ \A s \in 0 .. DISK - 1 : disk'[s] = IF s = pos THEN Zero ELSE disk[s]
  BY <1>0, <1>1, <1>2 DEF VolumeTyped, DiskOK
<1>4. Zero.kind = "zero"
  BY DEF Zero
<1>5. /\ SECTOR_INFO \in 0 .. DISK - 1 /\ SECTOR_BLKS \in 0 .. DISK - 1 /\ DATA_START \in 0 .. DISK - 1 /\ 0 \in 0 .. DISK - 1
  BY Layout
<1>6. DiskOK(disk')
  BY <1>0, <1>3, <1>4, <1>5 DEF VolumeTyped, DiskOK
<1>7. \A s \in 0 .. DISK - 1 : s < pos + 1 => disk'[s] = Zero
  <2> SUFFICES ASSUME NEW s \in 0 .. DISK - 1, s < pos + 1 PROVE disk'[s] = Zero
    OBVIOUS
  <2>1. s = pos \/ s < pos
    BY <1>2
  <2>2. QED
    BY <1>0, <1>1, <1>3, <2>1 DEF VolumeTyped
<1>8. VolumeTyped'
  BY <1>0, <1>1, <1>2, <1>6, <1>7 DEF VolumeTyped, Places, Formatting, Later
<1>9. RoomForFiles'
  BY <1>0, <1>1, <1>3, <1>4, <1>5 DEF RoomForFiles
<1>10. ASSUME events' \subseteq {"label"} PROVE DiskSound'
  <2>1. disk[0].kind # "entries" /\ (HasRoot => TablesSound) /\ size >= DATA_START + FILE_SECTORS
    BY <1>0, <1>1, <1>10 DEF DiskSound, Formatting, Places
  <2>2. HasRoot' => TablesSound'
    <3>1. CASE pos = 0
      <4>1. \A s \in 0 .. DISK - 1 : s # 0 => disk'[s] = disk[s]
        BY <1>3, <3>1
      <4>2. TablesSound' <=> TablesSound
        BY <4>1, SectorsApart, BlocksSame
      <4>3. HasRoot' => HasRoot
        BY <1>5, <4>1, Layout DEF HasRoot
      <4>4. QED
        BY <2>1, <4>2, <4>3
    <3>2. CASE pos # 0
      <4>1. disk'[SECTOR_INFO] = Zero
        BY <1>2, <1>5, <1>7, <3>2, Layout
      <4>2. QED
        BY <1>4, <4>1 DEF HasRoot
    <3>3. QED
      BY <3>1, <3>2
  <2>3. disk'[0].kind # "entries"
    BY <1>3, <1>4, <1>5, <2>1
  <2>4. QED
    BY <1>1, <2>1, <2>2, <2>3 DEF DiskSound
<1>11. DiskSound'
  BY <1>10 DEF DiskSound
<1>12. QED
  BY <1>8, <1>9, <1>11 DEF VolumeInv

\* A wiped disk is as good as a new one.
LEMMA WipeEndsKeeps == ASSUME VolumeInv, WipeEnds PROVE VolumeInv'
<1>0. VolumeTyped /\ RoomForFiles /\ DiskSound
  BY DEF VolumeInv
<1>1. /\ pc = "wipe" /\ pos >= size /\ pos' = 0 /\ pc' = "info"
      /\ UNCHANGED <<disk, info, rootdir, size, files>>
      /\ events' = IF size = DISK THEN {} ELSE events
  BY DEF WipeEnds, Wiped, Continue
<1>2. size \in SECTOR_BLKS .. DISK /\ size \in Nat /\ pos \in Nat
  BY <1>0, <1>1 DEF VolumeTyped, Formatting, Places
<1>3. \A s \in 0 .. DISK - 1 : s < size => disk[s] = Zero
  BY <1>0, <1>1, <1>2 DEF VolumeTyped
<1>4. Zero.kind = "zero"
  BY DEF Zero
<1>5. VolumeTyped'
  BY <1>0, <1>1, <1>2 DEF VolumeTyped, Places, Formatting, Later
<1>6. ASSUME events' \subseteq {"label", "too_small"} PROVE RoomForFiles'
  <2>1. size > SECTOR_BLKS \/ disk[SECTOR_BLKS].kind # "blocks"
    BY <1>0, <1>1, <1>6, Layout DEF RoomForFiles
  <2>2. disk[SECTOR_BLKS].kind # "blocks"
    BY <1>3, <1>4, <2>1, Layout
  <2>3. QED
    BY <1>1, <2>2 DEF RoomForFiles
<1>7. RoomForFiles'
  BY <1>6 DEF RoomForFiles
<1>8. ASSUME events' \subseteq {"label"} PROVE DiskSound'
  <2>1. size >= DATA_START + FILE_SECTORS
    BY <1>0, <1>1, <1>2, <1>8, Layout DEF DiskSound, Formatting, Places
  <2>2. \A s \in BlockSectors \cup FileSectors : disk[s] = Zero
    <3>1. \A s \in FileSectors : s \in 0 .. DISK - 1 /\ s < DATA_START + FILE_SECTORS
      BY SectorsApart, Layout DEF FileSectors
    <3>2. \A s \in BlockSectors : s \in 0 .. DISK - 1 /\ s < DATA_START + FILE_SECTORS
      BY SectorsApart, Layout
    <3>3. \A s \in 0 .. DISK - 1 : s < DATA_START + FILE_SECTORS => s < size
      BY <1>2, <2>1, Layout
    <3>4. QED
      BY <1>3, <3>1, <3>2, <3>3
  <2>3. NoBlocks' /\ NoEntries'
    BY <1>1, <1>4, <2>2 DEF NoBlocks, NoEntries
  <2>4. disk[0] = Zero
    BY <1>2, <1>3, Layout
  <2>5. ~HasRoot'
    BY <1>1, <2>3, SectorsApart DEF HasRoot, NoEntries
  <2>6. QED
    BY <1>1, <1>4, <2>1, <2>3, <2>4, <2>5 DEF DiskSound
<1>9. DiskSound'
  BY <1>8 DEF DiskSound
<1>10. QED
  BY <1>5, <1>7, <1>9 DEF VolumeInv

\* An information sector that is written when there are no entries makes no root.
LEMMA InfoCreateKeeps == ASSUME VolumeInv, InfoCreate PROVE VolumeInv'
<1>0. VolumeTyped /\ RoomForFiles /\ DiskSound
  BY DEF VolumeInv
<1> DEFINE i == [info EXCEPT !.blk_max = COUNT_MAX, !.blk_sectors = BLK_SECTORS,
                             !.data_start = DATA_START, !.data_count = DataCount(size)]
<1>1. /\ pc = "info" /\ InfoWrite(i) /\ pc' = "mass" /\ UNCHANGED <<size, rootdir, pos, files, events>>
  BY DEF InfoCreate, Continue
<1>2. i = [blk_max |-> COUNT_MAX, blk_sectors |-> BLK_SECTORS, data_start |-> DATA_START,
           data_count |-> DataCount(size), file_start |-> info.file_start, file_max |-> info.file_max,
           file_sectors |-> info.file_sectors, max_used |-> info.max_used]
  <2> DEFINE F == {"blk_max", "blk_sectors", "data_start", "data_count", "file_start", "file_max",
                   "file_sectors", "max_used"}
  <2>1. DOMAIN info = F
    BY <1>0 DEF VolumeTyped, IsInfo
  <2>2. i = [f \in F |-> i[f]]
    BY <2>1
  <2>3. /\ i["blk_max"] = COUNT_MAX /\ i["blk_sectors"] = BLK_SECTORS /\ i["data_start"] = DATA_START
        /\ i["data_count"] = DataCount(size) /\ i["file_start"] = info.file_start
        /\ i["file_max"] = info.file_max /\ i["file_sectors"] = info.file_sectors
        /\ i["max_used"] = info.max_used
    BY <2>1
  <2> HIDE DEF i
  <2>4. QED
    BY <2>2, <2>3
<1> HIDE DEF i
<1>3. IsInfo(i)
  BY <1>0, <1>2 DEF VolumeTyped, IsInfo
<1>4. /\ IsInfo(info') /\ SameInfo(i, info') /\ DiskOK(disk')
      /\ \A s \in 0 .. DISK - 1 : s # SECTOR_INFO => disk'[s] = disk[s]
  BY <1>0, <1>1, <1>3, InfoWritten DEF VolumeTyped
<1>5. info'.data_start = DATA_START /\ info'.data_count = DataCount(size)
  BY <1>2, <1>4 DEF SameInfo
<1>6. /\ \A s \in BlockSectors : disk'[s] = disk[s]
      /\ \A s \in FileSectors : disk'[s] = disk[s]
  BY <1>4, InfoApart
<1>7. VolumeTyped'
  <2>1. DataCount(size)' = DataCount(size)
    BY <1>1 DEF DataCount
  <2>2. QED
    BY <1>0, <1>1, <1>4, <1>5, <2>1 DEF VolumeTyped, Places, Formatting, Later
<1>8. RoomForFiles'
  BY <1>0, <1>1, <1>6, SectorsApart DEF RoomForFiles
<1>9. ASSUME events' \subseteq {"label"} PROVE DiskSound'
  <2>1. disk[0].kind # "entries" /\ size >= DATA_START + FILE_SECTORS /\ NoBlocks /\ NoEntries
    BY <1>0, <1>1, <1>9 DEF DiskSound, Formatting, Places
  <2>2. NoBlocks' /\ NoEntries'
    BY <1>6, <2>1 DEF NoBlocks, NoEntries
  <2>3. disk'[0] = disk[0]
    BY <1>4, Layout
  <2>4. ~HasRoot'
    BY <2>2, SectorsApart DEF HasRoot, NoEntries
  <2>5. QED
    BY <1>1, <2>1, <2>2, <2>3, <2>4 DEF DiskSound
<1>10. DiskSound'
  BY <1>9 DEF DiskSound
<1>11. QED
  BY <1>7, <1>8, <1>10 DEF VolumeInv

LEMMA WriteMassKeeps == ASSUME VolumeInv, WriteMass PROVE VolumeInv'
<1>0. VolumeTyped /\ RoomForFiles /\ DiskSound
  BY DEF VolumeInv
<1> DEFINE e == [start |-> info.data_start, count |-> info.data_count, state |-> "FREE"]
<1>1. /\ pc = "mass" /\ disk' = WithBlock(disk, 0, e) /\ pc' = "files"
      /\ UNCHANGED <<size, rootdir, info, pos, files, events>>
  BY DEF WriteMass, Continue
<1>2. info.data_start = DATA_START /\ info.data_count = DataCount(size) /\ size \in SECTOR_BLKS .. DISK
      /\ DiskOK(disk)
  BY <1>0, <1>1 DEF VolumeTyped, Formatting, Places
<1>3. DataCount(size) \in Nat
  <2>1. \A x \in Int : x % UINT \in Nat
    BY Layout
  <2>2. size - (BLK_SECTORS + 8) \in Int
    BY <1>2, Layout
  <2>3. QED
    BY <2>1, <2>2 DEF DataCount, Wrap
<1>4. e \in Block /\ e.start = DATA_START /\ 0 \in 0 .. COUNT_MAX - 1 /\ 1 \in 0 .. COUNT_MAX - 1
  BY <1>2, <1>3, Layout DEF Block
<1>5. e = [start |-> DATA_START, count |-> DataCount(size), state |-> "FREE"]
  BY <1>2
<1> HIDE DEF e
<1>6. /\ DiskOK(disk')
      /\ \A j \in 0 .. COUNT_MAX - 1 : BlockOf(disk', j) = IF j = 0 THEN e ELSE BlockOf(disk, j)
      /\ \A s \in 0 .. DISK - 1 : s \notin BlockSectors => disk'[s] = disk[s]
  BY <1>1, <1>2, <1>4, BlockWritten
<1>7. VolumeTyped'
  <2>1. BlockOf(disk', 0).start = DATA_START
    BY <1>4, <1>6
  <2>2. QED
    BY <1>0, <1>1, <1>6, <2>1 DEF VolumeTyped, Places, Formatting, Later
<1>8. ASSUME events' \subseteq {"label", "too_small"} PROVE RoomForFiles'
  <2>1. BlockOf(disk, 1) = NULL_BLKENTRY
    BY <1>0, <1>1, <1>8, BlockFirst DEF RoomForFiles
  <2>2. BlockOf(disk', 1) = NULL_BLKENTRY
    BY <1>4, <1>6, <2>1
  <2>3. QED
    BY <1>1, <2>2 DEF RoomForFiles
<1>9. RoomForFiles'
  BY <1>8 DEF RoomForFiles
<1>10. ASSUME events' \subseteq {"label"} PROVE DiskSound'
  <2>1. disk[0].kind # "entries" /\ size >= DATA_START + FILE_SECTORS /\ NoBlocks /\ NoEntries
    BY <1>0, <1>1, <1>10 DEF DiskSound, Formatting, Places
  <2>2. NoEntries' /\ disk'[0] = disk[0]
    BY <1>6, <2>1, SectorsApart, Layout DEF NoEntries
  <2>3. DataCount(size) = size - DATA_START
    <3>1. size - (BLK_SECTORS + 8) \in 0 .. UINT - 1 /\ size - (BLK_SECTORS + 8) = size - DATA_START
      BY <1>2, <2>1, Layout
    <3>2. \A x \in 0 .. UINT - 1 : x % UINT = x
      BY Layout
    <3>3. QED
      BY <3>1, <3>2 DEF DataCount, Wrap
  <2>4. OnlyMass(Whole(size))'
    <3>1. \A j \in 0 .. COUNT_MAX - 1 : BlockOf(disk, j) = NULL_BLKENTRY
      BY <2>1, BlocksNone DEF NoBlocks
    <3>2. e = Whole(size)
      BY <1>5, <2>3 DEF Whole
    <3>3. QED
      BY <1>1, <1>6, <3>1, <3>2 DEF OnlyMass, Whole
  <2>5. ~HasRoot'
    BY <2>2, SectorsApart DEF HasRoot, NoEntries
  <2>6. QED
    BY <1>1, <2>1, <2>2, <2>4, <2>5 DEF DiskSound
<1>11. DiskSound'
  BY <1>10 DEF DiskSound
<1>12. QED
  BY <1>7, <1>9, <1>11 DEF VolumeInv

LEMMA WriteFilesInfoKeeps == ASSUME VolumeInv, WriteFilesInfo PROVE VolumeInv'
<1>0. VolumeTyped /\ RoomForFiles /\ DiskSound
  BY DEF VolumeInv
<1> DEFINE i == [info EXCEPT !.file_max = FILE_MAX, !.file_sectors = FILE_SECTORS]
<1>1. /\ pc = "files" /\ InfoWrite(i) /\ pc' = "carve" /\ UNCHANGED <<size, rootdir, pos, files, events>>
  BY DEF WriteFilesInfo, Continue
<1>2. i = [blk_max |-> info.blk_max, blk_sectors |-> info.blk_sectors, data_start |-> info.data_start,
           data_count |-> info.data_count, file_start |-> info.file_start, file_max |-> FILE_MAX,
           file_sectors |-> FILE_SECTORS, max_used |-> info.max_used]
  <2> DEFINE F == {"blk_max", "blk_sectors", "data_start", "data_count", "file_start", "file_max",
                   "file_sectors", "max_used"}
  <2>1. DOMAIN info = F
    BY <1>0 DEF VolumeTyped, IsInfo
  <2>2. i = [f \in F |-> i[f]]
    BY <2>1
  <2>3. /\ i["blk_max"] = info.blk_max /\ i["blk_sectors"] = info.blk_sectors
        /\ i["data_start"] = info.data_start /\ i["data_count"] = info.data_count
        /\ i["file_start"] = info.file_start /\ i["file_max"] = FILE_MAX
        /\ i["file_sectors"] = FILE_SECTORS /\ i["max_used"] = info.max_used
    BY <2>1
  <2> HIDE DEF i
  <2>4. QED
    BY <2>2, <2>3
<1> HIDE DEF i
<1>3. IsInfo(i)
  BY <1>0, <1>2, Layout DEF VolumeTyped, IsInfo
<1>4. /\ IsInfo(info') /\ SameInfo(i, info') /\ DiskOK(disk')
      /\ \A s \in 0 .. DISK - 1 : s # SECTOR_INFO => disk'[s] = disk[s]
  BY <1>0, <1>1, <1>3, InfoWritten DEF VolumeTyped
<1>5. info'.file_max = FILE_MAX /\ info'.file_sectors = FILE_SECTORS
  BY <1>2, <1>4 DEF SameInfo
<1>6. /\ \A s \in BlockSectors : disk'[s] = disk[s]
      /\ \A s \in FileSectors : disk'[s] = disk[s]
  BY <1>4, InfoApart
<1>7. /\ \A j \in 0 .. COUNT_MAX - 1 : BlockOf(disk', j) = BlockOf(disk, j)
      /\ BlockOf(disk', 0) = BlockOf(disk, 0) /\ BlockOf(disk', 1) = BlockOf(disk, 1)
  BY <1>6, BlocksSame
<1>8. VolumeTyped'
  BY <1>0, <1>1, <1>4, <1>5, <1>7 DEF VolumeTyped, Places, Formatting, Later
<1>9. RoomForFiles'
  BY <1>0, <1>1, <1>7 DEF RoomForFiles
<1>10. ASSUME events' \subseteq {"label"} PROVE DiskSound'
  <2>1. disk[0].kind # "entries" /\ size >= DATA_START + FILE_SECTORS /\ OnlyMass(Whole(size)) /\ NoEntries
    BY <1>0, <1>1, <1>10 DEF DiskSound, Formatting, Places
  <2>2. NoEntries' /\ OnlyMass(Whole(size))'
    BY <1>1, <1>6, <1>7, <2>1 DEF NoEntries, OnlyMass, Whole
  <2>3. disk'[0] = disk[0]
    BY <1>4, Layout
  <2>4. ~HasRoot'
    BY <2>2, SectorsApart DEF HasRoot, NoEntries
  <2>5. QED
    BY <1>1, <2>1, <2>2, <2>3, <2>4 DEF DiskSound
<1>11. DiskSound'
  BY <1>10 DEF DiskSound
<1>12. QED
  BY <1>8, <1>9, <1>11 DEF VolumeInv

LEMMA CarveKeeps == ASSUME VolumeInv, CarveFiles PROVE VolumeInv'
<1>0. VolumeTyped /\ RoomForFiles /\ DiskSound
  BY DEF VolumeInv
<1> DEFINE b == BlockOf(disk, 0)
           e == [start |-> Wrap(b.start + FILE_SECTORS), count |-> Wrap(b.count - FILE_SECTORS), state |-> "FREE"]
<1>1. /\ pc = "carve" /\ disk' = WithBlock(disk, 0, e) /\ pc' = "enter"
      /\ files' = [start |-> b.start, count |-> FILE_SECTORS, state |-> "USED"]
      /\ UNCHANGED <<size, rootdir, info, pos, events>>
  BY DEF CarveFiles, Continue, BlockAt, BlockOf
<1>2. /\ b.start = DATA_START /\ size \in SECTOR_BLKS .. DISK /\ DiskOK(disk)
      /\ 0 \in 0 .. COUNT_MAX - 1 /\ 1 \in 0 .. COUNT_MAX - 1
  BY <1>0, <1>1, Layout DEF VolumeTyped, Formatting, Places
<1>3. b \in Block
  BY <1>2, BlockTyped
<1>4. e \in Block
  <2>1. \A x \in Int : x % UINT \in Nat
    BY Layout
  <2>2. b.start + FILE_SECTORS \in Int /\ b.count - FILE_SECTORS \in Int
    BY <1>3, Layout DEF Block
  <2>3. QED
    BY <2>1, <2>2 DEF Block, Wrap
<1> HIDE DEF e
<1>5. /\ DiskOK(disk')
      /\ \A j \in 0 .. COUNT_MAX - 1 : BlockOf(disk', j) = IF j = 0 THEN e ELSE BlockOf(disk, j)
      /\ \A s \in 0 .. DISK - 1 : s \notin BlockSectors => disk'[s] = disk[s]
  BY <1>1, <1>2, <1>4, BlockWritten
<1>6. files' = TheFiles
  BY <1>1, <1>2 DEF TheFiles
<1>7. VolumeTyped'
  BY <1>0, <1>1, <1>5, <1>6 DEF VolumeTyped, Places, Formatting, Later
<1>8. RoomForFiles'
  BY <1>0, <1>1, <1>2, <1>5 DEF RoomForFiles
<1>9. ASSUME events' \subseteq {"label"} PROVE DiskSound'
  <2>1. disk[0].kind # "entries" /\ size >= DATA_START + FILE_SECTORS /\ OnlyMass(Whole(size)) /\ NoEntries
    BY <1>0, <1>1, <1>9 DEF DiskSound, Formatting, Places
  <2>2. NoEntries' /\ disk'[0] = disk[0]
    BY <1>5, <2>1, SectorsApart, Layout DEF NoEntries
  <2>3. e = Rest(size)
    <3>1. b = Whole(size)
      BY <1>2, <2>1 DEF OnlyMass
    <3>2. b.start + FILE_SECTORS = DATA_START + FILE_SECTORS /\ b.count - FILE_SECTORS = size - DATA_START - FILE_SECTORS
      BY <1>2, <3>1, Layout DEF Whole
    <3>3. DATA_START + FILE_SECTORS \in 0 .. UINT - 1 /\ size - DATA_START - FILE_SECTORS \in 0 .. UINT - 1
      BY <1>2, <2>1, Layout
    <3>4. \A x \in 0 .. UINT - 1 : x % UINT = x
      BY Layout
    <3>5. QED
      BY <3>2, <3>3, <3>4 DEF e, Wrap, Rest
  <2>4. OnlyMass(Rest(size))'
    BY <1>1, <1>5, <2>1, <2>3 DEF OnlyMass, Rest
  <2>5. ~HasRoot'
    BY <2>2, SectorsApart DEF HasRoot, NoEntries
  <2>6. QED
    BY <1>1, <2>1, <2>2, <2>4, <2>5 DEF DiskSound
<1>10. DiskSound'
  BY <1>9 DEF DiskSound
<1>11. QED
  BY <1>7, <1>8, <1>10 DEF VolumeInv

\* With room, the block of the file table is entered behind the mass entry.
LEMMA EnterKeeps == ASSUME VolumeInv, EnterFiles PROVE VolumeInv'
<1>0. VolumeTyped /\ RoomForFiles /\ DiskSound
  BY DEF VolumeInv
<1>1. /\ pc = "enter" /\ pc' = "start" /\ UNCHANGED <<size, rootdir, info, pos, events>>
      /\ \/ \E i \in FreeBlocks : disk' = WithBlock(disk, i, files) /\ UNCHANGED files
         \/ FreeBlocks = {} /\ files' = NULL_BLKENTRY /\ UNCHANGED disk
  BY DEF EnterFiles, Continue
<1>2. DiskOK(disk) /\ files = TheFiles /\ TheFiles \in Block /\ size \in SECTOR_BLKS .. DISK
      /\ 0 \in 0 .. COUNT_MAX - 1 /\ 1 \in 0 .. COUNT_MAX - 1
  BY <1>0, <1>1, Layout DEF VolumeTyped, TheFiles, Block, Formatting, Places
<1>3. FreeBlocks = {i \in 0 .. COUNT_MAX - 1 : BlockOf(disk, i) = NULL_BLKENTRY
                        /\ \A j \in 0 .. COUNT_MAX - 1 : BlockOf(disk, j) = NULL_BLKENTRY => i =< j}
  BY DEF FreeBlocks, Least, BlockAt, BlockOf
<1>4. ASSUME NEW i \in FreeBlocks, disk' = WithBlock(disk, i, files)
      PROVE  /\ DiskOK(disk')
             /\ \A j \in 0 .. COUNT_MAX - 1 : BlockOf(disk', j) = IF j = i THEN TheFiles ELSE BlockOf(disk, j)
             /\ \A s \in 0 .. DISK - 1 : s \notin BlockSectors => disk'[s] = disk[s]
  BY <1>2, <1>3, <1>4, BlockWritten
<1>5. VolumeTyped'
  BY <1>0, <1>1, <1>2, <1>4 DEF VolumeTyped, Places, Formatting, Later
<1>6. ASSUME events' \subseteq {"label", "too_small"} PROVE FreeBlocks \subseteq {0, 1} /\ FreeBlocks # {}
  <2>1. BlockOf(disk, 1) = NULL_BLKENTRY
    BY <1>0, <1>1, <1>6 DEF RoomForFiles
  <2>2. FreeBlocks \subseteq {0, 1}
    BY <1>2, <1>3, <2>1
  <2>3. CASE BlockOf(disk, 0) = NULL_BLKENTRY
    <3>1. 0 \in FreeBlocks
      BY <1>2, <1>3, <2>3
    <3>2. QED
      BY <2>2, <3>1
  <2>4. CASE BlockOf(disk, 0) # NULL_BLKENTRY
    <3>1. \A j \in 0 .. COUNT_MAX - 1 : BlockOf(disk, j) = NULL_BLKENTRY => 1 =< j
      BY <2>4
    <3>2. 1 \in FreeBlocks
      BY <1>2, <1>3, <2>1, <3>1
    <3>3. QED
      BY <2>2, <3>2
  <2>5. QED
    BY <2>3, <2>4
<1>7. RoomForFiles'
  BY <1>1, <1>2, <1>6 DEF RoomForFiles
<1>8. ASSUME events' \subseteq {"label"} PROVE DiskSound'
  <2>1. disk[0].kind # "entries" /\ size >= DATA_START + FILE_SECTORS /\ OnlyMass(Rest(size)) /\ NoEntries
    BY <1>0, <1>1, <1>8 DEF DiskSound, Formatting, Places
  <2>2. PICK i \in FreeBlocks : disk' = WithBlock(disk, i, files)
    BY <1>1, <1>6, <1>8
  <2>3. i = 1
    <3>1. Rest(size) # NULL_BLKENTRY
      BY Layout DEF Rest, NULL_BLKENTRY
    <3>2. BlockOf(disk, 0) # NULL_BLKENTRY
      BY <1>2, <2>1, <3>1 DEF OnlyMass
    <3>3. i # 0
      BY <1>3, <2>2, <3>2
    <3>4. QED
      BY <1>6, <1>8, <3>3
  <2>4. /\ \A j \in 0 .. COUNT_MAX - 1 : BlockOf(disk', j) = IF j = 1 THEN TheFiles ELSE BlockOf(disk, j)
        /\ \A s \in 0 .. DISK - 1 : s \notin BlockSectors => disk'[s] = disk[s]
    BY <1>4, <2>2, <2>3
  <2>5. NoEntries' /\ disk'[0] = disk[0]
    BY <2>1, <2>4, SectorsApart, Layout DEF NoEntries
  <2>6. BothBlocks'
    BY <1>1, <2>1, <2>4 DEF BothBlocks, OnlyMass, Rest
  <2>7. ~HasRoot'
    BY <2>5, SectorsApart DEF HasRoot, NoEntries
  <2>8. QED
    BY <1>1, <2>1, <2>5, <2>6, <2>7 DEF DiskSound
<1>9. DiskSound'
  BY <1>8 DEF DiskSound
<1>10. QED
  BY <1>5, <1>7, <1>9 DEF VolumeInv

\* The file table is empty, so the first of its sectors is the only one that is searched.
LEMMA NothingUsed ==
  ASSUME NEW i, i.file_start = DATA_START, i.file_sectors = FILE_SECTORS, NoEntries
  PROVE  MaxUsed(i) = 1
<1> DEFINE S == {k \in 0 .. i.file_sectors - 1 :
                  \E j \in 0 .. FPER_SECTOR - 1 : EntriesIn(disk[i.file_start + k])[j].type # "NULL"}
<1>1. ASSUME NEW k \in 0 .. FILE_SECTORS - 1, NEW j \in 0 .. FPER_SECTOR - 1
      PROVE  EntriesIn(disk[DATA_START + k])[j].type = "NULL"
  <2>1. DATA_START + k \in FileSectors
    BY Layout DEF FileSectors
  <2>2. QED
    BY <2>1 DEF NoEntries, EntriesIn, NULL_DIR
<1>2. S = {}
  BY <1>1
<1> DEFINE c == CHOOSE m \in S \cup {0} : \A n \in S : n =< m
<1>3. MaxUsed(i) = 1 + c
  BY DEF MaxUsed
<1> HIDE DEF S
<1>4. c = 0
  BY <1>2
<1> HIDE DEF c
<1>5. QED
  BY <1>3, <1>4

LEMMA WriteStartKeeps == ASSUME VolumeInv, WriteFileStart PROVE VolumeInv'
<1>0. VolumeTyped /\ RoomForFiles /\ DiskSound
  BY DEF VolumeInv
<1> DEFINE i == [info EXCEPT !.file_start = files.start]
<1>1. /\ pc = "start" /\ InfoWrite(i) /\ pc' = "root" /\ UNCHANGED <<size, rootdir, pos, files, events>>
  BY DEF WriteFileStart, Continue, FileStart
<1>2. i = [blk_max |-> info.blk_max, blk_sectors |-> info.blk_sectors, data_start |-> info.data_start,
           data_count |-> info.data_count, file_start |-> files.start, file_max |-> info.file_max,
           file_sectors |-> info.file_sectors, max_used |-> info.max_used]
  BY <1>0 DEF VolumeTyped, IsInfo
<1>3. files \in {TheFiles, NULL_BLKENTRY} /\ info.file_max = FILE_MAX /\ info.file_sectors = FILE_SECTORS
  BY <1>0, <1>1 DEF VolumeTyped, Later
<1> HIDE DEF i
<1>4. IsInfo(i) /\ (files = TheFiles => i.file_start = DATA_START) /\ i.file_max = FILE_MAX /\ i.file_sectors = FILE_SECTORS
  BY <1>2, <1>3, Layout DEF IsInfo, TheFiles, NULL_BLKENTRY
<1>5. /\ IsInfo(info') /\ SameInfo(i, info') /\ info'.max_used = MaxUsed(i) /\ DiskOK(disk')
      /\ \A s \in 0 .. DISK - 1 : s # SECTOR_INFO => disk'[s] = disk[s]
  BY <1>0, <1>1, <1>4, InfoWritten DEF VolumeTyped
<1>6. info'.file_max = FILE_MAX /\ info'.file_sectors = FILE_SECTORS /\ (files = TheFiles => info'.file_start = DATA_START)
  BY <1>4, <1>5 DEF SameInfo
<1>7. /\ \A s \in BlockSectors : disk'[s] = disk[s]
      /\ \A s \in FileSectors : disk'[s] = disk[s]
  BY <1>5, InfoApart
<1>8. \A j \in 0 .. COUNT_MAX - 1 : BlockOf(disk', j) = BlockOf(disk, j)
  BY <1>7, BlocksSame
<1>9. VolumeTyped'
  BY <1>0, <1>1, <1>5, <1>6 DEF VolumeTyped, Places, Formatting, Later
<1>10. RoomForFiles'
  BY <1>0, <1>1, <1>6 DEF RoomForFiles
<1>11. ASSUME events' \subseteq {"label"} PROVE DiskSound'
  <2>1. disk[0].kind # "entries" /\ size >= DATA_START + FILE_SECTORS /\ BothBlocks /\ NoEntries
    BY <1>0, <1>1, <1>11 DEF DiskSound, Formatting, Places
  <2>2. files = TheFiles
    BY <1>0, <1>1, <1>11 DEF RoomForFiles
  <2>3. info'.max_used = 1
    BY <1>4, <1>5, <2>1, <2>2, NothingUsed
  <2>4. NoEntries' /\ BothBlocks'
    BY <1>1, <1>7, <1>8, <2>1 DEF NoEntries, BothBlocks, Rest
  <2>5. disk'[0] = disk[0]
    BY <1>5, Layout
  <2>6. ~HasRoot'
    BY <2>4, SectorsApart DEF HasRoot, NoEntries
  <2>7. QED
    BY <1>1, <2>1, <2>3, <2>4, <2>5, <2>6 DEF DiskSound
<1>12. DiskSound'
  BY <1>11 DEF DiskSound
<1>13. QED
  BY <1>9, <1>10, <1>12 DEF VolumeInv

LEMMA BothAreSound ==
  ASSUME BothBlocks
  PROVE  TablesSound
<1>1. 1 \in 0 .. COUNT_MAX - 1
  BY Layout
<1>2. BlockOf(disk, 1) = TheFiles
  BY <1>1 DEF BothBlocks
<1>3. \A i \in 0 .. COUNT_MAX - 1 : i # 1 => BlockOf(disk, i) = Rest(size) \/ BlockOf(disk, i) = NULL_BLKENTRY
  BY DEF BothBlocks
<1>4. Rest(size).start >= DATA_START + FILE_SECTORS /\ NULL_BLKENTRY.count = 0
  BY Layout DEF Rest, NULL_BLKENTRY
<1>5. QED
  BY <1>2, <1>3, <1>4 DEF TablesSound

LEMMA RootKeeps == ASSUME VolumeInv, RootCreate PROVE VolumeInv'
<1>0. VolumeTyped /\ RoomForFiles /\ DiskSound
  BY DEF VolumeInv
<1> DEFINE root == [type |-> "DIR", name |-> StrCpy(rootdir.name, LABEL), parent |-> 0, status |-> 255]
<1>1. /\ pc = "root" /\ rootdir' = root /\ disk' = WithEntry(disk, info.file_start, 0, root) /\ pc' = "done"
      /\ events' = IF Covers(LABEL, rootdir.name) THEN events ELSE events \cup {"label"}
      /\ UNCHANGED <<info, size, pos, files>>
  BY DEF RootCreate
<1>2. root.type = "DIR" /\ (Covers(LABEL, rootdir.name) => root = NewRoot)
  <2>1. ASSUME Covers(LABEL, rootdir.name) PROVE StrCpy(rootdir.name, LABEL) = StrCpy(Blank, LABEL)
    <3>1. Len(LABEL) \in Nat
      BY VolumeAssumption, EntryNameAssumption DEF Fits
    <3>2. \A k \in 1 .. WIDTH : ~(k =< Len(LABEL)) => rootdir.name[k] = NUL /\ Blank[k] = NUL
      BY <2>1, <3>1, EntryNameAssumption DEF Covers, Blank
    <3>3. QED
      BY <3>2 DEF StrCpy
  <2>2. QED
    BY <2>1 DEF NewRoot
<1> HIDE DEF root
<1>3. 0 \in 0 .. FILE_MAX - 1 /\ DiskOK(disk) /\ info.file_start \in {0, DATA_START} /\ IsInfo(info)
  BY <1>0, Layout DEF VolumeTyped, IsInfo
<1>4. DiskOK(disk')
  BY <1>1, <1>3, EntryWritten, BootWritten
<1>5. VolumeTyped'
  BY <1>0, <1>1, <1>4 DEF VolumeTyped, Places, Formatting, Later
<1>6. RoomForFiles'
  BY <1>0, <1>1 DEF RoomForFiles
<1>7. ASSUME events' \subseteq {"label"} PROVE DiskSound'
  <2>1. events \subseteq {"label"}
    BY <1>1, <1>7
  <2>2. /\ disk[0].kind # "entries" /\ size >= DATA_START + FILE_SECTORS /\ BothBlocks /\ NoEntries
        /\ info.max_used = 1 /\ info.file_start = DATA_START
    BY <1>0, <1>1, <2>1 DEF DiskSound, RoomForFiles, Formatting, Places
  <2>3. /\ \A j \in 0 .. FILE_MAX - 1 : EntryOf(disk', j) = IF j = 0 THEN root ELSE EntryOf(disk, j)
        /\ \A s \in 0 .. DISK - 1 : s \notin FileSectors => disk'[s] = disk[s]
    BY <1>1, <1>3, <2>2, EntryWritten
  <2>4. \A j \in 0 .. FILE_MAX - 1 : EntryOf(disk, j) = NULL_DIR
    BY <2>2, EntriesNone DEF NoEntries
  <2>5. OnlyRoot'
    BY <1>1, <2>3, <2>4 DEF OnlyRoot
  <2>6. \A s \in BlockSectors : disk'[s] = disk[s]
    BY <2>3, SectorsApart
  <2>7. BothBlocks'
    <3>1. \A j \in 0 .. COUNT_MAX - 1 : BlockOf(disk', j) = BlockOf(disk, j)
      BY <2>6, BlocksSame
    <3>2. QED
      BY <1>1, <2>2, <3>1 DEF BothBlocks, Rest
  <2>8. TablesSound'
    BY <2>2, <2>6, BothAreSound, BlocksSame
  <2>9. disk'[0] = disk[0]
    BY <2>3, Layout, SectorsApart
  <2>10. events' = {} => rootdir' = NewRoot
    BY <1>1, <1>2
  <2>11. QED
    BY <1>1, <1>2, <2>2, <2>5, <2>7, <2>8, <2>9, <2>10 DEF DiskSound
<1>8. DiskSound'
  BY <1>7 DEF DiskSound
<1>9. QED
  BY <1>5, <1>6, <1>8 DEF VolumeInv

LEMMA FormatEndsKeeps == ASSUME VolumeInv, FormatEnds PROVE VolumeInv'
<1>0. VolumeTyped /\ RoomForFiles /\ DiskSound
  BY DEF VolumeInv
<1>1. pc = "done" /\ pc' = "idle" /\ size' = 0 /\ UNCHANGED <<disk, info, rootdir, pos, files, events>>
  BY DEF FormatEnds
<1>2. VolumeTyped'
  BY <1>0, <1>1 DEF VolumeTyped, Places, Formatting, Later
<1>3. RoomForFiles'
  BY <1>1 DEF RoomForFiles
<1>4. ASSUME events' \subseteq {"label"} PROVE DiskSound'
  <2>1. disk[0].kind # "entries" /\ BothBlocks /\ info.file_start = DATA_START
    BY <1>0, <1>1, <1>4 DEF DiskSound, RoomForFiles
  <2>2. TablesSound' /\ (HasRoot' <=> HasRoot)
    BY <1>1, <2>1, BothAreSound DEF TablesSound, HasRoot
  <2>3. QED
    BY <1>1, <2>1, <2>2 DEF DiskSound, Formatting
<1>5. DiskSound'
  BY <1>4 DEF DiskSound
<1>6. QED
  BY <1>2, <1>3, <1>5 DEF VolumeInv

LEMMA CrashKeeps == ASSUME VolumeInv, Crash PROVE VolumeInv'
<1>0. VolumeTyped /\ RoomForFiles /\ DiskSound
  BY DEF VolumeInv
<1>1. pc' = "off" /\ info' = NO_INFO /\ size' = 0 /\ pos' = 0 /\ UNCHANGED <<disk, events>>
  BY DEF Crash
<1>2. IsInfo(NO_INFO)
  BY DEF IsInfo, NO_INFO
<1>3. VolumeTyped'
  BY <1>0, <1>1, <1>2 DEF VolumeTyped, Places, Formatting, Later
<1>4. RoomForFiles'
  BY <1>1 DEF RoomForFiles
<1>5. (HasRoot' <=> HasRoot) /\ (TablesSound' <=> TablesSound)
  BY <1>1 DEF HasRoot, TablesSound
<1>6. DiskSound'
  BY <1>0, <1>1, <1>5 DEF DiskSound, Formatting
<1>7. QED
  BY <1>3, <1>4, <1>6 DEF VolumeInv

LEMMA VolumeStep == VolumeInv /\ [Next]_vars => VolumeInv'
<1> SUFFICES ASSUME VolumeInv, [Next]_vars PROVE VolumeInv'
  OBVIOUS
<1>1. CASE UNCHANGED vars
  <2>1. UNCHANGED <<disk, info, rootdir, pc, size, pos, files, events>>
    BY <1>1 DEF vars
  <2>2. QED
    BY <2>1 DEF VolumeInv, VolumeTyped, RoomForFiles, DiskSound, HasRoot, TablesSound, NoBlocks, NoEntries,
                OnlyMass, BothBlocks, OnlyRoot, Rest, Whole, DataCount
<1>2. ASSUME NEW n \in Formats, NEW wipe \in BOOLEAN, Format(n, wipe) PROVE VolumeInv'
  BY <1>2, FormatKeeps
<1>3. QED
  BY <1>1, <1>2, MountKeeps, UseKeeps, RelabelKeeps, WipeSectorKeeps, WipeEndsKeeps, InfoCreateKeeps,
     WriteMassKeeps, WriteFilesInfoKeeps, CarveKeeps, EnterKeeps, WriteStartKeeps, RootKeeps,
     FormatEndsKeeps, CrashKeeps DEF Next

LEMMA VolumeAlways == Spec => []VolumeInv
  BY InitKeeps, VolumeStep, PTL DEF Spec

-----------------------------------------------------------------------------
(* What a format promises, and what a disk with a root is.                 *)

LEMMA FormatIsComplete == VolumeInv => FormatComplete
<1> SUFFICES ASSUME VolumeInv, pc = "done", size = DISK, events = {} PROVE B!Init /\ D!Init
  BY DEF FormatComplete
<1>1. /\ BothBlocks /\ OnlyRoot /\ rootdir = NewRoot /\ info.max_used = 1 /\ info.file_start = DATA_START
  BY DEF VolumeInv, DiskSound, RoomForFiles
<1>2. B!Init
  <2>1. B!Index = 0 .. COUNT_MAX - 1 /\ B!NULL_BLKENTRY = NULL_BLKENTRY
    BY DEF B!Index, B!NULL_BLKENTRY, NULL_BLKENTRY
  <2>2. Rest(DISK) = [start |-> DATA_START + FILE_SECTORS, count |-> DISK - DATA_START - FILE_SECTORS, state |-> "FREE"]
    BY DEF Rest
  <2>3. \A i \in 0 .. COUNT_MAX - 1 :
          BlockAt(i) = CASE i = 0 -> [start |-> DATA_START + FILE_SECTORS,
                                      count |-> DISK - DATA_START - FILE_SECTORS, state |-> "FREE"]
                         [] i = 1 -> [start |-> DATA_START, count |-> FILE_SECTORS, state |-> "USED"]
                         [] OTHER -> NULL_BLKENTRY
    BY <1>1, <2>2 DEF BothBlocks, BlockAt, BlockOf, TheFiles
  <2>4. QED
    BY <2>1, <2>3 DEF B!Init
<1>3. D!Init
  <2>1. D!Index = 0 .. FILE_MAX - 1 /\ D!NULL = NULL_DIR /\ D!Root = NewRoot
    BY DEF D!Index, D!NULL, NULL_DIR, D!Root, NewRoot, D!StrCpy, StrCpy, D!Blank, Blank
  <2>2. \A i \in 0 .. FILE_MAX - 1 : EntryAt(i) = IF i = 0 THEN NewRoot ELSE NULL_DIR
    BY <1>1 DEF OnlyRoot, EntryAt, EntryOf
  <2>3. QED
    BY <1>1, <2>1, <2>2 DEF D!Init
<1>4. QED
  BY <1>2, <1>3

LEMMA RootIsComplete == VolumeInv => RootMeansComplete
<1> SUFFICES ASSUME VolumeInv, pc = "idle", rootdir.type = "DIR", events \subseteq {"label"},
                    NEW s \in info.file_start .. info.file_start + FILE_SECTORS - 1
             PROVE  \E i \in 0 .. COUNT_MAX - 1 : Holding(s) = {i} /\ BlockAt(i).state = "USED"
  BY DEF RootMeansComplete
<1>1. info.file_start = DATA_START /\ TablesSound /\ DiskOK(disk)
  BY DEF VolumeInv, DiskSound, VolumeTyped
<1>2. \A i \in 0 .. COUNT_MAX - 1 : BlockAt(i) = BlockOf(disk, i)
  BY DEF BlockAt, BlockOf
<1>3. 1 \in 0 .. COUNT_MAX - 1 /\ DATA_START \in Nat /\ FILE_SECTORS \in Nat
  BY Layout
<1>4. BlockAt(1) = [start |-> DATA_START, count |-> FILE_SECTORS, state |-> "USED"]
  BY <1>1, <1>2, <1>3 DEF TablesSound, TheFiles
<1>5. DATA_START =< s /\ s < DATA_START + FILE_SECTORS
  BY <1>1, <1>3
<1>6. 1 \in Holding(s)
  BY <1>3, <1>4, <1>5 DEF Holding
<1>7. ASSUME NEW i \in 0 .. COUNT_MAX - 1, i # 1 PROVE i \notin Holding(s)
  <2>1. BlockAt(i) \in Block
    BY <1>1, <1>2, BlockTyped
  <2>2. BlockAt(i).start >= DATA_START + FILE_SECTORS \/ BlockAt(i).count = 0
    BY <1>1, <1>2, <1>7 DEF TablesSound
  <2>3. QED
    BY <1>3, <1>5, <2>1, <2>2 DEF Holding, Block
<1>8. Holding(s) = {1}
  BY <1>6, <1>7 DEF Holding
<1>9. QED
  BY <1>3, <1>4, <1>8

\* VolumeSound of Volume.tla, for a disk, tables and sequence of formats of every size: a
\* whole format ends in the state the tables' own specifications start from, and a disk that
\* shows a root directory has its file table on sectors described once and as used, wherever
\* earlier formats were cut short (fs_format, fs_mount).
THEOREM VolumesAreSound == Spec => []VolumeSound
<1>1. VolumeInv => VolumeSound
  BY FormatIsComplete, RootIsComplete DEF VolumeSound
<1>2. QED
  BY VolumeAlways, <1>1, PTL

\* An entry of either table is not in the boot sector.
LEMMA TablesOffBoot ==
  ASSUME NEW d, DOMAIN d = 0 .. DISK - 1, NEW e
  PROVE  /\ \A i \in 0 .. COUNT_MAX - 1 : DOMAIN WithBlock(d, i, e) = 0 .. DISK - 1 /\ WithBlock(d, i, e)[0] = d[0]
         /\ \A i \in 0 .. FILE_MAX - 1 : WithEntry(d, DATA_START, i, e)[0] = d[0]
<1>1. 0 \in 0 .. DISK - 1
  BY Layout
<1>2. ASSUME NEW i \in 0 .. COUNT_MAX - 1
      PROVE  DOMAIN WithBlock(d, i, e) = 0 .. DISK - 1 /\ WithBlock(d, i, e)[0] = d[0]
  <2>1. SECTOR_BLKS + i \div PER_SECTOR # 0
    BY BlockPlace, Layout
  <2>2. QED
    BY <1>1, <2>1 DEF WithBlock
<1>3. ASSUME NEW i \in 0 .. FILE_MAX - 1 PROVE WithEntry(d, DATA_START, i, e)[0] = d[0]
  <2>1. DATA_START + i \div FPER_SECTOR # 0
    BY EntryPlace, Layout
  <2>2. QED
    BY <1>1, <2>1 DEF WithEntry
<1>4. QED
  BY <1>2, <1>3

LEMMA InfoOffBoot ==
  ASSUME DOMAIN disk = 0 .. DISK - 1, NEW i, InfoWrite(i)
  PROVE  disk'[0] = disk[0]
  BY Layout DEF InfoWrite

LEMMA UseOffBoot ==
  ASSUME VolumeInv, Use
  PROVE  disk'[0] = disk[0]
<1>1. info.file_start = DATA_START
  BY UsableAt DEF Use
<1> DEFINE mass == [BlockAt(0) EXCEPT !.start = @ + 1, !.count = @ - 1]
           held == [start |-> BlockAt(0).start, count |-> 1, state |-> "USED"]
           file == [NULL_DIR EXCEPT !.type = "FILE"]
<1>2. PICK i \in FreeBlocks, k \in FreeEntries :
        disk' = WithEntry(WithBlock(WithBlock(disk, 0, mass), i, held), DATA_START, k, file)
  BY <1>1 DEF Use
<1> HIDE DEF mass, held, file
<1>3. i \in 0 .. COUNT_MAX - 1 /\ k \in 0 .. FILE_MAX - 1 /\ 0 \in 0 .. COUNT_MAX - 1
  BY Layout DEF FreeBlocks, FreeEntries, Least
<1> DEFINE d1 == WithBlock(disk, 0, mass)
           d2 == WithBlock(d1, i, held)
<1>4. DOMAIN d1 = 0 .. DISK - 1 /\ d1[0] = disk[0]
  BY <1>3, TablesOffBoot DEF VolumeInv, VolumeTyped, DiskOK
<1> HIDE DEF d1
<1>5. DOMAIN d2 = 0 .. DISK - 1 /\ d2[0] = d1[0]
  BY <1>3, <1>4, TablesOffBoot
<1>6. disk' = WithEntry(d2, DATA_START, k, file)
  BY <1>2 DEF d1
<1> HIDE DEF d2
<1>7. QED
  BY <1>3, <1>4, <1>5, <1>6, TablesOffBoot

LEMMA BootStep ==
  ASSUME VolumeInv, [Next]_vars, disk'[0] # disk[0], events' \subseteq {"label", "too_small"}
  PROVE  pc = "wipe"
<1>1. DOMAIN disk = 0 .. DISK - 1
  BY DEF VolumeInv, VolumeTyped, DiskOK
<1>2. 0 \in 0 .. COUNT_MAX - 1 /\ 0 \in 0 .. FILE_MAX - 1
  BY Layout
<1>3. ASSUME UNCHANGED disk PROVE FALSE
  BY <1>3
<1>4. ASSUME NEW i, InfoWrite(i) PROVE FALSE
  BY <1>1, <1>4, InfoOffBoot
<1>5. ASSUME NEW i \in 0 .. COUNT_MAX - 1, NEW e, disk' = WithBlock(disk, i, e) PROVE FALSE
  BY <1>1, <1>5, TablesOffBoot
<1>6. CASE UNCHANGED vars
  BY <1>3, <1>6 DEF vars
<1>7. CASE Mount
  BY <1>4, <1>7 DEF Mount
<1>8. CASE Use
  BY <1>8, UseOffBoot
<1>9. CASE RelabelRoot
  <2>1. info.file_start = DATA_START
    BY <1>9, UsableAt DEF RelabelRoot
  <2>2. QED
    BY <1>1, <1>2, <1>9, <2>1, TablesOffBoot DEF RelabelRoot
<1>10. CASE \E n \in Formats, wipe \in BOOLEAN : Format(n, wipe)
  BY <1>3, <1>10 DEF Format
<1>11. CASE WipeSector
  BY <1>11 DEF WipeSector
<1>12. CASE WipeEnds
  BY <1>3, <1>12 DEF WipeEnds
<1>13. CASE InfoCreate
  BY <1>4, <1>13 DEF InfoCreate
<1>14. CASE WriteMass
  BY <1>2, <1>5, <1>14 DEF WriteMass
<1>15. CASE WriteFilesInfo
  BY <1>4, <1>15 DEF WriteFilesInfo
<1>16. CASE CarveFiles
  BY <1>2, <1>5, <1>16 DEF CarveFiles
<1>17. CASE EnterFiles
  <2>1. FreeBlocks \subseteq 0 .. COUNT_MAX - 1
    BY DEF FreeBlocks, Least
  <2>2. QED
    BY <1>3, <1>5, <1>17, <2>1 DEF EnterFiles
<1>18. CASE WriteFileStart
  BY <1>4, <1>18 DEF WriteFileStart
<1>19. CASE RootCreate
  <2>1. events \subseteq {"label", "too_small"} /\ pc = "root"
    BY <1>19 DEF RootCreate
  <2>2. info.file_start = DATA_START
    BY <2>1 DEF VolumeInv, RoomForFiles
  <2>3. PICK root : disk' = WithEntry(disk, DATA_START, 0, root)
    BY <1>19, <2>2 DEF RootCreate
  <2>4. QED
    BY <1>1, <1>2, <2>3, TablesOffBoot
<1>20. CASE FormatEnds
  BY <1>3, <1>20 DEF FormatEnds
<1>21. CASE Crash
  BY <1>3, <1>21 DEF Crash
<1>22. QED
  BY <1>6, <1>7, <1>8, <1>9, <1>10, <1>11, <1>12, <1>13, <1>14, <1>15, <1>16, <1>17, <1>18, <1>19,
     <1>20, <1>21 DEF Next

\* BootSectorKept of Volume.tla: no step but the wiping changes the boot sector, as a format
\* that has found an empty block table always has room for the file table's block
\* (fs_blktable_allocate, fs_root_create).
THEOREM BootSectorSurvives == Spec => BootSectorKept
<1>1. VolumeInv /\ [Next]_vars => [(disk'[0] # disk[0] /\ events' \subseteq {"label", "too_small"}) => pc = "wipe"]_vars
  BY BootStep
<1>2. QED
  BY VolumeAlways, <1>1, PTL DEF Spec, BootSectorKept

=============================================================================
