----------------------------- MODULE FilesProofs -----------------------------
(***************************************************************************)
(* Theorems about BlockTable.tla and Files.tla, for every size of the      *)
(* tables, of their sectors, of the disk, of the allocations and of the    *)
(* files, and every set of names and values.                               *)
(*                                                                         *)
(* The invariant of the block table is TableSound: the mass entry is the   *)
(* top of the disk, every other entry is empty or describes a region below *)
(* it, no two of them meet but for the one that a merge has still to       *)
(* clear, and an operation between two of its writes knows what it has to  *)
(* do next.                                                                *)
(*                                                                         *)
(* As long as nothing has damaged the files (Sound), the invariant FileInv *)
(* holds: the block table is in order, the index a file keeps is that of a *)
(* held block of its size and of no other file, an operation that has a    *)
(* block is the only one to have it, and the sectors of a block hold what  *)
(* was written to its file.                                                *)
(***************************************************************************)
EXTENDS Files, FiniteSetTheorems, TLAPS

-----------------------------------------------------------------------------
(* The block table.                                                        *)

Apart(e, f) == e.start + e.count =< f.start \/ f.start + f.count =< e.start

Region(e) == DATA_START =< e.start /\ e.count > 0 /\ e.start + e.count =< DISK_END

\* The entries besides the mass entry that describe sectors of their own.
Live == {i \in Index \ {0} : table[i] # NULL_BLKENTRY /\ ~Doomed(i)}

Shape ==
  /\ table[0].state = "FREE"
  /\ DATA_START =< table[0].start /\ table[0].start + table[0].count = DISK_END
  /\ \A i \in Index \ {0} : table[i] = NULL_BLKENTRY \/ Region(table[i])
  /\ \A i \in Live : table[i].start + table[i].count =< table[0].start
  /\ \A i, j \in Live : i # j => Apart(table[i], table[j])

\* What an operation that is between two writes holds on to.
Pending ==
  /\ pc = "carved" =>
       /\ local.state = "USED"
       /\ DATA_START =< local.start /\ local.count > 0
       /\ local.start + local.count = table[0].start
       /\ \A i \in Live : table[i].start + table[i].count =< local.start
  /\ pc = "delete" =>
       /\ local.state = "FREE" /\ local.count > 0
       /\ local.start + local.count =< table[0].start
       /\ \A i, j \in Index : (table[i] = local /\ table[j] = local) => i = j
  /\ pc = "clear" => table[scan].state = "FREE"

\* No sector is without an entry of its own, the block being handed out aside.
Covered ==
  \A a \in Sectors :
    \/ In(a, table[0])
    \/ \E i \in Live : In(a, table[i])
    \/ pc = "carved" /\ In(a, local)

Typed == TypeOK /\ (pc = "clear" => scan \in Index \ {0})

TableSound ==
  /\ Undamaged => Shape /\ Pending
  /\ faults = {} => Covered

-----------------------------------------------------------------------------
(* Arithmetic of the C types.                                              *)

\* The remainder modulo 2^32 is a uint32_t.
LEMMA WrapUInt ==
  ASSUME NEW x \in Int
  PROVE  Wrap(x) \in UInt
  BY BlockTableAssumption DEF Wrap, UInt

LEMMA WrapArith ==
  ASSUME NEW x \in UInt, NEW y \in UInt
  PROVE  Wrap(x + y) \in UInt /\ Wrap(x - y) \in UInt
  BY WrapUInt DEF UInt

\* A value that fits is not changed by the wrap-around.
LEMMA WrapId ==
  ASSUME NEW x \in UInt
  PROVE  Wrap(x) = x
  BY BlockTableAssumption DEF Wrap, UInt

LEMMA LeastIn ==
  ASSUME NEW S, NEW i \in Least(S)
  PROVE  i \in S
  BY DEF Least

\* Rounding an index up to the next sector of the table goes no further than one sector.
LEMMA NextSector ==
  ASSUME NEW i \in Nat
  PROVE  ((i \div PER_SECTOR) + 1) * PER_SECTOR \in 0 .. i + PER_SECTOR
<1> DEFINE q == i \div PER_SECTOR
<1>1. PER_SECTOR \in Nat /\ PER_SECTOR > 0
  BY BlockTableAssumption
<1>2. q \in Nat /\ i = q * PER_SECTOR + (i % PER_SECTOR) /\ i % PER_SECTOR \in 0 .. PER_SECTOR - 1
  BY <1>1
<1>3. q * PER_SECTOR \in Nat /\ (q + 1) * PER_SECTOR = q * PER_SECTOR + PER_SECTOR
  BY <1>1, <1>2
<1>4. QED
  BY <1>1, <1>2, <1>3

-----------------------------------------------------------------------------
(* Type correctness.                                                       *)

LEMMA TypeFacts ==
  ASSUME TypeOK
  PROVE  /\ 0 \in Index /\ 1 \in Index /\ Index \subseteq Nat
         /\ NULL_BLKENTRY \in Entry /\ UInt \subseteq Nat
         /\ table \in [Index -> Entry]
         /\ \A i \in Index : /\ table[i].start \in UInt /\ table[i].count \in UInt
                             /\ table[i].state \in {"FREE", "USED"}
         /\ local.start \in UInt /\ local.count \in UInt /\ local.state \in {"FREE", "USED"}
<1>1. 0 \in Index /\ 1 \in Index /\ Index \subseteq Nat /\ 0 \in UInt /\ UInt \subseteq Nat
  BY BlockTableAssumption DEF Index, UInt
<1>2. NULL_BLKENTRY \in Entry
  BY <1>1 DEF NULL_BLKENTRY, Entry
<1>3. QED
  BY <1>1, <1>2 DEF TypeOK, Entry

\* Replacing one entry by a well-typed one keeps the table well-typed.
LEMMA UpdateType ==
  ASSUME NEW t \in [Index -> Entry], NEW i \in Index, NEW e \in Entry
  PROVE  [t EXCEPT ![i] = e] \in [Index -> Entry]
  OBVIOUS

LEMMA BelowType ==
  ASSUME NEW t \in [Index -> Entry]
  PROVE  StartBelow(t) \in UInt
<1>1. 0 \in UInt
  BY BlockTableAssumption DEF UInt
<1>2. CASE Nearest(t, t[0]) = {}
  BY <1>1, <1>2 DEF StartBelow
<1>3. CASE Nearest(t, t[0]) # {}
  <2> DEFINE n == CHOOSE i \in Nearest(t, t[0]) : TRUE
  <2>1. n \in Nearest(t, t[0])
    BY <1>3
  <2>2. n \in Index
    BY <2>1 DEF Nearest, Least
  <2>3. t[n].start \in UInt
    BY <2>2 DEF Entry
  <2>4. QED
    BY <1>3, <2>3 DEF StartBelow
<1>4. QED
  BY <1>2, <1>3

LEMMA TypeInit == Init => Typed
<1> SUFFICES ASSUME Init PROVE Typed
  OBVIOUS
<1>1. /\ DATA_START + FILE_SECTORS \in UInt /\ DISK_END - DATA_START - FILE_SECTORS \in UInt
      /\ DATA_START \in UInt /\ FILE_SECTORS \in UInt /\ 0 \in UInt
  BY BlockTableAssumption DEF UInt
<1>2. table \in [Index -> Entry] /\ local \in Entry
  BY <1>1 DEF Init, Entry, NULL_BLKENTRY
<1>3. scan \in 0 .. COUNT_MAX + PER_SECTOR /\ below \in UInt
  BY <1>1, BlockTableAssumption DEF Init
<1>4. pc \in At /\ faults \subseteq Overlaps \cup Leaks /\ pc # "clear"
  BY DEF Init, At
<1>5. QED
  BY <1>2, <1>3, <1>4 DEF Typed, TypeOK

\* An operation that ends leaves its local variables well-typed.
LEMMA DoneTyped ==
  ASSUME TypeOK, Done, table' \in [Index -> Entry], faults' \subseteq Overlaps \cup Leaks
  PROVE  Typed'
<1>1. NULL_BLKENTRY \in Entry /\ 0 \in UInt /\ 0 \in 0 .. COUNT_MAX + PER_SECTOR
  BY TypeFacts, BlockTableAssumption DEF UInt
<1>2. QED
  BY <1>1 DEF Done, Typed, TypeOK, At

LEMMA TypeNext == Typed /\ [Next]_vars => Typed'
<1> SUFFICES ASSUME Typed, [Next]_vars PROVE Typed'
  OBVIOUS
<1>t. TypeOK
  BY DEF Typed
<1>z. /\ 0 \in Index /\ Index \subseteq Nat /\ NULL_BLKENTRY \in Entry
      /\ UInt \subseteq Nat /\ table \in [Index -> Entry]
      /\ \A i \in Index : /\ table[i].start \in UInt /\ table[i].count \in UInt
                          /\ table[i].state \in {"FREE", "USED"}
  BY <1>t, TypeFacts
<1>k. Sizes \subseteq UInt /\ Sizes \subseteq Nat
  BY BlockTableAssumption DEF UInt
<1>1. ASSUME NEW s \in Sizes, Allocate(s) PROVE Typed'
  <2>1. Wrap(table[0].start + s) \in UInt /\ Wrap(table[0].count - s) \in UInt
    BY <1>z, <1>k, WrapArith
  <2>2. Carved(s) \in Entry
    BY <2>1 DEF Carved, Entry
  <2>3. Wrap(Carved(s).start - s) \in UInt
    BY <2>1, <1>z, <1>k, WrapArith DEF Carved
  <2>4. local' \in Entry
    BY <1>1, <1>k, <2>3 DEF Allocate, Entry
  <2>5. table' \in [Index -> Entry]
    BY <1>1, <1>z, <2>2, UpdateType DEF Allocate
  <2>6. faults' \subseteq Overlaps \cup Leaks
    BY <1>1, <1>t DEF Allocate, TypeOK, Overlaps
  <2>7. pc' \in At /\ pc' # "clear" /\ scan' = scan /\ below' = below
    BY <1>1 DEF Allocate, At
  <2>8. QED
    BY <1>t, <2>4, <2>5, <2>6, <2>7 DEF Typed, TypeOK
<1>2. ASSUME CreateEntry PROVE Typed'
  <2>1. table' \in [Index -> Entry]
    BY <1>2, <1>z, <1>t, UpdateType DEF CreateEntry, Least, FreeIndexes, TypeOK
  <2>2. faults' \subseteq Overlaps \cup Leaks
    BY <1>2, <1>t DEF CreateEntry, TypeOK, Leaks
  <2>3. QED
    BY <1>2, <1>t, <2>1, <2>2, DoneTyped DEF CreateEntry
<1>3. ASSUME NEW i \in Index \ {0, 1}, Free(i) PROVE Typed'
  <2>1. PICK k \in Least(Equals(table[i])) : table' = [table EXCEPT ![k].state = "FREE"]
    BY <1>3 DEF Free
  <2>2. k \in Index
    BY DEF Least, Equals
  <2>3. table' \in [Index -> Entry]
    BY <1>z, <2>1, <2>2 DEF Entry
  <2>4. below' \in UInt
    BY <1>3, <2>3, BelowType DEF Free
  <2>5. scan' \in 0 .. COUNT_MAX + PER_SECTOR
    BY <1>3, BlockTableAssumption DEF Free
  <2>6. pc' \in At /\ pc' # "clear" /\ local' = local /\ faults' = faults
    BY <1>3 DEF Free, At
  <2>7. QED
    BY <1>t, <2>3, <2>4, <2>5, <2>6 DEF Typed, TypeOK
<1>4. ASSUME MergeGrow PROVE Typed'
  <2>1. PICK i \in Least(Absorbing), n \in Index :
          /\ Absorbs(i, n)
          /\ table' = [table EXCEPT ![i] = Grown(table[i], table[n])]
          /\ local' = table[n] /\ scan' = i + 1
          /\ faults' = IF table[n].start + table[n].count = table[i].start
                         THEN faults ELSE faults \cup {"false_merge"}
    BY <1>4 DEF MergeGrow
  <2>2. i \in Index
    BY DEF Least, Absorbing
  <2>3. Wrap(table[i].count + table[n].count) \in UInt
    BY <1>z, <2>2, WrapArith
  <2>4. Grown(table[i], table[n]) \in Entry
    BY <1>z, <2>2, <2>3 DEF Grown, Entry
  <2>5. table' \in [Index -> Entry] /\ local' \in Entry
    BY <1>z, <2>1, <2>2, <2>4, UpdateType
  <2>6. scan' \in 0 .. COUNT_MAX + PER_SECTOR
    BY <2>1, <2>2, BlockTableAssumption DEF Index
  <2>7. faults' \subseteq Overlaps \cup Leaks
    BY <1>t, <2>1 DEF TypeOK, Overlaps
  <2>8. pc' \in At /\ pc' # "clear" /\ below' = below
    BY <1>4 DEF MergeGrow, At
  <2>9. QED
    BY <1>t, <2>5, <2>6, <2>7, <2>8 DEF Typed, TypeOK
<1>5. ASSUME MergeDelete PROVE Typed'
  <2>1. CASE table' \in Deleted(local) /\ pc' = "merge" /\ local' = NULL_BLKENTRY
             /\ UNCHANGED <<scan, below>>
    <3>1. table' \in [Index -> Entry]
      BY <2>1, <1>z, UpdateType DEF Deleted, Least, Equals
    <3>2. QED
      BY <1>5, <2>1, <3>1, <1>t, <1>z DEF MergeDelete, Typed, TypeOK, At
  <2>2. CASE Done /\ UNCHANGED table
    BY <1>5, <2>2, <1>t, <1>z, DoneTyped DEF MergeDelete, TypeOK
  <2>3. QED
    BY <1>5, <2>1, <2>2 DEF MergeDelete
<1>6. ASSUME MergeEnds PROVE Typed'
  <2>1. 1 \in 0 .. COUNT_MAX + PER_SECTOR /\ 0 \in UInt
    BY BlockTableAssumption DEF UInt
  <2>2. QED
    BY <1>6, <1>t, <2>1 DEF MergeEnds, Typed, TypeOK, At
<1>7. ASSUME Fold PROVE Typed'
  <2>1. PICK i \in Least(Foldable) :
          /\ table' = [table EXCEPT ![0] =
               [start |-> table[i].start, count |-> Wrap(table[0].count + table[i].count),
                state |-> "FREE"]]
          /\ scan' = i
    BY <1>7 DEF Fold
  <2>2. i \in Index \ {0}
    BY DEF Least, Foldable
  <2>3. Wrap(table[0].count + table[i].count) \in UInt
    BY <1>z, <2>2, WrapArith
  <2>4. table' \in [Index -> Entry]
    BY <1>z, <2>1, <2>2, <2>3 DEF Entry
  <2>5. scan' \in 0 .. COUNT_MAX + PER_SECTOR /\ scan' \in Index \ {0}
    BY <2>1, <2>2, BlockTableAssumption DEF Index
  <2>6. QED
    BY <1>7, <1>t, <2>4, <2>5 DEF Fold, Typed, TypeOK, At
<1>8. ASSUME FoldClear PROVE Typed'
  <2>1. scan \in Index
    BY <1>8 DEF FoldClear, Typed
  <2>2. table' \in [Index -> Entry]
    BY <1>8, <1>z, <2>1, UpdateType DEF FoldClear
  <2>3. scan' \in 0 .. COUNT_MAX + PER_SECTOR
    <3>1. scan' \in 0 .. scan + PER_SECTOR
      BY <1>8, <1>z, <2>1, NextSector DEF FoldClear
    <3>2. QED
      BY <2>1, <3>1, BlockTableAssumption DEF Index
  <2>4. QED
    BY <1>8, <1>t, <2>2, <2>3 DEF FoldClear, Typed, TypeOK, At
<1>9. ASSUME FoldEnds PROVE Typed'
  BY <1>9, <1>t, <1>z, DoneTyped DEF FoldEnds, TypeOK
<1>10. ASSUME Crash PROVE Typed'
  <2>1. faults' \subseteq Overlaps \cup Leaks
    BY <1>10, <1>t DEF Crash, TypeOK, Overlaps, Leaks
  <2>2. QED
    BY <1>10, <1>t, <1>z, <2>1, DoneTyped DEF Crash, TypeOK
<1>11. CASE UNCHANGED vars
  BY <1>11 DEF vars, Typed, TypeOK
<1>12. QED
  BY <1>1, <1>2, <1>3, <1>4, <1>5, <1>6, <1>7, <1>8, <1>9, <1>10, <1>11 DEF Next

\* Every field keeps to its C type and every index to the table, in every operation, after
\* every crash, and even after the damaging events (fs_blktable_allocate, merge_free).
THEOREM BlockTableTyped == Spec => []TypeOK
<1>1. Spec => []Typed
  BY TypeInit, TypeNext, PTL DEF Spec
<1>2. Typed => TypeOK
  BY DEF Typed
<1>3. QED
  BY <1>1, <1>2, PTL

-----------------------------------------------------------------------------
(* The invariant.  What it says of one entry, with the types.              *)

LEMMA Facts ==
  ASSUME TypeOK, Shape
  PROVE  /\ 0 \in Index /\ Index \subseteq Nat
         /\ \A i \in Index :
              /\ table[i].start \in Nat /\ table[i].count \in Nat
              /\ table[i].state \in {"FREE", "USED"}
              /\ table[i].start + table[i].count =< DISK_END
         /\ DATA_START =< table[0].start /\ table[0].start + table[0].count = DISK_END
         /\ table[0].state = "FREE"
         /\ \A i \in Index \ {0} : \/ table[i] = NULL_BLKENTRY
                                   \/ DATA_START =< table[i].start /\ table[i].count > 0
         /\ \A i \in Index \ {0} : Empty(table[i]) <=> table[i] = NULL_BLKENTRY
         /\ NULL_BLKENTRY.start = 0 /\ NULL_BLKENTRY.count = 0
<1>1. /\ 0 \in Index /\ Index \subseteq Nat /\ UInt \subseteq Nat
      /\ \A i \in Index : /\ table[i].start \in UInt /\ table[i].count \in UInt
                          /\ table[i].state \in {"FREE", "USED"}
  BY TypeFacts
<1>2. NULL_BLKENTRY.start = 0 /\ NULL_BLKENTRY.count = 0
  BY DEF NULL_BLKENTRY
<1>3. \A i \in Index \ {0} : table[i] = NULL_BLKENTRY \/ Region(table[i])
  BY DEF Shape
<1>4. DATA_START =< table[0].start /\ table[0].start + table[0].count = DISK_END
      /\ table[0].state = "FREE"
  BY DEF Shape
<1>5. \A i \in Index : table[i].start + table[i].count =< DISK_END
  <2> TAKE i \in Index
  <2>1. CASE i = 0
    BY <2>1, <1>4, BlockTableAssumption
  <2>2. CASE i # 0
    BY <2>2, <1>2, <1>3, BlockTableAssumption DEF Region
  <2>3. QED
    BY <2>1, <2>2
<1>6. \A i \in Index \ {0} : Empty(table[i]) <=> table[i] = NULL_BLKENTRY
  <2> TAKE i \in Index \ {0}
  <2>1. CASE table[i] = NULL_BLKENTRY
    BY <2>1, <1>2 DEF Empty
  <2>2. CASE table[i] # NULL_BLKENTRY
    <3>1. DATA_START =< table[i].start /\ table[i].count > 0
      BY <2>2, <1>3 DEF Region
    <3>2. ~Empty(table[i])
      BY <3>1, <1>1, BlockTableAssumption DEF Empty
    <3>3. QED
      BY <2>2, <3>2
  <2>3. QED
    BY <2>1, <2>2
<1>7. QED
  BY <1>1, <1>2, <1>3, <1>4, <1>5, <1>6 DEF Region

\* The entries that count, when no merge has one left to clear.
LEMMA LiveAtRest ==
  ASSUME pc \notin {"delete", "clear"}
  PROVE  Live = {i \in Index \ {0} : table[i] # NULL_BLKENTRY}
  BY DEF Live, Doomed

LEMMA SoundInit == Init => TableSound
<1> SUFFICES ASSUME Init PROVE Shape /\ Pending /\ Covered
  BY DEF TableSound
<1>1. 0 \in Index /\ 1 \in Index
  BY BlockTableAssumption DEF Index
<1>2. /\ table[0].state = "FREE" /\ table[0].start = DATA_START + FILE_SECTORS
      /\ table[0].count = DISK_END - DATA_START - FILE_SECTORS
      /\ table[1].start = DATA_START /\ table[1].count = FILE_SECTORS
      /\ \A i \in Index \ {0, 1} : table[i] = NULL_BLKENTRY
  BY <1>1 DEF Init
<1>3. pc = "idle"
  BY DEF Init
<1>4. Live = {1}
  <2>1. table[1] # NULL_BLKENTRY
    BY <1>2, BlockTableAssumption DEF NULL_BLKENTRY
  <2>2. QED
    BY <1>1, <1>2, <1>3, <2>1, LiveAtRest
<1>5. Shape
  BY <1>1, <1>2, <1>4, BlockTableAssumption DEF Shape, Region
<1>6. Pending
  BY <1>3 DEF Pending
<1>7. Covered
  BY <1>2, <1>4, BlockTableAssumption DEF Covered, Sectors, In
<1>8. QED
  BY <1>5, <1>6, <1>7

-----------------------------------------------------------------------------
(* What each write does to the table, entry by entry.                      *)

\* An allocation from a mass entry that is large enough takes its lowest sectors.
LEMMA AllocateEffect ==
  ASSUME TypeOK, Shape, NEW s \in Sizes, Allocate(s), Undamaged'
  PROVE  /\ s \in Nat /\ 0 < s /\ s =< table[0].count
         /\ table'[0] = [start |-> table[0].start + s, count |-> table[0].count - s,
                         state |-> "FREE"]
         /\ \A j \in Index \ {0} : table'[j] = table[j]
         /\ local' = [start |-> table[0].start, count |-> s, state |-> "USED"]
<1>1. s \in Nat /\ 0 < s
  BY BlockTableAssumption
<1>2. /\ 0 \in Index /\ table[0].start \in Nat /\ table[0].count \in Nat
      /\ table[0].start + table[0].count = DISK_END
  BY Facts
<1>3. s =< table[0].count
  <2>1. ~(s > table[0].count)
    BY DEF Allocate, Undamaged, Overlaps
  <2>2. QED
    BY <1>1, <1>2, <2>1
<1>4. /\ table[0].start + s \in UInt /\ table[0].count - s \in UInt
      /\ table[0].start \in UInt /\ (table[0].start + s) - s = table[0].start
  BY <1>1, <1>2, <1>3, BlockTableAssumption DEF UInt
<1>5. Carved(s) = [start |-> table[0].start + s, count |-> table[0].count - s, state |-> "FREE"]
  BY <1>4, WrapId DEF Carved
<1>6. Wrap(Carved(s).start - s) = table[0].start
  BY <1>4, <1>5, WrapId
<1>7. table' = [table EXCEPT ![0] = Carved(s)] /\ table \in [Index -> Entry]
  BY TypeFacts DEF Allocate
<1>8. table'[0] = Carved(s) /\ \A j \in Index \ {0} : table'[j] = table[j]
  BY <1>2, <1>7
<1>9. local' = [start |-> table[0].start, count |-> s, state |-> "USED"]
  BY <1>6 DEF Allocate
<1>10. QED
  BY <1>1, <1>3, <1>5, <1>8, <1>9

\* The block that was carved is entered in an empty entry, or there is none.
LEMMA CreateEffect ==
  ASSUME TypeOK, Shape, CreateEntry
  PROVE  \/ \E k \in Index \ {0} :
              /\ table[k] = NULL_BLKENTRY /\ table'[k] = local
              /\ \A j \in Index \ {k} : table'[j] = table[j]
              /\ faults' = faults
         \/ table' = table /\ faults' = faults \cup {"table_full"}
<1>1. 0 \in Index /\ DATA_START =< table[0].start /\ NULL_BLKENTRY.start = 0
  BY Facts
<1>2. table \in [Index -> Entry] /\ table[0].start \in UInt
  BY TypeFacts
<1>3. CASE table' = table /\ faults' = faults \cup {"table_full"}
  BY <1>3
<1>4. CASE \E i \in Least(FreeIndexes) : table' = [table EXCEPT ![i] = local] /\ faults' = faults
  <2>1. PICK k \in Least(FreeIndexes) : table' = [table EXCEPT ![k] = local] /\ faults' = faults
    BY <1>4
  <2>2. k \in Index /\ table[k] = NULL_BLKENTRY
    BY DEF Least, FreeIndexes
  <2>3. k # 0
    BY <1>1, <1>2, <2>2, BlockTableAssumption DEF UInt
  <2>4. QED
    BY <1>2, <2>1, <2>2, <2>3
<1>5. QED
  BY <1>3, <1>4 DEF CreateEntry

\* Freeing changes the state of one entry, the one it was called for, and nothing else.
LEMMA FreeEffect ==
  ASSUME TypeOK, Shape, NEW i \in Index \ {0, 1}, Free(i)
  PROVE  /\ pc = "idle" /\ pc' = "merge" /\ table[i] # NULL_BLKENTRY
         /\ \E k \in Index \ {0} :
              /\ table[k] = table[i] /\ table'[k] = [table[k] EXCEPT !.state = "FREE"]
              /\ \A j \in Index \ {k} : table'[j] = table[j]
<1>1. PICK k \in Least(Equals(table[i])) : table' = [table EXCEPT ![k].state = "FREE"]
  BY DEF Free
<1>2. k \in Index /\ table[k] = table[i]
  BY DEF Least, Equals
<1>3. table[i] # NULL_BLKENTRY /\ pc = "idle" /\ pc' = "merge"
  BY DEF Free, NULL_BLKENTRY
<1>4. i \in Live
  BY <1>3, LiveAtRest
<1>5. k # 0
  <2>1. table[i].start + table[i].count =< table[0].start
    BY <1>4 DEF Shape
  <2>2. table[i].start \in Nat /\ table[i].count \in Nat /\ table[i].count > 0
    BY <1>3, Facts
  <2>3. table[i].start # table[0].start
    BY <2>1, <2>2
  <2>4. QED
    BY <1>2, <2>3
<1>6. table \in [Index -> Entry]
  BY TypeFacts
<1>7. table'[k] = [table[k] EXCEPT !.state = "FREE"] /\ \A j \in Index \ {k} : table'[j] = table[j]
  BY <1>1, <1>2, <1>6
<1>8. QED
  BY <1>2, <1>3, <1>5, <1>7

\* A merge that joins neighbours writes entry i with the block of the entry n below it, which
\* is still to be cleared.
LEMMA GrowEffect ==
  ASSUME TypeOK, Shape, MergeGrow, Undamaged'
  PROVE  \E i, n \in Index \ {0} :
           /\ i # n /\ table[i] # NULL_BLKENTRY /\ table[n] # NULL_BLKENTRY
           /\ table[i].state = "FREE" /\ table[n].state = "FREE"
           /\ table[n].start + table[n].count = table[i].start
           /\ table'[i] = [start |-> table[n].start, count |-> table[i].count + table[n].count,
                           state |-> "FREE"]
           /\ local' = table[n]
           /\ \A j \in Index \ {i} : table'[j] = table[j]
<1>1. PICK i \in Least(Absorbing), n \in Index :
        /\ Absorbs(i, n)
        /\ table' = [table EXCEPT ![i] = Grown(table[i], table[n])]
        /\ local' = table[n]
        /\ faults' = IF table[n].start + table[n].count = table[i].start
                       THEN faults ELSE faults \cup {"false_merge"}
  BY DEF MergeGrow
<1>2. i \in Index \ {0}
  BY DEF Least, Absorbing
<1>3. /\ ~Empty(table[i]) /\ table[i].state = "FREE" /\ table[n].state = "FREE"
      /\ table[n].start # table[i].start /\ n \in Nearest(table, table[i])
  BY <1>1 DEF Absorbs
<1>4. n \in Index \ {0} /\ ~Empty(table[n])
  BY <1>3 DEF Nearest, Least
<1>5. table[i] # NULL_BLKENTRY /\ table[n] # NULL_BLKENTRY /\ i # n
  BY <1>2, <1>3, <1>4, Facts
<1>6. table[n].start + table[n].count = table[i].start
  BY <1>1 DEF Undamaged, Overlaps
<1>7. /\ table[i].start \in Nat /\ table[i].count \in Nat /\ table[n].start \in Nat
      /\ table[n].count \in Nat /\ table[n].count > 0 /\ table[i].start + table[i].count =< DISK_END
  BY <1>2, <1>4, <1>5, Facts
<1>8. table[i].count + table[n].count \in UInt /\ table[i].start > table[n].start
  BY <1>6, <1>7, BlockTableAssumption DEF UInt
<1>9. Grown(table[i], table[n]) = [start |-> table[n].start,
                                   count |-> table[i].count + table[n].count, state |-> "FREE"]
  BY <1>8, WrapId DEF Grown
<1>10. table'[i] = Grown(table[i], table[n]) /\ \A j \in Index \ {i} : table'[j] = table[j]
  BY <1>1, <1>2, TypeFacts
<1>11. QED
  BY <1>1, <1>2, <1>3, <1>4, <1>5, <1>6, <1>9, <1>10

\* The deletion clears the one entry that was left over, or finds none.
LEMMA DeleteEffect ==
  ASSUME TypeOK, Shape, Pending, MergeDelete
  PROVE  \/ /\ pc = "delete" /\ pc' = "merge"
            /\ \E k \in Index \ {0} :
                 /\ table[k] = local /\ table'[k] = NULL_BLKENTRY
                 /\ \A j \in Index \ {k} : table'[j] = table[j] /\ table[j] # local
         \/ pc = "delete" /\ pc' = "idle" /\ table' = table /\ Equals(local) = {}
<1>1. /\ pc = "delete"
      /\ local.count > 0 /\ local.start + local.count =< table[0].start
      /\ \A i, j \in Index : (table[i] = local /\ table[j] = local) => i = j
  BY DEF MergeDelete, Pending
<1>2. CASE table' \in Deleted(local) /\ pc' = "merge"
  <2>1. PICK k \in Least(Equals(local)) : table' = [table EXCEPT ![k] = NULL_BLKENTRY]
    BY <1>2 DEF Deleted
  <2>2. k \in Index /\ table[k] = local
    BY DEF Least, Equals
  <2>3. k # 0
    <3>1. local.start \in Nat /\ local.count \in Nat
      BY TypeFacts
    <3>2. local.start # table[0].start
      BY <1>1, <3>1
    <3>3. QED
      BY <2>2, <3>2
  <2>4. table'[k] = NULL_BLKENTRY /\ \A j \in Index \ {k} : table'[j] = table[j]
    BY <2>1, <2>2, TypeFacts
  <2>5. \A j \in Index \ {k} : table[j] # local
    BY <1>1, <2>2
  <2>6. QED
    BY <1>1, <1>2, <2>2, <2>3, <2>4, <2>5
<1>3. CASE Equals(local) = {} /\ Done /\ UNCHANGED table
  BY <1>1, <1>3 DEF Done
<1>4. QED
  BY <1>2, <1>3 DEF MergeDelete

\* A fold gives the mass entry the block that ends where it starts; entry i is still to be
\* cleared.
LEMMA FoldEffect ==
  ASSUME TypeOK, Shape, Fold
  PROVE  \E i \in Index \ {0} :
           /\ table[i] # NULL_BLKENTRY /\ table[i].state = "FREE"
           /\ table[i].start + table[i].count = table[0].start
           /\ table'[0] = [start |-> table[i].start, count |-> table[0].count + table[i].count,
                           state |-> "FREE"]
           /\ scan' = i
           /\ \A j \in Index \ {0} : table'[j] = table[j]
<1>1. PICK i \in Least(Foldable) :
        /\ table' = [table EXCEPT ![0] =
             [start |-> table[i].start, count |-> Wrap(table[0].count + table[i].count),
              state |-> "FREE"]]
        /\ scan' = i
  BY DEF Fold
<1>2. /\ i \in Index \ {0} /\ ~Empty(table[i]) /\ table[i].state = "FREE"
      /\ Wrap(table[i].start + table[i].count) = table[0].start
  BY DEF Least, Foldable
<1>3. /\ 0 \in Index /\ table[0].start \in Nat /\ table[0].count \in Nat
      /\ table[0].start + table[0].count = DISK_END
  BY Facts
<1>4. /\ table[i].start \in Nat /\ table[i].count \in Nat
      /\ table[i].start + table[i].count =< DISK_END /\ table[i] # NULL_BLKENTRY
  BY <1>2, Facts
<1>5. table[i].start + table[i].count \in UInt
  BY <1>4, BlockTableAssumption DEF UInt
<1>6. table[i].start + table[i].count = table[0].start
  BY <1>2, <1>5, WrapId
<1>7. table[0].count + table[i].count \in UInt
  BY <1>3, <1>4, <1>6, BlockTableAssumption DEF UInt
<1>8. Wrap(table[0].count + table[i].count) = table[0].count + table[i].count
  BY <1>7, WrapId
<1>9. /\ table'[0] = [start |-> table[i].start, count |-> Wrap(table[0].count + table[i].count),
                      state |-> "FREE"]
      /\ \A j \in Index \ {0} : table'[j] = table[j]
  BY <1>1, <1>3, TypeFacts
<1>10. QED
  BY <1>1, <1>2, <1>4, <1>6, <1>8, <1>9

LEMMA ClearEffect ==
  ASSUME Typed, FoldClear
  PROVE  /\ pc = "clear" /\ pc' = "fold" /\ scan \in Index \ {0}
         /\ table'[scan] = NULL_BLKENTRY
         /\ \A j \in Index \ {scan} : table'[j] = table[j]
<1>1. pc = "clear" /\ pc' = "fold" /\ scan \in Index \ {0}
  BY DEF FoldClear, Typed
<1>2. table \in [Index -> Entry]
  BY DEF Typed, TypeOK
<1>3. QED
  BY <1>1, <1>2 DEF FoldClear

-----------------------------------------------------------------------------
(* Each write keeps the invariant.                                         *)

\* The table keeps its shape when no place changes and no entry begins to count.
LEMMA SamePlaces ==
  ASSUME TypeOK, Shape, Live' \subseteq Live,
         \A j \in Index : table'[j].start = table[j].start /\ table'[j].count = table[j].count,
         \A j \in Index \ {0} : table[j] = NULL_BLKENTRY => table'[j] = NULL_BLKENTRY,
         table'[0] = table[0]
  PROVE  Shape'
<1>1. 0 \in Index /\ Live \subseteq Index
  BY Facts DEF Live
<1>2. \A i \in Index \ {0} : table'[i] = NULL_BLKENTRY \/ Region(table'[i])
  BY DEF Shape, Region
<1>3. \A i \in Live' : table'[i].start + table'[i].count =< table'[0].start
  BY <1>1 DEF Shape
<1>4. \A i, j \in Live' : i # j => Apart(table'[i], table'[j])
  BY <1>1 DEF Shape, Apart
<1>5. QED
  BY <1>2, <1>3, <1>4 DEF Shape

\* It does when entries that do not count are cleared.
LEMMA ClearedPlaces ==
  ASSUME TypeOK, Shape, Live' \subseteq Live,
         \A j \in Index : table'[j] = table[j] \/ (j \notin Live \cup {0} /\ table'[j] = NULL_BLKENTRY)
  PROVE  Shape'
<1>1. 0 \in Index /\ Live \subseteq Index
  BY Facts DEF Live
<1>2. table'[0] = table[0] /\ \A j \in Live : table'[j] = table[j]
  BY <1>1
<1>3. \A i \in Index \ {0} : table'[i] = NULL_BLKENTRY \/ Region(table'[i])
  BY DEF Shape
<1>4. \A i \in Live' : table'[i].start + table'[i].count =< table'[0].start
  BY <1>2 DEF Shape
<1>5. \A i, j \in Live' : i # j => Apart(table'[i], table'[j])
  BY <1>2 DEF Shape
<1>6. QED
  BY <1>2, <1>3, <1>4, <1>5 DEF Shape

LEMMA ShapeAllocate ==
  ASSUME TypeOK, Shape, Pending, NEW s \in Sizes, Allocate(s), Undamaged'
  PROVE  Shape' /\ Pending'
<1>1. /\ s \in Nat /\ 0 < s /\ s =< table[0].count
      /\ table'[0] = [start |-> table[0].start + s, count |-> table[0].count - s,
                      state |-> "FREE"]
      /\ \A j \in Index \ {0} : table'[j] = table[j]
      /\ local' = [start |-> table[0].start, count |-> s, state |-> "USED"]
  BY AllocateEffect
<1>2. pc = "idle" /\ pc' = "carved"
  BY DEF Allocate
<1>3. Live' = Live
  BY <1>1, <1>2 DEF Live, Doomed
<1>4. /\ table[0].start \in Nat /\ table[0].count \in Nat /\ DATA_START =< table[0].start
      /\ table[0].start + table[0].count = DISK_END
      /\ table'[0].start = table[0].start + s /\ table'[0].count = table[0].count - s
      /\ table'[0].state = "FREE"
  BY <1>1, Facts
<1>5. \A i \in Live : i \in Index \ {0} /\ table[i].start \in Nat /\ table[i].count \in Nat
                      /\ table'[i] = table[i]
                      /\ table[i].start + table[i].count =< table[0].start
  BY <1>1, Facts DEF Live, Shape
<1>6. Shape'
  <2>1. DATA_START =< table'[0].start /\ table'[0].start + table'[0].count = DISK_END
    BY <1>1, <1>4, BlockTableAssumption
  <2>2. \A i \in Index \ {0} : table'[i] = NULL_BLKENTRY \/ Region(table'[i])
    BY <1>1 DEF Shape
  <2>3. \A i \in Live' : table'[i].start + table'[i].count =< table'[0].start
    BY <1>1, <1>3, <1>4, <1>5
  <2>4. \A i, j \in Live' : i # j => Apart(table'[i], table'[j])
    BY <1>3, <1>5 DEF Shape
  <2>5. QED
    BY <1>4, <2>1, <2>2, <2>3, <2>4 DEF Shape
<1>7. Pending'
  BY <1>1, <1>2, <1>3, <1>4, <1>5 DEF Pending
<1>8. QED
  BY <1>6, <1>7

LEMMA CoverAllocate ==
  ASSUME TypeOK, Shape, Covered, NEW s \in Sizes, Allocate(s), Undamaged'
  PROVE  Covered'
<1>1. /\ s \in Nat /\ 0 < s /\ s =< table[0].count
      /\ table'[0] = [start |-> table[0].start + s, count |-> table[0].count - s,
                      state |-> "FREE"]
      /\ \A j \in Index \ {0} : table'[j] = table[j]
      /\ local' = [start |-> table[0].start, count |-> s, state |-> "USED"]
  BY AllocateEffect
<1>2. pc = "idle" /\ pc' = "carved"
  BY DEF Allocate
<1>3. Live' = Live /\ \A i \in Live : table'[i] = table[i]
  BY <1>1, <1>2 DEF Live, Doomed
<1>4. table[0].start \in Nat /\ table[0].count \in Nat
  BY Facts
<1>5. \A a \in Sectors : In(a, table[0]) => In(a, table'[0]) \/ In(a, local')
  BY <1>1, <1>4, BlockTableAssumption DEF In, Sectors
<1>6. QED
  BY <1>2, <1>3, <1>5 DEF Covered

LEMMA ShapeCreate ==
  ASSUME TypeOK, Shape, Pending, CreateEntry
  PROVE  Shape' /\ Pending'
<1>1. pc = "carved" /\ pc' = "idle"
  BY DEF CreateEntry, Done
<1>2. Pending'
  BY <1>1 DEF Pending
<1>3. CASE table' = table
  <2>1. Live' = Live
    BY <1>1, <1>3 DEF Live, Doomed
  <2>2. QED
    BY <1>2, <1>3, <2>1, SamePlaces
<1>4. CASE \E k \in Index \ {0} :
             /\ table[k] = NULL_BLKENTRY /\ table'[k] = local
             /\ \A j \in Index \ {k} : table'[j] = table[j]
  <2> PICK k \in Index \ {0} : /\ table[k] = NULL_BLKENTRY /\ table'[k] = local
                               /\ \A j \in Index \ {k} : table'[j] = table[j]
    BY <1>4
  <2>1. /\ 0 \in Index /\ table'[0] = table[0] /\ table[0].start + table[0].count = DISK_END
        /\ table[0].start \in Nat /\ table[0].count \in Nat
    BY Facts
  <2>2. /\ local.start \in Nat /\ local.count \in Nat /\ local.count > 0
        /\ DATA_START =< local.start /\ local.start + local.count = table[0].start
        /\ \A i \in Live : table[i].start + table[i].count =< local.start
    BY <1>1, TypeFacts DEF Pending
  <2>3. \A i \in Live' : i = k \/ (i \in Live /\ i # k /\ table'[i] = table[i])
    BY <1>1 DEF Live, Doomed
  <2>4. \A i \in Index \ {0} : table'[i] = NULL_BLKENTRY \/ Region(table'[i])
    <3> TAKE i \in Index \ {0}
    <3>1. CASE i = k
      BY <3>1, <2>1, <2>2, BlockTableAssumption DEF Region
    <3>2. CASE i # k
      BY <3>2 DEF Shape
    <3>3. QED
      BY <3>1, <3>2
  <2>5. \A i \in Live' : table'[i].start + table'[i].count =< table'[0].start
    <3> TAKE i \in Live'
    <3>1. CASE i = k
      BY <3>1, <2>1, <2>2
    <3>2. CASE i \in Live /\ table'[i] = table[i]
      BY <3>2, <2>1 DEF Shape
    <3>3. QED
      BY <3>1, <3>2, <2>3
  <2>6. \A i, j \in Live' : i # j => Apart(table'[i], table'[j])
    <3> SUFFICES ASSUME NEW i \in Live', NEW j \in Live', i # j
                 PROVE  Apart(table'[i], table'[j])
      OBVIOUS
    <3>1. CASE i = k
      BY <3>1, <2>2, <2>3 DEF Apart
    <3>2. CASE j = k
      BY <3>2, <2>2, <2>3 DEF Apart
    <3>3. CASE i # k /\ j # k
      BY <3>3, <2>3 DEF Shape
    <3>4. QED
      BY <3>1, <3>2, <3>3
  <2>7. QED
    BY <1>2, <2>1, <2>4, <2>5, <2>6 DEF Shape
<1>5. QED
  BY <1>3, <1>4, CreateEffect

LEMMA CoverCreate ==
  ASSUME TypeOK, Shape, Pending, Covered, CreateEntry, faults' = {}
  PROVE  Covered'
<1>1. pc = "carved" /\ pc' = "idle"
  BY DEF CreateEntry, Done
<1>2. PICK k \in Index \ {0} : /\ table[k] = NULL_BLKENTRY /\ table'[k] = local
                               /\ \A j \in Index \ {k} : table'[j] = table[j]
  BY CreateEffect
<1>3. local # NULL_BLKENTRY
  BY <1>1 DEF Pending, NULL_BLKENTRY
<1>4. k \in Live' /\ \A i \in Live : i \in Live' /\ table'[i] = table[i]
  BY <1>1, <1>2, <1>3 DEF Live, Doomed
<1>5. table'[0] = table[0]
  BY <1>2, Facts
<1>6. QED
  BY <1>2, <1>4, <1>5 DEF Covered

LEMMA ShapeFree ==
  ASSUME TypeOK, Shape, NEW i \in Index \ {0, 1}, Free(i)
  PROVE  /\ Shape' /\ Pending'
         /\ Covered => Covered'
<1>1. pc = "idle" /\ pc' = "merge"
  BY FreeEffect
<1>2. PICK k \in Index \ {0} :
        /\ table[k] = table[i] /\ table'[k] = [table[k] EXCEPT !.state = "FREE"]
        /\ \A j \in Index \ {k} : table'[j] = table[j]
  BY FreeEffect
<1>3. 0 \in Index /\ \A j \in Index : table[j] \in Entry
  BY TypeFacts DEF TypeOK
<1>4. table[k] # NULL_BLKENTRY
  BY <1>2, FreeEffect
<1>5. table'[k] # NULL_BLKENTRY
  <2>1. table[k].count > 0
    BY <1>4, Facts
  <2>2. table'[k].count = table[k].count
    BY <1>2, <1>3 DEF Entry
  <2>3. QED
    BY <2>1, <2>2 DEF NULL_BLKENTRY
<1>6. Live' = Live
  BY <1>1, <1>2, <1>4, <1>5 DEF Live, Doomed
<1>7. \A j \in Index : table'[j].start = table[j].start /\ table'[j].count = table[j].count
  BY <1>2, <1>3 DEF Entry
<1>8. table'[0] = table[0]
  BY <1>2, <1>3
<1>9. Shape'
  BY <1>2, <1>4, <1>6, <1>7, <1>8, SamePlaces
<1>10. Pending'
  BY <1>1 DEF Pending
<1>11. Covered => Covered'
  <2>1. Live \subseteq Index
    BY DEF Live
  <2>2. QED
    BY <1>1, <1>3, <1>6, <1>7, <2>1 DEF Covered, In
<1>12. QED
  BY <1>9, <1>10, <1>11

LEMMA ShapeGrow ==
  ASSUME TypeOK, Shape, MergeGrow, Undamaged'
  PROVE  /\ Shape' /\ Pending'
         /\ Covered => Covered'
<1>1. PICK i \in Index \ {0}, n \in Index \ {0} :
        /\ i # n /\ table[i] # NULL_BLKENTRY /\ table[n] # NULL_BLKENTRY
        /\ table[i].state = "FREE" /\ table[n].state = "FREE"
        /\ table[n].start + table[n].count = table[i].start
        /\ table'[i] = [start |-> table[n].start, count |-> table[i].count + table[n].count,
                        state |-> "FREE"]
        /\ local' = table[n]
        /\ \A j \in Index \ {i} : table'[j] = table[j]
  BY GrowEffect
<1>2. pc = "merge" /\ pc' = "delete"
  BY DEF MergeGrow
<1>3. Live = {j \in Index \ {0} : table[j] # NULL_BLKENTRY}
  BY <1>2, LiveAtRest
<1>4. i \in Live /\ n \in Live
  BY <1>1, <1>3
<1>5. /\ 0 \in Index /\ table[i].start \in Nat /\ table[i].count \in Nat /\ table[n].start \in Nat
      /\ table[n].count \in Nat /\ table[i].count > 0 /\ table[n].count > 0
      /\ table[0].start \in Nat /\ table[0].count \in Nat /\ DATA_START =< table[n].start
      /\ table[i].start + table[i].count =< DISK_END
  BY <1>1, Facts
<1>6. table[i].start + table[i].count =< table[0].start
      /\ table[n].start + table[n].count =< table[0].start
  BY <1>4 DEF Shape
<1>7. /\ table'[i].start = table[n].start /\ table'[i].count = table[i].count + table[n].count
      /\ table'[i].start + table'[i].count = table[i].start + table[i].count
      /\ table'[n] = table[n] /\ table'[0] = table[0]
  BY <1>1, <1>5
<1>8. \A j \in Live \ {i, n} : table'[j] = table[j] /\ j \in Index
        /\ table[j].start \in Nat /\ table[j].count \in Nat /\ table[j].count > 0
        /\ Apart(table[j], table[i]) /\ Apart(table[j], table[n])
  <2> TAKE j \in Live \ {i, n}
  <2>1. j \in Index \ {0} /\ table[j] # NULL_BLKENTRY
    BY <1>3
  <2>2. table[j].start \in Nat /\ table[j].count \in Nat /\ table[j].count > 0
    BY <2>1, Facts
  <2>3. Apart(table[j], table[i]) /\ Apart(table[j], table[n])
    BY <1>4 DEF Shape
  <2>4. QED
    BY <1>1, <2>1, <2>2, <2>3
<1>9. \A j \in Live \ {i, n} : Apart(table'[j], table'[i]) /\ Apart(table'[i], table'[j])
  BY <1>1, <1>5, <1>7, <1>8 DEF Apart
<1>10. table'[i] # local' /\ table'[i] # NULL_BLKENTRY
  <2>1. table'[i].count # table[n].count /\ table'[i].count > 0
    BY <1>5, <1>7
  <2>2. QED
    BY <1>1, <2>1 DEF NULL_BLKENTRY
<1>11. \A j \in Index : table'[j] = local' => j = n
  <2> SUFFICES ASSUME NEW j \in Index, table'[j] = local', j # n PROVE FALSE
    OBVIOUS
  <2>1. j # i
    BY <1>10
  <2>2. table[j] = table[n]
    BY <1>1, <2>1
  <2>3. j # 0
    <3>1. table[n].start # table[0].start
      BY <1>5, <1>6
    <3>2. QED
      BY <2>2, <3>1
  <2>4. j \in Live
    BY <1>1, <1>3, <2>2, <2>3
  <2>5. Apart(table[j], table[n]) /\ table[j].count > 0
    BY <1>8, <2>1, <2>4
  <2>6. QED
    BY <1>5, <2>2, <2>5 DEF Apart
<1>12. Live' = Live \ {n}
  <2>1. \A j \in Index : Doomed(j)' <=> j = n
    BY <1>1, <1>2, <1>7, <1>11 DEF Doomed
  <2>2. \A j \in Index \ {0} : table'[j] # NULL_BLKENTRY <=> table[j] # NULL_BLKENTRY
    BY <1>1, <1>10
  <2>3. QED
    BY <1>3, <2>1, <2>2 DEF Live
<1>13. Shape'
  <2>1. \A j \in Index \ {0} : table'[j] = NULL_BLKENTRY \/ Region(table'[j])
    <3> TAKE j \in Index \ {0}
    <3>1. CASE j = i
      BY <3>1, <1>5, <1>7, BlockTableAssumption DEF Region
    <3>2. CASE j # i
      BY <3>2, <1>1 DEF Shape
    <3>3. QED
      BY <3>1, <3>2
  <2>2. \A j \in Live' : table'[j].start + table'[j].count =< table'[0].start
    <3> TAKE j \in Live'
    <3>1. CASE j = i
      BY <3>1, <1>6, <1>7
    <3>2. CASE j # i
      BY <3>2, <1>7, <1>8, <1>12 DEF Shape
    <3>3. QED
      BY <3>1, <3>2
  <2>3. \A j, m \in Live' : j # m => Apart(table'[j], table'[m])
    <3> SUFFICES ASSUME NEW j \in Live', NEW m \in Live', j # m
                 PROVE  Apart(table'[j], table'[m])
      OBVIOUS
    <3>1. CASE j = i \/ m = i
      BY <3>1, <1>9, <1>12
    <3>2. CASE j # i /\ m # i
      BY <3>2, <1>8, <1>12 DEF Shape
    <3>3. QED
      BY <3>1, <3>2
  <2>4. QED
    BY <1>7, <2>1, <2>2, <2>3 DEF Shape
<1>14. Pending'
  BY <1>1, <1>2, <1>5, <1>6, <1>7, <1>11 DEF Pending
<1>15. Covered => Covered'
  <2> SUFFICES ASSUME Covered, NEW a \in Sectors
               PROVE  In(a, table'[0]) \/ \E j \in Live' : In(a, table'[j])
    BY DEF Covered
  <2>1. i \in Live' /\ a \in Nat
    BY <1>1, <1>4, <1>12, BlockTableAssumption DEF Sectors
  <2>2. CASE In(a, table[0])
    BY <2>2, <1>7
  <2>3. CASE In(a, table[i]) \/ In(a, table[n])
    <3>1. In(a, table'[i])
      BY <2>1, <2>3, <1>1, <1>5, <1>7 DEF In
    <3>2. QED
      BY <2>1, <3>1
  <2>4. ASSUME NEW j \in Live \ {i, n}, In(a, table[j])
        PROVE  In(a, table'[j]) /\ j \in Live'
    BY <2>4, <1>8, <1>12
  <2>5. QED
    BY <1>2, <2>2, <2>3, <2>4 DEF Covered
<1>16. QED
  BY <1>13, <1>14, <1>15

LEMMA ShapeDelete ==
  ASSUME TypeOK, Shape, Pending, MergeDelete
  PROVE  /\ Shape' /\ Pending'
         /\ Covered => Covered'
<1>1. CASE /\ pc = "delete" /\ pc' = "merge"
           /\ \E k \in Index \ {0} :
                 /\ table[k] = local /\ table'[k] = NULL_BLKENTRY
                 /\ \A j \in Index \ {k} : table'[j] = table[j] /\ table[j] # local
  <2> PICK k \in Index \ {0} :
        /\ table[k] = local /\ table'[k] = NULL_BLKENTRY
        /\ \A j \in Index \ {k} : table'[j] = table[j] /\ table[j] # local
    BY <1>1
  <2>1. Live' = Live /\ k \notin Live
    BY <1>1 DEF Live, Doomed
  <2>2. Shape'
    BY <2>1, ClearedPlaces
  <2>3. Pending'
    BY <1>1 DEF Pending
  <2>4. Covered => Covered'
    BY <1>1, <2>1, Facts DEF Covered, Live
  <2>5. QED
    BY <2>2, <2>3, <2>4
<1>2. CASE pc = "delete" /\ pc' = "idle" /\ table' = table /\ Equals(local) = {}
  <2>1. Live' = Live
    BY <1>2 DEF Live, Doomed, Equals
  <2>2. Shape'
    BY <1>2, <2>1, SamePlaces
  <2>3. QED
    BY <1>2, <2>1, <2>2 DEF Pending, Covered
<1>3. QED
  BY <1>1, <1>2, DeleteEffect

LEMMA ShapeFold ==
  ASSUME Typed, Shape, Fold
  PROVE  /\ Shape' /\ Pending'
         /\ Covered => Covered'
<1>t. TypeOK
  BY DEF Typed
<1>1. PICK i \in Index \ {0} :
        /\ table[i] # NULL_BLKENTRY /\ table[i].state = "FREE"
        /\ table[i].start + table[i].count = table[0].start
        /\ table'[0] = [start |-> table[i].start, count |-> table[0].count + table[i].count,
                        state |-> "FREE"]
        /\ scan' = i
        /\ \A j \in Index \ {0} : table'[j] = table[j]
  BY <1>t, FoldEffect
<1>2. pc = "fold" /\ pc' = "clear"
  BY DEF Fold
<1>3. Live = {j \in Index \ {0} : table[j] # NULL_BLKENTRY}
  BY <1>2, LiveAtRest
<1>4. i \in Live /\ Live' = Live \ {i}
  BY <1>1, <1>2, <1>3 DEF Live, Doomed
<1>5. /\ table[i].start \in Nat /\ table[i].count \in Nat /\ DATA_START =< table[i].start
      /\ table[0].start \in Nat /\ table[0].count \in Nat
      /\ table[0].start + table[0].count = DISK_END
  BY <1>t, <1>1, Facts
<1>6. /\ table'[0].start = table[i].start /\ table'[0].count = table[0].count + table[i].count
      /\ table'[0].state = "FREE" /\ table'[0].start + table'[0].count = DISK_END
  BY <1>1, <1>5
<1>7. \A j \in Live' : table'[j].start + table'[j].count =< table'[0].start
  <2> TAKE j \in Live'
  <2>1. j \in Index \ {0} /\ table[j] # NULL_BLKENTRY /\ table'[j] = table[j]
    BY <1>1, <1>3, <1>4
  <2>2. table[j].start \in Nat /\ table[j].count \in Nat /\ table[j].count > 0
    BY <1>t, <2>1, Facts
  <2>3. Apart(table[j], table[i]) /\ table[j].start + table[j].count =< table[0].start
    BY <1>4 DEF Shape
  <2>4. QED
    BY <2>1, <2>2, <2>3, <1>1, <1>5, <1>6 DEF Apart
<1>8. Shape'
  <2>1. \A j \in Index \ {0} : table'[j] = NULL_BLKENTRY \/ Region(table'[j])
    BY <1>1 DEF Shape
  <2>2. \A j, m \in Live' : j # m => Apart(table'[j], table'[m])
    BY <1>1, <1>4 DEF Shape, Live
  <2>3. QED
    BY <1>5, <1>6, <1>7, <2>1, <2>2 DEF Shape
<1>9. Pending'
  BY <1>1, <1>2 DEF Pending
<1>10. Covered => Covered'
  <2> SUFFICES ASSUME Covered, NEW a \in Sectors
               PROVE  In(a, table'[0]) \/ \E j \in Live' : In(a, table'[j])
    BY DEF Covered
  <2>1. a \in Nat
    BY BlockTableAssumption DEF Sectors
  <2>2. CASE In(a, table[0]) \/ In(a, table[i])
    BY <2>1, <2>2, <1>1, <1>5, <1>6 DEF In
  <2>3. ASSUME NEW j \in Live \ {i}, In(a, table[j]) PROVE In(a, table'[j]) /\ j \in Live'
    BY <2>3, <1>1, <1>3, <1>4
  <2>4. QED
    BY <1>2, <2>2, <2>3 DEF Covered
<1>11. QED
  BY <1>8, <1>9, <1>10

LEMMA ShapeClear ==
  ASSUME Typed, Shape, FoldClear
  PROVE  /\ Shape' /\ Pending'
         /\ Covered => Covered'
<1>1. /\ pc = "clear" /\ pc' = "fold" /\ scan \in Index \ {0}
      /\ table'[scan] = NULL_BLKENTRY
      /\ \A j \in Index \ {scan} : table'[j] = table[j]
  BY ClearEffect
<1>2. Live' = Live /\ scan \notin Live
  BY <1>1 DEF Live, Doomed
<1>3. Shape'
  BY <1>1, <1>2, ClearedPlaces DEF Typed
<1>4. Pending'
  BY <1>1 DEF Pending
<1>5. Covered => Covered'
  BY <1>1, <1>2, Facts DEF Covered, Live, Typed
<1>6. QED
  BY <1>3, <1>4, <1>5

\* A step that writes nothing and leaves no merge half done.
LEMMA ShapeQuiet ==
  ASSUME TypeOK, Shape, table' = table,
         pc \notin {"delete", "clear"}, pc' \notin {"carved", "delete", "clear"}
  PROVE  /\ Shape' /\ Pending'
         /\ Covered /\ pc # "carved" => Covered'
<1>1. Live' = Live
  BY DEF Live, Doomed
<1>2. Shape'
  BY <1>1, SamePlaces
<1>3. QED
  BY <1>1, <1>2 DEF Pending, Covered

LEMMA SoundNext == Typed /\ TableSound /\ [Next]_vars => TableSound'
<1> SUFFICES ASSUME Typed, TableSound, [Next]_vars PROVE TableSound'
  OBVIOUS
<1>t. TypeOK
  BY DEF Typed
<1>1. ASSUME Undamaged, Shape, Pending, Next, Undamaged'
      PROVE  /\ Shape' /\ Pending'
             /\ Covered /\ faults' = {} => Covered'
  <2>1. ASSUME NEW s \in Sizes, Allocate(s)
        PROVE  Shape' /\ Pending' /\ (Covered => Covered')
    BY <1>t, <1>1, <2>1, ShapeAllocate, CoverAllocate
  <2>2. CASE CreateEntry
    BY <1>t, <1>1, <2>2, ShapeCreate, CoverCreate
  <2>3. ASSUME NEW i \in Index \ {0, 1}, Free(i)
        PROVE  Shape' /\ Pending' /\ (Covered => Covered')
    BY <1>t, <1>1, <2>3, ShapeFree
  <2>4. CASE MergeGrow
    BY <1>t, <1>1, <2>4, ShapeGrow
  <2>5. CASE MergeDelete
    BY <1>t, <1>1, <2>5, ShapeDelete
  <2>6. CASE MergeEnds
    BY <1>t, <1>1, <2>6, ShapeQuiet DEF MergeEnds
  <2>7. CASE Fold
    BY <1>1, <2>7, ShapeFold
  <2>8. CASE FoldClear
    BY <1>1, <2>8, ShapeClear
  <2>9. CASE FoldEnds
    BY <1>t, <1>1, <2>9, ShapeQuiet DEF FoldEnds, Done
  <2>10. CASE Crash
    <3>1. pc \notin {"delete", "clear"}
      BY <1>1, <2>10 DEF Crash, Undamaged, Overlaps
    <3>2. faults' = {} => pc # "carved"
      BY <2>10 DEF Crash
    <3>3. QED
      BY <1>t, <1>1, <2>10, <3>1, <3>2, ShapeQuiet DEF Crash, Done
  <2>11. QED
    BY <1>1, <2>1, <2>2, <2>3, <2>4, <2>5, <2>6, <2>7, <2>8, <2>9, <2>10 DEF Next
<1>2. CASE Next
  <2>1. faults \subseteq faults'
    BY <1>2 DEF Next, Allocate, CreateEntry, Free, MergeGrow, MergeDelete, MergeEnds, Fold,
         FoldClear, FoldEnds, Crash
  <2>2. Undamaged' => Undamaged
    BY <2>1 DEF Undamaged
  <2>3. faults' = {} => faults = {} /\ Undamaged'
    BY <2>1 DEF Undamaged
  <2>4. QED
    BY <1>1, <1>2, <2>2, <2>3 DEF TableSound
<1>3. CASE UNCHANGED vars
  BY <1>3 DEF vars, TableSound, Undamaged, Shape, Pending, Covered, Live, Doomed
<1>4. QED
  BY <1>2, <1>3

LEMMA BlockTableSound == Spec => [](Typed /\ TableSound)
<1>1. Init => Typed /\ TableSound
  BY TypeInit, SoundInit
<1>2. Typed /\ TableSound /\ [Next]_vars => (Typed /\ TableSound)'
  BY TypeNext, SoundNext
<1>3. QED
  BY <1>1, <1>2, PTL DEF Spec

-----------------------------------------------------------------------------
(* The properties of the runs.                                             *)

\* An empty entry describes no sector; one that counts describes none of the mass entry's.
LEMMA Disjoint ==
  ASSUME TypeOK, Shape, NEW a \in Sectors
  PROVE  /\ \A i \in Index \ {0} : In(a, table[i]) => table[i] # NULL_BLKENTRY
         /\ \A i \in Live : ~(In(a, table[i]) /\ In(a, table[0]))
         /\ \A i, j \in Live : i # j => ~(In(a, table[i]) /\ In(a, table[j]))
<1>1. a \in Nat
  BY BlockTableAssumption DEF Sectors
<1>2. 0 \in Index /\ Live \subseteq Index
      /\ \A i \in Index : table[i].start \in Nat /\ table[i].count \in Nat
  BY Facts DEF Live
<1>3. \A i \in Index \ {0} : In(a, table[i]) => table[i] # NULL_BLKENTRY
  BY <1>1 DEF In, NULL_BLKENTRY
<1>4. \A i \in Live : ~(In(a, table[i]) /\ In(a, table[0]))
  <2> TAKE i \in Live
  <2>1. table[i].start + table[i].count =< table[0].start
    BY DEF Shape
  <2>2. QED
    BY <1>1, <1>2, <2>1 DEF In
<1>5. \A i, j \in Live : i # j => ~(In(a, table[i]) /\ In(a, table[j]))
  <2> SUFFICES ASSUME NEW i \in Live, NEW j \in Live, i # j
               PROVE  ~(In(a, table[i]) /\ In(a, table[j]))
    OBVIOUS
  <2>1. Apart(table[i], table[j])
    BY DEF Shape
  <2>2. QED
    BY <1>1, <1>2, <2>1 DEF In, Apart
<1>6. QED
  BY <1>3, <1>4, <1>5

\* Two files never share a sector and free space never covers a file, for any disk and any
\* sequence of allocations, frees and crashes, until one of the events in Overlaps happens.
THEOREM BlocksApart == Spec => []NoOverlap
<1>1. Typed /\ TableSound => NoOverlap
  <2> SUFFICES ASSUME TypeOK, Shape, NEW i \in Index, NEW j \in Index, NEW a \in Sectors,
                      i # j, ~Doomed(i), ~Doomed(j), In(a, table[i]), In(a, table[j])
               PROVE  FALSE
    BY DEF NoOverlap, TableSound, Typed
  <2>1. i # 0 => i \in Live
    BY Disjoint DEF Live
  <2>2. j # 0 => j \in Live
    BY Disjoint DEF Live
  <2>3. QED
    BY <2>1, <2>2, Disjoint
<1>2. QED
  BY <1>1, BlockTableSound, PTL

\* Every sector stays described, whatever is allocated, freed, merged and folded, until the
\* table is full or the machine stops between the two writes of an allocation.
THEOREM NoSectorLost == Spec => []NothingLost
<1>1. Typed /\ TableSound => NothingLost
  BY Facts DEF NothingLost, TableSound, Covered, Live, Typed, Undamaged
<1>2. QED
  BY <1>1, BlockTableSound, PTL

-----------------------------------------------------------------------------
(* The block table implements Allocator.tla.                               *)

HeldAt(i) == [ptr |-> table[i].start, size |-> table[i].count]

LEMMA HeldSet == Held = {HeldAt(i) : i \in {k \in Index : table[k].state = "USED"}}
  BY DEF Held, HeldAt

\* What is held does not change when the entries that do are free before and after.
LEMMA HeldUnchanged ==
  ASSUME \A i \in Index : \/ table'[i] = table[i]
                          \/ table[i].state # "USED" /\ table'[i].state # "USED"
  PROVE  Held' = Held
<1>1. {k \in Index : table'[k].state = "USED"} = {k \in Index : table[k].state = "USED"}
  OBVIOUS
<1>2. \A i \in {k \in Index : table[k].state = "USED"} : HeldAt(i)' = HeldAt(i)
  BY DEF HeldAt
<1>3. Held' = {HeldAt(i)' : i \in {k \in Index : table'[k].state = "USED"}}
  BY DEF Held, HeldAt
<1>4. QED
  BY <1>1, <1>2, <1>3, HeldSet

\* Entering the carved block grants it.
LEMMA CreateGrants ==
  ASSUME TypeOK, Shape, Pending, CreateEntry
  PROVE  (A!Next /\ pc \in {"idle", "carved"}) \/ Held' = Held
<1>1. pc = "carved"
  BY DEF CreateEntry
<1>2. CASE table' = table
  BY <1>2, HeldUnchanged
<1>3. ASSUME NEW k \in Index \ {0}, table[k] = NULL_BLKENTRY, table'[k] = local,
             \A j \in Index \ {k} : table'[j] = table[j]
      PROVE  A!Next
  <2> DEFINE b == [ptr |-> local.start, size |-> local.count]
  <2>1. /\ local.state = "USED" /\ DATA_START =< local.start /\ local.count > 0
        /\ local.start + local.count = table[0].start
        /\ \A i \in Live : table[i].start + table[i].count =< local.start
        /\ local.start \in Nat /\ local.count \in Nat
    BY <1>1, TypeFacts DEF Pending
  <2>2. /\ table[0].start \in Nat /\ table[0].count \in Nat /\ table[0].state = "FREE"
        /\ table[0].start + table[0].count = DISK_END
    BY Facts
  <2>3. b \in A!Block /\ A!Within(b)
    BY <2>1, <2>2, BlockTableAssumption DEF A!Block, A!Within
  <2>4. \A i \in Index : table[i].state = "USED" => table[i].start + table[i].count =< local.start
    <3> TAKE i \in Index
    <3> HAVE table[i].state = "USED"
    <3>1. i # 0
      BY <2>2
    <3>2. CASE table[i] = NULL_BLKENTRY
      BY <3>2 DEF NULL_BLKENTRY
    <3>3. CASE table[i] # NULL_BLKENTRY
      <4>1. i \in Live
        BY <1>1, <3>1, <3>3, LiveAtRest
      <4>2. QED
        BY <2>1, <4>1
    <3>4. QED
      BY <3>2, <3>3
  <2>5. \A c \in Held : A!Apart(b, c)
    BY <2>4 DEF A!Apart, Held
  <2>6. Held' = Held \cup {b}
    <3>1. {i \in Index : table'[i].state = "USED"} = {i \in Index : table[i].state = "USED"} \cup {k}
      BY <1>3, <2>1
    <3>2. k \notin {i \in Index : table[i].state = "USED"}
      BY <1>3 DEF NULL_BLKENTRY
    <3>3. \A i \in Index \ {k} : HeldAt(i)' = HeldAt(i)
      BY <1>3 DEF HeldAt
    <3>4. HeldAt(k)' = b
      BY <1>3 DEF HeldAt
    <3>5. Held' = {HeldAt(i)' : i \in {j \in Index : table'[j].state = "USED"}}
      BY DEF Held, HeldAt
    <3>6. QED
      BY <3>1, <3>2, <3>3, <3>4, <3>5, HeldSet
  <2>7. A!Grant(b)
    BY <2>3, <2>5, <2>6 DEF A!Grant
  <2>8. QED
    BY <2>3, <2>7 DEF A!Next
<1>4. QED
  BY <1>1, <1>2, <1>3, CreateEffect

\* Freeing releases the block of the entry, or finds it free.
LEMMA FreeReleases ==
  ASSUME TypeOK, Shape, NEW i \in Index \ {0, 1}, Free(i)
  PROVE  (A!Next /\ pc \in {"idle", "carved"}) \/ Held' = Held
<1>1. PICK k \in Index \ {0} :
        /\ table[k] = table[i] /\ table'[k] = [table[k] EXCEPT !.state = "FREE"]
        /\ \A j \in Index \ {k} : table'[j] = table[j]
  BY FreeEffect
<1>2. pc = "idle" /\ table[k] # NULL_BLKENTRY
  BY <1>1, FreeEffect
<1>3. table[k] \in Entry
  BY TypeFacts
<1>4. table'[k].state = "FREE"
  BY <1>1, <1>3 DEF Entry
<1>5. CASE table[k].state = "FREE"
  BY <1>1, <1>4, <1>5, HeldUnchanged
<1>6. CASE table[k].state = "USED"
  <2>1. /\ table[k].start \in Nat /\ table[k].count \in Nat /\ table[k].count > 0
        /\ DATA_START =< table[k].start /\ table[k].start + table[k].count =< DISK_END
        /\ table[0].state = "FREE"
    BY <1>2, Facts
  <2>2. k \in Live
    BY <1>2, LiveAtRest
  <2>3. \A j \in Index \ {k} : table[j].state = "USED" => HeldAt(j) # HeldAt(k)
    <3> SUFFICES ASSUME NEW j \in Index \ {k}, table[j].state = "USED", HeldAt(j) = HeldAt(k)
                 PROVE  FALSE
      OBVIOUS
    <3>1. table[j].start = table[k].start /\ table[j].count = table[k].count
      BY DEF HeldAt
    <3>2. j # 0 /\ table[j] # NULL_BLKENTRY
      BY <2>1 DEF NULL_BLKENTRY
    <3>3. j \in Live
      BY <1>2, <3>2, LiveAtRest
    <3>4. Apart(table[j], table[k])
      BY <2>2, <3>3 DEF Shape
    <3>5. QED
      BY <2>1, <3>1, <3>4 DEF Apart
  <2>4. Held' = Held \ {HeldAt(k)}
    <3>1. {j \in Index : table'[j].state = "USED"} = {j \in Index : table[j].state = "USED"} \ {k}
      BY <1>1, <1>4
    <3>2. \A j \in Index \ {k} : HeldAt(j)' = HeldAt(j)
      BY <1>1 DEF HeldAt
    <3>3. Held' = {HeldAt(j)' : j \in {m \in Index : table'[m].state = "USED"}}
      BY DEF Held, HeldAt
    <3>4. QED
      BY <1>6, <2>3, <3>1, <3>2, <3>3, HeldSet
  <2>5. HeldAt(k) \in Held
    BY <1>6, HeldSet
  <2>6. HeldAt(k) \in A!Block
    BY <2>1, BlockTableAssumption DEF A!Block, HeldAt
  <2>7. A!Release(HeldAt(k))
    BY <2>4, <2>5 DEF A!Release
  <2>8. QED
    BY <1>2, <2>6, <2>7 DEF A!Next
<1>7. QED
  BY <1>3, <1>5, <1>6 DEF Entry

LEMMA RefinementStep ==
  ASSUME Typed, Shape, Pending, Next, Undamaged'
  PROVE  (A!Next /\ pc \in {"idle", "carved"}) \/ Held' = Held
<1>t. TypeOK /\ 0 \in Index
  BY TypeFacts DEF Typed
<1>f. table[0].state = "FREE"
  BY DEF Shape
<1>1. ASSUME NEW s \in Sizes, Allocate(s) PROVE Held' = Held
  <2>1. /\ table'[0] = [start |-> table[0].start + s, count |-> table[0].count - s,
                         state |-> "FREE"]
        /\ \A j \in Index \ {0} : table'[j] = table[j]
    BY <1>t, <1>1, AllocateEffect
  <2>2. table'[0].state = "FREE"
    BY <2>1
  <2>3. QED
    BY <1>f, <2>1, <2>2, HeldUnchanged
<1>2. ASSUME MergeGrow PROVE Held' = Held
  <2>1. PICK i \in Index \ {0}, n \in Index \ {0} :
          /\ table[i].state = "FREE"
          /\ table'[i] = [start |-> table[n].start, count |-> table[i].count + table[n].count,
                          state |-> "FREE"]
          /\ \A j \in Index \ {i} : table'[j] = table[j]
    BY <1>t, <1>2, GrowEffect
  <2>2. table'[i].state = "FREE"
    BY <2>1
  <2>3. QED
    BY <2>1, <2>2, HeldUnchanged
<1>3. ASSUME MergeDelete PROVE Held' = Held
  <2>1. CASE \E k \in Index \ {0} : /\ table[k] = local /\ table'[k] = NULL_BLKENTRY
                                    /\ \A j \in Index \ {k} : table'[j] = table[j]
    <3>1. pc = "delete" => local.state = "FREE"
      BY DEF Pending
    <3>2. QED
      BY <1>3, <2>1, <3>1, HeldUnchanged DEF MergeDelete, NULL_BLKENTRY
  <2>2. CASE table' = table
    BY <2>2, HeldUnchanged
  <2>3. QED
    BY <1>t, <1>3, <2>1, <2>2, DeleteEffect
<1>4. ASSUME Fold PROVE Held' = Held
  <2>1. PICK i \in Index \ {0} :
          /\ table'[0] = [start |-> table[i].start, count |-> table[0].count + table[i].count,
                          state |-> "FREE"]
          /\ \A j \in Index \ {0} : table'[j] = table[j]
    BY <1>t, <1>4, FoldEffect
  <2>2. table'[0].state = "FREE"
    BY <2>1
  <2>3. QED
    BY <1>f, <2>1, <2>2, HeldUnchanged
<1>5. ASSUME FoldClear PROVE Held' = Held
  <2>1. /\ pc = "clear" /\ scan \in Index /\ table'[scan] = NULL_BLKENTRY
        /\ \A j \in Index \ {scan} : table'[j] = table[j]
    BY <1>5, ClearEffect
  <2>2. table[scan].state = "FREE" /\ table'[scan].state = "FREE"
    BY <2>1 DEF Pending, NULL_BLKENTRY
  <2>3. QED
    BY <2>1, <2>2, HeldUnchanged
<1>6. ASSUME table' = table PROVE Held' = Held
  BY <1>6, HeldUnchanged
<1>7. QED
  BY <1>t, <1>1, <1>2, <1>3, <1>4, <1>5, <1>6, CreateGrants, FreeReleases
     DEF Next, MergeEnds, FoldEnds, Crash

\* A block is granted only from sectors nobody holds, one block is given up by a free, and
\* neither merging nor a crash changes what is held, up to the first event in Overlaps.
THEOREM BlockTableKeepsPromise == Spec => AllocatorPromise
<1>1. Typed /\ TableSound /\ [Next]_vars =>
        [faults' \cap Overlaps = {} => (A!Next /\ pc \in {"idle", "carved"}) \/ Held' = Held]_vars
  <2> SUFFICES ASSUME Typed, TableSound, Next, Undamaged'
               PROVE  (A!Next /\ pc \in {"idle", "carved"}) \/ Held' = Held
    BY DEF Undamaged
  <2>1. faults \subseteq faults'
    BY DEF Next, Allocate, CreateEntry, Free, MergeGrow, MergeDelete, MergeEnds, Fold,
       FoldClear, FoldEnds, Crash
  <2>2. Undamaged
    BY <2>1 DEF Undamaged
  <2>3. QED
    BY <2>2, RefinementStep DEF TableSound
<1>2. QED
  BY <1>1, BlockTableSound, PTL DEF Spec, AllocatorPromise

-----------------------------------------------------------------------------
(* The files.                                                              *)

Settled == Files \ Between           \* the files whose entry is to be relied on

\* The characters of names and of name fields.
CharsOf(name, n) == {name[k] : k \in 1 .. n}
Char  == {NUL} \cup (UNION {CharsOf(f, WIDTH) : f \in Stack})
               \cup (UNION {CharsOf(n, Len(n)) : n \in Name})
Field == [1 .. WIDTH -> Char]

FileEntry == [name : Field, size : Lens, blk_index : Index \cup {NONE}]
Operation == [kind : {"none", "new", "copy", "over", "delete"}, slot : Slots \cup {0},
              name : Name \cup {<<>>}, len : Lens, value : Value \cup {JUNK}]

FileTypes ==
  /\ ftable \in [Slots -> FileEntry]
  /\ data \in [Sectors -> Value \cup {JUNK}]
  /\ fpc \in {"idle", "freed", "alloc", "enter", "write"}
  /\ op \in Operation
  /\ blk \in Entry
  /\ pos \in Nat
  /\ wrote \in [Slots -> Value \cup {JUNK, TORN}]

\* Where the file operation is, where that of the block table is, and what both know.
Stages ==
  /\ fpc = "idle" => pc = "idle"
  /\ pc = "carved" => fpc = "alloc" /\ blk = NULL_BLKENTRY /\ local.count = op.len
  /\ pc \in {"merge", "delete", "fold", "clear"} => fpc = "freed"
  /\ fpc \in {"idle", "freed"} => blk = NULL_BLKENTRY
  /\ fpc = "freed" => op.kind \in {"over", "delete"}
  /\ fpc = "alloc" => op.kind \in {"new", "copy", "over"}
  /\ fpc = "enter" => op.kind \in {"new", "copy"}
  /\ fpc = "write" => op.kind \in {"new", "over"} /\ ftable[op.slot].size = op.len
  /\ fpc # "write" => pos = 0
  /\ op.kind \in {"copy", "over", "delete"} \/ fpc = "write" => op.slot \in Files
  /\ op.kind = "copy" => ftable[op.slot].size = op.len
  /\ op.kind = "new" => op.len > 0
  /\ op.kind = "delete" => ftable[op.slot].size > 0
  /\ op.kind = "over" \/ fpc = "write" => wrote[op.slot] = TORN

\* A file that is not empty has a held block of its size ...
HasBlock(i) ==
  ftable[i].size > 0 => BlockOf(i).state = "USED" /\ BlockOf(i).count = ftable[i].size

\* ... that no other file has.
Blocks ==
  /\ table[1].state = "USED"
  /\ \A i \in Files : IF ftable[i].size = 0 THEN ftable[i].blk_index = NONE
                                            ELSE ftable[i].blk_index \in Index \ {0, 1}
  /\ \A i, j \in Files :
       (i # j /\ ftable[i].size > 0) => ftable[i].blk_index # ftable[j].blk_index
  /\ \A i \in Settled : HasBlock(i)

\* The block that the operation was given is held, and not yet the block of a file but of
\* the one that is written.
Given ==
  /\ blk # NULL_BLKENTRY =>
       /\ blk.state = "USED" /\ blk.count = op.len
       /\ \E k \in Index \ {0, 1} :
            /\ table[k] = blk
            /\ fpc = "write" => ftable[op.slot].blk_index = k
            /\ fpc # "write" => \A i \in Settled : ftable[i].blk_index # k
  /\ fpc \in {"enter", "write"} /\ op.len > 0 => blk # NULL_BLKENTRY

\* The sectors of a file's block hold the value of the file ...
StoredAt(i) ==
  (ftable[i].size > 0 /\ wrote[i] # TORN) =>
    \A a \in Sectors : In(a, BlockOf(i)) => data[a] = wrote[i]

Stored == \A i \in Settled : StoredAt(i)

\* ... and those of the operation's block what it has put there so far.
Filled ==
  /\ (fpc = "enter" /\ op.kind = "copy" /\ wrote[op.slot] # TORN) =>
       \A a \in Sectors : In(a, blk) => data[a] = wrote[op.slot]
  /\ fpc = "write" =>
       \A a \in Sectors : (In(a, blk) /\ a < blk.start + pos) => data[a] = op.value

\* Every held block is a file's, the file table's or the operation's.
Kept ==
  (faults = {} /\ ffaults = {}) =>
    \A k \in Index \ {1} : table[k].state = "USED" =>
      \/ table[k] = blk /\ fpc \in {"alloc", "enter"}
      \/ \E i \in Settled : ftable[i].blk_index = k

\* All but the block table.
FilesInOrder == FileTypes /\ Stages /\ Blocks /\ Given /\ Stored /\ Filled /\ Kept

InOrder == Typed /\ TableSound /\ FilesInOrder

FileInv == Sound => InOrder

-----------------------------------------------------------------------------
(* Held entries of the block table.                                        *)

\* A held entry describes a region of the disk that no other held entry describes.
LEMMA HeldFacts ==
  ASSUME TypeOK, Shape, Pending
  PROVE  /\ \A k \in Index : table[k].state = "USED" =>
              /\ k # 0 /\ table[k] # NULL_BLKENTRY /\ ~Empty(table[k])
              /\ DATA_START =< table[k].start /\ table[k].count > 0
              /\ table[k].start + table[k].count =< table[0].start
         /\ \A j, k \in Index : (table[j].state = "USED" /\ table[k].state = "USED" /\ j # k) =>
              Apart(table[j], table[k]) /\ table[j] # table[k]
<1>1. /\ 0 \in Index /\ Index \subseteq Nat /\ table[0].state = "FREE"
      /\ \A i \in Index : table[i].start \in Nat /\ table[i].count \in Nat
  BY Facts
<1>2. \A i \in Index \ {0} : \/ table[i] = NULL_BLKENTRY
                             \/ DATA_START =< table[i].start /\ table[i].count > 0
  BY Facts
<1>3. \A k \in Index : table[k].state = "USED" => k # 0 /\ table[k] # NULL_BLKENTRY /\ ~Doomed(k)
  BY <1>1 DEF NULL_BLKENTRY, Doomed, Pending
<1>4. \A k \in Index : table[k].state = "USED" => k \in Live
  BY <1>3 DEF Live
<1>5. \A k \in Index : table[k].state = "USED" =>
        DATA_START =< table[k].start /\ table[k].count > 0
  BY <1>2, <1>3
<1>6. \A k \in Index : table[k].state = "USED" => table[k].start + table[k].count =< table[0].start
  BY <1>4 DEF Shape
<1>7. \A k \in Index : table[k].state = "USED" => ~Empty(table[k])
  BY <1>5, <1>1, BlockTableAssumption DEF Empty
<1>8. ASSUME NEW j \in Index, NEW k \in Index, table[j].state = "USED", table[k].state = "USED",
             j # k
      PROVE  Apart(table[j], table[k]) /\ table[j] # table[k]
  <2>1. Apart(table[j], table[k])
    BY <1>4, <1>8 DEF Shape
  <2>2. table[k].start \in Nat /\ table[k].count \in Nat /\ table[k].count > 0
    BY <1>1, <1>5, <1>8
  <2>3. QED
    BY <2>1, <2>2 DEF Apart
<1>9. QED
  BY <1>3, <1>5, <1>6, <1>7, <1>8

MergeStep == MergeGrow \/ MergeDelete \/ MergeEnds \/ Fold \/ FoldClear \/ FoldEnds

\* Merging leaves every held entry as it is, and where it is.
LEMMA MergeKeepsHeld ==
  ASSUME Typed, Shape, Pending, MergeStep, Undamaged'
  PROVE  /\ \A k \in Index : (table[k].state = "USED" \/ table'[k].state = "USED") =>
              table'[k] = table[k]
         /\ pc \in {"merge", "delete", "fold", "clear"}
         /\ pc' \in {"idle", "merge", "delete", "fold", "clear"}
         /\ faults \subseteq faults'
<1>t. TypeOK /\ 0 \in Index /\ table[0].state = "FREE" /\ NULL_BLKENTRY.state = "FREE"
  BY Facts DEF Typed, NULL_BLKENTRY
<1>1. CASE MergeGrow
  <2>1. PICK i \in Index \ {0}, n \in Index \ {0} :
          /\ table[i].state = "FREE"
          /\ table'[i] = [start |-> table[n].start, count |-> table[i].count + table[n].count,
                          state |-> "FREE"]
          /\ \A j \in Index \ {i} : table'[j] = table[j]
    BY <1>t, <1>1, GrowEffect
  <2>2. table'[i].state = "FREE"
    BY <2>1
  <2>3. QED
    BY <1>1, <2>1, <2>2 DEF MergeGrow
<1>2. CASE MergeDelete
  <2>1. ASSUME NEW k \in Index \ {0}, table[k] = local, table'[k] = NULL_BLKENTRY,
               \A j \in Index \ {k} : table'[j] = table[j]
        PROVE  \A j \in Index : (table[j].state = "USED" \/ table'[j].state = "USED") =>
                 table'[j] = table[j]
    <3>1. local.state = "FREE"
      BY <1>2 DEF Pending, MergeDelete
    <3>2. QED
      BY <1>t, <2>1, <3>1
  <2>2. \/ \E k \in Index \ {0} : /\ table[k] = local /\ table'[k] = NULL_BLKENTRY
                                  /\ \A j \in Index \ {k} : table'[j] = table[j]
        \/ table' = table
    BY <1>t, <1>2, DeleteEffect
  <2>3. QED
    BY <1>2, <2>1, <2>2 DEF MergeDelete, Done
<1>3. CASE MergeEnds
  BY <1>3 DEF MergeEnds
<1>4. CASE Fold
  <2>1. PICK i \in Index \ {0} :
          /\ table'[0] = [start |-> table[i].start, count |-> table[0].count + table[i].count,
                          state |-> "FREE"]
          /\ \A j \in Index \ {0} : table'[j] = table[j]
    BY <1>t, <1>4, FoldEffect
  <2>2. table'[0].state = "FREE"
    BY <2>1
  <2>3. QED
    BY <1>t, <1>4, <2>1, <2>2 DEF Fold
<1>5. CASE FoldClear
  <2>1. /\ pc = "clear" /\ scan \in Index \ {0} /\ table'[scan] = NULL_BLKENTRY
        /\ \A j \in Index \ {scan} : table'[j] = table[j]
    BY <1>5, ClearEffect
  <2>2. table[scan].state = "FREE"
    BY <2>1 DEF Pending
  <2>3. QED
    BY <1>t, <1>5, <2>1, <2>2 DEF FoldClear
<1>6. CASE FoldEnds
  BY <1>6 DEF FoldEnds, Done
<1>7. QED
  BY <1>1, <1>2, <1>3, <1>4, <1>5, <1>6 DEF MergeStep

\* A held entry is the first and only one that is equal to it.
LEMMA FirstHeld ==
  ASSUME TypeOK, Shape, Pending, NEW k \in Index, table[k].state = "USED"
  PROVE  Equals(table[k]) = {k} /\ Least(Equals(table[k])) = {k}
<1>1. \A j \in Index : table[j] = table[k] => j = k
  BY HeldFacts
<1>2. Equals(table[k]) = {k}
  BY <1>1 DEF Equals
<1>3. k \in Nat
  BY Facts
<1>4. QED
  BY <1>2, <1>3 DEF Least

\* Freeing a held entry changes that entry, which is held no longer, and nothing else.
LEMMA FreeHeld ==
  ASSUME TypeOK, Shape, Pending, NEW k \in Index \ {0, 1}, table[k].state = "USED", Free(k)
  PROVE  /\ table'[k].state = "FREE"
         /\ \A j \in Index \ {k} : table'[j] = table[j]
<1>1. Least(Equals(table[k])) = {k}
  BY FirstHeld
<1>2. table' = [table EXCEPT ![k].state = "FREE"]
  BY <1>1 DEF Free
<1>3. table \in [Index -> Entry]
  BY TypeFacts
<1>4. QED
  BY <1>2, <1>3 DEF Entry

\* The number of entries below an index is no more than the index.
LEMMA CountBelow ==
  ASSUME NEW i \in Nat, NEW S \in SUBSET (0 .. i - 1)
  PROVE  Cardinality(S) \in 0 .. i
<1>1. IsFiniteSet(0 .. i - 1) /\ Cardinality(0 .. i - 1) = i
  BY FS_Interval
<1>2. IsFiniteSet(S) /\ Cardinality(S) =< Cardinality(0 .. i - 1)
  BY <1>1, FS_Subset
<1>3. Cardinality(S) \in Nat
  BY <1>2, FS_CardinalityType
<1>4. QED
  BY <1>1, <1>2, <1>3

\* The index fs_blktable_get_index returns for the block an operation was given, unless the
\* mass entry is used up, is the block's own.
LEMMA IndexOfHeld ==
  ASSUME TypeOK, Shape, Pending, NEW k \in Index, table[k].state = "USED",
         ~(AtIndex(BlockIndex(table[k])) # table[k])
  PROVE  BlockIndex(table[k]) = k
<1>1. /\ ~Empty(table[k]) /\ Index \subseteq Nat
  BY HeldFacts, Facts
<1> DEFINE n(i) == Cardinality({j \in Index : j < i /\ ~Empty(table[j])})
<1>2. GetIndex(table[k]) = {n(k)}
  <2>1. Least(Equals(table[k])) = {k}
    BY FirstHeld
  <2>2. GetIndex(table[k]) = {n(i) : i \in {k}}
    BY <2>1, Zenon DEF GetIndex
  <2> HIDE DEF n
  <2>3. QED
    BY <2>2
<1>3. BlockIndex(table[k]) = n(k)
  BY <1>1, <1>2 DEF BlockIndex
<1>4. n(k) \in Index
  <2>1. {j \in Index : j < k /\ ~Empty(table[j])} \subseteq 0 .. k - 1
    BY <1>1 DEF Index
  <2>2. n(k) \in 0 .. k
    BY <1>1, <2>1, CountBelow
  <2>3. QED
    BY <2>2, BlockTableAssumption DEF Index
<1>5. table[n(k)] = table[k]
  BY <1>1, <1>3, <1>4 DEF AtIndex, NONE, Index
<1>6. QED
  BY <1>3, <1>4, <1>5, HeldFacts

-----------------------------------------------------------------------------
(* What the invariant says of one file, with the types.                    *)

LEMMA FileFacts ==
  ASSUME InOrder, Sound
  PROVE  /\ Typed /\ TypeOK /\ Shape /\ Pending
         /\ Files \subseteq Slots /\ Settled \subseteq Files /\ Lens \subseteq Nat
         /\ \A i \in Slots : /\ ftable[i] \in FileEntry
                             /\ ftable[i].size \in Lens /\ ftable[i].size \in Nat
                             /\ i \in Files <=> ftable[i].blk_index # 0
         /\ \A i \in Files : /\ ftable[i].size = 0 => /\ ftable[i].blk_index = NONE
                                                      /\ BlockOf(i) = NULL_BLKENTRY
                             /\ ftable[i].size > 0 => /\ ftable[i].blk_index \in Index \ {0, 1}
                                                      /\ BlockOf(i) = table[ftable[i].blk_index]
<1>1. Typed /\ TypeOK /\ Shape /\ Pending
  BY DEF InOrder, Typed, TableSound, Sound
<1>2. Files \subseteq Slots /\ Settled \subseteq Files /\ Lens \subseteq Nat
  BY BlockTableAssumption DEF Files, Settled, Lens
<1>3. \A i \in Slots : ftable[i] \in FileEntry
  BY DEF InOrder, FilesInOrder, FileTypes
<1>4. \A i \in Slots : ftable[i].size \in Lens /\ ftable[i].size \in Nat
  BY <1>2, <1>3 DEF FileEntry
<1>5. \A i \in Files : /\ ftable[i].size = 0 => ftable[i].blk_index = NONE
                       /\ ftable[i].size > 0 => ftable[i].blk_index \in Index \ {0, 1}
  BY <1>2, <1>4 DEF InOrder, FilesInOrder, Blocks
<1>6. \A i \in Slots : i \in Files <=> ftable[i].blk_index # 0
  <2> TAKE i \in Slots
  <2>1. i \in Files => ftable[i].blk_index # 0
    BY <1>2, <1>4, <1>5 DEF NONE
  <2>2. ftable[i] = NULL_FILE => ftable[i].blk_index = 0
    BY DEF NULL_FILE
  <2>3. QED
    BY <2>1, <2>2 DEF Files
<1>7. \A i \in Files : /\ ftable[i].size = 0 => BlockOf(i) = NULL_BLKENTRY
                       /\ ftable[i].size > 0 => BlockOf(i) = table[ftable[i].blk_index]
  BY <1>5 DEF BlockOf, AtIndex, NONE, Index
<1>8. QED
  BY <1>1, <1>2, <1>3, <1>4, <1>5, <1>6, <1>7

\* The block of a settled file is held, within the data sectors, and its own.
LEMMA FileBlock ==
  ASSUME InOrder, Sound, NEW i \in Settled, ftable[i].size > 0
  PROVE  /\ ftable[i].blk_index \in Index \ {0, 1} /\ BlockOf(i) = table[ftable[i].blk_index]
         /\ BlockOf(i).state = "USED" /\ BlockOf(i).count = ftable[i].size
         /\ BlockOf(i).start \in Nat
         /\ DATA_START =< BlockOf(i).start /\ BlockOf(i).start + BlockOf(i).count =< DISK_END
         /\ \A j \in Files : i # j => ftable[i].blk_index # ftable[j].blk_index
         /\ \A j \in Settled : i # j /\ ftable[j].size > 0 => Apart(BlockOf(i), BlockOf(j))
<1>t. TypeOK /\ Shape /\ Pending
  BY FileFacts
<1>1. /\ \A j \in Settled : j \in Files /\ ftable[j].size > 0 =>
           ftable[j].blk_index \in Index \ {0, 1} /\ BlockOf(j) = table[ftable[j].blk_index]
      /\ Settled \subseteq Files
  BY FileFacts
<1>2. \A j \in Settled : ftable[j].size > 0 =>
        BlockOf(j).state = "USED" /\ BlockOf(j).count = ftable[j].size
  BY DEF InOrder, FilesInOrder, Blocks, HasBlock
<1>3. \A j \in Files : i # j => ftable[i].blk_index # ftable[j].blk_index
  BY <1>1 DEF InOrder, FilesInOrder, Blocks
<1>4. /\ table[ftable[i].blk_index].start \in Nat
      /\ table[ftable[i].blk_index].start + table[ftable[i].blk_index].count =< DISK_END
  BY <1>t, <1>1, Facts
<1>5. DATA_START =< table[ftable[i].blk_index].start
  BY <1>t, <1>1, <1>2, HeldFacts
<1>6. ASSUME NEW j \in Settled, i # j, ftable[j].size > 0
      PROVE  Apart(BlockOf(i), BlockOf(j))
  <2>1. /\ ftable[i].blk_index \in Index /\ ftable[j].blk_index \in Index
        /\ ftable[i].blk_index # ftable[j].blk_index
        /\ BlockOf(i) = table[ftable[i].blk_index] /\ BlockOf(j) = table[ftable[j].blk_index]
    BY <1>1, <1>3, <1>6
  <2>2. table[ftable[i].blk_index].state = "USED" /\ table[ftable[j].blk_index].state = "USED"
    BY <1>2, <1>6, <2>1
  <2>3. QED
    BY <1>t, <2>1, <2>2, HeldFacts
<1>7. QED
  BY <1>1, <1>2, <1>3, <1>4, <1>5, <1>6

\* The damaging events are never forgotten.
LEMMA FaultsStay == [FNext]_allVars => faults \subseteq faults' /\ ffaults \subseteq ffaults'
<1> SUFFICES ASSUME [FNext]_allVars PROVE faults \subseteq faults' /\ ffaults \subseteq ffaults'
  OBVIOUS
<1>1. \A s : Allocate(s) => faults \subseteq faults'
  BY DEF Allocate
<1>2. \A i : Free(i) => faults \subseteq faults'
  BY DEF Free
<1>3. \A n : FreeBlock(n) => faults \subseteq faults'
  BY <1>2 DEF FreeBlock, vars
<1>4. Crash => faults \subseteq faults'
  BY DEF Crash
<1>5. \A o, place : AllocateFor(o, place) => faults \subseteq faults' /\ ffaults \subseteq ffaults'
  BY <1>1 DEF AllocateFor, vars
<1>6. CASE BlockStep
  BY <1>6 DEF BlockStep, CreateEntry, MergeGrow, MergeDelete, MergeEnds, Fold, FoldClear, FoldEnds
<1>7. CASE \E n \in Name, len \in Lens, v \in Value : StartNew(n, len, v)
  BY <1>7, <1>5 DEF StartNew
<1>8. CASE \E n \in Name, len \in Lens, v \in Value : StartOverwrite(n, len, v)
  BY <1>8, <1>3 DEF StartOverwrite
<1>9. CASE \E n, m \in Name : StartCopy(n, m)
  BY <1>9, <1>5 DEF StartCopy
<1>10. CASE \E n, m \in Name : Rename(n, m)
  BY <1>10 DEF Rename, vars
<1>11. CASE Prepare
  BY <1>11 DEF Prepare, vars
<1>12. CASE Enter
  BY <1>12 DEF Enter, vars
<1>13. CASE WriteSector
  BY <1>13 DEF WriteSector, vars
<1>14. CASE WriteEnds
  BY <1>14 DEF WriteEnds, vars
<1>15. CASE Reallocate
  BY <1>15, <1>5 DEF Reallocate
<1>16. CASE Update
  BY <1>16 DEF Update, vars
<1>17. CASE \E n \in Name : StartDelete(n)
  BY <1>17, <1>2 DEF StartDelete
<1>18. CASE DeleteEntry
  BY <1>18 DEF DeleteEntry, vars
<1>19. CASE FCrash
  BY <1>19, <1>4 DEF FCrash, vars
<1>20. CASE UNCHANGED allVars
  BY <1>20 DEF allVars, vars, fvars
<1>21. QED
  BY <1>6, <1>7, <1>8, <1>9, <1>10, <1>11, <1>12, <1>13, <1>14, <1>15, <1>16, <1>17, <1>18,
     <1>19, <1>20 DEF FNext

LEMMA SoundStays == [FNext]_allVars /\ Sound' => Sound /\ Undamaged'
<1> SUFFICES ASSUME [FNext]_allVars, Sound' PROVE Sound /\ Undamaged'
  OBVIOUS
<1>1. faults \subseteq faults' /\ ffaults \subseteq ffaults'
  BY FaultsStay
<1>2. QED
  BY <1>1 DEF Sound, Undamaged

-----------------------------------------------------------------------------
(* Steps of the block table.                                               *)

\* The held entries are the same after a step as before, and as they were.
HeldSame ==
  \A k \in Index : (table[k].state = "USED" \/ table'[k].state = "USED") => table'[k] = table[k]

\* No held entry is lost.
HeldStay == \A k \in Index : table[k].state = "USED" => table'[k] = table[k]

LEMMA AllocateKeepsHeld ==
  ASSUME TypeOK, Shape, NEW s \in Sizes, Allocate(s), Undamaged'
  PROVE  HeldSame /\ local'.count = s
<1>1. /\ table'[0] = [start |-> table[0].start + s, count |-> table[0].count - s,
                      state |-> "FREE"]
      /\ \A j \in Index \ {0} : table'[j] = table[j]
      /\ local' = [start |-> table[0].start, count |-> s, state |-> "USED"]
  BY AllocateEffect
<1>2. table'[0].state = "FREE" /\ table[0].state = "FREE"
  BY <1>1 DEF Shape
<1>3. QED
  BY <1>1, <1>2 DEF HeldSame

\* When no file operation runs, every file is settled.
LEMMA IdleSettled ==
  fpc \notin {"freed", "alloc"} \/ op.kind \notin {"over", "delete"} => Between = {} /\ Settled = Files
  BY DEF Between, Settled

\* A file keeps its block and its contents in a step that writes neither its entry nor that
\* of its block nor the sectors of it.
LEMMA SameFile ==
  ASSUME InOrder, Sound, NEW i \in Settled,
         ftable'[i].blk_index = ftable[i].blk_index, ftable'[i].size = ftable[i].size,
         wrote'[i] = wrote[i],
         ftable[i].size > 0 =>
           /\ table'[ftable[i].blk_index] = table[ftable[i].blk_index]
           /\ \A a \in Sectors : In(a, BlockOf(i)) => data'[a] = data[a]
  PROVE  HasBlock(i)' /\ StoredAt(i)'
<1> SUFFICES ASSUME ftable[i].size > 0
             PROVE  /\ BlockOf(i)'.state = "USED" /\ BlockOf(i)'.count = ftable[i].size
                    /\ wrote[i] # TORN =>
                         \A a \in Sectors : In(a, BlockOf(i)') => data'[a] = wrote[i]
  BY DEF HasBlock, StoredAt, In
<1>1. /\ ftable[i].blk_index \in Index \ {0, 1} /\ BlockOf(i) = table[ftable[i].blk_index]
      /\ BlockOf(i).state = "USED" /\ BlockOf(i).count = ftable[i].size
  BY FileBlock
<1>2. BlockOf(i)' = BlockOf(i)
  BY <1>1 DEF BlockOf, AtIndex, NONE, Index
<1>3. StoredAt(i)
  BY DEF InOrder, FilesInOrder, Stored
<1>4. QED
  BY <1>1, <1>2, <1>3 DEF StoredAt

\* Held entries that stay as they are keep what files have.
LEMMA Undisturbed ==
  ASSUME InOrder, Sound, HeldStay, ftable' = ftable, data' = data, wrote' = wrote,
         Settled' \subseteq Settled
  PROVE  Blocks' /\ Stored'
<1>1. ASSUME NEW i \in Settled'
      PROVE  HasBlock(i)' /\ StoredAt(i)'
  <2>1. ftable[i].size > 0 => table'[ftable[i].blk_index] = table[ftable[i].blk_index]
    BY <1>1, FileBlock DEF HeldStay
  <2>2. QED
    BY <1>1, <2>1, SameFile
<1>2. Files' = Files
  BY DEF Files
<1>3. table'[1].state = "USED"
  <2>1. table[1].state = "USED" /\ 1 \in Index
    BY BlockTableAssumption DEF InOrder, FilesInOrder, Blocks, Index
  <2>2. QED
    BY <2>1 DEF HeldStay
<1>4. \A i \in Files' : IF ftable'[i].size = 0 THEN ftable'[i].blk_index = NONE
                                               ELSE ftable'[i].blk_index \in Index \ {0, 1}
  BY <1>2 DEF InOrder, FilesInOrder, Blocks
<1>5. \A i, j \in Files' :
        (i # j /\ ftable'[i].size > 0) => ftable'[i].blk_index # ftable'[j].blk_index
  BY <1>2 DEF InOrder, FilesInOrder, Blocks
<1>6. QED
  BY <1>1, <1>3, <1>4, <1>5 DEF Blocks, Stored

\* No held block loses its owner with the entries and the files the same.
LEMMA KeptSame ==
  ASSUME InOrder, Sound, HeldSame, ftable' = ftable, Settled \subseteq Settled',
         faults \subseteq faults', ffaults \subseteq ffaults',
         fpc \in {"alloc", "enter"} /\ blk # NULL_BLKENTRY =>
           fpc' \in {"alloc", "enter"} /\ blk' = blk
  PROVE  Kept'
<1> SUFFICES ASSUME faults' = {}, ffaults' = {}, NEW k \in Index \ {1}, table'[k].state = "USED"
             PROVE  \/ table'[k] = blk' /\ fpc' \in {"alloc", "enter"}
                    \/ \E i \in Settled' : ftable'[i].blk_index = k
  BY DEF Kept
<1>1. faults = {} /\ ffaults = {} /\ table'[k] = table[k] /\ table[k].state = "USED"
  BY DEF HeldSame
<1>2. \/ table[k] = blk /\ fpc \in {"alloc", "enter"}
      \/ \E i \in Settled : ftable[i].blk_index = k
  BY <1>1 DEF InOrder, FilesInOrder, Kept
<1>3. table[k] # NULL_BLKENTRY
  BY <1>1 DEF NULL_BLKENTRY
<1>4. QED
  BY <1>1, <1>2, <1>3

\* An operation asks for its block: what the three operations that do have in common.
LEMMA AllocateStep ==
  ASSUME InOrder, Sound, Undamaged', NEW o \in Operation, AllocateFor(o, "alloc"),
         pc = "idle", fpc \in {"idle", "freed"}, wrote' = wrote, Settled' = Settled,
         o.kind \in {"new", "copy", "over"},
         o.kind = "new" => o.len > 0,
         o.kind = "copy" => o.slot \in Files /\ ftable[o.slot].size = o.len,
         o.kind = "over" => o.slot \in Files /\ wrote[o.slot] = TORN
  PROVE  FilesInOrder'
<1>f. Typed /\ TypeOK /\ Shape
  BY FileFacts
<1>1. /\ op' = o /\ fpc' = "alloc"
      /\ ftable' = ftable /\ data' = data /\ blk' = blk /\ pos' = pos /\ ffaults' = ffaults
  BY DEF AllocateFor, Running
<1>2. /\ HeldSame /\ faults \subseteq faults'
      /\ pc' # "idle" => pc' = "carved" /\ local'.count = o.len
  <2>1. CASE o.len = 0
    BY <2>1 DEF AllocateFor, vars, HeldSame
  <2>2. CASE o.len # 0
    <3>1. Allocate(o.len) /\ o.len \in Sizes
      BY <2>2 DEF AllocateFor, Operation, Lens
    <3>2. HeldSame /\ local'.count = o.len
      BY <1>f, <3>1, AllocateKeepsHeld
    <3>3. QED
      BY <3>1, <3>2 DEF Allocate
  <2>3. QED
    BY <2>1, <2>2
<1>3. blk = NULL_BLKENTRY /\ pos = 0
  BY DEF InOrder, FilesInOrder, Stages
<1>4. Blocks' /\ Stored'
  BY <1>1, <1>2, Undisturbed DEF HeldSame, HeldStay
<1>5. Kept'
  BY <1>1, <1>2, KeptSame
<1>6. FileTypes'
  BY <1>1 DEF FileTypes, InOrder, FilesInOrder
<1>7. Files' = Files
  BY <1>1 DEF Files
<1>8. Stages'
  BY <1>1, <1>2, <1>3, <1>7 DEF Stages
<1>9. Given' /\ Filled'
  BY <1>1, <1>3 DEF Given, Filled
<1>10. QED
  BY <1>4, <1>5, <1>6, <1>8, <1>9 DEF FilesInOrder

LEMMA NoOpType == NoOp \in Operation
  BY DEF NoOp, Operation, Lens

LEMMA StartNewStep ==
  ASSUME InOrder, Sound, Undamaged', NEW n \in Name, NEW len \in Lens, NEW v \in Value,
         StartNew(n, len, v)
  PROVE  FilesInOrder'
<1> DEFINE o == [NoOp EXCEPT !.kind = "new", !.name = n, !.len = len, !.value = v]
<1>1. /\ AllocateFor(o, "alloc") /\ pc = "idle" /\ fpc = "idle" /\ wrote' = wrote /\ len > 0
  BY DEF StartNew, At_
<1>2. o \in Operation /\ o.kind = "new" /\ o.len = len
  BY NoOpType DEF NoOp, Operation
<1>3. op' = o /\ ftable' = ftable
  BY <1>1 DEF AllocateFor, Running
<1>4. Settled' = Settled
  BY <1>1, <1>2, <1>3 DEF Settled, Between, Files
<1> HIDE DEF o
<1>5. QED
  BY <1>1, <1>2, <1>4, AllocateStep

LEMMA StartCopyStep ==
  ASSUME InOrder, Sound, Undamaged', NEW n \in Name, NEW m \in Name, StartCopy(n, m)
  PROVE  FilesInOrder'
<1>1. PICK i \in ByName(m) :
        AllocateFor([NoOp EXCEPT !.kind = "copy", !.name = n, !.slot = i,
                                 !.len = ftable[i].size], "alloc")
  BY DEF StartCopy
<1> DEFINE o == [NoOp EXCEPT !.kind = "copy", !.name = n, !.slot = i, !.len = ftable[i].size]
<1>2. i \in Files /\ i \in Slots /\ ftable[i].size \in Lens
  BY FileFacts DEF ByName, Least
<1>3. pc = "idle" /\ fpc = "idle" /\ wrote' = wrote /\ AllocateFor(o, "alloc")
  BY <1>1 DEF StartCopy, At_
<1>4. o \in Operation /\ o.kind = "copy" /\ o.len = ftable[i].size /\ o.slot = i
  BY <1>2, NoOpType DEF NoOp, Operation
<1>5. op' = o /\ ftable' = ftable
  BY <1>3 DEF AllocateFor, Running
<1>6. Settled' = Settled
  BY <1>3, <1>4, <1>5 DEF Settled, Between, Files
<1> HIDE DEF o
<1>7. QED
  BY <1>2, <1>3, <1>4, <1>6, AllocateStep

LEMMA ReallocateStep ==
  ASSUME InOrder, Sound, Undamaged', Reallocate
  PROVE  FilesInOrder'
<1>1. /\ AllocateFor(op, "alloc") /\ pc = "idle" /\ fpc = "freed" /\ wrote' = wrote
      /\ op.kind = "over"
  BY DEF Reallocate, At_
<1>2. op \in Operation /\ op.slot \in Files /\ wrote[op.slot] = TORN
  BY <1>1 DEF InOrder, FilesInOrder, FileTypes, Stages
<1>3. op' = op /\ fpc' = "alloc" /\ ftable' = ftable
  BY <1>1 DEF AllocateFor, Running
<1>4. Settled' = Settled
  BY <1>1, <1>3 DEF Settled, Between, Files
<1>5. QED
  BY <1>1, <1>2, <1>4, AllocateStep

\* The entry that the block table makes for an operation is the operation's alone.
LEMMA CreateStep ==
  ASSUME InOrder, Sound, CreateEntry,
         blk' = IF FreeIndexes = {} THEN NULL_BLKENTRY ELSE local,
         UNCHANGED <<ftable, data, fpc, op, pos, wrote, ffaults>>
  PROVE  FilesInOrder'
<1>f. /\ Typed /\ TypeOK /\ Shape /\ Pending /\ Settled \subseteq Files
      /\ local \in Entry /\ NULL_BLKENTRY \in Entry
  BY FileFacts, TypeFacts DEF TypeOK
<1>1. pc = "carved" /\ pc' = "idle" /\ faults \subseteq faults'
  BY DEF CreateEntry, Done
<1>2. fpc = "alloc" /\ blk = NULL_BLKENTRY /\ local.count = op.len /\ pos = 0
  BY <1>1 DEF InOrder, FilesInOrder, Stages
<1>3. local.state = "USED" /\ NULL_BLKENTRY.state = "FREE"
  BY <1>1, <1>f DEF Pending, NULL_BLKENTRY
<1>4. Settled' = Settled /\ Files' = Files
  BY DEF Settled, Between, Files
<1>5. FileTypes'
  BY <1>f DEF FileTypes, InOrder, FilesInOrder
<1>6. Stages'
  BY <1>1, <1>2, <1>4 DEF Stages, InOrder, FilesInOrder
<1>7. Filled'
  BY <1>2 DEF Filled
<1>8. CASE FreeIndexes = {}
  <2>1. table' = table /\ blk' = blk
    BY <1>2, <1>8 DEF CreateEntry, Least
  <2>2. HeldSame /\ HeldStay
    BY <2>1 DEF HeldSame, HeldStay
  <2>3. Blocks' /\ Stored'
    BY <1>4, <2>2, Undisturbed
  <2>4. Kept'
    BY <1>1, <1>4, <2>1, <2>2, KeptSame
  <2>5. Given'
    BY <1>2, <2>1 DEF Given
  <2>6. QED
    BY <1>5, <1>6, <1>7, <2>3, <2>4, <2>5 DEF FilesInOrder
<1>9. CASE FreeIndexes # {}
  <2>1. PICK k \in Least(FreeIndexes) : table' = [table EXCEPT ![k] = local]
    BY <1>9 DEF CreateEntry
  <2>2. k \in Index /\ table[k] = NULL_BLKENTRY
    BY <2>1 DEF Least, FreeIndexes
  <2>3. /\ table'[k] = local /\ blk' = local
        /\ \A j \in Index \ {k} : table'[j] = table[j]
    BY <1>f, <1>9, <2>1, <2>2, TypeFacts
  <2>4. HeldStay
    BY <1>3, <2>2, <2>3 DEF HeldStay
  <2>5. Blocks' /\ Stored'
    BY <1>4, <2>4, Undisturbed
  <2>6. k \in Index \ {0, 1}
    <3>1. table[1].state = "USED"
      BY DEF InOrder, FilesInOrder, Blocks
    <3>2. table[0].start # 0
      BY <1>f, BlockTableAssumption DEF Shape
    <3>3. QED
      BY <1>3, <2>2, <3>1, <3>2 DEF NULL_BLKENTRY
  <2>7. \A i \in Settled : ftable[i].blk_index # k
    <3> SUFFICES ASSUME NEW i \in Settled, ftable[i].blk_index = k PROVE FALSE
      OBVIOUS
    <3>1. k # NONE
      BY <2>2 DEF Index, NONE
    <3>2. ftable[i].size > 0
      BY <1>f, <3>1, FileFacts
    <3>3. BlockOf(i) = table[k] /\ BlockOf(i).state = "USED"
      BY <3>2, FileBlock
    <3>4. QED
      BY <1>3, <2>2, <3>3
  <2>8. Given'
    BY <1>2, <1>3, <1>4, <2>3, <2>6, <2>7 DEF Given
  <2>9. Kept'
    <3> SUFFICES ASSUME faults' = {}, ffaults' = {}, NEW j \in Index \ {1}, table'[j].state = "USED"
                 PROVE  \/ table'[j] = blk' /\ fpc' \in {"alloc", "enter"}
                        \/ \E i \in Settled' : ftable'[i].blk_index = j
      BY DEF Kept
    <3>1. CASE j = k
      BY <1>2, <2>3, <3>1
    <3>2. CASE j # k
      <4>1. table[j] = table'[j] /\ faults = {} /\ ffaults = {} /\ table[j] # NULL_BLKENTRY
        BY <1>1, <1>3, <2>3, <3>2
      <4>2. \E i \in Settled : ftable[i].blk_index = j
        BY <1>2, <4>1 DEF InOrder, FilesInOrder, Kept
      <4>3. QED
        BY <1>4, <4>2
    <3>3. QED
      BY <3>1, <3>2
  <2>10. QED
    BY <1>5, <1>6, <1>7, <2>5, <2>8, <2>9 DEF FilesInOrder
<1>10. QED
  BY <1>8, <1>9

\* The merges that follow the freeing of a block disturb no file.
LEMMA MergeFilesStep ==
  ASSUME InOrder, Sound, Undamaged', MergeStep,
         UNCHANGED <<blk, ftable, data, fpc, op, pos, wrote, ffaults>>
  PROVE  FilesInOrder'
<1>f. Typed /\ TypeOK /\ Shape /\ Pending
  BY FileFacts
<1>1. /\ HeldSame /\ HeldStay
      /\ pc \in {"merge", "delete", "fold", "clear"}
      /\ pc' \in {"idle", "merge", "delete", "fold", "clear"}
      /\ faults \subseteq faults'
  BY <1>f, MergeKeepsHeld DEF HeldSame, HeldStay
<1>2. fpc = "freed" /\ blk = NULL_BLKENTRY
  BY <1>1 DEF InOrder, FilesInOrder, Stages
<1>3. Settled' = Settled /\ Files' = Files
  BY DEF Settled, Between, Files
<1>4. Blocks' /\ Stored' /\ Kept'
  BY <1>1, <1>3, Undisturbed, KeptSame
<1>5. FileTypes'
  BY DEF FileTypes, InOrder, FilesInOrder
<1>6. Stages'
  BY <1>1, <1>2, <1>3 DEF Stages, InOrder, FilesInOrder
<1>7. Given' /\ Filled'
  BY <1>2 DEF Given, Filled
<1>8. QED
  BY <1>4, <1>5, <1>6, <1>7 DEF FilesInOrder

LEMMA BlockFilesStep ==
  ASSUME InOrder, Sound, Undamaged', BlockStep
  PROVE  FilesInOrder'
<1>1. CASE CreateEntry /\ blk' = IF FreeIndexes = {} THEN NULL_BLKENTRY ELSE local
  BY <1>1, CreateStep DEF BlockStep
<1>2. CASE MergeStep /\ UNCHANGED blk
  BY <1>2, MergeFilesStep DEF BlockStep
<1>3. QED
  BY <1>1, <1>2 DEF BlockStep, MergeStep

-----------------------------------------------------------------------------
(* Steps that free a block.                                                *)

\* A file operation starts with freeing the block of file i, if that has one: the other
\* files keep theirs.
LEMMA FreedStep ==
  ASSUME InOrder, Sound, fpc = "idle", NEW i \in Files,
         NEW o \in Operation, o.kind \in {"over", "delete"}, o.slot = i,
         o.kind = "delete" => ftable[i].size > 0,
         op' = o, fpc' = "freed", wrote' = [wrote EXCEPT ![i] = TORN],
         UNCHANGED <<ftable, data, blk, pos, ffaults>>,
         IF BlockOf(i).start = 0 THEN UNCHANGED vars ELSE Free(ftable[i].blk_index)
  PROVE  FilesInOrder'
<1>f. /\ TypeOK /\ Shape /\ Pending /\ Files \subseteq Slots
      /\ wrote \in [Slots -> Value \cup {JUNK, TORN}]
  BY FileFacts DEF InOrder, FilesInOrder, FileTypes
<1>1. /\ Settled = Files /\ Files' = Files /\ Settled' = Files \ {i}
      /\ pc = "idle" /\ blk = NULL_BLKENTRY /\ pos = 0
  BY DEF Settled, Between, Files, InOrder, FilesInOrder, Stages
<1>2. wrote'[i] = TORN /\ \A j \in Files \ {i} : wrote'[j] = wrote[j]
  BY <1>f
<1>3. /\ pc' \in {"idle", "merge"} /\ faults' = faults
      /\ ftable[i].size = 0 => table' = table
      /\ ftable[i].size > 0 => /\ table'[ftable[i].blk_index].state = "FREE"
                               /\ \A j \in Index \ {ftable[i].blk_index} : table'[j] = table[j]
  <2>1. CASE ftable[i].size = 0
    <3>1. BlockOf(i).start = 0
      BY <2>1, FileFacts DEF NULL_BLKENTRY
    <3>2. QED
      BY <1>1, <2>1, <3>1 DEF vars
  <2>2. CASE ftable[i].size # 0
    <3>1. ftable[i].size > 0
      BY <1>f, <2>2, FileFacts
    <3>2. /\ ftable[i].blk_index \in Index \ {0, 1} /\ BlockOf(i) = table[ftable[i].blk_index]
          /\ BlockOf(i).state = "USED" /\ BlockOf(i).start # 0
      BY <1>1, <3>1, FileBlock, BlockTableAssumption
    <3>3. Free(ftable[i].blk_index)
      BY <3>2
    <3>4. QED
      BY <1>f, <2>2, <3>2, <3>3, FreeHeld DEF Free
  <2>3. QED
    BY <2>1, <2>2
<1>4. ASSUME NEW j \in Settled'
      PROVE  HasBlock(j)' /\ StoredAt(j)'
  <2>1. j \in Settled /\ j \in Files /\ j # i
    BY <1>1, <1>4
  <2>2. ftable[j].size > 0 =>
          ftable[j].blk_index \in Index /\ ftable[j].blk_index # ftable[i].blk_index
    BY <2>1, FileBlock
  <2>3. ftable[i].size = 0 \/ ftable[i].size > 0
    BY <1>f, FileFacts
  <2>4. ftable[j].size > 0 => table'[ftable[j].blk_index] = table[ftable[j].blk_index]
    BY <1>3, <2>2, <2>3
  <2>5. QED
    BY <1>2, <2>1, <2>4, SameFile
<1>5. /\ table[1].state = "USED" /\ 1 \in Index
      /\ \A j \in Files : IF ftable[j].size = 0 THEN ftable[j].blk_index = NONE
                                                ELSE ftable[j].blk_index \in Index \ {0, 1}
      /\ \A j, k \in Files :
           (j # k /\ ftable[j].size > 0) => ftable[j].blk_index # ftable[k].blk_index
  BY BlockTableAssumption DEF InOrder, FilesInOrder, Blocks, Index
<1>6. table'[1].state = "USED"
  <2>1. ftable[i].size > 0 => 1 # ftable[i].blk_index
    BY <1>5
  <2>2. ftable[i].size = 0 \/ ftable[i].size > 0
    BY <1>f, FileFacts
  <2>3. QED
    BY <1>3, <1>5, <2>1, <2>2
<1>7. Blocks' /\ Stored'
  <2>1. ftable' = ftable
    OBVIOUS
  <2>2. QED
    BY <1>1, <1>4, <1>5, <1>6, <2>1 DEF Blocks, Stored
<1>8. FileTypes'
  BY <1>f DEF FileTypes, InOrder, FilesInOrder
<1>9. Stages'
  BY <1>1, <1>2, <1>3 DEF Stages
<1>10. Given' /\ Filled'
  BY <1>1 DEF Given, Filled
<1>11. Kept'
  <2> SUFFICES ASSUME faults' = {}, ffaults' = {}, NEW k \in Index \ {1}, table'[k].state = "USED"
               PROVE  \E j \in Settled' : ftable[j].blk_index = k
    BY DEF Kept
  <2>1. table[k] = table'[k] /\ k # ftable[i].blk_index
    <3>1. CASE ftable[i].size = 0
      BY <1>3, <1>5, <3>1 DEF Index, NONE
    <3>2. CASE ftable[i].size > 0
      BY <1>3, <3>2
    <3>3. QED
      BY <1>f, <3>1, <3>2, FileFacts
  <2>2. table[k] # NULL_BLKENTRY
    BY <2>1 DEF NULL_BLKENTRY
  <2>3. \E j \in Settled : ftable[j].blk_index = k
    BY <1>1, <1>3, <2>1, <2>2 DEF InOrder, FilesInOrder, Kept
  <2>4. QED
    BY <1>1, <2>1, <2>3
<1>12. QED
  BY <1>7, <1>8, <1>9, <1>10, <1>11 DEF FilesInOrder

LEMMA StartOverwriteStep ==
  ASSUME InOrder, Sound, NEW n \in Name, NEW len \in Lens, NEW v \in Value,
         StartOverwrite(n, len, v)
  PROVE  FilesInOrder'
<1>1. PICK i \in ByName(n) :
        /\ FreeBlock(ftable[i].blk_index)
        /\ Running([kind |-> "over", slot |-> i, name |-> n, len |-> len, value |-> v], "freed")
        /\ wrote' = [wrote EXCEPT ![i] = TORN]
  BY DEF StartOverwrite
<1> DEFINE o == [kind |-> "over", slot |-> i, name |-> n, len |-> len, value |-> v]
<1>2. i \in Files /\ i \in Slots
  BY FileFacts DEF ByName, Least
<1>3. o \in Operation /\ o.kind = "over" /\ o.slot = i
  BY <1>2 DEF Operation
<1>4. /\ fpc = "idle" /\ op' = o /\ fpc' = "freed"
      /\ UNCHANGED <<ftable, data, blk, pos, ffaults>>
  BY <1>1 DEF StartOverwrite, At_, Running
<1>5. IF BlockOf(i).start = 0 THEN UNCHANGED vars ELSE Free(ftable[i].blk_index)
  BY <1>1 DEF FreeBlock, BlockOf
<1> HIDE DEF o
<1>6. QED
  BY <1>1, <1>2, <1>3, <1>4, <1>5, FreedStep

LEMMA StartDeleteStep ==
  ASSUME InOrder, Sound, NEW n \in Name, StartDelete(n)
  PROVE  FilesInOrder'
<1>1. PICK i \in ByName(n) :
        /\ AtIndex(ftable[i].blk_index).start # 0
        /\ Free(ftable[i].blk_index)
        /\ Running([NoOp EXCEPT !.kind = "delete", !.slot = i, !.name = n], "freed")
        /\ wrote' = [wrote EXCEPT ![i] = TORN]
  BY DEF StartDelete
<1> DEFINE o == [NoOp EXCEPT !.kind = "delete", !.slot = i, !.name = n]
<1>2. i \in Files /\ i \in Slots
  BY FileFacts DEF ByName, Least
<1>3. o \in Operation /\ o.kind = "delete" /\ o.slot = i
  BY <1>2, NoOpType DEF NoOp, Operation
<1>4. /\ fpc = "idle" /\ op' = o /\ fpc' = "freed"
      /\ UNCHANGED <<ftable, data, blk, pos, ffaults>>
  BY <1>1 DEF StartDelete, At_, Running
<1>5. IF BlockOf(i).start = 0 THEN UNCHANGED vars ELSE Free(ftable[i].blk_index)
  BY <1>1 DEF BlockOf
<1>6. ftable[i].size > 0
  <2>1. BlockOf(i).start # 0
    BY <1>1 DEF BlockOf
  <2>2. ftable[i].size # 0
    BY <1>2, <2>1, FileFacts DEF NULL_BLKENTRY
  <2>3. QED
    BY <1>2, <2>2, FileFacts
<1> HIDE DEF o
<1>7. QED
  BY <1>1, <1>2, <1>3, <1>4, <1>5, <1>6, FreedStep

-----------------------------------------------------------------------------
(* Steps that leave the block table as it is.                              *)

\* strcpy of a name into a field gives a field.
LEMMA FieldType ==
  /\ \A f \in Stack : \A k \in 1 .. WIDTH : f[k] \in Char
  /\ \A f : \A n \in Name \cup {<<>>} :
       (\A k \in 1 .. WIDTH : f[k] \in Char) => StrCpy(f, n) \in Field
<1>1. ASSUME NEW f \in Stack, NEW k \in 1 .. WIDTH
      PROVE  f[k] \in Char
  <2>1. f[k] \in CharsOf(f, WIDTH)
    BY DEF CharsOf
  <2>2. QED
    BY <2>1 DEF Char
<1>2. ASSUME NEW f, NEW n \in Name \cup {<<>>}, \A k \in 1 .. WIDTH : f[k] \in Char
      PROVE  StrCpy(f, n) \in Field
  <2>1. ASSUME NEW k \in 1 .. WIDTH
        PROVE  (IF k =< Len(n) THEN n[k] ELSE f[k]) \in Char
    <3>1. CASE n \in Name /\ k =< Len(n)
      <4>1. Len(n) \in 1 .. WIDTH
        BY <3>1, FilesAssumption DEF Fits
      <4>2. k \in 1 .. Len(n)
        BY <3>1, <4>1, <2>1, EntryNameAssumption
      <4>3. n[k] \in CharsOf(n, Len(n))
        BY <4>2 DEF CharsOf
      <4>4. n[k] \in Char
        BY <3>1, <4>3 DEF Char
      <4>5. QED
        BY <3>1, <4>4
    <3>2. CASE n = <<>>
      <4>1. ~(k =< Len(n))
        BY <3>2, <2>1, EntryNameAssumption
      <4>2. QED
        BY <1>2, <2>1, <4>1
    <3>3. CASE ~(k =< Len(n))
      BY <1>2, <2>1, <3>3
    <3>4. QED
      BY <3>1, <3>2, <3>3
  <2>2. QED
    BY <2>1 DEF StrCpy, Field
<1>3. QED
  BY <1>1, <1>2

\* The files after the writing of one entry.
LEMMA FilesAfter ==
  ASSUME NEW i \in Slots, \A j \in Slots \ {i} : ftable'[j] = ftable[j]
  PROVE  /\ ftable'[i].blk_index # 0 => Files' = Files \cup {i}
         /\ ftable'[i] = NULL_FILE => Files' = Files \ {i}
<1>1. ftable'[i] = NULL_FILE => ftable'[i].blk_index = 0
  BY DEF NULL_FILE
<1>2. QED
  BY <1>1 DEF Files

LEMMA RenameStep ==
  ASSUME InOrder, Sound, NEW n \in Name, NEW m \in Name, Rename(n, m)
  PROVE  FilesInOrder'
<1>1. PICK i \in ByName(n) : ftable' = [ftable EXCEPT ![i].name = StrCpy(ftable[i].name, m)]
  BY DEF Rename
<1>2. /\ i \in Files /\ i \in Slots /\ Files \subseteq Slots /\ Settled \subseteq Files
      /\ ftable \in [Slots -> FileEntry] /\ ftable[i].blk_index # 0
      /\ ftable[i].name \in Field
  <2>1. i \in Files /\ i \in Slots /\ Files \subseteq Slots /\ Settled \subseteq Files
    BY FileFacts DEF ByName, Least
  <2>2. ftable \in [Slots -> FileEntry]
    BY DEF InOrder, FilesInOrder, FileTypes
  <2>3. ftable[i] \in FileEntry
    BY <2>1, <2>2
  <2>4. QED
    BY <2>1, <2>2, <2>3, FileFacts DEF FileEntry
<1>3. /\ fpc = "idle" /\ fpc' = fpc
      /\ UNCHANGED <<table, pc, scan, local, below, faults, data, op, blk, pos, wrote, ffaults>>
  BY DEF Rename, At_, vars
<1>4. StrCpy(ftable[i].name, m) \in Field
  <2>1. \A k \in 1 .. WIDTH : ftable[i].name[k] \in Char
    BY <1>2 DEF Field
  <2>2. QED
    BY <2>1, FieldType
<1>5. /\ ftable' \in [Slots -> FileEntry]
      /\ \A j \in Slots : ftable'[j].blk_index = ftable[j].blk_index
                          /\ ftable'[j].size = ftable[j].size
      /\ \A j \in Slots \ {i} : ftable'[j] = ftable[j]
  <2>1. ftable[i] \in FileEntry
    BY <1>2
  <2>2. [ftable[i] EXCEPT !.name = StrCpy(ftable[i].name, m)] \in FileEntry
    BY <1>4, <2>1 DEF FileEntry
  <2>3. /\ [ftable[i] EXCEPT !.name = StrCpy(ftable[i].name, m)].blk_index = ftable[i].blk_index
        /\ [ftable[i] EXCEPT !.name = StrCpy(ftable[i].name, m)].size = ftable[i].size
    BY <2>1 DEF FileEntry
  <2>4. /\ ftable'[i] = [ftable[i] EXCEPT !.name = StrCpy(ftable[i].name, m)]
        /\ \A j \in Slots \ {i} : ftable'[j] = ftable[j]
    BY <1>1, <1>2
  <2>5. ftable' \in [Slots -> FileEntry]
    BY <1>1, <1>2, <2>2
  <2>6. QED
    BY <2>3, <2>4, <2>5
<1>6. Files' = Files /\ Settled' = Settled
  <2>1. Files' = Files
    BY <1>2, <1>5, FilesAfter
  <2>2. QED
    BY <1>3, <2>1 DEF Settled, Between
<1>7. ASSUME NEW j \in Settled'
      PROVE  HasBlock(j)' /\ StoredAt(j)'
  BY <1>2, <1>3, <1>5, <1>6, <1>7, SameFile
<1>8. Blocks'
  <2>1. /\ table[1].state = "USED"
        /\ \A j \in Files : IF ftable[j].size = 0 THEN ftable[j].blk_index = NONE
                                                  ELSE ftable[j].blk_index \in Index \ {0, 1}
        /\ \A j, k \in Files :
             (j # k /\ ftable[j].size > 0) => ftable[j].blk_index # ftable[k].blk_index
    BY DEF InOrder, FilesInOrder, Blocks
  <2>2. QED
    BY <1>2, <1>3, <1>5, <1>6, <1>7, <2>1 DEF Blocks
<1>9. FileTypes'
  BY <1>3, <1>5 DEF FileTypes, InOrder, FilesInOrder
<1>10. Stages'
  BY <1>2, <1>3, <1>5, <1>6 DEF Stages, InOrder, FilesInOrder
<1>11. Given' /\ Filled'
  BY <1>3 DEF Given, Filled, InOrder, FilesInOrder, Stages
<1>12. Kept'
  BY <1>2, <1>3, <1>5, <1>6 DEF Kept, InOrder, FilesInOrder
<1>13. QED
  BY <1>7, <1>8, <1>9, <1>10, <1>11, <1>12 DEF FilesInOrder, Stored

LEMMA DeleteEntryStep ==
  ASSUME InOrder, Sound, DeleteEntry
  PROVE  FilesInOrder'
<1> DEFINE i == op.slot
<1>1. /\ fpc = "freed" /\ pc = "idle" /\ op.kind = "delete" /\ ftable' = DeletedEntry
      /\ wrote' = [wrote EXCEPT ![i] = JUNK]
      /\ fpc' = "idle" /\ op' = NoOp /\ blk' = NULL_BLKENTRY /\ pos' = 0
      /\ UNCHANGED <<table, pc, scan, local, below, faults, data, ffaults>>
  BY DEF DeleteEntry, At_, FDone, vars
<1>2. /\ i \in Files /\ i \in Slots /\ Files \subseteq Slots /\ Settled \subseteq Files
      /\ ftable[i].size > 0
      /\ ftable \in [Slots -> FileEntry] /\ wrote \in [Slots -> Value \cup {JUNK, TORN}]
  BY <1>1, FileFacts DEF InOrder, FilesInOrder, FileTypes, Stages
<1>3. {j \in Slots : ftable[j] = ftable[i]} = {i}
  <2>1. \A j \in Files : i # j => ftable[i].blk_index # ftable[j].blk_index
    BY <1>2 DEF InOrder, FilesInOrder, Blocks
  <2>2. \A j \in Slots : ftable[j] = ftable[i] => j \in Files
    BY <1>2 DEF Files
  <2>3. QED
    BY <1>2, <2>1, <2>2
<1>4. (CHOOSE k \in Least({j \in Slots : ftable[j] = ftable[i]}) : TRUE) = i
  <2>1. Least({i}) = {i}
    BY <1>2 DEF Least, Slots
  <2>2. Least({j \in Slots : ftable[j] = ftable[i]}) = {i}
    BY <1>3, <2>1
  <2> HIDE DEF i
  <2>3. QED
    BY <2>2
<1>5. ftable' = [ftable EXCEPT ![i] = NULL_FILE]
  BY <1>1, <1>4 DEF DeletedEntry
<1>6. /\ NULL_FILE \in FileEntry
      /\ ftable'[i] = NULL_FILE /\ \A j \in Slots \ {i} : ftable'[j] = ftable[j]
  <2>1. Blank \in Field
    BY DEF Blank, Field, Char
  <2>2. 0 \in Lens /\ 0 \in Index
    BY FileFacts, Facts DEF Lens
  <2>3. NULL_FILE \in FileEntry
    BY <2>1, <2>2 DEF NULL_FILE, FileEntry
  <2>4. QED
    BY <1>2, <1>5, <2>3
<1>7. ftable' \in [Slots -> FileEntry] /\ wrote' \in [Slots -> Value \cup {JUNK, TORN}]
  BY <1>1, <1>2, <1>5, <1>6
<1>8. Files' = Files \ {i} /\ Settled' = Files' /\ Settled = Files \ {i}
  <2>1. Files' = Files \ {i}
    BY <1>2, <1>6, FilesAfter
  <2>2. QED
    BY <1>1, <2>1 DEF Settled, Between
<1>9. ASSUME NEW j \in Settled'
      PROVE  HasBlock(j)' /\ StoredAt(j)'
  <2>1. j \in Settled /\ ftable'[j] = ftable[j] /\ wrote'[j] = wrote[j]
    BY <1>1, <1>2, <1>6, <1>8, <1>9
  <2>2. table' = table /\ data' = data
    BY <1>1
  <2> HIDE DEF i
  <2>3. QED
    BY <2>1, <2>2, SameFile
<1>10. Blocks'
  <2>1. /\ table[1].state = "USED"
        /\ \A j \in Files : IF ftable[j].size = 0 THEN ftable[j].blk_index = NONE
                                                  ELSE ftable[j].blk_index \in Index \ {0, 1}
        /\ \A j, k \in Files :
             (j # k /\ ftable[j].size > 0) => ftable[j].blk_index # ftable[k].blk_index
    BY DEF InOrder, FilesInOrder, Blocks
  <2>2. QED
    BY <1>1, <1>2, <1>6, <1>8, <1>9, <2>1 DEF Blocks
<1>11. FileTypes'
  BY <1>1, <1>7, NoOpType, TypeFacts, FileFacts DEF FileTypes, InOrder, FilesInOrder
<1>12. Stages'
  BY <1>1 DEF Stages, NoOp
<1>13. Given' /\ Filled'
  BY <1>1 DEF Given, Filled
<1>14. Kept'
  <2> SUFFICES ASSUME faults' = {}, ffaults' = {}, NEW k \in Index \ {1}, table'[k].state = "USED"
               PROVE  \E j \in Settled' : ftable'[j].blk_index = k
    BY DEF Kept
  <2>1. \E j \in Settled : ftable[j].blk_index = k
    BY <1>1 DEF Kept, InOrder, FilesInOrder
  <2>2. QED
    BY <1>2, <1>6, <1>8, <2>1
<1>15. QED
  BY <1>9, <1>10, <1>11, <1>12, <1>13, <1>14 DEF FilesInOrder, Stored

\* What survives the stopping of the machine is in order, unless it leaves damage behind.
LEMMA FCrashStep ==
  ASSUME InOrder, Sound, Sound', FCrash
  PROVE  FilesInOrder'
<1>1. /\ table' = table /\ faults \subseteq faults' /\ ffaults \subseteq ffaults' /\ pc' = "idle"
      /\ fpc' = "idle" /\ op' = NoOp /\ blk' = NULL_BLKENTRY /\ pos' = 0
      /\ ftable' = ftable /\ data' = data /\ wrote' = wrote
  BY DEF FCrash, Crash, Done, FDone, vars
<1>2. ~(op.kind \in {"over", "delete"} /\ fpc \in {"freed", "alloc"})
  BY DEF FCrash, Sound
<1>3. Settled = Files /\ Files' = Files /\ Settled' = Files'
  BY <1>1, <1>2 DEF Settled, Between, Files
<1>4. HeldStay
  BY <1>1 DEF HeldStay
<1>5. Blocks' /\ Stored'
  BY <1>1, <1>3, <1>4, Undisturbed
<1>6. FileTypes'
  BY <1>1, NoOpType, TypeFacts, FileFacts DEF FileTypes, InOrder, FilesInOrder
<1>7. Stages'
  BY <1>1 DEF Stages, NoOp
<1>8. Given' /\ Filled'
  BY <1>1 DEF Given, Filled
<1>9. Kept'
  <2> SUFFICES ASSUME faults' = {}, ffaults' = {}, NEW k \in Index \ {1}, table'[k].state = "USED"
               PROVE  \E j \in Settled' : ftable'[j].blk_index = k
    BY DEF Kept
  <2>1. fpc \notin {"alloc", "enter"}
    BY <1>2 DEF FCrash, InOrder, FilesInOrder, Stages
  <2>2. QED
    BY <1>1, <1>3, <2>1 DEF Kept, InOrder, FilesInOrder
<1>10. QED
  BY <1>5, <1>6, <1>7, <1>8, <1>9 DEF FilesInOrder

-----------------------------------------------------------------------------
(* Steps of an operation that has its block.                               *)

\* The block of the operation lies in the data sectors and meets the block of no other file.
LEMMA GivenBlock ==
  ASSUME InOrder, Sound, blk # NULL_BLKENTRY
  PROVE  /\ blk.state = "USED" /\ blk.count = op.len /\ ~Empty(blk)
         /\ blk.start \in Nat /\ blk.count \in Nat /\ blk.count > 0
         /\ DATA_START =< blk.start /\ blk.start + blk.count =< DISK_END
         /\ \E k \in Index \ {0, 1} :
              /\ table[k] = blk
              /\ fpc = "write" => ftable[op.slot].blk_index = k
              /\ fpc # "write" => \A i \in Settled : ftable[i].blk_index # k
         /\ \A i \in Settled :
              ftable[i].size > 0 /\ ~(fpc = "write" /\ i = op.slot) => Apart(blk, BlockOf(i))
<1>f. TypeOK /\ Shape /\ Pending /\ Settled \subseteq Files
  BY FileFacts
<1>1. PICK k \in Index \ {0, 1} :
        /\ table[k] = blk
        /\ fpc = "write" => ftable[op.slot].blk_index = k
        /\ fpc # "write" => \A i \in Settled : ftable[i].blk_index # k
  BY DEF InOrder, FilesInOrder, Given
<1>2. blk.state = "USED" /\ blk.count = op.len
  BY DEF InOrder, FilesInOrder, Given
<1>3. /\ table[k].start \in Nat /\ table[k].count \in Nat
      /\ table[k].start + table[k].count =< DISK_END
  BY <1>f, Facts
<1>4. ~Empty(table[k]) /\ DATA_START =< table[k].start /\ table[k].count > 0
  BY <1>f, <1>1, <1>2, HeldFacts
<1>5. ASSUME NEW i \in Settled, ftable[i].size > 0, ~(fpc = "write" /\ i = op.slot)
      PROVE  Apart(blk, BlockOf(i))
  <2>1. /\ ftable[i].blk_index \in Index /\ BlockOf(i) = table[ftable[i].blk_index]
        /\ BlockOf(i).state = "USED"
        /\ \A j \in Files : i # j => ftable[i].blk_index # ftable[j].blk_index
    BY <1>5, FileBlock
  <2>2. ftable[i].blk_index # k
    <3>1. CASE fpc = "write"
      <4>1. op.slot \in Files
        BY <3>1 DEF InOrder, FilesInOrder, Stages
      <4>2. QED
        BY <1>1, <1>5, <2>1, <3>1, <4>1
    <3>2. CASE fpc # "write"
      BY <1>1, <3>2
    <3>3. QED
      BY <3>1, <3>2
  <2>3. QED
    BY <1>f, <1>1, <1>2, <2>1, <2>2, HeldFacts
<1>6. QED
  BY <1>1, <1>2, <1>3, <1>4, <1>5

\* Without a block the operation has no sectors to write.
LEMMA NoSectors == \A a \in Sectors : ~In(a, NULL_BLKENTRY)
<1>1. NULL_BLKENTRY.start = 0 /\ NULL_BLKENTRY.count = 0
  BY DEF NULL_BLKENTRY
<1>2. \A a \in Sectors : a \in Nat
  BY BlockTableAssumption DEF Sectors
<1>3. QED
  BY <1>1, <1>2 DEF In

\* The sectors of the operation's block are no other file's.
LEMMA OthersSectors ==
  ASSUME InOrder, Sound, NEW i \in Settled, ftable[i].size > 0, ~(fpc = "write" /\ i = op.slot),
         NEW a \in Sectors, In(a, BlockOf(i))
  PROVE  ~In(a, blk)
<1>1. CASE blk = NULL_BLKENTRY
  BY <1>1, NoSectors
<1>2. CASE blk # NULL_BLKENTRY
  <2>1. Apart(blk, BlockOf(i)) /\ blk.start \in Nat /\ blk.count \in Nat
    BY <1>2, GivenBlock
  <2>2. BlockOf(i).start \in Nat /\ BlockOf(i).count \in Nat
    BY FileBlock, FileFacts
  <2>3. a \in Nat
    BY BlockTableAssumption DEF Sectors
  <2>4. QED
    BY <2>1, <2>2, <2>3 DEF Apart, In
<1>3. QED
  BY <1>1, <1>2

\* Filling the new block, and copying as many sectors as the source has, writes the new block
\* alone.
LEMMA PreparedData ==
  ASSUME InOrder, Sound, Prepare, op.len > 0 => ~Empty(blk)
  PROVE  /\ data' \in [Sectors -> Value \cup {JUNK}]
         /\ \A a \in Sectors : ~In(a, blk) => data'[a] = data[a]
         /\ (op.kind = "copy" /\ wrote[op.slot] # TORN) =>
              \A a \in Sectors : In(a, blk) => data'[a] = wrote[op.slot]
<1>f. data \in [Sectors -> Value \cup {JUNK}]
  BY DEF InOrder, FilesInOrder, FileTypes
<1>1. fpc = "alloc" /\ op.kind \in {"new", "copy"}
  BY DEF Prepare, At_
<1>2. CASE op.kind = "new"
  BY <1>f, <1>2 DEF Prepare, Fill
<1>3. CASE op.kind = "copy"
  <2> DEFINE s == op.slot
             src == BlockOf(s)
  <2>1. s \in Settled /\ s \in Slots /\ ftable[s].size = op.len /\ op.len \in Nat
    <3>1. s \in Files /\ ftable[s].size = op.len
      BY <1>3 DEF InOrder, FilesInOrder, Stages
    <3>2. QED
      BY <1>3, <3>1, IdleSettled, FileFacts
  <2>2. data' = Copied(blk, src)
    BY <1>3 DEF Prepare, BlockOf
  <2>3. CASE op.len = 0
    <3>1. src = NULL_BLKENTRY
      BY <2>1, <2>3, FileFacts DEF Settled
    <3>2. blk = NULL_BLKENTRY
      BY <2>3, GivenBlock
    <3>3. src.count = 0 /\ blk.start = 0
      BY <3>1, <3>2 DEF NULL_BLKENTRY
    <3>4. \A a \in Sectors : ~(0 =< a /\ a < 0 + 0)
      BY BlockTableAssumption DEF Sectors
    <3>5. data' = [a \in Sectors |-> data[a]]
      <4> HIDE DEF src
      <4>1. QED
        BY <2>2, <3>3, <3>4 DEF Copied
    <3>6. QED
      BY <1>f, <3>2, <3>5, NoSectors
  <2>4. CASE op.len > 0
    <3>1. blk # NULL_BLKENTRY
      BY <2>4 DEF Empty, NULL_BLKENTRY
    <3>2. /\ blk.count = op.len /\ blk.start \in Nat /\ blk.start + blk.count =< DISK_END
          /\ DATA_START =< blk.start
      BY <3>1, GivenBlock
    <3>3. /\ src.count = op.len /\ src.start \in Nat /\ src.start + src.count =< DISK_END
          /\ DATA_START =< src.start
      BY <2>1, <2>4, FileBlock
    <3>4. StoredAt(s)
      BY <2>1 DEF InOrder, FilesInOrder, Stored
    <3> HIDE DEF src
    <3>5. \A a \in Sectors : In(a, blk) <=> blk.start =< a /\ a < blk.start + src.count
      BY <3>2, <3>3 DEF In
    <3>6. ASSUME NEW a \in Sectors, In(a, blk)
          PROVE  /\ src.start + (a - blk.start) \in Sectors
                 /\ In(src.start + (a - blk.start), src)
      <4>1. a \in Int
        BY BlockTableAssumption DEF Sectors
      <4>2. QED
        BY <4>1, <3>2, <3>3, <3>6, <2>1, BlockTableAssumption DEF In, Sectors
    <3>7. \A a \in Sectors : data'[a] = IF In(a, blk) THEN data[src.start + (a - blk.start)]
                                                      ELSE data[a]
      BY <2>2, <3>5 DEF Copied
    <3>8. DOMAIN data' = Sectors /\ data' = [a \in Sectors |-> data'[a]]
      BY <2>2 DEF Copied
    <3>9. data' \in [Sectors -> Value \cup {JUNK}]
      <4>1. \A a \in Sectors : data'[a] \in Value \cup {JUNK}
        BY <1>f, <3>6, <3>7
      <4>2. QED
        BY <3>8, <4>1
    <3>10. wrote[s] # TORN => \A a \in Sectors : In(a, blk) => data'[a] = wrote[s]
      BY <2>1, <2>4, <3>4, <3>6, <3>7 DEF StoredAt, src
    <3>11. QED
      BY <3>7, <3>9, <3>10
  <2>5. QED
    BY <2>1, <2>3, <2>4
<1>4. QED
  BY <1>1, <1>2, <1>3

LEMMA PrepareStep ==
  ASSUME InOrder, Sound, Sound', Prepare
  PROVE  FilesInOrder'
<1>1. /\ fpc = "alloc" /\ fpc' = "enter" /\ pc = "idle" /\ op.kind \in {"new", "copy"}
      /\ UNCHANGED <<table, pc, scan, local, below, faults, ftable, op, blk, pos, wrote>>
      /\ ffaults \subseteq ffaults'
      /\ op.len > 0 => ~Empty(blk)
  BY DEF Prepare, At_, vars, Sound
<1>2. /\ data' \in [Sectors -> Value \cup {JUNK}]
      /\ \A a \in Sectors : ~In(a, blk) => data'[a] = data[a]
      /\ (op.kind = "copy" /\ wrote[op.slot] # TORN) =>
           \A a \in Sectors : In(a, blk) => data'[a] = wrote[op.slot]
  BY <1>1, PreparedData
<1>3. Settled = Files /\ Files' = Files /\ Settled' = Files'
  BY <1>1 DEF Settled, Between, Files
<1>4. ASSUME NEW j \in Settled'
      PROVE  HasBlock(j)' /\ StoredAt(j)'
  <2>1. j \in Settled
    BY <1>3, <1>4
  <2>2. ftable[j].size > 0 => \A a \in Sectors : In(a, BlockOf(j)) => data'[a] = data[a]
    BY <1>1, <1>2, <2>1, OthersSectors
  <2>3. QED
    BY <1>1, <2>1, <2>2, SameFile
<1>5. Blocks'
  BY <1>1, <1>3, <1>4 DEF Blocks, InOrder, FilesInOrder
<1>6. FileTypes'
  BY <1>1, <1>2 DEF FileTypes, InOrder, FilesInOrder
<1>7. Stages'
  BY <1>1, <1>3 DEF Stages, InOrder, FilesInOrder
<1>8. Given'
  <2>1. op.len > 0 => blk # NULL_BLKENTRY
    BY <1>1 DEF Empty, NULL_BLKENTRY
  <2>2. QED
    BY <1>1, <1>3, <2>1 DEF Given, InOrder, FilesInOrder
<1>9. Filled'
  BY <1>1, <1>2 DEF Filled
<1>10. Kept'
  BY <1>1, <1>3 DEF Kept, InOrder, FilesInOrder
<1>11. QED
  BY <1>4, <1>5, <1>6, <1>7, <1>8, <1>9, <1>10 DEF FilesInOrder, Stored

\* The index that is stored for the block of the operation is the block's.
LEMMA GivenIndex ==
  ASSUME InOrder, Sound, fpc \in {"alloc", "enter"}, ~Shifted, op.len > 0 => ~Empty(blk)
  PROVE  /\ AtIndex(BlockIndex(blk)) = blk
         /\ op.len = 0 => blk = NULL_BLKENTRY /\ BlockIndex(blk) = NONE
         /\ op.len > 0 => /\ blk.state = "USED" /\ blk.count = op.len
                          /\ BlockIndex(blk) \in Index \ {0, 1}
                          /\ table[BlockIndex(blk)] = blk
                          /\ \A i \in Settled : ftable[i].blk_index # BlockIndex(blk)
<1>f. TypeOK /\ Shape /\ Pending /\ op.len \in Nat
  BY FileFacts DEF InOrder, FilesInOrder, FileTypes, Operation
<1>1. CASE op.len = 0
  <2>1. blk = NULL_BLKENTRY
    BY <1>1, GivenBlock
  <2>2. BlockIndex(blk) = NONE
    BY <2>1 DEF BlockIndex, Empty, NULL_BLKENTRY
  <2>3. QED
    BY <1>1, <2>1, <2>2 DEF AtIndex
<1>2. CASE op.len > 0
  <2>1. ~Empty(blk) /\ blk # NULL_BLKENTRY
    BY <1>2 DEF Empty, NULL_BLKENTRY
  <2>2. AtIndex(BlockIndex(blk)) = blk
    BY <2>1 DEF Shifted
  <2>3. /\ blk.state = "USED" /\ blk.count = op.len
        /\ \E k \in Index \ {0, 1} :
             table[k] = blk /\ \A i \in Settled : ftable[i].blk_index # k
    BY <2>1, GivenBlock
  <2>4. PICK k \in Index \ {0, 1} :
          table[k] = blk /\ \A i \in Settled : ftable[i].blk_index # k
    BY <2>3
  <2>5. BlockIndex(blk) = k
    BY <1>f, <2>2, <2>3, <2>4, IndexOfHeld
  <2>6. QED
    BY <1>2, <2>2, <2>3, <2>4, <2>5
<1>3. QED
  BY <1>f, <1>1, <1>2

\* The entry of file i gets the block of the operation: i is then a file like the others.
LEMMA Adopted ==
  ASSUME InOrder, Sound, fpc \in {"alloc", "enter"}, ~Shifted, op.len > 0 => ~Empty(blk),
         NEW i \in Slots, i \notin Settled, Files \subseteq Settled \cup {i},
         table' = table, data' = data, fpc' \in {"write", "idle"},
         ftable'[i].size = op.len, ftable'[i].blk_index = BlockIndex(blk),
         \A j \in Slots \ {i} : ftable'[j] = ftable[j] /\ wrote'[j] = wrote[j],
         op.len > 0 /\ wrote'[i] # TORN => \A a \in Sectors : In(a, blk) => data[a] = wrote'[i],
         faults \subseteq faults', ffaults \subseteq ffaults'
  PROVE  /\ Files' = Settled \cup {i} /\ Settled' = Files'
         /\ Blocks' /\ Stored' /\ Kept'
<1>f. /\ Files \subseteq Slots /\ Settled \subseteq Files /\ op.len \in Nat
  BY FileFacts DEF InOrder, FilesInOrder, FileTypes, Operation
<1>1. /\ AtIndex(BlockIndex(blk)) = blk
      /\ op.len = 0 => blk = NULL_BLKENTRY /\ BlockIndex(blk) = NONE
      /\ op.len > 0 => /\ blk.state = "USED" /\ blk.count = op.len
                       /\ BlockIndex(blk) \in Index \ {0, 1}
                       /\ table[BlockIndex(blk)] = blk
                       /\ \A j \in Settled : ftable[j].blk_index # BlockIndex(blk)
  BY GivenIndex
<1>2. Files' = Settled \cup {i} /\ Settled' = Files'
  <2>1. ftable'[i].blk_index # 0
    BY <1>f, <1>1 DEF NONE
  <2>2. Files' = Files \cup {i}
    BY <2>1, FilesAfter
  <2>3. Between' = {}
    BY DEF Between
  <2>4. QED
    BY <1>f, <2>2, <2>3 DEF Settled
<1>3. ASSUME NEW j \in Settled
      PROVE  HasBlock(j)' /\ StoredAt(j)'
  <2>1. j \in Slots \ {i}
    BY <1>f
  <2>2. QED
    BY <2>1, SameFile
<1>4. HasBlock(i)' /\ StoredAt(i)'
  <2>1. BlockOf(i)' = blk
    BY <1>1 DEF BlockOf, AtIndex
  <2>2. HasBlock(i)'
    BY <1>1, <2>1 DEF HasBlock
  <2>3. StoredAt(i)'
    BY <2>1 DEF StoredAt, In
  <2>4. QED
    BY <2>2, <2>3
<1>5. /\ table[1].state = "USED"
      /\ \A j \in Files : IF ftable[j].size = 0 THEN ftable[j].blk_index = NONE
                                                ELSE ftable[j].blk_index \in Index \ {0, 1}
      /\ \A j, k \in Files :
           (j # k /\ ftable[j].size > 0) => ftable[j].blk_index # ftable[k].blk_index
  BY DEF InOrder, FilesInOrder, Blocks
<1>6. \A j \in Files' : IF ftable'[j].size = 0 THEN ftable'[j].blk_index = NONE
                                               ELSE ftable'[j].blk_index \in Index \ {0, 1}
  BY <1>f, <1>1, <1>2, <1>5
<1>7. ASSUME NEW j \in Files', NEW k \in Files', j # k, ftable'[j].size > 0
      PROVE  ftable'[j].blk_index # ftable'[k].blk_index
  <2>1. CASE j = i
    <3>1. k \in Settled /\ ftable'[k] = ftable[k]
      BY <1>f, <1>2, <1>7, <2>1
    <3>2. QED
      BY <1>1, <1>7, <2>1, <3>1
  <2>2. CASE j # i
    <3>1. j \in Settled /\ j \in Files /\ ftable'[j] = ftable[j]
      BY <1>f, <1>2, <1>7, <2>2
    <3>2. CASE k # i
      BY <1>f, <1>2, <1>5, <1>7, <3>1, <3>2
    <3>3. CASE k = i /\ op.len > 0
      BY <1>1, <3>1, <3>3
    <3>4. CASE k = i /\ op.len = 0
      <4>1. ftable[j].blk_index \in Index
        BY <1>7, <3>1, FileFacts
      <4>2. QED
        BY <1>1, <3>1, <3>4, <4>1 DEF NONE, Index
    <3>5. QED
      BY <1>f, <3>2, <3>3, <3>4
  <2>3. QED
    BY <2>1, <2>2
<1>8. Blocks'
  BY <1>2, <1>3, <1>4, <1>5, <1>6, <1>7 DEF Blocks
<1>9. Stored'
  BY <1>2, <1>3, <1>4 DEF Stored
<1>10. Kept'
  <2> SUFFICES ASSUME faults' = {}, ffaults' = {}, NEW k \in Index \ {1}, table'[k].state = "USED"
               PROVE  \E j \in Settled' : ftable'[j].blk_index = k
    BY DEF Kept
  <2>1. table[k] = blk \/ \E j \in Settled : ftable[j].blk_index = k
    BY DEF Kept, InOrder, FilesInOrder
  <2>2. CASE table[k] = blk
    <3>1. blk # NULL_BLKENTRY
      BY <2>2 DEF NULL_BLKENTRY
    <3>2. op.len > 0
      BY <1>f, <1>1, <3>1
    <3>3. BlockIndex(blk) = k
      BY <1>1, <2>2, <3>2, FileFacts, HeldFacts
    <3>4. QED
      BY <1>2, <3>3
  <2>3. CASE \E j \in Settled : ftable[j].blk_index = k
    BY <1>f, <1>2, <2>3
  <2>4. QED
    BY <2>1, <2>2, <2>3
<1>11. QED
  BY <1>2, <1>8, <1>9, <1>10

LEMMA UpdateStep ==
  ASSUME InOrder, Sound, Sound', Update
  PROVE  FilesInOrder'
<1> DEFINE i == op.slot
<1>1. /\ fpc = "alloc" /\ fpc' = "write" /\ pc = "idle" /\ op.kind = "over"
      /\ UNCHANGED <<table, pc, scan, local, below, faults, data, op, blk, pos, wrote>>
      /\ ffaults \subseteq ffaults'
      /\ ftable' = [ftable EXCEPT ![i].blk_index = BlockIndex(blk), ![i].size = op.len]
  BY DEF Update, At_, vars
<1>2. ~Shifted /\ (op.len > 0 => ~Empty(blk))
  BY DEF Update, Sound
<1>3. /\ i \in Files /\ i \in Slots /\ wrote[i] = TORN
      /\ ftable \in [Slots -> FileEntry] /\ op.len \in Lens /\ pos = 0
  BY <1>1, FileFacts DEF InOrder, FilesInOrder, FileTypes, Stages, Operation
<1>4. Settled = Files \ {i}
  BY <1>1 DEF Settled, Between
<1>5. AtIndex(BlockIndex(blk)) = blk /\ BlockIndex(blk) \in Index \cup {NONE}
  <2>1. op.len = 0 \/ op.len > 0
    BY <1>3, FileFacts
  <2>2. QED
    BY <1>1, <1>2, <2>1, GivenIndex
<1>6. /\ ftable'[i].size = op.len /\ ftable'[i].blk_index = BlockIndex(blk)
      /\ \A j \in Slots \ {i} : ftable'[j] = ftable[j]
      /\ ftable' \in [Slots -> FileEntry]
  <2> HIDE DEF i
  <2> DEFINE e == [ftable[i] EXCEPT !.blk_index = BlockIndex(blk), !.size = op.len]
  <2>1. ftable[i] \in FileEntry
    BY <1>3
  <2>2. e \in FileEntry /\ e.size = op.len /\ e.blk_index = BlockIndex(blk)
    BY <1>3, <1>5, <2>1 DEF FileEntry
  <2>3. ftable' = [ftable EXCEPT ![i] = e]
    BY <1>1, <1>3
  <2> HIDE DEF e
  <2>4. QED
    BY <1>3, <2>2, <2>3
<1>7. /\ Files' = Settled \cup {i} /\ Settled' = Files'
      /\ Blocks' /\ Stored' /\ Kept'
  <2> HIDE DEF i
  <2>1. QED
    BY <1>1, <1>2, <1>3, <1>4, <1>6, Adopted
<1>8. FileTypes'
  BY <1>1, <1>6 DEF FileTypes, InOrder, FilesInOrder
<1>9. Stages'
  BY <1>1, <1>3, <1>6, <1>7 DEF Stages, InOrder, FilesInOrder
<1>10. Given'
  <2>1. /\ blk # NULL_BLKENTRY => op.len > 0 /\ ~Empty(blk)
        /\ op.len > 0 => blk # NULL_BLKENTRY
    BY <1>2, GivenBlock DEF Empty, NULL_BLKENTRY
  <2>2. /\ op.len > 0 => /\ blk.state = "USED" /\ blk.count = op.len
                         /\ BlockIndex(blk) \in Index \ {0, 1}
                         /\ table[BlockIndex(blk)] = blk
    BY <1>1, <1>2, GivenIndex
  <2>3. QED
    BY <1>1, <1>6, <2>1, <2>2 DEF Given
<1>11. Filled'
  <2>1. \A a \in Sectors : ~(In(a, blk) /\ a < blk.start + pos)
    <3>1. CASE blk = NULL_BLKENTRY
      BY <3>1, NoSectors
    <3>2. CASE blk # NULL_BLKENTRY
      <4>1. blk.start \in Nat
        BY <3>2, GivenBlock
      <4>2. \A a \in Sectors : a \in Nat
        BY BlockTableAssumption DEF Sectors
      <4>3. QED
        BY <1>3, <4>1, <4>2 DEF In
    <3>3. QED
      BY <3>1, <3>2
  <2>2. QED
    BY <1>1, <2>1 DEF Filled
<1>12. QED
  BY <1>7, <1>8, <1>9, <1>10, <1>11 DEF FilesInOrder

\* The new file gets the block, or there is no room for it.
LEMMA EnterStep ==
  ASSUME InOrder, Sound, Sound', Enter
  PROVE  FilesInOrder'
<1>1. /\ fpc = "enter" /\ pc = "idle" /\ op.kind \in {"new", "copy"} /\ pos = 0
      /\ UNCHANGED <<table, pc, scan, local, below, faults, data>>
      /\ op \in Operation /\ op.len \in Nat
      /\ op.len > 0 => blk # NULL_BLKENTRY
      /\ op.kind = "new" => op.len > 0
      /\ op.kind = "copy" => op.slot \in Slots
      /\ wrote \in [Slots -> Value \cup {JUNK, TORN}] /\ ftable \in [Slots -> FileEntry]
      /\ Lens \subseteq Nat /\ Files \subseteq Slots
  <2>1. fpc = "enter" /\ pc = "idle"
        /\ UNCHANGED <<table, pc, scan, local, below, faults, data>>
    BY DEF Enter, At_, vars
  <2>2. /\ op.kind \in {"new", "copy"} /\ pos = 0
        /\ op.kind = "new" => op.len > 0
        /\ op.kind = "copy" => op.slot \in Files
        /\ op.len > 0 => blk # NULL_BLKENTRY
    BY <2>1 DEF InOrder, FilesInOrder, Stages, Given
  <2>3. /\ op \in Operation
        /\ wrote \in [Slots -> Value \cup {JUNK, TORN}] /\ ftable \in [Slots -> FileEntry]
    BY DEF InOrder, FilesInOrder, FileTypes
  <2>4. Lens \subseteq Nat /\ Files \subseteq Slots
    BY FileFacts
  <2>5. op.len \in Nat
    BY <2>3, <2>4 DEF Operation
  <2>6. QED
    BY <2>1, <2>2, <2>3, <2>4, <2>5
<1>2. Settled = Files
  BY <1>1, IdleSettled
<1>3. CASE FreeFiles = {}
  <2>1. /\ fpc' = "idle" /\ op' = NoOp /\ blk' = NULL_BLKENTRY /\ pos' = 0
        /\ ftable' = ftable /\ wrote' = wrote
        /\ ffaults' = IF op.len > 0 THEN ffaults \cup {"table_full"} ELSE ffaults
    BY <1>3 DEF Enter, FDone
  <2>2. Settled' = Files' /\ Files' = Files
    BY <2>1 DEF Settled, Between, Files
  <2>3. HeldStay
    BY <1>1 DEF HeldStay
  <2>4. Blocks' /\ Stored'
    BY <1>1, <1>2, <2>1, <2>2, <2>3, Undisturbed
  <2>5. FileTypes'
    BY <1>1, <2>1, NoOpType, TypeFacts, FileFacts DEF FileTypes, InOrder, FilesInOrder
  <2>6. Stages'
    BY <1>1, <2>1 DEF Stages, NoOp
  <2>7. Given' /\ Filled'
    BY <2>1 DEF Given, Filled
  <2>8. Kept'
    <3> SUFFICES ASSUME faults' = {}, ffaults' = {}, NEW k \in Index \ {1},
                        table'[k].state = "USED"
                 PROVE  \E j \in Settled' : ftable'[j].blk_index = k
      BY DEF Kept
    <3>1. ~(op.len > 0) /\ ffaults = {}
      BY <2>1
    <3>2. blk = NULL_BLKENTRY
      BY <1>1, <3>1, GivenBlock
    <3>3. table[k] # blk
      BY <1>1, <3>2 DEF NULL_BLKENTRY
    <3>4. QED
      BY <1>1, <1>2, <2>1, <2>2, <3>1, <3>3 DEF Kept, InOrder, FilesInOrder
  <2>9. QED
    BY <2>4, <2>5, <2>6, <2>7, <2>8 DEF FilesInOrder
<1>4. ASSUME NEW i \in FreeFiles, NEW field \in Stack,
             ftable' = [ftable EXCEPT ![i] = NewFile(field)],
             wrote' = [wrote EXCEPT ![i] = IF op.kind = "copy" THEN wrote[op.slot] ELSE TORN],
             ffaults' = IF Shifted THEN ffaults \cup {"shifted"} ELSE ffaults,
             IF op.kind = "copy"
               THEN FDone
               ELSE /\ op' = [op EXCEPT !.slot = i]
                    /\ blk' = AtIndex(BlockIndex(blk))
                    /\ fpc' = "write" /\ UNCHANGED pos
      PROVE  FilesInOrder'
  <2>1. i \in Slots /\ i \notin Files
    BY <1>4 DEF FreeFiles, Least
  <2>2. ~Shifted /\ ffaults' = ffaults
    BY <1>4 DEF Sound
  <2>3. op.len > 0 => ~Empty(blk)
    BY <1>1, GivenBlock
  <2>4. /\ AtIndex(BlockIndex(blk)) = blk /\ BlockIndex(blk) \in Index \cup {NONE}
        /\ op.len > 0 => /\ blk.state = "USED" /\ blk.count = op.len
                         /\ BlockIndex(blk) \in Index \ {0, 1}
                         /\ table[BlockIndex(blk)] = blk
    <3>1. op.len = 0 \/ op.len > 0
      BY <1>1
    <3>2. QED
      BY <1>1, <2>2, <2>3, <3>1, GivenIndex
  <2>5. NewFile(field) \in FileEntry
    <3>1. StrCpy(field, op.name) \in Field
      <4>1. op.name \in Name \cup {<<>>}
        BY <1>1 DEF Operation
      <4>2. QED
        BY <4>1, FieldType
    <3>2. op.len \in Lens
      BY <1>1 DEF Operation
    <3>3. QED
      BY <2>4, <3>1, <3>2 DEF NewFile, FileEntry
  <2>6. /\ ftable'[i].size = op.len /\ ftable'[i].blk_index = BlockIndex(blk)
        /\ \A j \in Slots \ {i} : ftable'[j] = ftable[j] /\ wrote'[j] = wrote[j]
        /\ ftable' \in [Slots -> FileEntry]
        /\ wrote'[i] = IF op.kind = "copy" THEN wrote[op.slot] ELSE TORN
        /\ wrote' \in [Slots -> Value \cup {JUNK, TORN}]
    <3>1. ftable'[i] = NewFile(field)
      BY <1>1, <1>4, <2>1
    <3>2. ftable'[i].size = op.len /\ ftable'[i].blk_index = BlockIndex(blk)
      BY <3>1 DEF NewFile
    <3>3. (IF op.kind = "copy" THEN wrote[op.slot] ELSE TORN) \in Value \cup {JUNK, TORN}
      BY <1>1
    <3>4. QED
      BY <1>1, <1>4, <2>1, <2>5, <3>2, <3>3
  <2>7. wrote'[i] # TORN => \A a \in Sectors : In(a, blk) => data[a] = wrote'[i]
    BY <1>1, <2>6 DEF Filled, InOrder, FilesInOrder
  <2>8. fpc' \in {"write", "idle"}
    BY <1>1, <1>4 DEF FDone
  <2>9. /\ Files' = Settled \cup {i} /\ Settled' = Files'
        /\ Blocks' /\ Stored' /\ Kept'
    BY <1>1, <1>2, <2>1, <2>2, <2>3, <2>6, <2>7, <2>8, Adopted
  <2>10. CASE op.kind = "copy"
    <3>1. fpc' = "idle" /\ op' = NoOp /\ blk' = NULL_BLKENTRY /\ pos' = 0
      BY <1>4, <2>10 DEF FDone
    <3>2. FileTypes'
      BY <1>1, <2>6, <3>1, NoOpType, TypeFacts, FileFacts DEF FileTypes, InOrder, FilesInOrder
    <3>3. Stages'
      BY <1>1, <3>1 DEF Stages, NoOp
    <3>4. Given' /\ Filled'
      BY <3>1 DEF Given, Filled
    <3>5. QED
      BY <2>9, <3>2, <3>3, <3>4 DEF FilesInOrder
  <2>11. CASE op.kind = "new"
    <3>1. fpc' = "write" /\ op' = [op EXCEPT !.slot = i] /\ blk' = blk /\ pos' = 0
      BY <1>1, <1>4, <2>4, <2>11
    <3>2. /\ op' \in Operation /\ op'.slot = i /\ op'.kind = "new" /\ op'.len = op.len
      BY <1>1, <2>1, <2>11, <3>1 DEF Operation
    <3>3. FileTypes'
      BY <1>1, <2>6, <3>1, <3>2 DEF FileTypes, InOrder, FilesInOrder
    <3>4. Stages'
      BY <1>1, <2>6, <2>9, <2>11, <3>1, <3>2 DEF Stages
    <3>5. Given'
      BY <1>1, <2>4, <2>6, <2>11, <3>1, <3>2 DEF Given
    <3>6. Filled'
      <4>1. blk.start \in Nat
        BY <1>1, <2>11, GivenBlock
      <4>2. \A a \in Sectors : a \in Nat
        BY BlockTableAssumption DEF Sectors
      <4>3. \A a \in Sectors : ~(In(a, blk) /\ a < blk.start + 0)
        BY <4>1, <4>2 DEF In
      <4>4. QED
        BY <3>1, <4>3 DEF Filled
    <3>7. QED
      BY <2>9, <3>3, <3>4, <3>5, <3>6 DEF FilesInOrder
  <2>12. QED
    BY <1>1, <2>10, <2>11
<1>5. QED
  BY <1>3, <1>4 DEF Enter

\* A write goes into the block of the file that is written.
LEMMA WriteSectorStep ==
  ASSUME InOrder, Sound, WriteSector
  PROVE  FilesInOrder'
<1> DEFINE i == op.slot
           s == blk.start + pos
<1>1. /\ fpc = "write" /\ pc = "idle" /\ pos < blk.count
      /\ data' = IF s \in Sectors THEN [data EXCEPT ![s] = op.value] ELSE data
      /\ pos' = pos + 1
      /\ UNCHANGED <<table, pc, scan, local, below, faults, ftable, fpc, op, blk, wrote, ffaults>>
  BY DEF WriteSector, At_, vars
<1>2. /\ data \in [Sectors -> Value \cup {JUNK}] /\ pos \in Nat
      /\ op.value \in Value \cup {JUNK} /\ i \in Files /\ wrote[i] = TORN
  BY <1>1 DEF InOrder, FilesInOrder, FileTypes, Stages, Operation
<1>3. blk # NULL_BLKENTRY
  BY <1>1, <1>2 DEF NULL_BLKENTRY
<1>4. /\ blk.start \in Nat /\ blk.count \in Nat
      /\ DATA_START =< blk.start /\ blk.start + blk.count =< DISK_END
  BY <1>3, GivenBlock
<1>5. s \in Sectors /\ In(s, blk)
  BY <1>1, <1>2, <1>4, BlockTableAssumption DEF Sectors, In
<1>6. /\ data' \in [Sectors -> Value \cup {JUNK}] /\ data'[s] = op.value
      /\ \A a \in Sectors \ {s} : data'[a] = data[a]
  <2> HIDE DEF s
  <2>1. QED
    BY <1>1, <1>2, <1>5
<1>7. Files' = Files /\ Settled' = Settled
  BY <1>1 DEF Settled, Between, Files
<1>8. ASSUME NEW j \in Settled'
      PROVE  HasBlock(j)' /\ StoredAt(j)'
  <2>1. CASE j = i
    <3>1. BlockOf(j)' = BlockOf(j)
      BY <1>1 DEF BlockOf, AtIndex
    <3>2. HasBlock(j)
      BY <1>7, <1>8 DEF InOrder, FilesInOrder, Blocks
    <3>3. HasBlock(j)'
      BY <1>1, <3>1, <3>2 DEF HasBlock
    <3>4. StoredAt(j)'
      BY <1>1, <1>2, <2>1 DEF StoredAt
    <3>5. QED
      BY <3>3, <3>4
  <2>2. CASE j # i
    <3>1. j \in Settled
      BY <1>7, <1>8
    <3>2. ftable[j].size > 0 => \A a \in Sectors : In(a, BlockOf(j)) => data'[a] = data[a]
      BY <1>5, <1>6, <2>2, <3>1, OthersSectors
    <3>3. QED
      BY <1>1, <3>1, <3>2, SameFile
  <2>3. QED
    BY <2>1, <2>2
<1>9. Blocks'
  BY <1>1, <1>7, <1>8 DEF Blocks, InOrder, FilesInOrder
<1>10. FileTypes'
  BY <1>1, <1>2, <1>6 DEF FileTypes, InOrder, FilesInOrder
<1>11. Stages'
  BY <1>1, <1>7 DEF Stages, InOrder, FilesInOrder
<1>12. Given'
  BY <1>1, <1>7 DEF Given, InOrder, FilesInOrder
<1>13. Filled'
  <2> SUFFICES ASSUME NEW a \in Sectors, In(a, blk), a < blk.start + (pos + 1)
               PROVE  data'[a] = op.value
    BY <1>1 DEF Filled
  <2>1. a \in Nat
    BY BlockTableAssumption DEF Sectors
  <2>2. a = s \/ (a # s /\ a < blk.start + pos)
    BY <1>2, <1>4, <2>1
  <2>3. a < blk.start + pos => data[a] = op.value
    BY <1>1 DEF Filled, InOrder, FilesInOrder
  <2>4. QED
    BY <1>6, <2>2, <2>3
<1>14. Kept'
  BY <1>1, <1>7 DEF Kept, InOrder, FilesInOrder
<1>15. QED
  BY <1>8, <1>9, <1>10, <1>11, <1>12, <1>13, <1>14 DEF FilesInOrder, Stored

\* When the loop ends, the whole block has been written.
LEMMA WriteEndsStep ==
  ASSUME InOrder, Sound, WriteEnds
  PROVE  FilesInOrder'
<1> DEFINE i == op.slot
<1>1. /\ fpc = "write" /\ pc = "idle" /\ pos >= blk.count
      /\ wrote' = [wrote EXCEPT ![i] = IF blk.count = 0 THEN JUNK ELSE op.value]
      /\ fpc' = "idle" /\ op' = NoOp /\ blk' = NULL_BLKENTRY /\ pos' = 0
      /\ UNCHANGED <<table, pc, scan, local, below, faults, ftable, data, ffaults>>
  BY DEF WriteEnds, At_, FDone, vars
<1>2. /\ i \in Files /\ i \in Slots /\ ftable[i].size = op.len /\ pos \in Nat
      /\ wrote \in [Slots -> Value \cup {JUNK, TORN}] /\ op.value \in Value \cup {JUNK}
      /\ Files \subseteq Slots /\ Settled \subseteq Files
  BY <1>1, FileFacts DEF InOrder, FilesInOrder, FileTypes, Stages, Operation
<1>3. /\ Settled = Files /\ Files' = Files /\ Settled' = Settled
  BY <1>1 DEF Settled, Between, Files
<1>4. /\ wrote'[i] = IF blk.count = 0 THEN JUNK ELSE op.value
      /\ \A j \in Slots \ {i} : wrote'[j] = wrote[j]
      /\ wrote' \in [Slots -> Value \cup {JUNK, TORN}]
  BY <1>1, <1>2
<1>5. ASSUME NEW j \in Settled'
      PROVE  HasBlock(j)' /\ StoredAt(j)'
  <2>1. j \in Settled /\ BlockOf(j)' = BlockOf(j)
    BY <1>1, <1>3, <1>5 DEF BlockOf, AtIndex
  <2>2. HasBlock(j) /\ StoredAt(j)
    BY <2>1 DEF InOrder, FilesInOrder, Blocks, Stored
  <2>3. HasBlock(j)'
    BY <1>1, <2>1, <2>2 DEF HasBlock
  <2>4. StoredAt(j)'
    <3>1. CASE j # i
      BY <1>1, <1>2, <1>4, <2>1, <2>2, <3>1 DEF StoredAt, In
    <3>2. CASE j = i /\ ftable[j].size > 0
      <4>1. blk # NULL_BLKENTRY
        BY <1>1, <1>2, <3>2 DEF InOrder, FilesInOrder, Given
      <4>2. /\ blk.start \in Nat /\ blk.count \in Nat /\ blk.count > 0
            /\ \E k \in Index \ {0, 1} : table[k] = blk /\ ftable[i].blk_index = k
        BY <1>1, <4>1, GivenBlock
      <4>3. BlockOf(j) = blk
        BY <2>1, <3>2, <4>2, FileBlock
      <4>4. ASSUME NEW a \in Sectors, In(a, blk)
            PROVE  data[a] = op.value
        <5>1. a \in Nat
          BY BlockTableAssumption DEF Sectors
        <5>2. a < blk.start + pos
          BY <1>1, <1>2, <4>2, <4>4, <5>1 DEF In
        <5>3. QED
          BY <1>1, <4>4, <5>2 DEF InOrder, FilesInOrder, Filled
      <4>5. wrote'[j] = op.value
        BY <1>4, <3>2, <4>2
      <4>6. QED
        BY <1>1, <2>1, <4>3, <4>4, <4>5 DEF StoredAt, In
    <3>3. CASE ~(ftable[j].size > 0)
      BY <1>1, <3>3 DEF StoredAt
    <3>4. QED
      BY <3>1, <3>2, <3>3
  <2>5. QED
    BY <2>3, <2>4
<1>6. Blocks'
  BY <1>1, <1>3, <1>5 DEF Blocks, InOrder, FilesInOrder
<1>7. FileTypes'
  BY <1>1, <1>4, NoOpType, TypeFacts, FileFacts DEF FileTypes, InOrder, FilesInOrder
<1>8. Stages'
  BY <1>1 DEF Stages, NoOp
<1>9. Given' /\ Filled'
  BY <1>1 DEF Given, Filled
<1>10. Kept'
  BY <1>1, <1>3 DEF Kept, InOrder, FilesInOrder
<1>11. QED
  BY <1>5, <1>6, <1>7, <1>8, <1>9, <1>10 DEF FilesInOrder, Stored

-----------------------------------------------------------------------------
(* The invariant.                                                          *)

LEMMA FileInit == FInit => InOrder
<1> SUFFICES ASSUME FInit PROVE InOrder
  OBVIOUS
<1>1. Typed /\ TableSound
  BY TypeInit, SoundInit DEF FInit
<1>2. /\ ftable = [i \in Slots |-> NULL_FILE] /\ data = [a \in Sectors |-> JUNK]
      /\ fpc = "idle" /\ op = NoOp /\ blk = NULL_BLKENTRY /\ pos = 0
      /\ wrote = [i \in Slots |-> JUNK] /\ ffaults = {} /\ pc = "idle" /\ faults = {}
  BY DEF FInit, Init
<1>3. Files = {} /\ Settled = {}
  BY <1>2 DEF Files, Settled
<1>4. /\ 1 \in Index /\ 0 \in Index /\ table[1].state = "USED"
      /\ \A k \in Index \ {1} : table[k].state = "FREE"
  <2>1. 1 \in Index /\ 0 \in Index
    BY BlockTableAssumption DEF Index
  <2>2. /\ table[1] = [start |-> DATA_START, count |-> FILE_SECTORS, state |-> "USED"]
        /\ table[0].state = "FREE"
        /\ \A k \in Index \ {0, 1} : table[k] = NULL_BLKENTRY
    BY <2>1 DEF FInit, Init
  <2>3. QED
    BY <2>1, <2>2 DEF NULL_BLKENTRY
<1>5. FileTypes
  <2>1. Blank \in Field
    BY DEF Blank, Field, Char
  <2>2. NULL_FILE \in FileEntry
    BY <1>4, <2>1 DEF NULL_FILE, FileEntry, Lens
  <2>3. blk \in Entry
    BY <1>1, <1>2, TypeFacts DEF Typed
  <2>4. QED
    BY <1>2, <2>2, <2>3, NoOpType DEF FileTypes
<1>6. Stages
  BY <1>2 DEF Stages, NoOp
<1>7. Blocks
  BY <1>3, <1>4 DEF Blocks
<1>8. Given /\ Stored /\ Filled
  BY <1>2, <1>3 DEF Given, Stored, Filled
<1>9. Kept
  BY <1>4 DEF Kept
<1>10. QED
  BY <1>1, <1>5, <1>6, <1>7, <1>8, <1>9 DEF InOrder, FilesInOrder

\* As far as the block table goes, a file operation does what a caller of the table does: no
\* operation frees the mass entry or the block of the file table.
LEMMA TableSteps ==
  ASSUME InOrder, Sound, [FNext]_allVars
  PROVE  [Next]_vars
<1>1. ASSUME NEW o \in Operation, NEW place, AllocateFor(o, place)
      PROVE  [Next]_vars
  <2>1. o.len # 0 => o.len \in Sizes
    BY DEF Operation, Lens
  <2>2. QED
    BY <1>1, <2>1 DEF AllocateFor, Next
<1>2. ASSUME NEW n \in Name, NEW len \in Lens, NEW v \in Value, StartNew(n, len, v)
      PROVE  [Next]_vars
  <2> DEFINE o == [NoOp EXCEPT !.kind = "new", !.name = n, !.len = len, !.value = v]
  <2>1. o \in Operation
    BY NoOpType DEF NoOp, Operation
  <2>2. AllocateFor(o, "alloc")
    BY <1>2 DEF StartNew
  <2> HIDE DEF o
  <2>3. QED
    BY <1>1, <2>1, <2>2
<1>3. ASSUME NEW n \in Name, NEW m \in Name, StartCopy(n, m)
      PROVE  [Next]_vars
  <2>1. PICK i \in ByName(m) :
          AllocateFor([NoOp EXCEPT !.kind = "copy", !.name = n, !.slot = i,
                                   !.len = ftable[i].size], "alloc")
    BY <1>3 DEF StartCopy
  <2> DEFINE o == [NoOp EXCEPT !.kind = "copy", !.name = n, !.slot = i, !.len = ftable[i].size]
  <2>2. i \in Slots /\ ftable[i].size \in Lens
    BY FileFacts DEF ByName, Least
  <2>3. o \in Operation
    BY <2>2, NoOpType DEF NoOp, Operation
  <2>4. AllocateFor(o, "alloc")
    BY <2>1
  <2> HIDE DEF o
  <2>5. QED
    BY <1>1, <2>3, <2>4
<1>4. CASE Reallocate
  BY <1>1, <1>4 DEF Reallocate, InOrder, FilesInOrder, FileTypes
<1>5. ASSUME NEW i \in Files, AtIndex(ftable[i].blk_index).start # 0, Free(ftable[i].blk_index)
      PROVE  [Next]_vars
  <2>1. ftable[i].size # 0
    BY <1>5, FileFacts DEF BlockOf, NULL_BLKENTRY
  <2>2. ftable[i].blk_index \in Index \ {0, 1}
    BY <2>1, FileFacts
  <2>3. QED
    BY <1>5, <2>2 DEF Next
<1>6. ASSUME NEW n \in Name, NEW len \in Lens, NEW v \in Value, StartOverwrite(n, len, v)
      PROVE  [Next]_vars
  <2>1. PICK i \in ByName(n) : FreeBlock(ftable[i].blk_index)
    BY <1>6 DEF StartOverwrite
  <2>2. i \in Files
    BY DEF ByName, Least
  <2>3. QED
    BY <1>5, <2>1, <2>2 DEF FreeBlock
<1>7. ASSUME NEW n \in Name, StartDelete(n)
      PROVE  [Next]_vars
  <2>1. PICK i \in ByName(n) : /\ AtIndex(ftable[i].blk_index).start # 0
                               /\ Free(ftable[i].blk_index)
    BY <1>7 DEF StartDelete
  <2>2. i \in Files
    BY DEF ByName, Least
  <2>3. QED
    BY <1>5, <2>1, <2>2
<1>8. CASE BlockStep
  BY <1>8 DEF BlockStep, Next
<1>9. CASE FCrash
  BY <1>9 DEF FCrash, Next
<1>10. CASE Prepare \/ Enter \/ WriteSector \/ WriteEnds \/ Update \/ DeleteEntry
  BY <1>10 DEF Prepare, Enter, WriteSector, WriteEnds, Update, DeleteEntry
<1>11. ASSUME NEW n \in Name, NEW m \in Name, Rename(n, m)
       PROVE  [Next]_vars
  BY <1>11 DEF Rename
<1>12. CASE UNCHANGED allVars
  BY <1>12 DEF allVars
<1>13. QED
  BY <1>2, <1>3, <1>4, <1>6, <1>7, <1>8, <1>9, <1>10, <1>11, <1>12 DEF FNext

LEMMA FileStep == FileInv /\ [FNext]_allVars => FileInv'
<1> SUFFICES ASSUME FileInv, [FNext]_allVars, Sound' PROVE InOrder'
  BY DEF FileInv
<1>1. Sound /\ Undamaged' /\ InOrder
  BY SoundStays DEF FileInv
<1>2. [Next]_vars
  BY <1>1, TableSteps
<1>3. Typed' /\ TableSound'
  BY <1>1, <1>2, TypeNext, SoundNext DEF InOrder
<1>4. FilesInOrder'
  <2>1. CASE BlockStep
    BY <1>1, <2>1, BlockFilesStep
  <2>2. CASE \E n \in Name, len \in Lens, v \in Value : StartNew(n, len, v)
    BY <1>1, <2>2, StartNewStep
  <2>3. CASE \E n \in Name, len \in Lens, v \in Value : StartOverwrite(n, len, v)
    BY <1>1, <2>3, StartOverwriteStep
  <2>4. CASE \E n, m \in Name : StartCopy(n, m)
    BY <1>1, <2>4, StartCopyStep
  <2>5. CASE \E n, m \in Name : Rename(n, m)
    BY <1>1, <2>5, RenameStep
  <2>6. CASE Prepare
    BY <1>1, <2>6, PrepareStep
  <2>7. CASE Enter
    BY <1>1, <2>7, EnterStep
  <2>8. CASE WriteSector
    BY <1>1, <2>8, WriteSectorStep
  <2>9. CASE WriteEnds
    BY <1>1, <2>9, WriteEndsStep
  <2>10. CASE Reallocate
    BY <1>1, <2>10, ReallocateStep
  <2>11. CASE Update
    BY <1>1, <2>11, UpdateStep
  <2>12. CASE \E n \in Name : StartDelete(n)
    BY <1>1, <2>12, StartDeleteStep
  <2>13. CASE DeleteEntry
    BY <1>1, <2>13, DeleteEntryStep
  <2>14. CASE FCrash
    BY <1>1, <2>14, FCrashStep
  <2>15. CASE UNCHANGED allVars
    BY <1>1, <2>15 DEF allVars, vars, fvars, InOrder, FilesInOrder, FileTypes, Stages, Blocks,
       Given, Stored, Filled, Kept, Settled, Between, Files, HasBlock, StoredAt, BlockOf, AtIndex
  <2>16. QED
    BY <2>1, <2>2, <2>3, <2>4, <2>5, <2>6, <2>7, <2>8, <2>9, <2>10, <2>11, <2>12, <2>13, <2>14,
       <2>15 DEF FNext
<1>5. QED
  BY <1>3, <1>4 DEF InOrder

LEMMA FilesStayInOrder == FSpec => []FileInv
<1>1. FInit => FileInv
  BY FileInit DEF FileInv
<1>2. QED
  BY <1>1, FileStep, PTL DEF FSpec

-----------------------------------------------------------------------------
(* The properties of the runs.                                             *)

\* A file's index names a held block of the file's size that no other file has, through every
\* sequence of writes, copies, deletions, merges of the block table and harmless crashes.
THEOREM FilesOwnBlocks == FSpec => []OwnBlock
<1>1. FileInv => OwnBlock
  <2> SUFFICES ASSUME InOrder, Sound, NEW i \in Settled
               PROVE  /\ ftable[i].size = 0 => ftable[i].blk_index = NONE
                      /\ ftable[i].size > 0 => /\ BlockOf(i).state = "USED"
                                               /\ BlockOf(i).count = ftable[i].size
                      /\ \A j \in Settled :
                           (i # j /\ ftable[i].size > 0) =>
                             ftable[i].blk_index # ftable[j].blk_index
    BY DEF FileInv, OwnBlock, Settled
  <2>1. i \in Files /\ Settled \subseteq Files
    BY FileFacts
  <2>2. QED
    BY <2>1, FileFacts, FileBlock
<1>2. QED
  BY <1>1, FilesStayInOrder, PTL

\* Reading a file gives what was last written to it in full, whatever was done to other files
\* since.
THEOREM FilesReadBack == FSpec => []ReadsBack
<1>1. FileInv => ReadsBack
  <2> SUFFICES ASSUME InOrder, Sound, NEW i \in Settled, ftable[i].size > 0, wrote[i] # TORN
               PROVE  ReadData(i) = [k \in 0 .. ftable[i].size - 1 |-> wrote[i]]
    BY DEF FileInv, ReadsBack, Settled
  <2> DEFINE b == BlockOf(i)
  <2>1. /\ b.count = ftable[i].size /\ b.start \in Nat
        /\ DATA_START =< b.start /\ b.start + b.count =< DISK_END
    BY FileBlock
  <2>2. b.count \in Nat
    BY <2>1, FileFacts
  <2>3. \A a \in Sectors : In(a, b) => data[a] = wrote[i]
    BY DEF InOrder, FilesInOrder, Stored, StoredAt
  <2> HIDE DEF b
  <2>4. ASSUME NEW k \in 0 .. b.count - 1
        PROVE  data[b.start + k] = wrote[i]
    <3>1. b.start + k \in Sectors /\ In(b.start + k, b)
      BY <2>1, <2>2, BlockTableAssumption DEF Sectors, In
    <3>2. QED
      BY <2>3, <3>1
  <2>5. [k \in 0 .. b.count - 1 |-> data[b.start + k]] = [k \in 0 .. b.count - 1 |-> wrote[i]]
    BY <2>4
  <2>6. QED
    BY <2>1, <2>5 DEF ReadData, b
<1>2. QED
  BY <1>1, FilesStayInOrder, PTL

\* Every held block is a file's, the file table's or that of the operation that runs: no
\* sequence of operations loses disk space, unless a table was full or the machine stopped in
\* the middle of one.
THEOREM NoBlockLeaks == FSpec => []NoLeak
<1>1. FileInv => NoLeak
  <2> SUFFICES ASSUME FileInv, faults = {}, ffaults = {}, NEW k \in Index \ {1},
                      table[k].state = "USED"
               PROVE  table[k] = blk \/ \E i \in Files : ftable[i].blk_index = k
    BY DEF NoLeak
  <2>1. Sound /\ InOrder
    BY DEF FileInv, Sound, Undamaged
  <2>2. QED
    BY <2>1 DEF InOrder, FilesInOrder, Kept, Settled
<1>2. QED
  BY <1>1, FilesStayInOrder, PTL
=============================================================================
