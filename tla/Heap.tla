-------------------------------- MODULE Heap --------------------------------
(***************************************************************************)
(* The kernel heap, src/kernel/system/memmgr.c: a table of entries that    *)
(* describe consecutive blocks of one data region.  Entry 0, the "mass"    *)
(* entry, is the never-yet-used top of the region; an allocation reuses    *)
(* the first FREE block of exactly its size or carves the mass entry.      *)
(*                                                                         *)
(* mm_free ends in mm_merge_nearest, a loop over the table: `scan` is its  *)
(* loop variable, and no other operation starts while it runs (the heap is *)
(* entered by one context at a time here).                                 *)
(*                                                                         *)
(* Three events of the code destroy the table.  The history variable       *)
(* `faults` records them and no action reads it; the properties say that   *)
(* nothing else can corrupt the heap.                                      *)
(***************************************************************************)
EXTENDS Integers, FiniteSets, FiniteSetsExt

CONSTANTS
  COUNT_MAX,  \* mm_info.count_max, the entries of the table
  MEM_ALIGN,  \* the page size an allocation is rounded up to
  UINT,       \* 2^32: pointers and sizes are uint32_t
  DATA_BASE,  \* mm_info.data_base
  DATA_END,   \* mm_info.data_end = mm_usable_end
  Sizes       \* the request sizes callers pass to malloc; rounding one up does not wrap

ASSUME HeapAssumption ==
  /\ COUNT_MAX \in Nat \ {0}
  /\ MEM_ALIGN \in Nat \ {0}
  /\ UINT \in Nat
  /\ DATA_BASE \in Nat \ {0}
  /\ DATA_END \in Nat
  /\ DATA_BASE < DATA_END
  /\ DATA_END < UINT
  /\ Sizes \subseteq 1 .. UINT - MEM_ALIGN

VARIABLES
  table,      \* mm_table
  data_used,  \* mm_info.data_used
  scan,       \* i of the loop in mm_merge_nearest, Idle outside mm_free
  halted,     \* a panic has stopped the machine
  faults      \* history: the corrupting events so far

vars == <<table, data_used, scan, halted, faults>>

Index == 0 .. COUNT_MAX - 1
Idle  == -1
Fault == {"mass_exhausted", "mass_used", "false_merge"}

\* The element a loop over the table that stops at its first match stops at.
Least(S) == {i \in S : \A j \in S : i =< j}

Wrap(x) == x % UINT
Align(v) == Wrap(v + ((-v) % MEM_ALIGN))    \* mm_align

EMPTY == [ptr |-> 0, size |-> 0, bytes |-> 0, state |-> "FREE"]
Mass  == table[0]

AmountFree == Wrap(DATA_END - DATA_BASE - data_used)   \* mm_amount_free
ValidPtr(p) == DATA_BASE =< p /\ p < DATA_END          \* mm_validate_ptr
ValidEntry(e) == ValidPtr(e.ptr) /\ e.size # 0         \* mm_validate_entry, err set

(***************************************************************************)
(* mm_init: the mass entry covers the whole data region.                   *)
(***************************************************************************)
Init ==
  /\ table = [i \in Index |->
                IF i = 0 THEN [ptr   |-> DATA_BASE, size  |-> DATA_END - DATA_BASE,
                               bytes |-> Align(DATA_END - DATA_BASE), state |-> "FREE"]
                         ELSE EMPTY]
  /\ data_used = 0
  /\ scan = Idle
  /\ halted = FALSE
  /\ faults = {}

-----------------------------------------------------------------------------
(* mm_allocate.  The memory manager is told apart only by FREE and not     *)
(* FREE: the MEMSTATE_ tag of the caller is one value here, USED.          *)

ExactFits(size) ==
  {i \in Index : table[i].size = Align(size) /\ table[i].state = "FREE"}

\* mm_allocate_entry: more than is free in total is a panic.
AllocateTooLarge(size) ==
  /\ size >= AmountFree
  /\ halted' = TRUE
  /\ UNCHANGED <<table, data_used, scan, faults>>

\* mm_allocate_entry: the first FREE block of exactly the aligned size, which may be
\* the mass entry itself; mm_allocate then validates it and counts it.
AllocateExact(size) ==
  /\ size < AmountFree
  /\ \E i \in Least(ExactFits(size)) :
       /\ table' = [table EXCEPT ![i].state = "USED", ![i].bytes = size]
       /\ halted' = ~ValidEntry(table[i])
       /\ data_used' = IF ValidEntry(table[i]) THEN Wrap(data_used + table[i].size)
                                               ELSE data_used
  /\ UNCHANGED <<scan, faults>>

FreeIndexes(t) == {i \in Index : t[i] = EMPTY}         \* mm_free_index takes the least

\* mm_allocate_entry: otherwise the mass entry is carved, whatever is left of it and
\* whatever its state, and the lowest empty entry describes the block.
AllocateCarve(size) ==
  /\ size < AmountFree
  /\ ExactFits(size) = {}
  /\ LET a      == Align(size)
         mass   == [ptr   |-> Wrap(Mass.ptr + a),      size  |-> Wrap(Mass.size - a),
                    bytes |-> Wrap(Mass.bytes - size), state |-> "FREE"]
         carved == [table EXCEPT ![0] = mass]
         block  == [ptr |-> Wrap(mass.ptr - a), size |-> a, bytes |-> size, state |-> "USED"]
     IN  /\ \/ /\ FreeIndexes(carved) = {}
               /\ table' = carved
               /\ halted' = TRUE
            \/ \E i \in Least(FreeIndexes(carved)) :
                 /\ table' = [carved EXCEPT ![i] = block]
                 /\ halted' = ~ValidEntry(block)
         /\ data_used' = IF halted' THEN data_used ELSE Wrap(data_used + a)
         /\ faults' = faults
              \cup (IF Mass.size < a THEN {"mass_exhausted"} ELSE {})
              \cup (IF Mass.state = "USED" THEN {"mass_used"} ELSE {})
  /\ UNCHANGED scan

Allocate(size) ==
  /\ ~halted /\ scan = Idle
  /\ AllocateTooLarge(size) \/ AllocateExact(size) \/ AllocateCarve(size)

-----------------------------------------------------------------------------
(* mm_free.  A pointer that no USED entry has (never allocated, or freed   *)
(* before) changes nothing.                                                *)

HoldingAny(p) == {i \in Index : table[i].size # 0 /\ table[i].ptr = p}   \* no state check

Holding(p) == {i \in Index : table[i].size # 0 /\ table[i].state = "USED" /\ table[i].ptr = p}

Free(p) ==
  /\ ~halted /\ scan = Idle
  /\ \E i \in Least(Holding(p)) :
       /\ table' = [table EXCEPT ![i].state = "FREE"]
       /\ data_used' = Wrap(data_used - table[i].size)
  /\ scan' = 0
  /\ UNCHANGED <<halted, faults>>

NearestAnyState(i) ==                 \* Nearest without the check that the block is FREE
  {j \in Index \ {i} :
     /\ table[j].ptr > 0 /\ table[j].size > 0
     /\ \/ Wrap(table[j].ptr + table[j].size) = table[i].ptr
        \/ Wrap(table[i].ptr - table[i].size) = table[j].ptr}

\* mm_get_nearest: the FREE entries that end where entry i starts, or that start one
\* size of entry i below it; the function returns the one of least index.
Nearest(i) ==
  {j \in Index \ {i} :
     /\ table[j].ptr > 0 /\ table[j].size > 0 /\ table[j].state = "FREE"
     /\ \/ Wrap(table[j].ptr + table[j].size) = table[i].ptr
        \/ Wrap(table[i].ptr - table[i].size) = table[j].ptr}

\* The entries for which the loop body of mm_merge_nearest does something.
Mergeable ==
  {i \in Index \ {0} :
     /\ i >= scan /\ ValidPtr(table[i].ptr) /\ table[i].state = "FREE"
     /\ Nearest(i) # {} /\ 0 \notin Nearest(i)}

NotDeleted(t, e) == {t}               \* a merge that forgets mm_delete_entry

\* mm_delete_entry on entry e of table t clears the first entry equal to e in every
\* field; when e is not valid it panics instead, which its callers here record.
Deleted(t, e) ==
  IF ValidEntry(e) THEN {[t EXCEPT ![k] = EMPTY] : k \in Least({j \in Index : t[j] = e})}
                   ELSE {t}

\* Entry i grown by the block of entry n.
Merged(i, n) ==
  LET size == Wrap(table[i].size + table[n].size)
  IN  [ptr  |-> IF table[i].ptr > table[n].ptr THEN table[n].ptr ELSE table[i].ptr,
       size |-> size, bytes |-> size, state |-> "FREE"]

MergeWith(i, n) ==
  /\ table' \in Deleted([table EXCEPT ![i] = Merged(i, n)], table[n])
  /\ halted' = ~ValidEntry(table[n])
  /\ faults' = IF table[n].ptr + table[n].size = table[i].ptr
                 THEN faults ELSE faults \cup {"false_merge"}
  /\ scan' = i + 1

\* One iteration of the first loop of mm_merge_nearest (iterations that do nothing are
\* skipped): entry i absorbs the nearest one, which is deleted.
MergeStep ==
  /\ ~halted /\ scan # Idle
  /\ \E i \in Least(Mergeable) : \E n \in Least(Nearest(i)) : MergeWith(i, n)
  /\ UNCHANGED data_used

BelowMass ==
  {i \in Index : /\ ValidPtr(table[i].ptr) /\ table[i].state = "FREE"
                 /\ Wrap(table[i].ptr + table[i].size) = Mass.ptr}

FoldedNoGrow(i) == [ptr   |-> table[i].ptr, size  |-> Mass.size,   \* size not added
                    bytes |-> 0,            state |-> "FREE"]

\* The mass entry grown by the block of entry i.
Folded(i) == [ptr   |-> table[i].ptr, size  |-> Wrap(Mass.size + table[i].size),
              bytes |-> 0,            state |-> "FREE"]

FoldBlock(i) ==
  LET t == [table EXCEPT ![0] = Folded(i)]
  IN  /\ halted' = ~ValidEntry(t[i])
      /\ \E u \in Deleted(t, t[i]) :
           table' = IF halted' THEN u ELSE [u EXCEPT ![0].bytes = u[0].size]

\* The rest of mm_merge_nearest: the first FREE block that ends at the mass entry is
\* folded into it.
FoldIntoMass ==
  /\ ~halted /\ scan # Idle
  /\ Mergeable = {}
  /\ \E i \in Least(BelowMass) : FoldBlock(i)
  /\ faults' = IF Mass.state = "USED" THEN faults \cup {"mass_used"} ELSE faults
  /\ scan' = Idle
  /\ UNCHANGED data_used

NothingToFold ==
  /\ ~halted /\ scan # Idle
  /\ Mergeable = {}
  /\ BelowMass = {}
  /\ table' = [table EXCEPT ![0].bytes = Mass.size]
  /\ scan' = Idle
  /\ UNCHANGED <<data_used, halted, faults>>

Next ==
  \/ \E size \in Sizes : Allocate(size)
  \/ \E p \in DATA_BASE .. DATA_END - 1 : Free(p)
  \/ MergeStep
  \/ FoldIntoMass
  \/ NothingToFold

Spec == Init /\ [][Next]_vars

\* The executions in which no corrupting event happens.
SafeSpec == Init /\ [][Next /\ faults' = {}]_vars

-----------------------------------------------------------------------------
UInt  == 0 .. UINT - 1
Entry == [ptr : UInt, size : UInt, bytes : UInt, state : {"FREE", "USED"}]

\* Every field keeps to its C type, through every wrap-around.
TypeOK ==
  /\ table \in [Index -> Entry]
  /\ data_used \in UInt
  /\ scan \in Index \cup {Idle, COUNT_MAX}
  /\ halted \in BOOLEAN
  /\ faults \subseteq Fault

\* The machine runs and nothing has corrupted the table.
Intact == ~halted /\ faults = {}

Covers(i, a) == table[i].ptr =< a /\ a < table[i].ptr + table[i].size

\* No address of the data region is described by two entries: two callers never hold
\* the same byte, and a free block never overlaps a held one (mm_allocate_entry,
\* mm_merge_nearest), unless one of the three corrupting events has happened.
NoOverlap ==
  Intact =>
    \A i, j \in Index : i # j =>
      \A a \in DATA_BASE .. DATA_END - 1 : ~(Covers(i, a) /\ Covers(j, a))

\* Carving, merging and deleting entries loses no memory: every address of the region
\* is described by some entry, unless one of the three corrupting events has happened.
NothingLost ==
  Intact => \A a \in DATA_BASE .. DATA_END - 1 : \E i \in Index : Covers(i, a)

\* data_used, which mm_allocate_entry decides by, is the sum of the blocks held, also in
\* the middle of a merge, until a panic or the loss of a held mass entry.
Accounting ==
  (~halted /\ "mass_used" \notin faults) =>
    data_used = Wrap(MapThenSumSet(LAMBDA i : table[i].size,
                                   {i \in Index : table[i].state = "USED"}))

\* The strengthening that makes NoOverlap and NothingLost inductive: the mass entry is
\* the top of the region, and every other entry is empty or a block of the region.
Apart(e, f) == e.ptr + e.size =< f.ptr \/ f.ptr + f.size =< e.ptr

Shape ==
  Intact =>
    /\ DATA_BASE =< Mass.ptr /\ Mass.ptr + Mass.size = DATA_END
    /\ \A i \in Index \ {0} :
         \/ table[i] = EMPTY
         \/ /\ DATA_BASE =< table[i].ptr /\ table[i].ptr + table[i].size =< DATA_END
            /\ table[i].size > 0 /\ table[i].bytes > 0
    /\ \A i, j \in Index :
         (i # j /\ table[i].size > 0 /\ table[j].size > 0) => Apart(table[i], table[j])
    /\ \A a \in DATA_BASE .. DATA_END - 1 : \E i \in Index : Covers(i, a)

\* The blocks callers hold, as the abstract allocator sees them.
Held == {[ptr |-> table[i].ptr, size |-> table[i].size] :
           i \in {k \in Index : table[k].state = "USED"}}

A == INSTANCE Allocator WITH live <- Held

\* The table keeps the abstract allocator's promise until the first corrupting event: a
\* block is granted only from memory nobody holds, and a held block is not moved, resized
\* or taken away by any allocation; mm_free gives up the block it is called for, and the
\* merge that follows, while scan runs, no other one.
AllocatorPromise ==
  [][faults' = {} => (A!Next /\ scan = Idle) \/ Held' = Held]_vars

\* The same as a refinement, for the executions without corrupting events.
Refinement == A!Spec

=============================================================================
