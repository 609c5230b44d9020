---------------------------- MODULE HeapPreempted ----------------------------
(***************************************************************************)
(* The heap of Heap.tla when a call of mm_allocate or mm_free is           *)
(* interrupted: the timer's handler frees the stack and the thread_t of a  *)
(* thread it reaps (taskmgr_schedule), and a thread it switches to calls   *)
(* the heap itself; memmgr.c takes no lock and does not turn interrupts    *)
(* off.                                                                    *)
(*                                                                         *)
(* One call, the slow one, is cut at every load from and every store to    *)
(* mm_table and mm_info.data_used (the kernel is compiled without          *)
(* optimisation: x += y loads x, then y, and stores).  Any number of whole *)
(* calls, which are the actions of Heap.tla, come between its steps.  A    *)
(* second slow call inside the first is left out, and so are the loads     *)
(* nothing depends on: those of mm_validate_entry with err FALSE, and of   *)
(* the mm_get_nearest between the two loops of mm_merge_nearest.           *)
(*                                                                         *)
(* Four histories are read by no guard of a call.  `before` and `seen` are *)
(* the two entries the slow call changes, as they were when it decided to  *)
(* and as it has left them.  `races` records each use of what a whole call *)
(* has made untrue, a decision acted on or a value stored; `interrupted`,  *)
(* whether there was one.  Only Followed, the bound of what is explored,   *)
(* reads races.                                                            *)
(***************************************************************************)
EXTENDS Heap

CONSTANTS LOW, THREE   \* 2^16 and 2^24: memset clears the pointer of an entry in three
                       \* stores, its two lower bytes, the third and the fourth

ASSUME PiecesAssumption == LOW \in Nat \ {0} /\ THREE \in Nat \ {0}

VARIABLES
  pc,      \* the load or store the slow call comes to next, "out" when there is none
  arg,     \* the size it was asked for, or the pointer it frees
  at,      \* the entry of its loop over the table, then the one it works on
  near,    \* i of mm_get_nearest and of the second loop, then the entry it deletes
  del,     \* i of mm_delete_entry
  reg,     \* what it has loaded, or computed from what it has loaded
  before, seen, races, interrupted     \* histories

slowVars == <<pc, arg, at, near, del, reg, before, seen, races, interrupted>>
preemptedVars == <<vars, slowVars>>

\* What of an entry says which memory it describes and whether that is held.
View(e) == [ptr |-> e.ptr, size |-> e.size, state |-> e.state]
Nothing == <<View(EMPTY), View(EMPTY)>>

PInit ==
  /\ Init
  /\ pc = "out" /\ arg = 0 /\ at = 0 /\ near = 0 /\ del = 0 /\ reg = 0
  /\ before = Nothing /\ seen = Nothing /\ races = {} /\ interrupted = FALSE

\* The block only the slow call knows of: its owner is giving it up, or it is not handed
\* out yet.
Finding == {"find", "findState", "findPtr", "release"}
Giving  == {"takeBytes", "createAsked", "check", "checkSize", "checkAgain", "stamp", "count",
            "countSize", "countStore", "give"}
InHand  == IF pc \in Finding THEN {arg} ELSE IF pc \in Giving THEN {table[at].ptr} ELSE {}

\* The handler or the other thread runs one call from its first to its last step.
Whole ==
  /\ \/ \E size \in Sizes : Allocate(size)
     \/ \E p \in (DATA_BASE .. DATA_END - 1) \ InHand : Free(p)
     \/ MergeStep \/ FoldIntoMass \/ NothingToFold
  /\ interrupted' = (interrupted \/ pc # "out")
  /\ UNCHANGED <<pc, arg, at, near, del, reg, before, seen, races>>

-----------------------------------------------------------------------------
(* The kinds of steps.                                                     *)

Slow(place) == ~halted /\ scan = Idle /\ pc = place
Raced(name, condition) == races' = IF condition THEN races \cup {name} ELSE races

\* Where it goes on: in the same iteration of its loop, or with the next one.
Go(place) == pc' = place /\ UNCHANGED <<at, near, del>>
Following(i) == IF i + 1 = COUNT_MAX THEN 0 ELSE i + 1

NextAt(again, done) ==
  /\ at' = Following(at) /\ near' = 0 /\ del' = 0
  /\ pc' = IF at' = 0 THEN done ELSE again

NextNear(again, done) ==
  /\ near' = Following(near)
  /\ IF near' = 0 THEN done ELSE pc' = again /\ UNCHANGED <<at, del>>

NextDel(again, done) ==
  /\ del' = Following(del) /\ UNCHANGED <<at, near>>
  /\ pc' = IF del' = 0 THEN done ELSE again

Load(place, value, next) ==
  /\ Slow(place) /\ reg' = value /\ Go(next)
  /\ UNCHANGED <<vars, arg, before, seen, races, interrupted>>

\* A load that decides where to go on.
Test(place, holds, yes, no) ==
  /\ Slow(place) /\ reg' = 0
  /\ IF holds THEN yes ELSE no
  /\ UNCHANGED <<vars, arg, before, seen, races, interrupted>>

Store(place, t, next) ==
  /\ Slow(place) /\ table' = t /\ reg' = 0 /\ Go(next)
  /\ UNCHANGED <<data_used, scan, halted, arg, interrupted>>

\* A store that does no harm whatever has changed,
Write(place, t, next) == Store(place, t, next) /\ UNCHANGED <<faults, before, seen, races>>

\* and one that does when `stale` holds; it leaves the two entries as `now` says.
Change(place, t, next, name, stale, now) ==
  /\ Store(place, t, next) /\ Raced(name, stale) /\ seen' = now
  /\ UNCHANGED <<faults, before>>

\* mm_validate_entry, mm_create_entry and mm_delete_entry stop the machine.
Panic ==
  /\ Slow("panic") /\ halted' = TRUE
  /\ UNCHANGED <<table, data_used, scan, faults, slowVars>>

-----------------------------------------------------------------------------
(* mm_allocate.                                                            *)

Asked(size) ==
  /\ Slow("out")
  /\ arg' = size
  /\ halted' = (size >= AmountFree)
  /\ Go(IF halted' THEN "out" ELSE "search")
  /\ interrupted' = FALSE
  /\ UNCHANGED <<table, data_used, scan, faults, reg, before, seen, races>>

Fits(e) == e.size = Align(arg) /\ e.state = "FREE"

\* mm_allocate_entry: the first block that fits is taken.
SearchAnyState == Test("search", table[at].size = Align(arg), Go("take"), NextAt("search", "carve"))

Search ==
  \/ Test("search", table[at].size = Align(arg), Go("searchState"), NextAt("search", "carve"))
  \/ Test("searchState", table[at].state = "FREE", Go("take"), NextAt("search", "carve"))

Take ==
  \/ Change("take", [table EXCEPT ![at].state = "USED"], "takeBytes", "found", ~Fits(table[at]), seen)
  \/ Write("takeBytes", [table EXCEPT ![at].bytes = arg], "check")

\* Otherwise the mass entry is carved; AllocateCarve's events are recorded where it begins
\* to change.
CarvePtr ==
  /\ Store("carvePtr", [table EXCEPT ![0].ptr = Wrap(reg + Align(arg))], "carveSize")
  /\ before' = <<View(Mass), View(EMPTY)>>
  /\ seen' = <<View(table'[0]), View(EMPTY)>>
  /\ Raced("mass", reg # Mass.ptr)
  /\ faults' = faults \cup (IF Mass.size < Align(arg) THEN {"mass_exhausted"} ELSE {})
                      \cup (IF Mass.state = "USED" THEN {"mass_used"} ELSE {})

\* Once its size is stored, somebody may take it as it is.
Carve ==
  \/ Load("carve", Mass.ptr, "carvePtr") \/ CarvePtr
  \/ Load("carveSize", Mass.size, "carveSizeStore")
  \/ Change("carveSizeStore", [table EXCEPT ![0].size = Wrap(reg - Align(arg))], "carveBytes",
            "mass", View(Mass) # seen[1] \/ reg # seen[1].size, <<View(table'[0]), seen[2]>>)
  \/ Load("carveBytes", Mass.bytes, "carveBytesStore")
  \/ Write("carveBytesStore", [table EXCEPT ![0].bytes = Wrap(reg - arg)], "carveState")
  \/ Change("carveState", [table EXCEPT ![0].state = "FREE"], "address",
            "mass", Mass.state # "FREE", seen)

\* The block's address is taken from the mass entry once more.
Address ==
  /\ Slow("address")
  /\ reg' = Wrap(Mass.ptr - Align(arg))
  /\ Raced("mass", reg' # before[1].ptr)
  /\ Go("slot")
  /\ UNCHANGED <<vars, arg, before, seen, interrupted>>

\* mm_free_index; the address stays on the stack meanwhile.
Null(place, holds, yes) ==
  /\ Slow(place)
  /\ IF holds THEN Go(yes) ELSE NextAt("slot", "panic")
  /\ UNCHANGED <<vars, arg, reg, before, seen, races, interrupted>>

FreeIndex ==
  \/ Null("slot", table[at].ptr = 0, "slotSize")
  \/ Null("slotSize", table[at].size = 0, "slotBytes")
  \/ Null("slotBytes", table[at].bytes = 0, "slotState")
  \/ Null("slotState", table[at].state = "FREE", "createPtr")

\* mm_create_entry: the entry is FREE until its state is stored, which ends the change.
CreateState ==
  /\ Store("createState", [table EXCEPT ![at].state = "USED"], "createAsked")
  /\ Raced("slot", View(table[at]) # seen[2])
  /\ before' = Nothing /\ seen' = Nothing
  /\ UNCHANGED faults

Create ==
  \/ Change("createPtr", [table EXCEPT ![at].ptr = reg], "createSize",
            "slot", View(table[at]) # seen[2], <<seen[1], View(table'[at])>>)
  \/ Change("createSize", [table EXCEPT ![at].size = Align(arg)], "createBytes",
            "slot", View(table[at]) # seen[2], <<seen[1], View(table'[at])>>)
  \/ Write("createBytes", [table EXCEPT ![at].bytes = Align(Align(arg))], "createState")
  \/ CreateState
  \/ Write("createAsked", [table EXCEPT ![at].bytes = arg], "check")

\* The rest of mm_allocate: the checks of mm_validate_entry, which tests the size twice, the
\* state once more, the sum and the return.
CountStore ==
  /\ Slow("countStore")
  /\ data_used' = reg
  /\ Raced("count", reg # Wrap(data_used + table[at].size))
  /\ reg' = 0 /\ Go("give")
  /\ UNCHANGED <<table, scan, halted, faults, arg, before, seen, interrupted>>

Give ==
  /\ Slow("give")
  /\ pc' = "out" /\ arg' = 0 /\ at' = 0
  /\ UNCHANGED <<vars, near, del, reg, before, seen, races, interrupted>>

Finish ==
  \/ Test("check", ValidPtr(table[at].ptr), Go("checkSize"), Go("panic"))
  \/ Test("checkSize", table[at].size # 0, Go("checkAgain"), Go("panic"))
  \/ Test("checkAgain", table[at].size # 0, Go("stamp"), Go("panic"))
  \/ Write("stamp", [table EXCEPT ![at].state = "USED"], "count")
  \/ Load("count", data_used, "countSize")
  \/ Load("countSize", Wrap(reg + table[at].size), "countStore")
  \/ CountStore \/ Give

-----------------------------------------------------------------------------
(* mm_free.                                                                *)

Freed(p) ==
  /\ Slow("out") /\ Holding(p) # {}
  /\ pc' = "find" /\ arg' = p /\ interrupted' = FALSE
  /\ UNCHANGED <<vars, at, near, del, reg, before, seen, races>>

Find ==
  \/ Test("find", table[at].size # 0, Go("findState"), NextAt("find", "out"))
  \/ Test("findState", table[at].state # "FREE", Go("findPtr"), NextAt("find", "out"))
  \/ Test("findPtr", table[at].ptr = arg, Go("release"), NextAt("find", "out"))

\* From here on the block is anybody's.
Release ==
  /\ Store("release", [table EXCEPT ![at].state = "FREE"], "uncount")
  /\ Raced("found", at \notin Holding(arg))
  /\ before' = <<View(table[at]), View(EMPTY)>> /\ seen' = before'
  /\ UNCHANGED faults

UncountStore ==
  /\ Slow("uncountStore")
  /\ data_used' = reg
  /\ Raced("count", reg # Wrap(data_used - seen[1].size))
  /\ pc' = "merge" /\ arg' = 0 /\ at' = 0 /\ reg' = 0
  /\ before' = Nothing /\ seen' = Nothing
  /\ UNCHANGED <<table, scan, halted, faults, near, del, interrupted>>

Uncount ==
  \/ Load("uncount", data_used, "uncountSize")
  \/ Load("uncountSize", Wrap(reg - table[at].size), "uncountStore")
  \/ UncountStore

-----------------------------------------------------------------------------
(* mm_merge_nearest.  In the first loop entry `at` takes in the block of   *)
(* entry `near`; in the second `at` is 0, the mass entry.                  *)

NextMerge == NextAt("merge", "fold")
NotNear   == NextNear("near", NextMerge)
Found     == IF at # 0 /\ near # 0 THEN Go("compare") ELSE NextMerge

Merge ==
  \/ Test("merge", ValidPtr(table[at].ptr), Go("mergeState"), NextMerge)
  \/ Test("mergeState", table[at].state = "FREE", Go("near"), NextMerge)

GetNearest ==
  \/ Test("near", table[near].ptr > 0, Go("nearSize"), NotNear)
  \/ Test("nearSize", table[near].size > 0 /\ near # at, Go("end"), NotNear)
  \/ Load("end", table[near].ptr, "endSize")
  \/ Load("endSize", Wrap(reg + table[near].size), "endTest")
  \/ Test("endTest", reg = table[at].ptr, Go("endState"), Go("start"))
  \/ Test("endState", table[near].state = "FREE", Found, Go("start"))
  \/ Load("start", table[at].ptr, "startSize")
  \/ Load("startSize", Wrap(reg - table[at].size), "startTest")
  \/ Test("startTest", reg = table[near].ptr, Go("startState"), NotNear)
  \/ Test("startState", table[near].state = "FREE", Found, NotNear)

\* The decision is taken: the two entries as they are now.
Begin(e) == before' = <<View(e), View(table[near])>> /\ seen' = before'

\* It is right if both blocks are free and one ends or starts where mm_get_nearest looks.
Neighbours == ValidPtr(table[at].ptr) /\ table[at].state = "FREE" /\ near \in Nearest(at)

Compare ==
  /\ Slow("compareWith")
  /\ Go(IF reg > table[near].ptr THEN "lower" ELSE "grow")
  /\ Begin(table[at])
  /\ Raced("merge", ~Neighbours \/ reg # table[at].ptr)
  /\ faults' = IF table[near].ptr + table[near].size = table[at].ptr
                 THEN faults ELSE faults \cup {"false_merge"}
  /\ reg' = 0
  /\ UNCHANGED <<table, data_used, scan, halted, arg, interrupted>>

MergeBody ==
  \/ Load("compare", table[at].ptr, "compareWith") \/ Compare
  \/ Load("lower", table[near].ptr, "lowerStore")

NotBelow == NextNear("fold", pc' = "rest" /\ UNCHANGED <<at, del>>)

Fold ==
  \/ Test("fold", ValidPtr(table[near].ptr), Go("foldPtr"), NotBelow)
  \/ Load("foldPtr", table[near].ptr, "foldSize")
  \/ Load("foldSize", Wrap(reg + table[near].size), "foldTest")
  \/ Test("foldTest", reg = Mass.ptr, Go("foldState"), NotBelow)
  \/ Test("foldState", table[near].state = "FREE", Go("foldLower"), NotBelow)

FoldBody ==
  /\ Slow("foldLower")
  /\ reg' = table[near].ptr
  /\ Go("lowerStore")
  /\ Begin(Mass)
  /\ Raced("fold", near \notin BelowMass)
  /\ faults' = IF Mass.state = "USED" THEN faults \cup {"mass_used"} ELSE faults
  /\ UNCHANGED <<table, data_used, scan, halted, arg, interrupted>>

\* What both loops do next: the address, the sum of the sizes, the bytes and the state.
Kind == IF at = 0 THEN "fold" ELSE "merge"

Grow ==
  \/ Change("lowerStore", [table EXCEPT ![at].ptr = reg], "grow", Kind,
            View(table[at]) # seen[1] \/ reg # seen[2].ptr, <<View(table'[at]), seen[2]>>)
  \/ Load("grow", table[at].size, "growAdd")
  \/ Load("growAdd", Wrap(reg + table[near].size), "growStore")
  \/ Change("growStore", [table EXCEPT ![at].size = reg], IF at = 0 THEN "foldBytes" ELSE "bytes",
            Kind, View(table[at]) # seen[1] \/ reg # Wrap(seen[1].size + seen[2].size),
            <<View(table'[at]), seen[2]>>)
  \/ Load("bytes", table[at].size, "bytesStore")
  \/ Write("bytesStore", [table EXCEPT ![at].bytes = reg], "free")
  \/ Write("foldBytes", [table EXCEPT ![at].bytes = 0], "free")
  \/ Change("free", [table EXCEPT ![at].state = "FREE"], "delete", Kind, table[at].state # "FREE", seen)

\* mm_delete_entry(near): the first entry whose four fields have compared equal, one after
\* the other (mm_entry_equals), is cleared.
Same(place, value, with, other, next) ==
  \/ Load(place, value, with)
  \/ Test(with, reg = other, Go(next), NextDel("same", "panic"))

DeleteEntry ==
  \/ Test("delete", ValidPtr(table[near].ptr), Go("deleteSize"), Go("panic"))
  \/ Test("deleteSize", table[near].size # 0, Go("deleteAgain"), Go("panic"))
  \/ Test("deleteAgain", table[near].size # 0, Go("same"), Go("panic"))
  \/ Same("same", table[del].ptr, "sameWith", table[near].ptr, "sameSize")
  \/ Same("sameSize", table[del].size, "sameSizeWith", table[near].size, "sameBytes")
  \/ Same("sameBytes", table[del].bytes, "sameBytesWith", table[near].bytes, "sameState")
  \/ Same("sameState", table[del].state, "sameStateWith", table[near].state, "clear")

\* memset, by dwords and then by bytes: size_bytes, size, (thread,) state with the two lower
\* bytes of ptr, its third and its fourth.
Stale == View(table[del]) # seen[2]
Left(t) == <<seen[1], View(t[del])>>
Above(p, part) == p - (p % part)

ClearLast ==
  /\ Slow("clearLast")
  /\ table' = [table EXCEPT ![del].ptr = 0]
  /\ Raced(Kind, Stale)
  /\ before' = Nothing /\ seen' = Nothing
  /\ IF at = 0 THEN pc' = "rest" /\ near' = 0 /\ del' = 0 /\ UNCHANGED at ELSE NextMerge
  /\ UNCHANGED <<data_used, scan, halted, faults, arg, reg, interrupted>>

Clear ==
  \/ Write("clear", [table EXCEPT ![del].bytes = 0], "clearSize")
  \/ Change("clearSize", [table EXCEPT ![del].size = 0], "clearState", Kind, Stale, Left(table'))
  \/ Change("clearState", [table EXCEPT ![del].state = "FREE", ![del].ptr = Above(table[del].ptr, LOW)],
            "clearThird", Kind, Stale, Left(table'))
  \/ Change("clearThird", [table EXCEPT ![del].ptr = Above(table[del].ptr, THREE)], "clearLast",
            Kind, Stale, Left(table'))
  \/ ClearLast

Rest ==
  \/ Load("rest", Mass.size, "restStore")
  \/ Write("restStore", [table EXCEPT ![0].bytes = reg], "out")

-----------------------------------------------------------------------------
AllocateStep ==
  \/ \E size \in Sizes : Asked(size)
  \/ Search \/ Take \/ Carve \/ Address \/ FreeIndex \/ Create \/ Finish

FreeStep ==
  \/ \E p \in DATA_BASE .. DATA_END - 1 : Freed(p)
  \/ Find \/ Release \/ Uncount
  \/ Merge \/ GetNearest \/ MergeBody \/ Fold \/ FoldBody \/ Grow \/ DeleteEntry \/ Clear \/ Rest

\* What happens after a damaging event is not followed, nor a further slow call after a race:
\* the property says nothing of them.
Followed == faults = {} /\ races \subseteq {"count"} /\ (pc # "out" \/ races = {})

PNext == Followed /\ (Whole \/ AllocateStep \/ FreeStep \/ Panic)

PSpec == PInit /\ [][PNext]_preemptedVars

AtRest == pc = "out" /\ scan = Idle

\* The preemption of memmgr.c's calls is harmless except at the places `races` names.  Once
\* the calls are over, no address is described twice and none has been lost, even when the
\* only thing that was changed under the slow call is the counter data_used; and data_used
\* is the sum of the held blocks when nothing was.  Or the machine has stopped, as NoOverlap,
\* NothingLost and Accounting say.  The places are those of an interruption: a call nobody
\* came between never gets there.
HeapSurvives ==
  /\ races # {} => interrupted
  /\ AtRest =>
       /\ races \subseteq {"count"} => NoOverlap /\ NothingLost
       /\ races = {} => Accounting
=============================================================================
