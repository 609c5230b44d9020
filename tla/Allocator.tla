------------------------------ MODULE Allocator ------------------------------
(***************************************************************************)
(* What a caller of malloc/free may count on, without the table: a set of  *)
(* live blocks inside the data region, no two of which share an address.   *)
(* A block becomes live when it is granted and stops being live only when  *)
(* it is released.  Heap.tla is shown to implement this while none of its  *)
(* corrupting events has happened.                                         *)
(***************************************************************************)
EXTENDS Integers

CONSTANTS
  DATA_BASE,  \* mm_info.data_base, the first address handed out
  DATA_END    \* mm_info.data_end, one past the last address

VARIABLE live \* the blocks callers hold, records [ptr, size]

Block == [ptr : DATA_BASE .. DATA_END - 1, size : 1 .. DATA_END - DATA_BASE]

Within(b) == b.ptr + b.size =< DATA_END

Apart(b, c) == b.ptr + b.size =< c.ptr \/ c.ptr + c.size =< b.ptr

Init == live = {}

Grant(b) ==
  /\ Within(b)
  /\ \A c \in live : Apart(b, c)
  /\ live' = live \cup {b}

Release(b) ==
  /\ b \in live
  /\ live' = live \ {b}

Next == \E b \in Block : Grant(b) \/ Release(b)

Spec == Init /\ [][Next]_live

=============================================================================
