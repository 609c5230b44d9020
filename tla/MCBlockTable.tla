---------------------------- MODULE MCBlockTable ----------------------------
(* BlockTable.tla with values for TLC, given in MCBlockTable.cfg: four     *)
(* entries besides the mass entry and the file table, three to a sector,   *)
(* and seven free sectors, so that the table and the disk can both run out *)
(* and a free block of two can have one of one sector two below it.        *)
EXTENDS BlockTable

\* After a damaging event everything can happen to the table and no property speaks of
\* it: the operation in which the event happens is followed to its end, and no further.
Explored == Undamaged \/ pc # "idle"
=============================================================================
