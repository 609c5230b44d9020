------------------------------ MODULE MCFiles ------------------------------
(* Files.tla with values for TLC, given in MCFiles.cfg: room for two files *)
(* and their blocks on a disk of four free sectors, so that both tables    *)
(* and the disk fill up, blocks are freed, merged and handed out again     *)
(* between two files, and names are used twice.                            *)
EXTENDS Files, TLC

CONSTANTS x, y, u, v

MCName == {<<x>>, <<x, y>>}
\* A field of zeros, and one that makes xy of x and has no end then.
MCStack == {<<NUL, NUL>>, <<NUL, y>>}

\* After a damaging event no property speaks of the files: the operation in which it
\* happens is followed to its end, and no further.
Explored == Sound \/ fpc # "idle"
\* Values are compared only with one another.
Symmetry == Permutations(Value)
=============================================================================
