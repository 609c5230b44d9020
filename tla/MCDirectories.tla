--------------------------- MODULE MCDirectories ---------------------------
(* Directories.tla with values for TLC, given in MCDirectories.cfg: room   *)
(* for three entries besides the root, in two sectors, and the names a and *)
(* ab, so that there are directories in directories, double names,         *)
(* orphans, and entries that take the place of deleted ones, the root's    *)
(* included.  What is left of ab behind a makes it ab again, and ab fills  *)
(* the field: its string has an end in the root directory only.            *)
EXTENDS Directories

CONSTANTS a, b, r

MCName == {<<a>>, <<a, b>>}
MCLabel == <<r>>
\* A field of zeros, and one that makes ab of a and has no end then.
MCStack == {<<NUL, NUL>>, <<NUL, b>>}

\* With the root renamed or deleted the tables are explored up to two entries, and no
\* further once an entry has the root's name.
Explored ==
  /\ RootIntact \/ Cardinality(Used) =< 2
  /\ \A i \in Used \ {0} : Str(table[i].name) \in Name
=============================================================================
