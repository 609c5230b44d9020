----------------------------- MODULE Directories -----------------------------
(***************************************************************************)
(* The directory tree: how src/kernel/filesys/filesys.c finds an entry of  *)
(* the file table by its path, and the operations of vfs.c that create,    *)
(* rename, copy, delete and list entries.  The table is flat: an entry     *)
(* holds the index of its parent directory.  A path is the sequence of its *)
(* parts; it starts with '/' (strsplit drops a slash at the end) and is    *)
(* empty for "/".  Blocks and file contents are Files.tla's subject.       *)
(*                                                                         *)
(* A name lies in a field of the entry (EntryName.tla): what was in the    *)
(* field behind a new name stays, and may leave the string without an end. *)
(* A name longer than the field runs over what lies behind it; the model   *)
(* stops there.                                                            *)
(*                                                                         *)
(* The functions look at the sectors below fs_info.file_table_max_used,    *)
(* which fs_info_write computes.  Creating an entry writes the entry and   *)
(* then the information sector, and the machine may stop in between.       *)
(***************************************************************************)
EXTENDS EntryName, FiniteSets

CONSTANTS
  MAX,         \* fs_info.file_table_count_max
  PER_SECTOR,  \* the entries in one sector of the table
  Name,        \* the names callers give that a field has room for; for longer ones, Overrun
  LABEL,       \* the name fs_root_create gives to the root directory
  Stack,       \* what an uninitialised field of a local variable may hold: anything
  DEPTH        \* bound: the longest path

ASSUME DirectoriesAssumption ==
  /\ MAX \in Nat \ {0} /\ PER_SECTOR \in Nat \ {0} /\ DEPTH \in Nat \ {0}
  /\ \A n \in Name \cup {LABEL} : Fits(n) /\ n = SubSeq(n, 1, Len(n))     \* strings
  /\ LABEL \notin Name /\ Len(LABEL) < WIDTH

VARIABLES
  table,     \* the file table
  max_used,  \* fs_info.file_table_max_used, in sectors
  rootdir,   \* fs_rootdir, the copy of entry 0 that fs_mount has read
  pc         \* "entered" between an entry's creation and fs_info_write; "overrun" when a
             \* name has run over the end of its field

vars == <<table, max_used, rootdir, pc>>

Index == 0 .. MAX - 1
NONE  == -1                                   \* no index
Least(S) == {i \in S : \A j \in S : i =< j}

Type == {"DIR", "FILE"}
NULL == [type |-> "NULL", name |-> Blank, parent |-> 0, status |-> 0]
Root == [type |-> "DIR", name |-> StrCpy(Blank, LABEL), parent |-> 0, status |-> 255]

Init ==                                       \* fs_format of a wiped disk, fs_mount
  /\ table = [i \in Index |-> IF i = 0 THEN Root ELSE NULL]
  /\ max_used = 1
  /\ rootdir = Root
  /\ pc = "idle"

Paths == UNION {[1 .. n -> Name] : n \in 1 .. DEPTH}
RootPath == <<>>

\* The name of an entry as the code reads it.  In a field without an end the string goes on
\* with the bytes of parent_index up to a zero; the index stands for them.
NameOf(e) ==
  IF Ended(e.name) \/ e.parent % 256 = 0 THEN Str(e.name) ELSE Append(Str(e.name), e.parent)

\* fs_get_name_from_path; the name of "/" is the root directory's.
Last(path)  == IF path = RootPath THEN NameOf(rootdir) ELSE path[Len(path)]
Front(path) == SubSeq(path, 1, Len(path) - 1)

Sector(i) == i \div PER_SECTOR                \* fs_filetable_sector_from_index

-----------------------------------------------------------------------------
(* Looking up.  Every function goes through the sectors below max_used.    *)

Seen == {i \in Index : Sector(i) < max_used}

\* fs_dir_equals, fs_file_equals: the names as strings, the other fields.
Same(e, f) == NameOf(e) = NameOf(f) /\ [e EXCEPT !.name = f.name] = f

\* fs_get_dir_index, fs_get_file_index: the first entry equal to e in every field.
IndexOf(e) ==
  LET S == Least({i \in Seen : Same(table[i], e)})
  IN  IF S = {} THEN NONE ELSE CHOOSE i \in S : TRUE

\* One part of a path in fs_parent_from_path.  The scan goes on after an entry has
\* matched, and looks from there on for entries of the directory it has found.
Scan(p, name) ==
  LET after[i \in 0 .. MAX] ==
        IF i = 0 THEN [p |-> p, out |-> NULL]
        ELSE LET e     == table[i - 1]
                 found == after[i - 1]
             IN  IF i - 1 \in Seen /\ e.type = "DIR" /\ e.parent = found.p /\ NameOf(e) = name
                   THEN [p |-> i - 1, out |-> e] ELSE found
  IN  after[MAX]

\* The parts but the last, one after the other.  A part that is not found leaves p where
\* it was, and the next one is looked for in the same directory.
Walk(parts) ==
  LET after[k \in 0 .. Len(parts)] ==
        IF k = 0 THEN [p |-> 0, out |-> NULL] ELSE Scan(after[k - 1].p, parts[k])
  IN  after[Len(parts)].out

\* A walk that starts each part at the root.
ParentFlat(path) == IF Len(path) =< 1 THEN rootdir ELSE Scan(0, path[Len(path) - 1]).out

\* fs_parent_from_path.
ParentFromPath(path) == IF Len(path) =< 1 THEN rootdir ELSE Walk(Front(path))

\* fs_get_dir_byname and fs_get_file_byname: the first entry of that type and name whose
\* parent is the directory found; NULL when there is none.
Named(parent, name, type) ==
  LET p == IndexOf(parent)
  IN  {i \in Seen : table[i].type = type /\ table[i].parent = p /\ NameOf(table[i]) = name}

GetByName(path, type) ==
  LET parent == ParentFromPath(path)
      found  == Least(Named(parent, Last(path), type))
  IN  IF path = RootPath /\ type = "DIR" THEN rootdir
      ELSE IF parent.type # "DIR" \/ found = {} THEN NULL
      ELSE table[CHOOSE i \in found : TRUE]

\* A listing that counts by the parent only.
ListedAny(path, type) ==
  LET dir == GetByName(path, "DIR")
      p   == IndexOf(dir)
  IN  {i \in Seen : dir.type = "DIR" /\ table[i].type # "NULL" /\ table[i].parent = p}

\* vfs_get_dirs, vfs_get_files, vfs_count_dirs, vfs_count_files: the entries listed.
Listed(path, type) ==
  LET dir == GetByName(path, "DIR")
      p   == IndexOf(dir)
  IN  {i \in Seen : dir.type = "DIR" /\ table[i].type = type /\ table[i].parent = p}

-----------------------------------------------------------------------------
(* Changing.                                                               *)

\* One too far: the index counted before it is returned.
FreeIndexNext == {i + 1 : i \in Least({i \in Index : table[i].type = "NULL"})} \cap Index

FreeIndex == Least({i \in Index : table[i].type = "NULL"})    \* fs_filetable_freeindex

\* vfs_create_dir, fs_file_create, and the end of vfs_copy_dir and vfs_copy_file: no
\* check that the name is free, and nothing happens when the table is full.  The entry is
\* made in a local variable whose name field nobody has cleared.
Create(path, type) ==
  /\ pc = "idle" /\ Len(Last(path)) =< WIDTH
  /\ LET parent == ParentFromPath(path)
         p      == IndexOf(parent)
     IN  /\ parent.type = "DIR"
         /\ \E i \in FreeIndex, field \in Stack :
              table' = [table EXCEPT ![i] =
                [type |-> type, name |-> StrCpy(field, Last(path)), parent |-> p, status |-> 0]]
  /\ pc' = "entered"
  /\ UNCHANGED <<max_used, rootdir>>

\* The last sector with an entry in it.
LastSector(t) ==
  LET S == {Sector(i) : i \in {j \in Index : t[j].type # "NULL"}}
  IN  CHOOSE m \in S \cup {0} : \A n \in S : n =< m
\* What fs_info_write stores: 1 for an empty table.
MaxUsed(t) == LastSector(t) + 1

\* The end of fs_filetable_create_dir and fs_filetable_create_file.
InfoWrite ==
  /\ pc = "entered"
  /\ max_used' = MaxUsed(table)
  /\ pc' = "idle"
  /\ UNCHANGED <<table, rootdir>>

\* The paths that lead to an entry of this kind; no file is looked up as "/".
Found(type) ==
  {path \in Paths \cup {RootPath} :
     (path = RootPath => type = "DIR") /\ GetByName(path, type).type = type}

\* A copied directory is an empty one.
Copy(dest, type) == Found(type) # {} /\ Create(dest, type)

Renamed(e, name) == [table EXCEPT ![IndexOf(e)].name = StrCpy(e.name, name)]

\* vfs_rename_dir, vfs_rename_file: the first equal entry is written again; an entry that
\* is not found has index -1 and is written nowhere.
Rename(path, type, name) ==
  /\ pc = "idle"
  /\ GetByName(path, type).type = type
  /\ LET e == GetByName(path, type)
     IN  IndexOf(e) # NONE /\ table' = Renamed(e, name)
  /\ UNCHANGED <<max_used, rootdir, pc>>

\* Entries compared without their parents: the first of that name and type.
DeletedNamed(e) ==
  [table EXCEPT ![CHOOSE i \in Least({j \in Index : /\ table[j].name = e.name
                                                    /\ table[j].type = e.type}) : TRUE] = NULL]

Deleted(e) == [table EXCEPT ![IndexOf(e)] = NULL]             \* fs_filetable_delete_dir

\* vfs_delete_dir, vfs_delete_file: nobody looks whether the directory is empty.
Delete(path, type) ==
  /\ pc = "idle"
  /\ GetByName(path, type).type = type
  /\ LET e == GetByName(path, type)
     IN  IndexOf(e) # NONE /\ table' = Deleted(e)
  /\ UNCHANGED <<max_used, rootdir, pc>>

\* The last part of the path of a new entry, or the name of a renaming, is longer than the
\* field, and nobody checks: strcpy goes on over parent_index, status, type and what follows
\* them.  vfs_create_dir and the copies set those fields afterwards, fs_file_create and the
\* renamings do not.
Overrun ==
  /\ pc = "idle"
  /\ \/ \E path \in Paths \cup {RootPath} : ParentFromPath(path).type = "DIR"
     \/ \E type \in Type : Found(type) # {}
  /\ pc' = "overrun"
  /\ UNCHANGED <<table, max_used, rootdir>>

MountReadsOnly == UNCHANGED max_used          \* a mount that trusts the information sector
MountInfo == max_used' = MaxUsed(table)       \* fs_mount writes the information sector again

\* The machine stops at any point and fs_mount reads the disk as it is.
Mount ==
  /\ pc # "overrun"
  /\ rootdir' = table[0]
  /\ MountInfo
  /\ pc' = "idle"
  /\ UNCHANGED table

Next ==
  \/ \E type \in Type :
       \/ \E path \in Paths \cup {RootPath} : Create(path, type) \/ Copy(path, type)
       \/ \E path \in Found(type) : Delete(path, type) \/ \E name \in Name : Rename(path, type, name)
  \/ Overrun
  \/ InfoWrite
  \/ Mount

Spec == Init /\ [][Next]_vars

-----------------------------------------------------------------------------
Used == {i \in Index : table[i].type # "NULL"}
Dirs == {i \in Index : table[i].type = "DIR"}

\* The directory i lies in, the one that lies in, and so on.
Ancestors(i) ==
  LET up[n \in 0 .. MAX] ==
        IF n = 0 THEN {i} ELSE {table[j].parent : j \in up[n - 1] \cap Used}
  IN  UNION {up[n] : n \in 1 .. MAX}

\* No directory lies in itself, whatever has been deleted, renamed or created twice, as
\* long as entry 0 is the root directory's: the index of a new entry is that of none of
\* its ancestors (fs_filetable_freeindex, vfs_create_dir).
Acyclic ==
  table[0].status = 255 => \A i \in Used \ {0} : i \notin Ancestors(i)

\* Between two operations every entry lies in the part of the table the searches look at:
\* no crash, no deletion and no mount makes an entry invisible (fs_info_write, fs_mount).
EveryEntrySeen == pc = "idle" => Used \subseteq Seen

\* The path of every entry, read upwards; what does not lie in the root has none.
PathOf ==
  LET up[n \in 0 .. MAX] ==
        [j \in Index |->
           IF j = 0 THEN <<>>
           ELSE IF n = 0 \/ table[j].parent \notin Dirs THEN <<LABEL>>
           ELSE Append(up[n - 1][table[j].parent], NameOf(table[j]))]
  IN  up[MAX]

RootIntact == table[0] = Root /\ rootdir = Root

\* What callers have to avoid for paths to mean anything: the root renamed or deleted, a
\* directory deleted with entries in it, two entries of a kind with the same path, and a
\* directory in a directory of the same name.
Orderly ==
  /\ RootIntact
  /\ \A i \in Used : table[i].parent \in Dirs
  /\ \A i, j \in Used \ {0} :
       (i # j /\ table[i].parent = table[j].parent) =>
         NameOf(table[i]) # NameOf(table[j]) \/ table[i].type # table[j].type
  /\ \A i \in Dirs \ {0} : NameOf(table[i]) # NameOf(table[table[i].parent])

Tree == {[path |-> PathOf[i], type |-> table[i].type] : i \in Used}

At(path, type) == [path |-> path, type |-> type]
Rooted(path, tree) == At(Front(path), "DIR") \in tree

\* In an orderly table, a path whose parent exists leads to the entry that has that path,
\* and to none when there is none, although the scans go on after a match (fs_parent_from_path).
Resolves ==
  (pc = "idle" /\ Orderly) =>
    LET paths == PathOf
        tree  == Tree
    IN  \A path \in Paths, type \in Type : Rooted(path, tree) =>
          LET e == GetByName(path, type)
          IN  IF At(path, type) \in tree THEN e.type = type /\ paths[IndexOf(e)] = path
                                         ELSE e.type = "NULL"

\* Listing a directory of an orderly table gives each of its entries, and no other, but for
\* the root, which its own listing shows as a directory in it (vfs_get_dirs, vfs_get_files).
ListingExact ==
  (pc = "idle" /\ Orderly) =>
    LET paths == PathOf
        tree  == Tree
    IN  \A path \in Paths \cup {RootPath}, type \in Type : At(path, "DIR") \in tree =>
          Listed(path, type) =
            {i \in Used \ {0} : table[i].type = type /\ Front(paths[i]) = path}
              \cup (IF path = RootPath /\ type = "DIR" THEN {0} ELSE {})

Under(path, q) == Len(path) < Len(q) /\ SubSeq(q, 1, Len(path)) = path

\* What moves when the entry with this path gets another name, and where to.
Moved(path, type, tree) ==
  {t \in tree : t = At(path, type) \/ (type = "DIR" /\ Under(path, t.path))}
Moving(t, path, name) == [t EXCEPT !.path[Len(path)] = name]

\* The entry with the name written over its own reads as that name.
Takes(e, name) == NameOf([e EXCEPT !.name = StrCpy(e.name, name)]) = name

\* Every operation changes the tree where its path says and nowhere else: the operations
\* work on indexes and on the first equal entry, the caller on paths.  A new name is the
\* one given when the field has nothing left behind it.  (Deleting a directory with
\* entries in it cuts those off as well.)
OperationsExact ==
  [][(pc = "idle" /\ Orderly /\ table' # table) =>
       LET tree  == Tree
           after == Tree'
       IN  \A path \in Paths, type \in Type : Rooted(path, tree) =>
             /\ (Create(path, type) /\ \E i \in FreeIndex : NameOf(table'[i]) = Last(path)) =>
                  after = tree \cup {At(path, type)}
             /\ Moved(path, type, tree) = {At(path, type)} =>
                  (Delete(path, type) => after = tree \ {At(path, type)})
             /\ At(path, type) \in tree => \A name \in Name :
                  (Takes(GetByName(path, type), name) /\ Rename(path, type, name)) =>
                    after = (tree \ Moved(path, type, tree))
                              \cup {Moving(t, path, name) : t \in Moved(path, type, tree)}]_vars

\* "get parent directory from path - returns empty if unable to locate" (the comment on
\* fs_parent_from_path), with the root directory as fs_root_create made it.
MissingParentIsEmpty ==
  (pc = "idle" /\ RootIntact) =>
    \A path \in Paths : ~Rooted(path, Tree) => ParentFromPath(path).type = "NULL"

=============================================================================
