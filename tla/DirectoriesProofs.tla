-------------------------- MODULE DirectoriesProofs --------------------------
(***************************************************************************)
(* Theorems about Directories.tla, for every size of the file table, every *)
(* set of names and every depth of paths.                                  *)
(*                                                                         *)
(* Several definitions of Directories.tla are recursive functions.  What   *)
(* is proved of them rests on two lemmas: induction over the naturals,     *)
(* which follows from WFMin of the library, and the existence of a         *)
(* function that is given step by step.                                    *)
(*                                                                         *)
(* First the types, the tree and what the searches see, which hold of      *)
(* every table; then, for an orderly table, what paths and operations do:  *)
(* there the path of an entry is its parent's path and its own name.       *)
(***************************************************************************)
EXTENDS Directories, SequenceTheorems, FiniteSetTheorems, WellFoundedInduction, TLAPS

CharsOf(f, n) == {f[k] : k \in 1 .. n}

Char ==
  {NUL} \cup (UNION {CharsOf(n, Len(n)) : n \in Name \cup {LABEL}})
        \cup (UNION {CharsOf(f, WIDTH) : f \in Stack})

Field == [1 .. WIDTH -> Char]                \* with an end of the string, or without

Entry == [type : Type \cup {"NULL"}, name : Field, parent : Index \cup {NONE}, status : {0, 255}]

TypeOK ==
  /\ table \in [Index -> Entry]
  /\ max_used \in 1 .. MAX
  /\ rootdir \in Entry
  /\ pc \in {"idle", "entered", "overrun"}

\* Entry 0 is still the one that fs_root_create made, perhaps renamed.
RootKept == table[0].status = 255

RootAlone ==
  /\ \A i \in Index \ {0} : table[i].status = 0
  /\ RootKept => /\ table[0].type = "DIR" /\ table[0].parent = 0
                 /\ rootdir.status = 255

\* Every set of entries has one that lies outside the set.
WellFounded ==
  \A X \in SUBSET (Used \ {0}) : X # {} => \E j \in X : table[j].parent \notin X

-----------------------------------------------------------------------------
(* Natural numbers and functions that are defined step by step.            *)

\* Every nonempty set of natural numbers has a least element.
LEMMA NatLeast ==
  ASSUME NEW T \in SUBSET Nat, T # {}
  PROVE  \E x \in T : \A y \in T : x =< y
<1> DEFINE R == OpToRel(<, Nat)
<1>1. IsWellFoundedOn(R, Nat)
  BY NatLessThanWellFounded
<1>2. \A x, y \in Nat : x < y => <<x, y>> \in R
  BY DEF OpToRel
<1> HIDE DEF R
<1>3. PICK x \in T : \A y \in T : ~(<<y, x>> \in R)
  BY <1>1, WFMin
<1>4. \A y \in T : ~(y < x)
  BY <1>2, <1>3
<1>5. \A y \in T : y \in Int /\ x \in Int
  OBVIOUS
<1>6. QED
  BY <1>4, <1>5

\* One that is bounded has a greatest.
LEMMA NatGreatest ==
  ASSUME NEW T \in SUBSET Nat, T # {}, NEW m \in Nat, \A x \in T : x =< m
  PROVE  \E x \in T : \A y \in T : y =< x
<1> DEFINE U == {k \in Nat : \E x \in T : k = m - x}
<1>1. U # {} /\ U \in SUBSET Nat
  <2>1. PICK x \in T : TRUE
    OBVIOUS
  <2>2. m - x \in U
    BY <2>1
  <2>3. QED
    BY <2>2
<1>2. PICK k \in U : \A l \in U : k =< l
  BY <1>1, NatLeast
<1>3. PICK x \in T : k = m - x
  BY <1>2
<1>4. ASSUME NEW y \in T PROVE y =< x
  <2>1. m - y \in U
    OBVIOUS
  <2>2. k =< m - y
    BY <1>2, <2>1
  <2>3. QED
    BY <1>3, <2>2
<1>5. QED
  BY <1>4

\* Induction up to a bound.
LEMMA UpTo ==
  ASSUME NEW m \in Nat, NEW S, 0 \in S,
         \A n \in 0 .. m - 1 : n \in S => n + 1 \in S
  PROVE  0 .. m \subseteq S
<1> SUFFICES ASSUME NEW k \in (0 .. m) \ S PROVE FALSE
  OBVIOUS
<1> DEFINE T == (0 .. m) \ S
<1>0. T \in SUBSET Nat /\ T # {}
  OBVIOUS
<1>1. PICK x \in T : \A y \in T : x =< y
  BY <1>0, NatLeast
<1>2. x # 0 /\ x - 1 \in 0 .. m - 1
  BY <1>1
<1>3. x - 1 \in S
  BY <1>1, <1>2
<1>4. QED
  BY <1>1, <1>2, <1>3

\* The function on 0 .. m that is a at 0 and g of what it was before after that.
Iterates(f, m, a, g) == f[0] = a /\ \A n \in 1 .. m : f[n] = g[<<n, f[n - 1]>>]

\* There is one.
LEMMA Iteration ==
  ASSUME NEW m \in Nat, NEW D, NEW a \in D, NEW g \in [(1 .. m) \X D -> D]
  PROVE  \E f \in [0 .. m -> D] : Iterates(f, m, a, g)
<1> DEFINE Given(k, f) == /\ f \in [0 .. k -> D] /\ f[0] = a
                          /\ \A n \in 1 .. k : f[n] = g[<<n, f[n - 1]>>]
           S == {k \in 0 .. m : \E f : Given(k, f)}
<1>1. 0 \in S
  <2>1. Given(0, [n \in 0 .. 0 |-> a])
    OBVIOUS
  <2> HIDE DEF Given
  <2>2. QED
    BY <2>1
<1>2. \A k \in 0 .. m - 1 : k \in S => k + 1 \in S
  <2> SUFFICES ASSUME NEW k \in 0 .. m - 1, NEW f, Given(k, f)
               PROVE  k + 1 \in S
    OBVIOUS
  <2> DEFINE h == [n \in 0 .. k + 1 |-> IF n = k + 1 THEN g[<<k + 1, f[k]>>] ELSE f[n]]
  <2>1. g[<<k + 1, f[k]>>] \in D
    <3>1. <<k + 1, f[k]>> \in (1 .. m) \X D
      OBVIOUS
    <3>2. QED
      BY <3>1
  <2>2. h \in [0 .. k + 1 -> D]
    BY <2>1
  <2>3. h[0] = a
    OBVIOUS
  <2>4. \A n \in 1 .. k + 1 : h[n] = g[<<n, h[n - 1]>>]
    <3> TAKE n \in 1 .. k + 1
    <3>1. CASE n = k + 1
      <4>1. h[n] = g[<<n, f[k]>>] /\ n - 1 = k
        BY <3>1
      <4>2. h[k] = f[k]
        OBVIOUS
      <4>3. QED
        BY <4>1, <4>2
    <3>2. CASE n # k + 1
      <4>1. n \in 1 .. k /\ h[n] = f[n] /\ h[n - 1] = f[n - 1]
        BY <3>2
      <4>2. QED
        BY <4>1
    <3>3. QED
      BY <3>1, <3>2
  <2> HIDE DEF h
  <2>5. Given(k + 1, h) /\ k + 1 \in 0 .. m
    BY <2>2, <2>3, <2>4
  <2> HIDE DEF Given
  <2>6. QED
    BY <2>5
<1>3. m \in S
  <2>1. \A n \in 0 .. m - 1 : n \in S => n + 1 \in S
    BY <1>2
  <2> HIDE DEF S
  <2>2. 0 .. m \subseteq S
    BY <1>1, <2>1, UpTo
  <2>3. QED
    BY <2>2
<1>4. PICK f : Given(m, f)
  BY <1>3
<1>5. QED
  BY <1>4 DEF Iterates

-----------------------------------------------------------------------------
(* Sectors of the table.                                                   *)

LEMMA SectorBound ==
  ASSUME NEW i \in Index
  PROVE  Sector(i) \in 0 .. MAX - 1
<1> DEFINE q == i \div PER_SECTOR
<1>1. PER_SECTOR \in Nat /\ PER_SECTOR > 0 /\ i \in Nat /\ i < MAX /\ MAX \in Nat
  BY DirectoriesAssumption DEF Index
<1>2. q \in Nat /\ i = q * PER_SECTOR + (i % PER_SECTOR) /\ i % PER_SECTOR \in 0 .. PER_SECTOR - 1
  BY <1>1
<1>3. q =< q * PER_SECTOR
  BY <1>1, <1>2
<1>4. QED
  BY <1>1, <1>2, <1>3 DEF Sector

\* fs_info_write's scan reaches every entry that is in use.
LEMMA MaxUsedCovers ==
  ASSUME NEW t
  PROVE  /\ MaxUsed(t) \in 1 .. MAX
         /\ \A j \in Index : t[j].type # "NULL" => Sector(j) < MaxUsed(t)
<1> DEFINE S == {Sector(i) : i \in {j \in Index : t[j].type # "NULL"}}
           m == CHOOSE m \in S \cup {0} : \A n \in S : n =< m
<1>1. S \cup {0} \subseteq 0 .. MAX - 1
  BY SectorBound, DirectoriesAssumption
<1>2. \E x \in S \cup {0} : \A y \in S \cup {0} : y =< x
  <2> DEFINE T == S \cup {0}
  <2>0. MAX \in Nat
    BY DirectoriesAssumption
  <2>1. T \in SUBSET Nat /\ T # {} /\ \A x \in T : x =< MAX
    BY <1>1, <2>0
  <2> HIDE DEF T
  <2>2. \E x \in T : \A y \in T : y =< x
    BY <2>0, <2>1, NatGreatest
  <2>3. QED
    BY <2>2 DEF T
<1>3. m \in S \cup {0} /\ \A n \in S : n =< m
  BY <1>2
<1>4. LastSector(t) = m
  BY DEF LastSector
<1>5. \A j \in Index : t[j].type # "NULL" => Sector(j) \in S
  OBVIOUS
<1>6. m \in 0 .. MAX - 1 /\ \A n \in S : n =< m /\ n \in Nat
  BY <1>1, <1>3
<1>7. MaxUsed(t) = m + 1
  BY <1>4 DEF MaxUsed
<1> HIDE DEF m
<1>8. MaxUsed(t) \in 1 .. MAX
  BY <1>6, <1>7, DirectoriesAssumption
<1> HIDE DEF S
<1>9. \A n \in S : n < MaxUsed(t)
  BY <1>6, <1>7
<1>10. QED
  BY <1>5, <1>8, <1>9

-----------------------------------------------------------------------------
(* Names.                                                                  *)

\* The string in a field is a prefix of the field, or all of it.
LEMMA StrOf ==
  ASSUME NEW f \in Field
  PROVE  /\ Str(f) \in Seq(Char) /\ Len(Str(f)) \in 0 .. WIDTH
         /\ ~Ended(f) => Len(Str(f)) = WIDTH
<1> DEFINE end == CHOOSE k \in 1 .. WIDTH : f[k] = NUL /\ \A n \in 1 .. k - 1 : f[n] # NUL
<1>1. WIDTH \in Nat /\ WIDTH > 0 /\ f \in [1 .. WIDTH -> Char]
  BY EntryNameAssumption DEF Field
<1>2. f \in Seq(Char) /\ Len(f) = WIDTH
  BY <1>1
<1>3. ASSUME Ended(f) PROVE Str(f) \in Seq(Char) /\ Len(Str(f)) \in 0 .. WIDTH
  <2> DEFINE E == {k \in 1 .. WIDTH : f[k] = NUL}
  <2>1. E \in SUBSET Nat /\ E # {}
    BY <1>1, <1>3 DEF Ended
  <2>2. PICK k \in E : \A n \in E : k =< n
    BY <2>1, NatLeast
  <2>3. ASSUME NEW n \in 1 .. k - 1, f[n] = NUL PROVE FALSE
    <3>1. n \in E
      BY <2>3, <1>1
    <3>2. QED
      BY <2>2, <2>3, <3>1
  <2>4. end \in 1 .. WIDTH
    BY <2>3
  <2>5. Str(f) = SubSeq(f, 1, end - 1)
    BY <1>3 DEF Str
  <2> HIDE DEF end
  <2>6. end - 1 \in 0 .. Len(f) /\ 1 \in 1 .. Len(f) + 1
    BY <1>1, <1>2, <2>4
  <2>7. Str(f) \in Seq(Char) /\ Len(Str(f)) = end - 1
    BY <1>1, <1>2, <2>5, <2>6, SubSeqProperties
  <2>8. QED
    BY <1>1, <2>4, <2>7
<1>4. ASSUME ~Ended(f) PROVE Str(f) = f
  BY <1>4 DEF Str
<1>5. QED
  BY <1>1, <1>2, <1>3, <1>4

\* strcpy of a name that the field has room for gives a field.
LEMMA StrCpyField ==
  ASSUME NEW f, \A k \in 1 .. WIDTH : f[k] \in Char,
         NEW name, Len(name) \in 0 .. WIDTH, \A k \in 1 .. Len(name) : name[k] \in Char
  PROVE  StrCpy(f, name) \in Field
<1>1. WIDTH \in Nat /\ WIDTH > 0
  BY EntryNameAssumption
<1>2. StrCpy(f, name) = [k \in 1 .. WIDTH |-> IF k =< Len(name) THEN name[k] ELSE f[k]]
  BY DEF StrCpy
<1>3. \A k \in 1 .. WIDTH : k =< Len(name) => k \in 1 .. Len(name)
  BY <1>1
<1>4. QED
  BY <1>2, <1>3 DEF Field

LEMMA NamesFit ==
  /\ \A n \in Name \cup {LABEL} :
       Len(n) \in 0 .. WIDTH /\ \A k \in 1 .. Len(n) : n[k] \in Char
  /\ \A f \in Stack : \A k \in 1 .. WIDTH : f[k] \in Char
  /\ Blank \in Field
<1>1. WIDTH \in Nat /\ WIDTH > 0
  BY EntryNameAssumption
<1>2. \A n \in Name \cup {LABEL} :
        Len(n) \in 0 .. WIDTH /\ \A k \in 1 .. Len(n) : n[k] \in Char
  <2> TAKE n \in Name \cup {LABEL}
  <2>1. Len(n) \in 1 .. WIDTH
    BY DirectoriesAssumption DEF Fits
  <2>2. \A k \in 1 .. Len(n) : n[k] \in Char
    <3> DEFINE C == {n[k] : k \in 1 .. Len(n)}
    <3>0. C \in {CharsOf(m, Len(m)) : m \in Name \cup {LABEL}}
      BY DEF CharsOf
    <3>1. C \subseteq Char
      BY <3>0, ZenonT(20) DEF Char
    <3>2. \A k \in 1 .. Len(n) : n[k] \in C
      OBVIOUS
    <3>3. QED
      BY <3>1, <3>2
  <2>3. QED
    BY <1>1, <2>1, <2>2
<1>3. \A f \in Stack : \A k \in 1 .. WIDTH : f[k] \in Char
  <2> TAKE f \in Stack
  <2> DEFINE C == {f[k] : k \in 1 .. WIDTH}
  <2>0. C \in {CharsOf(g, WIDTH) : g \in Stack}
    <3>1. C = CharsOf(f, WIDTH)
      BY Zenon DEF CharsOf
    <3> HIDE DEF C
    <3>2. QED
      BY <3>1
  <2>1. C \subseteq Char
    BY <2>0, ZenonT(20) DEF Char
  <2>2. \A k \in 1 .. WIDTH : f[k] \in C
    OBVIOUS
  <2>3. QED
    BY <2>1, <2>2
<1>4. Blank \in Field
  <2>1. NUL \in Char
    BY Zenon DEF Char
  <2>2. Blank = [k \in 1 .. WIDTH |-> NUL]
    BY DEF Blank
  <2>3. QED
    BY <1>1, <2>1, <2>2 DEF Field
<1>5. QED
  BY <1>2, <1>3, <1>4

LEMMA PathFacts ==
  ASSUME NEW path \in Paths
  PROVE  /\ path \in Seq(Name) /\ Len(path) \in Nat /\ Len(path) > 0
         /\ path[Len(path)] \in Name
         /\ Len(path) > 1 => Len(Front(path)) \in Nat
<1>1. PICK n \in 1 .. DEPTH : path \in [1 .. n -> Name]
  BY DEF Paths
<1>2. path \in Seq(Name) /\ Len(path) = n /\ n \in Nat /\ n > 0
  BY <1>1
<1>3. path[Len(path)] \in Name
  BY <1>1, <1>2
<1>4. ASSUME Len(path) > 1 PROVE Len(Front(path)) \in Nat
  <2>1. 1 \in 1 .. Len(path) + 1 /\ Len(path) - 1 \in 1 - 1 .. Len(path)
    BY <1>2, <1>4
  <2>2. Front(path) \in Seq(Name)
    BY <1>2, <2>1, SubSeqProperties DEF Front
  <2>3. QED
    BY <2>2
<1>5. QED
  BY <1>2, <1>3, <1>4

LEMMA LastFits ==
  ASSUME TypeOK, NEW path \in Paths \cup {RootPath}, Len(Last(path)) =< WIDTH
  PROVE  Len(Last(path)) \in 0 .. WIDTH /\ \A k \in 1 .. Len(Last(path)) : Last(path)[k] \in Char
<1>1. CASE path = RootPath
  <2>1. rootdir.name \in Field /\ Last(path) = NameOf(rootdir) /\ WIDTH \in Nat
    BY <1>1, EntryNameAssumption DEF TypeOK, Entry, Last
  <2>2. CASE Ended(rootdir.name) \/ rootdir.parent % 256 = 0
    <3>1. Last(path) = Str(rootdir.name)
      BY <2>1, <2>2 DEF NameOf
    <3>2. QED
      BY <2>1, <3>1, StrOf
  <2>3. CASE ~(Ended(rootdir.name) \/ rootdir.parent % 256 = 0)
    <3>1. Last(path) = Append(Str(rootdir.name), rootdir.parent)
      BY <2>1, <2>3 DEF NameOf
    <3>2. Str(rootdir.name) \in Seq(Char) /\ Len(Str(rootdir.name)) = WIDTH
      BY <2>1, <2>3, StrOf
    <3>3. Len(Last(path)) = WIDTH + 1
      BY <3>1, <3>2
    <3>4. QED
      BY <2>1, <3>3
  <2>4. QED
    BY <2>2, <2>3
<1>2. CASE path # RootPath
  <2>1. path[Len(path)] \in Name /\ Last(path) = path[Len(path)]
    BY <1>2, PathFacts DEF Last
  <2>2. QED
    BY <2>1, NamesFit
<1>3. QED
  BY <1>1, <1>2
-----------------------------------------------------------------------------
(* Looking up.                                                             *)

\* The entries whose parents, and the parents of those, are in use up to the root.
Reached ==
  {j \in Index : \E C \in SUBSET Used : 0 \in C /\ j \in C /\ \A k \in C : table[k].parent \in C}

LEMMA ReachedRoot ==
  ASSUME TypeOK, RootAlone, RootKept
  PROVE  0 \in Reached
<1> DEFINE C == {0}
<1>1. 0 \in Index
  BY DirectoriesAssumption DEF Index
<1>2. table[0].type = "DIR" /\ table[0].parent = 0
  BY DEF RootAlone
<1>3. C \in SUBSET Used
  BY <1>1, <1>2 DEF Used
<1>4. QED
  BY <1>1, <1>2, <1>3 DEF Reached

LEMMA ReachedChild ==
  ASSUME NEW i \in Used, table[i].parent \in Reached
  PROVE  i \in Reached
<1>1. PICK C \in SUBSET Used :
        0 \in C /\ table[i].parent \in C /\ \A k \in C : table[k].parent \in C
  BY DEF Reached
<1> DEFINE D == C \cup {i}
<1>2. D \in SUBSET Used /\ 0 \in D /\ i \in D /\ \A k \in D : table[k].parent \in D
  BY <1>1
<1>3. i \in Index
  BY DEF Used
<1> HIDE DEF D
<1>4. QED
  BY <1>2, <1>3 DEF Reached

\* What a scan has found: nothing, or a directory of the table; in either case the place it
\* has come to lies below the root.
Findings ==
  {r \in [p : Index, out : Entry] :
     /\ RootKept => r.p \in Reached
     /\ r.out = NULL \/ (r.out = table[r.p] /\ r.out.type = "DIR")}

LEMMA NullEntry == NULL \in Entry
<1>1. 0 \in Index
  BY DirectoriesAssumption DEF Index
<1>2. QED
  BY <1>1, NamesFit DEF NULL, Entry

\* One part of a path (the loop over the sectors in fs_parent_from_path).
LEMMA ScanFinds ==
  ASSUME TypeOK, NEW p \in Index, RootKept => p \in Reached, NEW name
  PROVE  Scan(p, name) \in Findings
<1> DEFINE a == [p |-> p, out |-> NULL]
           Step(i, x) == LET e == table[i - 1] IN
                         IF /\ i - 1 \in Seen /\ e.type = "DIR" /\ e.parent = x.p
                            /\ NameOf(e) = name
                         THEN [p |-> i - 1, out |-> e] ELSE x
           g == [q \in (1 .. MAX) \X Findings |-> Step(q[1], q[2])]
<1>0. MAX \in Nat
  BY DirectoriesAssumption
<1>1. a \in Findings
  BY NullEntry DEF Findings
<1>2. ASSUME NEW n \in 1 .. MAX, NEW x \in Findings
      PROVE  Step(n, x) \in Findings
  <2>1. CASE /\ n - 1 \in Seen /\ table[n - 1].type = "DIR" /\ table[n - 1].parent = x.p
             /\ NameOf(table[n - 1]) = name
    <3>1. n - 1 \in Index /\ table[n - 1] \in Entry /\ Step(n, x) = [p |-> n - 1, out |-> table[n - 1]]
      BY <2>1 DEF Seen, TypeOK
    <3>2. RootKept => n - 1 \in Reached
      <4>1. n - 1 \in Used
        BY <2>1, <3>1 DEF Used
      <4>2. RootKept => table[n - 1].parent \in Reached
        BY <2>1 DEF Findings
      <4>3. QED
        BY <4>1, <4>2, ReachedChild
    <3>3. QED
      BY <2>1, <3>1, <3>2 DEF Findings
  <2>2. CASE ~(/\ n - 1 \in Seen /\ table[n - 1].type = "DIR" /\ table[n - 1].parent = x.p
               /\ NameOf(table[n - 1]) = name)
    BY <2>2
  <2>3. QED
    BY <2>1, <2>2
<1>3. \A n \in 1 .. MAX : \A x \in Findings : g[<<n, x>>] = Step(n, x)
  OBVIOUS
<1>4. g \in [(1 .. MAX) \X Findings -> Findings]
  <2> HIDE DEF Step
  <2>1. QED
    BY <1>2
<1> HIDE DEF a, g
<1>5. PICK f \in [0 .. MAX -> Findings] : Iterates(f, MAX, a, g)
  BY <1>0, <1>1, <1>4, Iteration
<1>5a. f[0] = a /\ \A n \in 1 .. MAX : f[n] = g[<<n, f[n - 1]>>]
  BY <1>5 DEF Iterates
<1>6. \A n \in 1 .. MAX : g[<<n, f[n - 1]>>] = Step(n, f[n - 1])
  <2> TAKE n \in 1 .. MAX
  <2>1. n - 1 \in 0 .. MAX
    BY <1>0
  <2>2. f[n - 1] \in Findings
    BY <2>1
  <2>3. QED
    BY <1>3, <2>2
<1> DEFINE after[i \in 0 .. MAX] ==
        IF i = 0 THEN [p |-> p, out |-> NULL]
        ELSE LET e == table[i - 1] IN
             IF /\ i - 1 \in Seen /\ e.type = "DIR" /\ e.parent = after[i - 1].p
                /\ NameOf(e) = name
               THEN [p |-> i - 1, out |-> e] ELSE after[i - 1]
<1>7. f = [i \in 0 .. MAX |-> IF i = 0 THEN a ELSE Step(i, f[i - 1])]
  <2>1. \A i \in 0 .. MAX : f[i] = IF i = 0 THEN a ELSE Step(i, f[i - 1])
    <3> TAKE i \in 0 .. MAX
    <3>1. i # 0 => i \in 1 .. MAX
      BY <1>0
    <3> HIDE DEF Step
    <3>2. f[i] = IF i = 0 THEN a ELSE g[<<i, f[i - 1]>>]
      BY <1>5a, <3>1
    <3>3. QED
      BY <1>6, <3>1, <3>2
  <2> HIDE DEF Step
  <2>2. QED
    BY <2>1
<1>8. f = [i \in 0 .. MAX |->
        IF i = 0 THEN [p |-> p, out |-> NULL]
        ELSE LET e == table[i - 1] IN
             IF /\ i - 1 \in Seen /\ e.type = "DIR" /\ e.parent = f[i - 1].p
                /\ NameOf(e) = name
               THEN [p |-> i - 1, out |-> e] ELSE f[i - 1]]
  BY <1>7 DEF a
<1>9. after = [i \in 0 .. MAX |->
        IF i = 0 THEN [p |-> p, out |-> NULL]
        ELSE LET e == table[i - 1] IN
             IF /\ i - 1 \in Seen /\ e.type = "DIR" /\ e.parent = after[i - 1].p
                /\ NameOf(e) = name
               THEN [p |-> i - 1, out |-> e] ELSE after[i - 1]]
  BY <1>8
<1>10. Scan(p, name) = after[MAX]
  BY DEF Scan
<1> HIDE DEF after
<1> DEFINE S == {i \in 0 .. MAX : after[i] \in Findings}
<1>11. 0 \in S
  BY <1>0, <1>1, <1>9 DEF a
<1>12. \A n \in 0 .. MAX - 1 : n \in S => n + 1 \in S
  <2> TAKE n \in 0 .. MAX - 1
  <2>1. n + 1 \in 1 .. MAX /\ n + 1 # 0 /\ (n + 1) - 1 = n /\ n + 1 \in 0 .. MAX
    BY <1>0
  <2>2. after[n + 1] = Step(n + 1, after[n])
    BY <1>9, <2>1
  <2> HIDE DEF Step
  <2>3. QED
    BY <1>2, <2>1, <2>2
<1> HIDE DEF S
<1>13. 0 .. MAX \subseteq S
  BY <1>0, <1>11, <1>12, UpTo
<1>14. QED
  BY <1>0, <1>10, <1>13 DEF S

\* All the parts of a path but the last.
LEMMA WalkSteps ==
  ASSUME TypeOK, RootAlone, NEW parts, Len(parts) \in Nat
  PROVE  \E f \in [0 .. Len(parts) -> Findings] :
           /\ f[0] = [p |-> 0, out |-> NULL]
           /\ \A k \in 1 .. Len(parts) : f[k] = Scan(f[k - 1].p, parts[k])
           /\ Walk(parts) = f[Len(parts)].out
<1> DEFINE m == Len(parts)
           a == [p |-> 0, out |-> NULL]
           Step(k, x) == Scan(x.p, parts[k])
           g == [q \in (1 .. m) \X Findings |-> Step(q[1], q[2])]
<1>0. m \in Nat
  OBVIOUS
<1>1. a \in Findings
  <2>1. 0 \in Index
    BY DirectoriesAssumption DEF Index
  <2>2. QED
    BY <2>1, NullEntry, ReachedRoot DEF Findings
<1>2. ASSUME NEW n \in 1 .. m, NEW x \in Findings
      PROVE  Step(n, x) \in Findings
  <2>1. x.p \in Index /\ (RootKept => x.p \in Reached)
    BY DEF Findings
  <2>2. QED
    BY <2>1, ScanFinds
<1>3. \A n \in 1 .. m : \A x \in Findings : g[<<n, x>>] = Step(n, x)
  OBVIOUS
<1>4. g \in [(1 .. m) \X Findings -> Findings]
  <2> HIDE DEF Step
  <2>1. QED
    BY <1>2
<1> HIDE DEF a, g, m
<1>5. PICK f \in [0 .. m -> Findings] : Iterates(f, m, a, g)
  BY <1>0, <1>1, <1>4, Iteration
<1>6. \A k \in 0 .. m : f[k] = IF k = 0 THEN a ELSE Step(k, f[k - 1])
  <2> TAKE k \in 0 .. m
  <2>1. CASE k = 0
    BY <2>1, <1>5 DEF Iterates
  <2>2. CASE k # 0
    <3>1. k \in 1 .. m /\ k - 1 \in 0 .. m
      BY <2>2, <1>0
    <3> HIDE DEF Step
    <3>2. f[k] = g[<<k, f[k - 1]>>] /\ f[k - 1] \in Findings
      BY <1>5, <3>1 DEF Iterates
    <3>3. QED
      BY <1>3, <2>2, <3>1, <3>2
  <2>3. QED
    BY <2>1, <2>2
<1> DEFINE after[k \in 0 .. Len(parts)] ==
        IF k = 0 THEN [p |-> 0, out |-> NULL] ELSE Scan(after[k - 1].p, parts[k])
<1>7. f = [k \in 0 .. Len(parts) |->
        IF k = 0 THEN [p |-> 0, out |-> NULL] ELSE Scan(f[k - 1].p, parts[k])]
  BY <1>6 DEF a, m
<1>8. after = [k \in 0 .. Len(parts) |->
        IF k = 0 THEN [p |-> 0, out |-> NULL] ELSE Scan(after[k - 1].p, parts[k])]
  BY <1>7
<1>9. Walk(parts) = after[Len(parts)].out
  BY DEF Walk
<1> HIDE DEF after
<1>10. \A k \in 0 .. m : f[k] = after[k]
  <2> DEFINE S == {k \in 0 .. m : f[k] = after[k]}
  <2>1. 0 \in S
    BY <1>0, <1>7, <1>8 DEF m
  <2>2. \A n \in 0 .. m - 1 : n \in S => n + 1 \in S
    <3> TAKE n \in 0 .. m - 1
    <3>1. n + 1 \in 0 .. m /\ n + 1 # 0 /\ (n + 1) - 1 = n
      BY <1>0
    <3>2. QED
      BY <1>7, <1>8, <3>1 DEF m
  <2> HIDE DEF S
  <2>3. 0 .. m \subseteq S
    BY <1>0, <2>1, <2>2, UpTo
  <2>4. QED
    BY <2>3 DEF S
<1>11. Walk(parts) = f[m].out
  BY <1>0, <1>9, <1>10 DEF m
<1>12. f[0] = a /\ \A k \in 1 .. m : f[k] = Step(k, f[k - 1])
  BY <1>0, <1>6
<1>13. QED
  BY <1>11, <1>12 DEF a, m

LEMMA WalkFinds ==
  ASSUME TypeOK, RootAlone, NEW parts, Len(parts) \in Nat
  PROVE  \/ Walk(parts) = NULL
         \/ \E j \in Index : /\ Walk(parts) = table[j] /\ table[j].type = "DIR"
                             /\ RootKept => j \in Reached
<1>1. PICK f \in [0 .. Len(parts) -> Findings] : Walk(parts) = f[Len(parts)].out
  BY WalkSteps
<1>2. f[Len(parts)] \in Findings
  OBVIOUS
<1>3. QED
  BY <1>1, <1>2 DEF Findings

LEMMA ReachedParent ==
  ASSUME NEW j \in Reached
  PROVE  table[j].parent \in Reached
<1>1. PICK C \in SUBSET Used : 0 \in C /\ j \in C /\ \A k \in C : table[k].parent \in C
  BY DEF Reached
<1>2. table[j].parent \in C /\ table[j].parent \in Index
  BY <1>1 DEF Used
<1>3. QED
  BY <1>1, <1>2 DEF Reached

LEMMA SameFields ==
  ASSUME NEW e \in Entry, NEW f \in Entry, Same(e, f)
  PROVE  e.type = f.type /\ e.parent = f.parent /\ e.status = f.status
<1> DEFINE h == [e EXCEPT !.name = f.name]
<1>1. h = f
  BY DEF Same
<1>2. h.type = e.type /\ h.parent = e.parent /\ h.status = e.status
  BY DEF Entry
<1> HIDE DEF h
<1>3. QED
  BY <1>1, <1>2

\* fs_get_dir_index finds nothing, or an entry that the searches see.
LEMMA IndexFound ==
  ASSUME NEW e, IndexOf(e) # NONE
  PROVE  IndexOf(e) \in Seen /\ Same(table[IndexOf(e)], e)
<1> DEFINE S == Least({i \in Seen : Same(table[i], e)})
<1>1. S # {} /\ IndexOf(e) = CHOOSE i \in S : TRUE
  BY DEF IndexOf
<1>2. IndexOf(e) \in S
  BY <1>1
<1>3. QED
  BY <1>2 DEF Least

\* The parent of a path is an entry; when it is a directory, its index is that of an entry
\* below the root, or none.
LEMMA ParentIndex ==
  ASSUME TypeOK, RootAlone, NEW path \in Paths \cup {RootPath}
  PROVE  LET parent == ParentFromPath(path)
             p      == IndexOf(parent)
         IN  /\ parent \in Entry
             /\ p \in Index \cup {NONE}
             /\ parent.type = "DIR" /\ RootKept /\ p # NONE => p \in Reached
<1> DEFINE parent == ParentFromPath(path)
           p      == IndexOf(parent)
<1>1. p # NONE => p \in Index /\ Same(table[p], parent)
  BY IndexFound DEF Seen
<1>2. p # NONE => table[p] \in Entry
  BY <1>1 DEF TypeOK
<1>3. CASE Len(path) =< 1
  <2>1. parent = rootdir /\ parent \in Entry
    BY <1>3 DEF ParentFromPath, TypeOK
  <2>2. ASSUME RootKept, p # NONE PROVE p \in Reached
    <3>1. table[p].status = 255
      <4>1. table[p].status = parent.status
        BY <1>1, <1>2, <2>1, <2>2, SameFields
      <4>2. rootdir.status = 255
        BY <2>2 DEF RootAlone
      <4>3. QED
        BY <4>1, <4>2, <2>1
    <3>2. p = 0
      BY <1>1, <2>2, <3>1 DEF RootAlone
    <3>3. QED
      BY <3>2, <2>2, ReachedRoot
  <2>3. QED
    BY <1>1, <2>1, <2>2
<1>4. CASE ~(Len(path) =< 1)
  <2>1. path # RootPath
    BY <1>4 DEF RootPath
  <2>2. Len(path) \in Nat /\ Len(path) > 1 /\ Len(Front(path)) \in Nat
    BY <1>4, <2>1, PathFacts
  <2>3. parent = Walk(Front(path))
    BY <1>4 DEF ParentFromPath
  <2>4. \/ parent = NULL
        \/ \E j \in Index : /\ parent = table[j] /\ table[j].type = "DIR"
                            /\ RootKept => j \in Reached
    BY <2>2, <2>3, WalkFinds
  <2>5. parent \in Entry
    BY <2>4, NullEntry DEF TypeOK
  <2>6. ASSUME parent.type = "DIR", RootKept, p # NONE PROVE p \in Reached
    <3>1. parent # NULL
      BY <2>6 DEF NULL
    <3>2. PICK j \in Index : parent = table[j] /\ table[j].type = "DIR" /\ j \in Reached
      BY <2>4, <2>6, <3>1
    <3>3. table[p].type = "DIR" /\ table[p].parent = table[j].parent
      BY <1>1, <1>2, <2>5, <2>6, <3>2, SameFields
    <3>4. table[j].parent \in Reached
      BY <3>2, ReachedParent
    <3>5. p \in Used
      BY <1>1, <2>6, <3>3 DEF Used
    <3>6. QED
      BY <3>3, <3>4, <3>5, ReachedChild
  <2>7. QED
    BY <1>1, <2>5, <2>6
<1>5. QED
  BY <1>3, <1>4
-----------------------------------------------------------------------------
(* What a step does to the table.                                          *)

Entered(i, e) ==
  /\ pc = "idle" /\ pc' = "entered"
  /\ table[i].type = "NULL" /\ table' = [table EXCEPT ![i] = e]
  /\ e.type # "NULL" /\ e.status = 0
  /\ RootKept /\ e.parent # NONE => e.parent \in Reached
  /\ UNCHANGED <<max_used, rootdir>>

Relabelled(i, name) ==
  /\ table' = [table EXCEPT ![i].name = name]
  /\ UNCHANGED <<max_used, rootdir, pc>>

Freed(i) ==
  /\ table' = [table EXCEPT ![i] = NULL]
  /\ UNCHANGED <<max_used, rootdir, pc>>

StepOfTable ==
  \/ \E i \in Index, e \in Entry : Entered(i, e)
  \/ \E i \in Index, name \in Field : Relabelled(i, name)
  \/ \E i \in Index : Freed(i)
  \/ Overrun
  \/ InfoWrite
  \/ Mount
  \/ UNCHANGED vars

LEMMA CreateStep ==
  ASSUME TypeOK, RootAlone, NEW type \in Type, NEW path \in Paths \cup {RootPath}, Create(path, type)
  PROVE  \E i \in Index, e \in Entry : Entered(i, e)
<1> DEFINE parent == ParentFromPath(path)
           p      == IndexOf(parent)
<1>1. PICK i \in FreeIndex, field \in Stack :
        table' = [table EXCEPT ![i] =
          [type |-> type, name |-> StrCpy(field, Last(path)), parent |-> p, status |-> 0]]
  BY DEF Create
<1>2. i \in Index /\ table[i].type = "NULL"
  BY DEF FreeIndex, Least
<1>3. /\ p \in Index \cup {NONE}
      /\ parent.type = "DIR" /\ RootKept /\ p # NONE => p \in Reached
  BY ParentIndex
<1>4. StrCpy(field, Last(path)) \in Field
  BY LastFits, NamesFit, StrCpyField DEF Create
<1> DEFINE e == [type |-> type, name |-> StrCpy(field, Last(path)), parent |-> p, status |-> 0]
<1>5. e \in Entry
  BY <1>3, <1>4 DEF Entry
<1>6. pc = "idle" /\ pc' = "entered" /\ parent.type = "DIR" /\ UNCHANGED <<max_used, rootdir>>
  BY DEF Create
<1>7. Entered(i, e)
  <2>1. e.type # "NULL" /\ e.status = 0 /\ e.parent = p
    BY DEF Type
  <2>2. table' = [table EXCEPT ![i] = e]
    BY <1>1
  <2> HIDE DEF e, p
  <2>3. QED
    BY <1>2, <1>3, <1>6, <2>1, <2>2 DEF Entered
<1> HIDE DEF e
<1>8. QED
  BY <1>2, <1>5, <1>7

LEMMA FoundIsEntry ==
  ASSUME TypeOK, NEW path, NEW type
  PROVE  GetByName(path, type) \in Entry
<1> DEFINE parent == ParentFromPath(path)
           found == Least(Named(parent, Last(path), type))
<1>1. CASE path = RootPath /\ type = "DIR"
  BY <1>1 DEF GetByName, TypeOK
<1>2. CASE ~(path = RootPath /\ type = "DIR") /\ (parent.type # "DIR" \/ found = {})
  BY <1>2, NullEntry DEF GetByName
<1>3. CASE ~(path = RootPath /\ type = "DIR") /\ ~(parent.type # "DIR" \/ found = {})
  <2>1. GetByName(path, type) = table[CHOOSE i \in found : TRUE]
    BY <1>3 DEF GetByName
  <2>2. (CHOOSE i \in found : TRUE) \in found
    BY <1>3
  <2>3. found \subseteq Index
    BY DEF Least, Named, Seen
  <2>4. QED
    BY <2>1, <2>2, <2>3 DEF TypeOK
<1>4. QED
  BY <1>1, <1>2, <1>3

LEMMA RenameStep ==
  ASSUME TypeOK, NEW path, NEW type, NEW name \in Name, Rename(path, type, name)
  PROVE  \E i \in Index, n \in Field : Relabelled(i, n)
<1> DEFINE e == GetByName(path, type)
           i == IndexOf(e)
           n == StrCpy(e.name, name)
<1>1. i # NONE /\ table' = [table EXCEPT ![i].name = n] /\ UNCHANGED <<max_used, rootdir, pc>>
  BY DEF Rename, Renamed
<1>2. i \in Index
  BY <1>1, IndexFound DEF Seen
<1>3. e.name \in Field
  BY FoundIsEntry DEF Entry
<1>4. n \in Field
  <2>1. \A k \in 1 .. WIDTH : e.name[k] \in Char
    BY <1>3 DEF Field
  <2>2. Len(name) \in 0 .. WIDTH /\ \A k \in 1 .. Len(name) : name[k] \in Char
    BY NamesFit
  <2> HIDE DEF e
  <2>3. QED
    BY <2>1, <2>2, StrCpyField
<1> HIDE DEF i, n
<1>5. QED
  BY <1>1, <1>2, <1>4 DEF Relabelled

LEMMA DeleteStep ==
  ASSUME NEW path, NEW type, Delete(path, type)
  PROVE  \E i \in Index : Freed(i)
<1> DEFINE i == IndexOf(GetByName(path, type))
<1>1. i # NONE /\ table' = [table EXCEPT ![i] = NULL] /\ UNCHANGED <<max_used, rootdir, pc>>
  BY DEF Delete, Deleted
<1>2. i \in Index
  BY <1>1, IndexFound DEF Seen
<1> HIDE DEF i
<1>3. QED
  BY <1>1, <1>2 DEF Freed

LEMMA Steps ==
  ASSUME TypeOK, RootAlone, [Next]_vars
  PROVE  StepOfTable
<1>1. ASSUME NEW type \in Type, NEW path \in Paths \cup {RootPath},
             Create(path, type) \/ Copy(path, type)
      PROVE  StepOfTable
  BY <1>1, CreateStep DEF Copy, StepOfTable
<1>2. ASSUME NEW type \in Type, NEW path \in Found(type), Delete(path, type)
      PROVE  StepOfTable
  BY <1>2, DeleteStep DEF StepOfTable
<1>3. ASSUME NEW type \in Type, NEW path \in Found(type), NEW name \in Name,
             Rename(path, type, name)
      PROVE  StepOfTable
  BY <1>3, RenameStep DEF StepOfTable
<1>4. CASE Overrun \/ InfoWrite \/ Mount \/ UNCHANGED vars
  BY <1>4 DEF StepOfTable
<1>5. QED
  BY <1>1, <1>2, <1>3, <1>4 DEF Next
-----------------------------------------------------------------------------
(* The invariant.                                                          *)

Sane == TypeOK /\ RootAlone /\ (RootKept => WellFounded)

LEMMA InitSane == Init => Sane
<1> SUFFICES ASSUME Init PROVE Sane
  OBVIOUS
<1>0. 0 \in Index /\ MAX \in Nat /\ MAX > 0
  BY DirectoriesAssumption DEF Index
<1>1. Root \in Entry
  <2>1. \A k \in 1 .. WIDTH : Blank[k] \in Char
    BY NamesFit DEF Field
  <2>2. Len(LABEL) \in 0 .. WIDTH /\ \A k \in 1 .. Len(LABEL) : LABEL[k] \in Char
    BY NamesFit
  <2>3. StrCpy(Blank, LABEL) \in Field
    BY <2>1, <2>2, StrCpyField
  <2>4. QED
    BY <1>0, <2>3 DEF Root, Entry, Type
<1>2. table = [i \in Index |-> IF i = 0 THEN Root ELSE NULL] /\ rootdir = Root
  BY DEF Init
<1>3. \A i \in Index : table[i] = IF i = 0 THEN Root ELSE NULL
  BY <1>2
<1>4. TypeOK
  BY <1>0, <1>1, <1>2, NullEntry DEF TypeOK, Init
<1>5. RootAlone
  BY <1>0, <1>2, <1>3 DEF RootAlone, Root, NULL
<1>6. WellFounded
  <2>1. Used \ {0} = {}
    BY <1>3 DEF Used, NULL
  <2>2. QED
    BY <2>1 DEF WellFounded
<1>7. QED
  BY <1>4, <1>5, <1>6 DEF Sane

\* Types.
LEMMA TypeStep ==
  ASSUME TypeOK, RootAlone, StepOfTable
  PROVE  TypeOK'
<1>1. ASSUME NEW i \in Index, NEW e \in Entry, Entered(i, e) PROVE TypeOK'
  BY <1>1 DEF Entered, TypeOK
<1>2. ASSUME NEW i \in Index, NEW name \in Field, Relabelled(i, name) PROVE TypeOK'
  <2>1. [table[i] EXCEPT !.name = name] \in Entry
    BY DEF TypeOK, Entry
  <2>2. table' = [table EXCEPT ![i] = [table[i] EXCEPT !.name = name]]
    BY <1>2 DEF Relabelled, TypeOK
  <2>3. table' \in [Index -> Entry]
    BY <2>1, <2>2 DEF TypeOK
  <2>4. QED
    BY <1>2, <2>3 DEF TypeOK, Relabelled
<1>3. ASSUME NEW i \in Index, Freed(i) PROVE TypeOK'
  BY <1>3, NullEntry DEF Freed, TypeOK
<1>4. CASE InfoWrite
  BY <1>4, MaxUsedCovers DEF InfoWrite, TypeOK
<1>5. CASE Mount
  <2>1. table[0] \in Entry
    BY DirectoriesAssumption DEF TypeOK, Index
  <2>2. QED
    BY <1>5, <2>1, MaxUsedCovers DEF Mount, MountInfo, TypeOK
<1>6. CASE Overrun \/ UNCHANGED vars
  BY <1>6 DEF TypeOK, Overrun, vars
<1>7. QED
  BY <1>1, <1>2, <1>3, <1>4, <1>5, <1>6 DEF StepOfTable

\* Only the root has a status, and it keeps what fs_root_create gave it.
LEMMA RootAloneStep ==
  ASSUME TypeOK, RootAlone, StepOfTable
  PROVE  RootAlone'
<1>0. 0 \in Index /\ table \in [Index -> Entry]
  BY DirectoriesAssumption DEF TypeOK, Index
<1>1. ASSUME NEW i \in Index, NEW e \in Entry, Entered(i, e) PROVE RootAlone'
  <2>1. table'[i] = e /\ \A j \in Index \ {i} : table'[j] = table[j]
    BY <1>0, <1>1 DEF Entered
  <2>2. e.status = 0 /\ rootdir' = rootdir
    BY <1>1 DEF Entered
  <2>3. RootKept' => i # 0
    BY <2>1, <2>2 DEF RootKept
  <2>4. QED
    BY <1>0, <2>1, <2>2, <2>3 DEF RootAlone, RootKept
<1>2. ASSUME NEW i \in Index, NEW name \in Field, Relabelled(i, name) PROVE RootAlone'
  <2>1. \A j \in Index : /\ table'[j].status = table[j].status
                         /\ table'[j].type = table[j].type
                         /\ table'[j].parent = table[j].parent
    BY <1>0, <1>2 DEF Relabelled, Entry
  <2>2. rootdir' = rootdir
    BY <1>2 DEF Relabelled
  <2>3. QED
    BY <1>0, <2>1, <2>2 DEF RootAlone, RootKept
<1>3. ASSUME NEW i \in Index, Freed(i) PROVE RootAlone'
  <2>1. table'[i] = NULL /\ \A j \in Index \ {i} : table'[j] = table[j]
    BY <1>0, <1>3 DEF Freed
  <2>2. NULL.status = 0 /\ rootdir' = rootdir
    BY <1>3 DEF Freed, NULL
  <2>3. RootKept' => i # 0
    BY <2>1, <2>2 DEF RootKept
  <2>4. QED
    BY <1>0, <2>1, <2>2, <2>3 DEF RootAlone, RootKept
<1>4. CASE InfoWrite
  BY <1>4 DEF InfoWrite, RootAlone, RootKept
<1>5. CASE Mount
  BY <1>5 DEF Mount, RootAlone, RootKept
<1>6. CASE Overrun \/ UNCHANGED vars
  BY <1>6 DEF RootAlone, RootKept, Overrun, vars
<1>7. QED
  BY <1>1, <1>2, <1>3, <1>4, <1>5, <1>6 DEF StepOfTable

\* A new entry closes no circle: those above its parent have been there before it.
LEMMA WellFoundedCreate ==
  ASSUME TypeOK, RootAlone, RootKept, WellFounded, NEW i \in Index \ {0}, NEW e \in Entry, Entered(i, e)
  PROVE  WellFounded'
<1>1. table'[i] = e /\ \A j \in Index \ {i} : table'[j] = table[j]
  BY DEF Entered, TypeOK
<1>2. i \notin Used /\ Used' = Used \cup {i}
  BY <1>1 DEF Used, Entered
<1> SUFFICES ASSUME NEW X \in SUBSET (Used' \ {0}), X # {}
             PROVE  \E j \in X : table'[j].parent \notin X
  BY DEF WellFounded
<1>3. CASE i \notin X
  <2>1. X \in SUBSET (Used \ {0})
    BY <1>2, <1>3
  <2>2. PICK j \in X : table[j].parent \notin X
    BY <2>1 DEF WellFounded
  <2>3. j \in Index \ {i}
    BY <1>3, <2>1 DEF Used
  <2>4. QED
    BY <1>1, <2>2, <2>3
<1>4. CASE i \in X /\ e.parent \notin X
  BY <1>1, <1>4
<1>5. CASE i \in X /\ e.parent \in X
  <2>1. e.parent \in Index
    BY <1>5 DEF Used
  <2>2. e.parent \in Reached
    <3>1. e.parent # NONE
      BY <2>1, DirectoriesAssumption DEF Index, NONE
    <3>2. QED
      BY <3>1 DEF Entered
  <2>3. PICK C \in SUBSET Used : e.parent \in C /\ \A k \in C : table[k].parent \in C
    BY <2>2 DEF Reached
  <2> DEFINE Y == X \cap C
  <2>4. Y \in SUBSET (Used \ {0}) /\ Y # {}
    BY <1>5, <2>3
  <2>5. PICK j \in Y : table[j].parent \notin Y
    BY <2>4 DEF WellFounded
  <2>6. table[j].parent \notin X
    BY <2>3, <2>5
  <2>7. j \in Index \ {i}
    BY <1>2, <2>4 DEF Used
  <2>8. QED
    BY <1>1, <2>5, <2>6, <2>7
<1>6. QED
  BY <1>3, <1>4, <1>5

\* Removing entries and naming them anew closes none either.
LEMMA WellFoundedKept ==
  ASSUME WellFounded, Used' \subseteq Used, \A j \in Used' : table'[j].parent = table[j].parent
  PROVE  WellFounded'
<1> SUFFICES ASSUME NEW X \in SUBSET (Used' \ {0}), X # {}
             PROVE  \E j \in X : table'[j].parent \notin X
  BY DEF WellFounded
<1>1. X \in SUBSET (Used \ {0})
  OBVIOUS
<1>2. PICK j \in X : table[j].parent \notin X
  BY <1>1 DEF WellFounded
<1>3. QED
  BY <1>2

LEMMA WellFoundedStep ==
  ASSUME TypeOK, RootAlone, RootKept => WellFounded, StepOfTable, RootKept'
  PROVE  WellFounded'
<1>0. 0 \in Index /\ table \in [Index -> Entry]
  BY DirectoriesAssumption DEF TypeOK, Index
<1>1. ASSUME NEW i \in Index, NEW e \in Entry, Entered(i, e) PROVE WellFounded'
  <2>1. table' = [table EXCEPT ![i] = e] /\ e.status = 0
    BY <1>1 DEF Entered
  <2>2. i # 0 /\ RootKept
    BY <1>0, <2>1 DEF RootKept
  <2>3. QED
    BY <1>1, <2>2, WellFoundedCreate
<1>2. ASSUME NEW i \in Index, NEW name \in Field, Relabelled(i, name) PROVE WellFounded'
  <2>1. \A j \in Index : /\ table'[j].status = table[j].status
                         /\ table'[j].type = table[j].type
                         /\ table'[j].parent = table[j].parent
    BY <1>0, <1>2 DEF Relabelled, Entry
  <2>2. RootKept /\ Used' = Used /\ Used \subseteq Index
    BY <1>0, <2>1 DEF RootKept, Used
  <2>3. QED
    BY <2>1, <2>2, WellFoundedKept
<1>3. ASSUME NEW i \in Index, Freed(i) PROVE WellFounded'
  <2>1. table'[i] = NULL /\ \A j \in Index \ {i} : table'[j] = table[j]
    BY <1>0, <1>3 DEF Freed
  <2>2. NULL.status = 0 /\ NULL.type = "NULL"
    BY DEF NULL
  <2>3. i # 0 /\ RootKept
    BY <1>0, <2>1, <2>2 DEF RootKept
  <2>4. Used' = Used \ {i} /\ Used \subseteq Index
    BY <2>1, <2>2 DEF Used
  <2>5. QED
    BY <2>1, <2>3, <2>4, WellFoundedKept
<1>4. CASE Overrun \/ InfoWrite \/ Mount \/ UNCHANGED vars
  <2>1. table' = table
    BY <1>4 DEF Overrun, InfoWrite, Mount, vars
  <2>2. RootKept /\ Used' = Used
    BY <2>1 DEF RootKept, Used
  <2>3. QED
    BY <2>1, <2>2, WellFoundedKept
<1>5. QED
  BY <1>1, <1>2, <1>3, <1>4 DEF StepOfTable

\* No sequence of operations gives an entry a parent that is neither in the table nor -1,
\* gives the root's status to another entry, or closes a circle of directories while entry 0
\* is the root's, whatever the name fields of local variables held (filesys.c, vfs.c).
THEOREM DirectoriesSane == Spec => []Sane
<1>1. Sane /\ [Next]_vars => Sane'
  <2> SUFFICES ASSUME Sane, [Next]_vars PROVE Sane'
    OBVIOUS
  <2>1. TypeOK /\ RootAlone /\ (RootKept => WellFounded) /\ StepOfTable
    BY Steps DEF Sane
  <2>2. TypeOK'
    BY <2>1, TypeStep
  <2>3. RootAlone'
    BY <2>1, RootAloneStep
  <2>4. (RootKept => WellFounded)'
    BY <2>1, WellFoundedStep
  <2>5. QED
    BY <2>2, <2>3, <2>4 DEF Sane
<1>2. QED
  BY InitSane, <1>1, PTL DEF Spec

\* Types: a parent is an index of the table or -1, and max_used stays within the sectors of
\* the table, although fs_get_dir_index may find nothing and names may have no end: what an
\* uninitialised field holds is arbitrary (filesys.c, vfs.c).
THEOREM DirectoriesTyped == Spec => []TypeOK
<1>1. Sane => TypeOK
  BY DEF Sane
<1>2. QED
  BY DirectoriesSane, <1>1, PTL

-----------------------------------------------------------------------------
(* What the searches see.                                                  *)

LEMMA SeenStep ==
  ASSUME TypeOK, EveryEntrySeen, StepOfTable
  PROVE  EveryEntrySeen'
<1>0. table \in [Index -> Entry]
  BY DEF TypeOK
<1>1. ASSUME NEW i \in Index, NEW e \in Entry, Entered(i, e) PROVE EveryEntrySeen'
  BY <1>1 DEF Entered, EveryEntrySeen
<1>2. ASSUME NEW i \in Index, NEW name \in Field, Relabelled(i, name) PROVE EveryEntrySeen'
  <2>1. \A j \in Index : table'[j].type = table[j].type
    BY <1>0, <1>2 DEF Relabelled, Entry
  <2>2. Used' = Used /\ Seen' = Seen /\ pc' = pc
    BY <1>2, <2>1 DEF Used, Seen, Relabelled
  <2>3. QED
    BY <2>2 DEF EveryEntrySeen
<1>3. ASSUME NEW i \in Index, Freed(i) PROVE EveryEntrySeen'
  <2>1. table'[i] = NULL /\ \A j \in Index \ {i} : table'[j] = table[j]
    BY <1>0, <1>3 DEF Freed
  <2>2. NULL.type = "NULL"
    BY DEF NULL
  <2>3. Used' \subseteq Used /\ Seen' = Seen /\ pc' = pc
    BY <1>3, <2>1, <2>2 DEF Used, Seen, Freed
  <2>4. QED
    BY <2>3 DEF EveryEntrySeen
<1>4. CASE InfoWrite \/ Mount
  <2>1. table' = table /\ max_used' = MaxUsed(table)
    BY <1>4 DEF InfoWrite, Mount, MountInfo
  <2>2. \A j \in Index : table'[j].type # "NULL" => Sector(j) < max_used'
    BY <2>1, MaxUsedCovers
  <2>3. QED
    BY <2>2 DEF EveryEntrySeen, Used, Seen
<1>5. CASE UNCHANGED vars
  BY <1>5 DEF EveryEntrySeen, Used, Seen, vars
<1>6. CASE Overrun
  BY <1>6 DEF EveryEntrySeen, Overrun
<1>7. QED
  BY <1>1, <1>2, <1>3, <1>4, <1>5, <1>6 DEF StepOfTable

\* No crash between the write of an entry and that of the information sector, no deletion
\* and no mount leaves an entry behind the last sector that is searched.
THEOREM EntriesStaySeen == Spec => []EveryEntrySeen
<1>1. Init => EveryEntrySeen
  <2> SUFFICES ASSUME Init PROVE EveryEntrySeen
    OBVIOUS
  <2>1. \A i \in Index : table[i].type # "NULL" => i = 0
    BY DEF Init, NULL
  <2>2. 0 \in Index => Sector(0) < 1
    BY DirectoriesAssumption DEF Sector
  <2>3. max_used = 1
    BY DEF Init
  <2>4. QED
    BY <2>1, <2>2, <2>3 DEF EveryEntrySeen, Used, Seen
<1>2. Sane /\ EveryEntrySeen /\ [Next]_vars => EveryEntrySeen'
  BY Steps, SeenStep DEF Sane
<1>3. QED
  BY DirectoriesSane, <1>1, <1>2, PTL DEF Spec

-----------------------------------------------------------------------------
(* Circles.                                                                *)

\* The entries between i, the first of them, and x, which lies n steps above it, unless the
\* way has come to the root.
Between(i, n, x) ==
  \/ x = 0
  \/ \E P \in SUBSET (Used \ {0}) :
       /\ IF n = 0 THEN x = i /\ P = {} ELSE i \in P
       /\ \A j \in P : table[j].parent \in P \cup {x}

LEMMA BetweenStep ==
  ASSUME RootAlone, RootKept, NEW i \in Used, NEW n \in Nat, NEW j \in Used, Between(i, n, j)
  PROVE  Between(i, n + 1, table[j].parent)
<1>1. CASE j = 0
  BY <1>1 DEF RootAlone, Between
<1>2. CASE j # 0
  <2>1. PICK P \in SUBSET (Used \ {0}) :
          /\ IF n = 0 THEN j = i /\ P = {} ELSE i \in P
          /\ \A k \in P : table[k].parent \in P \cup {j}
    BY <1>2 DEF Between
  <2> DEFINE Q == P \cup {j}
  <2>2. Q \in SUBSET (Used \ {0}) /\ i \in Q
    BY <1>2, <2>1
  <2>3. \A k \in Q : table[k].parent \in Q \cup {table[j].parent}
    BY <2>1
  <2>4. n + 1 # 0
    OBVIOUS
  <2> HIDE DEF Q
  <2>5. QED
    BY <2>2, <2>3, <2>4 DEF Between
<1>3. QED
  BY <1>1, <1>2

LEMMA AncestorsAbove ==
  ASSUME TypeOK, RootAlone, RootKept, NEW i \in Used, NEW x \in Ancestors(i)
  PROVE  \E n \in 1 .. MAX : Between(i, n, x)
<1> DEFINE D == SUBSET (Index \cup {NONE})
           Step(y) == {table[j].parent : j \in y \cap Used}
           a == {i}
           g == [q \in (1 .. MAX) \X D |-> Step(q[2])]
<1>0. MAX \in Nat
  BY DirectoriesAssumption
<1>1. a \in D
  BY DEF Used
<1>2. ASSUME NEW y \in D PROVE Step(y) \in D
  BY DEF Used, TypeOK, Entry
<1>3. \A n \in 1 .. MAX : \A y \in D : g[<<n, y>>] = Step(y)
  OBVIOUS
<1>4. g \in [(1 .. MAX) \X D -> D]
  <2> HIDE DEF Step, D
  <2>1. QED
    BY <1>2
<1> HIDE DEF a, g, D
<1>5. PICK f \in [0 .. MAX -> D] : Iterates(f, MAX, a, g)
  BY <1>0, <1>1, <1>4, Iteration
<1>6. \A n \in 0 .. MAX : f[n] = IF n = 0 THEN a ELSE Step(f[n - 1])
  <2> TAKE n \in 0 .. MAX
  <2>1. CASE n = 0
    BY <2>1, <1>5 DEF Iterates
  <2>2. CASE n # 0
    <3>1. n \in 1 .. MAX /\ n - 1 \in 0 .. MAX
      BY <2>2, <1>0
    <3> HIDE DEF Step
    <3>2. f[n] = g[<<n, f[n - 1]>>] /\ f[n - 1] \in D
      BY <1>5, <3>1 DEF Iterates
    <3>3. QED
      BY <1>3, <2>2, <3>1, <3>2
  <2>3. QED
    BY <2>1, <2>2
<1> DEFINE up[n \in 0 .. MAX] ==
        IF n = 0 THEN {i} ELSE {table[j].parent : j \in up[n - 1] \cap Used}
<1>7. f = [n \in 0 .. MAX |-> IF n = 0 THEN {i} ELSE {table[j].parent : j \in f[n - 1] \cap Used}]
  BY <1>6 DEF a
<1>8. up = [n \in 0 .. MAX |-> IF n = 0 THEN {i} ELSE {table[j].parent : j \in up[n - 1] \cap Used}]
  BY <1>7
<1>9. Ancestors(i) = UNION {up[n] : n \in 1 .. MAX}
  BY DEF Ancestors
<1> HIDE DEF up
<1> DEFINE S == {n \in 0 .. MAX : \A y \in up[n] : Between(i, n, y)}
<1>10. 0 \in S
  <2>1. up[0] = {i}
    BY <1>0, <1>8
  <2>2. Between(i, 0, i)
    BY DEF Between
  <2>3. QED
    BY <1>0, <2>1, <2>2
<1>11. \A n \in 0 .. MAX - 1 : n \in S => n + 1 \in S
  <2> SUFFICES ASSUME NEW n \in 0 .. MAX - 1, \A y \in up[n] : Between(i, n, y),
                      NEW x1 \in up[n + 1]
               PROVE  Between(i, n + 1, x1)
    BY <1>0
  <2>1. n \in Nat /\ n + 1 # 0 /\ (n + 1) - 1 = n /\ n + 1 \in 0 .. MAX
    BY <1>0
  <2>2. up[n + 1] = {table[j].parent : j \in up[n] \cap Used}
    BY <1>8, <2>1
  <2>3. PICK j \in up[n] \cap Used : x1 = table[j].parent
    BY <2>2
  <2>4. QED
    BY <2>1, <2>3, BetweenStep
<1> HIDE DEF S
<1>12. 0 .. MAX \subseteq S
  BY <1>0, <1>10, <1>11, UpTo
<1>13. PICK n \in 1 .. MAX : x \in up[n]
  BY <1>9
<1>14. n \in S
  BY <1>0, <1>12
<1>15. QED
  BY <1>13, <1>14 DEF S

\* No directory comes to lie in itself: whatever is created, renamed and deleted, and
\* wherever the machine stops, the way up from an entry does not lead back to it, as long as
\* entry 0 is the root directory's (fs_filetable_freeindex, vfs_create_dir).
THEOREM NoDirectoryInItself == Spec => []Acyclic
<1>1. Sane => Acyclic
  <2> SUFFICES ASSUME Sane, RootKept, NEW i \in Used \ {0}, i \in Ancestors(i)
               PROVE  FALSE
    BY DEF Acyclic, RootKept
  <2>1. TypeOK /\ RootAlone /\ WellFounded
    BY DEF Sane
  <2>2. PICK n \in 1 .. MAX : Between(i, n, i)
    BY <2>1, AncestorsAbove
  <2>3. n # 0
    OBVIOUS
  <2>4. PICK P \in SUBSET (Used \ {0}) : i \in P /\ \A j \in P : table[j].parent \in P \cup {i}
    BY <2>2, <2>3 DEF Between
  <2>5. PICK j \in P : table[j].parent \notin P
    BY <2>1, <2>4 DEF WellFounded
  <2>6. QED
    BY <2>4, <2>5
<1>2. QED
  BY DirectoriesSane, <1>1, PTL
-----------------------------------------------------------------------------
(* Paths in an orderly table.                                              *)

\* The root directory has the label's name: the field was one of zeros, and has an end.
LEMMA LabelIsRoots == NameOf(Root) = LABEL
<1> DEFINE n == Len(LABEL)
           f == StrCpy(Blank, LABEL)
           end == CHOOSE k \in 1 .. WIDTH : f[k] = NUL /\ \A l \in 1 .. k - 1 : f[l] # NUL
<1>0. LABEL = SubSeq(LABEL, 1, n)
  BY DirectoriesAssumption
<1>1. WIDTH \in Nat /\ n \in 1 .. WIDTH - 1 /\ (\A k \in 1 .. n : LABEL[k] # NUL)
  BY EntryNameAssumption, DirectoriesAssumption DEF Fits
<1>2. f = [k \in 1 .. WIDTH |-> IF k =< n THEN LABEL[k] ELSE NUL]
  BY DEF StrCpy, Blank
<1>2a. \A k \in 1 .. WIDTH : f[k] = IF k =< n THEN LABEL[k] ELSE NUL
  BY <1>2
<1>2b. Ended(f) => Str(f) = SubSeq(f, 1, end - 1)
  BY DEF Str
<1>2c. Root.name = f /\ Root.parent = 0
  BY DEF Root
<1> HIDE DEF n, f
<1>3. \A k \in 1 .. WIDTH : (f[k] = NUL /\ \A l \in 1 .. k - 1 : f[l] # NUL) <=> k = n + 1
  <2> TAKE k \in 1 .. WIDTH
  <2>1. CASE k =< n
    BY <1>1, <1>2a, <2>1
  <2>2. CASE k = n + 1
    <3>1. ~(k =< n) /\ \A l \in 1 .. k - 1 : l \in 1 .. WIDTH /\ l \in 1 .. n
      BY <1>1, <2>2
    <3>2. QED
      BY <1>1, <1>2a, <2>2, <3>1
  <2>3. CASE k > n + 1
    <3>1. n + 1 \in 1 .. k - 1 /\ n + 1 \in 1 .. WIDTH /\ ~(n + 1 =< n)
      BY <1>1, <2>3
    <3>2. f[n + 1] = NUL
      BY <1>2a, <3>1
    <3>3. QED
      BY <2>3, <3>1, <3>2, <1>1
  <2>4. QED
    BY <1>1, <2>1, <2>2, <2>3
<1>4. n + 1 \in 1 .. WIDTH
  BY <1>1
<1>5. end = n + 1
  BY <1>3, <1>4
<1>6. Ended(f)
  BY <1>3, <1>4 DEF Ended
<1> HIDE DEF end
<1>7. Str(f) = SubSeq(f, 1, n)
  BY <1>1, <1>2b, <1>5, <1>6
<1>8. SubSeq(f, 1, n) = [k \in 1 .. n |-> LABEL[k]]
  <2> DEFINE S == {f[k] : k \in 1 .. WIDTH}
  <2>1. f \in [1 .. WIDTH -> S]
    BY <1>2
  <2> HIDE DEF S
  <2>2. f \in Seq(S) /\ Len(f) = WIDTH
    BY <1>1, <2>1
  <2>3. SubSeq(f, 1, n) = [k \in 1 .. n |-> f[k]]
    BY <1>1, <2>2
  <2>4. \A k \in 1 .. n : k \in 1 .. WIDTH /\ f[k] = LABEL[k]
    BY <1>1, <1>2a
  <2>5. QED
    BY <2>3, <2>4
<1>9. LABEL = [k \in 1 .. n |-> LABEL[k]]
  BY <1>0, <1>1
<1>10. NameOf(Root) = Str(f)
  BY <1>2c, <1>6 DEF NameOf
<1>11. QED
  BY <1>7, <1>8, <1>9, <1>10

\* The strings a path is made of.
Word == {NameOf(table[j]) : j \in Index} \cup {LABEL}

Bottom == [j \in Index |-> IF j = 0 THEN <<>> ELSE <<LABEL>>]

Level(x) ==
  [j \in Index |->
     IF j = 0 THEN <<>>
     ELSE IF table[j].parent \notin Dirs THEN <<LABEL>>
     ELSE Append(x[table[j].parent], NameOf(table[j]))]

\* PathOf, level by level.
LEMMA PathLevels ==
  \E up \in [0 .. MAX -> [Index -> Seq(Word)]] :
    /\ up[0] = Bottom
    /\ \A n \in 1 .. MAX : up[n] = Level(up[n - 1])
    /\ PathOf = up[MAX]
<1> DEFINE D == [Index -> Seq(Word)]
           g == [q \in (1 .. MAX) \X D |-> Level(q[2])]
<1>0. MAX \in Nat
  BY DirectoriesAssumption
<1>1. <<LABEL>> \in Seq(Word) /\ <<>> \in Seq(Word)
  BY DEF Word
<1>2. Bottom \in D
  BY <1>1 DEF Bottom
<1>3. ASSUME NEW x \in D PROVE Level(x) \in D
  <2>1. ASSUME NEW j \in Index, table[j].parent \in Dirs
        PROVE  Append(x[table[j].parent], NameOf(table[j])) \in Seq(Word)
    <3>1. x[table[j].parent] \in Seq(Word) /\ NameOf(table[j]) \in Word
      BY <2>1 DEF Dirs, Word
    <3>2. QED
      BY <3>1
  <2>2. QED
    BY <1>1, <2>1 DEF Level
<1>4. \A n \in 1 .. MAX : \A x \in D : g[<<n, x>>] = Level(x)
  OBVIOUS
<1>5. g \in [(1 .. MAX) \X D -> D]
  <2> HIDE DEF D
  <2>1. QED
    BY <1>3
<1> HIDE DEF g, D
<1>6. PICK f \in [0 .. MAX -> D] : Iterates(f, MAX, Bottom, g)
  BY <1>0, <1>2, <1>5, Iteration
<1>7. \A n \in 0 .. MAX : f[n] = IF n = 0 THEN Bottom ELSE Level(f[n - 1])
  <2> TAKE n \in 0 .. MAX
  <2>1. CASE n = 0
    BY <2>1, <1>6 DEF Iterates
  <2>2. CASE n # 0
    <3>1. n \in 1 .. MAX /\ n - 1 \in 0 .. MAX
      BY <2>2, <1>0
    <3>2. f[n] = g[<<n, f[n - 1]>>] /\ f[n - 1] \in D
      BY <1>6, <3>1 DEF Iterates
    <3>3. QED
      BY <1>4, <2>2, <3>1, <3>2
  <2>3. QED
    BY <2>1, <2>2
<1> DEFINE Line(n, x) ==
        [j \in Index |->
           IF j = 0 THEN <<>>
           ELSE IF n = 0 \/ table[j].parent \notin Dirs THEN <<LABEL>>
           ELSE Append(x[table[j].parent], NameOf(table[j]))]
           up[n \in 0 .. MAX] ==
        [j \in Index |->
           IF j = 0 THEN <<>>
           ELSE IF n = 0 \/ table[j].parent \notin Dirs THEN <<LABEL>>
           ELSE Append(up[n - 1][table[j].parent], NameOf(table[j]))]
<1>8. \A n \in 0 .. MAX : f[n] = Line(n, f[n - 1])
  <2> TAKE n \in 0 .. MAX
  <2>1. CASE n = 0
    <3>1. Line(0, f[0 - 1]) = Bottom
      BY DEF Bottom
    <3>2. QED
      BY <1>7, <2>1, <3>1
  <2>2. CASE n # 0
    <3>1. Line(n, f[n - 1]) = Level(f[n - 1])
      BY <2>2 DEF Level
    <3>2. QED
      BY <1>7, <2>2, <3>1
  <2>3. QED
    BY <2>1, <2>2
<1>9. f = [n \in 0 .. MAX |-> Line(n, f[n - 1])]
  <2> HIDE DEF Line
  <2>1. QED
    BY <1>8
<1>10. up = [n \in 0 .. MAX |-> Line(n, up[n - 1])]
  BY <1>9
<1>11. PathOf = up[MAX]
  BY DEF PathOf
<1> HIDE DEF up, Line
<1>12. \A n \in 0 .. MAX : f[n] = up[n]
  <2> DEFINE S == {n \in 0 .. MAX : f[n] = up[n]}
  <2>1. 0 \in S
    <3>1. f[0] = Line(0, f[0 - 1]) /\ up[0] = Line(0, up[0 - 1])
      BY <1>0, <1>9, <1>10
    <3>2. Line(0, f[0 - 1]) = Line(0, up[0 - 1])
      BY DEF Line
    <3>3. QED
      BY <1>0, <3>1, <3>2
  <2>2. \A n \in 0 .. MAX - 1 : n \in S => n + 1 \in S
    <3> TAKE n \in 0 .. MAX - 1
    <3>1. n + 1 \in 0 .. MAX /\ (n + 1) - 1 = n
      BY <1>0
    <3>2. f[n + 1] = Line(n + 1, f[n]) /\ up[n + 1] = Line(n + 1, up[n])
      BY <1>9, <1>10, <3>1
    <3>3. QED
      BY <3>1, <3>2
  <2> HIDE DEF S
  <2>3. 0 .. MAX \subseteq S
    BY <1>0, <2>1, <2>2, UpTo
  <2>4. QED
    BY <2>3 DEF S
<1>13. f[0] = Bottom /\ (\A n \in 1 .. MAX : f[n] = Level(f[n - 1])) /\ PathOf = f[MAX]
  <2>1. MAX \in 0 .. MAX /\ 0 \in 0 .. MAX /\ \A n \in 1 .. MAX : n \in 0 .. MAX /\ n # 0
    BY <1>0
  <2>2. QED
    BY <1>7, <1>11, <1>12, <2>1
<1>14. QED
  BY <1>13 DEF D

\* Where every entry lies in a directory, every one but the root has the path of its parent and its own
\* name behind it: MAX levels are enough for that, as the way up comes to the root before
\* it has seen more entries than there are.
Grown ==
  /\ TypeOK /\ WellFounded
  /\ table[0].type = "DIR" /\ table[0].parent = 0
  /\ \A j \in Used : table[j].parent \in Dirs

PathsUp ==
  /\ PathOf \in [Index -> Seq(Word)] /\ PathOf[0] = <<>>
  /\ \A j \in Used \ {0} : PathOf[j] = Append(PathOf[table[j].parent], NameOf(table[j]))

LEMMA PathsSettle == Grown => PathsUp
<1> SUFFICES ASSUME Grown PROVE PathsUp
  OBVIOUS
<1>0. MAX \in Nat /\ MAX > 0 /\ 0 \in Index
  BY DirectoriesAssumption DEF Index
<1>1. 0 \in Used /\ Used \subseteq Index /\ \A j \in Used : table[j].parent \in Dirs \cap Used
  BY <1>0 DEF Grown, Used, Dirs
<1>2. PICK up \in [0 .. MAX -> [Index -> Seq(Word)]] :
        /\ up[0] = Bottom
        /\ \A n \in 1 .. MAX : up[n] = Level(up[n - 1])
        /\ PathOf = up[MAX]
  BY PathLevels
<1>3. \A n \in 0 .. MAX : up[n][0] = <<>>
  <2> TAKE n \in 0 .. MAX
  <2>1. n = 0 \/ n \in 1 .. MAX
    BY <1>0
  <2>2. QED
    BY <1>0, <1>2, <2>1 DEF Bottom, Level
<1>4. \A n \in 1 .. MAX : \A j \in Used \ {0} :
        up[n][j] = Append(up[n - 1][table[j].parent], NameOf(table[j]))
  BY <1>1, <1>2 DEF Level
<1> DEFINE Fixed(n, C) ==
      /\ C \in SUBSET Used /\ 0 \in C
      /\ \A j \in C : table[j].parent \in C /\ up[n][j] = up[n + 1][j]
           Large(n, C) == C = Used \/ (IsFiniteSet(C) /\ Cardinality(C) >= n + 1)
           S == {n \in 0 .. MAX - 1 : \E C : Fixed(n, C) /\ Large(n, C)}
<1>5. 0 \in S
  <2>1. Fixed(0, {0})
    <3>1. table[0].parent = 0
      BY DEF Grown
    <3>2. QED
      BY <1>0, <1>1, <1>3, <3>1
  <2>2. IsFiniteSet({0}) /\ Cardinality({0}) = 1
    BY FS_Singleton
  <2>3. Large(0, {0})
    BY <2>2
  <2> HIDE DEF Fixed, Large
  <2>4. QED
    BY <1>0, <2>1, <2>3
<1>6. \A n \in 0 .. (MAX - 1) - 1 : n \in S => n + 1 \in S
  <2> SUFFICES ASSUME NEW n \in 0 .. (MAX - 1) - 1, NEW C, Fixed(n, C), Large(n, C)
               PROVE  \E D : Fixed(n + 1, D) /\ Large(n + 1, D)
    <3> HIDE DEF Fixed, Large
    <3>1. QED
      BY <1>0
  <2>0. n + 1 \in 1 .. MAX /\ n + 2 \in 1 .. MAX /\ (n + 1) - 1 = n /\ (n + 2) - 1 = n + 1
        /\ (n + 1) + 1 = n + 2
    BY SMTT(30), <1>0
  <2>1. ASSUME NEW j \in Used, table[j].parent \in C PROVE up[n + 1][j] = up[n + 2][j]
    <3>1. CASE j = 0
      BY <1>0, <1>3, <2>0, <3>1
    <3>2. CASE j # 0
      <4>1. up[n + 1][j] = Append(up[n][table[j].parent], NameOf(table[j]))
        BY <1>4, <2>0, <3>2
      <4>2. up[n + 2][j] = Append(up[n + 1][table[j].parent], NameOf(table[j]))
        BY <1>4, <2>0, <3>2
      <4>3. up[n][table[j].parent] = up[n + 1][table[j].parent]
        BY <2>1
      <4>4. QED
        BY <4>1, <4>2, <4>3
    <3>3. QED
      BY <3>1, <3>2
  <2>2. CASE C = Used
    <3>1. Fixed(n + 1, C)
      BY <2>0, <2>1
    <3>2. QED
      BY <2>2, <3>1
  <2>3. CASE C # Used
    <3> DEFINE X == Used \ C
    <3>1. X \in SUBSET (Used \ {0}) /\ X # {}
      BY <2>3
    <3>2. PICK j \in X : table[j].parent \notin X
      BY <3>1 DEF Grown, WellFounded
    <3>3. j \in Used \ C /\ table[j].parent \in C
      BY <1>1, <3>2
    <3>4. Fixed(n + 1, C \cup {j})
      BY <2>0, <2>1, <3>3
    <3>5. IsFiniteSet(C \cup {j}) /\ Cardinality(C \cup {j}) = Cardinality(C) + 1
          /\ Cardinality(C) \in Nat
      BY <2>3, <3>3, FS_AddElement, FS_CardinalityType
    <3>6. Large(n + 1, C \cup {j})
      BY <2>3, <3>5
    <3> HIDE DEF Fixed, Large
    <3>7. QED
      BY <3>4, <3>6
  <2>4. QED
    BY <2>2, <2>3
<1>7. MAX - 1 \in S
  <2>1. MAX - 1 \in Nat
    BY <1>0
  <2> HIDE DEF S
  <2>2. 0 .. MAX - 1 \subseteq S
    BY <1>5, <1>6, <2>1, UpTo
  <2>3. QED
    BY <2>1, <2>2
<1>8. PICK C : Fixed(MAX - 1, C) /\ Large(MAX - 1, C)
  BY <1>7
<1>9. C = Used
  <2>1. SUFFICES ASSUME IsFiniteSet(C), Cardinality(C) >= MAX PROVE C = Used
    BY <1>0, <1>8
  <2>2. IsFiniteSet(Index) /\ Cardinality(Index) = MAX
    BY <1>0, FS_Interval DEF Index
  <2>3. C \in SUBSET Index /\ C \subseteq Used
    BY <1>1, <1>8
  <2>4. Cardinality(C) =< Cardinality(Index) /\ (Cardinality(Index) = Cardinality(C) => Index = C)
    BY <2>2, <2>3, FS_Subset
  <2>5. Cardinality(C) \in Nat
    BY <2>1, FS_CardinalityType
  <2>6. Cardinality(Index) = Cardinality(C)
    BY <1>0, <2>1, <2>2, <2>4, <2>5
  <2>7. Index = C
    BY <2>4, <2>6
  <2>8. QED
    BY <1>1, <2>3, <2>7
<1>10. \A j \in Used : up[MAX - 1][j] = up[MAX][j]
  BY <1>0, <1>8, <1>9
<1>11. ASSUME NEW j \in Used \ {0}
       PROVE  PathOf[j] = Append(PathOf[table[j].parent], NameOf(table[j]))
  <2>1. MAX \in 1 .. MAX
    BY <1>0
  <2>2. up[MAX][j] = Append(up[MAX - 1][table[j].parent], NameOf(table[j]))
    BY <1>4, <2>1
  <2>3. up[MAX - 1][table[j].parent] = up[MAX][table[j].parent]
    BY <1>1, <1>10
  <2>4. QED
    BY <1>2, <2>2, <2>3
<1>12. QED
  BY <1>0, <1>2, <1>3, <1>11 DEF PathsUp

\* In an orderly table the names in a directory tell its entries of a kind apart.
LEMMA NamedOnce ==
  ASSUME TypeOK, Orderly, NEW i \in Used, NEW j \in Used, table[i].parent = table[j].parent,
         table[i].type = table[j].type, NameOf(table[i]) = NameOf(table[j]),
         NameOf(table[i]) # LABEL
  PROVE  i = j
<1>1. table[0] = Root
  BY DEF Orderly, RootIntact
<1>2. i # 0 /\ j # 0
  BY <1>1, LabelIsRoots
<1>3. QED
  BY <1>2 DEF Orderly

\* A scan of an orderly table finds the directory of that name in directory p, and nothing
\* behind it: no directory in the one found has the same name.
LEMMA ScanExact ==
  ASSUME TypeOK, Orderly, Used \subseteq Seen, NEW d \in Dirs, NameOf(table[d]) # LABEL
  PROVE  Scan(table[d].parent, NameOf(table[d])) = [p |-> d, out |-> table[d]]
<1> DEFINE p == table[d].parent
           name == NameOf(table[d])
           R(i) == IF d < i THEN [p |-> d, out |-> table[d]] ELSE [p |-> p, out |-> NULL]
           h == [i \in 0 .. MAX |-> R(i)]
           Hit(i, q) == i - 1 \in Seen /\ table[i - 1].type = "DIR" /\ table[i - 1].parent = q
                        /\ NameOf(table[i - 1]) = name
<1>0. MAX \in Nat /\ d \in Index /\ d \in Used /\ table[d].type = "DIR" /\ d \in Nat /\ d < MAX
  BY DirectoriesAssumption DEF Dirs, Used, Index
<1>1. ASSUME NEW i \in 1 .. MAX, NEW q, Hit(i, q) PROVE i - 1 \in Dirs /\ i - 1 \in Used \ {0}
  <2>1. i - 1 \in Dirs /\ i - 1 \in Used
    BY <1>1 DEF Seen, Dirs, Used
  <2>2. table[0] = Root
    BY DEF Orderly, RootIntact
  <2>3. QED
    BY <1>1, <2>1, <2>2, LabelIsRoots
<1>2. ASSUME NEW i \in 1 .. MAX PROVE Hit(i, p) <=> d = i - 1
  <2>1. ASSUME Hit(i, p) PROVE d = i - 1
    BY <1>0, <1>1, <2>1, NamedOnce DEF Dirs
  <2>2. ASSUME d = i - 1 PROVE Hit(i, p)
    BY <1>0, <2>2
  <2>3. QED
    BY <2>1, <2>2
<1>3. ASSUME NEW i \in 1 .. MAX PROVE ~Hit(i, d)
  <2> SUFFICES ASSUME Hit(i, d) PROVE FALSE
    OBVIOUS
  <2>1. i - 1 \in Dirs \ {0} /\ table[i - 1].parent = d /\ NameOf(table[i - 1]) = name
    BY <1>1
  <2>2. QED
    BY <2>1 DEF Orderly
<1>4. ASSUME NEW i \in 1 .. MAX
      PROVE  R(i) = IF Hit(i, R(i - 1).p) THEN [p |-> i - 1, out |-> table[i - 1]] ELSE R(i - 1)
  <2> HIDE DEF Hit, p, name
  <2>1. CASE d < i - 1
    <3>1. R(i - 1) = [p |-> d, out |-> table[d]] /\ R(i) = R(i - 1)
      BY <1>0, <2>1
    <3>2. R(i - 1).p = d
      BY <3>1
    <3> HIDE DEF R
    <3>3. QED
      BY <1>3, <3>1, <3>2
  <2>2. CASE ~(d < i - 1)
    <3>1. R(i - 1) = [p |-> p, out |-> NULL] /\ R(i - 1).p = p
      BY <2>2
    <3>2. CASE d = i - 1
      <4>1. R(i) = [p |-> i - 1, out |-> table[i - 1]]
        BY <1>0, <3>2
      <4> HIDE DEF R
      <4>2. QED
        BY <1>2, <3>1, <3>2, <4>1
    <3>3. CASE d # i - 1
      <4>1. R(i) = R(i - 1)
        BY <1>0, <2>2, <3>3
      <4> HIDE DEF R
      <4>2. QED
        BY <1>2, <3>1, <3>3, <4>1
    <3>4. QED
      BY <3>2, <3>3
  <2>3. QED
    BY <2>1, <2>2
<1>5. R(0) = [p |-> p, out |-> NULL] /\ R(MAX) = [p |-> d, out |-> table[d]]
  BY <1>0
<1> DEFINE after[i \in 0 .. MAX] ==
        IF i = 0 THEN [p |-> p, out |-> NULL]
        ELSE LET e == table[i - 1] IN
             IF /\ i - 1 \in Seen /\ e.type = "DIR" /\ e.parent = after[i - 1].p
                /\ NameOf(e) = name
               THEN [p |-> i - 1, out |-> e] ELSE after[i - 1]
           Line(i, x) ==
        IF i = 0 THEN [p |-> p, out |-> NULL]
        ELSE LET e == table[i - 1] IN
             IF /\ i - 1 \in Seen /\ e.type = "DIR" /\ e.parent = x.p
                /\ NameOf(e) = name
               THEN [p |-> i - 1, out |-> e] ELSE x
<1>6. \A i \in 0 .. MAX : h[i] = Line(i, h[i - 1])
  <2> TAKE i \in 0 .. MAX
  <2>1. CASE i = 0
    BY <1>0, <1>5, <2>1
  <2>2. CASE i # 0
    <3>1. i \in 1 .. MAX /\ i - 1 \in 0 .. MAX
      BY <1>0, <2>2
    <3>2. h[i] = R(i) /\ h[i - 1] = R(i - 1)
      BY <3>1
    <3> HIDE DEF R, h
    <3>3. QED
      BY <1>4, <2>2, <3>1, <3>2
  <2>3. QED
    BY <2>1, <2>2
<1>7. h = [i \in 0 .. MAX |-> Line(i, h[i - 1])]
  <2>1. h = [i \in 0 .. MAX |-> h[i]]
    OBVIOUS
  <2> HIDE DEF Line, h
  <2>2. QED
    BY <1>6, <2>1
<1>7a. h[0] = R(0) /\ h[MAX] = R(MAX)
  BY <1>0
<1> HIDE DEF h, R
<1>8. after = [i \in 0 .. MAX |-> Line(i, after[i - 1])]
  BY <1>7
<1>9. Scan(p, name) = after[MAX]
  BY DEF Scan
<1> HIDE DEF after, Line
<1> DEFINE S == {i \in 0 .. MAX : h[i] = after[i]}
<1>10. 0 \in S
  <2>1. h[0] = Line(0, h[0 - 1]) /\ after[0] = Line(0, after[0 - 1])
    BY <1>0, <1>7, <1>8
  <2>2. Line(0, h[0 - 1]) = Line(0, after[0 - 1])
    BY DEF Line
  <2>3. QED
    BY <1>0, <2>1, <2>2
<1>11. \A n \in 0 .. MAX - 1 : n \in S => n + 1 \in S
  <2> TAKE n \in 0 .. MAX - 1
  <2>1. n + 1 \in 0 .. MAX /\ (n + 1) - 1 = n
    BY <1>0
  <2>2. h[n + 1] = Line(n + 1, h[n]) /\ after[n + 1] = Line(n + 1, after[n])
    BY <1>7, <1>8, <2>1
  <2>3. QED
    BY <2>1, <2>2
<1> HIDE DEF S
<1>12. 0 .. MAX \subseteq S
  BY <1>0, <1>10, <1>11, UpTo
<1>13. h[MAX] = after[MAX]
  BY <1>0, <1>12 DEF S
<1>14. QED
  BY <1>5, <1>7a, <1>9, <1>13

-----------------------------------------------------------------------------
(* Sequences, as far as paths need them.                                   *)

LEMMA SeqIn ==
  ASSUME NEW A, NEW B, NEW s \in Seq(A), A \subseteq B
  PROVE  s \in Seq(B)
<1>1. s \in [1 .. Len(s) -> A] /\ Len(s) \in Nat
  OBVIOUS
<1>2. s \in [1 .. Len(s) -> B]
  BY <1>1
<1>3. QED
  BY <1>1, <1>2

LEMMA Appended ==
  ASSUME NEW T, NEW s \in Seq(T), NEW x \in T
  PROVE  LET u == Append(s, x)
         IN  /\ u \in Seq(T) /\ Len(u) = Len(s) + 1 /\ u[Len(u)] = x
             /\ SubSeq(u, 1, Len(u) - 1) = s /\ u # <<>>
<1> DEFINE u == Append(s, x)
           v == SubSeq(u, 1, Len(u) - 1)
<1>1. u \in Seq(T) /\ Len(u) = Len(s) + 1 /\ u[Len(u)] = x /\ Len(s) \in Nat
      /\ \A k \in 1 .. Len(s) : u[k] = s[k]
  OBVIOUS
<1>2. u # <<>>
  BY <1>1
<1> HIDE DEF u
<1>3. v \in Seq(T) /\ Len(v) = Len(s) /\ \A k \in 1 .. Len(s) : v[k] = u[k]
  BY <1>1
<1> HIDE DEF v
<1>4. v = s
  BY <1>1, <1>3, SeqEqual
<1>5. QED
  BY <1>1, <1>2, <1>4 DEF u, v

LEMMA Shortened ==
  ASSUME NEW T, NEW s \in Seq(T), NEW k \in Nat, k + 1 =< Len(s)
  PROVE  /\ SubSeq(s, 1, k) \in Seq(T) /\ s[k + 1] \in T
         /\ SubSeq(s, 1, k + 1) = Append(SubSeq(s, 1, k), s[k + 1])
<1> DEFINE t == SubSeq(s, 1, k)
           v == SubSeq(s, 1, k + 1)
           u == Append(t, s[k + 1])
<1>0. Len(s) \in Nat /\ s[k + 1] \in T
  OBVIOUS
<1>1. t \in Seq(T) /\ Len(t) = k /\ \A n \in 1 .. k : t[n] = s[n]
  BY <1>0
<1>2. v \in Seq(T) /\ Len(v) = k + 1 /\ \A n \in 1 .. k + 1 : v[n] = s[n]
  BY <1>0
<1> HIDE DEF t, v
<1>3. u \in Seq(T) /\ Len(u) = k + 1 /\ \A n \in 1 .. k + 1 : u[n] = s[n]
  BY <1>0, <1>1
<1> HIDE DEF u
<1>4. u = v
  BY <1>2, <1>3, SeqEqual
<1>5. QED
  BY <1>0, <1>1, <1>4 DEF t, u, v

-----------------------------------------------------------------------------
(* Where paths lead.                                                       *)

\* What the lemmas below assume: an orderly table between two operations.
Settled ==
  /\ TypeOK /\ RootAlone /\ WellFounded /\ Orderly
  /\ Used \subseteq Seen /\ PathsUp

Part == Word \cup Name

LEMMA PathParts ==
  ASSUME Settled
  PROVE  /\ \A j \in Index : PathOf[j] \in Seq(Part)
         /\ \A j \in Used : table[j].parent \in Dirs /\ NameOf(table[j]) \in Part
         /\ 0 \in Dirs /\ Dirs \subseteq Used /\ Used \subseteq Index
         /\ NameOf(table[0]) = LABEL /\ LABEL \notin Name
         /\ Seq(Name) \subseteq Seq(Part)
<1>1. 0 \in Index
  BY DirectoriesAssumption DEF Index
<1>2. table[0] = Root /\ Root.type = "DIR"
  BY DEF Settled, Orderly, RootIntact, Root
<1>3. 0 \in Dirs /\ Dirs \subseteq Used /\ Used \subseteq Index
  BY <1>1, <1>2 DEF Dirs, Used
<1>4. \A j \in Index : PathOf[j] \in Seq(Part)
  BY SeqIn DEF Settled, PathsUp, Part
<1>5. \A s \in Seq(Name) : s \in Seq(Part)
  BY SeqIn DEF Part
<1>6. \A j \in Used : NameOf(table[j]) \in Part
  BY <1>3 DEF Part, Word
<1>7. \A j \in Used : table[j].parent \in Dirs
  BY DEF Settled, Orderly
<1>8. QED
  BY <1>2, <1>3, <1>4, <1>5, <1>6, <1>7, LabelIsRoots, DirectoriesAssumption

\* The path of an entry and that of its parent.
LEMMA PathUp ==
  ASSUME Settled, NEW j \in Used
  PROVE  /\ PathOf[j] = <<>> <=> j = 0
         /\ j # 0 => /\ SubSeq(PathOf[j], 1, Len(PathOf[j]) - 1) = PathOf[table[j].parent]
                     /\ PathOf[j][Len(PathOf[j])] = NameOf(table[j])
<1>1. CASE j = 0
  BY <1>1 DEF Settled, PathsUp
<1>2. CASE j # 0
  <2>1. PathOf[j] = Append(PathOf[table[j].parent], NameOf(table[j]))
    BY <1>2 DEF Settled, PathsUp
  <2>2. PathOf[table[j].parent] \in Seq(Part) /\ NameOf(table[j]) \in Part
    BY PathParts
  <2>3. QED
    BY <1>2, <2>1, <2>2, Appended
<1>3. QED
  BY <1>1, <1>2

\* fs_get_dir_index and fs_get_file_index give the index of the entry itself.
LEMMA IndexExact ==
  ASSUME Settled, NEW d \in Used
  PROVE  IndexOf(table[d]) = d
<1>0. d \in Seen /\ d \in Index /\ table[d] \in Entry
  BY PathParts DEF Settled, TypeOK
<1>1. Same(table[d], table[d])
  BY <1>0 DEF Same, Entry
<1>2. ASSUME NEW i \in Seen, Same(table[i], table[d]) PROVE i = d
  <2>1. i \in Index /\ table[i] \in Entry
    BY DEF Seen, Settled, TypeOK
  <2>2. table[i].type = table[d].type /\ table[i].parent = table[d].parent
        /\ table[i].status = table[d].status
    BY <1>0, <1>2, <2>1, SameFields
  <2>3. NameOf(table[i]) = NameOf(table[d])
    BY <1>2 DEF Same
  <2>4. i \in Used
    BY <2>1, <2>2 DEF Used
  <2>5. table[0].status = 255 /\ \A k \in Index \ {0} : table[k].status = 0
    BY DEF Settled, RootAlone, Orderly, RootIntact, Root
  <2>6. CASE i = 0 \/ d = 0
    BY <1>0, <2>1, <2>2, <2>5, <2>6
  <2>7. CASE i # 0 /\ d # 0
    BY <2>2, <2>3, <2>4, <2>7 DEF Settled, Orderly
  <2>8. QED
    BY <2>6, <2>7
<1>3. {i \in Seen : Same(table[i], table[d])} = {d}
  BY <1>0, <1>1, <1>2
<1>4. Least({d}) = {d}
  <2>1. d =< d
    BY <1>0 DEF Index
  <2>2. QED
    BY <2>1 DEF Least
<1>5. QED
  BY <1>3, <1>4 DEF IndexOf

\* The walk of fs_parent_from_path ends at the directory that has the path.
LEMMA WalkExact ==
  ASSUME Settled, NEW parts \in Seq(Name), Len(parts) > 0,
         NEW d \in Dirs, PathOf[d] = parts
  PROVE  Walk(parts) = table[d]
<1>0. Len(parts) \in Nat
  OBVIOUS
<1>1. PICK f \in [0 .. Len(parts) -> Findings] :
        /\ f[0] = [p |-> 0, out |-> NULL]
        /\ \A k \in 1 .. Len(parts) : f[k] = Scan(f[k - 1].p, parts[k])
        /\ Walk(parts) = f[Len(parts)].out
  BY <1>0, WalkSteps DEF Settled
<1> DEFINE Led(k, e) == f[k].p = e /\ (k > 0 => f[k].out = table[e])
           S == {k \in 0 .. Len(parts) : \A e \in Dirs : PathOf[e] = SubSeq(parts, 1, k) => Led(k, e)}
<1>2. 0 \in S
  <2>1. SubSeq(parts, 1, 0) = <<>>
    BY <1>0
  <2>2. \A e \in Dirs : PathOf[e] = <<>> => e = 0
    BY PathUp, PathParts
  <2>3. f[0].p = 0
    BY <1>1
  <2>4. \A e \in Dirs : PathOf[e] = SubSeq(parts, 1, 0) => Led(0, e)
    BY <2>1, <2>2, <2>3
  <2> HIDE DEF Led
  <2>5. QED
    BY <1>0, <2>4
<1>3. \A n \in 0 .. Len(parts) - 1 : n \in S => n + 1 \in S
  <2> SUFFICES ASSUME NEW n \in 0 .. Len(parts) - 1, n \in S,
                      NEW e \in Dirs, PathOf[e] = SubSeq(parts, 1, n + 1)
               PROVE  Led(n + 1, e)
    <3> HIDE DEF Led
    <3>1. QED
      BY <1>0
  <2> DEFINE q == table[e].parent
  <2>1. n \in Nat /\ n + 1 =< Len(parts) /\ n + 1 \in 1 .. Len(parts) /\ (n + 1) - 1 = n
    BY <1>0
  <2>2. /\ SubSeq(parts, 1, n) \in Seq(Name) /\ parts[n + 1] \in Name
        /\ SubSeq(parts, 1, n + 1) = Append(SubSeq(parts, 1, n), parts[n + 1])
    BY <2>1, Shortened
  <2> DEFINE u == SubSeq(parts, 1, n + 1)
             v == SubSeq(parts, 1, n)
  <2>3. u[Len(u)] = parts[n + 1] /\ SubSeq(u, 1, Len(u) - 1) = v /\ u # <<>>
    <3>1. v \in Seq(Name) /\ parts[n + 1] \in Name /\ u = Append(v, parts[n + 1])
      BY <2>2
    <3> HIDE DEF u, v
    <3>2. QED
      BY <3>1, Appended
  <2>4. e \in Used /\ q \in Dirs /\ e # 0
    BY <2>3, PathParts, PathUp
  <2>5. PathOf[q] = SubSeq(parts, 1, n) /\ NameOf(table[e]) = parts[n + 1]
    BY <2>3, <2>4, PathUp
  <2>6. f[n].p = q
    BY <2>4, <2>5
  <2>7. Scan(q, parts[n + 1]) = [p |-> e, out |-> table[e]]
    <3>1. NameOf(table[e]) # LABEL
      BY <2>2, <2>5, PathParts
    <3>2. QED
      BY <2>5, <3>1, ScanExact DEF Settled
  <2>8. f[n + 1] = [p |-> e, out |-> table[e]]
    BY <1>1, <2>1, <2>6, <2>7
  <2>9. QED
    BY <2>8
<1> HIDE DEF S
<1>4. Len(parts) \in S
  <2>1. 0 .. Len(parts) \subseteq S
    BY <1>0, <1>2, <1>3, UpTo
  <2>2. QED
    BY <1>0, <2>1
<1>5. SubSeq(parts, 1, Len(parts)) = parts
  BY <1>0
<1>6. f[Len(parts)].out = table[d]
  BY <1>4, <1>5 DEF S
<1>7. QED
  BY <1>1, <1>6

\* No two directories have the same path, if it is one that callers can write.
LEMMA DirOnce ==
  ASSUME Settled, NEW d \in Dirs, NEW e \in Dirs, PathOf[d] = PathOf[e], PathOf[d] \in Seq(Name)
  PROVE  d = e
<1>1. d \in Used /\ e \in Used
  BY PathParts
<1>2. CASE PathOf[d] = <<>>
  BY <1>1, <1>2, PathUp
<1>3. CASE PathOf[d] # <<>>
  <2>1. Len(PathOf[d]) > 0
    BY <1>3
  <2>2. Walk(PathOf[d]) = table[d] /\ Walk(PathOf[d]) = table[e]
    BY <2>1, WalkExact
  <2>3. QED
    BY <1>1, <2>2, IndexExact
<1>4. QED
  BY <1>2, <1>3

LEMMA PathFront ==
  ASSUME NEW path \in Paths
  PROVE  /\ Front(path) \in Seq(Name) /\ Last(path) = path[Len(path)] /\ Last(path) \in Name
         /\ path \in Seq(Name) /\ path # <<>>
         /\ Front(path) = <<>> <=> Len(path) =< 1
<1>1. path \in Seq(Name) /\ Len(path) \in Nat /\ Len(path) > 0 /\ path[Len(path)] \in Name
  BY PathFacts
<1>2. path # <<>>
  BY <1>1
<1> DEFINE k == Len(path) - 1
<1>3. k \in Nat /\ k =< Len(path)
  BY <1>1
<1>4. Front(path) = SubSeq(path, 1, k)
  BY DEF Front
<1> HIDE DEF k
<1>5. Front(path) \in Seq(Name) /\ Len(Front(path)) = k
  BY <1>1, <1>3, <1>4
<1>6. Front(path) = <<>> <=> k = 0
  BY <1>5
<1>6a. Len(path) \in Nat /\ Len(path) > 0
  BY <1>1
<1>6b. k = 0 <=> Len(path) =< 1
  <2>1. \A l \in Nat : l > 0 => (l - 1 = 0 <=> l =< 1)
    OBVIOUS
  <2>2. QED
    BY <1>6a, <2>1 DEF k
<1>7. Front(path) = <<>> <=> Len(path) =< 1
  BY <1>6, <1>6b
<1>8. QED
  BY <1>1, <1>2, <1>5, <1>7 DEF Last, RootPath

\* fs_parent_from_path returns the directory a path lies in.
LEMMA ParentExact ==
  ASSUME Settled, NEW path \in Paths, NEW d \in Dirs, PathOf[d] = Front(path)
  PROVE  ParentFromPath(path) = table[d]
<1>1. Front(path) \in Seq(Name) /\ d \in Used
  BY PathFront, PathParts
<1>2. CASE Len(path) =< 1
  <2>1. d = 0
    BY <1>1, <1>2, PathFront, PathUp
  <2>2. QED
    BY <1>2, <2>1 DEF ParentFromPath, Settled, Orderly, RootIntact
<1>3. CASE ~(Len(path) =< 1)
  <2>1. Len(Front(path)) > 0
    <3>1. Front(path) # <<>>
      BY <1>3, PathFront
    <3>2. QED
      BY <1>1, <3>1
  <2>2. QED
    BY <1>1, <1>3, <2>1, WalkExact DEF ParentFromPath
<1>4. QED
  BY <1>2, <1>3

LEMMA PathJoined ==
  ASSUME NEW path \in Paths
  PROVE  path = Append(Front(path), Last(path))
<1> DEFINE k == Len(path) - 1
<1>0. path \in Seq(Name) /\ path # <<>> /\ Last(path) = path[Len(path)]
  BY PathFront
<1>1. k \in Nat /\ k + 1 = Len(path)
  <2>1. Len(path) \in Nat /\ Len(path) # 0
    BY <1>0
  <2>2. QED
    BY <2>1
<1>2. Front(path) = SubSeq(path, 1, k)
  BY DEF Front
<1> HIDE DEF k
<1>3. SubSeq(path, 1, k + 1) = Append(SubSeq(path, 1, k), path[k + 1])
  BY <1>0, <1>1, Shortened
<1>4. SubSeq(path, 1, Len(path)) = path
  BY <1>0
<1>5. QED
  BY <1>0, <1>1, <1>2, <1>3, <1>4

\* The entries of a name in the directory found are the entries with that path.
LEMMA NamedExact ==
  ASSUME Settled, NEW path \in Paths, NEW type \in Type, NEW d \in Dirs, PathOf[d] = Front(path),
         NEW i \in Index
  PROVE  i \in Named(table[d], Last(path), type)
           <=> i \in Used /\ table[i].type = type /\ PathOf[i] = path
<1>0. /\ d \in Used /\ IndexOf(table[d]) = d
      /\ Front(path) \in Seq(Name) /\ Last(path) \in Name /\ Last(path) = path[Len(path)]
      /\ path \in Seq(Name) /\ path # <<>> /\ "NULL" \notin Type
  BY PathParts, PathFront, IndexExact DEF Type
<1>1. ASSUME i \in Named(table[d], Last(path), type)
      PROVE  i \in Used /\ table[i].type = type /\ PathOf[i] = path
  <2>1. i \in Used /\ table[i].type = type /\ table[i].parent = d /\ NameOf(table[i]) = Last(path)
    BY <1>0, <1>1 DEF Named, Seen, Used
  <2>2. i # 0
    BY <1>0, <2>1, PathParts
  <2>3. PathOf[i] = Append(Front(path), Last(path))
    BY <2>1, <2>2 DEF Settled, PathsUp
  <2>4. path = Append(Front(path), Last(path))
    BY PathJoined
  <2>5. QED
    BY <2>1, <2>3, <2>4
<1>2. ASSUME i \in Used, table[i].type = type, PathOf[i] = path
      PROVE  i \in Named(table[d], Last(path), type)
  <2>1. i # 0
    BY <1>0, <1>2, PathUp
  <2>2. PathOf[table[i].parent] = Front(path) /\ NameOf(table[i]) = Last(path)
    BY <1>0, <1>2, <2>1, PathUp DEF Front
  <2>3. table[i].parent = d
    <3>1. table[i].parent \in Dirs
      BY <1>2, PathParts
    <3>2. QED
      BY <1>0, <2>2, <3>1, DirOnce
  <2>4. i \in Seen
    BY <1>2 DEF Settled
  <2>5. QED
    BY <1>0, <1>2, <2>2, <2>3, <2>4 DEF Named
<1>3. QED
  BY <1>1, <1>2

\* fs_get_dir_byname and fs_get_file_byname return the entry that has the path, and the
\* empty one when no entry has it.
LEMMA GetExact ==
  ASSUME Settled, NEW path \in Paths, NEW type \in Type, NEW d \in Dirs, PathOf[d] = Front(path)
  PROVE  /\ \A i \in Used : table[i].type = type /\ PathOf[i] = path => GetByName(path, type) = table[i]
         /\ (~\E i \in Used : table[i].type = type /\ PathOf[i] = path) => GetByName(path, type) = NULL
<1> DEFINE parent == ParentFromPath(path)
           N == Named(parent, Last(path), type)
<1>0. parent = table[d] /\ table[d].type = "DIR"
  BY ParentExact DEF Dirs
<1>1. \A i \in Index : i \in N <=> i \in Used /\ table[i].type = type /\ PathOf[i] = path
  BY <1>0, NamedExact
<1>2. N \subseteq Index /\ Used \subseteq Index
  BY DEF Named, Seen, Used
<1>3. path # RootPath
  BY PathFront DEF RootPath
<1>4. GetByName(path, type) =
        IF Least(N) = {} THEN NULL ELSE table[CHOOSE i \in Least(N) : TRUE]
  BY <1>0, <1>3 DEF GetByName
<1> HIDE DEF N
<1>5. ASSUME NEW i \in Used, table[i].type = type, PathOf[i] = path
      PROVE  GetByName(path, type) = table[i]
  <2>1. ASSUME NEW j \in N PROVE j = i
    <3>1. j \in Used /\ table[j].type = type /\ PathOf[j] = path
      BY <1>1, <1>2
    <3>2. i # 0 /\ j # 0
      BY <1>3, <1>5, <3>1, PathUp DEF RootPath
    <3>3. PathOf[table[i].parent] = PathOf[table[j].parent] /\ NameOf(table[i]) = NameOf(table[j])
      BY <1>5, <3>1, <3>2, PathUp
    <3>4. PathOf[table[i].parent] = Front(path)
      BY <1>5, <3>2, PathUp DEF Front
    <3>5. table[i].parent = table[j].parent
      <4>1. table[i].parent \in Dirs /\ table[j].parent \in Dirs
        BY <3>1, PathParts
      <4>2. QED
        BY <3>3, <3>4, <4>1, PathFront, DirOnce
    <3>6. QED
      BY <1>5, <3>1, <3>2, <3>3, <3>5 DEF Settled, Orderly
  <2>2. N = {i}
    BY <1>1, <1>2, <1>5, <2>1
  <2>3. Least({i}) = {i}
    <3>1. i =< i
      BY <1>2 DEF Index
    <3>2. QED
      BY <3>1 DEF Least
  <2>4. QED
    BY <1>4, <2>2, <2>3
<1>6. ASSUME ~\E i \in Used : table[i].type = type /\ PathOf[i] = path
      PROVE  GetByName(path, type) = NULL
  <2>1. N = {}
    BY <1>1, <1>2, <1>6
  <2>2. QED
    BY <1>4, <2>1 DEF Least
<1>7. QED
  BY <1>5, <1>6

LEMMA InTree ==
  ASSUME NEW path, NEW type
  PROVE  At(path, type) \in Tree <=> \E i \in Used : PathOf[i] = path /\ table[i].type = type
BY DEF At, Tree

LEMMA SettledIdle ==
  ASSUME Sane, EveryEntrySeen, pc = "idle", Orderly
  PROVE  Settled
<1>1. table[0].status = 255
  BY DEF Orderly, RootIntact, Root
<1>2. TypeOK /\ RootAlone /\ WellFounded
  BY <1>1 DEF Sane, RootKept
<1>3. Grown
  BY <1>2 DEF Grown, Orderly, RootIntact, Root
<1>4. QED
  BY <1>2, <1>3, PathsSettle DEF Settled, EveryEntrySeen

\* A path whose parent is a directory.
LEMMA RootedParent ==
  ASSUME NEW path, Rooted(path, Tree)
  PROVE  \E d \in Dirs : PathOf[d] = Front(path)
<1>1. PICK d \in Used : PathOf[d] = Front(path) /\ table[d].type = "DIR"
  BY InTree DEF Rooted
<1>2. d \in Dirs
  BY <1>1 DEF Used, Dirs
<1>3. QED
  BY <1>1, <1>2

\* Looking up a path in an orderly table gives the entry that has the path, and none when
\* there is none, for every size of the table, set of names and depth: although the scan of
\* a directory goes on behind a match, names overlay longer ones, and entries are compared
\* by their contents (fs_parent_from_path, fs_get_dir_byname, fs_get_file_byname).
THEOREM PathsLeadToEntries == Spec => []Resolves
<1>1. Sane /\ EveryEntrySeen => Resolves
  <2> SUFFICES ASSUME Sane, EveryEntrySeen, pc = "idle", Orderly,
                      NEW path \in Paths, NEW type \in Type, Rooted(path, Tree)
               PROVE  LET e == GetByName(path, type)
                      IN  IF At(path, type) \in Tree THEN e.type = type /\ PathOf[IndexOf(e)] = path
                                                     ELSE e.type = "NULL"
    BY DEF Resolves
  <2>1. Settled
    BY SettledIdle
  <2>2. PICK d \in Dirs : PathOf[d] = Front(path)
    BY RootedParent
  <2>3. CASE At(path, type) \in Tree
    <3>1. PICK i \in Used : PathOf[i] = path /\ table[i].type = type
      BY <2>3, InTree
    <3>2. GetByName(path, type) = table[i]
      BY <2>1, <2>2, <3>1, GetExact
    <3>3. IndexOf(table[i]) = i
      BY <2>1, IndexExact
    <3>4. QED
      BY <2>3, <3>1, <3>2, <3>3
  <2>4. CASE At(path, type) \notin Tree
    <3>1. GetByName(path, type) = NULL
      BY <2>1, <2>2, <2>4, GetExact, InTree
    <3>2. QED
      BY <2>4, <3>1 DEF NULL
  <2>5. QED
    BY <2>3, <2>4
<1>2. QED
  BY DirectoriesSane, EntriesStaySeen, <1>1, PTL

\* Looking up the path of a directory that callers can write gives that directory.
LEMMA DirectoryFound ==
  ASSUME Settled, NEW path \in Paths \cup {RootPath}, NEW d \in Dirs, PathOf[d] = path
  PROVE  GetByName(path, "DIR") = table[d] /\ path \in Seq(Name)
<1>0. d \in Used /\ table[d].type = "DIR"
  BY PathParts DEF Dirs
<1>1. CASE path = RootPath
  <2>1. d = 0
    BY <1>0, <1>1, PathUp DEF RootPath
  <2>2. rootdir = table[0]
    BY DEF Settled, Orderly, RootIntact
  <2>3. QED
    BY <1>1, <2>1, <2>2 DEF GetByName, RootPath
<1>2. CASE path # RootPath
  <2>1. path \in Paths /\ d # 0
    BY <1>0, <1>2, PathUp DEF RootPath
  <2>2. PathOf[table[d].parent] = Front(path) /\ table[d].parent \in Dirs
    BY <1>0, <2>1, PathUp, PathParts DEF Front
  <2>3. path \in Seq(Name) /\ "DIR" \in Type
    BY <2>1, PathFront DEF Type
  <2>4. QED
    BY <1>0, <2>1, <2>2, <2>3, GetExact
<1>3. QED
  BY <1>1, <1>2

\* Listing a directory of an orderly table shows each of its entries and no other, for every
\* size of the table, but for the root, which its own listing shows as well
\* (vfs_get_dirs, vfs_get_files).
THEOREM ListingsAreExact == Spec => []ListingExact
<1>1. Sane /\ EveryEntrySeen => ListingExact
  <2> SUFFICES ASSUME Sane, EveryEntrySeen, pc = "idle", Orderly,
                      NEW path \in Paths \cup {RootPath}, NEW type \in Type,
                      At(path, "DIR") \in Tree
               PROVE  Listed(path, type) =
                        {i \in Used \ {0} : table[i].type = type /\ Front(PathOf[i]) = path}
                          \cup (IF path = RootPath /\ type = "DIR" THEN {0} ELSE {})
    BY DEF ListingExact
  <2>1. Settled
    BY SettledIdle
  <2>2. PICK d \in Dirs : PathOf[d] = path
    <3>1. PICK d \in Used : PathOf[d] = path /\ table[d].type = "DIR"
      BY InTree
    <3>2. d \in Dirs
      BY <3>1 DEF Used, Dirs
    <3>3. QED
      BY <3>1, <3>2
  <2>3. /\ GetByName(path, "DIR") = table[d] /\ path \in Seq(Name)
        /\ IndexOf(table[d]) = d /\ table[d].type = "DIR" /\ d \in Used
    BY <2>1, <2>2, DirectoryFound, IndexExact, PathParts DEF Dirs
  <2>4. Listed(path, type) = {i \in Seen : table[i].type = type /\ table[i].parent = d}
    BY <2>3 DEF Listed
  <2>5. 0 \in Used /\ Used \subseteq Index /\ Seen \subseteq Index /\ Used \subseteq Seen
        /\ table[0].type = "DIR" /\ table[0].parent = 0 /\ "NULL" \notin Type
    BY <2>1, PathParts DEF Seen, Settled, Orderly, RootIntact, Root, Type
  <2>6. \A i \in Seen : table[i].type = type => i \in Used
    BY <2>5 DEF Used
  <2>7. d = 0 <=> path = RootPath
    BY <2>1, <2>2, <2>3, PathUp DEF RootPath
  <2>8. ASSUME NEW i \in Used \ {0} PROVE table[i].parent = d <=> Front(PathOf[i]) = path
    <3>1. Front(PathOf[i]) = PathOf[table[i].parent] /\ table[i].parent \in Dirs
      BY <2>1, PathUp, PathParts DEF Front
    <3>2. QED
      BY <2>1, <2>2, <2>3, <3>1, DirOnce
  <2>9. QED
    BY <2>4, <2>5, <2>6, <2>7, <2>8
<1>2. QED
  BY DirectoriesSane, EntriesStaySeen, <1>1, PTL

-----------------------------------------------------------------------------
(* What the operations do to the tree.                                     *)

Place(j) == At(PathOf[j], table[j].type)

LEMMA Places == Tree = {Place(j) : j \in Used}
BY DEF Tree, Place, At

LEMMA PlaceOnce ==
  ASSUME Settled, NEW i \in Used, NEW j \in Used, PathOf[i] = PathOf[j],
         table[i].type = table[j].type, PathOf[i] \in Paths
  PROVE  i = j
<1>1. i # 0
  BY PathUp, PathFront
<1>2. PathOf[table[i].parent] = Front(PathOf[i]) /\ table[i].parent \in Dirs
  BY <1>1, PathUp, PathParts DEF Front
<1>3. table[i].type \in Type
  <2>1. i \in Index /\ table[i].type # "NULL"
    BY DEF Used
  <2>2. QED
    BY <2>1 DEF Settled, TypeOK, Entry
<1>4. GetByName(PathOf[i], table[i].type) = table[i] /\ GetByName(PathOf[i], table[i].type) = table[j]
  BY <1>2, <1>3, GetExact
<1>5. QED
  BY <1>4, IndexExact

\* Entries that keep their parents and names, and whose parents do, keep their paths.
LEMMA PathsKept ==
  ASSUME Settled, PathsUp', NEW K \in SUBSET Used, K \subseteq Used',
         \A j \in K \ {0} : /\ table[j].parent \in K /\ table'[j].parent = table[j].parent
                            /\ NameOf(table'[j]) = NameOf(table[j])
  PROVE  \A j \in K : PathOf'[j] = PathOf[j]
<1> DEFINE X == {j \in K : PathOf'[j] # PathOf[j]}
<1> SUFFICES ASSUME X # {} PROVE FALSE
  OBVIOUS
<1>1. X \in SUBSET (Used \ {0})
  BY DEF Settled, PathsUp
<1>2. PICK j \in X : table[j].parent \notin X
  BY <1>1 DEF Settled, WellFounded
<1>3. j \in K \ {0} /\ PathOf'[j] # PathOf[j]
  BY <1>1, <1>2
<1>4. table[j].parent \in K /\ PathOf'[table[j].parent] = PathOf[table[j].parent]
  BY <1>2, <1>3
<1>5. PathOf[j] = Append(PathOf[table[j].parent], NameOf(table[j]))
  BY <1>3 DEF Settled, PathsUp
<1>6. PathOf'[j] = Append(PathOf'[table'[j].parent], NameOf(table'[j]))
  BY <1>3 DEF PathsUp
<1>7. QED
  BY <1>3, <1>4, <1>5, <1>6

LEMMA GrownNext == Grown' => PathsUp'
BY PathsSettle, PTL

LEMMA CreateTree ==
  ASSUME Settled, Sane', NEW path \in Paths, NEW type \in Type, Rooted(path, Tree),
         Create(path, type), \E i \in FreeIndex : NameOf(table'[i]) = Last(path)
  PROVE  Tree' = Tree \cup {At(path, type)}
<1>1. PICK d \in Dirs : PathOf[d] = Front(path)
  BY RootedParent
<1>2. d \in Used /\ ParentFromPath(path) = table[d] /\ IndexOf(table[d]) = d
  BY <1>1, ParentExact, PathParts, IndexExact
<1>3. PICK i \in FreeIndex, field \in Stack :
        table' = [table EXCEPT ![i] =
          [type |-> type, name |-> StrCpy(field, Last(path)), parent |-> d, status |-> 0]]
  BY <1>2 DEF Create
<1>4. i \in Index /\ table[i].type = "NULL" /\ i \notin Used
  BY DEF FreeIndex, Least, Used
<1>5. table \in [Index -> Entry]
  BY DEF Settled, TypeOK
<1>6. /\ table'[i].type = type /\ table'[i].parent = d /\ "NULL" \notin Type
      /\ \A j \in Index \ {i} : table'[j] = table[j]
  BY <1>3, <1>4, <1>5 DEF Type
<1>7. NameOf(table'[i]) = Last(path)
  <2>1. PICK k \in FreeIndex : NameOf(table'[k]) = Last(path)
    OBVIOUS
  <2>2. i =< k /\ k =< i /\ i \in Int /\ k \in Int
    BY DEF FreeIndex, Least, Index
  <2>3. QED
    BY <2>1, <2>2
<1>8. Used \subseteq Index /\ 0 \in Used /\ Used' = Used \cup {i} /\ Dirs \subseteq Dirs'
  BY <1>4, <1>6, PathParts DEF Used, Dirs
<1>9. \A j \in Used : table[j].parent \in Dirs /\ table'[j] = table[j]
  BY <1>4, <1>6, <1>8, PathParts
<1>10. Grown'
  <2>1. table'[0] = Root
    BY <1>8, <1>9 DEF Settled, Orderly, RootIntact
  <2>2. TypeOK' /\ WellFounded'
    BY <2>1 DEF Sane, RootKept, Root
  <2>3. \A j \in Used' : table'[j].parent \in Dirs'
    BY <1>1, <1>6, <1>8, <1>9
  <2>4. QED
    BY <2>1, <2>2, <2>3 DEF Grown, Root
<1>11. PathsUp'
  BY <1>10, GrownNext
<1>12. \A j \in Used : PathOf'[j] = PathOf[j]
  <2>1. \A j \in Used : table[j].parent \in Used
    BY <1>9, PathParts
  <2>2. QED
    BY <1>8, <1>9, <1>11, <2>1, PathsKept
<1>13. PathOf'[i] = path
  <2>1. PathOf'[i] = Append(PathOf'[d], Last(path))
    BY <1>4, <1>6, <1>7, <1>8, <1>11 DEF PathsUp
  <2>2. QED
    BY <1>1, <1>2, <1>12, <2>1, PathJoined
<1>14. Place(i)' = At(path, type)
  BY <1>6, <1>13 DEF Place
<1>15. \A j \in Used : Place(j)' = Place(j)
  BY <1>9, <1>12 DEF Place
<1>16. Tree' = {Place(j)' : j \in Used'}
  BY DEF Tree, Place, At
<1>17. QED
  BY <1>8, <1>14, <1>15, <1>16, Places

LEMMA DeleteTree ==
  ASSUME Settled, Sane', NEW path \in Paths, NEW type \in Type, Rooted(path, Tree),
         Moved(path, type, Tree) = {At(path, type)}, Delete(path, type)
  PROVE  Tree' = Tree \ {At(path, type)}
<1>1. PICK d \in Dirs : PathOf[d] = Front(path)
  BY RootedParent
<1>2. At(path, type) \in Tree
  BY DEF Moved
<1>3. PICK i \in Used : PathOf[i] = path /\ table[i].type = type
  BY <1>2, InTree
<1>4. GetByName(path, type) = table[i] /\ IndexOf(table[i]) = i
  BY <1>1, <1>3, GetExact, IndexExact
<1>5. table' = [table EXCEPT ![i] = NULL] /\ table \in [Index -> Entry]
  BY <1>4 DEF Delete, Deleted, Settled, TypeOK
<1>6. i # 0 /\ path \in Seq(Name)
  BY <1>3, PathUp, PathFront
<1>7. Used \subseteq Index /\ 0 \in Used
  BY PathParts
<1>8. table'[i].type = "NULL" /\ \A j \in Index \ {i} : table'[j] = table[j]
  BY <1>5, <1>7 DEF NULL
<1>9. Used' = Used \ {i} /\ Dirs' = Dirs \ {i}
  BY <1>7, <1>8 DEF Used, Dirs
\* Nothing lies in the entry deleted.
<1>10. ASSUME NEW j \in Used, j # 0 PROVE table[j].parent # i
  <2> SUFFICES ASSUME table[j].parent = i PROVE FALSE
    OBVIOUS
  <2>1. PathOf[j] = Append(path, NameOf(table[j])) /\ i \in Dirs
    BY <1>3, <1>10, PathParts DEF Settled, PathsUp
  <2>2. type = "DIR"
    BY <1>3, <2>1 DEF Dirs
  <2>3. Under(path, PathOf[j])
    <3>1. path \in Seq(Part) /\ NameOf(table[j]) \in Part
      BY <1>6, PathParts
    <3> DEFINE u == Append(path, NameOf(table[j]))
    <3>2. SubSeq(u, 1, Len(u) - 1) = path /\ Len(u) = Len(path) + 1 /\ Len(path) \in Nat
      BY <3>1, Appended
    <3> HIDE DEF u
    <3>3. Len(u) - 1 = Len(path) /\ Len(path) < Len(u)
      BY <3>2
    <3>4. QED
      BY <2>1, <3>2, <3>3 DEF Under, u
  <2>4. Place(j) \in Tree
    BY Places
  <2>5. Place(j) \in Moved(path, type, Tree)
    BY <2>2, <2>3, <2>4 DEF Moved, Place, At
  <2>6. PathOf[j] = path
    BY <2>5 DEF Place, At
  <2>7. Len(path) \in Nat /\ ~(Len(path) < Len(path))
    BY <1>6
  <2>8. QED
    BY <2>3, <2>6, <2>7 DEF Under
<1>11. \A j \in Used' : table[j].parent \in Dirs' /\ table'[j] = table[j]
  <2>1. table[0].parent = 0
    BY DEF Settled, Orderly, RootIntact, Root
  <2>2. QED
    BY <1>6, <1>7, <1>8, <1>9, <1>10, <2>1, PathParts
<1>12. PathsUp'
  <2>1. table'[0] = Root
    BY <1>6, <1>7, <1>8 DEF Settled, Orderly, RootIntact
  <2>2. TypeOK' /\ WellFounded'
    BY <2>1 DEF Sane, RootKept, Root
  <2>3. Grown'
    BY <1>11, <2>1, <2>2 DEF Grown, Root
  <2>4. QED
    BY <2>3, GrownNext
<1>13. \A j \in Used' : PathOf'[j] = PathOf[j]
  <2>1. \A j \in Used' : table[j].parent \in Used'
    BY <1>9, <1>11, PathParts
  <2>2. Used' \in SUBSET Used
    BY <1>9
  <2>3. QED
    BY <1>11, <1>12, <2>1, <2>2, PathsKept
<1>14. \A j \in Used' : Place(j)' = Place(j)
  BY <1>11, <1>13 DEF Place
<1>15. Place(i) = At(path, type)
  BY <1>3 DEF Place
<1>16. ASSUME NEW j \in Used, Place(j) = At(path, type) PROVE j = i
  <2>1. PathOf[j] = path /\ table[j].type = type
    BY <1>16 DEF Place, At
  <2>2. QED
    BY <1>3, <2>1, PlaceOnce
<1>17. Tree' = {Place(j)' : j \in Used'}
  BY DEF Tree, Place, At
<1>18. QED
  BY <1>9, <1>14, <1>15, <1>16, <1>17, Places

LEMMA RenameTree ==
  ASSUME Settled, Sane', NEW path \in Paths, NEW type \in Type, Rooted(path, Tree),
         At(path, type) \in Tree, NEW name \in Name,
         Takes(GetByName(path, type), name), Rename(path, type, name)
  PROVE  Tree' = (Tree \ Moved(path, type, Tree))
                   \cup {Moving(t, path, name) : t \in Moved(path, type, Tree)}
<1> DEFINE m == Len(path)
           Goes(j) == \/ PathOf[j] = path /\ table[j].type = type
                      \/ type = "DIR" /\ Under(path, PathOf[j])
           M == {j \in Used \ {0} : Goes(j)}
           New(j) == [PathOf[j] EXCEPT ![m] = name]
<1>1. PICK d \in Dirs : PathOf[d] = Front(path)
  BY RootedParent
<1>2. PICK i \in Used : PathOf[i] = path /\ table[i].type = type
  BY InTree
<1>3. GetByName(path, type) = table[i] /\ IndexOf(table[i]) = i
  BY <1>1, <1>2, GetExact, IndexExact
<1>4. table' = [table EXCEPT ![i].name = StrCpy(table[i].name, name)] /\ table \in [Index -> Entry]
  BY <1>3 DEF Rename, Renamed, Settled, TypeOK
<1>5. i # 0 /\ path \in Seq(Name) /\ path \in Seq(Part) /\ m \in Nat /\ m > 0 /\ name \in Part
  <2>1. path \in Seq(Name) /\ path # <<>> /\ name \in Part
    BY PathFront DEF Part
  <2>2. m \in Nat /\ m # 0
    BY <2>1
  <2>3. QED
    BY <1>2, <2>1, <2>2, PathUp, PathParts
<1>6. Used \subseteq Index /\ 0 \in Used /\ i \in Index
  BY PathParts
<1>7. /\ table'[i].type = type /\ table'[i].parent = table[i].parent /\ NameOf(table'[i]) = name
      /\ \A j \in Index \ {i} : table'[j] = table[j]
  <2>1. table[i] \in Entry
    BY <1>4, <1>6
  <2>2. table'[i] = [table[i] EXCEPT !.name = StrCpy(table[i].name, name)]
    BY <1>4, <1>6
  <2>3. table'[i].type = type /\ table'[i].parent = table[i].parent
        /\ table'[i].name = StrCpy(table[i].name, name)
    BY <1>2, <2>1, <2>2 DEF Entry
  <2>4. NameOf(table'[i]) = name
    BY <1>3, <2>2 DEF Takes
  <2>5. QED
    BY <1>4, <1>6, <2>3, <2>4
<1>8. \A j \in Index : table'[j].type = table[j].type /\ table'[j].parent = table[j].parent
  BY <1>2, <1>7
<1>9. Used' = Used /\ Dirs' = Dirs
  BY <1>8 DEF Used, Dirs
<1>10. PathsUp'
  <2>1. table'[0] = Root
    BY <1>5, <1>6, <1>7 DEF Settled, Orderly, RootIntact
  <2>2. TypeOK' /\ WellFounded'
    BY <2>1 DEF Sane, RootKept, Root
  <2>3. \A j \in Used' : table'[j].parent \in Dirs'
    BY <1>6, <1>8, <1>9, PathParts
  <2>4. Grown'
    BY <2>1, <2>2, <2>3 DEF Grown, Root
  <2>5. QED
    BY <2>4, GrownNext
<1>11. \A j \in Used \ {0} :
         /\ PathOf[j] = Append(PathOf[table[j].parent], NameOf(table[j]))
         /\ PathOf'[j] = Append(PathOf'[table[j].parent], NameOf(table'[j]))
         /\ table[j].parent \in Dirs /\ table[j].parent \in Used
         /\ PathOf[table[j].parent] \in Seq(Part) /\ NameOf(table[j]) \in Part
  BY <1>6, <1>8, <1>9, <1>10, PathParts DEF Settled, PathsUp
<1>12. \A j \in Used : j \in M <=> j # 0 /\ (j = i \/ (type = "DIR" /\ Under(path, PathOf[j])))
  <2> TAKE j \in Used
  <2>1. PathOf[j] = path /\ table[j].type = type <=> j = i
    BY <1>2, PlaceOnce
  <2>2. Goes(j) <=> j = i \/ (type = "DIR" /\ Under(path, PathOf[j]))
    BY <2>1
  <2> HIDE DEF Goes
  <2>3. QED
    BY <2>2
<1> HIDE DEF M
\* What lies behind a part of a path.
<1>13. ASSUME NEW s \in Seq(Part), NEW x \in Part
       PROVE  Under(path, Append(s, x)) <=> s = path \/ Under(path, s)
  <2> DEFINE u == Append(s, x)
  <2>1. u \in Seq(Part) /\ Len(u) = Len(s) + 1 /\ Len(s) \in Nat /\ \A k \in 1 .. Len(s) : u[k] = s[k]
    OBVIOUS
  <2> HIDE DEF u, m
  <2>2. ASSUME m =< Len(s) PROVE SubSeq(u, 1, m) = SubSeq(s, 1, m)
    <3>1. /\ SubSeq(u, 1, m) \in Seq(Part) /\ Len(SubSeq(u, 1, m)) = m
          /\ \A k \in 1 .. m : SubSeq(u, 1, m)[k] = u[k]
      BY <1>5, <2>1, <2>2
    <3>2. /\ SubSeq(s, 1, m) \in Seq(Part) /\ Len(SubSeq(s, 1, m)) = m
          /\ \A k \in 1 .. m : SubSeq(s, 1, m)[k] = s[k]
      BY <1>5, <2>1, <2>2
    <3>3. \A k \in 1 .. m : k \in 1 .. Len(s)
      BY <1>5, <2>1, <2>2
    <3>4. QED
      BY <2>1, <3>1, <3>2, <3>3, SeqEqual
  <2>3. SubSeq(s, 1, Len(s)) = s
    BY <2>1
  <2>4. m < Len(u) <=> m =< Len(s)
    BY <1>5, <2>1
  <2>5. m = Len(path)
    BY DEF m
  <2>6. CASE m < Len(s)
    <3>1. s # path
      BY <1>5, <2>1, <2>5, <2>6
    <3>2. m =< Len(s)
      BY <1>5, <2>1, <2>6
    <3>3. QED
      BY <2>2, <2>4, <2>5, <2>6, <3>1, <3>2 DEF Under, u
  <2>7. CASE m = Len(s)
    <3>1. ~(m < Len(s)) /\ m =< Len(s)
      BY <1>5, <2>7
    <3>2. QED
      BY <2>2, <2>3, <2>4, <2>5, <2>7, <3>1 DEF Under, u
  <2>8. CASE m > Len(s)
    <3>1. ~(m < Len(s)) /\ ~(m =< Len(s)) /\ s # path
      BY <1>5, <2>1, <2>5, <2>8
    <3>2. QED
      BY <2>4, <2>5, <3>1 DEF Under, u
  <2>9. QED
    BY <1>5, <2>1, <2>6, <2>7, <2>8
\* What moves with a directory is what lies in it or below it.
<1>14. ASSUME NEW j \in Used \ {0}
       PROVE  j \in M <=> j = i \/ table[j].parent \in M
  <2> DEFINE q == table[j].parent
  <2>1. Under(path, PathOf[j]) <=> PathOf[q] = path \/ Under(path, PathOf[q])
    <3> DEFINE s == PathOf[q]
               x == NameOf(table[j])
    <3>1. PathOf[j] = Append(s, x) /\ s \in Seq(Part) /\ x \in Part
      BY <1>11
    <3> HIDE DEF s, x
    <3>2. Under(path, Append(s, x)) <=> s = path \/ Under(path, s)
      BY <1>13, <3>1
    <3>3. QED
      BY <3>1, <3>2 DEF s
  <2>2. q \in Dirs /\ q \in Used
    BY <1>11
  <2>3. type = "DIR" => i \in Dirs
    BY <1>2, <1>6 DEF Dirs
  <2>4. type = "DIR" => (PathOf[q] = path <=> q = i)
    BY <1>2, <1>5, <2>2, <2>3, DirOnce
  <2>5. ~Under(path, PathOf[0])
    <3>1. PathOf[0] = <<>> /\ Len(<<>>) = 0
      BY DEF Settled, PathsUp
    <3>2. QED
      BY <1>5, <3>1 DEF Under
  <2>6. type # "DIR" => q # i
    BY <1>2, <2>2 DEF Dirs
  <2>7. j \in M <=> j = i \/ (type = "DIR" /\ (q = i \/ Under(path, PathOf[q])))
    BY <1>12, <2>1, <2>4
  <2>8. q \in M <=> q # 0 /\ (q = i \/ (type = "DIR" /\ Under(path, PathOf[q])))
    BY <1>12, <2>2
  <2>9. QED
    BY <1>5, <2>5, <2>6, <2>7, <2>8
<1>15. 0 \notin M /\ M \subseteq Used
  BY DEF M
<1>16. \A j \in Used : PathOf'[j] = IF j \in M THEN New(j) ELSE PathOf[j]
  <2> DEFINE X == {j \in Used : PathOf'[j] # IF j \in M THEN New(j) ELSE PathOf[j]}
  <2> SUFFICES ASSUME X # {} PROVE FALSE
    OBVIOUS
  <2>1. X \in SUBSET (Used \ {0})
    BY <1>10, <1>15 DEF Settled, PathsUp
  <2>2. PICK j \in X : table[j].parent \notin X
    BY <2>1 DEF Settled, WellFounded
  <2> DEFINE q == table[j].parent
  <2>3. j \in Used \ {0} /\ PathOf'[j] # (IF j \in M THEN New(j) ELSE PathOf[j])
    BY <2>1, <2>2
  <2>4. q \in Used /\ PathOf'[q] = IF q \in M THEN New(q) ELSE PathOf[q]
    BY <1>11, <2>2, <2>3
  <2> HIDE DEF X
  <2>5. CASE j = i
    <3>1. q \notin M
      <4>1. PathOf[j] = Append(PathOf[q], NameOf(table[j]))
        BY <1>11, <2>3
      <4>2. PathOf[q] # path /\ ~Under(path, PathOf[q])
        <5>1. ~Under(path, path)
          BY <1>5 DEF Under
        <5>2. QED
          BY <1>2, <1>11, <1>13, <2>3, <2>5, <4>1, <5>1
      <4>3. q # i
        BY <1>2, <4>2
      <4>4. QED
        BY <1>12, <2>4, <4>2, <4>3
    <3>2. PathOf'[j] = Append(PathOf[q], name)
      BY <1>7, <1>11, <2>3, <2>4, <2>5, <3>1
    <3>3. PathOf[q] = Front(path) /\ PathOf[q] \in Seq(Part) /\ Len(PathOf[q]) = m - 1
      <4>1. PathOf[q] = Front(path)
        BY <1>2, <2>5, <1>5, PathUp DEF Front
      <4>2. path = Append(PathOf[q], Last(path)) /\ Last(path) \in Part /\ PathOf[q] \in Seq(Part)
        BY <1>11, <2>3, <4>1, PathJoined, PathFront DEF Part
      <4>3. Len(path) = Len(PathOf[q]) + 1 /\ Len(PathOf[q]) \in Nat
        BY <4>2
      <4>4. QED
        BY <4>1, <4>2, <4>3
    <3>4. [path EXCEPT ![m] = name] = Append(PathOf[q], name)
      <4> DEFINE s == PathOf[q]
                 u == [path EXCEPT ![m] = name]
                 v == Append(s, name)
      <4>1. path = Append(s, Last(path)) /\ s \in Seq(Part) /\ Last(path) \in Part /\ Len(s) = m - 1
        BY <3>3, PathJoined, PathFront DEF Part
      <4> HIDE DEF s, m
      <4>2. u \in Seq(Part) /\ Len(u) = m /\ u[m] = name /\ \A k \in 1 .. m - 1 : u[k] = s[k]
        <5>1. Len(path) = m /\ \A k \in 1 .. m - 1 : path[k] = s[k]
          BY <1>5, <4>1 DEF m
        <5>2. QED
          BY <1>5, <5>1
      <4>3. v \in Seq(Part) /\ Len(v) = m /\ v[m] = name /\ \A k \in 1 .. m - 1 : v[k] = s[k]
        BY <1>5, <4>1
      <4> HIDE DEF u, v
      <4>4. \A k \in 1 .. m : k = m \/ k \in 1 .. m - 1
        BY <1>5
      <4>5. u = v
        BY <4>2, <4>3, <4>4, SeqEqual
      <4>6. QED
        BY <4>5 DEF u, v, s
    <3>5. j \in M
      BY <1>12, <2>3, <2>5
    <3>6. QED
      BY <1>2, <2>3, <2>5, <3>2, <3>4, <3>5
  <2>6. CASE j # i
    <3>1. NameOf(table'[j]) = NameOf(table[j])
      BY <1>6, <1>7, <2>3, <2>6
    <3>2. CASE j \in M
      <4> DEFINE s == PathOf[q]
                 x == NameOf(table[j])
      <4>1. q \in M /\ s \in Seq(Part) /\ x \in Part /\ PathOf[j] = Append(s, x)
        BY <1>11, <1>14, <2>3, <2>6, <3>2
      <4>2. PathOf'[j] = Append([s EXCEPT ![m] = name], x)
        BY <1>11, <2>3, <2>4, <3>1, <4>1
      <4>3. m =< Len(s) /\ Len(s) \in Nat
        BY <1>2, <1>5, <1>12, <2>4, <4>1 DEF Under
      <4> HIDE DEF s, x, m
      <4>4. Append([s EXCEPT ![m] = name], x) = [Append(s, x) EXCEPT ![m] = name]
        <5> DEFINE r == [s EXCEPT ![m] = name]
                   u == Append(r, x)
                   w == Append(s, x)
                   v == [w EXCEPT ![m] = name]
        <5>1. r \in Seq(Part) /\ Len(r) = Len(s) /\ \A k \in 1 .. Len(s) : r[k] = IF k = m THEN name ELSE s[k]
          BY <1>5, <4>1, <4>3
        <5>2. w \in Seq(Part) /\ Len(w) = Len(s) + 1 /\ w[Len(s) + 1] = x /\ \A k \in 1 .. Len(s) : w[k] = s[k]
          BY <4>1, <4>3
        <5> HIDE DEF r, w
        <5>3. u \in Seq(Part) /\ Len(u) = Len(s) + 1 /\ u[Len(s) + 1] = x /\ \A k \in 1 .. Len(s) : u[k] = r[k]
          BY <4>1, <4>3, <5>1
        <5>4. v \in Seq(Part) /\ Len(v) = Len(s) + 1
              /\ \A k \in 1 .. Len(s) + 1 : v[k] = IF k = m THEN name ELSE w[k]
          BY <1>5, <4>3, <5>2
        <5> HIDE DEF u, v
        <5>5. ASSUME NEW k \in 1 .. Len(s) + 1 PROVE u[k] = v[k]
          <6>1. CASE k = Len(s) + 1
            BY <4>3, <1>5, <5>2, <5>3, <5>4, <6>1
          <6>2. CASE k # Len(s) + 1
            <7>1. k \in 1 .. Len(s)
              BY <4>3, <6>2
            <7>2. QED
              BY <5>1, <5>2, <5>3, <5>4, <7>1
          <6>3. QED
            BY <6>1, <6>2
        <5>6. u = v
          BY <5>3, <5>4, <5>5, SeqEqual
        <5>7. QED
          BY <5>6 DEF u, v, r, w
      <4>5. QED
        BY <2>3, <3>2, <4>1, <4>2, <4>4
    <3>3. CASE j \notin M
      <4>1. q \notin M
        BY <1>14, <2>3, <3>3
      <4>2. QED
        BY <1>11, <2>3, <2>4, <3>1, <3>3, <4>1
    <3>4. QED
      BY <3>2, <3>3
  <2>7. QED
    BY <2>5, <2>6
<1>17. Moved(path, type, Tree) = {Place(j) : j \in M}
  <2>1. \A j \in Used : j \in M <=> Place(j) = At(path, type) \/ (type = "DIR" /\ Under(path, Place(j).path))
    <3> TAKE j \in Used
    <3>1. Place(j).path = PathOf[j] /\ (Place(j) = At(path, type) <=> PathOf[j] = path /\ table[j].type = type)
      BY DEF Place, At
    <3>2. PathOf[j] = path /\ table[j].type = type <=> j = i
      BY <1>2, PlaceOnce
    <3>3. j = 0 => ~Under(path, PathOf[j])
      <4>1. PathOf[0] = <<>> /\ Len(<<>>) = 0
        BY DEF Settled, PathsUp
      <4>2. QED
        BY <1>5, <4>1 DEF Under
    <3>4. QED
      BY <1>5, <1>12, <3>1, <3>2, <3>3
  <2>2. QED
    BY <1>15, <2>1, Places DEF Moved
<1>18. Tree \ Moved(path, type, Tree) = {Place(j) : j \in Used \ M}
  <2>1. ASSUME NEW j \in Used, NEW k \in M, Place(j) = Place(k) PROVE j \in M
    <3>1. PathOf[j] = PathOf[k] /\ table[j].type = table[k].type
      BY <2>1 DEF Place, At
    <3>2. j # 0
      BY <1>15, <3>1, PathUp
    <3>3. QED
      BY <1>2, <1>12, <1>15, <2>1, <3>1, <3>2, PlaceOnce
  <2>2. QED
    BY <1>15, <1>17, <2>1, Places
<1>19. \A j \in Used : Place(j)' = IF j \in M THEN Moving(Place(j), path, name) ELSE Place(j)
  <2> TAKE j \in Used
  <2>1. Place(j)' = At(PathOf'[j], table[j].type)
    BY <1>6, <1>8 DEF Place
  <2>2. j \in M => Moving(Place(j), path, name) = At(New(j), table[j].type)
    BY DEF Moving, Place, At
  <2>3. QED
    BY <1>16, <2>1, <2>2 DEF Place
<1>20. Tree' = {Place(j)' : j \in Used}
  BY <1>9 DEF Tree, Place, At
<1> HIDE DEF New
<1>21. {Moving(t, path, name) : t \in Moved(path, type, Tree)} = {Moving(Place(j), path, name) : j \in M}
  BY <1>17
<1>22. QED
  BY <1>15, <1>18, <1>19, <1>20, <1>21

\* Every operation changes the tree where its path says and nowhere else, for every size of
\* the table, set of names and depth: a new entry appears at its path, a file or an empty
\* directory disappears from its own, and a new name moves the entry and what lies below it
\* (vfs_create_dir, fs_file_create, vfs_delete_dir, vfs_delete_file, vfs_rename_dir,
\* vfs_rename_file).
THEOREM OperationsAreExact == Spec => OperationsExact
<1> DEFINE Exact ==
      LET tree  == Tree
          after == Tree'
      IN  \A path \in Paths, type \in Type : Rooted(path, tree) =>
            /\ (Create(path, type) /\ \E i \in FreeIndex : NameOf(table'[i]) = Last(path)) =>
                 after = tree \cup {At(path, type)}
            /\ Moved(path, type, tree) = {At(path, type)} =>
                 (Delete(path, type) => after = tree \ {At(path, type)})
            /\ At(path, type) \in tree => \A name \in Name :
                 (Takes(GetByName(path, type), name) /\ Rename(path, type, name)) =>
                   after = (tree \ Moved(path, type, tree))
                             \cup {Moving(t, path, name) : t \in Moved(path, type, tree)}
<1>1. Sane /\ EveryEntrySeen /\ Sane' => (pc = "idle" /\ Orderly /\ table' # table => Exact)
  <2> SUFFICES ASSUME Sane, EveryEntrySeen, Sane', pc = "idle", Orderly,
                      NEW path \in Paths, NEW type \in Type, Rooted(path, Tree)
               PROVE  /\ (Create(path, type) /\ \E i \in FreeIndex : NameOf(table'[i]) = Last(path)) =>
                           Tree' = Tree \cup {At(path, type)}
                      /\ Moved(path, type, Tree) = {At(path, type)} =>
                           (Delete(path, type) => Tree' = Tree \ {At(path, type)})
                      /\ At(path, type) \in Tree => \A name \in Name :
                           (Takes(GetByName(path, type), name) /\ Rename(path, type, name)) =>
                             Tree' = (Tree \ Moved(path, type, Tree))
                                       \cup {Moving(t, path, name) : t \in Moved(path, type, Tree)}
    BY Zenon
  <2>1. Settled
    BY SettledIdle
  <2>2. (Create(path, type) /\ \E i \in FreeIndex : NameOf(table'[i]) = Last(path)) =>
          Tree' = Tree \cup {At(path, type)}
    BY <2>1, CreateTree
  <2>3. Moved(path, type, Tree) = {At(path, type)} /\ Delete(path, type) =>
          Tree' = Tree \ {At(path, type)}
    BY <2>1, DeleteTree
  <2>4. ASSUME At(path, type) \in Tree, NEW name \in Name,
               Takes(GetByName(path, type), name), Rename(path, type, name)
        PROVE  Tree' = (Tree \ Moved(path, type, Tree))
                         \cup {Moving(t, path, name) : t \in Moved(path, type, Tree)}
    BY <2>1, <2>4, RenameTree
  <2>5. QED
    BY <2>2, <2>3, <2>4, Zenon
<1>2. Sane /\ EveryEntrySeen /\ Sane' => [pc = "idle" /\ Orderly /\ table' # table => Exact]_vars
  BY <1>1
<1>3. [][pc = "idle" /\ Orderly /\ table' # table => Exact]_vars => OperationsExact
  BY DEF OperationsExact
<1> HIDE DEF Exact
<1>4. QED
  BY DirectoriesSane, EntriesStaySeen, <1>2, <1>3, PTL
=============================================================================
