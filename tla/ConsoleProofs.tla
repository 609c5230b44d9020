---------------------------- MODULE ConsoleProofs ----------------------------
(* Proofs about Console.tla.                                               *)
EXTENDS Console, FiniteSetTheorems, TLAPS

-----------------------------------------------------------------------------
\* Enter is down and no command has been started for it only if it has been pressed since
\* the last command started: cli_executing is only reset while Enter is up.
PressPending == (enter /\ ~executing) => fresh

\* Every step of the keyboard and of the command line keeps PressPending.
LEMMA PressPendingStep == PressPending /\ [Next]_vars => PressPending'
<1> SUFFICES ASSUME PressPending, [Next]_vars PROVE PressPending'
  OBVIOUS
<1> USE DEF PressPending
<1>1. CASE UNCHANGED vars
  BY <1>1 DEF vars, ghosts
<1>2. CASE Keyboard
  <2>1. CASE \E c \in Char \cup {SPACE} : Type(c)
    BY <2>1 DEF Type
  <2>2. CASE Backspace
    BY <2>2 DEF Backspace
  <2>3. CASE PressEnter
    <3>1. enter' = TRUE /\ fresh' = (fresh \/ ~enter) /\ executing' = executing
      BY <2>3 DEF PressEnter
    <3>2. CASE enter
      BY <3>1, <3>2
    <3>3. CASE ~enter
      BY <3>1, <3>3
    <3> QED
      BY <3>2, <3>3
  <2>4. CASE ReleaseEnter
    BY <2>4 DEF ReleaseEnter
  <2> QED
    BY <1>2, <2>1, <2>2, <2>3, <2>4 DEF Keyboard
<1>3. CASE Cli
  <2>1. CASE Start
    BY <2>1 DEF Start
  <2>2. CASE Execute \/ SplitBegins \/ NextString \/ SplitEnds \/ Return \/ Clear
    BY <2>2 DEF Execute, SplitBegins, NextString, SplitEnds, Return, Clear, ghosts
  <2>3. CASE ClearEnds
    BY <2>3 DEF ClearEnds
  <2>4. CASE Rest
    BY <2>4 DEF Rest, MayRest
  <2> QED
    BY <1>3, <2>1, <2>2, <2>3, <2>4 DEF Cli
<1> QED
  BY <1>1, <1>2, <1>3 DEF Next

\* Only Start sets cli_executing, and it does so while Enter is down.
LEMMA StartIsPressed ==
  PressPending /\ [Next]_vars => [(executing' /\ ~executing) => fresh]_vars
<1> SUFFICES ASSUME PressPending, Next, executing', ~executing PROVE fresh
  BY DEF vars
<1>1. CASE Keyboard
  BY <1>1 DEF Keyboard, Type, Backspace, PressEnter, ReleaseEnter
<1>2. CASE Start
  BY <1>2 DEF Start, MayStart, PressPending
<1>3. CASE Execute \/ SplitBegins \/ NextString \/ SplitEnds \/ Return \/ Clear \/ ClearEnds \/ Rest
  BY <1>3 DEF Execute, SplitBegins, NextString, SplitEnds, Return, Clear, ClearEnds, Rest
<1> QED
  BY <1>1, <1>2, <1>3 DEF Next, Cli

\* One press of Enter runs at most one command, for every buffer size and character set:
\* the keymap, which the interrupt writes, and cli_executing, which the poll writes, never
\* get out of step.
THEOREM ConsoleOneRunPerPress == Spec => OneRunPerPress
<1>1. Init => PressPending
  BY DEF Init, PressPending
<1> QED
  BY <1>1, PressPendingStep, StartIsPressed, PTL DEF Spec, OneRunPerPress

-----------------------------------------------------------------------------
(* The loops that look for a character in the buffer.                      *)

LEMMA NatLeast ==
  ASSUME NEW T \in SUBSET Nat, T # {}
  PROVE  \E x \in T : \A y \in T : x =< y
<1> DEFINE R == OpToRel(<, Nat)
<1>1. IsWellFoundedOn(R, Nat)
  BY NatLessThanWellFounded
<1>2. \A x, y \in Nat : x < y => <<x, y>> \in R
  BY DEF OpToRel
<1> HIDE DEF R
<1>3. PICK x \in T : \A y \in T : ~(<<y, x>> \in R)
  BY <1>1, WFMin
<1>4. \A y \in T : ~(y < x)
  BY <1>2, <1>3
<1>5. \A y \in T : y \in Int /\ x \in Int
  OBVIOUS
<1>6. QED
  BY <1>4, <1>5

\* Where a loop from cell i that looks for the character c up to cell j stops.
StopsAt(i, j, c, n) == (n < j => buf[n] = c) /\ \A k \in i .. n - 1 : buf[k] # c

LEMMA FirstFound ==
  ASSUME NEW i \in Nat, NEW j \in Nat, i =< j, NEW c
  PROVE  \E n \in i .. j : StopsAt(i, j, c, n)
<1> DEFINE T == {n \in i .. j : n < j => buf[n] = c}
<1>1. j \in T /\ T \in SUBSET Nat
  OBVIOUS
<1> HIDE DEF T
<1>2. PICK n \in T : \A k \in T : n =< k
  BY <1>1, NatLeast
<1>3. n \in i .. j /\ (n < j => buf[n] = c)
  BY <1>2 DEF T
<1>4. ASSUME NEW k \in i .. n - 1, buf[k] = c PROVE FALSE
  <2>1. k \in i .. j /\ k < n
    BY <1>3
  <2>2. k \in T
    BY <1>4, <2>1 DEF T
  <2>3. QED
    BY <1>2, <1>3, <2>1, <2>2
<1>5. QED
  BY <1>3, <1>4 DEF StopsAt

LEMMA StrLenStops ==
  /\ StrLen \in 0 .. SIZE
  /\ StrLen \in Cell => buf[StrLen] = NUL
  /\ \A i \in 0 .. StrLen - 1 : buf[i] # NUL
<1>1. SIZE \in Nat
  BY ConsoleAssumption
<1>2. \E n \in 0 .. SIZE : (n < SIZE => buf[n] = NUL) /\ \A i \in 0 .. n - 1 : buf[i] # NUL
  <2>1. \E n \in 0 .. SIZE : StopsAt(0, SIZE, NUL, n)
    BY <1>1, FirstFound
  <2>2. QED
    BY <2>1 DEF StopsAt
<1>3. \E n \in 0 .. SIZE : (n \in Cell => buf[n] = NUL) /\ \A i \in 0 .. n - 1 : buf[i] # NUL
  BY <1>1, <1>2 DEF Cell
<1> DEFINE found == CHOOSE n \in 0 .. SIZE : /\ n \in Cell => buf[n] = NUL
                                             /\ \A i \in 0 .. n - 1 : buf[i] # NUL
<1>4. /\ found \in 0 .. SIZE /\ (found \in Cell => buf[found] = NUL)
      /\ \A i \in 0 .. found - 1 : buf[i] # NUL
  BY <1>3
<1>5. StrLen = found
  BY DEF StrLen
<1> HIDE DEF found
<1>6. QED
  BY <1>4, <1>5

LEMMA StopStops ==
  ASSUME end \in Nat, len \in Nat, end < len
  PROVE  /\ Stop \in end .. len
         /\ Stop < len => buf[Stop] = SPACE
         /\ \A k \in end .. Stop - 1 : buf[k] # SPACE
<1>1. \E n \in end .. len : (n < len => buf[n] = SPACE) /\ \A k \in end .. n - 1 : buf[k] # SPACE
  <2>1. \E n \in end .. len : StopsAt(end, len, SPACE, n)
    BY FirstFound
  <2>2. QED
    BY <2>1 DEF StopsAt
<1> DEFINE found == CHOOSE n \in end .. len : /\ n < len => buf[n] = SPACE
                                              /\ \A k \in end .. n - 1 : buf[k] # SPACE
<1>2. /\ found \in end .. len /\ (found < len => buf[found] = SPACE)
      /\ \A k \in end .. found - 1 : buf[k] # SPACE
  BY <1>1
<1>3. Stop = found
  BY DEF Stop
<1> HIDE DEF found
<1>4. QED
  BY <1>2, <1>3

\* A string that strsplit copies is one of the characters that have been typed.
LEMMA StringTyped ==
  ASSUME TypeOK, NEW i \in Nat, NEW j \in Nat, i =< j, j =< SIZE
  PROVE  String(i, j) \in Seq(Char \cup {SPACE})
<1> DEFINE stop == CHOOSE n \in i .. j : /\ n < j => buf[n] = NUL
                                         /\ \A k \in i .. n - 1 : buf[k] # NUL
<1>1. stop \in i .. j /\ \A k \in i .. stop - 1 : buf[k] # NUL
  <2>1. \E n \in i .. j : (n < j => buf[n] = NUL) /\ \A k \in i .. n - 1 : buf[k] # NUL
    <3>1. \E n \in i .. j : StopsAt(i, j, NUL, n)
      BY FirstFound
    <3>2. QED
      BY <3>1 DEF StopsAt
  <2>2. QED
    BY <2>1
<1>2. String(i, j) = [k \in 1 .. stop - i |-> buf[i + k - 1]]
  BY DEF String
<1> HIDE DEF stop
<1>3. stop - i \in Nat
  BY <1>1
<1>4. \A k \in 1 .. stop - i : buf[i + k - 1] \in Char \cup {SPACE}
  <2> TAKE k \in 1 .. stop - i
  <2>1. i + k - 1 \in i .. stop - 1 /\ i + k - 1 \in Cell
    BY <1>1, ConsoleAssumption DEF Cell
  <2>2. QED
    BY <1>1, <2>1 DEF TypeOK
<1>5. QED
  BY <1>2, <1>3, <1>4

-----------------------------------------------------------------------------
LEMMA TypeInit == Init => TypeOK
<1> SUFFICES ASSUME Init PROVE TypeOK
  OBVIOUS
<1>1. SIZE \in Nat
  BY ConsoleAssumption
<1>2. buf \in [Cell -> Char \cup {SPACE, NUL}]
  BY DEF Init
<1>3. args = <<>> /\ line = <<>> /\ pc = "idle" /\ damage = {}
  BY DEF Init
<1>4. /\ enter = FALSE /\ executing = FALSE /\ fresh = FALSE /\ disturbed = FALSE
      /\ len = 0 /\ room = 0 /\ end = 0 /\ at = 0
  BY DEF Init
<1>5. len \in 0 .. SIZE /\ room \in 0 .. SIZE /\ end \in 0 .. SIZE + 1 /\ at \in 0 .. SIZE
  BY <1>1, <1>4
<1>6. args \in Seq(Seq(Char \cup {SPACE})) /\ line \in Seq(Char \cup {SPACE})
  BY <1>3
<1>7. QED
  BY <1>2, <1>3, <1>4, <1>5, <1>6 DEF TypeOK

LEMMA TypeKeyboard == ASSUME TypeOK, Keyboard PROVE TypeOK'
<1>1. SIZE \in Nat /\ \A c \in Char \cup {SPACE} : c # NUL
  BY ConsoleAssumption
<1>2. ASSUME NEW c \in Char \cup {SPACE}, Type(c) PROVE TypeOK'
  <2>1. buf' \in [Cell -> Char \cup {SPACE, NUL}]
    <3>1. buf' = [i \in Cell |-> IF i = StrLen THEN c ELSE IF i = StrLen + 1 THEN NUL ELSE buf[i]]
      BY <1>2 DEF Type
    <3>2. \A i \in Cell : buf[i] \in Char \cup {SPACE, NUL}
      BY DEF TypeOK
    <3>3. QED
      BY <3>1, <3>2
  <2>2. line' \in Seq(Char \cup {SPACE}) /\ disturbed' \in BOOLEAN
    <3>1. Append(line, c) \in Seq(Char \cup {SPACE})
      BY DEF TypeOK
    <3>2. CASE pc = "idle"
      BY <1>2, <3>1, <3>2 DEF Type, Typed, TypeOK
    <3>3. CASE pc # "idle"
      BY <1>2, <3>3 DEF Type, Typed, TypeOK
    <3>4. QED
      BY <3>2, <3>3
  <2>3. damage' \in SUBSET {"overflow", "null", "args"}
    BY <1>2 DEF Type, TypeOK
  <2>4. QED
    BY <1>2, <2>1, <2>2, <2>3 DEF Type, TypeOK, parse
<1>3. CASE Backspace
  <2>1. buf' \in [Cell -> Char \cup {SPACE, NUL}]
    BY <1>3 DEF Backspace, Erased, TypeOK
  <2>2. line' \in Seq(Char \cup {SPACE}) /\ disturbed' \in BOOLEAN
    <3>1. CASE line = <<>>
      BY <1>3, <3>1 DEF Backspace, Typed, TypeOK
    <3>2. CASE line # <<>>
      <4>1. Front(line) \in Seq(Char \cup {SPACE})
        BY <3>2 DEF Front, TypeOK
      <4>2. QED
        BY <1>3, <3>2, <4>1 DEF Backspace, Typed, TypeOK
    <3>3. QED
      BY <3>1, <3>2
  <2>3. QED
    BY <1>3, <2>1, <2>2 DEF Backspace, TypeOK, parse
<1>4. CASE PressEnter \/ ReleaseEnter
  <2>1. enter' \in BOOLEAN /\ fresh' \in BOOLEAN
    BY <1>4 DEF PressEnter, ReleaseEnter, TypeOK, ghosts
  <2>2. UNCHANGED <<buf, executing, pc, parse, at, damage, line, disturbed>>
    BY <1>4 DEF PressEnter, ReleaseEnter, ghosts
  <2>3. QED
    BY <2>1, <2>2 DEF TypeOK, parse
<1>5. QED
  BY <1>2, <1>3, <1>4 DEF Keyboard

\* strsplit makes room for at most as many strings as the buffer has cells.
LEMMA RoomBound == Room \in 0 .. SIZE \/ StrLen = 0
<1>1. SIZE \in Nat /\ StrLen \in 0 .. SIZE
  BY ConsoleAssumption, StrLenStops
<1>2. CASE StrLen # 0
  <2>1. IsFiniteSet(0 .. StrLen - 2) /\ Cardinality(0 .. StrLen - 2) = StrLen - 1
    BY <1>1, <1>2, FS_Interval
  <2>2. Delimiters \in SUBSET (0 .. StrLen - 2)
    BY DEF Delimiters
  <2>3. Cardinality(Delimiters) \in Nat /\ Cardinality(Delimiters) =< StrLen - 1
    BY <2>1, <2>2, FS_Subset, FS_CardinalityType
  <2>4. QED
    BY <1>1, <2>3 DEF Room
<1>3. QED
  BY <1>2

LEMMA TypeCli == ASSUME TypeOK, Cli PROVE TypeOK'
<1>1. SIZE \in Nat /\ SIZE >= 2
  BY ConsoleAssumption
<1>2. CASE Start \/ Return \/ Rest
  <2>1. CASE Start
    BY <2>1 DEF Start, TypeOK, parse
  <2>2. CASE Return
    <3>1. args' \in Seq(Seq(Char \cup {SPACE}))
      BY <2>2 DEF Return
    <3>2. QED
      BY <2>2, <3>1 DEF Return, TypeOK, ghosts
  <2>3. CASE Rest
    BY <2>3 DEF Rest, TypeOK, parse, ghosts
  <2>4. QED
    BY <1>2, <2>1, <2>2, <2>3
<1>3. CASE Execute
  BY <1>1, <1>3 DEF Execute, TypeOK, parse, ghosts
<1>4. CASE SplitBegins
  <2>1. CASE StrLen = 0
    BY <1>4, <2>1 DEF SplitBegins, TypeOK, parse, ghosts
  <2>2. CASE StrLen # 0
    <3>1. /\ len' = StrLen /\ room' = Room /\ end' = 0 /\ args' = <<>> /\ pc' = "strings"
          /\ UNCHANGED <<damage, buf, enter, executing, at, ghosts>>
      BY <1>4, <2>2 DEF SplitBegins
    <3>2. len' \in 0 .. SIZE /\ room' \in 0 .. SIZE /\ end' \in 0 .. SIZE + 1
      BY <1>1, <2>2, <3>1, StrLenStops, RoomBound
    <3>3. QED
      BY <3>1, <3>2 DEF TypeOK, ghosts
  <2>3. QED
    BY <2>1, <2>2
<1>5. CASE NextString
  <2>1. /\ args' = Append(args, String(end, Stop)) /\ end' = Stop + 1 /\ end < len
        /\ UNCHANGED <<buf, enter, executing, pc, len, room, at, ghosts>>
        /\ damage' = IF Len(args) < room THEN damage ELSE damage \cup {"args"}
    BY <1>5 DEF NextString
  <2>2. end \in Nat /\ len \in Nat /\ len =< SIZE
    BY <1>1 DEF TypeOK
  <2>3. Stop \in end .. len
    BY <2>1, <2>2, StopStops
  <2>4. String(end, Stop) \in Seq(Char \cup {SPACE})
    BY <1>1, <2>2, <2>3, StringTyped
  <2>5. args' \in Seq(Seq(Char \cup {SPACE}))
    BY <2>1, <2>4 DEF TypeOK
  <2>6. end' \in 0 .. SIZE + 1
    BY <1>1, <2>1, <2>2, <2>3
  <2>7. damage' \in SUBSET {"overflow", "null", "args"}
    BY <2>1 DEF TypeOK
  <2>8. QED
    BY <2>1, <2>5, <2>6, <2>7 DEF TypeOK, ghosts
<1>6. CASE SplitEnds
  BY <1>1, <1>6 DEF SplitEnds, TypeOK, ghosts
<1>7. CASE Clear
  <2>1. buf' \in [Cell -> Char \cup {SPACE, NUL}]
    BY <1>7 DEF Clear, TypeOK
  <2>2. at' \in 0 .. SIZE
    BY <1>1, <1>7 DEF Clear, ClearSize, TypeOK
  <2>3. QED
    BY <1>7, <2>1, <2>2 DEF Clear, TypeOK, parse, ghosts
<1>8. CASE ClearEnds
  <2>1. \A i \in 1 .. StrLen : buf[i - 1] \in Char \cup {SPACE}
    <3> TAKE i \in 1 .. StrLen
    <3>1. i - 1 \in 0 .. StrLen - 1 /\ i - 1 \in Cell
      BY <1>1, StrLenStops DEF Cell
    <3>2. QED
      BY <3>1, StrLenStops DEF TypeOK
  <2>2. line' \in Seq(Char \cup {SPACE})
    BY <1>8, <2>1, StrLenStops DEF ClearEnds
  <2>3. QED
    BY <1>8, <2>2 DEF ClearEnds, TypeOK, parse
<1>9. QED
  BY <1>2, <1>3, <1>4, <1>5, <1>6, <1>7, <1>8 DEF Cli

LEMMA TypeNext == TypeOK /\ [Next]_vars => TypeOK'
<1> SUFFICES ASSUME TypeOK, [Next]_vars PROVE TypeOK'
  OBVIOUS
<1>1. CASE UNCHANGED vars
  BY <1>1 DEF vars, parse, ghosts, TypeOK
<1>2. QED
  BY <1>1, TypeKeyboard, TypeCli DEF Next

\* The buffer holds characters and NULs, the measures of strsplit stay within the buffer and
\* the strings it makes have only characters that were typed.
THEOREM ConsoleTyped == Spec => []TypeOK
  BY TypeInit, TypeNext, PTL DEF Spec

-----------------------------------------------------------------------------
(* The room strsplit makes.                                                *)

Spaces(n) == {i \in 0 .. n - 1 : buf[i] = SPACE}

\* While no key changes the buffer, it begins with what was found to be there, strsplit has
\* copied one string for every space behind it, and has made room for one more than the
\* spaces before the last character.
Splitting ==
  ~disturbed =>
    /\ pc = "split" => buf[0] # NUL
    /\ pc = "strings" => /\ room = Cardinality(Spaces(len - 1)) + 1
                         /\ end =< len => Len(args) = Cardinality(Spaces(end))

LEMMA SpacesFinite ==
  ASSUME NEW n \in Int
  PROVE  IsFiniteSet(Spaces(n)) /\ Cardinality(Spaces(n)) \in Nat
<1>1. IsFiniteSet(0 .. n - 1)
  BY FS_Interval
<1>2. IsFiniteSet(Spaces(n))
  BY <1>1, FS_Subset DEF Spaces
<1>3. QED
  BY <1>2, FS_CardinalityType

\* The string that is copied next has its place.
LEMMA StringFits ==
  ASSUME TypeOK, Splitting, ~disturbed, NextString
  PROVE  Len(args) < room /\ (end' =< len => Len(args) + 1 = Cardinality(Spaces(end')))
<1>1. end \in Nat /\ len \in Nat /\ end < len /\ end' = Stop + 1
  BY ConsoleAssumption DEF TypeOK, NextString
<1>2. room = Cardinality(Spaces(len - 1)) + 1 /\ Len(args) = Cardinality(Spaces(end))
  BY <1>1 DEF Splitting, NextString
<1>3. Cardinality(Spaces(end)) =< Cardinality(Spaces(len - 1))
  <2>1. Spaces(end) \in SUBSET Spaces(len - 1)
    BY <1>1 DEF Spaces
  <2>2. IsFiniteSet(Spaces(len - 1))
    BY <1>1, SpacesFinite
  <2>3. QED
    BY <2>1, <2>2, FS_Subset
<1>4. Cardinality(Spaces(end)) \in Nat /\ Cardinality(Spaces(len - 1)) \in Nat
  BY <1>1, SpacesFinite
<1>5. Len(args) < room
  BY <1>2, <1>3, <1>4
<1>6. ASSUME end' =< len PROVE Len(args) + 1 = Cardinality(Spaces(end'))
  <2>1. /\ Stop \in end .. len /\ (Stop < len => buf[Stop] = SPACE)
        /\ \A k \in end .. Stop - 1 : buf[k] # SPACE
    BY <1>1, StopStops
  <2>2. Stop < len
    BY <1>1, <1>6, <2>1
  <2>3. Spaces(end') = Spaces(end) \cup {Stop}
    BY <1>1, <2>1, <2>2 DEF Spaces
  <2>4. Stop \notin Spaces(end)
    BY <1>1, <2>1 DEF Spaces
  <2>5. IsFiniteSet(Spaces(end))
    BY <1>1, SpacesFinite
  <2>6. QED
    BY <1>2, <2>3, <2>4, <2>5, FS_AddElement
<1>7. QED
  BY <1>5, <1>6

LEMMA SplittingStep ==
  ASSUME TypeOK, Splitting, BoundsNeedNoLuck, [Next]_vars
  PROVE  Splitting' /\ BoundsNeedNoLuck'
<1>1. CASE UNCHANGED vars
  BY <1>1 DEF vars, parse, ghosts, Splitting, BoundsNeedNoLuck, Spaces
<1>2. ASSUME damage = {}, Keyboard PROVE Splitting' /\ BoundsNeedNoLuck'
  <2>1. \/ UNCHANGED <<buf, pc, parse, damage, disturbed>>
        \/ pc = "idle" /\ pc' = pc /\ damage' \subseteq {"overflow"}
        \/ disturbed'
    BY <1>2 DEF Keyboard, Type, Backspace, PressEnter, ReleaseEnter, Typed, ghosts
  <2>2. QED
    BY <2>1 DEF Splitting, BoundsNeedNoLuck, Spaces, parse
<1>3. ASSUME damage = {}, Cli PROVE Splitting' /\ BoundsNeedNoLuck'
  <2>1. CASE Start \/ Return \/ Rest \/ SplitEnds \/ Clear \/ ClearEnds
    <3>1. pc' \notin {"split", "strings"} /\ damage' = damage
      BY <2>1 DEF Start, Return, Rest, SplitEnds, Clear, ClearEnds
    <3>2. QED
      BY <1>3, <3>1 DEF Splitting, BoundsNeedNoLuck
  <2>2. CASE Execute
    <3>1. buf' = buf /\ damage' = damage /\ pc' # "strings" /\ (pc' = "split" => StrLen # 0)
      BY <2>2 DEF Execute
    <3>2. StrLen # 0 => buf[0] # NUL
      BY ConsoleAssumption, StrLenStops
    <3>3. QED
      BY <1>3, <3>1, <3>2 DEF Splitting, BoundsNeedNoLuck
  <2>3. CASE SplitBegins
    <3>0. UNCHANGED <<buf, disturbed>> /\ pc = "split"
      BY <2>3 DEF SplitBegins, ghosts
    <3>1. CASE StrLen = 0
      <4>1. buf[0] = NUL
        BY <3>1, ConsoleAssumption, StrLenStops DEF Cell
      <4>2. disturbed'
        BY <3>0, <4>1 DEF Splitting
      <4>3. QED
        BY <4>2 DEF Splitting, BoundsNeedNoLuck
    <3>2. CASE StrLen # 0
      <4>1. len' = StrLen /\ room' = Room /\ end' = 0 /\ args' = <<>> /\ pc' = "strings"
            /\ damage' = damage
        BY <2>3, <3>2 DEF SplitBegins
      <4>2. Delimiters = Spaces(len - 1)'
        <5>1. StrLen - 2 = StrLen - 1 - 1
          BY StrLenStops, ConsoleAssumption
        <5>2. QED
          BY <3>0, <4>1, <5>1 DEF Delimiters, Spaces
      <4>3. Spaces(end)' = {}
        BY <4>1 DEF Spaces
      <4>4. Len(args') = 0 /\ Cardinality(Spaces(end)') = 0
        BY <4>1, <4>3, FS_EmptySet
      <4>5. QED
        BY <1>3, <4>1, <4>2, <4>4 DEF Splitting, BoundsNeedNoLuck, Room
    <3>3. QED
      BY <3>1, <3>2
  <2>4. CASE NextString
    <3>1. UNCHANGED <<buf, pc, len, room, disturbed>> /\ pc = "strings"
      BY <2>4 DEF NextString, ghosts
    <3>2. CASE disturbed
      BY <3>1, <3>2 DEF Splitting, BoundsNeedNoLuck
    <3>3. CASE ~disturbed
      <4>1. Len(args) < room /\ (end' =< len => Len(args) + 1 = Cardinality(Spaces(end')))
        BY <2>4, <3>3, StringFits
      <4>2. damage' = damage /\ Len(args') = Len(args) + 1
        BY <2>4, <4>1 DEF NextString, TypeOK
      <4>3. Spaces(end)' = Spaces(end') /\ Spaces(len - 1)' = Spaces(len - 1)
        BY <3>1 DEF Spaces
      <4>4. QED
        BY <1>3, <3>1, <3>3, <4>1, <4>2, <4>3 DEF Splitting, BoundsNeedNoLuck
    <3>4. QED
      BY <3>2, <3>3
  <2>5. QED
    BY <1>3, <2>1, <2>2, <2>3, <2>4 DEF Cli
<1>4. QED
  BY <1>1, <1>2, <1>3 DEF Next

\* strsplit stays within the room it counted, and finds the line it was called for, for
\* every buffer size, unless a key changed the buffer after Enter was seen.
THEOREM ConsoleBounds == Spec => []BoundsNeedNoLuck
<1>1. Init => Splitting /\ BoundsNeedNoLuck
  BY DEF Init, Splitting, BoundsNeedNoLuck
<1>2. TypeOK /\ Splitting /\ BoundsNeedNoLuck /\ [Next]_vars => Splitting' /\ BoundsNeedNoLuck'
  BY SplittingStep
<1>3. QED
  BY <1>1, <1>2, ConsoleTyped, PTL DEF Spec

-----------------------------------------------------------------------------
(* The words of a line.                                                    *)

Rank(s, e) == Cardinality({f \in Ends(s) : f =< e})

LEMMA EndsAre ==
  ASSUME NEW s, Len(s) \in Nat
  PROVE  /\ Ends(s) \subseteq 1 .. Len(s) + 1 /\ \A e \in Ends(s) : e \in Nat /\ e > 0
         /\ IsFiniteSet(Ends(s)) /\ Cardinality(Ends(s)) \in Nat
<1>1. Ends(s) \subseteq 1 .. Len(s) + 1
  BY DEF Ends
<1>2. IsFiniteSet(1 .. Len(s) + 1)
  BY FS_Interval
<1>3. IsFiniteSet(Ends(s))
  BY <1>1, <1>2, FS_Subset
<1>4. QED
  BY <1>1, <1>3, FS_CardinalityType

LEMMA RankIs ==
  ASSUME NEW s, Len(s) \in Nat, NEW e
  PROVE  /\ IsFiniteSet({f \in Ends(s) : f =< e}) /\ Rank(s, e) \in Nat
         /\ Rank(s, e) =< Cardinality(Ends(s))
<1>1. {f \in Ends(s) : f =< e} \in SUBSET Ends(s)
  OBVIOUS
<1>2. QED
  BY <1>1, EndsAre, FS_Subset, FS_CardinalityType DEF Rank

LEMMA RankLess ==
  ASSUME NEW s, Len(s) \in Nat, NEW e \in Ends(s), NEW f \in Ends(s), e < f
  PROVE  Rank(s, e) < Rank(s, f)
<1> DEFINE A == {g \in Ends(s) : g =< e}
           B == {g \in Ends(s) : g =< f}
<1>1. \A g \in Ends(s) : g \in Int
  BY EndsAre, RankIs
<1>2. A \in SUBSET B /\ f \in B /\ f \notin A
  BY <1>1
<1>3. IsFiniteSet(B) /\ IsFiniteSet(A) /\ Cardinality(A) = Rank(s, e) /\ Cardinality(B) = Rank(s, f)
  BY EndsAre, RankIs DEF Rank
<1> HIDE DEF A, B
<1>4. Cardinality(A) =< Cardinality(B) /\ (Cardinality(B) = Cardinality(A) => B = A)
  BY <1>2, <1>3, FS_Subset
<1>5. Cardinality(A) # Cardinality(B)
  BY <1>2, <1>4
<1>6. Rank(s, e) \in Nat /\ Rank(s, f) \in Nat
  BY EndsAre, RankIs
<1>7. QED
  BY <1>3, <1>4, <1>5, <1>6

\* The end with as many ends up to it is the only one.
LEMMA RankedEnd ==
  ASSUME NEW s, Len(s) \in Nat, NEW e \in Ends(s)
  PROVE  NthEnd(s, Rank(s, e)) = e
<1>1. \A f \in Ends(s) : f \in Int /\ Rank(s, f) \in Nat
  <2> TAKE f \in Ends(s)
  <2>1. f \in Int
    BY EndsAre
  <2>2. QED
    BY <2>1, RankIs
<1>2. ASSUME NEW f \in Ends(s), Rank(s, f) = Rank(s, e) PROVE f = e
  <2>1. ~(f < e) /\ ~(e < f)
    <3>1. f < e => Rank(s, f) < Rank(s, e)
      BY RankLess
    <3>2. e < f => Rank(s, e) < Rank(s, f)
      BY RankLess
    <3>3. QED
      BY <1>1, <1>2, <3>1, <3>2
  <2>2. QED
    BY <1>1, <2>1
<1>3. NthEnd(s, Rank(s, e)) = CHOOSE f \in Ends(s) : Rank(s, f) = Rank(s, e)
  BY DEF NthEnd, Rank
<1>4. QED
  BY <1>2, <1>3

\* The next end has one more.
LEMMA RankNext ==
  ASSUME NEW s, Len(s) \in Nat, NEW p \in Nat, NEW e \in Ends(s), p < e,
         \A f \in Ends(s) : ~(p < f /\ f < e)
  PROVE  Rank(s, e) = Rank(s, p) + 1
<1> DEFINE A == {f \in Ends(s) : f =< p}
           B == {f \in Ends(s) : f =< e}
<1>1. \A f \in Ends(s) : f \in Int
  BY EndsAre, RankIs
<1>2. B = A \cup {e} /\ e \notin A
  BY <1>1
<1>3. IsFiniteSet(A) /\ Cardinality(A) = Rank(s, p) /\ Cardinality(B) = Rank(s, e)
  BY EndsAre, RankIs DEF Rank
<1> HIDE DEF A, B
<1>4. QED
  BY <1>2, <1>3, FS_AddElement

LEMMA RankLast ==
  ASSUME NEW s, Len(s) \in Nat, NEW p \in Nat, \A f \in Ends(s) : f =< p
  PROVE  Rank(s, p) = Cardinality(Ends(s))
<1>1. {f \in Ends(s) : f =< p} = Ends(s)
  OBVIOUS
<1>2. QED
  BY <1>1 DEF Rank

LEMMA RankZero ==
  ASSUME NEW s, Len(s) \in Nat
  PROVE  Rank(s, 0) = 0
<1>1. {f \in Ends(s) : f =< 0} = {}
  BY EndsAre, RankIs
<1>2. QED
  BY <1>1, FS_EmptySet DEF Rank

\* The word that comes after an end, or at the beginning of the line.
LEMMA NextWord ==
  ASSUME NEW s, Len(s) \in Nat, NEW p \in Ends(s) \cup {0}, NEW e \in Ends(s), p < e,
         \A f \in Ends(s) : ~(p < f /\ f < e)
  PROVE  /\ Rank(s, e) = Rank(s, p) + 1
         /\ Rank(s, e) \in 1 .. Cardinality(Ends(s))
         /\ Words(s)[Rank(s, e)] = SubSeq(s, p + 1, e - 1)
<1>0. p \in Nat /\ e \in Nat
  BY EndsAre, RankIs
<1> DEFINE n == Rank(s, e)
<1>1. n = Rank(s, p) + 1 /\ Rank(s, p) \in Nat /\ n =< Cardinality(Ends(s)) /\ Cardinality(Ends(s)) \in Nat
  BY <1>0, RankNext, EndsAre, RankIs
<1>2. NthEnd(s, n) = e
  BY RankedEnd
<1>3. (IF n = 1 THEN 1 ELSE NthEnd(s, n - 1) + 1) = p + 1
  <2>1. CASE p = 0
    <3>1. n = 1
      BY <1>1, <2>1, RankZero
    <3>2. QED
      BY <2>1, <3>1
  <2>2. CASE p # 0
    <3>1. p \in Ends(s)
      BY <2>2
    <3>2. NthEnd(s, Rank(s, p)) = p
      BY <3>1, RankedEnd
    <3>3. Rank(s, p) > 0
      <4>1. p \in {f \in Ends(s) : f =< p}
        BY <1>0, <3>1
      <4>2. IsFiniteSet({f \in Ends(s) : f =< p}) /\ Cardinality({f \in Ends(s) : f =< p}) = Rank(s, p)
        BY EndsAre, RankIs DEF Rank
      <4>3. Rank(s, p) # 0
        BY <4>1, <4>2, FS_EmptySet
      <4>4. QED
        BY <1>1, <4>3
    <3>4. n # 1 /\ n - 1 = Rank(s, p)
      BY <1>1, <3>3
    <3>5. QED
      BY <3>2, <3>4
  <2>3. QED
    BY <2>1, <2>2
<1>4. n \in 1 .. Cardinality(Ends(s))
  BY <1>1
<1> HIDE DEF n
<1>5. Words(s)[n] = SubSeq(s, IF n = 1 THEN 1 ELSE NthEnd(s, n - 1) + 1, NthEnd(s, n) - 1)
  BY <1>4 DEF Words
<1>6. Words(s)[n] = SubSeq(s, p + 1, e - 1)
  BY <1>2, <1>3, <1>5
<1>7. QED
  BY <1>1, <1>4, <1>6 DEF n

-----------------------------------------------------------------------------
(* The line in the buffer.                                                 *)

LEMMA StrLenIs ==
  \A n \in 0 .. SIZE : (n \in Cell => buf[n] = NUL) /\ (\A i \in 0 .. n - 1 : buf[i] # NUL) => StrLen = n
<1> SUFFICES ASSUME NEW n \in 0 .. SIZE, n \in Cell => buf[n] = NUL, \A i \in 0 .. n - 1 : buf[i] # NUL
             PROVE  StrLen = n
  OBVIOUS
<1>1. SIZE \in Nat /\ StrLen \in 0 .. SIZE
  BY ConsoleAssumption, StrLenStops
<1>2. ~(StrLen < n)
  BY <1>1, StrLenStops DEF Cell
<1>3. ~(n < StrLen)
  BY <1>1, StrLenStops DEF Cell
<1>4. QED
  BY <1>1, <1>2, <1>3

LEMMA StrLenNext ==
  \A n \in 0 .. SIZE : (n \in Cell => buf'[n] = NUL) /\ (\A i \in 0 .. n - 1 : buf'[i] # NUL) => StrLen' = n
<1>1. (\A n \in 0 .. SIZE :
         (n \in Cell => buf[n] = NUL) /\ (\A i \in 0 .. n - 1 : buf[i] # NUL) => StrLen = n)'
  BY StrLenIs, PTL
<1>2. QED
  BY <1>1 DEF Cell

LEMMA AppendIs ==
  ASSUME NEW S, NEW s \in Seq(S), NEW c \in S
  PROVE  Append(s, c) = [i \in 1 .. Len(s) + 1 |-> IF i = Len(s) + 1 THEN c ELSE s[i]]
<1>1. Append(s, c) \in Seq(S) /\ Len(Append(s, c)) = Len(s) + 1 /\ Len(s) \in Nat
  OBVIOUS
<1>2. \A i \in 1 .. Len(s) + 1 : Append(s, c)[i] = IF i = Len(s) + 1 THEN c ELSE s[i]
  OBVIOUS
<1>3. Append(s, c) = [i \in 1 .. Len(s) + 1 |-> Append(s, c)[i]]
  <2>1. \A t \in Seq(S) : t = [i \in 1 .. Len(t) |-> t[i]]
    OBVIOUS
  <2>2. QED
    BY <1>1, <2>1
<1>4. QED
  BY <1>2, <1>3

\* What the buffer holds.
Text == [i \in 1 .. StrLen |-> buf[i - 1]]

\* The ghost is what the buffer holds, from the prompt on to the end of strsplit.
Echoed ==
  (/\ damage = {}
   /\ pc = "idle" \/ (pc \in {"execute", "split", "strings"} /\ ~disturbed)) => line = Text

\* strsplit has copied the words up to where it is, and only those.
Divided ==
  (damage = {} /\ pc = "strings" /\ ~disturbed) =>
    /\ len = StrLen /\ len > 0
    /\ end = 0 \/ end \in Ends(line)
    /\ Len(args) = Rank(line, end)
    /\ \A n \in 1 .. Len(args) : args[n] = Words(line)[n]

TypedInv == TypeOK /\ Echoed /\ Divided /\ CommandIsTyped

LEMMA TextTyped ==
  ASSUME TypeOK
  PROVE  /\ Text \in Seq(Char \cup {SPACE}) /\ Len(Text) = StrLen /\ StrLen \in 0 .. SIZE /\ StrLen \in Nat
         /\ \A i \in 1 .. StrLen : Text[i] = buf[i - 1]
<1>1. SIZE \in Nat /\ StrLen \in 0 .. SIZE
  BY ConsoleAssumption, StrLenStops
<1>2. \A i \in 1 .. StrLen : buf[i - 1] \in Char \cup {SPACE}
  <2> TAKE i \in 1 .. StrLen
  <2>1. i - 1 \in Cell /\ i - 1 \in 0 .. StrLen - 1
    BY <1>1 DEF Cell
  <2>2. QED
    BY <2>1, StrLenStops DEF TypeOK
<1>3. QED
  BY <1>1, <1>2 DEF Text

\* A character that is typed goes to the end of the line.
LEMMA TypeEchoes ==
  ASSUME TypeOK, NEW c \in Char \cup {SPACE}, Type(c), damage' = {}, pc = "idle", line = Text
  PROVE  line' = Text'
<1>0. SIZE \in Nat /\ c # NUL
  BY ConsoleAssumption
<1>1. StrLen \in 0 .. SIZE /\ StrLen \in Nat /\ StrLen + 1 \in Cell /\ line' = Append(Text, c)
  <2>1. StrLen + 1 \in Cell
    BY DEF Type
  <2>2. QED
    BY <2>1, TextTyped DEF Type, Typed
<1> DEFINE n == StrLen
<1>2. \A i \in Cell : buf'[i] = IF i = n THEN c ELSE IF i = n + 1 THEN NUL ELSE buf[i]
  BY DEF Type
<1>3. \A i \in 0 .. n - 1 : buf[i] # NUL
  BY StrLenStops
<1>4. Len(Text) = n /\ Text \in Seq(Char \cup {SPACE}) /\ \A i \in 1 .. n : Text[i] = buf[i - 1]
  BY TextTyped
<1>5. Text' = [i \in 1 .. StrLen' |-> buf'[i - 1]]
  BY DEF Text
<1>6. n \in Nat /\ n + 1 < SIZE /\ \A i \in 0 .. n + 1 : i \in Cell
  BY <1>0, <1>1 DEF Cell
<1> HIDE DEF n
<1>7. StrLen' = n + 1
  <2>1. n + 1 \in 0 .. SIZE
    BY <1>6, <1>0
  <2>2. n + 1 \in Cell => buf'[n + 1] = NUL
    BY <1>2, <1>6
  <2>3. ASSUME NEW i \in 0 .. (n + 1) - 1 PROVE buf'[i] # NUL
    <3>1. i \in Cell /\ i # n + 1 /\ (i # n => i \in 0 .. n - 1)
      BY <1>6
    <3>2. QED
      BY <1>0, <1>2, <1>3, <3>1
  <2>4. QED
    BY <2>1, <2>2, <2>3, StrLenNext
<1>8. Append(Text, c) = [i \in 1 .. n + 1 |-> IF i = n + 1 THEN c ELSE Text[i]]
  <2>1. Append(Text, c) = [i \in 1 .. Len(Text) + 1 |-> IF i = Len(Text) + 1 THEN c ELSE Text[i]]
    BY <1>4, AppendIs
  <2>2. QED
    BY <1>4, <2>1
<1>9. \A i \in 1 .. n + 1 : buf'[i - 1] = IF i = n + 1 THEN c ELSE Text[i]
  <2> TAKE i \in 1 .. n + 1
  <2>1. i - 1 \in 0 .. n + 1 /\ i - 1 # n + 1 /\ (i - 1 = n <=> i = n + 1) /\ (i # n + 1 => i \in 1 .. n)
    BY <1>6
  <2>2. QED
    BY <1>2, <1>4, <1>6, <2>1
<1>10. QED
  BY <1>1, <1>5, <1>7, <1>8, <1>9

\* One that is deleted was its last.
LEMMA BackspaceEchoes ==
  ASSUME TypeOK, Backspace, pc = "idle", line = Text
  PROVE  line' = Text'
<1>0. SIZE \in Nat
  BY ConsoleAssumption
<1> DEFINE n == StrLen
<1>1. n \in Nat /\ n > 0 /\ n =< SIZE /\ n - 1 \in Cell /\ n - 1 \in 0 .. SIZE
  BY <1>0, TextTyped DEF Backspace, Cell
<1>2. buf' = [buf EXCEPT ![n - 1] = NUL] /\ buf \in [Cell -> Char \cup {SPACE, NUL}]
  BY DEF Backspace, Erased, TypeOK
<1>3. \A i \in 0 .. n - 1 : buf[i] # NUL
  BY StrLenStops
<1>4. Len(Text) = n /\ Text \in Seq(Char \cup {SPACE}) /\ \A i \in 1 .. n : Text[i] = buf[i - 1]
  BY TextTyped
<1>5. line' = SubSeq(Text, 1, n - 1)
  <2>1. line # <<>>
    BY <1>1, <1>4
  <2>2. QED
    BY <1>4, <2>1 DEF Backspace, Typed, Front
<1>6. Text' = [i \in 1 .. StrLen' |-> buf'[i - 1]]
  BY DEF Text
<1> HIDE DEF n
<1>7. StrLen' = n - 1
  <2>1. buf'[n - 1] = NUL
    BY <1>1, <1>2
  <2>2. ASSUME NEW i \in 0 .. (n - 1) - 1 PROVE buf'[i] # NUL
    <3>1. i \in Cell /\ i # n - 1 /\ i \in 0 .. n - 1
      BY <1>1, <1>0 DEF Cell
    <3>2. QED
      BY <1>2, <1>3, <3>1
  <2>3. QED
    BY <1>1, <2>1, <2>2, StrLenNext
<1>8. SubSeq(Text, 1, n - 1) = [i \in 1 .. n - 1 |-> Text[i]]
  BY <1>1, <1>4
<1>9. \A i \in 1 .. n - 1 : buf'[i - 1] = Text[i]
  <2> TAKE i \in 1 .. n - 1
  <2>1. i - 1 \in Cell /\ i - 1 # n - 1 /\ i \in 1 .. n
    BY <1>0, <1>1 DEF Cell
  <2>2. QED
    BY <1>2, <1>4, <2>1
<1>10. QED
  BY <1>5, <1>6, <1>7, <1>8, <1>9

\* strsplit copies the next word of the line.
LEMMA WordCopied ==
  ASSUME TypeOK, Echoed, Divided, ~disturbed, damage = {}, NextString
  PROVE  /\ end' \in Ends(line) /\ Rank(line, end') = Rank(line, end) + 1
         /\ String(end, Stop) = Words(line)[Rank(line, end')]
<1>0. SIZE \in Nat /\ NUL # SPACE
  BY ConsoleAssumption
<1>1. /\ len = StrLen /\ end < len /\ end' = Stop + 1 /\ pc = "strings"
      /\ end = 0 \/ end \in Ends(line)
      /\ line = Text
  BY DEF NextString, Divided, Echoed
<1>2. end \in Nat /\ len \in Nat /\ len =< SIZE
  BY <1>0 DEF TypeOK
<1>3. /\ Len(line) = len /\ line \in Seq(Char \cup {SPACE})
      /\ \A i \in 1 .. len : line[i] = buf[i - 1]
  BY <1>1, TextTyped
<1> DEFINE q == Stop
<1>4. q \in end .. len /\ (q < len => buf[q] = SPACE) /\ \A k \in end .. q - 1 : buf[k] # SPACE
  BY <1>1, <1>2, StopStops
<1>5. q \in Nat /\ end =< q /\ q =< len
  BY <1>2, <1>4
<1> HIDE DEF q
<1>6. \A i \in 1 .. len : line[i] = SPACE <=> buf[i - 1] = SPACE
  BY <1>3
<1>7. q + 1 \in Ends(line)
  <2>1. CASE q < len
    <3>1. q + 1 \in 1 .. len /\ line[q + 1] = SPACE
      BY <1>2, <1>3, <1>4, <1>5, <2>1
    <3>2. QED
      BY <1>3, <3>1 DEF Ends
  <2>2. CASE q = len
    <3>1. len \in 1 .. len /\ len - 1 \in end .. q - 1 /\ line[len] # SPACE
      BY <1>1, <1>2, <1>3, <1>4, <2>2
    <3>2. ~\E i \in 1 .. len : line[i] = SPACE /\ i + 1 = len + 1
      BY <1>2, <3>1
    <3>3. QED
      BY <1>3, <2>2, <3>2 DEF Ends
  <2>3. QED
    BY <1>2, <1>5, <2>1, <2>2
<1>8. ASSUME NEW f \in Ends(line), end < f, f < q + 1 PROVE FALSE
  <2>1. f \in Nat /\ f =< len
    BY <1>2, <1>3, <1>5, <1>8, EndsAre
  <2>2. f \in 1 .. len /\ line[f] = SPACE
    BY <1>2, <1>3, <1>8, <2>1 DEF Ends
  <2>3. f - 1 \in end .. q - 1
    BY <1>2, <1>5, <1>8, <2>1
  <2>4. QED
    BY <1>4, <1>6, <2>2, <2>3
<1>9. /\ Rank(line, q + 1) = Rank(line, end) + 1
      /\ Words(line)[Rank(line, q + 1)] = SubSeq(line, end + 1, q)
  <2>1. end \in Ends(line) \cup {0} /\ end < q + 1 /\ Len(line) \in Nat /\ (q + 1) - 1 = q
    BY <1>1, <1>2, <1>3, <1>5
  <2>2. QED
    BY <1>7, <1>8, <2>1, NextWord
<1>10. String(end, q) = SubSeq(line, end + 1, q)
  <2> DEFINE stop == CHOOSE n \in end .. q : /\ n < q => buf[n] = NUL
                                             /\ \A k \in end .. n - 1 : buf[k] # NUL
  <2>1. \A k \in end .. q - 1 : buf[k] # NUL
    <3>1. \A k \in 0 .. len - 1 : buf[k] # NUL
      BY <1>1, StrLenStops
    <3>2. QED
      BY <1>2, <1>5, <3>1
  <2>2. \A n \in end .. q : (n < q => buf[n] = NUL) /\ (\A k \in end .. n - 1 : buf[k] # NUL) <=> n = q
    BY <1>2, <1>5, <2>1
  <2>3. stop = q
    <3>1. q \in end .. q
      BY <1>2, <1>5
    <3>2. QED
      BY <2>2, <3>1
  <2>4. String(end, q) = [k \in 1 .. stop - end |-> buf[end + k - 1]]
    BY DEF String
  <2> HIDE DEF stop
  <2>5. String(end, q) = [k \in 1 .. q - end |-> buf[end + k - 1]]
    BY <2>3, <2>4
  <2>6. SubSeq(line, end + 1, q) = [k \in 1 .. q - end |-> line[end + k]]
    BY <1>2, <1>3, <1>5
  <2>7. \A k \in 1 .. q - end : line[end + k] = buf[end + k - 1]
    <3> TAKE k \in 1 .. q - end
    <3>1. end + k \in 1 .. len /\ (end + k) - 1 = end + k - 1
      BY <1>2, <1>5
    <3>2. line[end + k] = buf[(end + k) - 1]
      BY <1>3, <3>1
    <3>3. QED
      BY <3>1, <3>2
  <2>8. QED
    BY <2>5, <2>6, <2>7
<1>11. QED
  BY <1>1, <1>7, <1>9, <1>10 DEF q

-----------------------------------------------------------------------------
(* The command that runs.                                                  *)

LEMMA TypedKeyboard ==
  ASSUME TypeOK, TypedInv, damage = {}, Keyboard
  PROVE  Echoed' /\ Divided' /\ CommandIsTyped'
<1>1. CASE UNCHANGED <<buf, pc, parse, damage, line, disturbed>>
  <2>1. StrLen' = StrLen /\ Text' = Text
    BY <1>1 DEF StrLen, Text
  <2>2. Rank(line, end)' = Rank(line, end) /\ Ends(line)' = Ends(line) /\ Words(line)' = Words(line)
    BY <1>1 DEF parse, Rank, Ends, Words, NthEnd
  <2>3. UNCHANGED <<buf, pc, len, end, args, damage, line, disturbed>>
    BY <1>1 DEF parse
  <2>4. Echoed'
    BY <2>1, <2>3 DEF TypedInv, Echoed
  <2>5. Divided'
    BY <2>1, <2>2, <2>3 DEF TypedInv, Divided
  <2>6. CommandIsTyped'
    BY <2>2, <2>3 DEF TypedInv, CommandIsTyped
  <2>7. QED
    BY <2>4, <2>5, <2>6
<1>2. CASE pc # "idle" /\ pc' = pc /\ disturbed'
  BY <1>2 DEF Echoed, Divided, CommandIsTyped
<1>3. ASSUME pc = "idle", pc' = pc, damage' = {} => line' = Text'
      PROVE  Echoed' /\ Divided' /\ CommandIsTyped'
  BY <1>3 DEF Echoed, Divided, CommandIsTyped
<1>4. pc = "idle" => line = Text
  BY DEF TypedInv, Echoed
<1>5. ASSUME NEW c \in Char \cup {SPACE}, Type(c) PROVE Echoed' /\ Divided' /\ CommandIsTyped'
  <2>1. CASE pc = "idle"
    <3>1. pc' = pc /\ (damage' = {} => line' = Text')
      BY <1>4, <1>5, <2>1, TypeEchoes DEF Type
    <3>2. QED
      BY <1>3, <2>1, <3>1
  <2>2. CASE pc # "idle"
    BY <1>2, <1>5, <2>2 DEF Type, Typed
  <2>3. QED
    BY <2>1, <2>2
<1>6. CASE Backspace
  <2>1. CASE pc = "idle"
    <3>1. pc' = pc /\ line' = Text'
      BY <1>4, <1>6, <2>1, BackspaceEchoes DEF Backspace
    <3>2. QED
      BY <1>3, <2>1, <3>1
  <2>2. CASE pc # "idle"
    BY <1>2, <1>6, <2>2 DEF Backspace, Typed
  <2>3. QED
    BY <2>1, <2>2
<1>7. CASE PressEnter \/ ReleaseEnter
  <2>1. UNCHANGED <<buf, pc, parse, damage, line, disturbed>>
    BY <1>7 DEF PressEnter, ReleaseEnter, ghosts
  <2>2. QED
    BY <1>1, <2>1
<1>8. QED
  BY <1>5, <1>6, <1>7 DEF Keyboard

\* strsplit starts: no string yet, and no end behind it.
LEMMA TypedBegins ==
  ASSUME TypeOK, TypedInv, SplitBegins
  PROVE  Echoed' /\ Divided' /\ CommandIsTyped'
<1>1. pc = "split" /\ UNCHANGED <<buf, line, disturbed>>
  BY DEF SplitBegins, ghosts
<1>2. StrLen' = StrLen /\ Text' = Text
  BY <1>1 DEF StrLen, Text
<1>3. CASE StrLen = 0
  <2>1. damage' # {}
    BY <1>3 DEF SplitBegins
  <2>2. QED
    BY <2>1 DEF Echoed, Divided, CommandIsTyped
<1>4. CASE StrLen # 0
  <2>1. len' = StrLen /\ end' = 0 /\ args' = <<>> /\ pc' = "strings" /\ damage' = damage
    BY <1>4 DEF SplitBegins
  <2>2. Echoed'
    BY <1>1, <1>2, <2>1 DEF TypedInv, Echoed
  <2>3. Divided'
    <3>1. StrLen \in Nat /\ Len(line') \in Nat
      BY <1>1, TextTyped DEF TypeOK
    <3>2. Rank(line, end)' = Rank(line', 0)
      BY <2>1 DEF Rank, Ends
    <3>3. Rank(line', 0) = 0
      BY <3>1, RankZero
    <3>4. Len(args') = 0
      BY <2>1
    <3>5. QED
      BY <1>2, <1>4, <2>1, <3>1, <3>2, <3>3, <3>4 DEF Divided
  <2>4. CommandIsTyped'
    BY <2>1 DEF CommandIsTyped
  <2>5. QED
    BY <2>2, <2>3, <2>4
<1>5. QED
  BY <1>3, <1>4

LEMMA TypedString ==
  ASSUME TypeOK, TypedInv, damage = {}, NextString
  PROVE  Echoed' /\ Divided' /\ CommandIsTyped'
<1>1. /\ pc = "strings" /\ pc' = pc /\ args' = Append(args, String(end, Stop))
      /\ UNCHANGED <<buf, len, line, disturbed>>
  BY DEF NextString, ghosts
<1>2. StrLen' = StrLen /\ Text' = Text
  BY <1>1 DEF StrLen, Text
<1>3. CASE disturbed
  BY <1>1, <1>3 DEF Echoed, Divided, CommandIsTyped
<1>4. CASE ~disturbed
  <2>1. /\ end' \in Ends(line) /\ Rank(line, end') = Rank(line, end) + 1
        /\ String(end, Stop) = Words(line)[Rank(line, end')]
    BY <1>4, WordCopied DEF TypedInv
  <2>2. /\ len = StrLen /\ len > 0 /\ Len(args) = Rank(line, end)
        /\ \A n \in 1 .. Len(args) : args[n] = Words(line)[n]
    BY <1>1, <1>4 DEF TypedInv, Divided
  <2>3. args \in Seq(Seq(Char \cup {SPACE})) /\ Len(args) \in Nat
    BY DEF TypeOK
  <2>4. Len(args') = Len(args) + 1 /\ args'[Len(args) + 1] = String(end, Stop)
        /\ \A n \in 1 .. Len(args) : args'[n] = args[n]
    BY <1>1, <2>3
  <2>5. \A n \in 1 .. Len(args') : args'[n] = Words(line)[n]
    <3> TAKE n \in 1 .. Len(args')
    <3>1. n \in 1 .. Len(args) \/ n = Len(args) + 1
      BY <2>3, <2>4
    <3>2. QED
      BY <2>1, <2>2, <2>4, <3>1
  <2>6. Len(args') = Rank(line, end')
    BY <2>1, <2>2, <2>4
  <2>7. Rank(line, end)' = Rank(line, end') /\ Ends(line)' = Ends(line) /\ Words(line)' = Words(line)
    BY <1>1 DEF Rank, Ends, Words, NthEnd
  <2>8. Divided'
    BY <1>1, <1>2, <2>1, <2>2, <2>5, <2>6, <2>7 DEF Divided
  <2>9. Echoed'
    BY <1>1, <1>2 DEF TypedInv, Echoed
  <2>10. CommandIsTyped'
    BY <1>1 DEF CommandIsTyped
  <2>11. QED
    BY <2>8, <2>9, <2>10
<1>5. QED
  BY <1>3, <1>4

\* strsplit is through the line: it has copied all its words.
LEMMA TypedEnds ==
  ASSUME TypeOK, TypedInv, SplitEnds
  PROVE  Echoed' /\ Divided' /\ CommandIsTyped'
<1>1. pc = "strings" /\ end >= len /\ pc' = "run" /\ UNCHANGED <<args, damage, line, disturbed>>
  BY DEF SplitEnds, ghosts
<1>2. ASSUME ~disturbed, damage = {} PROVE args = Words(line)
  <2>1. /\ len = StrLen /\ len > 0 /\ (end = 0 \/ end \in Ends(line))
        /\ Len(args) = Rank(line, end)
        /\ \A n \in 1 .. Len(args) : args[n] = Words(line)[n]
    BY <1>1, <1>2 DEF TypedInv, Divided
  <2>2. line = Text /\ Len(line) = len /\ len \in Nat
    BY <1>1, <1>2, <2>1, TextTyped DEF TypedInv, Echoed
  <2>3. end \in Ends(line) /\ end \in Nat /\ end =< len + 1
    <3>1. end \in Ends(line)
      BY <1>1, <2>1, <2>2
    <3>2. QED
      BY <2>2, <3>1, EndsAre
  <2>4. ASSUME NEW f \in Ends(line), ~(f =< end) PROVE FALSE
    <3>1. f \in Nat /\ f =< len + 1
      BY <2>2, <2>4, EndsAre
    <3>2. f = len + 1 /\ end = len
      BY <1>1, <2>2, <2>3, <2>4, <3>1
    <3>3. end \in 1 .. Len(line) /\ line[end] = SPACE
      BY <2>1, <2>2, <2>3, <3>2 DEF Ends
    <3>4. Len(line) + 1 \notin Ends(line)
      BY <2>2, <3>2, <3>3 DEF Ends
    <3>5. QED
      BY <2>2, <2>4, <3>2, <3>4
  <2>5. Rank(line, end) = Cardinality(Ends(line))
    BY <2>2, <2>3, <2>4, RankLast
  <2>6. args = [n \in 1 .. Cardinality(Ends(line)) |-> args[n]]
    <3>1. \A t \in Seq(Seq(Char \cup {SPACE})) : t = [n \in 1 .. Len(t) |-> t[n]]
      OBVIOUS
    <3>2. args = [n \in 1 .. Len(args) |-> args[n]]
      BY <3>1 DEF TypeOK
    <3>3. QED
      BY <2>1, <2>5, <3>2
  <2>7. DOMAIN Words(line) = 1 .. Cardinality(Ends(line))
        /\ Words(line) = [n \in DOMAIN Words(line) |-> Words(line)[n]]
    BY DEF Words
  <2>8. \A n \in 1 .. Cardinality(Ends(line)) : args[n] = Words(line)[n]
    BY <2>1, <2>5
  <2>9. QED
    BY <2>6, <2>7, <2>8
<1>3. Words(line)' = Words(line)
  BY <1>1 DEF Words, Ends, NthEnd
<1>4. QED
  BY <1>1, <1>2, <1>3 DEF Echoed, Divided, CommandIsTyped

LEMMA TypedCli ==
  ASSUME TypeOK, TypedInv, damage = {}, Cli
  PROVE  Echoed' /\ Divided' /\ CommandIsTyped'
<1>1. CASE Start
  <2>1. pc = "idle" /\ pc' = "execute" /\ UNCHANGED <<buf, line>>
    BY <1>1 DEF Start
  <2>2. Text' = Text
    BY <2>1 DEF Text, StrLen
  <2>3. QED
    BY <2>1, <2>2 DEF TypedInv, Echoed, Divided, CommandIsTyped
<1>2. CASE Execute
  <2>1. pc = "execute" /\ pc' \in {"clear", "split"} /\ UNCHANGED <<buf, line, disturbed>>
    BY <1>2 DEF Execute, ghosts
  <2>2. Text' = Text
    BY <2>1 DEF Text, StrLen
  <2>3. QED
    BY <2>1, <2>2 DEF TypedInv, Echoed, Divided, CommandIsTyped
<1>3. CASE Return
  BY <1>3 DEF Return, Echoed, Divided, CommandIsTyped
<1>4. CASE Clear
  BY <1>4 DEF Clear, Echoed, Divided, CommandIsTyped
<1>5. CASE ClearEnds
  <2>1. pc' = "idle" /\ buf' = buf /\ line' = Text
    BY <1>5 DEF ClearEnds, Text
  <2>2. Text' = Text
    BY <2>1 DEF Text, StrLen
  <2>3. QED
    BY <2>1, <2>2 DEF Echoed, Divided, CommandIsTyped
<1>6. CASE Rest
  <2>1. pc = "idle" /\ pc' = pc /\ UNCHANGED <<buf, line>>
    BY <1>6 DEF Rest, ghosts
  <2>2. Text' = Text
    BY <2>1 DEF Text, StrLen
  <2>3. QED
    BY <2>1, <2>2 DEF TypedInv, Echoed, Divided, CommandIsTyped
<1>7. QED
  BY <1>1, <1>2, <1>3, <1>4, <1>5, <1>6, TypedBegins, TypedString, TypedEnds DEF Cli

\* The command that runs is the line that was typed and corrected, split into its words, for
\* every buffer size and character set, unless a key changed the buffer after Enter was seen.
THEOREM ConsoleRunsWhatIsTyped == Spec => []CommandIsTyped
<1>1. Init /\ TypeOK => TypedInv
  <2> SUFFICES ASSUME Init, TypeOK PROVE TypedInv
    OBVIOUS
  <2>1. pc = "idle" /\ line = <<>> /\ SIZE \in Nat /\ \A i \in Cell : buf[i] = NUL
    BY ConsoleAssumption DEF Init
  <2>2. StrLen = 0
    <3>1. 0 \in 0 .. SIZE /\ (0 \in Cell => buf[0] = NUL) /\ \A i \in 0 .. 0 - 1 : buf[i] # NUL
      BY <2>1
    <3>2. QED
      BY <3>1, StrLenIs
  <2>3. Text = <<>>
    <3>1. Len(Text) = 0 /\ Text \in Seq(Char \cup {SPACE})
      BY <2>2, TextTyped
    <3>2. QED
      BY <3>1
  <2>4. QED
    BY <2>1, <2>3 DEF TypedInv, Echoed, Divided, CommandIsTyped
<1>2. TypeOK /\ TypedInv /\ [Next]_vars => TypedInv'
  <2> SUFFICES ASSUME TypeOK, TypedInv, [Next]_vars PROVE TypedInv'
    OBVIOUS
  <2>1. TypeOK'
    BY TypeNext
  <2>2. CASE UNCHANGED vars
    <3>1. UNCHANGED <<buf, pc, len, end, args, damage, line, disturbed>>
      BY <2>2 DEF vars, parse, ghosts
    <3>2. StrLen' = StrLen /\ Text' = Text
      BY <3>1 DEF StrLen, Text
    <3>3. Rank(line, end)' = Rank(line, end) /\ Ends(line)' = Ends(line) /\ Words(line)' = Words(line)
      BY <3>1 DEF Rank, Ends, Words, NthEnd
    <3>4. Echoed'
      BY <3>1, <3>2 DEF TypedInv, Echoed
    <3>5. Divided'
      BY <3>1, <3>2, <3>3 DEF TypedInv, Divided
    <3>6. CommandIsTyped'
      BY <3>1, <3>3 DEF TypedInv, CommandIsTyped
    <3>7. QED
      BY <2>1, <3>4, <3>5, <3>6 DEF TypedInv
  <2>3. CASE Next
    <3>1. Echoed' /\ Divided' /\ CommandIsTyped'
      BY <2>3, TypedKeyboard, TypedCli DEF Next
    <3>2. QED
      BY <2>1, <3>1 DEF TypedInv
  <2>4. QED
    BY <2>2, <2>3
<1>3. TypedInv => CommandIsTyped
  BY DEF TypedInv
<1>4. QED
  BY <1>1, <1>2, <1>3, ConsoleTyped, PTL DEF Spec
=============================================================================
