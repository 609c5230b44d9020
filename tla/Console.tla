------------------------------- MODULE Console -------------------------------
(***************************************************************************)
(* The keyboard and the command line: keyboard_ps2.c's interrupt handler   *)
(* writes the keys into the input buffer while the kernel thread polls the *)
(* Enter key (cli_monitor in cli.c), takes the buffer apart (strsplit in   *)
(* string.c), runs the command and clears the buffer (stream.c).  Nothing  *)
(* keeps the interrupt out of the thread's way: it comes between any two   *)
(* steps of the thread, and runs to its end before the thread goes on.     *)
(*                                                                         *)
(* A step of the thread is one call or one loop that reads the buffer, or  *)
(* one cell of the buffer cleared.  Letter case, the terminal and what a   *)
(* command does are left out; a command returns.  The model ends where a   *)
(* bound is left: what is typed behind the buffer (in the rest of its heap *)
(* page) is not followed.                                                  *)
(***************************************************************************)
EXTENDS Naturals, FiniteSets, SequencesExt

CONSTANTS
  Char,    \* the printable characters but the space
  SPACE,
  NUL,
  SIZE     \* the size cli_start gives to cli_instream: 1024

ASSUME ConsoleAssumption ==
  /\ SPACE \notin Char /\ NUL \notin Char \cup {SPACE}
  /\ SIZE \in Nat \ {0, 1}

VARIABLES
  buf,        \* cli_instream.data, which is kbps2_stream.data too
  enter,      \* kbps2_keymap[KEY_ENTER]
  executing,  \* cli_executing
  pc,         \* where cli_monitor is
  len,        \* strsplit's len
  room,       \* the number of strings strsplit has allocated room for
  end,        \* strsplit's end, between two strings
  args,       \* cli_args
  at,         \* the cell bytestream_clear clears next
  damage,     \* what has been written or read out of bounds
  line,       \* ghost: what the user has typed for the next command
  fresh,      \* ghost: Enter has been pressed since the last command started
  disturbed   \* ghost: a key has changed the buffer since the command started

parse == <<len, room, end, args>>
ghosts == <<line, fresh, disturbed>>
vars == <<buf, enter, executing, pc, parse, at, damage, ghosts>>

Cell == 0 .. SIZE - 1

Init ==                                        \* kbps2_start, cli_start
  /\ buf = [i \in Cell |-> NUL]
  /\ enter = FALSE /\ executing = FALSE /\ pc = "idle"
  /\ len = 0 /\ room = 0 /\ end = 0 /\ args = <<>> /\ at = 0
  /\ damage = {}
  /\ line = <<>> /\ fresh = FALSE /\ disturbed = FALSE

-----------------------------------------------------------------------------
(* The keyboard interrupt.                                                 *)

StrLen == CHOOSE n \in 0 .. SIZE : /\ n \in Cell => buf[n] = NUL
                                   /\ \A i \in 0 .. n - 1 : buf[i] # NUL

\* The ghosts follow the keys that are typed before Enter is seen.
Typed(text) == IF pc = "idle" THEN line' = text /\ UNCHANGED disturbed
                              ELSE disturbed' = TRUE /\ UNCHANGED line

\* kbps2_handle_char of a printable character: written with a NUL behind it, which for the
\* last cell is the byte behind the buffer.
Type(c) ==
  /\ buf' = [i \in Cell |-> IF i = StrLen THEN c ELSE IF i = StrLen + 1 THEN NUL ELSE buf[i]]
  /\ damage' = IF StrLen + 1 \in Cell THEN damage ELSE damage \cup {"overflow"}
  /\ Typed(Append(line, c))
  /\ UNCHANGED <<enter, executing, pc, parse, at, fresh>>

ErasedBehind == [buf EXCEPT ![StrLen] = NUL]
Erased == [buf EXCEPT ![StrLen - 1] = NUL]

Backspace ==
  /\ StrLen > 0
  /\ buf' = Erased
  /\ Typed(IF line = <<>> THEN line ELSE Front(line))
  /\ UNCHANGED <<enter, executing, pc, parse, at, damage, fresh>>

\* Enter only shows in the keymap.  A key held down sends its code again and again.
PressEnter ==
  /\ enter' = TRUE
  /\ fresh' = (fresh \/ ~enter)
  /\ UNCHANGED <<buf, executing, pc, parse, at, damage, line, disturbed>>

ReleaseEnter ==
  /\ enter' = FALSE
  /\ UNCHANGED <<buf, executing, pc, parse, at, damage, ghosts>>

Keyboard ==
  \/ \E c \in Char \cup {SPACE} : Type(c)
  \/ Backspace
  \/ PressEnter
  \/ ReleaseEnter

-----------------------------------------------------------------------------
(* The command line, called from the kernel thread's loop.                 *)

MayStartFull == enter /\ ~executing /\ StrLen > 0
MayStart == enter /\ ~executing

Start ==                                       \* cli_monitor
  /\ pc = "idle" /\ MayStart
  /\ executing' = TRUE /\ pc' = "execute"
  /\ fresh' = FALSE /\ disturbed' = FALSE
  /\ UNCHANGED <<buf, enter, parse, at, damage, line>>

Execute ==                                     \* cli_execute: an empty line is no command
  /\ pc = "execute"
  /\ pc' = IF StrLen = 0 THEN "clear" ELSE "split"
  /\ at' = 0
  /\ UNCHANGED <<buf, enter, executing, parse, damage, ghosts>>

\* The delimiters strsplit counts: the last character is not looked at.
Delimiters == {i \in 0 .. StrLen - 2 : buf[i] = SPACE}
RoomShort == Cardinality(Delimiters)
Room == Cardinality(Delimiters) + 1

\* strsplit measures the line again; with nothing in it any more it returns NULL, and
\* cli_execute reads the first string through that.
SplitBegins ==
  /\ pc = "split"
  /\ IF StrLen = 0
       THEN damage' = damage \cup {"null"} /\ UNCHANGED <<pc, parse>>
       ELSE /\ len' = StrLen /\ room' = Room /\ end' = 0 /\ args' = <<>>
            /\ pc' = "strings" /\ UNCHANGED damage
  /\ UNCHANGED <<buf, enter, executing, at, ghosts>>

\* The string from cell i up to cell j: what has become NUL ends it.
String(i, j) ==
  LET stop == CHOOSE n \in i .. j : /\ n < j => buf[n] = NUL
                                    /\ \A k \in i .. n - 1 : buf[k] # NUL
  IN  [k \in 1 .. stop - i |-> buf[i + k - 1]]

\* The next delimiter, or the length that was measured.
Stop == CHOOSE n \in end .. len : /\ n < len => buf[n] = SPACE
                                  /\ \A k \in end .. n - 1 : buf[k] # SPACE

NextString ==
  /\ pc = "strings" /\ end < len
  /\ args' = Append(args, String(end, Stop))
  /\ end' = Stop + 1
  /\ damage' = IF Len(args) < room THEN damage ELSE damage \cup {"args"}
  /\ UNCHANGED <<buf, enter, executing, pc, len, room, at, ghosts>>

SplitEnds ==                                   \* and the command is looked up
  /\ pc = "strings" /\ end >= len
  /\ pc' = "run"
  /\ len' = 0 /\ room' = 0 /\ end' = 0         \* strsplit's locals
  /\ UNCHANGED <<buf, enter, executing, args, at, damage, ghosts>>

Return ==                                      \* from the command
  /\ pc = "run"
  /\ pc' = "clear"
  /\ args' = <<>>                               \* not read any more
  /\ UNCHANGED <<buf, enter, executing, len, room, end, at, damage, ghosts>>

ClearSize == SIZE                              \* stream->size

Clear ==                                       \* bytestream_clear
  /\ pc = "clear" /\ at < ClearSize
  /\ buf' = [buf EXCEPT ![at] = NUL]
  /\ at' = at + 1
  /\ UNCHANGED <<enter, executing, pc, parse, damage, ghosts>>

\* The caret is printed.  The keys pressed meanwhile are gone or have been kept.
ClearEnds ==
  /\ pc = "clear" /\ at = ClearSize
  /\ pc' = "idle"
  /\ line' = [i \in 1 .. StrLen |-> buf[i - 1]]
  /\ disturbed' = FALSE
  /\ UNCHANGED <<buf, enter, executing, parse, at, damage, fresh>>

MayRestAlways == executing
MayRestEmpty == executing /\ ~enter /\ StrLen = 0
MayRest == executing /\ ~enter

Rest ==                                        \* cli_monitor
  /\ pc = "idle" /\ MayRest
  /\ executing' = FALSE
  /\ UNCHANGED <<buf, enter, pc, parse, at, damage, ghosts>>

Cli == \/ Start \/ Execute \/ SplitBegins \/ NextString \/ SplitEnds
       \/ Return \/ Clear \/ ClearEnds \/ Rest

\* The model ends where a bound has been left.
Next == damage = {} /\ (Keyboard \/ Cli)

Spec == Init /\ [][Next]_vars /\ WF_vars(damage = {} /\ Cli)

-----------------------------------------------------------------------------
TypeOK ==
  /\ buf \in [Cell -> Char \cup {SPACE, NUL}]
  /\ enter \in BOOLEAN /\ executing \in BOOLEAN
  /\ pc \in {"idle", "execute", "split", "strings", "run", "clear"}
  /\ len \in 0 .. SIZE /\ room \in 0 .. SIZE /\ end \in 0 .. SIZE + 1 /\ at \in 0 .. SIZE
  /\ args \in Seq(Seq(Char \cup {SPACE}))
  /\ damage \in SUBSET {"overflow", "null", "args"}
  /\ line \in Seq(Char \cup {SPACE})
  /\ fresh \in BOOLEAN /\ disturbed \in BOOLEAN

\* Where the words of a line end: at every space, and at the end of the line unless there is
\* a space before it.
Ends(s) ==
  LET spaces == {i \in 1 .. Len(s) : s[i] = SPACE}
  IN  spaces \cup ({Len(s) + 1} \ {i + 1 : i \in spaces})

NthEnd(s, n) == CHOOSE e \in Ends(s) : Cardinality({f \in Ends(s) : f =< e}) = n

\* The words of a line, by definition: what lies between an end and the next.
Words(s) ==
  [n \in 1 .. Cardinality(Ends(s)) |->
     SubSeq(s, IF n = 1 THEN 1 ELSE NthEnd(s, n - 1) + 1, NthEnd(s, n) - 1)]

\* The command that runs is the one the user has typed and corrected since the last one,
\* split into its words, unless a key changed the buffer after Enter was seen.
CommandIsTyped ==
  (pc = "run" /\ ~disturbed /\ damage = {}) => args = Words(line)

\* strsplit writes no more strings than it has made room for, and the line is not empty
\* when it is split, unless a key changed the buffer after Enter was seen.
BoundsNeedNoLuck == damage \cap {"null", "args"} # {} => disturbed

\* Enter pressed once runs one command, however long it is held and however often its code
\* is sent again.
OneRunPerPress == [][(executing' /\ ~executing) => fresh]_vars

\* Enter, held while the command line waits for it, runs the command.
EnterAnswered ==
  (pc = "idle" /\ enter /\ ~executing) ~> (executing \/ ~enter \/ damage # {})

\* The command line is ready for the next Enter again and again, unless Enter is always
\* down again.
ReadyAgain == []<>~executing \/ []<>enter \/ <>(damage # {})

=============================================================================
