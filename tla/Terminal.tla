------------------------------ MODULE Terminal ------------------------------
(***************************************************************************)
(* The cursor of the terminal (terminal.c).  The kernel thread and the     *)
(* programs write through the same two variables, term_cx and term_cy, and *)
(* the timer may take the processor from a thread between any two of its   *)
(* memory accesses; the handlers of the keyboard (echo) and of the timer   *)
(* ("Thread %d exited") write as well, with interrupts off, from beginning *)
(* to end.  There is no lock.                                              *)
(*                                                                         *)
(* A step of a thread is one read, one test or one write of the cursor.    *)
(* Pixels, colours and fonts are left out: nothing is read back from them. *)
(***************************************************************************)
EXTENDS Naturals

CONSTANTS
  Thread,
  WIDTH, HEIGHT,  \* term_width and term_height
  DRIFT           \* bound: how far off the screen a thread still reads the cursor

ASSUME TerminalAssumption ==
  /\ WIDTH \in Nat \ {0} /\ HEIGHT \in Nat \ {0}
  /\ DRIFT \in Nat

VARIABLES
  cx, cy,  \* term_cx, term_cy
  call,    \* where in terminal.c each thread is
  reg      \* what each thread is about to store

termVars == <<cx, cy, call, reg>>

Column == 0 .. WIDTH - 1
Row == 0 .. HEIGHT - 1

TermInit ==                             \* term_start
  /\ cx = 0 /\ cy = 0
  /\ call = [t \in Thread |-> "none"]
  /\ reg = [t \in Thread |-> 0]

-----------------------------------------------------------------------------
(* A thread in terminal.c.                                                 *)

Goes(t, from, to) == call[t] = from /\ call' = [call EXCEPT ![t] = to]
Keeps(t, value) == reg' = [reg EXCEPT ![t] = value]

\* term_writechar_col of a printable character: term_cx++ is a read and a write, and the
\* test reads what is there by then.
WriteChar(t) ==
  /\ cx < WIDTH + DRIFT
  /\ Goes(t, "none", "advance")
  /\ Keeps(t, cx + 1)
  /\ UNCHANGED <<cx, cy>>

Advance(t) ==
  /\ Goes(t, "advance", "wrap")
  /\ cx' = reg[t] /\ Keeps(t, 0)
  /\ UNCHANGED cy

Wrap(t) ==
  /\ Goes(t, "wrap", IF cx >= WIDTH THEN "newline" ELSE "none")
  /\ UNCHANGED <<cx, cy, reg>>

\* term_newline, called for a '\n' or by term_writechar_col: term_set_cursor(0, term_cy + 1),
\* and term_scroll when that is below the last row.
NewLine(t) ==
  /\ cy < HEIGHT + DRIFT
  /\ Goes(t, "none", "home") \/ Goes(t, "newline", "home")
  /\ Keeps(t, cy + 1)
  /\ UNCHANGED <<cx, cy>>

Home(t) ==
  /\ Goes(t, "home", "down")
  /\ cx' = 0
  /\ UNCHANGED <<cy, reg>>

Down(t) ==
  /\ Goes(t, "down", "bottom")
  /\ cy' = reg[t] /\ Keeps(t, 0)
  /\ UNCHANGED cx

JustBelow == cy = HEIGHT
BelowScreen == cy >= HEIGHT

Bottom(t) ==
  /\ Goes(t, "bottom", IF BelowScreen THEN "scroll" ELSE "none")
  /\ UNCHANGED <<cx, cy, reg>>

Scroll(t) ==
  /\ Goes(t, "scroll", "last")
  /\ cx' = 0
  /\ UNCHANGED <<cy, reg>>

LastRow(t) ==
  /\ Goes(t, "last", "none")
  /\ cy' = HEIGHT - 1
  /\ UNCHANGED <<cx, reg>>

\* term_set_cursor with a position on the screen; term_clear_col is the case of 0, 0.
SetCursor(t) ==
  /\ Goes(t, "none", "place")
  /\ cx' \in Column
  /\ \E y \in Row : Keeps(t, y)
  /\ UNCHANGED cy

Place(t) ==
  /\ Goes(t, "place", "none")
  /\ cy' = reg[t] /\ Keeps(t, 0)
  /\ UNCHANGED cx

\* term_set_cursor_x, by which HELP lines up its columns.
SetColumn(t) ==
  /\ call[t] = "none"
  /\ cx' \in Column
  /\ UNCHANGED <<cy, call, reg>>

Calls(t) == WriteChar(t) \/ (call[t] = "none" /\ NewLine(t)) \/ SetCursor(t) \/ SetColumn(t)

Continues(t) ==
  \/ Advance(t) \/ Wrap(t) \/ (call[t] = "newline" /\ NewLine(t)) \/ Home(t) \/ Down(t)
  \/ Bottom(t) \/ Scroll(t) \/ LastRow(t) \/ Place(t)

-----------------------------------------------------------------------------
(* The same functions called by an interrupt handler, which nothing stops. *)

Below == IF cy + 1 >= HEIGHT THEN HEIGHT - 1 ELSE cy + 1

\* term_newline
LineFeed == cx' = 0 /\ cy' = Below /\ UNCHANGED <<call, reg>>

\* term_writechar of a printable character
Echo ==
  \/ cx + 1 >= WIDTH /\ LineFeed
  \/ cx + 1 < WIDTH /\ cx' = cx + 1 /\ UNCHANGED <<cy, call, reg>>

\* term_delete; at the top left corner it moves nothing.
Erase ==
  /\ \/ cx > 0 /\ cx' = cx - 1 /\ UNCHANGED cy
     \/ cx = 0 /\ cy > 0 /\ cx' = WIDTH - 1 /\ cy' = cy - 1
     \/ cx = 0 /\ cy = 0 /\ UNCHANGED <<cx, cy>>
  /\ UNCHANGED <<call, reg>>

-----------------------------------------------------------------------------
TermNext ==
  \/ \E t \in Thread : Calls(t) \/ Continues(t)
  \/ LineFeed \/ Echo \/ Erase

TermSpec == TermInit /\ [][TermNext]_termVars

-----------------------------------------------------------------------------
\* Whenever no thread is inside terminal.c the cursor is on the screen, however the writers
\* have interrupted one another: an update of term_cx or term_cy that was lost or made from an
\* old value is put right by the test that follows it (terminal.c:63 and :138).
CursorOnScreen ==
  (\A t \in Thread : call[t] = "none") => cx \in Column /\ cy \in Row
=============================================================================
