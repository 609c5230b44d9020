------------------------------- MODULE Library -------------------------------
(***************************************************************************)
(* src/lib: the buffers, the string objects, the clock and the timer have  *)
(* nothing to do with each other; a behaviour is one of the four.          *)
(***************************************************************************)
EXTENDS StringObject, TimeOfDay

VARIABLE part

vars == <<stringVars, objectVars, timeVars, part>>

Parts == {"buffer", "object", "clock", "timer"}

Init ==
  /\ StringInit /\ ObjectInit /\ TimeInit
  /\ part \in Parts
  /\ part # "clock" => mode = [bcd |-> TRUE, twelve |-> FALSE]

Next ==
  /\ UNCHANGED part
  /\ \/ part = "buffer" /\ StringNext /\ UNCHANGED <<objectVars, timeVars>>
     \/ part = "object" /\ ObjectNext /\ UNCHANGED <<stringVars, timeVars>>
     \/ part = "clock" /\ ClockNext /\ UNCHANGED <<stringVars, objectVars>>
     \/ part = "timer" /\ PitCalculate /\ UNCHANGED <<stringVars, objectVars>>

Spec == Init /\ [][Next]_vars

-----------------------------------------------------------------------------
\* However the calls of string.c follow each other, the strings are what they promise, in a
\* caller's buffer (strcpy, strcat, strrev and the others) and in a string object (string_t).
StringsKept == BufferKept /\ ObjectKept
=============================================================================
