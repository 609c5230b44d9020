------------------------------ MODULE EntryName ------------------------------
(* The name field of an entry of the file table.  strcpy                    *)
(* (src/lib/string.c) writes the characters of a name over what is in the   *)
(* field and does not end the string: what was behind the new name stays,   *)
(* and a field that is full to its last character has no end.               *)
EXTENDS Integers, Sequences

CONSTANTS
  NUL,    \* the character that ends a string
  WIDTH   \* the size of the field

ASSUME EntryNameAssumption == WIDTH \in Nat \ {0}

Blank == [k \in 1 .. WIDTH |-> NUL]           \* a field of zeros

Ended(f) == \E k \in 1 .. WIDTH : f[k] = NUL

\* The string in a field.  Without an end it is the whole field, and goes on with the bytes
\* of parent_index behind it: in the root directory those are zeros, and end it.
Str(f) == LET end == CHOOSE k \in 1 .. WIDTH : f[k] = NUL /\ \A n \in 1 .. k - 1 : f[n] # NUL
          IN  IF Ended(f) THEN SubSeq(f, 1, end - 1) ELSE f

StrCpy(f, name) == [k \in 1 .. WIDTH |-> IF k =< Len(name) THEN name[k] ELSE f[k]]

\* A name that the field has room for; one as long as the field leaves none for the end.
Fits(name) == Len(name) \in 1 .. WIDTH /\ \A k \in 1 .. Len(name) : name[k] # NUL

\* A name that reaches as far as what the field holds already.
Covers(name, f) == \A k \in 1 .. WIDTH : k > Len(name) => f[k] = NUL
=============================================================================
