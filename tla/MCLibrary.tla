----------------------------- MODULE MCLibrary -----------------------------
(* Library.tla with values for TLC, given in MCLibrary.cfg: numbers of     *)
(* eight bits, the empty string, a letter, a letter with a digit and two   *)
(* digits, so that copying over a longer string, a comparison of words     *)
(* with a common beginning and a number that wraps around all occur;       *)
(* moments around noon and midnight with numbers of one and two digits.    *)
EXTENDS Library

MCWords == {<<>>, <<65>>, <<97, 49>>, <<49, 48>>}

At(h, n) == [second |-> 59 - n, minute |-> n, hour |-> h, day |-> 9 + n, month |-> 12 - n, year |-> 2099 - 90 * n]
MCMoments == {At(h, n) : h \in {0, 1, 9, 11, 12, 13, 23}, n \in {0, 1}}

\* The functions that sort characters agree with each other: every character is a control
\* character, the space, a letter or digit, or punctuation, and the first alone do not print.
ASSUME CharactersSorted ==
  \A c \in 0 .. 127 :
    /\ Cardinality({k \in 1 .. 4 : <<iscntrl(c), c = 32, isalnum(c), ispunct(c)>>[k]}) = 1
    /\ isprint(c) <=> c = 32 \/ isgraph(c)
    /\ isalnum(c) <=> isalpha(c) \/ isdigit(c)
    /\ isalpha(c) <=> isupper(c) \/ islower(c)
    /\ isxdigit(c) => isalnum(c) /\ DigitValue(c) < 16
    /\ isspace(c) => c = 32 \/ iscntrl(c)
    /\ toupper(tolower(c)) = toupper(c)
    /\ isalpha(c) <=> tolower(c) # toupper(c)
=============================================================================
