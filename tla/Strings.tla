------------------------------- MODULE Strings -------------------------------
(***************************************************************************)
(* The string functions of src/lib/string.c on one buffer of a caller, and *)
(* the numbers that are written into it.  Most of them do not end what     *)
(* they write: they count on zeros in the buffer.  `text` is the string    *)
(* that the C library's functions of these names would leave, `number` the *)
(* number last printed while the buffer still shows it.                    *)
(*                                                                         *)
(* `slips` records the calls that leave something else in the buffer.      *)
(* After one of them only memset is called here.                           *)
(***************************************************************************)
EXTENDS Numbers, FiniteSets

CONSTANTS
  SIZE,      \* of the buffer
  Alphabet,  \* the characters callers pass
  Words,     \* the strings callers pass
  Shown      \* the numbers callers print

ASSUME StringsAssumption ==
  /\ SIZE \in Nat \ {0, 1}
  /\ Alphabet \subseteq 1 .. 127
  /\ Words \subseteq Seq(1 .. 127)
  /\ Shown \subseteq 0 .. UINT - 1

VARIABLES
  buf,     \* the cells of the buffer
  text,    \* ghost: the string promised
  number,  \* ghost: the number and the base last printed, or NONE
  slips    \* history: what has been left in the buffer since it was last cleared

stringVars == <<buf, text, number, slips>>

NUL  == 0
NONE == [base |-> 0]
HUNDREDTHS == 100       \* as a base: decimal, with two digits behind a point
Cell == 0 .. SIZE - 1

StringInit ==
  /\ buf = [i \in Cell |-> NUL]
  /\ text = <<>> /\ number = NONE /\ slips = {}

\* strlen, and the string a buffer holds.
strlen(f) == CHOOSE n \in Cell : f[n] = NUL /\ \A i \in 0 .. n - 1 : f[i] # NUL
Held(f) == [k \in 1 .. strlen(f) |-> f[k - 1]]

\* The first cell of n that holds c: memchr finds it, or none.
memchr(f, c, n) == LET at == {i \in Cell : i < n /\ f[i] = c}
                   IN  {i \in at : \A j \in at : i =< j}

\* Whole double words first, then the rest, byte by byte.
memset(f, c, n) == LET words == 4 * (n \div 4) IN
  [i \in Cell |-> IF i < words \/ i - words \in 0 .. (n % 4) - 1 THEN c ELSE f[i]]

\* memcpy of s to the cell `at` and behind.
PutShort(f, at, s) == [i \in Cell |-> IF i - at \in 0 .. Len(s) - 2 THEN s[i - at + 1] ELSE f[i]]
Put(f, at, s) == [i \in Cell |-> IF i - at \in 0 .. Len(s) - 1 THEN s[i - at + 1] ELSE f[i]]

First(s, n) == SubSeq(s, 1, IF n =< Len(s) THEN n ELSE Len(s))

Slip(name, condition) == slips' = IF condition THEN slips \cup {name} ELSE slips

-----------------------------------------------------------------------------
(* Functions that write the buffer, called with what fits.                 *)

\* What a caller starts with.
Clear ==
  /\ buf' = memset(buf, NUL, SIZE)
  /\ text' = <<>> /\ number' = NONE /\ slips' = {}

\* strcat ends the string with a NUL where it finds one.
Strcat(s) ==
  /\ strlen(buf) + Len(s) < SIZE
  /\ buf' = Put(buf, strlen(buf), s)
  /\ text' = text \o s
  /\ Slip("not_ended", buf[strlen(buf) + Len(s)] # NUL)

\* strncat of n characters; one more than there are copies the NUL.
Strncat(s, n) ==
  /\ n \in 0 .. Len(s) + 1
  /\ strlen(buf) + n < SIZE
  /\ buf' = Put(buf, strlen(buf), First(Append(s, NUL), n))
  /\ text' = text \o First(s, n)
  /\ Slip("not_ended", n =< Len(s) /\ buf[strlen(buf) + n] # NUL)

Strcpy(s) ==
  /\ Len(s) < SIZE
  /\ buf' = Put(buf, 0, s)
  /\ text' = s
  /\ Slip("shorter", buf[Len(s)] # NUL)

\* strncpy need not end the string: what is behind the n characters stays.
Strncpy(s, n) ==
  /\ n \in 0 .. Len(s) + 1 /\ n < SIZE
  /\ buf' = Put(buf, 0, First(Append(s, NUL), n))
  /\ text' = IF n > Len(s) THEN s ELSE First(s, n) \o SubSeq(text, n + 1, Len(text))
  /\ Slip("not_ended", n > Len(text) /\ n =< Len(s) /\ buf[n] # NUL)

\* stradd is the one that writes a NUL.
Stradd(c) ==
  /\ strlen(buf) + 1 < SIZE
  /\ buf' = Put(buf, strlen(buf), <<c, NUL>>)
  /\ text' = Append(text, c)
  /\ UNCHANGED slips

InPlace(f, s) == Put(f, 0, s)

Strlwr == /\ buf' = InPlace(buf, [k \in 1 .. strlen(buf) |-> tolower(buf[k - 1])])
          /\ text' = [k \in 1 .. Len(text) |-> tolower(text[k])]
          /\ UNCHANGED slips

Strupr == /\ buf' = InPlace(buf, [k \in 1 .. strlen(buf) |-> toupper(buf[k - 1])])
          /\ text' = [k \in 1 .. Len(text) |-> toupper(text[k])]
          /\ UNCHANGED slips

\* The cells are exchanged from both ends until they meet.
Mirror(i, n) == n - 1 - i

Strrev == /\ buf' = [i \in Cell |-> IF i < strlen(buf) THEN buf[Mirror(i, strlen(buf))] ELSE buf[i]]
          /\ text' = Reverse(text)
          /\ UNCHANGED slips

Strset(c) == /\ buf' = [i \in Cell |-> IF i < strlen(buf) THEN c ELSE buf[i]]
             /\ text' = [k \in 1 .. Len(text) |-> c]
             /\ UNCHANGED slips

\* strnset does not stop at the end of the string.
Strnset(c, n) ==
  /\ n < SIZE
  /\ buf' = [i \in Cell |-> IF i < n THEN c ELSE buf[i]]
  /\ text' = [k \in 1 .. Len(text) |-> IF k =< n THEN c ELSE text[k]]
  /\ Slip("too_far", n > strlen(buf))

\* The cell strcmp and strncmp stop at.
FirstDifference(f, s) ==
  CHOOSE k \in 0 .. Len(s) : /\ f[k] = NUL \/ f[k] # Append(s, NUL)[k + 1]
                             /\ \A i \in 0 .. k - 1 : f[i] # NUL /\ f[i] = s[i + 1]

strcmp(f, s) == LET k == FirstDifference(f, s) IN f[k] - Append(s, NUL)[k + 1]
streql(f, s) == strcmp(f, s) = 0

\* memcmp of the buffer and the n cells of s, which does not stop at a NUL.
memcmp(f, s, n) ==
  LET differ == {i \in 0 .. n - 1 : f[i] # s[i + 1]}
      first  == CHOOSE i \in differ : \A j \in differ : i =< j
  IN  IF differ = {} THEN 0 ELSE IF f[first] > s[first + 1] THEN 1 ELSE -1

\* strncmp assigns where it means to subtract: the first string gets the character of the
\* second at which they differ.
Strncmp(s, n) ==
  LET k == FirstDifference(buf, s) IN
  /\ buf' = IF k < n THEN Put(buf, k, <<Append(s, NUL)[k + 1]>>) ELSE buf
  /\ Slip("compared", buf' # buf)
  /\ UNCHANGED text

\* Printing into the cleared buffer: ltoa and itoa write the NUL, strhex does not.
Show(digits, base, n) ==
  /\ Len(digits) < SIZE /\ \A i \in Cell : buf[i] = NUL
  /\ buf' = Put(buf, 0, digits)
  /\ text' = digits
  /\ number' = [base |-> base, value |-> n]
  /\ UNCHANGED slips

\* The formats for one and two bytes print no more of a number.
LowBytes(n, bytes) == IF bytes = 1 THEN n % 256 ELSE IF bytes = 2 THEN n % 65536 ELSE n

ShowNumber(n) ==
  \/ \E base \in {2, 10, 16} : Show(ultoa(n, base), base, n)
  \/ Show(itoa(ToInt(n), 10), 10, ToInt(n))
  \/ \E bytes \in {1, 2, 4} : Show(strhex(n, FALSE, bytes), 16, LowBytes(n, bytes))
  \/ \E digits \in ftoa(n) : Show(digits, HUNDREDTHS, n)

StringNext ==
  \/ Clear
  \/ /\ slips = {} /\ number' = NONE
     /\ \/ \E s \in Words : \/ Strcat(s) \/ Strcpy(s)
                            \/ \E n \in 0 .. Len(s) + 1 : Strncat(s, n) \/ Strncpy(s, n) \/ Strncmp(s, n)
        \/ \E c \in Alphabet : Stradd(c) \/ Strset(c) \/ \E n \in Cell : Strnset(c, n)
        \/ Strlwr \/ Strupr \/ Strrev
  \/ slips = {} /\ \E n \in Shown : ShowNumber(n)

-----------------------------------------------------------------------------
\* Which of two strings comes first, by definition.
Before(s, t) ==
  \/ Len(s) < Len(t) /\ s = SubSeq(t, 1, Len(s))
  \/ \E k \in 1 .. Len(s) : k =< Len(t) /\ s[k] < t[k] /\ SubSeq(s, 1, k - 1) = SubSeq(t, 1, k - 1)

\* Whatever has been called on a buffer that was cleared once, it holds the string the calls
\* promise, and comparing tells it from every other, until a shorter string is copied over a
\* longer one, an append meets what such a call has left, or one of the two functions that
\* write where they should not is used.
BufferKept ==
  slips = {} =>
    /\ Held(buf) = text /\ memchr(buf, NUL, SIZE) = {Len(text)}
    /\ \A s \in Words : /\ streql(buf, s) <=> text = s
                        /\ strcmp(buf, s) < 0 <=> Before(text, s)
                        /\ streql(buf, s) <=> memcmp(buf, Append(s, NUL), Len(s) + 1) = 0

\* Two digits are behind the point.
Reads(s, base) ==
  IF base = HUNDREDTHS THEN Value(RemoveAt(s, Len(s) - 2), 10)
  ELSE IF s[1] = Minus THEN -Value(Tail(s), base) ELSE Value(s, base)

\* A number printed by term_vprintf, in every base and up to the ends of its type, is the
\* number that can be read off the buffer, to a hundredth for one with a point; what atol
\* makes of a string is the number the digits say as long as that fits in 32 bits, and 0 for
\* anything else.
NumbersReadBack ==
  /\ number # NONE => LET read == Reads(Held(buf), number.base) IN
       read = number.value \/ (number.base = HUNDREDTHS /\ read = number.value - 1)
  /\ slips = {} =>
       IF text # <<>> /\ \A k \in 1 .. Len(text) : isdigit(text[k])
         THEN Value(text, 10) < UINT => atol(Held(buf)) = Value(text, 10)
         ELSE atol(Held(buf)) = 0
=============================================================================
