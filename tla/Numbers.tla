------------------------------- MODULE Numbers -------------------------------
(***************************************************************************)
(* Numbers as characters and characters as numbers: src/lib/common.c and   *)
(* strhex in string.c, as operators.  A character is its code, a string    *)
(* the sequence of the codes in front of its NUL.  ltoa, whose argument is *)
(* unsigned, never finds it negative: it is ultoa.                         *)
(***************************************************************************)
EXTENDS Integers, Sequences, SequencesExt

CONSTANT UINT   \* 2^32: an unsigned int; an int goes from -UINT/2 to UINT/2 - 1

\* Of 8 to 32 bits: TLC computes with less than 32.
ASSUME NumbersAssumption ==
  UINT \in Nat /\ UINT % 2 = 0 /\ 256 =< UINT /\ (UINT - 1) \div 16 < 268435456

Zero == 48    \* '0'
Minus == 45   \* '-'

isdigit(c) == c \in 48 .. 57
isupper(c) == c \in 65 .. 90
islower(c) == c \in 97 .. 122
isalpha(c) == c \in 65 .. 90 \cup 97 .. 122
isalnum(c) == c \in 65 .. 90 \cup 97 .. 122 \cup 48 .. 57
isxdigit(c) == c \in 65 .. 70 \cup 97 .. 102 \cup 48 .. 57
isspace(c) == c = 9 \/ c \in 10 .. 13 \/ c = 32
iscntrl(c) == c \in 0 .. 31 \/ c = 127
isprint(c) == ~iscntrl(c)
isgraph(c) == c # 32 /\ isprint(c)
ispunct(c) == c \in 33 .. 47 \cup 58 .. 64 \cup 91 .. 96 \cup 123 .. 126   \* PUNCT_CHARS

tolower(c) == IF isupper(c) THEN c + 32 ELSE c
toupper(c) == IF islower(c) THEN c - 32 ELSE c

-----------------------------------------------------------------------------
(* To characters.                                                          *)

\* Division and its rest as C has them, towards zero.
CDiv(a, b) == IF a < 0 THEN -((-a) \div b) ELSE a \div b
CRem(a, b) == a - CDiv(a, b) * b

UltoaDigit(d) == IF Zero + d > 57 THEN Zero + d + 7 ELSE Zero + d    \* 'A' - ':' is 7

ultoa(value, base) ==
  LET written[v \in 0 .. value] ==
        IF v < base THEN <<UltoaDigit(v)>>
                    ELSE Append(written[v \div base], UltoaDigit(v % base))
  IN  written[value]

\* ITOA_STR[35 + rest]: one table for the rests of both signs.
ItoaDigit(rest) == LET d == IF rest < 0 THEN -rest ELSE rest
                   IN  IF d < 10 THEN Zero + d ELSE 97 + d - 10

ItoaSignNever(digits, last) == digits
ItoaSign(digits, last) == IF last < 0 THEN <<Minus>> \o digits ELSE digits

\* The sign is that of the last value that was divided, the number's leading digits.
itoa(num, base) ==
  IF base \notin 2 .. 36 THEN <<>>
  ELSE LET written[n \in (-UINT \div 2) .. UINT \div 2] ==
             IF CDiv(n, base) = 0 THEN ItoaSign(<<ItoaDigit(n)>>, n)
                                  ELSE Append(written[CDiv(n, base)], ItoaDigit(CRem(n, base)))
       IN  written[num]

\* At least d digits, and no digit for a zero unless d asks for one.  A negative number
\* comes out as characters below '0'.
int2str(x, d) ==
  LET digits[n \in (-UINT \div 2) .. UINT \div 2] ==
        IF n = 0 THEN <<>> ELSE Append(digits[CDiv(n, 10)], CRem(n, 10) + Zero)
      padding == d - Len(digits[x])
  IN  [k \in 1 .. (IF padding > 0 THEN padding ELSE 0) |-> Zero] \o digits[x]

\* A number given in hundredths, as ftoa(num, str, 2) has it: the product of the float with
\* 100 may come out a little below a whole number, which the cast cuts off.
ftoa(hundredths) ==
  LET whole == CDiv(hundredths, 100)
      rest  == CRem(hundredths, 100)
      less  == IF rest > 0 THEN rest - 1 ELSE IF rest < 0 THEN rest + 1 ELSE rest
  IN  {int2str(whole, 0) \o <<46>> \o int2str(r, 2) : r \in {rest, less}}

HexDigit(d) == IF d < 10 THEN Zero + d ELSE 65 + d - 10             \* HEX_VALUES

\* What the shifts by 0, 4, 8 and so on divide by.
Shifted == <<1, 16, 256, 4096, 65536, 1048576, 16777216, 268435456>>

\* Two digits for each byte, highest first, and no other number of bytes than 1, 2 and 4.
strhex(value, prefix, bytes) ==
  (IF prefix THEN <<Zero, 120>> ELSE <<>>)
  \o [k \in 1 .. (IF bytes \in {1, 2, 4} THEN 2 * bytes ELSE 0) |->
        HexDigit((value \div Shifted[2 * bytes - k + 1]) % 16)]

-----------------------------------------------------------------------------
(* From characters.                                                        *)

ToInt(n) == LET m == n % UINT IN IF m < UINT \div 2 THEN m ELSE m - UINT

\* 0 for a string that is not of digits only; the sum is an int and wraps around.
atol(s) == IF \E k \in 1 .. Len(s) : s[k] < 48 \/ s[k] > 57 THEN 0
           ELSE FoldLeft(LAMBDA res, c : ToInt(res * 10 + c - Zero), 0, s) % UINT

-----------------------------------------------------------------------------
\* The value of a string of digits, by definition.
DigitValue(c) == IF isdigit(c) THEN c - 48 ELSE toupper(c) - 55
Value(s, base) == FoldLeft(LAMBDA sum, c : sum * base + DigitValue(c), 0, s)
=============================================================================
