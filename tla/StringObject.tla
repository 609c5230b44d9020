---------------------------- MODULE StringObject ----------------------------
(***************************************************************************)
(* string_t of src/lib/string.c: a string that grows by being moved to a   *)
(* new heap block.  The heap gives blocks of zeros whose sizes are rounded *)
(* up to MEM_ALIGN; here they are counted and the block of this object is  *)
(* the sequence of the cells it asked for.                                 *)
(*                                                                         *)
(* A string_t made by string_create is cleared before it is made again.    *)
(***************************************************************************)
EXTENDS Strings

CONSTANTS
  MEM_ALIGN,
  LONGEST    \* bound: nothing is appended to an object of this length

ASSUME StringObjectAssumption == MEM_ALIGN \in Nat \ {0} /\ LONGEST \in Nat

VARIABLES
  data,    \* str->data, the cells of its block, or NULL
  length,  \* str->length
  blocks,  \* the heap blocks taken for the object and not freed
  beyond,  \* a write has gone behind a block
  joined,  \* ghost: what the object is to hold
  nothing  \* history: nothing was appended to a string that filled its block

objectVars == <<data, length, blocks, beyond, joined, nothing>>

NULL == <<>>

ObjectInit ==
  /\ data = NULL /\ length = 0 /\ blocks = 0 /\ beyond = FALSE
  /\ joined = <<>> /\ nothing = FALSE

Aligned(n) == n + ((-n) % MEM_ALIGN)
Zeros(n)   == [k \in 1 .. n |-> NUL]

\* memcpy of s into block b behind its first n cells.
Copied(b, n, s) == [k \in 1 .. Len(b) |-> IF k - n \in 1 .. Len(s) THEN s[k - n] ELSE b[k]]

\* A new block in place of the one there is.
Replaced == blocks' = blocks + 1 - (IF data = NULL THEN 0 ELSE 1)

Moved(size) == IF data = NULL THEN Zeros(size) ELSE Copied(Zeros(size), 0, SubSeq(data, 1, length))

\* string_create makes no block for an empty string.
StringCreate(s) ==
  /\ data = NULL
  /\ data' = IF s = <<>> THEN NULL ELSE Copied(Zeros(Len(s) + 1), 0, s)
  /\ blocks' = IF s = <<>> THEN blocks ELSE blocks + 1
  /\ length' = Len(s)
  /\ joined' = s
  /\ UNCHANGED <<beyond, nothing>>

StringClear ==
  /\ data' = NULL /\ length' = 0
  /\ blocks' = IF data = NULL THEN blocks ELSE blocks - 1
  /\ joined' = <<>>
  /\ UNCHANGED <<beyond, nothing>>

StringAppendChar(c) ==
  /\ Replaced
  /\ data' = Copied(Moved(length + 2), length, <<c, NUL>>)
  /\ length' = length + 1
  /\ joined' = Append(joined, c)
  /\ UNCHANGED <<beyond, nothing>>

\* The new block is cleared as far as it would be for one character, whatever its size is.
StringAppend(s) ==
  LET size == length + Len(s) + 1 IN
  /\ Replaced
  /\ beyond' = (beyond \/ length + 2 > Aligned(size))
  /\ data' = Copied(Copied(Moved(size), length, s), length + Len(s), <<NUL>>)
  /\ length' = length + Len(s)
  /\ joined' = joined \o s
  /\ nothing' = (nothing \/ (s = <<>> /\ Aligned(length + 1) = length + 1))

StringAppendInt(n, base) == StringAppend(ultoa(n, base))

ObjectNext ==
  \/ \E s \in Words : StringCreate(s)
  \/ StringClear
  \/ /\ length < LONGEST
     /\ \/ \E s \in Words : StringAppend(s)
        \/ \E c \in Alphabet : StringAppendChar(c)
        \/ \E n \in Shown, base \in {10, 16} : StringAppendInt(n, base)

-----------------------------------------------------------------------------
\* The object holds what has been appended to it, ended by a NUL in its own block, and that
\* block is the only one it has taken and not given back; nothing is written behind a block
\* unless an empty string is appended when the string with its NUL fills the block.
ObjectKept ==
  /\ IF data = NULL THEN joined = <<>> /\ blocks = 0
                    ELSE /\ SubSeq(data, 1, length + 1) = Append(joined, NUL)
                         /\ blocks = 1
  /\ length = Len(joined)
  /\ beyond => nothing
=============================================================================
