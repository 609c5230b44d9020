----------------------------- MODULE HeapProofs ------------------------------
(***************************************************************************)
(* Theorems about Heap.tla and, from where a slow call comes in, about     *)
(* HeapPreempted.tla, for every table size, region, page size and set of   *)
(* request sizes.                                                          *)
(***************************************************************************)
EXTENDS HeapPreempted, FiniteSetTheorems, TLAPS

-----------------------------------------------------------------------------
(* Arithmetic of the C types.                                              *)

\* The remainder modulo 2^32 is a uint32_t.
LEMMA WrapUInt ==
  ASSUME NEW x \in Int
  PROVE  Wrap(x) \in UInt
  BY HeapAssumption DEF Wrap, UInt

LEMMA WrapArith ==
  ASSUME NEW x \in UInt, NEW y \in UInt
  PROVE  Wrap(x + y) \in UInt /\ Wrap(x - y) \in UInt
  BY WrapUInt DEF UInt

\* A value that fits is not changed by the wrap-around.
LEMMA WrapId ==
  ASSUME NEW x \in UInt
  PROVE  Wrap(x) = x
  BY HeapAssumption DEF Wrap, UInt

\* Wrapping around in between does not change a sum modulo 2^32.
LEMMA WrapTwice ==
  ASSUME NEW x \in Int, NEW y \in Int
  PROVE  Wrap(Wrap(x) + y) = Wrap(x + y)
<1>1. UINT \in Nat \ {0}
  BY HeapAssumption
<1> DEFINE k == x \div UINT
<1>2. k \in Int /\ x = UINT * k + Wrap(x)
  BY <1>1 DEF Wrap
<1> DEFINE z == Wrap(x) + y
<1>3. z \in Int
  BY WrapUInt DEF UInt
<1> DEFINE q == z \div UINT
<1>4. q \in Int /\ z = UINT * q + Wrap(z) /\ Wrap(z) \in 0 .. UINT - 1
  BY <1>1, <1>3 DEF Wrap
<1> DEFINE w == x + y
           p == w \div UINT
<1>5. p \in Int /\ w = UINT * p + Wrap(w) /\ Wrap(w) \in 0 .. UINT - 1
  BY <1>1 DEF Wrap
<1> HIDE DEF k, q, p
<1>0. /\ UINT * k \in Int /\ UINT * q \in Int /\ UINT * p \in Int
      /\ Wrap(x) \in Int /\ Wrap(z) \in Int /\ Wrap(w) \in Int
  BY <1>1, <1>2, <1>4, <1>5, WrapUInt DEF UInt
<1>6. w = UINT * k + z
  BY <1>2, <1>0
<1> HIDE DEF z, w
<1>7. UINT * k + UINT * q = UINT * (k + q)
  BY <1>1, <1>2, <1>4
<1>8. Wrap(w) - Wrap(z) = UINT * (k + q) - UINT * p
  <2>1. UINT * k + z = UINT * p + Wrap(w)
    BY <1>5, <1>6
  <2>2. UINT * k + (UINT * q + Wrap(z)) = UINT * p + Wrap(w)
    BY <1>4, <2>1
  <2>3. UINT * (k + q) \in Int
    BY <1>1, <1>2, <1>4
  <2>4. QED
    BY <1>0, <1>7, <2>2, <2>3
<1>9. UINT * (k + q) - UINT * p = UINT * (k + q - p)
  BY <1>1, <1>2, <1>4, <1>5
<1> DEFINE d == k + q - p
<1>10. d \in Int /\ Wrap(w) - Wrap(z) = UINT * d
  BY <1>2, <1>4, <1>5, <1>8, <1>9
<1> HIDE DEF d
<1>11. d = 0
  <2>1. UINT * d < UINT /\ UINT * d > -UINT
    BY <1>1, <1>4, <1>5, <1>10
  <2>2. CASE d >= 1
    <3>1. UINT * d >= UINT
      BY <1>1, <1>10, <2>2
    <3>2. QED
      BY <1>1, <1>10, <2>1, <3>1
  <2>3. CASE d =< -1
    <3>1. UINT * d =< -UINT
      BY <1>1, <1>10, <2>3
    <3>2. QED
      BY <1>1, <1>10, <2>1, <3>1
  <2>4. QED
    BY <1>10, <2>2, <2>3
<1>12. UINT * d = 0
  BY <1>1, <1>11
<1>13. Wrap(w) = Wrap(z)
  BY <1>4, <1>5, <1>10, <1>12
<1>14. QED
  BY <1>13 DEF w, z

\* mm_align never rounds a request down.
LEMMA AlignSize ==
  ASSUME NEW size \in Sizes
  PROVE  size \in UInt /\ Align(size) \in UInt /\ size =< Align(size) /\ 0 < Align(size)
<1>1. size \in 1 .. UINT - MEM_ALIGN
  BY HeapAssumption
<1>2. (-size) % MEM_ALIGN \in 0 .. MEM_ALIGN - 1
  BY <1>1, HeapAssumption
<1>3. size + ((-size) % MEM_ALIGN) \in UInt
  BY <1>1, <1>2, HeapAssumption DEF UInt
<1>4. Align(size) = size + ((-size) % MEM_ALIGN)
  BY <1>3, WrapId DEF Align
<1>5. QED
  BY <1>1, <1>2, <1>3, <1>4, HeapAssumption DEF UInt

-----------------------------------------------------------------------------
(* Type correctness.                                                       *)

\* mm_delete_entry keeps the table well-typed.
LEMMA DeletedType ==
  ASSUME NEW t \in [Index -> Entry], NEW e, NEW u \in Deleted(t, e)
  PROVE  u \in [Index -> Entry]
<1>1. EMPTY \in Entry
  BY HeapAssumption DEF EMPTY, Entry, UInt
<1>2. QED
  BY <1>1 DEF Deleted, Least

\* Replacing one entry by a well-typed one keeps the table well-typed.
LEMMA UpdateType ==
  ASSUME NEW t \in [Index -> Entry], NEW i \in Index, NEW e \in Entry
  PROVE  [t EXCEPT ![i] = e] \in [Index -> Entry]
  OBVIOUS

LEMMA TypeInit == Init => TypeOK
<1> SUFFICES ASSUME Init PROVE TypeOK
  OBVIOUS
<1>1. DATA_END - DATA_BASE \in UInt /\ DATA_BASE \in UInt /\ 0 \in UInt
  BY HeapAssumption DEF UInt
<1>2. Align(DATA_END - DATA_BASE) \in UInt
  BY <1>1, WrapUInt, HeapAssumption DEF Align, UInt
<1>3. QED
  BY <1>1, <1>2, HeapAssumption DEF Init, TypeOK, Entry, EMPTY, Index, Idle, Fault

LEMMA TypeNext == TypeOK /\ [Next]_vars => TypeOK'
<1> SUFFICES ASSUME TypeOK, [Next]_vars PROVE TypeOK'
  OBVIOUS
<1>z. 0 \in Index /\ 0 \in UInt /\ EMPTY \in Entry
  BY HeapAssumption DEF Index, UInt, EMPTY, Entry
<1>t. /\ table \in [Index -> Entry]
      /\ \A i \in Index : table[i].ptr \in UInt /\ table[i].size \in UInt
                           /\ table[i].bytes \in UInt /\ table[i].state \in {"FREE", "USED"}
      /\ data_used \in UInt
      /\ UInt \subseteq Int
  BY DEF TypeOK, Entry, UInt
<1>1. ASSUME NEW size \in Sizes, Allocate(size) PROVE TypeOK'
  <2>s. size \in UInt /\ Align(size) \in UInt
    BY AlignSize
  <2>1. CASE AllocateTooLarge(size)
    BY <2>1 DEF AllocateTooLarge, TypeOK
  <2>2. CASE AllocateExact(size)
    <3> PICK i \in Least(ExactFits(size)) :
          /\ table' = [table EXCEPT ![i].state = "USED", ![i].bytes = size]
          /\ halted' = ~ValidEntry(table[i])
          /\ data_used' = IF ValidEntry(table[i]) THEN Wrap(data_used + table[i].size)
                                                  ELSE data_used
      BY <2>2 DEF AllocateExact
    <3>1. i \in Index
      BY DEF Least, ExactFits
    <3>2. table' \in [Index -> Entry]
      BY ZenonT(30), <1>t, <2>s, <3>1 DEF Entry
    <3>3. data_used' \in UInt
      BY <1>t, <3>1, WrapArith
    <3>4. QED
      BY <2>2, <3>2, <3>3 DEF AllocateExact, TypeOK, ValidEntry, ValidPtr
  <2>3. CASE AllocateCarve(size)
    <3> DEFINE mass   == [ptr   |-> Wrap(Mass.ptr + Align(size)),
                          size  |-> Wrap(Mass.size - Align(size)),
                          bytes |-> Wrap(Mass.bytes - size), state |-> "FREE"]
               carved == [table EXCEPT ![0] = mass]
               block  == [ptr |-> Wrap(mass.ptr - Align(size)), size |-> Align(size),
                          bytes |-> size, state |-> "USED"]
    <3>1. Mass \in Entry
      BY <1>t, <1>z DEF Mass
    <3>2. mass \in Entry
      <4>1. /\ Wrap(Mass.ptr + Align(size)) \in UInt
            /\ Wrap(Mass.size - Align(size)) \in UInt
            /\ Wrap(Mass.bytes - size) \in UInt
        BY <2>s, <3>1, WrapArith DEF Entry
      <4>2. QED
        BY <4>1 DEF Entry
    <3>3. block \in Entry
      <4>1. mass.ptr \in UInt
        BY <3>2 DEF Entry
      <4>2. Wrap(mass.ptr - Align(size)) \in UInt
        BY <2>s, <4>1, WrapArith
      <4>3. QED
        BY <2>s, <4>2 DEF Entry
    <3>4. carved \in [Index -> Entry]
      BY <3>2, <1>t, <1>z, UpdateType
    <3>5. table' \in [Index -> Entry]
      <4>1. \/ table' = carved
            \/ \E i \in Least(FreeIndexes(carved)) : table' = [carved EXCEPT ![i] = block]
        BY <2>3 DEF AllocateCarve
      <4>2. QED
        BY <4>1, <3>3, <3>4, UpdateType DEF Least, FreeIndexes
    <3>6. halted' \in BOOLEAN
      BY <2>3 DEF AllocateCarve, ValidEntry, ValidPtr
    <3>7. data_used' \in UInt
      <4>1. data_used' = data_used \/ data_used' = Wrap(data_used + Align(size))
        BY <2>3 DEF AllocateCarve
      <4>2. QED
        BY <4>1, <1>t, <2>s, WrapArith
    <3>8. faults' \subseteq Fault /\ scan' = scan
      BY <2>3 DEF AllocateCarve, TypeOK, Fault
    <3>9. QED
      BY <3>5, <3>6, <3>7, <3>8 DEF TypeOK
  <2>4. QED
    BY <1>1, <2>1, <2>2, <2>3 DEF Allocate
<1>2. ASSUME NEW p \in DATA_BASE .. DATA_END - 1, Free(p) PROVE TypeOK'
  <2> PICK i \in Least(Holding(p)) :
        /\ table' = [table EXCEPT ![i].state = "FREE"]
        /\ data_used' = Wrap(data_used - table[i].size)
    BY <1>2 DEF Free
  <2>1. i \in Index
    BY DEF Least, Holding
  <2>2. table' \in [Index -> Entry]
    BY <1>t, <2>1 DEF Entry
  <2>3. data_used' \in UInt
    BY <1>t, <2>1, WrapArith
  <2>4. QED
    BY <1>2, <2>2, <2>3, <1>z DEF Free, TypeOK
<1>3. ASSUME MergeStep PROVE TypeOK'
  <2>a. PICK i \in Least(Mergeable) : \E n \in Least(Nearest(i)) : MergeWith(i, n)
    BY <1>3 DEF MergeStep
  <2>b. PICK n \in Least(Nearest(i)) : MergeWith(i, n)
    BY <2>a
  <2>1. i \in Index /\ n \in Index
    BY DEF Least, Mergeable, Nearest
  <2>2. Merged(i, n) \in Entry
    <3>1. Wrap(table[i].size + table[n].size) \in UInt
      BY <1>t, <2>1, WrapArith
    <3>2. QED
      BY <1>t, <2>1, <3>1 DEF Entry, Merged
  <2>3. table' \in [Index -> Entry]
    BY <1>t, <2>b, <2>1, <2>2, UpdateType, DeletedType DEF MergeWith
  <2>4. faults' \subseteq Fault /\ halted' \in BOOLEAN /\ data_used' = data_used
    BY <1>3, <2>b DEF MergeStep, MergeWith, TypeOK, Fault, ValidEntry, ValidPtr
  <2>5. scan' \in Index \cup {Idle, COUNT_MAX}
    BY <2>b, <2>1, HeapAssumption DEF MergeWith, Index
  <2>6. QED
    BY <1>t, <2>3, <2>4, <2>5 DEF TypeOK
<1>4. ASSUME FoldIntoMass PROVE TypeOK'
  <2>a. PICK i \in Least(BelowMass) : FoldBlock(i)
    BY <1>4 DEF FoldIntoMass
  <2>1. i \in Index
    BY DEF Least, BelowMass
  <2>2. Folded(i) \in Entry
    <3>1. Wrap(table[0].size + table[i].size) \in UInt
      BY <1>t, <1>z, <2>1, WrapArith
    <3>2. QED
      BY <1>t, <1>z, <2>1, <3>1 DEF Entry, Folded, Mass
  <2>3. PICK t \in Deleted([table EXCEPT ![0] = Folded(i)], [table EXCEPT ![0] = Folded(i)][i]) :
          table' = IF halted' THEN t ELSE [t EXCEPT ![0].bytes = t[0].size]
    BY <2>a DEF FoldBlock
  <2>4. t \in [Index -> Entry]
    BY <1>t, <1>z, <2>2, UpdateType, DeletedType
  <2>5. table' \in [Index -> Entry]
    BY <2>3, <2>4, <1>z DEF Entry
  <2>6. faults' \subseteq Fault /\ halted' \in BOOLEAN /\ data_used' = data_used /\ scan' = Idle
    BY <1>4, <2>a DEF FoldIntoMass, FoldBlock, TypeOK, Fault, ValidEntry, ValidPtr
  <2>7. QED
    BY <1>t, <2>5, <2>6 DEF TypeOK
<1>5. ASSUME NothingToFold PROVE TypeOK'
  BY <1>5, <1>t, <1>z DEF NothingToFold, TypeOK, Mass, Entry
<1>6. QED
  BY <1>1, <1>2, <1>3, <1>4, <1>5 DEF Next, vars, TypeOK

\* Every field keeps to its C type, through every wrap-around of the code.
THEOREM HeapTyped == Spec => []TypeOK
  BY TypeInit, TypeNext, PTL DEF Spec

-----------------------------------------------------------------------------
(* The blocks partition the region: Shape is inductive.  Each action first *)
(* gets a lemma that says what it does to the table entry by entry.        *)

LEMMA ShapeInit == Init => Shape
<1> SUFFICES ASSUME Init PROVE Shape
  OBVIOUS
<1>1. /\ 0 \in Index
      /\ Mass.ptr = DATA_BASE /\ Mass.size = DATA_END - DATA_BASE
      /\ \A i \in Index \ {0} : table[i] = EMPTY /\ table[i].size = 0
  BY HeapAssumption DEF Init, Mass, Index, EMPTY
<1>2. QED
  BY <1>1, HeapAssumption DEF Shape, Covers, Apart, Mass

\* What the invariants say of one entry, with the types.
LEMMA Entries ==
  ASSUME TypeOK, Shape, Intact
  PROVE  /\ 0 \in Index /\ Index \subseteq Nat
         /\ \A i \in Index :
              /\ table[i].ptr \in Nat /\ table[i].size \in Nat /\ table[i].bytes \in Nat
              /\ table[i].state \in {"FREE", "USED"}
              /\ table[i].ptr + table[i].size =< DATA_END
              /\ table[i].size > 0 => DATA_BASE =< table[i].ptr
              /\ i # 0 /\ table[i].size > 0 => table[i].bytes > 0
              /\ i # 0 /\ table[i].size = 0 => table[i] = EMPTY
         /\ DATA_BASE =< table[0].ptr /\ table[0].ptr + table[0].size = DATA_END
<1>1. 0 \in Index /\ Index \subseteq Nat
  BY HeapAssumption DEF Index
<1>2. \A i \in Index : /\ table[i].ptr \in Nat /\ table[i].size \in Nat
                       /\ table[i].bytes \in Nat /\ table[i].state \in {"FREE", "USED"}
  BY HeapAssumption DEF TypeOK, Entry, UInt
<1>3. DATA_BASE =< table[0].ptr /\ table[0].ptr + table[0].size = DATA_END
  BY DEF Shape, Mass
<1>4. \A i \in Index \ {0} : \/ table[i] = EMPTY
                             \/ /\ DATA_BASE =< table[i].ptr
                                /\ table[i].ptr + table[i].size =< DATA_END
                                /\ table[i].size > 0 /\ table[i].bytes > 0
  BY DEF Shape
<1>5. EMPTY.ptr = 0 /\ EMPTY.size = 0
  BY DEF EMPTY
<1>6. \A i \in Index \ {0} :
        /\ table[i].ptr + table[i].size =< DATA_END
        /\ table[i].size > 0 => DATA_BASE =< table[i].ptr
        /\ table[i].size > 0 => table[i].bytes > 0
        /\ table[i].size = 0 => table[i] = EMPTY
  <2> TAKE i \in Index \ {0}
  <2>1. CASE table[i] = EMPTY
    BY <2>1, <1>5, HeapAssumption
  <2>2. CASE table[i] # EMPTY
    BY <2>2, <1>2, <1>4
  <2>3. QED
    BY <2>1, <2>2
<1>7. \A i \in Index : /\ table[i].ptr + table[i].size =< DATA_END
                       /\ table[i].size > 0 => DATA_BASE =< table[i].ptr
  <2> TAKE i \in Index
  <2>1. CASE i = 0
    BY <2>1, <1>1, <1>2, <1>3, HeapAssumption
  <2>2. CASE i # 0
    BY <2>2, <1>6
  <2>3. QED
    BY <2>1, <2>2
<1>8. QED
  BY <1>1, <1>2, <1>3, <1>6, <1>7

\* Marking an entry USED or FREE, or changing its byte count to a nonzero one, moves no
\* block: Shape only speaks of pointers and sizes.
LEMMA ShapeSamePlaces ==
  ASSUME TypeOK, Shape, Intact, TypeOK',
         \A k \in Index : table'[k].ptr = table[k].ptr /\ table'[k].size = table[k].size,
         \A k \in Index \ {0} : table[k] = EMPTY => table'[k] = EMPTY,
         \A k \in Index \ {0} : table[k].bytes > 0 => table'[k].bytes > 0
  PROVE  Shape'
<1>1. 0 \in Index
  BY Entries
<1>2. (DATA_BASE =< Mass.ptr /\ Mass.ptr + Mass.size = DATA_END)'
  BY <1>1 DEF Shape, Mass
<1>3. \A i \in Index \ {0} :
         \/ table'[i] = EMPTY
         \/ /\ DATA_BASE =< table'[i].ptr /\ table'[i].ptr + table'[i].size =< DATA_END
            /\ table'[i].size > 0 /\ table'[i].bytes > 0
  BY DEF Shape
<1>4. \A i, j \in Index :
         (i # j /\ table'[i].size > 0 /\ table'[j].size > 0) => Apart(table'[i], table'[j])
  BY DEF Shape, Apart
<1>5. \A a \in DATA_BASE .. DATA_END - 1 : \E i \in Index : Covers(i, a)'
  BY DEF Shape, Covers
<1>6. QED
  BY <1>2, <1>3, <1>4, <1>5 DEF Shape

LEMMA ShapeExact ==
  ASSUME TypeOK, TypeOK', Shape, NEW size \in Sizes, AllocateExact(size), Intact
  PROVE  Shape'
<1> PICK i \in Least(ExactFits(size)) :
      table' = [table EXCEPT ![i].state = "USED", ![i].bytes = size]
  BY DEF AllocateExact
<1>1. i \in Index /\ table[i].size = Align(size)
  BY DEF Least, ExactFits
<1>2. size > 0 /\ Align(size) > 0
  BY AlignSize, HeapAssumption DEF UInt
<1>3. table[i] # EMPTY
  BY <1>1, <1>2 DEF EMPTY
<1>4. table \in [Index -> Entry]
  BY DEF TypeOK
<1>5. \A k \in Index : /\ table'[k].ptr = table[k].ptr /\ table'[k].size = table[k].size
                       /\ k # i => table'[k] = table[k]
                       /\ k = i => table'[k].bytes = size
  BY <1>1, <1>4 DEF Entry
<1>6. QED
  BY <1>2, <1>3, <1>5, ShapeSamePlaces

LEMMA ShapeFree ==
  ASSUME TypeOK, TypeOK', Shape, NEW p, Free(p), Intact
  PROVE  Shape'
<1> PICK i \in Least(Holding(p)) : table' = [table EXCEPT ![i].state = "FREE"]
  BY DEF Free
<1>1. i \in Index /\ table[i].size # 0
  BY DEF Least, Holding
<1>2. table[i] # EMPTY
  BY <1>1 DEF EMPTY
<1>3. table \in [Index -> Entry]
  BY DEF TypeOK
<1>4. \A k \in Index : /\ table'[k].ptr = table[k].ptr /\ table'[k].size = table[k].size
                       /\ table'[k].bytes = table[k].bytes
                       /\ k # i => table'[k] = table[k]
  BY <1>1, <1>3 DEF Entry
<1>5. QED
  BY <1>2, <1>4, ShapeSamePlaces

LEMMA ShapeNothingToFold ==
  ASSUME TypeOK, TypeOK', Shape, NothingToFold, Intact
  PROVE  Shape'
<1>1. 0 \in Index /\ table \in [Index -> Entry]
  BY Entries DEF TypeOK
<1>2. \A k \in Index : /\ table'[k].ptr = table[k].ptr /\ table'[k].size = table[k].size
                       /\ k # 0 => table'[k] = table[k]
  BY <1>1 DEF NothingToFold, Mass, Entry
<1>3. QED
  BY <1>2, ShapeSamePlaces

\* A carve that corrupts nothing: the lowest empty entry k takes the bottom of the mass
\* entry, which keeps the rest.
LEMMA CarveEffect ==
  ASSUME TypeOK, Shape, Intact, NEW size \in Sizes, AllocateCarve(size), Intact'
  PROVE  \E k \in Index \ {0} :
           /\ table[k] = EMPTY
           /\ table[0].state = "FREE" /\ Align(size) > 0 /\ Align(size) =< table[0].size
           /\ table'[k] = [ptr |-> table[0].ptr, size |-> Align(size), bytes |-> size,
                           state |-> "USED"]
           /\ table'[0].ptr = table[0].ptr + Align(size)
           /\ table'[0].size = table[0].size - Align(size)
           /\ table'[0].state = "FREE"
           /\ \A j \in Index \ {0, k} : table'[j] = table[j]
<1> DEFINE a      == Align(size)
           mass   == [ptr   |-> Wrap(Mass.ptr + a),      size  |-> Wrap(Mass.size - a),
                      bytes |-> Wrap(Mass.bytes - size), state |-> "FREE"]
           carved == [table EXCEPT ![0] = mass]
           block  == [ptr |-> Wrap(mass.ptr - a), size |-> a, bytes |-> size, state |-> "USED"]
<1>1. a \in UInt /\ a > 0 /\ a \in Nat
  BY AlignSize, HeapAssumption DEF UInt
<1>2. /\ 0 \in Index /\ table \in [Index -> Entry] /\ Mass = table[0]
      /\ Mass.ptr \in Nat /\ Mass.size \in Nat /\ Mass.state \in {"FREE", "USED"}
      /\ DATA_BASE =< Mass.ptr /\ Mass.ptr + Mass.size = DATA_END
  BY Entries DEF TypeOK, Mass
<1>3. a =< Mass.size /\ Mass.state = "FREE"
  <2>1. ~(Mass.size < a) /\ Mass.state # "USED"
    BY DEF AllocateCarve, Intact
  <2>2. QED
    BY <1>1, <1>2, <2>1
<1>4. Mass.ptr + a \in UInt /\ Mass.size - a \in UInt /\ Mass.ptr \in UInt
  BY <1>1, <1>2, <1>3, HeapAssumption DEF UInt
<1>5. mass.ptr = Mass.ptr + a /\ mass.size = Mass.size - a
  BY <1>4, WrapId
<1>6. block.ptr = Mass.ptr
  <2>1. mass.ptr - a = Mass.ptr
    BY <1>5, <1>1, <1>2
  <2>2. QED
    BY <2>1, <1>4, WrapId
<1>7. PICK k \in Least(FreeIndexes(carved)) : table' = [carved EXCEPT ![k] = block]
  BY DEF AllocateCarve, Intact
<1>8. k \in Index /\ carved[k] = EMPTY
  BY <1>7 DEF Least, FreeIndexes
<1>9. k # 0
  <2>1. carved[0] = mass
    BY <1>2
  <2>2. mass.ptr # 0
    BY <1>5, <1>1, <1>2, HeapAssumption
  <2>3. QED
    BY <1>8, <2>1, <2>2 DEF EMPTY
<1>10. table[k] = EMPTY
  BY <1>8, <1>9, <1>2
<1>11. table'[k] = block /\ table'[0] = mass /\ \A j \in Index \ {0, k} : table'[j] = table[j]
  BY <1>2, <1>7, <1>8, <1>9
<1>12. block = [ptr |-> table[0].ptr, size |-> a, bytes |-> size, state |-> "USED"]
  BY <1>6, <1>2
<1>13. QED
  BY <1>1, <1>2, <1>3, <1>5, <1>8, <1>9, <1>10, <1>11, <1>12

LEMMA ShapeCarve ==
  ASSUME TypeOK, TypeOK', Shape, NEW size \in Sizes, AllocateCarve(size), Intact, Intact'
  PROVE  Shape'
<1>2. Align(size) \in Nat /\ size \in Nat /\ size > 0
  BY AlignSize, HeapAssumption DEF UInt
<1>1. PICK a \in Nat, k \in Index \ {0} :
           /\ table[k] = EMPTY /\ table[k].size = 0
           /\ a > 0 /\ a =< table[0].size
           /\ table'[k] = [ptr |-> table[0].ptr, size |-> a, bytes |-> size, state |-> "USED"]
           /\ table'[0].ptr = table[0].ptr + a
           /\ table'[0].size = table[0].size - a
           /\ \A j \in Index \ {0, k} : table'[j] = table[j]
  BY CarveEffect, <1>2 DEF EMPTY
<1>3. /\ 0 \in Index /\ Index \subseteq Nat
      /\ \A i \in Index : /\ table[i].ptr \in Nat /\ table[i].size \in Nat
                           /\ table[i].ptr + table[i].size =< DATA_END
                           /\ table[i].size > 0 => DATA_BASE =< table[i].ptr
      /\ DATA_BASE =< table[0].ptr /\ table[0].ptr + table[0].size = DATA_END
      /\ table[0].ptr \in Nat /\ table[0].size \in Nat
  BY Entries
<1>4. table'[k].ptr = table[0].ptr /\ table'[k].size = a /\ table'[k].bytes = size
  BY <1>1
<1>e. \A i \in Index : /\ table[i].ptr \in Nat /\ table[i].size \in Nat
                       /\ table[i].ptr + table[i].size =< DATA_END
  BY Entries
<1>5. (DATA_BASE =< Mass.ptr /\ Mass.ptr + Mass.size = DATA_END)'
  BY <1>1, <1>2, <1>3, HeapAssumption DEF Mass
<1>6. \A i \in Index \ {0} :
         \/ table'[i] = EMPTY
         \/ /\ DATA_BASE =< table'[i].ptr /\ table'[i].ptr + table'[i].size =< DATA_END
            /\ table'[i].size > 0 /\ table'[i].bytes > 0
  <2> TAKE i \in Index \ {0}
  <2>1. CASE i = k
    BY <2>1, <1>1, <1>2, <1>3, <1>4, HeapAssumption
  <2>2. CASE i # k
    BY <2>2, <1>1 DEF Shape
  <2>3. QED
    BY <2>1, <2>2
<1>7. \A i, j \in Index :
         (i # j /\ table'[i].size > 0 /\ table'[j].size > 0) => Apart(table'[i], table'[j])
  <2> SUFFICES ASSUME NEW i \in Index, NEW j \in Index,
                      i # j, table'[i].size > 0, table'[j].size > 0
               PROVE  Apart(table'[i], table'[j])
    OBVIOUS
  <2>1. \A m \in Index \ {0, k} : table[m].size > 0 =>
           /\ Apart(table[m], table[0]) /\ table[m].ptr + table[m].size =< table[0].ptr
    <3> SUFFICES ASSUME NEW m \in Index \ {0, k}, table[m].size > 0
                 PROVE  Apart(table[m], table[0]) /\ table[m].ptr + table[m].size =< table[0].ptr
      OBVIOUS
    <3>1. m \in Index /\ m # 0 /\ table[0].size > 0
      BY <1>1, <1>3
    <3>2. Apart(table[m], table[0])
      BY <3>1, <1>3 DEF Shape
    <3>3. table[m].ptr \in Nat /\ table[m].size \in Nat /\ table[m].ptr + table[m].size =< DATA_END
      BY <3>1, <1>e
    <3>4. ~(table[0].ptr + table[0].size =< table[m].ptr)
      <4>1. table[0].ptr + table[0].size = DATA_END
        BY <1>3
      <4>2. QED
        BY <3>3, <4>1, HeapAssumption
    <3>5. QED
      BY <3>2, <3>4 DEF Apart
  <2>2. CASE i \in {0, k} /\ j \in {0, k}
    BY <2>2, <1>1, <1>2, <1>3, <1>4 DEF Apart
  <2>a. \A m \in Index \ {0, k} : table'[m].size > 0 =>
           /\ Apart(table'[m], table'[0]) /\ Apart(table'[0], table'[m])
           /\ Apart(table'[m], table'[k]) /\ Apart(table'[k], table'[m])
    <3> TAKE m \in Index \ {0, k}
    <3> HAVE table'[m].size > 0
    <3>1. table'[m] = table[m] /\ m \in Index
      BY <1>1
    <3>2. table[m].ptr + table[m].size =< table[0].ptr
      BY <2>1, <3>1
    <3>3. table[m].ptr \in Nat /\ table[m].size \in Nat
      BY <3>1, <1>e
    <3>4. /\ table'[0].ptr = table[0].ptr + a /\ table[0].ptr \in Nat
          /\ table'[k].ptr = table[0].ptr
      BY <1>1, <1>3, <1>4
    <3>5. /\ table'[m].ptr + table'[m].size =< table'[0].ptr
          /\ table'[m].ptr + table'[m].size =< table'[k].ptr
      BY <3>1, <3>2, <3>3, <3>4
    <3>6. QED
      BY <3>5 DEF Apart
  <2>3. CASE i \in {0, k} /\ j \notin {0, k}
    BY <2>3, <2>a
  <2>4. CASE i \notin {0, k} /\ j \in {0, k}
    BY <2>4, <2>a
  <2>5. CASE i \notin {0, k} /\ j \notin {0, k}
    BY <2>5, <1>1 DEF Shape
  <2>6. QED
    BY <2>2, <2>3, <2>4, <2>5
<1>8. \A b \in DATA_BASE .. DATA_END - 1 : \E i \in Index : Covers(i, b)'
  <2> TAKE b \in DATA_BASE .. DATA_END - 1
  <2>1. PICK i \in Index : Covers(i, b)
    BY DEF Shape
  <2>2. CASE i = 0
    <3>1. Covers(0, b)' \/ Covers(k, b)'
      BY <2>1, <2>2, <1>1, <1>2, <1>3, <1>4, HeapAssumption DEF Covers
    <3>2. QED
      BY <3>1, <1>3
  <2>3. CASE i = k
    BY <2>1, <2>3, <1>1, <1>3, HeapAssumption DEF Covers, EMPTY
  <2>4. CASE i \notin {0, k}
    BY <2>1, <2>4, <1>1 DEF Covers
  <2>5. QED
    BY <2>2, <2>3, <2>4
<1>9. QED
  BY <1>5, <1>6, <1>7, <1>8 DEF Shape

\* Joining a block to the one above it keeps the partition: both mm_merge_nearest's
\* merging of two blocks and its folding of a block into the mass entry do this.
LEMMA ShapeJoin ==
  ASSUME TypeOK, TypeOK', Shape, Intact,
         NEW x \in Index, NEW n \in Index \ {0}, x # n,
         x = 0 \/ table[x].size > 0,
         table[n].size > 0, table[n].ptr + table[n].size = table[x].ptr,
         table'[x].ptr = table[n].ptr, table'[x].size = table[x].size + table[n].size,
         x = 0 \/ table'[x].bytes > 0,
         table'[n] = EMPTY,
         \A j \in Index \ {x, n} : table'[j] = table[j]
  PROVE  Shape'
<1>1. /\ 0 \in Index /\ n \in Index
      /\ DATA_BASE =< table[0].ptr /\ table[0].ptr + table[0].size = DATA_END
  BY Entries
<1>2. \A i \in Index : /\ table[i].ptr \in Nat /\ table[i].size \in Nat
                       /\ table[i].ptr + table[i].size =< DATA_END
  BY Entries
<1>3. \A i \in Index : table[i].size > 0 => DATA_BASE =< table[i].ptr
  BY Entries
<1>4. /\ table[x].ptr \in Nat /\ table[x].size \in Nat /\ table[x].ptr + table[x].size =< DATA_END
      /\ table[n].ptr \in Nat /\ table[n].size \in Nat /\ DATA_BASE =< table[n].ptr
  BY <1>1, <1>2, <1>3
<1>5. table'[x].ptr + table'[x].size = table[x].ptr + table[x].size
  BY <1>4
<1>6. (DATA_BASE =< Mass.ptr /\ Mass.ptr + Mass.size = DATA_END)'
  <2>1. CASE x = 0
    BY <2>1, <1>1, <1>4, <1>5 DEF Mass
  <2>2. CASE x # 0
    BY <2>2, <1>1 DEF Mass
  <2>3. QED
    BY <2>1, <2>2
<1>7. \A i \in Index \ {0} :
         \/ table'[i] = EMPTY
         \/ /\ DATA_BASE =< table'[i].ptr /\ table'[i].ptr + table'[i].size =< DATA_END
            /\ table'[i].size > 0 /\ table'[i].bytes > 0
  <2> TAKE i \in Index \ {0}
  <2>1. CASE i = x
    BY <2>1, <1>4, <1>5
  <2>2. CASE i = n
    BY <2>2
  <2>3. CASE i \notin {x, n}
    BY <2>3 DEF Shape
  <2>4. QED
    BY <2>1, <2>2, <2>3
<1>8. \A m \in Index \ {x, n} : table[m].size > 0 =>
         \/ table[m].ptr + table[m].size =< table[n].ptr
         \/ table[x].ptr + table[x].size =< table[m].ptr
  <2> TAKE m \in Index \ {x, n}
  <2> HAVE table[m].size > 0
  <2>1. table[m].ptr \in Nat /\ table[m].size \in Nat /\ table[m].ptr + table[m].size =< DATA_END
    BY <1>2
  <2>2. Apart(table[m], table[n])
    BY <1>1 DEF Shape
  <2>3. CASE table[x].size > 0
    <3>1. Apart(table[m], table[x])
      BY <2>3 DEF Shape
    <3>2. QED
      BY <3>1, <2>2, <2>1, <1>4 DEF Apart
  <2>4. CASE x = 0 /\ ~(table[x].size > 0)
    <3>1. table[x].ptr = DATA_END
      BY <2>4, <1>1, <1>4
    <3>2. QED
      BY <3>1, <2>1, <2>2, <2>4, <1>4 DEF Apart
  <2>5. QED
    BY <2>3, <2>4
<1>9. \A m \in Index \ {x, n} : table'[m].size > 0 =>
         Apart(table'[m], table'[x]) /\ Apart(table'[x], table'[m])
  <2> TAKE m \in Index \ {x, n}
  <2> HAVE table'[m].size > 0
  <2>1. table'[m] = table[m]
    OBVIOUS
  <2>2. \/ table'[m].ptr + table'[m].size =< table'[x].ptr
        \/ table'[x].ptr + table'[x].size =< table'[m].ptr
    BY <2>1, <1>5, <1>8
  <2>3. QED
    BY <2>2 DEF Apart
<1>10. \A i, j \in Index :
         (i # j /\ table'[i].size > 0 /\ table'[j].size > 0) => Apart(table'[i], table'[j])
  <2> SUFFICES ASSUME NEW i \in Index, NEW j \in Index,
                      i # j, table'[i].size > 0, table'[j].size > 0
               PROVE  Apart(table'[i], table'[j])
    OBVIOUS
  <2>1. i # n /\ j # n
    BY DEF EMPTY
  <2>2. CASE i = x \/ j = x
    BY <2>1, <2>2, <1>9
  <2>3. CASE i # x /\ j # x
    BY <2>1, <2>3 DEF Shape
  <2>4. QED
    BY <2>2, <2>3
<1>11. \A b \in DATA_BASE .. DATA_END - 1 : \E i \in Index : Covers(i, b)'
  <2> TAKE b \in DATA_BASE .. DATA_END - 1
  <2>1. PICK i \in Index : Covers(i, b)
    BY DEF Shape
  <2>2. CASE i \in {x, n}
    <3>1. Covers(x, b)'
      BY <2>1, <2>2, <1>4, <1>5, HeapAssumption DEF Covers
    <3>2. QED
      BY <3>1
  <2>3. CASE i \notin {x, n}
    BY <2>1, <2>3 DEF Covers
  <2>4. QED
    BY <2>2, <2>3
<1>12. QED
  BY <1>6, <1>7, <1>10, <1>11 DEF Shape

\* Clearing the first entry equal to a block's entry clears that entry: no other entry
\* has a nonempty block at the same place.
LEMMA DeletedSame ==
  ASSUME TypeOK, Shape, Intact, NEW n \in Index \ {0}, table[n].size > 0,
         NEW x \in Index, x # n, NEW e \in Entry, e # table[n],
         ValidEntry(table[n]),
         NEW t \in Deleted([table EXCEPT ![x] = e], table[n])
  PROVE  /\ t[n] = EMPTY /\ t[x] = e
         /\ \A j \in Index \ {x, n} : t[j] = table[j]
         /\ t \in [Index -> Entry]
<1> DEFINE s == [table EXCEPT ![x] = e]
<1>1. table \in [Index -> Entry] /\ s \in [Index -> Entry] /\ s[x] = e
      /\ \A j \in Index \ {x} : s[j] = table[j]
  BY DEF TypeOK
<1>2. PICK k \in Index : s[k] = table[n] /\ t = [s EXCEPT ![k] = EMPTY]
  BY DEF Deleted, Least
<1>3. k # x
  BY <1>1, <1>2
<1>4. k = n
  <2> SUFFICES ASSUME k # n PROVE FALSE
    OBVIOUS
  <2>1. table[k] = table[n]
    BY <1>1, <1>2, <1>3
  <2>2. Apart(table[k], table[n])
    BY <2>1 DEF Shape
  <2>3. table[n].ptr \in Nat /\ table[n].size \in Nat
    BY Entries
  <2>4. QED
    BY <2>1, <2>2, <2>3 DEF Apart
<1>5. t \in [Index -> Entry]
  BY <1>1, DeletedType
<1>6. QED
  BY <1>1, <1>2, <1>3, <1>4, <1>5

\* A merge that corrupts nothing joins entry i to the FREE block n that ends where it starts.
LEMMA MergeEffect ==
  ASSUME TypeOK, Shape, Intact, MergeStep, Intact'
  PROVE  \E i, n \in Index \ {0} :
           /\ i # n /\ table[i].state = "FREE" /\ table[n].state = "FREE"
           /\ table[i].size > 0 /\ table[n].size > 0
           /\ table[n].ptr + table[n].size = table[i].ptr
           /\ table'[i].ptr = table[n].ptr /\ table'[i].size = table[i].size + table[n].size
           /\ table'[i].bytes > 0 /\ table'[i].state = "FREE"
           /\ table'[n] = EMPTY
           /\ \A j \in Index \ {i, n} : table'[j] = table[j]
<1>1. PICK i \in Least(Mergeable) : \E n \in Least(Nearest(i)) : MergeWith(i, n)
  BY DEF MergeStep
<1>2. PICK n \in Least(Nearest(i)) : MergeWith(i, n)
  BY <1>1
<1>3. /\ i \in Index \ {0} /\ n \in Index \ {0} /\ i # n
      /\ table[i].state = "FREE" /\ table[n].state = "FREE"
      /\ table[n].size > 0 /\ ValidPtr(table[i].ptr)
  BY DEF Least, Mergeable, Nearest
<1>4. table[i].size > 0
  <2>1. table[i] # EMPTY
    BY <1>3, HeapAssumption DEF EMPTY, ValidPtr
  <2>2. QED
    BY <2>1, <1>3 DEF Shape
<1>5. table[n].ptr + table[n].size = table[i].ptr
  BY <1>2 DEF MergeWith, Intact
<1>6. /\ table[i].ptr \in Nat /\ table[i].size \in Nat /\ table[n].ptr \in Nat
      /\ table[n].size \in Nat /\ table[i].ptr + table[i].size =< DATA_END
  BY <1>3, Entries
<1>7. table[i].size + table[n].size \in UInt
  BY <1>5, <1>6, HeapAssumption DEF UInt
<1>8. Merged(i, n) = [ptr |-> table[n].ptr, size |-> table[i].size + table[n].size,
                      bytes |-> table[i].size + table[n].size, state |-> "FREE"]
  <2>1. Wrap(table[i].size + table[n].size) = table[i].size + table[n].size
    BY <1>7, WrapId
  <2>2. table[i].ptr > table[n].ptr
    BY <1>3, <1>5, <1>6
  <2>3. QED
    BY <2>1, <2>2 DEF Merged
<1>9. Merged(i, n) \in Entry /\ Merged(i, n) # table[n]
  <2>1. table[n].ptr \in UInt
    BY <1>3 DEF TypeOK, Entry
  <2>2. Merged(i, n).size # table[n].size
    BY <1>4, <1>6, <1>8
  <2>3. QED
    BY <2>1, <2>2, <1>7, <1>8 DEF Entry
<1>10. ValidEntry(table[n]) /\ table' \in Deleted([table EXCEPT ![i] = Merged(i, n)], table[n])
  BY <1>2 DEF MergeWith, Intact
<1>11. /\ table'[n] = EMPTY /\ table'[i] = Merged(i, n)
       /\ \A j \in Index \ {i, n} : table'[j] = table[j]
  BY <1>3, <1>9, <1>10, DeletedSame
<1>12. table'[i].bytes > 0
  BY <1>4, <1>6, <1>8, <1>11
<1>13. QED
  BY <1>3, <1>4, <1>5, <1>8, <1>11, <1>12

LEMMA ShapeMerge ==
  ASSUME TypeOK, TypeOK', Shape, MergeStep, Intact, Intact'
  PROVE  Shape'
  BY MergeEffect, ShapeJoin

\* A fold that corrupts nothing joins the mass entry to the FREE block below it.
LEMMA FoldEffect ==
  ASSUME TypeOK, Shape, Intact, FoldIntoMass, Intact'
  PROVE  \E i \in Index \ {0} :
           /\ table[i].state = "FREE" /\ table[0].state = "FREE"
           /\ table[i].size > 0 /\ table[i].ptr + table[i].size = table[0].ptr
           /\ table'[0].ptr = table[i].ptr /\ table'[0].size = table[0].size + table[i].size
           /\ table'[0].state = "FREE" /\ table'[i] = EMPTY
           /\ \A j \in Index \ {0, i} : table'[j] = table[j]
<1>1. PICK i \in Least(BelowMass) : FoldBlock(i)
  BY DEF FoldIntoMass
<1>2. /\ 0 \in Index /\ DATA_BASE =< table[0].ptr /\ table[0].ptr + table[0].size = DATA_END
      /\ table[0].ptr \in Nat /\ table[0].size \in Nat /\ table[0].state \in {"FREE", "USED"}
  BY Entries
<1>3. /\ i \in Index /\ ValidPtr(table[i].ptr) /\ table[i].state = "FREE"
      /\ Wrap(table[i].ptr + table[i].size) = table[0].ptr
  BY DEF Least, BelowMass, Mass
<1>4. /\ table[i].ptr \in Nat /\ table[i].size \in Nat /\ table[i].bytes \in Nat
      /\ table[i].ptr + table[i].size =< DATA_END
  BY <1>3, Entries
<1>5. table[i].ptr + table[i].size = table[0].ptr
  <2>1. table[i].ptr + table[i].size \in UInt
    BY <1>4, HeapAssumption DEF UInt
  <2>2. QED
    BY <2>1, <1>3, WrapId
<1>6. i # 0
  BY <1>2, <1>3, <1>5 DEF ValidPtr
<1>7. table[i].size > 0 /\ table[i].bytes > 0
  <2>1. table[i] # EMPTY
    BY <1>3, HeapAssumption DEF EMPTY, ValidPtr
  <2>2. QED
    BY <2>1, <1>3, <1>6 DEF Shape
<1>8. Folded(i) = [ptr |-> table[i].ptr, size |-> table[0].size + table[i].size,
                   bytes |-> 0, state |-> "FREE"]
  <2>1. table[0].size + table[i].size \in UInt
    BY <1>2, <1>4, <1>5, HeapAssumption DEF UInt
  <2>2. QED
    BY <2>1, WrapId DEF Folded, Mass
<1>9. Folded(i) \in Entry /\ Folded(i) # table[i]
  <2>1. table[0].size + table[i].size \in UInt /\ 0 \in UInt
    BY <1>2, <1>4, <1>5, HeapAssumption DEF UInt
  <2>2. table[i].ptr \in UInt
    BY <1>3 DEF TypeOK, Entry
  <2>3. QED
    BY <2>1, <2>2, <1>7, <1>8 DEF Entry
<1>10. [table EXCEPT ![0] = Folded(i)][i] = table[i]
  BY <1>3, <1>6 DEF TypeOK
<1>11. /\ ValidEntry(table[i])
       /\ \E u \in Deleted([table EXCEPT ![0] = Folded(i)], table[i]) :
            table' = [u EXCEPT ![0].bytes = u[0].size]
  BY <1>1, <1>10 DEF FoldBlock, Intact
<1>12. PICK u \in Deleted([table EXCEPT ![0] = Folded(i)], table[i]) :
         table' = [u EXCEPT ![0].bytes = u[0].size]
  BY <1>11
<1>13. /\ u[i] = EMPTY /\ u[0] = Folded(i) /\ u \in [Index -> Entry]
       /\ \A j \in Index \ {0, i} : u[j] = table[j]
  BY <1>2, <1>3, <1>6, <1>7, <1>9, <1>11, DeletedSame
<1>14. /\ table'[0].ptr = u[0].ptr /\ table'[0].size = u[0].size /\ table'[0].state = u[0].state
       /\ \A j \in Index \ {0} : table'[j] = u[j]
  BY <1>2, <1>12, <1>13 DEF Entry
<1>15. table[0].state = "FREE"
  BY <1>2 DEF FoldIntoMass, Intact, Mass
<1>16. QED
  BY <1>3, <1>5, <1>6, <1>7, <1>8, <1>13, <1>14, <1>15

LEMMA ShapeFold ==
  ASSUME TypeOK, TypeOK', Shape, FoldIntoMass, Intact, Intact'
  PROVE  Shape'
<1>1. 0 \in Index
  BY Entries
<1>2. QED
  BY <1>1, FoldEffect, ShapeJoin

-----------------------------------------------------------------------------

\* Faults only accumulate, and a machine that has panicked stays halted.
LEMMA IntactBefore ==
  ASSUME TypeOK, Next, Intact'
  PROVE  Intact
  BY DEF Next, Allocate, AllocateTooLarge, AllocateExact, AllocateCarve, Free, MergeStep,
         MergeWith, FoldIntoMass, FoldBlock, NothingToFold, Intact

LEMMA ShapeNext == TypeOK /\ TypeOK' /\ Shape /\ [Next]_vars => Shape'
<1> SUFFICES ASSUME TypeOK, TypeOK', Shape, [Next]_vars, Intact' PROVE Shape'
  BY DEF Shape
<1>1. CASE UNCHANGED vars
  BY <1>1 DEF vars, Shape, Intact, Mass, Covers
<1>2. CASE Next
  <2>1. Intact
    BY <1>2, IntactBefore
  <2>2. ASSUME NEW size \in Sizes, Allocate(size) PROVE Shape'
    <3>1. ~AllocateTooLarge(size)
      BY DEF AllocateTooLarge, Intact
    <3>2. QED
      BY <2>1, <2>2, <3>1, ShapeExact, ShapeCarve DEF Allocate
  <2>3. ASSUME NEW p \in DATA_BASE .. DATA_END - 1, Free(p) PROVE Shape'
    BY <2>1, <2>3, ShapeFree
  <2>4. CASE MergeStep
    BY <2>1, <2>4, ShapeMerge
  <2>5. CASE FoldIntoMass
    BY <2>1, <2>5, ShapeFold
  <2>6. CASE NothingToFold
    BY <2>1, <2>6, ShapeNothingToFold
  <2>7. QED
    BY <1>2, <2>2, <2>3, <2>4, <2>5, <2>6 DEF Next
<1>3. QED
  BY <1>1, <1>2

\* While the three corrupting events have not happened, the entries of the heap table
\* are blocks of the data region and the mass entry is its top.
THEOREM HeapShaped == Spec => []Shape
  BY HeapTyped, ShapeInit, ShapeNext, PTL DEF Spec

\* Two entries never describe the same address while nothing has corrupted the heap.
THEOREM HeapDisjoint == Spec => []NoOverlap
<1>1. TypeOK /\ Shape => NoOverlap
  <2> SUFFICES ASSUME TypeOK, Shape, Intact, NEW i \in Index, NEW j \in Index, i # j,
                      NEW a \in DATA_BASE .. DATA_END - 1, Covers(i, a), Covers(j, a)
               PROVE  FALSE
    BY DEF NoOverlap
  <2>1. /\ table[i].ptr \in Nat /\ table[i].size \in Nat
        /\ table[j].ptr \in Nat /\ table[j].size \in Nat
    BY Entries
  <2>2. table[i].size > 0 /\ table[j].size > 0
    BY <2>1, HeapAssumption DEF Covers
  <2>3. Apart(table[i], table[j])
    BY <2>2 DEF Shape
  <2>4. QED
    BY <2>1, <2>3, HeapAssumption DEF Covers, Apart
<1>2. QED
  BY <1>1, HeapTyped, HeapShaped, PTL

\* Every address of the region is described by an entry while nothing has corrupted the heap.
THEOREM HeapComplete == Spec => []NothingLost
<1>1. Shape => NothingLost
  BY DEF Shape, NothingLost
<1>2. QED
  BY <1>1, HeapShaped, PTL

-----------------------------------------------------------------------------
(* The heap implements the abstract allocator.                             *)

HeldAt(i) == [ptr |-> table[i].ptr, size |-> table[i].size]

\* The held blocks do not change when no entry starts or stops being a held block.
LEMMA HeldUnchanged ==
  ASSUME \A i \in Index : /\ (table'[i].state = "USED") <=> (table[i].state = "USED")
                          /\ table[i].state = "USED" =>
                               table'[i].ptr = table[i].ptr /\ table'[i].size = table[i].size
  PROVE  Held' = Held
<1>1. Held = {HeldAt(i) : i \in {k \in Index : table[k].state = "USED"}}
  BY DEF Held, HeldAt
<1>2. Held' = {HeldAt(i)' : i \in {k \in Index : table'[k].state = "USED"}}
  BY DEF Held, HeldAt
<1>3. {k \in Index : table'[k].state = "USED"} = {k \in Index : table[k].state = "USED"}
  OBVIOUS
<1>4. \A i \in {k \in Index : table[k].state = "USED"} : HeldAt(i)' = HeldAt(i)
  BY DEF HeldAt
<1>5. QED
  BY <1>1, <1>2, <1>3, <1>4

\* One more USED entry is one more held block.
LEMMA HeldGrows ==
  ASSUME NEW k \in Index, table[k].state # "USED", table'[k].state = "USED",
         \A i \in Index \ {k} :
            /\ (table'[i].state = "USED") <=> (table[i].state = "USED")
            /\ table[i].state = "USED" =>
                 table'[i].ptr = table[i].ptr /\ table'[i].size = table[i].size
  PROVE  Held' = Held \cup {HeldAt(k)'}
<1>1. Held = {HeldAt(i) : i \in {j \in Index : table[j].state = "USED"}}
  BY DEF Held, HeldAt
<1>2. Held' = {HeldAt(i)' : i \in {j \in Index : table'[j].state = "USED"}}
  BY DEF Held, HeldAt
<1>3. {j \in Index : table'[j].state = "USED"} = {j \in Index : table[j].state = "USED"} \cup {k}
  OBVIOUS
<1>4. \A i \in {j \in Index : table[j].state = "USED"} : HeldAt(i)' = HeldAt(i)
  BY DEF HeldAt
<1>5. QED
  BY <1>1, <1>2, <1>3, <1>4

LEMMA ExactGrants ==
  ASSUME TypeOK, Shape, Intact, NEW size \in Sizes, AllocateExact(size)
  PROVE  A!Next
<1>1. PICK k \in Least(ExactFits(size)) :
        table' = [table EXCEPT ![k].state = "USED", ![k].bytes = size]
  BY DEF AllocateExact
<1>2. k \in Index /\ table[k].size = Align(size) /\ table[k].state = "FREE"
  BY DEF Least, ExactFits
<1>3. Align(size) > 0
  BY AlignSize
<1>4. table \in [Index -> Entry]
  BY DEF TypeOK
<1>5. /\ table'[k].state = "USED" /\ table'[k].ptr = table[k].ptr /\ table'[k].size = table[k].size
      /\ \A i \in Index \ {k} : table'[i] = table[i]
  BY <1>1, <1>2, <1>4 DEF Entry
<1>6. /\ table[k].ptr \in Nat /\ table[k].size \in Nat /\ DATA_BASE =< table[k].ptr
      /\ table[k].ptr + table[k].size =< DATA_END
  BY <1>2, <1>3, Entries
<1>7. HeldAt(k)' = HeldAt(k)
  BY <1>5 DEF HeldAt
<1>8. Held' = Held \cup {HeldAt(k)}
  BY <1>2, <1>5, <1>7, HeldGrows
<1>9. HeldAt(k) \in A!Block /\ A!Within(HeldAt(k))
  BY <1>2, <1>3, <1>6, HeapAssumption DEF A!Block, A!Within, HeldAt
<1>10. \A c \in Held : A!Apart(HeldAt(k), c)
  <2> TAKE c \in Held
  <2>1. PICK i \in Index : table[i].state = "USED" /\ c = HeldAt(i)
    BY DEF Held, HeldAt
  <2>2. table[i].ptr \in Nat /\ table[i].size \in Nat
    BY Entries
  <2>3. CASE table[i].size > 0
    <3>1. Apart(table[k], table[i])
      BY <1>2, <1>3, <2>1, <2>3 DEF Shape
    <3>2. QED
      BY <2>1, <3>1 DEF Apart, A!Apart, HeldAt
  <2>4. CASE table[i].size = 0
    <3>1. i = 0
      BY <2>1, <2>4, Entries DEF EMPTY
    <3>2. table[i].ptr = DATA_END
      BY <3>1, <2>4, <2>2, Entries
    <3>3. QED
      BY <3>2, <2>1, <1>6 DEF A!Apart, HeldAt
  <2>5. QED
    BY <2>2, <2>3, <2>4
<1>11. A!Grant(HeldAt(k))
  BY <1>8, <1>9, <1>10 DEF A!Grant
<1>12. QED
  BY <1>9, <1>11 DEF A!Next

LEMMA CarveGrants ==
  ASSUME TypeOK, Shape, Intact, NEW size \in Sizes, AllocateCarve(size), Intact'
  PROVE  A!Next
<1>1. Align(size) \in Nat
  BY AlignSize, HeapAssumption DEF UInt
<1>a. PICK k \in Index \ {0} :
           /\ table[k] = EMPTY
           /\ table[0].state = "FREE" /\ Align(size) > 0 /\ Align(size) =< table[0].size
           /\ table'[k] = [ptr |-> table[0].ptr, size |-> Align(size), bytes |-> size,
                           state |-> "USED"]
           /\ table'[0].state = "FREE"
           /\ \A j \in Index \ {0, k} : table'[j] = table[j]
  BY CarveEffect
<1>2. PICK a \in Nat :
           /\ table[k] = EMPTY
           /\ table[0].state = "FREE" /\ a > 0 /\ a =< table[0].size
           /\ table'[k].ptr = table[0].ptr /\ table'[k].size = a /\ table'[k].state = "USED"
           /\ table'[0].state = "FREE"
           /\ \A j \in Index \ {0, k} : table'[j] = table[j]
  BY <1>1, <1>a
<1>3. /\ 0 \in Index /\ table[0].ptr \in Nat /\ table[0].size \in Nat
      /\ DATA_BASE =< table[0].ptr /\ table[0].ptr + table[0].size = DATA_END
  BY Entries
<1>4. HeldAt(k)' = [ptr |-> table[0].ptr, size |-> a]
  BY <1>2 DEF HeldAt
<1>5. Held' = Held \cup {HeldAt(k)'}
  <2>1. table[k].state # "USED"
    BY <1>2 DEF EMPTY
  <2>2. QED
    BY <2>1, <1>2, HeldGrows
<1>6. HeldAt(k)' \in A!Block /\ A!Within(HeldAt(k)')
  BY <1>2, <1>3, <1>4, HeapAssumption DEF A!Block, A!Within
<1>7. \A c \in Held : A!Apart(HeldAt(k)', c)
  <2> TAKE c \in Held
  <2>1. PICK i \in Index : table[i].state = "USED" /\ c = HeldAt(i)
    BY DEF Held, HeldAt
  <2>2. i # 0 /\ table[i].size > 0
    BY <1>2, <2>1, Entries DEF EMPTY
  <2>3. /\ table[i].ptr \in Nat /\ table[i].size \in Nat
        /\ table[i].ptr + table[i].size =< DATA_END
    BY Entries
  <2>4. Apart(table[i], table[0])
    BY <1>2, <1>3, <2>2 DEF Shape
  <2>5. table[i].ptr + table[i].size =< table[0].ptr
    BY <1>3, <2>2, <2>3, <2>4 DEF Apart
  <2>6. QED
    BY <2>1, <2>5, <1>4 DEF A!Apart, HeldAt
<1>8. A!Grant(HeldAt(k)')
  BY <1>5, <1>6, <1>7 DEF A!Grant
<1>9. QED
  BY <1>6, <1>8 DEF A!Next

LEMMA FreeReleases ==
  ASSUME TypeOK, Shape, Intact, NEW p, Free(p)
  PROVE  A!Next
<1>1. PICK k \in Least(Holding(p)) : table' = [table EXCEPT ![k].state = "FREE"]
  BY DEF Free
<1>2. k \in Index /\ table[k].size # 0 /\ table[k].state = "USED"
  BY DEF Least, Holding
<1>3. /\ table[k].ptr \in Nat /\ table[k].size \in Nat /\ table[k].size > 0
      /\ DATA_BASE =< table[k].ptr /\ table[k].ptr + table[k].size =< DATA_END
  BY <1>2, Entries
<1>4. table \in [Index -> Entry]
  BY DEF TypeOK
<1>5. /\ table'[k].state = "FREE"
      /\ \A i \in Index \ {k} : table'[i] = table[i]
  BY <1>1, <1>2, <1>4 DEF Entry
<1>6. \A i \in Index \ {k} : table[i].state = "USED" => HeldAt(i) # HeldAt(k)
  <2> TAKE i \in Index \ {k}
  <2> SUFFICES ASSUME HeldAt(i) = HeldAt(k) PROVE FALSE
    OBVIOUS
  <2>1. table[i].ptr = table[k].ptr /\ table[i].size = table[k].size
    BY DEF HeldAt
  <2>2. Apart(table[i], table[k])
    BY <1>2, <1>3, <2>1 DEF Shape
  <2>3. QED
    BY <1>3, <2>1, <2>2 DEF Apart
<1>7. Held' = Held \ {HeldAt(k)}
  <2>1. Held = {HeldAt(i) : i \in {j \in Index : table[j].state = "USED"}}
    BY DEF Held, HeldAt
  <2>2. Held' = {HeldAt(i)' : i \in {j \in Index : table'[j].state = "USED"}}
    BY DEF Held, HeldAt
  <2>3. {j \in Index : table'[j].state = "USED"} = {j \in Index : table[j].state = "USED"} \ {k}
    BY <1>5
  <2>4. \A i \in Index \ {k} : HeldAt(i)' = HeldAt(i)
    BY <1>5 DEF HeldAt
  <2>5. QED
    BY <1>2, <1>6, <2>1, <2>2, <2>3, <2>4
<1>8. HeldAt(k) \in Held
  BY <1>2 DEF Held, HeldAt
<1>9. HeldAt(k) \in A!Block
  BY <1>2, <1>3, HeapAssumption DEF A!Block, HeldAt
<1>10. A!Release(HeldAt(k))
  BY <1>7, <1>8 DEF A!Release
<1>11. QED
  BY <1>9, <1>10 DEF A!Next

\* A panic in an uncorrupted heap leaves the held blocks alone.
LEMMA PanicHolds ==
  ASSUME TypeOK, Shape, Intact, Next, halted', faults' = {}
  PROVE  Held' = Held \/ (A!Next /\ scan = Idle)
<1>1. ASSUME NEW size \in Sizes, AllocateTooLarge(size) PROVE Held' = Held
  BY <1>1 DEF AllocateTooLarge, Held
<1>2. ASSUME NEW size \in Sizes, AllocateExact(size) PROVE A!Next
  BY <1>2, ExactGrants
<1>3. ASSUME NEW size \in Sizes, AllocateCarve(size) PROVE Held' = Held
  <2> DEFINE mass   == [ptr   |-> Wrap(Mass.ptr + Align(size)),
                        size  |-> Wrap(Mass.size - Align(size)),
                        bytes |-> Wrap(Mass.bytes - size), state |-> "FREE"]
             carved == [table EXCEPT ![0] = mass]
             block  == [ptr |-> Wrap(mass.ptr - Align(size)), size |-> Align(size),
                        bytes |-> size, state |-> "USED"]
  <2>1. /\ 0 \in Index /\ Mass.ptr \in Nat /\ Mass.size \in Nat /\ Mass = table[0]
        /\ DATA_BASE =< Mass.ptr /\ Mass.ptr + Mass.size = DATA_END
        /\ table[0].state \in {"FREE", "USED"} /\ table \in [Index -> Entry]
    BY Entries DEF Mass, TypeOK
  <2>2. Align(size) \in Nat /\ Align(size) > 0
    BY AlignSize, HeapAssumption DEF UInt
  <2>3. Align(size) =< Mass.size /\ table[0].state = "FREE"
    <3>1. ~(Mass.size < Align(size)) /\ Mass.state # "USED"
      BY <1>3 DEF AllocateCarve
    <3>2. QED
      BY <3>1, <2>1, <2>2
  <2>4. ValidEntry(block)
    <3>1. Mass.ptr + Align(size) \in UInt /\ Mass.ptr \in UInt
      BY <2>1, <2>2, <2>3, HeapAssumption DEF UInt
    <3>2. mass.ptr - Align(size) = Mass.ptr
      BY <3>1, <2>1, <2>2, WrapId
    <3>3. block.ptr = Mass.ptr
      BY <3>1, <3>2, WrapId
    <3>4. QED
      BY <3>3, <2>1, <2>2, <2>3, HeapAssumption DEF ValidEntry, ValidPtr
  <2>5. table' = carved
    BY <1>3, <2>4 DEF AllocateCarve
  <2>6. table'[0].state = "FREE" /\ \A j \in Index \ {0} : table'[j] = table[j]
    BY <2>1, <2>5
  <2>7. QED
    BY <2>3, <2>6, HeldUnchanged
<1>4. ~(\E p \in DATA_BASE .. DATA_END - 1 : Free(p)) /\ ~NothingToFold
  BY DEF Free, NothingToFold
<1>5. ~MergeStep
  <2> SUFFICES ASSUME MergeStep PROVE FALSE
    OBVIOUS
  <2>1. PICK i \in Least(Mergeable) : \E n \in Least(Nearest(i)) : MergeWith(i, n)
    BY DEF MergeStep
  <2>2. PICK n \in Least(Nearest(i)) : MergeWith(i, n)
    BY <2>1
  <2>3. n \in Index /\ table[n].size > 0
    BY DEF Least, Nearest
  <2>4. ValidEntry(table[n])
    BY <2>3, Entries, HeapAssumption DEF ValidEntry, ValidPtr
  <2>5. QED
    BY <2>2, <2>4 DEF MergeWith
<1>6. ~FoldIntoMass
  <2> SUFFICES ASSUME FoldIntoMass PROVE FALSE
    OBVIOUS
  <2>1. PICK i \in Least(BelowMass) : FoldBlock(i)
    BY DEF FoldIntoMass
  <2>2. /\ i \in Index /\ ValidPtr(table[i].ptr)
        /\ Wrap(table[i].ptr + table[i].size) = table[0].ptr
    BY DEF Least, BelowMass, Mass
  <2>3. /\ table[i].ptr \in Nat /\ table[i].size \in Nat
        /\ table[i].ptr + table[i].size =< DATA_END
        /\ table[0].ptr + table[0].size = DATA_END
    BY <2>2, Entries
  <2>4. table[i].ptr + table[i].size = table[0].ptr
    BY <2>2, <2>3, WrapId, HeapAssumption DEF UInt
  <2>5. i # 0
    BY <2>2, <2>3, <2>4 DEF ValidPtr
  <2>6. table[i] # EMPTY
    BY <2>2, HeapAssumption DEF EMPTY, ValidPtr
  <2>7. table[i].size > 0
    BY <2>2, <2>5, <2>6 DEF Shape
  <2>8. [table EXCEPT ![0] = Folded(i)][i] = table[i]
    BY <2>2, <2>5 DEF TypeOK
  <2>9. ValidEntry(table[i])
    BY <2>2, <2>3, <2>7 DEF ValidEntry
  <2>10. QED
    BY <2>1, <2>8, <2>9 DEF FoldBlock
<1>7. QED
  BY <1>1, <1>2, <1>3, <1>4, <1>5, <1>6 DEF Next, Allocate

LEMMA RefinementStep ==
  TypeOK /\ Shape /\ [Next /\ faults' = {}]_vars => (A!Next /\ scan = Idle) \/ Held' = Held
<1> SUFFICES ASSUME TypeOK, Shape, [Next /\ faults' = {}]_vars
             PROVE  (A!Next /\ scan = Idle) \/ Held' = Held
  OBVIOUS
<1>1. CASE UNCHANGED vars
  BY <1>1 DEF vars, Held
<1>2. CASE Next /\ faults' = {}
  <2>1. Intact
    BY <1>2 DEF Next, Allocate, AllocateTooLarge, AllocateExact, AllocateCarve, Free, MergeStep,
         MergeWith, FoldIntoMass, FoldBlock, NothingToFold, Intact
  <2>2. CASE halted'
    BY <1>2, <2>1, <2>2, PanicHolds
  <2>3. CASE ~halted'
    <3>1. Intact'
      BY <1>2, <2>3 DEF Intact
    <3>2. ASSUME NEW size \in Sizes, Allocate(size) PROVE A!Next /\ scan = Idle
      <4>1. ~AllocateTooLarge(size)
        BY <3>1 DEF AllocateTooLarge, Intact
      <4>2. QED
        BY <2>1, <3>1, <3>2, <4>1, ExactGrants, CarveGrants DEF Allocate
    <3>3. ASSUME NEW p \in DATA_BASE .. DATA_END - 1, Free(p) PROVE A!Next /\ scan = Idle
      BY <2>1, <3>3, FreeReleases DEF Free
    <3>4. CASE MergeStep
      <4>1. PICK i \in Index \ {0}, n \in Index \ {0} :
              /\ table[i].state = "FREE" /\ table[n].state = "FREE"
              /\ table'[i].state = "FREE" /\ table'[n] = EMPTY
              /\ \A j \in Index \ {i, n} : table'[j] = table[j]
        BY <2>1, <3>1, <3>4, MergeEffect
      <4>2. QED
        BY <4>1, HeldUnchanged DEF EMPTY
    <3>5. CASE FoldIntoMass
      <4>1. PICK i \in Index \ {0} :
              /\ table[i].state = "FREE" /\ table[0].state = "FREE"
              /\ table'[0].state = "FREE" /\ table'[i] = EMPTY
              /\ \A j \in Index \ {0, i} : table'[j] = table[j]
        BY <2>1, <3>1, <3>5, FoldEffect
      <4>2. QED
        BY <4>1, HeldUnchanged DEF EMPTY
    <3>6. CASE NothingToFold
      <4>1. table \in [Index -> Entry] /\ 0 \in Index
        BY <2>1, Entries DEF TypeOK
      <4>2. \A i \in Index : /\ table'[i].state = table[i].state
                             /\ table'[i].ptr = table[i].ptr /\ table'[i].size = table[i].size
        BY <3>6, <4>1 DEF NothingToFold, Mass, Entry
      <4>3. QED
        BY <4>2, HeldUnchanged
    <3>7. QED
      BY <1>2, <3>2, <3>3, <3>4, <3>5, <3>6 DEF Next
  <2>4. QED
    BY <2>2, <2>3
<1>3. QED
  BY <1>1, <1>2

\* As long as nothing corrupts it, the heap is an abstract allocator: memory is granted
\* only where nobody holds any, and a held block moves, shrinks or disappears only by
\* mm_free.
THEOREM HeapRefines == SafeSpec => Refinement
<1>1. Init => A!Init
  <2> SUFFICES ASSUME Init PROVE Held = {}
    BY DEF A!Init
  <2>1. \A i \in Index : table[i].state = "FREE"
    BY DEF Init, EMPTY
  <2>2. QED
    BY <2>1 DEF Held
<1>2. [Next /\ faults' = {}]_vars => [Next]_vars
  OBVIOUS
<1>3. SafeSpec => Spec
  BY <1>2, PTL DEF SafeSpec, Spec
<1>4. TypeOK /\ Shape /\ [Next /\ faults' = {}]_vars => [A!Next]_Held
  BY RefinementStep
<1>5. QED
  BY <1>1, <1>3, <1>4, HeapTyped, HeapShaped, PTL DEF SafeSpec, Refinement, A!Spec

\* The same promise over all executions, up to and including the last step before the
\* first corrupting event.
THEOREM HeapKeepsPromise == Spec => AllocatorPromise
<1>1. TypeOK /\ Shape /\ [Next]_vars => [faults' = {} => (A!Next /\ scan = Idle) \/ Held' = Held]_vars
  BY RefinementStep
<1>2. QED
  BY <1>1, HeapTyped, HeapShaped, PTL DEF Spec, AllocatorPromise


-----------------------------------------------------------------------------
(* The heap's account.  A sum over the table is the number of bytes its    *)
(* entries have, so that it can be taken apart entry by entry.             *)

\* The bytes of the entries in T, each its entry's index and a number of its own; a value
\* of F is an entry's size.
Bytes(F, T) == {b \in T \X (1 .. UINT) : b[2] =< F[b[1]]}
Volume(F, T) == Cardinality(Bytes(F, T))

LEMMA IndexFinite == IsFiniteSet(Index)
  BY HeapAssumption, FS_Interval DEF Index

LEMMA VolumeNat ==
  ASSUME NEW F, NEW T \in SUBSET Index
  PROVE  IsFiniteSet(Bytes(F, T)) /\ Volume(F, T) \in Nat
<1>1. IsFiniteSet(T)
  BY IndexFinite, FS_Subset
<1>2. IsFiniteSet(1 .. UINT)
  BY HeapAssumption, FS_Interval
<1>3. IsFiniteSet(T \X (1 .. UINT))
  BY <1>1, <1>2, FS_Product
<1>4. IsFiniteSet(Bytes(F, T))
  BY <1>3, FS_Subset DEF Bytes
<1>5. QED
  BY <1>4, FS_CardinalityType DEF Volume

LEMMA VolumePick ==
  ASSUME NEW F, NEW T \in SUBSET Index, NEW i \in T, F[i] \in UInt
  PROVE  Volume(F, T) = F[i] + Volume(F, T \ {i})
<1> DEFINE own == {i} \X (1 .. F[i])
<1>1. Bytes(F, T) = own \cup Bytes(F, T \ {i})
  BY HeapAssumption DEF Bytes, UInt
<1>2. own \cap Bytes(F, T \ {i}) = {}
  BY DEF Bytes
<1>3. IsFiniteSet(own) /\ Cardinality(own) = F[i]
  <2>1. IsFiniteSet(1 .. F[i]) /\ Cardinality(1 .. F[i]) = F[i]
    BY FS_Interval DEF UInt
  <2>2. [n \in 1 .. F[i] |-> <<i, n>>] \in Bijection(1 .. F[i], own)
    BY DEF Bijection, Injection, Surjection, IsInjective
  <2>3. ExistsBijection(1 .. F[i], own)
    BY <2>2 DEF ExistsBijection
  <2>4. QED
    BY <2>1, <2>3, FS_Bijection
<1>4. IsFiniteSet(Bytes(F, T \ {i})) /\ Volume(F, T \ {i}) \in Nat
  BY VolumeNat
<1>5. Cardinality(own \cup Bytes(F, T \ {i})) = Cardinality(own) + Volume(F, T \ {i}) - 0
  <2> DEFINE rest == Bytes(F, T \ {i})
  <2>1. Cardinality(own \cap rest) = 0
    BY <1>2, FS_EmptySet
  <2>2. IsFiniteSet(rest) /\ Volume(F, T \ {i}) = Cardinality(rest)
    BY <1>4 DEF Volume
  <2> HIDE DEF own, rest
  <2>3. Cardinality(own \cup rest) = Cardinality(own) + Cardinality(rest) - Cardinality(own \cap rest)
    BY <1>3, <2>2, FS_Union
  <2>4. QED
    BY <2>1, <2>2, <2>3 DEF rest
<1>6. F[i] \in Int /\ Volume(F, T) = Cardinality(own) + Volume(F, T \ {i}) - 0
  BY <1>1, <1>5 DEF Volume, UInt
<1>7. QED
  BY <1>3, <1>4, <1>6

\* A change of one value changes the volume by as much.
LEMMA VolumeMoves ==
  ASSUME NEW F, NEW G, NEW k \in Index, F[k] \in UInt, G[k] \in UInt,
         \A i \in Index \ {k} : F[i] = G[i]
  PROVE  /\ Volume(G, Index) = Volume(F, Index) + (G[k] - F[k])
         /\ Volume(F, Index) \in Nat /\ Volume(G, Index) \in Nat
<1>1. /\ Volume(F, Index) = F[k] + Volume(F, Index \ {k})
      /\ Volume(G, Index) = G[k] + Volume(G, Index \ {k})
  BY VolumePick
<1>2. Volume(F, Index \ {k}) = Volume(G, Index \ {k})
  <2>1. Bytes(F, Index \ {k}) = Bytes(G, Index \ {k})
    BY DEF Bytes
  <2>2. QED
    BY <2>1 DEF Volume
<1>3. Volume(F, Index \ {k}) \in Nat /\ Volume(F, Index) \in Nat /\ Volume(G, Index) \in Nat
  BY VolumeNat
<1>4. F[k] \in Int /\ G[k] \in Int
  BY DEF UInt
<1>5. QED
  BY <1>1, <1>2, <1>3, <1>4

\* The sum over a set of entries is their volume.
LEMMA SumIsVolume ==
  ASSUME NEW t \in [Index -> Entry], NEW S \in SUBSET Index
  PROVE  MapThenSumSet(LAMBDA i : t[i].size, S) = Volume([i \in Index |-> t[i].size], S)
<1> DEFINE F == [i \in Index |-> t[i].size]
           iter[s \in SUBSET S] ==
             IF s = {} THEN 0
             ELSE LET x == CHOOSE x \in s : TRUE IN t[x].size + iter[s \ {x}]
           v == [s \in SUBSET S |-> Volume(F, s)]
<1>1. v = [s \in SUBSET S |->
             IF s = {} THEN 0
             ELSE LET x == CHOOSE x \in s : TRUE IN t[x].size + v[s \ {x}]]
  <2> SUFFICES ASSUME NEW s \in SUBSET S
               PROVE  Volume(F, s) = IF s = {} THEN 0
                        ELSE LET x == CHOOSE x \in s : TRUE IN t[x].size + v[s \ {x}]
    OBVIOUS
  <2>1. CASE s = {}
    BY <2>1, FS_EmptySet DEF Volume, Bytes
  <2>2. CASE s # {}
    <3> DEFINE x == CHOOSE x \in s : TRUE
    <3>1. x \in s
      BY <2>2
    <3> HIDE DEF x
    <3>2. F[x] = t[x].size /\ F[x] \in UInt
      BY <3>1 DEF Entry
    <3>3. v[s \ {x}] = Volume(F, s \ {x})
      OBVIOUS
    <3>4. Volume(F, s) = t[x].size + v[s \ {x}]
      BY <3>1, <3>2, <3>3, VolumePick
    <3>5. QED
      BY <2>2, <3>4 DEF x
  <2>3. QED
    BY <2>1, <2>2
<1>2. iter = [s \in SUBSET S |->
             IF s = {} THEN 0
             ELSE LET x == CHOOSE x \in s : TRUE IN t[x].size + iter[s \ {x}]]
  BY <1>1
<1> HIDE DEF iter, v
<1>3. MapThenSumSet(LAMBDA i : t[i].size, S) = iter[S]
  BY DEF MapThenSumSet, MapThenFoldSet, iter
<1>4. iter[S] = v[S]
  <2> DEFINE Wrong == {s \in SUBSET S : iter[s] # v[s]}
  <2>1. SUFFICES ASSUME Wrong # {} PROVE FALSE
    OBVIOUS
  <2>2. IsFiniteSet(S)
    BY IndexFinite, FS_Subset
  <2>3. Wrong \subseteq FiniteSubsetsOf(S)
    BY <2>2, FS_Subset DEF FiniteSubsetsOf
  <2>4. PICK s \in Wrong : \A r \in Wrong : <<r, s>> \notin StrictSubsetOrdering(S)
    <3> HIDE DEF Wrong
    <3>1. QED
      BY <2>1, <2>3, FS_StrictSubsetOrderingWellFounded, WFMin
  <2>9. s \in SUBSET S /\ iter[s] # v[s]
    OBVIOUS
  <2> HIDE DEF Wrong
  <2>5. s # {}
    <3>1. ASSUME s = {} PROVE iter[s] = 0 /\ v[s] = 0
      BY <1>1, <1>2, <2>9, <3>1
    <3>2. QED
      BY <2>9, <3>1
  <2> DEFINE x == CHOOSE x \in s : TRUE
  <2>6. x \in s
    BY <2>5
  <2>7. s \ {x} \notin Wrong
    BY ZenonT(30), <2>4, <2>6, <2>9 DEF StrictSubsetOrdering
  <2>8. iter[s \ {x}] = v[s \ {x}]
    BY <2>7, <2>9 DEF Wrong
  <2>10. iter[s] = t[x].size + iter[s \ {x}]
    BY <1>2, <2>5, <2>9
  <2>11. v[s] = t[x].size + v[s \ {x}]
    BY <1>1, <2>5, <2>9
  <2>12. QED
    BY <2>8, <2>9, <2>10, <2>11
<1>5. QED
  BY <1>3, <1>4 DEF v

-----------------------------------------------------------------------------
\* What an entry adds to the account, and the account of a table.
Part(e)   == IF e.state = "USED" THEN e.size ELSE 0
Parts(t)  == [i \in Index |-> Part(t[i])]
Amount(t) == Volume(Parts(t), Index)

LEMMA PartUInt ==
  ASSUME NEW t \in [Index -> Entry], NEW i \in Index
  PROVE  Part(t[i]) \in UInt /\ Parts(t)[i] = Part(t[i])
  BY HeapAssumption DEF Part, Parts, Entry, UInt

LEMMA SumIsAmount ==
  ASSUME NEW t \in [Index -> Entry]
  PROVE  /\ Amount(t) \in Nat
         /\ MapThenSumSet(LAMBDA i : t[i].size, {i \in Index : t[i].state = "USED"}) = Amount(t)
<1> DEFINE S == {i \in Index : t[i].state = "USED"}
           F == [i \in Index |-> t[i].size]
<1>1. MapThenSumSet(LAMBDA i : t[i].size, S) = Volume(F, S)
  <2> HIDE DEF S
  <2>1. S \in SUBSET Index
    BY DEF S
  <2>2. QED
    BY <2>1, SumIsVolume
<1>2. Bytes(F, S) = Bytes(Parts(t), Index)
  <2>1. \A i \in Index, n \in 1 .. UINT : (i \in S /\ n =< F[i]) <=> n =< Parts(t)[i]
    <3> TAKE i \in Index, n \in 1 .. UINT
    <3>1. n > 0
      OBVIOUS
    <3>2. CASE t[i].state = "USED"
      BY <3>2 DEF Parts, Part
    <3>3. CASE t[i].state # "USED"
      BY <3>1, <3>3 DEF Parts, Part
    <3>4. QED
      BY <3>2, <3>3
  <2>2. QED
    BY <2>1 DEF Bytes
<1>3. Amount(t) \in Nat
  BY VolumeNat DEF Amount
<1>4. QED
  BY <1>1, <1>2, <1>3 DEF Amount, Volume

\* A step that changes what one entry adds changes the account by as much.
LEMMA AmountMoves ==
  ASSUME NEW t \in [Index -> Entry], NEW u \in [Index -> Entry], NEW k \in Index,
         \A i \in Index \ {k} : Part(u[i]) = Part(t[i])
  PROVE  Amount(u) = Amount(t) + (Part(u[k]) - Part(t[k]))
<1>1. /\ Parts(t)[k] = Part(t[k]) /\ Parts(u)[k] = Part(u[k])
      /\ Part(t[k]) \in UInt /\ Part(u[k]) \in UInt
  BY PartUInt
<1>2. \A i \in Index \ {k} : Parts(t)[i] = Parts(u)[i]
  BY PartUInt
<1>3. Volume(Parts(u), Index) = Volume(Parts(t), Index) + (Parts(u)[k] - Parts(t)[k])
  BY <1>1, <1>2, VolumeMoves
<1>4. QED
  BY <1>1, <1>3 DEF Amount

LEMMA AmountKept ==
  ASSUME NEW t \in [Index -> Entry], NEW u \in [Index -> Entry],
         \A i \in Index : Part(u[i]) = Part(t[i])
  PROVE  Amount(u) = Amount(t)
<1>1. Parts(u) = Parts(t)
  BY DEF Parts
<1>2. QED
  BY <1>1 DEF Amount

\* Clearing an entry equal to a FREE one takes nothing from the account.
LEMMA DeletedPart ==
  ASSUME NEW t \in [Index -> Entry], NEW e \in Entry, e.state = "FREE", NEW u \in Deleted(t, e)
  PROVE  u \in [Index -> Entry] /\ \A i \in Index : Part(u[i]) = Part(t[i])
<1>1. u \in [Index -> Entry]
  BY DeletedType
<1>2. u = t \/ \E k \in Index : t[k] = e /\ u = [t EXCEPT ![k] = EMPTY]
  BY DEF Deleted, Least
<1>3. QED
  BY <1>1, <1>2 DEF Part, EMPTY

\* data_used counts what is held and k more, which is 0 between the calls.
Counting     == ~halted /\ "mass_used" \notin faults
Accounted(k) == Counting => data_used = Wrap(Amount(table) + k)

LEMMA AccountInit == Init => Accounted(0)
<1> SUFFICES ASSUME Init PROVE data_used = Wrap(Amount(table) + 0)
  BY DEF Accounted
<1>1. Bytes(Parts(table), Index) = {}
  <2>1. \A i \in Index : Parts(table)[i] = 0
    BY DEF Init, EMPTY, Parts, Part
  <2>2. QED
    BY <2>1 DEF Bytes
<1>2. Amount(table) = 0
  BY <1>1, FS_EmptySet DEF Amount, Volume
<1>3. Wrap(0) = 0
  BY WrapId, HeapAssumption DEF UInt
<1>4. QED
  BY <1>2, <1>3 DEF Init

\* One entry changed what it adds, and data_used was changed by as much.
LEMMA AccountMoves ==
  ASSUME TypeOK, TypeOK', NEW owed \in Int, Accounted(owed), Counting, NEW k \in Index,
         \A i \in Index \ {k} : Part(table'[i]) = Part(table[i]),
         NEW d \in Int, d = Part(table'[k]) - Part(table[k]),
         data_used' = Wrap(data_used + d)
  PROVE  Accounted(owed)'
<1>1. table \in [Index -> Entry] /\ table' \in [Index -> Entry]
  BY DEF TypeOK
<1>2. Amount(table') = Amount(table) + d /\ Amount(table) \in Int
  <2>1. Amount(table') = Amount(table) + (Part(table'[k]) - Part(table[k]))
    BY <1>1, AmountMoves
  <2>2. Amount(table) \in Int
    BY VolumeNat DEF Amount
  <2>3. QED
    BY <2>1, <2>2
<1>3. data_used' = Wrap(Wrap(Amount(table) + owed) + d)
  BY DEF Accounted
<1>4. data_used' = Wrap((Amount(table) + d) + owed)
  <2>1. Wrap(Wrap(Amount(table) + owed) + d) = Wrap((Amount(table) + owed) + d)
    BY <1>2, WrapTwice
  <2>2. (Amount(table) + owed) + d = (Amount(table) + d) + owed
    BY <1>2
  <2>3. QED
    BY <1>3, <2>1, <2>2
<1>5. QED
  BY <1>2, <1>4 DEF Accounted

LEMMA AccountKept ==
  ASSUME TypeOK, TypeOK', NEW owed \in Int, Accounted(owed), Counting, UNCHANGED data_used,
         \A i \in Index : Part(table'[i]) = Part(table[i])
  PROVE  Accounted(owed)'
<1>1. table \in [Index -> Entry] /\ table' \in [Index -> Entry]
  BY DEF TypeOK
<1>2. Amount(table') = Amount(table)
  BY <1>1, AmountKept
<1>3. QED
  BY <1>2 DEF Accounted

LEMMA AccountExact ==
  ASSUME TypeOK, TypeOK', NEW owed \in Int, Accounted(owed), Counting, NEW size \in Sizes, AllocateExact(size), Counting'
  PROVE  Accounted(owed)'
<1>1. PICK i \in Least(ExactFits(size)) :
        /\ table' = [table EXCEPT ![i].state = "USED", ![i].bytes = size]
        /\ halted' = ~ValidEntry(table[i])
        /\ data_used' = IF ValidEntry(table[i]) THEN Wrap(data_used + table[i].size)
                                                ELSE data_used
  BY DEF AllocateExact
<1>2. i \in Index /\ table[i].state = "FREE"
  BY DEF Least, ExactFits
<1>3. /\ table \in [Index -> Entry] /\ table[i].size \in Int
      /\ \A k \in Index : /\ k # i => table'[k] = table[k]
                          /\ table'[i].state = "USED" /\ table'[i].size = table[i].size
  BY <1>1, <1>2 DEF TypeOK, Entry, UInt
<1>4. data_used' = Wrap(data_used + table[i].size)
  BY <1>1 DEF Counting
<1>5. table[i].size = Part(table'[i]) - Part(table[i])
  BY <1>2, <1>3 DEF Part
<1>6. \A k \in Index \ {i} : Part(table'[k]) = Part(table[k])
  BY <1>3
<1>7. QED
  BY <1>2, <1>3, <1>4, <1>5, <1>6, AccountMoves

\* The block carved adds its size; the mass entry was FREE and stays so, unless it is
\* itself, all used up, the entry that describes the block.
LEMMA AccountCarve ==
  ASSUME TypeOK, TypeOK', NEW owed \in Int, Accounted(owed), Counting, NEW size \in Sizes, AllocateCarve(size), Counting'
  PROVE  Accounted(owed)'
<1> DEFINE a      == Align(size)
           mass   == [ptr   |-> Wrap(Mass.ptr + a),      size  |-> Wrap(Mass.size - a),
                      bytes |-> Wrap(Mass.bytes - size), state |-> "FREE"]
           carved == [table EXCEPT ![0] = mass]
           block  == [ptr |-> Wrap(mass.ptr - a), size |-> a, bytes |-> size, state |-> "USED"]
<1>1. a \in Int
  BY AlignSize DEF UInt
<1>2. PICK k \in Least(FreeIndexes(carved)) : table' = [carved EXCEPT ![k] = block]
  BY DEF AllocateCarve, Counting
<1>3. data_used' = Wrap(data_used + a) /\ Mass.state # "USED"
  BY DEF AllocateCarve, Counting
<1>4. k \in Index /\ carved[k].state = "FREE"
  BY <1>2 DEF Least, FreeIndexes, EMPTY
<1>5. 0 \in Index /\ table \in [Index -> Entry]
  BY HeapAssumption DEF TypeOK, Index
<1>6. /\ carved[0] = mass /\ mass.state = "FREE"
      /\ \A i \in Index \ {0} : carved[i] = table[i]
  BY <1>5
<1>7. block.state = "USED" /\ block.size = a
  OBVIOUS
<1> HIDE DEF a, mass, carved, block
<1>8. \A i \in Index : Part(carved[i]) = Part(table[i])
  BY <1>3, <1>6 DEF Part, Mass
<1>9. carved \in [Index -> Entry] \/ DOMAIN carved = Index
  BY <1>5 DEF carved
<1>10. table'[k] = block /\ \A i \in Index \ {k} : table'[i] = carved[i]
  BY <1>2, <1>4, <1>9
<1>11. \A i \in Index \ {k} : Part(table'[i]) = Part(table[i])
  BY <1>8, <1>10
<1>12. a = Part(table'[k]) - Part(table[k])
  <2>1. Part(table[k]) = 0
    BY <1>4, <1>8 DEF Part
  <2>2. Part(table'[k]) = a
    BY <1>7, <1>10 DEF Part
  <2>3. QED
    BY <1>1, <2>1, <2>2
<1>13. QED
  BY <1>1, <1>3, <1>4, <1>11, <1>12, AccountMoves

LEMMA AccountFree ==
  ASSUME TypeOK, TypeOK', NEW owed \in Int, Accounted(owed), Counting, NEW p, Free(p)
  PROVE  Accounted(owed)'
<1>1. PICK i \in Least(Holding(p)) : /\ table' = [table EXCEPT ![i].state = "FREE"]
                                     /\ data_used' = Wrap(data_used - table[i].size)
  BY DEF Free
<1>2. i \in Index /\ table[i].state = "USED"
  BY DEF Least, Holding
<1>3. /\ table \in [Index -> Entry] /\ table[i].size \in Int /\ data_used \in Int
      /\ table'[i].state = "FREE"
      /\ \A k \in Index \ {i} : table'[k] = table[k]
  BY <1>1, <1>2 DEF TypeOK, Entry, UInt
<1> DEFINE d == 0 - table[i].size
<1>4. d \in Int /\ data_used' = Wrap(data_used + d)
  <2>1. data_used - table[i].size = data_used + d
    BY <1>3
  <2>2. QED
    BY <1>1, <1>3, <2>1
<1>5. d = Part(table'[i]) - Part(table[i])
  BY <1>2, <1>3 DEF Part
<1>6. \A k \in Index \ {i} : Part(table'[k]) = Part(table[k])
  BY <1>3
<1> HIDE DEF d
<1>7. QED
  BY <1>2, <1>4, <1>5, <1>6, AccountMoves

\* A merge changes and clears FREE entries only.
LEMMA AccountMerge ==
  ASSUME TypeOK, TypeOK', NEW owed \in Int, Accounted(owed), Counting, MergeStep
  PROVE  Accounted(owed)'
<1>1. PICK i \in Least(Mergeable) : \E n \in Least(Nearest(i)) : MergeWith(i, n)
  BY DEF MergeStep
<1>2. PICK n \in Least(Nearest(i)) : MergeWith(i, n)
  BY <1>1
<1>3. i \in Index /\ n \in Index /\ table[i].state = "FREE" /\ table[n].state = "FREE"
  BY DEF Least, Mergeable, Nearest
<1>4. Merged(i, n) \in Entry /\ Merged(i, n).state = "FREE"
  <2>1. /\ table[i].size \in UInt /\ table[n].size \in UInt
        /\ table[i].ptr \in UInt /\ table[n].ptr \in UInt
    BY <1>3 DEF TypeOK, Entry
  <2>2. Wrap(table[i].size + table[n].size) \in UInt
    BY <2>1, WrapArith
  <2>3. QED
    BY <2>1, <2>2 DEF Merged, Entry
<1> DEFINE t == [table EXCEPT ![i] = Merged(i, n)]
<1>5. t \in [Index -> Entry] /\ table[n] \in Entry
  BY <1>3, <1>4 DEF TypeOK
<1>6. \A k \in Index : Part(t[k]) = Part(table[k])
  BY <1>3, <1>4 DEF TypeOK, Part
<1>7. table' \in Deleted(t, table[n])
  BY <1>2 DEF MergeWith
<1> HIDE DEF t
<1>8. \A k \in Index : Part(table'[k]) = Part(t[k])
  BY <1>3, <1>5, <1>7, DeletedPart
<1>9. UNCHANGED data_used
  BY DEF MergeStep
<1>10. QED
  BY <1>6, <1>8, <1>9, AccountKept

\* A fold changes the mass entry, which is FREE, and clears a FREE one.
LEMMA AccountFold ==
  ASSUME TypeOK, TypeOK', NEW owed \in Int, Accounted(owed), Counting, FoldIntoMass, Counting'
  PROVE  Accounted(owed)'
<1>1. PICK i \in Least(BelowMass) : FoldBlock(i)
  BY DEF FoldIntoMass
<1>2. i \in Index /\ 0 \in Index /\ table[i].state = "FREE" /\ table[0].state = "FREE"
  <2>1. i \in Index /\ table[i].state = "FREE"
    BY DEF Least, BelowMass
  <2>2. 0 \in Index
    BY HeapAssumption DEF Index
  <2>3. Mass.state # "USED"
    BY DEF FoldIntoMass, Counting
  <2>4. QED
    BY <2>1, <2>2, <2>3 DEF Mass, TypeOK, Entry
<1>3. Folded(i) \in Entry /\ Folded(i).state = "FREE"
  <2>1. /\ table[i].size \in UInt /\ table[0].size \in UInt /\ table[i].ptr \in UInt /\ 0 \in UInt
    BY <1>2, HeapAssumption DEF TypeOK, Entry, UInt
  <2>2. Wrap(table[0].size + table[i].size) \in UInt
    BY <2>1, WrapArith
  <2>3. QED
    BY <2>1, <2>2 DEF Folded, Entry, Mass
<1> DEFINE t == [table EXCEPT ![0] = Folded(i)]
<1>4. t \in [Index -> Entry]
  BY <1>2, <1>3 DEF TypeOK
<1>5. (\A k \in Index : Part(t[k]) = Part(table[k])) /\ t[i] \in Entry /\ t[i].state = "FREE"
  BY <1>2, <1>3 DEF TypeOK, Part
<1>6. PICK u \in Deleted(t, t[i]) : table' = IF halted' THEN u ELSE [u EXCEPT ![0].bytes = u[0].size]
  BY <1>1 DEF FoldBlock
<1> HIDE DEF t
<1>7. u \in [Index -> Entry] /\ \A k \in Index : Part(u[k]) = Part(t[k])
  BY <1>4, <1>5, DeletedPart
<1>8. \A k \in Index : table'[k].state = u[k].state /\ table'[k].size = u[k].size
  BY <1>2, <1>6, <1>7 DEF Entry
<1>9. \A k \in Index : Part(table'[k]) = Part(u[k])
  BY <1>8 DEF Part
<1>10. UNCHANGED data_used
  BY DEF FoldIntoMass
<1>11. QED
  BY <1>5, <1>7, <1>9, <1>10, AccountKept

LEMMA AccountNext ==
  ASSUME TypeOK, TypeOK', NEW owed \in Int, Accounted(owed), [Next]_vars
  PROVE  Accounted(owed)'
<1> SUFFICES ASSUME Counting' PROVE Accounted(owed)'
  BY DEF Accounted
<1>1. CASE UNCHANGED vars
  BY <1>1 DEF vars, Accounted, Counting
<1>2. CASE Next
  <2>1. Counting
    BY <1>2 DEF Next, Allocate, AllocateTooLarge, AllocateExact, AllocateCarve, Free, MergeStep,
           MergeWith, FoldIntoMass, FoldBlock, NothingToFold, Counting
  <2>2. ASSUME NEW size \in Sizes, Allocate(size) PROVE Accounted(owed)'
    <3>1. ~AllocateTooLarge(size)
      BY DEF AllocateTooLarge, Counting
    <3>2. QED
      BY <2>1, <2>2, <3>1, AccountExact, AccountCarve DEF Allocate
  <2>3. ASSUME NEW p \in DATA_BASE .. DATA_END - 1, Free(p) PROVE Accounted(owed)'
    BY <2>1, <2>3, AccountFree
  <2>4. CASE MergeStep
    BY <2>1, <2>4, AccountMerge
  <2>5. CASE FoldIntoMass
    BY <2>1, <2>5, AccountFold
  <2>6. CASE NothingToFold
    <3>1. 0 \in Index /\ table \in [Index -> Entry]
      BY HeapAssumption DEF TypeOK, Index
    <3>2. \A k \in Index : table'[k].state = table[k].state /\ table'[k].size = table[k].size
      BY <2>6, <3>1 DEF NothingToFold, Entry
    <3>3. \A k \in Index : Part(table'[k]) = Part(table[k])
      BY <3>2 DEF Part
    <3>4. QED
      BY <2>1, <2>6, <3>3, AccountKept DEF NothingToFold
  <2>7. QED
    BY <1>2, <2>2, <2>3, <2>4, <2>5, <2>6 DEF Next
<1>3. QED
  BY <1>1, <1>2

\* data_used is what the callers of malloc hold, to the byte and through every
\* wrap-around, also in the middle of a merge and after a false merge or an exhausted
\* mass entry, until a panic or the loss of a held mass entry.
THEOREM HeapAccounts == Spec => []Accounting
<1>1. TypeOK /\ Accounted(0) => Accounting
  <2> SUFFICES ASSUME TypeOK, Accounted(0), ~halted, "mass_used" \notin faults
               PROVE  data_used = Wrap(MapThenSumSet(LAMBDA i : table[i].size,
                                                     {i \in Index : table[i].state = "USED"}))
    BY DEF Accounting
  <2>1. table \in [Index -> Entry]
    BY DEF TypeOK
  <2>2. Amount(table) + 0 = Amount(table)
    <3>1. Amount(table) \in Nat
      BY VolumeNat DEF Amount
    <3>2. QED
      BY <3>1
  <2>3. data_used = Wrap(Amount(table))
    BY <2>2 DEF Accounted, Counting
  <2>4. QED
    BY <2>1, <2>3, SumIsAmount
<1>2. TypeOK /\ TypeOK' /\ Accounted(0) /\ [Next]_vars => Accounted(0)'
  BY AccountNext
<1>3. QED
  BY <1>1, <1>2, HeapTyped, AccountInit, PTL DEF Spec

-----------------------------------------------------------------------------
(* How often an address is described.                                      *)

\* Whether the address a, of the 2^32 there are, lies among the s addresses from p on.
Arc(p, s, a) == IF Wrap(a - p) < s THEN 1 ELSE 0
Over(e, a)   == Arc(e.ptr, e.size, a)
Overs(t, a)  == [i \in Index |-> Over(t[i], a)]
Times(t, a)  == Volume(Overs(t, a), Index)

LEMMA WrapLess ==
  ASSUME NEW x \in Int, NEW y \in Int
  PROVE  Wrap(y - Wrap(x)) = Wrap(y - x)
<1> DEFINE w == y - Wrap(x)
<1>1. Wrap(x) \in Int
  BY WrapUInt DEF UInt
<1>2. w \in Int /\ Wrap(x) + w = y
  BY <1>1
<1> HIDE DEF w
<1>3. Wrap(x + w) = Wrap(y)
  BY <1>2, WrapTwice
<1>4. (x + w) - x = w /\ y - x = y + (-x) /\ (x + w) - x = (x + w) + (-x) /\ x + w \in Int /\ -x \in Int
  BY <1>2
<1>5. Wrap((x + w) + (-x)) = Wrap(Wrap(x + w) + (-x)) /\ Wrap(y + (-x)) = Wrap(Wrap(y) + (-x))
  BY <1>4, WrapTwice
<1>6. QED
  BY <1>3, <1>4, <1>5 DEF w

\* Below zero a number wraps around once.
LEMMA WrapBelow ==
  ASSUME NEW x \in Int, x < 0, x + UINT >= 0
  PROVE  Wrap(x) = x + UINT
<1>1. UINT \in Int /\ UINT > 0 /\ x + UINT \in UInt
  BY HeapAssumption DEF UInt
<1>2. Wrap(x + UINT) = x + UINT
  BY <1>1, WrapId
<1>3. Wrap(UINT) = 0
  BY <1>1 DEF Wrap
<1>4. Wrap(Wrap(UINT) + x) = Wrap(UINT + x)
  BY <1>1, WrapTwice
<1>5. QED
  BY <1>1, <1>2, <1>3, <1>4

LEMMA ArcZero ==
  ASSUME NEW p \in UInt, NEW a \in UInt
  PROVE  Arc(p, 0, a) = 0
<1>1. Wrap(a - p) \in UInt
  BY WrapUInt DEF UInt
<1>2. QED
  BY <1>1 DEF Arc, UInt

LEMMA ArcUInt ==
  ASSUME NEW p, NEW s, NEW a
  PROVE  Arc(p, s, a) \in {0, 1} /\ Arc(p, s, a) \in UInt
  BY HeapAssumption DEF Arc, UInt

\* Two neighbouring arcs make one.
LEMMA ArcJoins ==
  ASSUME NEW p \in UInt, NEW s \in UInt, NEW r \in UInt, s + r < UINT, NEW a \in UInt
  PROVE  Arc(p, s + r, a) = Arc(p, s, a) + Arc(Wrap(p + s), r, a)
<1> DEFINE d == Wrap(a - p)
<1>1. d \in UInt /\ a - p \in Int /\ UINT \in Nat
  BY WrapUInt, HeapAssumption DEF UInt
<1>2. Wrap(a - Wrap(p + s)) = Wrap(d - s)
  <2>1. Wrap(a - Wrap(p + s)) = Wrap(a - (p + s))
    BY WrapLess DEF UInt
  <2>2. a - (p + s) = (a - p) + (-s) /\ d - s = d + (-s) /\ -s \in Int
    BY <1>1 DEF UInt
  <2>3. Wrap((a - p) + (-s)) = Wrap(d + (-s))
    BY <1>1, <2>2, WrapTwice
  <2>4. QED
    BY <2>1, <2>2, <2>3
<1>3. Arc(p, s, a) = (IF d < s THEN 1 ELSE 0) /\ Arc(p, s + r, a) = IF d < s + r THEN 1 ELSE 0
  BY DEF Arc
<1>4. Arc(Wrap(p + s), r, a) = IF Wrap(d - s) < r THEN 1 ELSE 0
  BY <1>2 DEF Arc
<1> HIDE DEF d
<1>5. CASE d < s
  <2>1. Wrap(d - s) = d - s + UINT
    BY <1>1, <1>5, WrapBelow DEF UInt
  <2>2. ~(Wrap(d - s) < r) /\ d < s + r
    BY <1>1, <1>5, <2>1 DEF UInt
  <2>3. QED
    BY <1>3, <1>4, <1>5, <2>2
<1>6. CASE ~(d < s)
  <2>1. Wrap(d - s) = d - s
    BY <1>1, <1>6, WrapId DEF UInt
  <2>2. Wrap(d - s) < r <=> d < s + r
    BY <1>1, <2>1 DEF UInt
  <2>3. QED
    BY <1>3, <1>4, <1>6, <2>2
<1>7. QED
  BY <1>5, <1>6

\* They do not go around if there is an address in neither.
LEMMA ArcsFit ==
  ASSUME NEW p \in UInt, NEW s \in UInt, NEW r \in UInt, NEW z \in UInt,
         Arc(p, s, z) = 0, Arc(Wrap(p + s), r, z) = 0
  PROVE  s + r < UINT
<1> DEFINE d == Wrap(z - p)
<1>1. d \in UInt /\ z - p \in Int /\ UINT \in Nat
  BY WrapUInt, HeapAssumption DEF UInt
<1>2. Wrap(z - Wrap(p + s)) = Wrap(d - s)
  <2>1. Wrap(z - Wrap(p + s)) = Wrap(z - (p + s))
    BY WrapLess DEF UInt
  <2>2. z - (p + s) = (z - p) + (-s) /\ d - s = d + (-s) /\ -s \in Int
    BY <1>1 DEF UInt
  <2>3. Wrap((z - p) + (-s)) = Wrap(d + (-s))
    BY <1>1, <2>2, WrapTwice
  <2>4. QED
    BY <2>1, <2>2, <2>3
<1>3. ~(d < s) /\ ~(Wrap(d - s) < r)
  BY <1>2 DEF Arc
<1> HIDE DEF d
<1>4. Wrap(d - s) = d - s
  BY <1>1, <1>3, WrapId DEF UInt
<1>5. QED
  BY <1>1, <1>3, <1>4 DEF UInt

LEMMA OverUInt ==
  ASSUME NEW t, NEW a, NEW i \in Index
  PROVE  Overs(t, a)[i] = Over(t[i], a) /\ Over(t[i], a) \in {0, 1} /\ Over(t[i], a) \in UInt
  BY ArcUInt DEF Overs, Over

LEMMA TimesNat ==
  ASSUME NEW t, NEW a
  PROVE  Times(t, a) \in Nat
  BY VolumeNat DEF Times

\* The tables t and u describe the same except in entry k.
Aside(t, u, k) == \A i \in Index \ {k} : u[i].ptr = t[i].ptr /\ u[i].size = t[i].size

LEMMA TimesMoves ==
  ASSUME NEW t, NEW u, NEW k \in Index, NEW a, Aside(t, u, k)
  PROVE  Times(u, a) = Times(t, a) + (Over(u[k], a) - Over(t[k], a))
<1>1. \A i \in Index \ {k} : Overs(t, a)[i] = Overs(u, a)[i]
  BY OverUInt DEF Over, Aside
<1>2. /\ Overs(t, a)[k] = Over(t[k], a) /\ Overs(u, a)[k] = Over(u[k], a)
      /\ Over(t[k], a) \in UInt /\ Over(u[k], a) \in UInt
  BY OverUInt
<1>3. QED
  BY <1>1, <1>2, VolumeMoves DEF Times

LEMMA TimesKept ==
  ASSUME NEW t, NEW u, NEW a, \A i \in Index : u[i].ptr = t[i].ptr /\ u[i].size = t[i].size
  PROVE  Times(u, a) = Times(t, a)
<1>1. Overs(u, a) = Overs(t, a)
  BY DEF Overs, Over
<1>2. QED
  BY <1>1 DEF Times

\* No entry is where nothing is.
LEMMA TimesOf ==
  ASSUME NEW t, NEW a, NEW i \in Index
  PROVE  Over(t[i], a) =< Times(t, a)
<1>1. Times(t, a) = Overs(t, a)[i] + Volume(Overs(t, a), Index \ {i})
  BY OverUInt, VolumePick DEF Times
<1>2. Volume(Overs(t, a), Index \ {i}) \in Nat
  BY VolumeNat
<1>3. Overs(t, a)[i] = Over(t[i], a) /\ Over(t[i], a) \in {0, 1}
  BY OverUInt
<1>4. QED
  BY <1>1, <1>2, <1>3

LEMMA TimesOfTwo ==
  ASSUME NEW t, NEW a, NEW i \in Index, NEW j \in Index \ {i}
  PROVE  Over(t[i], a) + Over(t[j], a) =< Times(t, a)
<1> DEFINE F == Overs(t, a)
<1>0. F[i] = Over(t[i], a) /\ F[j] = Over(t[j], a) /\ F[i] \in {0, 1} /\ F[j] \in {0, 1} /\ F[i] \in UInt /\ F[j] \in UInt
  BY OverUInt
<1> HIDE DEF F
<1>1. Volume(F, Index) = F[i] + Volume(F, Index \ {i})
  BY <1>0, VolumePick
<1>2. Volume(F, Index \ {i}) = F[j] + Volume(F, (Index \ {i}) \ {j})
  BY <1>0, VolumePick
<1>3. Volume(F, (Index \ {i}) \ {j}) \in Nat
  BY VolumeNat
<1>4. QED
  BY <1>0, <1>1, <1>2, <1>3 DEF F, Times

LEMMA TimesSome ==
  ASSUME NEW t, NEW a, Times(t, a) # 0
  PROVE  \E i \in Index : Over(t[i], a) = 1
<1> SUFFICES ASSUME \A i \in Index : Over(t[i], a) # 1 PROVE FALSE
  OBVIOUS
<1>1. \A i \in Index : Overs(t, a)[i] = 0
  BY OverUInt
<1>2. Bytes(Overs(t, a), Index) = {}
  BY <1>1 DEF Bytes
<1>3. QED
  BY <1>2, FS_EmptySet DEF Times, Volume

-----------------------------------------------------------------------------
(* What a whole call does to it: nothing.                                  *)

\* What is described, and how often, stays as it is, if there is an address that is not
\* described at all.
SameGround ==
  \A z \in UInt : Times(table, z) = 0 => \A a \in UInt : Times(table', a) = Times(table, a)

LEMMA EntryFields ==
  ASSUME TypeOK, NEW i \in Index
  PROVE  /\ table[i] \in Entry
         /\ table[i].ptr \in UInt /\ table[i].size \in UInt /\ table[i].bytes \in UInt
         /\ table[i].ptr \in Int /\ table[i].size \in Int
         /\ table[i].state \in {"FREE", "USED"}
  BY DEF TypeOK, Entry, UInt

LEMMA ZeroIndex == 0 \in Index /\ 0 \in UInt /\ EMPTY.size = 0 /\ EMPTY.ptr = 0 /\ EMPTY.ptr \in UInt
  BY HeapAssumption DEF Index, UInt, EMPTY

LEMMA GroundFields ==
  ASSUME \A i \in Index : table'[i].ptr = table[i].ptr /\ table'[i].size = table[i].size
  PROVE  SameGround
  BY TimesKept DEF SameGround

LEMMA GroundExact ==
  ASSUME TypeOK, NEW size \in Sizes, AllocateExact(size)
  PROVE  SameGround
<1>1. PICK i \in Least(ExactFits(size)) : table' = [table EXCEPT ![i].state = "USED", ![i].bytes = size]
  BY DEF AllocateExact
<1>2. \A j \in Index : table'[j].ptr = table[j].ptr /\ table'[j].size = table[j].size
  BY <1>1 DEF TypeOK, Entry
<1>3. QED
  BY <1>2, GroundFields

LEMMA GroundFree ==
  ASSUME TypeOK, NEW p, Free(p)
  PROVE  SameGround
<1>1. PICK i \in Least(Holding(p)) : table' = [table EXCEPT ![i].state = "FREE"]
  BY DEF Free
<1>2. \A j \in Index : table'[j].ptr = table[j].ptr /\ table'[j].size = table[j].size
  BY <1>1 DEF TypeOK, Entry
<1>3. QED
  BY <1>2, GroundFields

LEMMA GroundNothing ==
  ASSUME TypeOK, NothingToFold
  PROVE  SameGround
<1>1. \A j \in Index : table'[j].ptr = table[j].ptr /\ table'[j].size = table[j].size
  BY DEF NothingToFold, TypeOK, Entry
<1>2. QED
  BY <1>1, GroundFields

\* Taking r off the front moves the end nowhere.
LEMMA EndStays ==
  ASSUME NEW p \in UInt, NEW s \in UInt, NEW a \in UInt
  PROVE  /\ Wrap(Wrap(p + a) + Wrap(s - a)) = Wrap(p + s)
         /\ Wrap(Wrap(p + a) - a) = p
         /\ Wrap(Wrap(p - a) + a) = p
<1>1. p \in Int /\ s \in Int /\ a \in Int
  BY DEF UInt
<1>2. /\ p + a \in Int /\ s - a \in Int /\ p - a \in Int /\ Wrap(p + a) \in Int /\ Wrap(s - a) \in Int
      /\ p \in Int /\ a \in Int /\ -a \in Int /\ Wrap(p - a) \in Int /\ s \in Int
  <2>1. Wrap(p + a) \in UInt /\ Wrap(s - a) \in UInt /\ Wrap(p - a) \in UInt
    BY WrapArith
  <2>2. QED
    BY <1>1, <2>1 DEF UInt
<1>3. Wrap(Wrap(p + a) + Wrap(s - a)) = Wrap(p + s)
  <2>1. Wrap(Wrap(p + a) + Wrap(s - a)) = Wrap((p + a) + Wrap(s - a))
    BY <1>2, WrapTwice
  <2>2. Wrap(Wrap(s - a) + (p + a)) = Wrap((s - a) + (p + a))
    BY <1>2, WrapTwice
  <2>3. (p + a) + Wrap(s - a) = Wrap(s - a) + (p + a) /\ (s - a) + (p + a) = p + s
    BY <1>2
  <2>4. QED
    BY <2>1, <2>2, <2>3
<1>4. Wrap(p) = p
  BY WrapId
<1>5. Wrap(Wrap(p + a) - a) = p
  <2>1. Wrap(Wrap(p + a) + (-a)) = Wrap((p + a) + (-a))
    BY <1>2, WrapTwice
  <2>2. Wrap(p + a) + (-a) = Wrap(p + a) - a /\ (p + a) + (-a) = p
    BY <1>2
  <2>3. QED
    BY <1>4, <2>1, <2>2
<1>6. Wrap(Wrap(p - a) + a) = p
  <2>1. Wrap(Wrap(p - a) + a) = Wrap((p - a) + a)
    BY <1>2, WrapTwice
  <2>2. (p - a) + a = p
    BY <1>2
  <2>3. QED
    BY <1>4, <2>1, <2>2
<1>7. QED
  BY <1>3, <1>5, <1>6

\* A block of a bytes is cut off the mass entry and described by an empty entry.
LEMMA GroundCarve ==
  ASSUME TypeOK, TypeOK', NEW size \in Sizes, AllocateCarve(size), ~halted', faults' = {}
  PROVE  SameGround
<1> DEFINE a      == Align(size)
           mass   == [ptr   |-> Wrap(Mass.ptr + a),      size  |-> Wrap(Mass.size - a),
                      bytes |-> Wrap(Mass.bytes - size), state |-> "FREE"]
           carved == [table EXCEPT ![0] = mass]
           block  == [ptr |-> Wrap(mass.ptr - a), size |-> a, bytes |-> size, state |-> "USED"]
<1>1. a \in UInt /\ size # 0
  <2>1. 0 < size
    BY HeapAssumption
  <2>2. QED
    BY <2>1, AlignSize
<1>2. PICK k \in Least(FreeIndexes(carved)) : table' = [carved EXCEPT ![k] = block]
  BY DEF AllocateCarve
<1>3. a =< Mass.size
  <2>1. "mass_exhausted" \notin faults'
    OBVIOUS
  <2>2. ~(Mass.size < a)
    BY <2>1 DEF AllocateCarve
  <2>3. QED
    BY <1>1, <2>2, ZeroIndex, EntryFields DEF UInt, Mass
<1>4. k \in Index /\ carved[k] = EMPTY
  BY <1>2 DEF Least, FreeIndexes
<1>5. table \in [Index -> Entry] /\ DOMAIN carved = Index
  BY DEF TypeOK
<1>6. carved[0] = mass /\ \A i \in Index \ {0} : carved[i] = table[i]
  BY <1>5, ZeroIndex
<1>7. table'[k] = block /\ \A i \in Index \ {k} : table'[i] = carved[i]
  BY <1>2, <1>4, <1>5
<1>8. /\ mass.ptr = Wrap(Mass.ptr + a) /\ mass.size = Wrap(Mass.size - a)
      /\ block.ptr = Wrap(mass.ptr - a) /\ block.size = a /\ block.bytes = size
  OBVIOUS
<1>9. Mass.ptr \in UInt /\ Mass.size \in UInt
  BY ZeroIndex, EntryFields DEF Mass
<1> HIDE DEF a, mass, carved, block
<1>10. Wrap(Mass.size - a) = Mass.size - a /\ Mass.size - a \in UInt /\ a + (Mass.size - a) = Mass.size
  <2>1. Mass.size - a \in UInt /\ a + (Mass.size - a) = Mass.size
    BY <1>1, <1>3, <1>9, HeapAssumption DEF UInt
  <2>2. QED
    BY <2>1, WrapId
<1>11. block.ptr = Mass.ptr
  BY <1>1, <1>8, <1>9, EndStays
<1>12. \A x \in UInt : Times(table', x) = Times(table, x)
  <2> SUFFICES ASSUME NEW x \in UInt PROVE Times(table', x) = Times(table, x)
    OBVIOUS
  <2>1. Times(carved, x) = Times(table, x) + (Over(mass, x) - Over(Mass, x))
    <3>1. Aside(table, carved, 0)
      BY <1>6 DEF Aside
    <3>2. Times(carved, x) = Times(table, x) + (Over(carved[0], x) - Over(table[0], x))
      BY <3>1, ZeroIndex, TimesMoves
    <3>3. QED
      BY <1>6, <3>2 DEF Mass
  <2>2. Times(table', x) = Times(carved, x) + (Over(block, x) - Over(EMPTY, x))
    <3>1. Times(table', x) = Times(carved, x) + (Over(table'[k], x) - Over(carved[k], x))
      <4>1. Aside(carved, table', k)
        BY <1>7 DEF Aside
      <4>2. QED
        BY <1>4, <4>1, TimesMoves
    <3>2. QED
      BY <1>4, <1>7, <3>1
  <2>3. Over(EMPTY, x) = 0
    BY ZeroIndex, ArcZero DEF Over
  <2>4. Over(Mass, x) = Over(block, x) + Over(mass, x)
    <3>1. Arc(Mass.ptr, a + (Mass.size - a), x)
            = Arc(Mass.ptr, a, x) + Arc(Wrap(Mass.ptr + a), Mass.size - a, x)
      <4>1. a + (Mass.size - a) < UINT
        BY <1>9, <1>10, HeapAssumption DEF UInt
      <4>2. QED
        BY <1>1, <1>9, <1>10, <4>1, ArcJoins
    <3>2. QED
      BY <1>8, <1>10, <1>11, <3>1 DEF Over
  <2>5. /\ Over(Mass, x) \in UInt /\ Over(block, x) \in UInt /\ Over(mass, x) \in UInt
        /\ Times(table, x) \in Nat /\ Times(carved, x) \in Nat
    BY ArcUInt, TimesNat DEF Over
  <2>6. QED
    BY <2>1, <2>2, <2>3, <2>4, <2>5 DEF UInt
<1>13. QED
  BY <1>12 DEF SameGround

\* Clearing an entry that is there takes its addresses away.
LEMMA TimesDeleted ==
  ASSUME NEW t \in [Index -> Entry], NEW e, ValidEntry(e), NEW u \in Deleted(t, e)
  PROVE  \E k \in Index : /\ t[k] = e /\ u = [t EXCEPT ![k] = EMPTY]
                          /\ \A a \in UInt : Times(u, a) = Times(t, a) - Over(e, a)
<1>1. PICK k \in Index : t[k] = e /\ u = [t EXCEPT ![k] = EMPTY]
  BY DEF Deleted, Least
<1>2. ASSUME NEW a \in UInt PROVE Times(u, a) = Times(t, a) - Over(e, a)
  <2>1. Times(u, a) = Times(t, a) + (Over(u[k], a) - Over(t[k], a))
    <3>1. Aside(t, u, k)
      BY <1>1 DEF Aside
    <3>2. QED
      BY <3>1, TimesMoves
  <2>2. Over(u[k], a) = 0
    BY <1>1, ZeroIndex, ArcZero DEF Over
  <2>3. Over(t[k], a) = Over(e, a) /\ Over(e, a) \in UInt /\ Times(t, a) \in Nat
    BY <1>1, ArcUInt, TimesNat DEF Over
  <2>4. QED
    BY <2>1, <2>2, <2>3 DEF UInt
<1>3. QED
  BY <1>1, <1>2

\* An entry takes in the block below it, and one equal to what described that is cleared.
LEMMA GroundMerge ==
  ASSUME TypeOK, TypeOK', MergeStep, ~halted', faults' = {}
  PROVE  SameGround
<1>1. PICK i \in Least(Mergeable) : \E n \in Least(Nearest(i)) : MergeWith(i, n)
  BY DEF MergeStep
<1>2. PICK n \in Least(Nearest(i)) : MergeWith(i, n)
  BY <1>1
<1> DEFINE m == Merged(i, n)
           e == table[n]
           t == [table EXCEPT ![i] = m]
<1>3. /\ i \in Index /\ i # 0 /\ n \in Index /\ n # i
      /\ 0 \notin Nearest(i) /\ n \in Nearest(i) /\ table[n].size > 0
  BY DEF Least, Mergeable, Nearest
<1>4. table[n].ptr + table[n].size = table[i].ptr
  <2>1. "false_merge" \notin faults'
    OBVIOUS
  <2>2. QED
    BY <1>2, <2>1 DEF MergeWith
<1>5. table' \in Deleted(t, e) /\ ValidEntry(e)
  BY <1>2 DEF MergeWith
<1>6. /\ table[i].ptr \in UInt /\ table[i].size \in UInt /\ table[i] \in Entry
      /\ table[n].ptr \in UInt /\ table[n].size \in UInt
  BY <1>3, EntryFields
<1>7. m.ptr = table[n].ptr /\ m.size = Wrap(table[i].size + table[n].size) /\ m.bytes = m.size
  <2>1. table[i].ptr > table[n].ptr
    BY <1>3, <1>4, <1>6 DEF UInt
  <2>2. QED
    BY <2>1 DEF Merged
<1>8. m \in Entry
  <2>1. Wrap(table[i].size + table[n].size) \in UInt
    BY <1>6, WrapArith
  <2>2. QED
    BY <1>6, <2>1 DEF Merged, Entry
<1>9. t \in [Index -> Entry] /\ t[i] = m /\ \A j \in Index \ {i} : t[j] = table[j]
  BY <1>3, <1>8 DEF TypeOK
<1> HIDE DEF m, e, t
<1>10. PICK k \in Index : /\ t[k] = e /\ table' = [t EXCEPT ![k] = EMPTY]
                          /\ \A a \in UInt : Times(table', a) = Times(t, a) - Over(e, a)
  BY <1>5, <1>9, TimesDeleted
<1>11. ASSUME NEW z \in UInt, Times(table, z) = 0, NEW a \in UInt
       PROVE  Times(table', a) = Times(table, a)
  <2>1. Over(table[i], z) = 0 /\ Over(table[n], z) = 0
    BY <1>3, <1>11, OverUInt, TimesOf
  <2>2. Wrap(table[n].ptr + table[n].size) = table[i].ptr
    BY <1>4, <1>6, WrapId
  <2>3. table[n].size + table[i].size < UINT
    BY <1>6, <1>11, <2>1, <2>2, ArcsFit DEF Over
  <2>4. m.size = table[n].size + table[i].size
    <3>1. table[i].size + table[n].size = table[n].size + table[i].size
      BY <1>6 DEF UInt
    <3>2. table[n].size + table[i].size \in UInt
      BY <1>6, <2>3, HeapAssumption DEF UInt
    <3>3. QED
      BY <1>7, <3>1, <3>2, WrapId
  <2>5. Over(m, a) = Over(table[n], a) + Over(table[i], a)
    BY <1>6, <1>7, <2>2, <2>3, <2>4, ArcJoins DEF Over
  <2>6. Times(t, a) = Times(table, a) + (Over(t[i], a) - Over(table[i], a))
    <3>1. Aside(table, t, i)
      BY <1>9 DEF Aside
    <3>2. QED
      BY <1>3, <3>1, TimesMoves
  <2>7. Times(table', a) = Times(t, a) - Over(table[n], a)
    BY <1>10 DEF e
  <2>8. /\ Over(table[i], a) \in UInt /\ Over(table[n], a) \in UInt /\ t[i] = m
        /\ Times(table, a) \in Nat
    BY <1>9, ArcUInt, TimesNat DEF Over
  <2>9. QED
    BY <2>5, <2>6, <2>7, <2>8 DEF UInt
<1>12. QED
  BY <1>11 DEF SameGround

\* A sum that is what is added to adds nothing.
LEMMA NoGoingRound ==
  ASSUME NEW p \in UInt, NEW s \in UInt, Wrap(p + s) = p
  PROVE  s = 0
<1>1. p \in Int /\ s \in Int /\ -p \in Int /\ p + s \in Int
  BY DEF UInt
<1>2. Wrap(Wrap(p + s) + (-p)) = Wrap((p + s) + (-p)) /\ (p + s) + (-p) = s /\ p + (-p) = 0
  BY <1>1, WrapTwice
<1>3. Wrap(s) = s /\ Wrap(0) = 0
  BY WrapId, ZeroIndex
<1>4. QED
  BY <1>2, <1>3

\* The mass entry takes in the block below it; what described the block is cleared.
LEMMA GroundFold ==
  ASSUME TypeOK, TypeOK', FoldIntoMass, ~halted', faults' = {}
  PROVE  SameGround
<1>1. PICK i \in Least(BelowMass) : FoldBlock(i)
  BY DEF FoldIntoMass
<1> DEFINE m == Folded(i)
           t == [table EXCEPT ![0] = m]
<1>2. i \in Index /\ Wrap(table[i].ptr + table[i].size) = Mass.ptr
  BY DEF Least, BelowMass
<1>3. PICK u \in Deleted(t, t[i]) : table' = [u EXCEPT ![0].bytes = u[0].size]
  BY <1>1 DEF FoldBlock
<1>4. ValidEntry(t[i])
  BY <1>1 DEF FoldBlock
<1>5. /\ table[i].ptr \in UInt /\ table[i].size \in UInt
      /\ Mass.ptr \in UInt /\ Mass.size \in UInt
  BY <1>2, EntryFields, ZeroIndex DEF Mass
<1>6. m.ptr = table[i].ptr /\ m.size = Wrap(Mass.size + table[i].size) /\ m.bytes = 0
  BY DEF Folded
<1>7. m \in Entry
  <2>1. Wrap(Mass.size + table[i].size) \in UInt
    BY <1>5, WrapArith
  <2>2. QED
    BY <1>5, <2>1, ZeroIndex DEF Folded, Entry
<1>8. t \in [Index -> Entry] /\ t[0] = m /\ \A j \in Index \ {0} : t[j] = table[j]
  BY <1>7, ZeroIndex DEF TypeOK
<1> HIDE DEF m, t
<1>9. i # 0
  <2> SUFFICES ASSUME i = 0 PROVE FALSE
    OBVIOUS
  <2>1. Mass.size = 0
    BY <1>2, <1>5, NoGoingRound DEF Mass
  <2>2. m.size = Wrap(0 + 0)
    BY <1>6, <2>1 DEF Mass
  <2>3. m.size = 0
    BY <2>2, ZeroIndex, WrapId
  <2>4. QED
    BY <1>4, <1>8, <2>3 DEF ValidEntry
<1>10. t[i] = table[i] /\ table[i].size # 0
  BY <1>2, <1>4, <1>8, <1>9 DEF ValidEntry
<1>11. PICK k \in Index : /\ t[k] = t[i] /\ u = [t EXCEPT ![k] = EMPTY]
                          /\ \A a \in UInt : Times(u, a) = Times(t, a) - Over(t[i], a)
  BY <1>3, <1>4, <1>8, TimesDeleted
<1>12. u \in [Index -> Entry]
  BY <1>3, <1>8, DeletedType
<1>13. \A j \in Index : table'[j].ptr = u[j].ptr /\ table'[j].size = u[j].size
  BY <1>3, <1>12, ZeroIndex DEF Entry
<1>14. ASSUME NEW z \in UInt, Times(table, z) = 0, NEW a \in UInt
       PROVE  Times(table', a) = Times(table, a)
  <2>1. Over(table[i], z) = 0 /\ Over(Mass, z) = 0
    <3>1. Over(table[i], z) = 0 /\ Over(table[0], z) = 0
      BY <1>2, <1>14, OverUInt, TimesOf, ZeroIndex
    <3>2. QED
      BY <3>1 DEF Mass
  <2>2. table[i].size + Mass.size < UINT
    BY <1>2, <1>5, <1>14, <2>1, ArcsFit DEF Over
  <2>3. m.size = table[i].size + Mass.size
    <3>1. Mass.size + table[i].size = table[i].size + Mass.size
      BY <1>5 DEF UInt
    <3>2. table[i].size + Mass.size \in UInt
      BY <1>5, <2>2, HeapAssumption DEF UInt
    <3>3. QED
      BY <1>6, <3>1, <3>2, WrapId
  <2>4. Over(m, a) = Over(table[i], a) + Over(Mass, a)
    BY <1>2, <1>5, <1>6, <2>2, <2>3, ArcJoins DEF Over
  <2>5. Times(t, a) = Times(table, a) + (Over(m, a) - Over(Mass, a))
    <3>1. Aside(table, t, 0)
      BY <1>8 DEF Aside
    <3>2. Times(t, a) = Times(table, a) + (Over(t[0], a) - Over(table[0], a))
      BY <3>1, ZeroIndex, TimesMoves
    <3>3. QED
      BY <1>8, <3>2 DEF Mass
  <2>6. Times(u, a) = Times(t, a) - Over(table[i], a)
    BY <1>10, <1>11
  <2>7. Times(table', a) = Times(u, a)
    BY <1>13, TimesKept
  <2>8. /\ Over(table[i], a) \in UInt /\ Over(Mass, a) \in UInt /\ Over(m, a) \in UInt
        /\ Times(table, a) \in Nat
    BY ArcUInt, TimesNat DEF Over
  <2>9. QED
    BY <2>4, <2>5, <2>6, <2>7, <2>8 DEF UInt
<1>15. QED
  BY <1>14 DEF SameGround

\* A whole call is one step of Heap.tla.
LEMMA WholeIsNext ==
  ASSUME Whole
  PROVE  /\ Next /\ ~halted
         /\ UNCHANGED <<pc, arg, at, near, del, reg, before, seen, races>>
         /\ interrupted' = (interrupted \/ pc # "out")
  BY DEF Whole, Next, Allocate, Free, MergeStep, FoldIntoMass, NothingToFold

LEMMA GroundWhole ==
  ASSUME TypeOK, Whole, ~halted', faults' = {}
  PROVE  TypeOK' /\ SameGround
<1>1. Next
  BY WholeIsNext
<1>2. TypeOK'
  BY <1>1, TypeNext
<1>3. ASSUME NEW size \in Sizes, Allocate(size) PROVE SameGround
  <2>1. ~AllocateTooLarge(size)
    BY DEF AllocateTooLarge
  <2>2. QED
    BY <1>2, <1>3, <2>1, GroundExact, GroundCarve DEF Allocate
<1>4. ASSUME NEW p \in DATA_BASE .. DATA_END - 1, Free(p) PROVE SameGround
  BY <1>4, GroundFree
<1>5. ASSUME MergeStep PROVE SameGround
  BY <1>2, <1>5, GroundMerge
<1>6. ASSUME FoldIntoMass PROVE SameGround
  BY <1>2, <1>6, GroundFold
<1>7. ASSUME NothingToFold PROVE SameGround
  BY <1>7, GroundNothing
<1>8. SameGround
  BY <1>1, <1>3, <1>4, <1>5, <1>6, <1>7 DEF Next
<1>9. QED
  BY <1>2, <1>8

\* It leaves a held block alone that it is not called for.
LEMMA HeldKept ==
  ASSUME TypeOK, Whole, Counting', NEW k \in Index, table[k].state = "USED",
         table[k].ptr \in InHand
  PROVE  table'[k].state = "USED" /\ table'[k].size = table[k].size
<1>t. table \in [Index -> Entry]
  BY DEF TypeOK
<1>1. ASSUME NEW size \in Sizes, Allocate(size)
      PROVE  table'[k].state = "USED" /\ table'[k].size = table[k].size
  <2>1. ~AllocateTooLarge(size)
    BY DEF AllocateTooLarge, Counting
  <2>2. CASE AllocateExact(size)
    <3>1. PICK i \in Least(ExactFits(size)) : table' = [table EXCEPT ![i].state = "USED", ![i].bytes = size]
      BY <2>2 DEF AllocateExact
    <3>2. i \in Index /\ i # k
      BY DEF Least, ExactFits
    <3>3. QED
      BY <1>t, <3>1, <3>2
  <2>3. CASE AllocateCarve(size)
    <3> DEFINE mass   == [ptr   |-> Wrap(Mass.ptr + Align(size)),
                          size  |-> Wrap(Mass.size - Align(size)),
                          bytes |-> Wrap(Mass.bytes - size), state |-> "FREE"]
               carved == [table EXCEPT ![0] = mass]
               block  == [ptr |-> Wrap(mass.ptr - Align(size)), size |-> Align(size),
                          bytes |-> size, state |-> "USED"]
    <3>1. PICK i \in Least(FreeIndexes(carved)) : table' = [carved EXCEPT ![i] = block]
      BY <2>3 DEF AllocateCarve, Counting
    <3>2. k # 0
      BY <2>3 DEF AllocateCarve, Counting, Mass
    <3>3. carved[k] = table[k] /\ DOMAIN carved = Index
      BY <1>t, <3>2
    <3> HIDE DEF carved, block
    <3>4. i \in Index /\ carved[i].state = "FREE"
      BY DEF Least, FreeIndexes, EMPTY
    <3>5. QED
      BY <3>1, <3>3, <3>4
  <2>4. QED
    BY <1>1, <2>1, <2>2, <2>3 DEF Allocate
<1>2. ASSUME NEW p \in (DATA_BASE .. DATA_END - 1) \ InHand, Free(p)
      PROVE  table'[k].state = "USED" /\ table'[k].size = table[k].size
  <2>1. PICK i \in Least(Holding(p)) : table' = [table EXCEPT ![i].state = "FREE"]
    BY <1>2 DEF Free
  <2>2. i \in Index /\ i # k
    BY DEF Least, Holding
  <2>3. QED
    BY <1>t, <2>1, <2>2
<1>3. ASSUME MergeStep
      PROVE  table'[k].state = "USED" /\ table'[k].size = table[k].size
  <2>1. PICK i \in Least(Mergeable) : \E n \in Least(Nearest(i)) : MergeWith(i, n)
    BY <1>3 DEF MergeStep
  <2>2. PICK n \in Least(Nearest(i)) : MergeWith(i, n)
    BY <2>1
  <2>3. i \in Index /\ i # k /\ table[n].state = "FREE" /\ n \in Index
    BY DEF Least, Mergeable, Nearest
  <2> DEFINE t == [table EXCEPT ![i] = Merged(i, n)]
  <2>4. t[k] = table[k] /\ DOMAIN t = Index
    BY <1>t, <2>3
  <2>5. table' \in Deleted(t, table[n])
    BY <2>2 DEF MergeWith
  <2> HIDE DEF t
  <2>6. table' = t \/ \E j \in Index : t[j] = table[n] /\ table' = [t EXCEPT ![j] = EMPTY]
    BY <2>5 DEF Deleted, Least
  <2>7. table'[k] = t[k]
    BY <2>3, <2>4, <2>6
  <2>8. QED
    BY <2>4, <2>7
<1>4. ASSUME FoldIntoMass
      PROVE  table'[k].state = "USED" /\ table'[k].size = table[k].size
  <2>1. PICK i \in Least(BelowMass) : FoldBlock(i)
    BY <1>4 DEF FoldIntoMass
  <2>2. k # 0
    BY <1>4 DEF FoldIntoMass, Counting, Mass
  <2> DEFINE t == [table EXCEPT ![0] = Folded(i)]
  <2>3. t[k] = table[k] /\ DOMAIN t = Index
    BY <1>t, <2>2
  <2>4. i \in Index /\ t[i].state = "FREE"
    BY <1>t DEF Least, BelowMass, Folded
  <2>5. PICK u \in Deleted(t, t[i]) : table' = IF halted' THEN u ELSE [u EXCEPT ![0].bytes = u[0].size]
    BY <2>1 DEF FoldBlock
  <2> HIDE DEF t
  <2>6. u = t \/ \E j \in Index : t[j] = t[i] /\ u = [t EXCEPT ![j] = EMPTY]
    BY DEF Deleted, Least
  <2>7. u[k] = t[k] /\ DOMAIN u = Index
    BY <2>3, <2>4, <2>6
  <2>8. table'[k] = u[k]
    BY <2>2, <2>5, <2>7
  <2>9. QED
    BY <2>3, <2>7, <2>8
<1>5. ASSUME NothingToFold
      PROVE  table'[k].state = "USED" /\ table'[k].size = table[k].size
  <2>1. table' = [table EXCEPT ![0].bytes = Mass.size]
    BY <1>5 DEF NothingToFold
  <2>2. QED
    BY <1>t, <2>1, ZeroIndex DEF Entry
<1>6. QED
  BY <1>1, <1>2, <1>3, <1>4, <1>5 DEF Whole

-----------------------------------------------------------------------------
(* The invariant of a slow call.                                           *)

\* The places of the slow call between which neither the two entries it changes nor what it
\* owes the account are changed.
Asking    == {"search", "searchState", "take", "carve", "carvePtr"}
Around    == {"merge", "mergeState", "near", "nearSize", "end", "endSize", "endTest", "endState",
              "start", "startSize", "startTest", "startState", "compare", "compareWith"}
Under     == {"fold", "foldPtr", "foldSize", "foldTest", "foldState", "foldLower"}
Still     == {"out", "rest", "restStore"} \cup Finding \cup Asking \cup Around \cup Under
Cut       == {"carveSize", "carveSizeStore"}
Shrunk    == {"carveBytes", "carveBytesStore", "carveState", "address"}
Slots     == {"slot", "slotSize", "slotBytes", "slotState", "createPtr"}
Placed    == {"createSize"}
Sized     == {"createBytes", "createState"}
Counted   == {"takeBytes", "createAsked", "check", "checkSize", "checkAgain", "stamp", "count",
              "countSize", "countStore"}
Handing   == {"give"}
Freeing   == {"uncount", "uncountSize", "uncountStore"}
Lowering  == {"lower", "lowerStore"}
Growing   == {"grow", "growAdd", "growStore"}
Comparing == {"delete", "deleteSize", "deleteAgain", "same", "sameWith", "sameSize", "sameSizeWith",
              "sameBytes", "sameBytesWith", "sameState", "sameStateWith"}
Grown     == {"bytes", "bytesStore", "foldBytes", "free", "clear", "clearSize"} \cup Comparing
Cleared   == {"clearState", "clearThird", "clearLast"}

Phases  == {Still, Cut, Shrunk, Slots, Placed, Sized, Counted, Handing, Freeing, Lowering, Growing,
            Grown, Cleared}
Carving == Cut \cup Shrunk \cup Slots \cup Placed \cup Sized
Joining == Lowering \cup Growing \cup Grown \cup Cleared

\* What the variables of the slow call hold at each place of it.
Views == [ptr : UInt, size : UInt, state : {"FREE", "USED"}]

SlowTyped ==
  /\ pc \in (UNION Phases) \cup {"panic"}
  /\ arg \in UInt /\ (pc \in Asking \cup Carving \cup Counted => arg \in Sizes)
  /\ at \in Index /\ near \in Index /\ del \in Index
  /\ pc # "sameStateWith" => reg \in UInt
  /\ before[1] \in Views /\ before[2] \in Views /\ seen[1] \in Views /\ seen[2] \in Views

PTyped == TypeOK /\ SlowTyped

\* Every address of the region is described once and no other at all, but for what the slow
\* call has so far made of the two entries it changes.
Region(a) == IF a \in DATA_BASE .. DATA_END - 1 THEN 1 ELSE 0

Described ==
  \A a \in UInt :
    Times(table, a) = Region(a) + ((Over(seen[1], a) - Over(before[1], a))
                                    + (Over(seen[2], a) - Over(before[2], a)))

\* A carved mass entry moves before it shrinks, and the block is cut off before an entry
\* describes it;
StagedCarve ==
  /\ before[2] = View(EMPTY) /\ Align(arg) =< before[1].size
  /\ Over(before[1], 0) = 0 /\ Over(seen[2], 0) = 0
  /\ seen[1].ptr = Wrap(before[1].ptr + Align(arg)) /\ seen[1].state = "FREE"
  /\ seen[1].size = IF pc \in Cut THEN before[1].size ELSE before[1].size - Align(arg)
  /\ seen[2].state = "FREE"
  /\ seen[2].ptr = IF pc \in Placed \cup Sized THEN before[1].ptr ELSE 0
  /\ seen[2].size = IF pc \in Sized THEN Align(arg) ELSE 0
  /\ pc \in Slots => reg = before[1].ptr

\* a block that takes in the one below it moves down, grows and only then is the other cleared.
StagedJoin ==
  /\ Wrap(before[2].ptr + before[2].size) = before[1].ptr
  /\ Over(before[1], 0) = 0 /\ Over(before[2], 0) = 0
  /\ Over(seen[1], 0) = 0 /\ Over(seen[2], 0) = 0
  /\ seen[1].state = "FREE" /\ seen[2].state = "FREE"
  /\ seen[1].ptr = IF pc \in Lowering THEN before[1].ptr ELSE before[2].ptr
  /\ seen[1].size = IF pc \in Lowering \cup Growing THEN before[1].size
                                                    ELSE before[1].size + before[2].size
  /\ IF pc \in Cleared THEN seen[2].size = 0 ELSE seen[2] = before[2]

Staged ==
  /\ pc \in Carving => StagedCarve
  /\ pc \in Joining => StagedJoin
  /\ pc \notin Carving \cup Joining => seen = before

Ground == Described /\ Staged
Quiet  == ~halted /\ faults = {} /\ races \subseteq {"count"} /\ pc # "panic"

\* What is held and not yet counted, or counted and no longer held.
Owed ==
  IF pc \in Counted THEN -table[at].size ELSE IF pc \in Freeing THEN seen[1].size ELSE 0

InHandKept == pc \in Counted \cup Handing => table[at].state = "USED"

Balance  == InHandKept /\ (races = {} => data_used = Wrap(Amount(table) + Owed))
Balanced == Counting /\ races \subseteq {"count"} /\ pc # "panic" => Balance

PInv == PTyped /\ (Quiet => Ground) /\ Balanced

\* What a step of the slow call may assume.
Sound == PTyped /\ Ground /\ Balance /\ pc # "panic"

-----------------------------------------------------------------------------
(* The stores, and the steps that change nothing of this.                  *)

LEMMA StoreState ==
  ASSUME NEW t \in [Index -> Entry], NEW i \in Index, NEW v \in {"FREE", "USED"}, NEW u,
         u = [t EXCEPT ![i].state = v]
  PROVE  /\ u \in [Index -> Entry] /\ \A j \in Index \ {i} : u[j] = t[j]
         /\ u[i].ptr = t[i].ptr /\ u[i].size = t[i].size /\ u[i].state = v
  BY DEF Entry

LEMMA StoreBytes ==
  ASSUME NEW t \in [Index -> Entry], NEW i \in Index, NEW v \in UInt, NEW u,
         u = [t EXCEPT ![i].bytes = v]
  PROVE  u \in [Index -> Entry] /\ \A j \in Index : View(u[j]) = View(t[j])
<1>1. u \in [Index -> Entry] /\ \A j \in Index \ {i} : u[j] = t[j]
  BY DEF Entry
<1>2. u[i].ptr = t[i].ptr /\ u[i].size = t[i].size /\ u[i].state = t[i].state
  BY DEF Entry
<1>3. QED
  BY <1>1, <1>2 DEF View

\* A view tells the three fields.
LEMMA ViewFields ==
  ASSUME NEW e \in Entry
  PROVE  /\ View(e) \in Views /\ View(e).ptr = e.ptr /\ View(e).size = e.size
         /\ View(e).state = e.state /\ \A a : Over(View(e), a) = Over(e, a)
  BY DEF View, Views, Entry, Over

LEMMA SameView ==
  ASSUME NEW e \in Views, NEW f \in Views, e.ptr = f.ptr, e.size = f.size, e.state = f.state
  PROVE  e = f
  BY DEF Views

LEMMA OverBit ==
  ASSUME NEW e, NEW a
  PROVE  Over(e, a) \in {0, 1}
  BY ArcUInt DEF Over

LEMMA FollowingIn ==
  ASSUME NEW i \in Index
  PROVE  Following(i) \in Index
  BY HeapAssumption DEF Following, Index

LEMMA OnlyPhase ==
  ASSUME NEW S \in Phases, NEW T \in Phases, NEW p \in S, p \in T
  PROVE  S = T
  BY DEF Phases, Still, Finding, Asking, Around, Under, Cut, Shrunk, Slots, Placed, Sized, Counted,
         Handing, Freeing, Lowering, Growing, Grown, Comparing, Cleared

LEMMA OnePhase ==
  ASSUME NEW S \in Phases, NEW p \in S, NEW q \in S
  PROVE  \A T \in Phases : p \in T <=> q \in T
  BY OnlyPhase

\* A step inside a phase S that leaves the views of all entries as they are.
Calm(S) ==
  /\ pc \in S /\ pc' \in S \cup {"panic"}
  /\ UNCHANGED <<data_used, scan, halted, faults, arg, before, seen, races>>
  /\ table' \in [Index -> Entry] /\ \A j \in Index : View(table'[j]) = View(table[j])
  /\ at' \in Index /\ near' \in Index /\ del' \in Index
  /\ pc' # "sameStateWith" => reg' \in UInt
  /\ S = Slots => reg' = reg
  /\ S \in {Counted, Handing} => at' = at
  /\ pc' \in Asking => pc \in Asking

\* A table whose entries look the same describes the same and holds the same.
LEMMA ViewsKept ==
  ASSUME NEW t \in [Index -> Entry], NEW u \in [Index -> Entry],
         \A j \in Index : View(u[j]) = View(t[j])
  PROVE  /\ \A a \in UInt : Times(u, a) = Times(t, a)
         /\ Amount(u) = Amount(t)
         /\ \A j \in Index : u[j].ptr = t[j].ptr /\ u[j].size = t[j].size /\ u[j].state = t[j].state
<1>1. \A j \in Index : u[j].ptr = t[j].ptr /\ u[j].size = t[j].size /\ u[j].state = t[j].state
  BY ViewFields
<1>2. \A a \in UInt : Times(u, a) = Times(t, a)
  BY <1>1, TimesKept
<1>3. \A j \in Index : Part(u[j]) = Part(t[j])
  BY <1>1 DEF Part
<1>4. QED
  BY <1>1, <1>2, <1>3, AmountKept

LEMMA CalmTyped ==
  ASSUME PTyped, NEW S \in Phases, Calm(S)
  PROVE  PTyped'
<1>1. pc \in S /\ pc' \in S \cup {"panic"}
  BY DEF Calm
<1>2. pc' # "panic" => \A T \in Phases : pc \in T <=> pc' \in T
  BY <1>1, OnePhase
<1>3. pc' \in (UNION Phases) \cup {"panic"}
  BY <1>1
<1>4. "panic" \notin Asking \cup Carving \cup Counted
  BY DEF Asking, Carving, Cut, Shrunk, Slots, Placed, Sized, Counted
<1>5. Carving = Cut \cup Shrunk \cup Slots \cup Placed \cup Sized
      /\ {Cut, Shrunk, Slots, Placed, Sized, Counted} \subseteq Phases
  BY DEF Carving, Phases
<1>6. pc' \in Asking \cup Carving \cup Counted => pc \in Asking \cup Carving \cup Counted
  BY <1>2, <1>4, <1>5 DEF Calm
<1>7. TypeOK'
  BY DEF PTyped, TypeOK, Calm
<1>8. QED
  BY <1>3, <1>6, <1>7 DEF PTyped, SlowTyped, Calm

LEMMA CalmKeeps ==
  ASSUME Sound, NEW S \in Phases, Calm(S)
  PROVE  PInv'
<1>1. PTyped /\ PTyped'
  BY CalmTyped DEF Sound
<1>2. SUFFICES ASSUME pc' # "panic" PROVE Ground' /\ Balance'
  BY <1>1 DEF PInv, Quiet, Balanced
<1>3. \A T \in Phases : pc \in T <=> pc' \in T
  BY <1>2, OnePhase DEF Calm
<1>t. table \in [Index -> Entry] /\ table' \in [Index -> Entry] /\ at \in Index
  BY <1>1 DEF PTyped, TypeOK, SlowTyped
<1>4. /\ \A a \in UInt : Times(table', a) = Times(table, a)
      /\ Amount(table') = Amount(table)
      /\ \A j \in Index : /\ table'[j].ptr = table[j].ptr /\ table'[j].size = table[j].size
                          /\ table'[j].state = table[j].state
  BY <1>t, ViewsKept DEF Calm
<1>5. UNCHANGED <<data_used, arg, before, seen, races>>
  BY DEF Calm
<1>6. Described'
  BY <1>4, <1>5 DEF Sound, Ground, Described, Region
<1>7. /\ (pc \in Cut <=> pc' \in Cut)  /\ (pc \in Shrunk <=> pc' \in Shrunk)
      /\ (pc \in Slots <=> pc' \in Slots)  /\ (pc \in Placed <=> pc' \in Placed)
      /\ (pc \in Sized <=> pc' \in Sized)  /\ (pc \in Counted <=> pc' \in Counted)
      /\ (pc \in Handing <=> pc' \in Handing)  /\ (pc \in Freeing <=> pc' \in Freeing)
      /\ (pc \in Lowering <=> pc' \in Lowering)  /\ (pc \in Growing <=> pc' \in Growing)
      /\ (pc \in Grown <=> pc' \in Grown)  /\ (pc \in Cleared <=> pc' \in Cleared)
  BY <1>3 DEF Phases
<1>8. pc' \in Slots => reg' = reg
  <2>1. pc' \in Slots => S = Slots
    <3>1. pc' \in Slots => pc \in S /\ pc \in Slots
      BY <1>7 DEF Calm
    <3>2. Slots \in Phases
      BY DEF Phases
    <3>3. QED
      BY <3>1, <3>2, OnlyPhase
  <2>2. QED
    BY <2>1 DEF Calm
<1>9. pc' \in Counted \cup Handing => at' = at
  <2>1. pc' \in Counted => S = Counted
    BY <1>7, OnlyPhase DEF Phases, Calm
  <2>2. pc' \in Handing => S = Handing
    BY <1>7, OnlyPhase DEF Phases, Calm
  <2>3. QED
    BY <2>1, <2>2 DEF Calm
<1>10. Staged'
  BY <1>5, <1>7, <1>8 DEF Sound, Ground, Staged, StagedCarve, StagedJoin, Carving, Joining
<1>11. Balance'
  BY <1>t, <1>4, <1>5, <1>7, <1>9 DEF Sound, Balance, InHandKept, Owed
<1>12. QED
  BY <1>6, <1>10, <1>11 DEF Ground

LEMMA PhaseIn ==
  /\ Still \in Phases /\ Cut \in Phases /\ Shrunk \in Phases /\ Slots \in Phases
  /\ Placed \in Phases /\ Sized \in Phases /\ Counted \in Phases /\ Handing \in Phases
  /\ Freeing \in Phases /\ Lowering \in Phases /\ Growing \in Phases /\ Grown \in Phases
  /\ Cleared \in Phases
  BY DEF Phases

\* The operands of a slow step.
LEMMA Operands ==
  ASSUME PTyped
  PROVE  /\ table \in [Index -> Entry] /\ at \in Index /\ near \in Index /\ del \in Index
         /\ 0 \in Index /\ 0 \in UInt
         /\ Following(at) \in Index /\ Following(near) \in Index /\ Following(del) \in Index
         /\ \A i \in Index : /\ table[i] \in Entry /\ table[i].ptr \in UInt /\ table[i].size \in UInt
                             /\ table[i].bytes \in UInt /\ table[i].state \in {"FREE", "USED"}
         /\ data_used \in UInt
         /\ pc # "sameStateWith" => reg \in UInt
         /\ \A x, y \in UInt : Wrap(x + y) \in UInt /\ Wrap(x - y) \in UInt
<1>1. table \in [Index -> Entry] /\ at \in Index /\ near \in Index /\ del \in Index /\ data_used \in UInt
  BY DEF PTyped, SlowTyped, TypeOK
<1>2. Following(at) \in Index /\ Following(near) \in Index /\ Following(del) \in Index
  BY <1>1, FollowingIn
<1>3. \A i \in Index : /\ table[i] \in Entry /\ table[i].ptr \in UInt /\ table[i].size \in UInt
                       /\ table[i].bytes \in UInt /\ table[i].state \in {"FREE", "USED"}
  BY <1>1 DEF Entry
<1>4. \A x, y \in UInt : Wrap(x + y) \in UInt /\ Wrap(x - y) \in UInt
  BY WrapArith
<1>5. QED
  BY <1>1, <1>2, <1>3, <1>4, ZeroIndex DEF PTyped, SlowTyped

\* A load or a test leaves the table alone.
LEMMA LookCalm ==
  ASSUME PTyped, NEW S \in Phases, pc \in S, pc' \in S \cup {"panic"},
         UNCHANGED <<vars, arg, before, seen, races>>,
         at' \in Index, near' \in Index, del' \in Index,
         pc' # "sameStateWith" => reg' \in UInt,
         S = Slots => reg' = reg, S \in {Counted, Handing} => at' = at,
         pc' \in Asking => pc \in Asking
  PROVE  \E T \in Phases : Calm(T)
  BY DEF Calm, vars, PTyped, TypeOK

LEMMA NotOther ==
  /\ Still # Slots /\ Still \notin {Counted, Handing} /\ Cut # Slots /\ Cut \notin {Counted, Handing}
  /\ Shrunk # Slots /\ Shrunk \notin {Counted, Handing} /\ Counted # Slots
  /\ Slots \notin {Counted, Handing}
  /\ Freeing # Slots /\ Freeing \notin {Counted, Handing}
  /\ Lowering # Slots /\ Lowering \notin {Counted, Handing}
  /\ Growing # Slots /\ Growing \notin {Counted, Handing}
  /\ Grown # Slots /\ Grown \notin {Counted, Handing}
  /\ Placed # Slots /\ Placed \notin {Counted, Handing}
  /\ Sized # Slots /\ Sized \notin {Counted, Handing}
<1>1. /\ "out" \in Still /\ "carveSize" \in Cut /\ "carveBytes" \in Shrunk /\ "slot" \in Slots
      /\ "uncount" \in Freeing /\ "lower" \in Lowering /\ "grow" \in Growing /\ "free" \in Grown
      /\ "createSize" \in Placed /\ "createBytes" \in Sized
      /\ "count" \in Counted /\ "give" \in Handing
      /\ {"carveSize", "carveBytes", "slot", "uncount", "lower", "grow", "free", "createSize",
          "createBytes", "out"} \cap (Counted \cup Handing) = {}
      /\ {"carveSize", "carveBytes", "uncount", "lower", "grow", "free", "createSize",
          "createBytes", "out", "count"} \cap Slots = {}
  BY DEF Still, Cut, Shrunk, Slots, Freeing, Lowering, Growing, Grown, Placed, Sized, Counted, Handing
<1>2. QED
  BY <1>1

LEMMA LookAllocate ==
  ASSUME PTyped,
         \/ Search \/ Load("carve", Mass.ptr, "carvePtr")
         \/ Load("carveSize", Mass.size, "carveSizeStore")
         \/ Load("carveBytes", Mass.bytes, "carveBytesStore")
         \/ FreeIndex
  PROVE  \E T \in Phases : Calm(T)
<1>1. CASE Search \/ Load("carve", Mass.ptr, "carvePtr")
  <2>1. /\ pc \in Still /\ pc' \in Still /\ UNCHANGED <<vars, arg, before, seen, races>>
        /\ at' \in Index /\ near' \in Index /\ del' \in Index /\ reg' \in UInt /\ pc \in Asking
    BY <1>1, Operands DEF Search, Load, Test, Slow, Go, NextAt, Still, Asking, Mass
  <2>2. QED
    BY <2>1, PhaseIn, NotOther, LookCalm
<1>2. CASE Load("carveSize", Mass.size, "carveSizeStore")
  <2>1. /\ pc \in Cut /\ pc' \in Cut /\ UNCHANGED <<vars, arg, before, seen, races>>
        /\ at' \in Index /\ near' \in Index /\ del' \in Index /\ reg' \in UInt /\ pc' \notin Asking
    BY <1>2, Operands DEF Load, Slow, Go, Cut, Asking, Mass
  <2>2. QED
    BY <2>1, PhaseIn, NotOther, LookCalm
<1>3. CASE Load("carveBytes", Mass.bytes, "carveBytesStore")
  <2>1. /\ pc \in Shrunk /\ pc' \in Shrunk /\ UNCHANGED <<vars, arg, before, seen, races>>
        /\ at' \in Index /\ near' \in Index /\ del' \in Index /\ reg' \in UInt /\ pc' \notin Asking
    BY <1>3, Operands DEF Load, Slow, Go, Shrunk, Asking, Mass
  <2>2. QED
    BY <2>1, PhaseIn, NotOther, LookCalm
<1>4. CASE FreeIndex
  <2>1. /\ pc \in Slots /\ pc' \in Slots \cup {"panic"} /\ UNCHANGED <<vars, arg, before, seen, races>>
        /\ at' \in Index /\ near' \in Index /\ del' \in Index /\ reg' = reg /\ pc' \notin Asking
    BY <1>4, Operands DEF FreeIndex, Null, Slow, Go, NextAt, Slots, Asking
  <2>2. pc # "sameStateWith"
    BY <2>1 DEF Slots
  <2>3. QED
    BY <2>1, <2>2, Operands, PhaseIn, NotOther, LookCalm
<1>5. QED
  BY <1>1, <1>2, <1>3, <1>4

LEMMA LookCount ==
  ASSUME PTyped,
         \/ Test("check", ValidPtr(table[at].ptr), Go("checkSize"), Go("panic"))
         \/ Test("checkSize", table[at].size # 0, Go("checkAgain"), Go("panic"))
         \/ Test("checkAgain", table[at].size # 0, Go("stamp"), Go("panic"))
         \/ Load("count", data_used, "countSize")
         \/ Load("countSize", Wrap(reg + table[at].size), "countStore")
  PROVE  \E T \in Phases : Calm(T)
<1>1. /\ pc \in Counted /\ pc' \in Counted \cup {"panic"} /\ UNCHANGED <<vars, arg, before, seen, races>>
      /\ at' = at /\ near' \in Index /\ del' \in Index /\ reg' \in UInt /\ pc' \notin Asking
  BY Operands DEF Load, Test, Slow, Go, Counted, Asking
<1>2. QED
  BY <1>1, Operands, PhaseIn, NotOther, LookCalm

LEMMA LookFree ==
  ASSUME PTyped,
         \/ Find \/ Load("uncount", data_used, "uncountSize")
         \/ Load("uncountSize", Wrap(reg - table[at].size), "uncountStore")
         \/ Merge \/ GetNearest \/ Load("compare", table[at].ptr, "compareWith")
         \/ Load("lower", table[near].ptr, "lowerStore")
         \/ Fold \/ Load("rest", Mass.size, "restStore")
  PROVE  \E T \in Phases : Calm(T)
<1>1. CASE Find
  <2>1. /\ pc \in Still /\ pc' \in Still /\ UNCHANGED <<vars, arg, before, seen, races>>
        /\ at' \in Index /\ near' \in Index /\ del' \in Index /\ reg' \in UInt /\ pc' \notin Asking
    BY <1>1, Operands DEF Find, Test, Slow, Go, NextAt, Still, Finding, Asking
  <2>2. QED
    BY <2>1, PhaseIn, NotOther, LookCalm
<1>2. CASE \/ Load("uncount", data_used, "uncountSize")
           \/ Load("uncountSize", Wrap(reg - table[at].size), "uncountStore")
  <2>1. /\ pc \in Freeing /\ pc' \in Freeing /\ UNCHANGED <<vars, arg, before, seen, races>>
        /\ at' \in Index /\ near' \in Index /\ del' \in Index /\ reg' \in UInt /\ pc' \notin Asking
    BY <1>2, Operands DEF Load, Slow, Go, Freeing, Asking
  <2>2. QED
    BY <2>1, PhaseIn, NotOther, LookCalm
<1>3. CASE Merge \/ Load("compare", table[at].ptr, "compareWith")
  <2>1. /\ pc \in Still /\ pc' \in Still /\ UNCHANGED <<vars, arg, before, seen, races>>
        /\ at' \in Index /\ near' \in Index /\ del' \in Index /\ reg' \in UInt /\ pc' \notin Asking
    BY <1>3, Operands DEF Merge, Load, Test, Slow, Go, NextMerge, NextAt, Still, Around, Under, Asking
  <2>2. QED
    BY <2>1, PhaseIn, NotOther, LookCalm
<1>4. CASE GetNearest
  <2>1. /\ pc \in Still /\ pc' \in Still /\ UNCHANGED <<vars, arg, before, seen, races>>
        /\ at' \in Index /\ near' \in Index /\ del' \in Index /\ reg' \in UInt /\ pc' \notin Asking
    BY <1>4, Operands DEF GetNearest, Load, Test, Slow, Go, NotNear, Found, NextMerge, NextAt,
       NextNear, Still, Around, Under, Asking
  <2>2. QED
    BY <2>1, PhaseIn, NotOther, LookCalm
<1>5. CASE Load("lower", table[near].ptr, "lowerStore")
  <2>1. /\ pc \in Lowering /\ pc' \in Lowering /\ UNCHANGED <<vars, arg, before, seen, races>>
        /\ at' \in Index /\ near' \in Index /\ del' \in Index /\ reg' \in UInt /\ pc' \notin Asking
    BY <1>5, Operands DEF Load, Slow, Go, Lowering, Asking
  <2>2. QED
    BY <2>1, PhaseIn, NotOther, LookCalm
<1>6. CASE Fold \/ Load("rest", Mass.size, "restStore")
  <2>1. /\ pc \in Still /\ pc' \in Still /\ UNCHANGED <<vars, arg, before, seen, races>>
        /\ at' \in Index /\ near' \in Index /\ del' \in Index /\ reg' \in UInt /\ pc' \notin Asking
    BY <1>6, Operands DEF Fold, Load, Test, Slow, Go, NotBelow, NextNear, Still, Under, Asking, Mass
  <2>2. QED
    BY <2>1, PhaseIn, NotOther, LookCalm
<1>7. QED
  BY <1>1, <1>2, <1>3, <1>4, <1>5, <1>6

LEMMA LookJoin ==
  ASSUME PTyped,
         \/ Load("grow", table[at].size, "growAdd")
         \/ Load("growAdd", Wrap(reg + table[near].size), "growStore")
         \/ Load("bytes", table[at].size, "bytesStore")
         \/ DeleteEntry
  PROVE  \E T \in Phases : Calm(T)
<1>1. CASE \/ Load("grow", table[at].size, "growAdd")
           \/ Load("growAdd", Wrap(reg + table[near].size), "growStore")
  <2>1. /\ pc \in Growing /\ pc' \in Growing /\ UNCHANGED <<vars, arg, before, seen, races>>
        /\ at' \in Index /\ near' \in Index /\ del' \in Index /\ reg' \in UInt /\ pc' \notin Asking
    BY <1>1, Operands DEF Load, Slow, Go, Growing, Asking
  <2>2. QED
    BY <2>1, PhaseIn, NotOther, LookCalm
<1>2. CASE Load("bytes", table[at].size, "bytesStore")
  <2>1. /\ pc \in Grown /\ pc' \in Grown /\ UNCHANGED <<vars, arg, before, seen, races>>
        /\ at' \in Index /\ near' \in Index /\ del' \in Index /\ reg' \in UInt /\ pc' \notin Asking
    BY <1>2, Operands DEF Load, Slow, Go, Grown, Asking
  <2>2. QED
    BY <2>1, PhaseIn, NotOther, LookCalm
<1>3. CASE DeleteEntry
  <2>1. /\ pc \in Grown /\ pc' \in Grown \cup {"panic"} /\ UNCHANGED <<vars, arg, before, seen, races>>
        /\ at' \in Index /\ near' \in Index /\ del' \in Index
        /\ pc' # "sameStateWith" => reg' \in UInt
        /\ pc' \notin Asking
    BY <1>3, Operands DEF DeleteEntry, Same, Load, Test, Slow, Go, NextDel, Grown, Comparing, Asking
  <2>2. QED
    BY <2>1, PhaseIn, NotOther, LookCalm
<1>4. QED
  BY <1>1, <1>2, <1>3

\* A store of the size asked for, or of one that mm_info wants, concerns no other call.
LEMMA WriteCalm ==
  ASSUME PTyped, NEW S \in Phases, pc \in S, pc' \in S, NEW i \in Index, NEW v \in UInt, NEW next,
         Write(pc, [table EXCEPT ![i].bytes = v], next), S # Slots, pc' \notin Asking
  PROVE  \E T \in Phases : Calm(T)
<1>1. /\ table' = [table EXCEPT ![i].bytes = v] /\ reg' = 0
      /\ UNCHANGED <<data_used, scan, halted, faults, arg, before, seen, races, at, near, del>>
  BY DEF Write, Store, Go
<1>t. table \in [Index -> Entry]
  BY Operands
<1>2. table' \in [Index -> Entry] /\ \A j \in Index : View(table'[j]) = View(table[j])
  BY <1>t, <1>1, StoreBytes
<1>3. QED
  BY <1>1, <1>2, Operands DEF Calm

LEMMA WriteBytes ==
  ASSUME PTyped,
         \/ Write("takeBytes", [table EXCEPT ![at].bytes = arg], "check")
         \/ Write("carveBytesStore", [table EXCEPT ![0].bytes = Wrap(reg - arg)], "carveState")
         \/ Write("createBytes", [table EXCEPT ![at].bytes = Align(Align(arg))], "createState")
         \/ Write("createAsked", [table EXCEPT ![at].bytes = arg], "check")
         \/ Write("bytesStore", [table EXCEPT ![at].bytes = reg], "free")
         \/ Write("foldBytes", [table EXCEPT ![at].bytes = 0], "free")
         \/ Write("clear", [table EXCEPT ![del].bytes = 0], "clearSize")
         \/ Write("restStore", [table EXCEPT ![0].bytes = reg], "out")
  PROVE  \E T \in Phases : Calm(T)
<1>0. arg \in UInt /\ (pc \in Sized => Align(Align(arg)) \in UInt)
  <2>1. ASSUME NEW x \in UInt PROVE Align(x) \in UInt
    BY WrapUInt, HeapAssumption DEF Align, UInt
  <2>2. arg \in UInt
    BY DEF PTyped, SlowTyped
  <2>3. QED
    BY <2>1, <2>2
<1>1. CASE Write("takeBytes", [table EXCEPT ![at].bytes = arg], "check")
  <2>1. pc = "takeBytes" /\ pc' = "check" /\ pc \in Counted /\ pc' \in Counted /\ pc' \notin Asking
    BY <1>1 DEF Write, Store, Slow, Go, Counted, Asking
  <2>2. QED
    BY <1>0, <1>1, <2>1, Operands, PhaseIn, NotOther, WriteCalm
<1>2. CASE Write("carveBytesStore", [table EXCEPT ![0].bytes = Wrap(reg - arg)], "carveState")
  <2>1. /\ pc = "carveBytesStore" /\ pc' = "carveState" /\ pc \in Shrunk /\ pc' \in Shrunk
        /\ pc' \notin Asking /\ pc # "sameStateWith"
    BY <1>2 DEF Write, Store, Slow, Go, Shrunk, Asking
  <2>2. Wrap(reg - arg) \in UInt
    BY <1>0, <2>1, Operands
  <2>3. QED
    BY <1>2, <2>1, <2>2, Operands, PhaseIn, NotOther, WriteCalm
<1>3. CASE Write("createBytes", [table EXCEPT ![at].bytes = Align(Align(arg))], "createState")
  <2>1. /\ pc = "createBytes" /\ pc' = "createState" /\ pc \in Sized /\ pc' \in Sized
        /\ pc' \notin Asking
    BY <1>3 DEF Write, Store, Slow, Go, Sized, Asking
  <2>2. QED
    BY <1>0, <1>3, <2>1, Operands, PhaseIn, NotOther, WriteCalm
<1>4. CASE Write("createAsked", [table EXCEPT ![at].bytes = arg], "check")
  <2>1. pc = "createAsked" /\ pc' = "check" /\ pc \in Counted /\ pc' \in Counted /\ pc' \notin Asking
    BY <1>4 DEF Write, Store, Slow, Go, Counted, Asking
  <2>2. QED
    BY <1>0, <1>4, <2>1, Operands, PhaseIn, NotOther, WriteCalm
<1>5. CASE \/ Write("bytesStore", [table EXCEPT ![at].bytes = reg], "free")
           \/ Write("foldBytes", [table EXCEPT ![at].bytes = 0], "free")
           \/ Write("clear", [table EXCEPT ![del].bytes = 0], "clearSize")
  <2>1. /\ pc \in {"bytesStore", "foldBytes", "clear"} /\ pc' \in {"free", "clearSize"}
        /\ pc \in Grown /\ pc' \in Grown /\ pc' \notin Asking /\ pc # "sameStateWith"
    BY <1>5 DEF Write, Store, Slow, Go, Grown, Asking
  <2>2. reg \in UInt
    BY <2>1, Operands
  <2>3. \/ Write(pc, [table EXCEPT ![at].bytes = reg], "free")
        \/ Write(pc, [table EXCEPT ![at].bytes = 0], "free")
        \/ Write(pc, [table EXCEPT ![del].bytes = 0], "clearSize")
    BY <1>5 DEF Write, Store, Slow
  <2>4. QED
    BY <2>1, <2>2, <2>3, Operands, PhaseIn, NotOther, WriteCalm
<1>6. CASE Write("restStore", [table EXCEPT ![0].bytes = reg], "out")
  <2>1. /\ pc = "restStore" /\ pc' = "out" /\ pc \in Still /\ pc' \in Still /\ pc' \notin Asking
        /\ pc # "sameStateWith"
    BY <1>6 DEF Write, Store, Slow, Go, Still, Asking
  <2>2. QED
    BY <1>6, <2>1, Operands, PhaseIn, NotOther, WriteCalm
<1>7. QED
  BY <1>1, <1>2, <1>3, <1>4, <1>5, <1>6

\* The state of the block in hand is stored once more.
LEMMA WriteStamp ==
  ASSUME Sound, Write("stamp", [table EXCEPT ![at].state = "USED"], "count")
  PROVE  \E T \in Phases : Calm(T)
<1>1. /\ table' = [table EXCEPT ![at].state = "USED"] /\ reg' = 0
      /\ UNCHANGED <<data_used, scan, halted, faults, arg, before, seen, races, at, near, del>>
      /\ pc \in Counted /\ pc' \in Counted /\ pc' \notin Asking
  BY DEF Write, Store, Slow, Go, Counted, Asking
<1>2. table[at].state = "USED" /\ PTyped
  BY <1>1 DEF Sound, Balance, InHandKept
<1>t. table \in [Index -> Entry] /\ at \in Index /\ "USED" \in {"FREE", "USED"}
  BY <1>2, Operands
<1>3. /\ table' \in [Index -> Entry] /\ \A j \in Index \ {at} : table'[j] = table[j]
      /\ table'[at].ptr = table[at].ptr /\ table'[at].size = table[at].size
      /\ table'[at].state = "USED"
  BY <1>t, <1>1, StoreState
<1>4. \A j \in Index : View(table'[j]) = View(table[j])
  BY <1>2, <1>3 DEF View
<1>5. QED
  BY <1>1, <1>2, <1>3, <1>4, Operands, PhaseIn, NotOther DEF Calm

-----------------------------------------------------------------------------
(* What the stores that do change something rely on.                       *)

LEMMA StepTyped ==
  ASSUME PTyped, table' \in [Index -> Entry], data_used' \in UInt,
         UNCHANGED scan, halted' \in BOOLEAN, faults' \subseteq Fault,
         NEW S \in Phases, pc' \in S, arg' \in UInt,
         pc' \in Asking \cup Carving \cup Counted => arg' \in Sizes,
         at' \in Index, near' \in Index, del' \in Index, reg' \in UInt,
         before'[1] \in Views, before'[2] \in Views, seen'[1] \in Views, seen'[2] \in Views
  PROVE  PTyped'
<1>1. TypeOK'
  BY DEF PTyped, TypeOK
<1>2. QED
  BY <1>1 DEF PTyped, SlowTyped

LEMMA HistoryTyped ==
  ASSUME PTyped
  PROVE  /\ before[1] \in Views /\ before[2] \in Views /\ seen[1] \in Views /\ seen[2] \in Views
         /\ before[1].ptr \in UInt /\ before[1].size \in UInt /\ before[2].ptr \in UInt
         /\ before[2].size \in UInt /\ seen[1].ptr \in UInt /\ seen[1].size \in UInt
         /\ seen[2].ptr \in UInt /\ seen[2].size \in UInt
         /\ scan' = scan => scan' \in Index \cup {Idle, COUNT_MAX}
         /\ halted \in BOOLEAN /\ faults \subseteq Fault
         /\ arg \in UInt /\ (pc \in Asking \cup Carving \cup Counted => arg \in Sizes)
  BY DEF PTyped, SlowTyped, TypeOK, Views

LEMMA EmptyView ==
  /\ View(EMPTY) \in Views /\ View(EMPTY).ptr = 0 /\ View(EMPTY).size = 0
  /\ View(EMPTY).state = "FREE" /\ \A a \in UInt : Over(View(EMPTY), a) = 0
<1>1. EMPTY \in Entry
  BY ZeroIndex DEF EMPTY, Entry
<1>2. \A a \in UInt : Over(EMPTY, a) = 0
  BY ZeroIndex, ArcZero DEF Over
<1>3. QED
  BY <1>1, <1>2, ViewFields, ZeroIndex DEF EMPTY

LEMMA NothingTyped ==
  Nothing[1] = View(EMPTY) /\ Nothing[2] = View(EMPTY)
  BY DEF Nothing

\* A part of the address space in two.
LEMMA CutArc ==
  ASSUME NEW b \in Views, NEW s \in UInt, s =< b.size, NEW a \in UInt
  PROVE  Over(b, a) = Arc(b.ptr, s, a) + Arc(Wrap(b.ptr + s), b.size - s, a)
<1>1. b.ptr \in UInt /\ b.size \in UInt
  BY DEF Views
<1>2. b.size - s \in UInt /\ s + (b.size - s) = b.size /\ b.size < UINT
  BY <1>1, HeapAssumption DEF UInt
<1>3. Arc(b.ptr, s + (b.size - s), a) = Arc(b.ptr, s, a) + Arc(Wrap(b.ptr + s), b.size - s, a)
  BY <1>1, <1>2, ArcJoins
<1>4. QED
  BY <1>2, <1>3 DEF Over

\* Two neighbours, neither of which has address 0, in one.
LEMMA JoinArc ==
  ASSUME NEW b \in Views, NEW c \in Views, Wrap(c.ptr + c.size) = b.ptr, Over(b, 0) = 0, Over(c, 0) = 0
  PROVE  /\ b.size + c.size \in UInt /\ Wrap(b.size + c.size) = b.size + c.size
         /\ \A a \in UInt : Arc(c.ptr, b.size + c.size, a) = Over(b, a) + Over(c, a)
         /\ Arc(c.ptr, b.size + c.size, 0) = 0 /\ Arc(c.ptr, b.size, 0) = 0
<1>1. b.ptr \in UInt /\ b.size \in UInt /\ c.ptr \in UInt /\ c.size \in UInt /\ 0 \in UInt
  BY ZeroIndex DEF Views
<1>2. c.size + b.size < UINT
  BY <1>1, ArcsFit DEF Over
<1>3. b.size + c.size \in UInt /\ b.size + c.size = c.size + b.size
  BY <1>1, <1>2, HeapAssumption DEF UInt
<1>4. \A a \in UInt : Arc(c.ptr, c.size + b.size, a) = Arc(c.ptr, c.size, a) + Arc(Wrap(c.ptr + c.size), b.size, a)
  BY <1>1, <1>2, ArcJoins
<1>5. \A a \in UInt : Arc(c.ptr, b.size + c.size, a) = Over(b, a) + Over(c, a)
  <2> TAKE a \in UInt
  <2>1. Over(b, a) \in {0, 1} /\ Over(c, a) \in {0, 1}
    BY OverBit
  <2>2. Arc(c.ptr, c.size + b.size, a) = Over(c, a) + Over(b, a)
    BY <1>4 DEF Over
  <2>3. QED
    BY <1>3, <2>1, <2>2
<1>6. Arc(c.ptr, b.size + c.size, 0) = 0
  BY <1>1, <1>5
<1>7. Arc(c.ptr, b.size, 0) = 0
  <2>1. ~(Wrap(0 - c.ptr) < b.size + c.size)
    BY <1>6 DEF Arc
  <2>2. Wrap(0 - c.ptr) \in UInt
    BY <1>1, WrapUInt DEF UInt
  <2>3. ~(Wrap(0 - c.ptr) < b.size)
    BY <1>1, <2>1, <2>2 DEF UInt
  <2>4. QED
    BY <2>3 DEF Arc
<1>8. QED
  BY <1>3, <1>5, <1>6, <1>7, WrapId

\* The slow call knows what it makes of the first of its entries, and of the second.
LEMMA ChangeFirst ==
  ASSUME PTyped, PTyped', Described, NEW i \in Index, View(table[i]) = seen[1],
         \A j \in Index \ {i} : table'[j] = table[j],
         seen'[1] = View(table'[i]), seen'[2] = seen[2], UNCHANGED before
  PROVE  Described'
<1> SUFFICES ASSUME NEW a \in UInt
             PROVE  Times(table', a) = Region(a) + ((Over(seen'[1], a) - Over(before[1], a))
                                                     + (Over(seen'[2], a) - Over(before[2], a)))
  BY DEF Described, Region
<1>0. Aside(table, table', i)
  BY DEF Aside
<1>1. Times(table', a) = Times(table, a) + (Over(table'[i], a) - Over(table[i], a))
  BY <1>0, TimesMoves
<1>2. Over(table[i], a) = Over(seen[1], a) /\ Over(table'[i], a) = Over(seen'[1], a)
  BY Operands, ViewFields DEF PTyped, TypeOK
<1>3. Times(table, a) = Region(a) + ((Over(seen[1], a) - Over(before[1], a))
                                      + (Over(seen[2], a) - Over(before[2], a)))
  BY DEF Described
<1>4. /\ Over(seen[1], a) \in {0, 1} /\ Over(before[1], a) \in {0, 1} /\ Over(seen[2], a) \in {0, 1}
      /\ Over(before[2], a) \in {0, 1} /\ Over(seen'[1], a) \in {0, 1} /\ Region(a) \in {0, 1}
  BY OverBit DEF Region
<1>5. QED
  BY <1>1, <1>2, <1>3, <1>4

LEMMA ChangeSecond ==
  ASSUME PTyped, PTyped', Described, NEW i \in Index, View(table[i]) = seen[2],
         \A j \in Index \ {i} : table'[j] = table[j],
         seen'[2] = View(table'[i]), seen'[1] = seen[1], UNCHANGED before
  PROVE  Described'
<1> SUFFICES ASSUME NEW a \in UInt
             PROVE  Times(table', a) = Region(a) + ((Over(seen'[1], a) - Over(before[1], a))
                                                     + (Over(seen'[2], a) - Over(before[2], a)))
  BY DEF Described, Region
<1>0. Aside(table, table', i)
  BY DEF Aside
<1>1. Times(table', a) = Times(table, a) + (Over(table'[i], a) - Over(table[i], a))
  BY <1>0, TimesMoves
<1>2. Over(table[i], a) = Over(seen[2], a) /\ Over(table'[i], a) = Over(seen'[2], a)
  BY Operands, ViewFields DEF PTyped, TypeOK
<1>3. Times(table, a) = Region(a) + ((Over(seen[1], a) - Over(before[1], a))
                                      + (Over(seen[2], a) - Over(before[2], a)))
  BY DEF Described
<1>4. /\ Over(seen[1], a) \in {0, 1} /\ Over(before[1], a) \in {0, 1} /\ Over(seen[2], a) \in {0, 1}
      /\ Over(before[2], a) \in {0, 1} /\ Over(seen'[2], a) \in {0, 1} /\ Region(a) \in {0, 1}
  BY OverBit DEF Region
<1>5. QED
  BY <1>1, <1>2, <1>3, <1>4

\* When what it has seen makes up what was before, every address is described once.
Settled == \A a \in UInt : Times(table, a) = Region(a)

LEMMA SettledMeets ==
  ASSUME Described, \A a \in UInt : Over(seen[1], a) + Over(seen[2], a) = Over(before[1], a) + Over(before[2], a)
  PROVE  Settled
<1> SUFFICES ASSUME NEW a \in UInt PROVE Times(table, a) = Region(a)
  BY DEF Settled
<1>1. /\ Over(seen[1], a) \in {0, 1} /\ Over(before[1], a) \in {0, 1} /\ Over(seen[2], a) \in {0, 1}
      /\ Over(before[2], a) \in {0, 1} /\ Region(a) \in {0, 1}
  BY OverBit DEF Region
<1>2. QED
  BY <1>1 DEF Described

LEMMA SettledStill ==
  ASSUME Ground, pc \notin Carving \cup Joining
  PROVE  Settled /\ Times(table, 0) = 0 /\ \A i \in Index : Over(table[i], 0) = 0
<1>1. Settled
  BY SettledMeets DEF Ground, Staged
<1>2. Times(table, 0) = 0
  BY <1>1, ZeroIndex, HeapAssumption DEF Settled, Region
<1>3. QED
  BY <1>1, <1>2, OverUInt, TimesOf

\* A change begins or ends with both entries as they are.
LEMMA Settles ==
  ASSUME Settled, \A a \in UInt : Times(table', a) = Times(table, a), before' = seen'
  PROVE  Described'
<1> SUFFICES ASSUME NEW a \in UInt
             PROVE  Times(table', a) = Region(a) + ((Over(seen'[1], a) - Over(before'[1], a))
                                                     + (Over(seen'[2], a) - Over(before'[2], a)))
  BY DEF Described, Region
<1>1. Over(seen'[1], a) \in {0, 1} /\ Over(seen'[2], a) \in {0, 1} /\ Region(a) \in {0, 1}
  BY OverBit DEF Region
<1>2. QED
  BY <1>1 DEF Settled

-----------------------------------------------------------------------------
(* The account.                                                            *)

LEMMA OwedInt ==
  ASSUME PTyped
  PROVE  Owed \in Int /\ Amount(table) \in Int
<1>1. table[at].size \in UInt /\ seen[1].size \in UInt
  BY Operands, HistoryTyped
<1>2. Amount(table) \in Nat
  BY VolumeNat DEF Amount
<1>3. Owed \in Int
  BY <1>1 DEF Owed, UInt
<1>4. QED
  BY <1>2, <1>3

\* A step that neither takes, gives nor counts a block.
LEMMA BalanceKept ==
  ASSUME PTyped, PTyped', Balance, Owed = 0, Owed' = 0, UNCHANGED data_used, races' = {} => races = {},
         pc' \notin Counted \cup Handing, \A i \in Index : Part(table'[i]) = Part(table[i])
  PROVE  Balance'
<1>1. Amount(table') = Amount(table)
  BY AmountKept DEF PTyped, TypeOK
<1>2. QED
  BY <1>1 DEF Balance, InHandKept

\* One that changes an entry that is not held.
LEMMA PartsFree ==
  ASSUME NEW i \in Index, table[i].state = "FREE", table'[i].state = "FREE",
         \A j \in Index \ {i} : table'[j] = table[j]
  PROVE  \A j \in Index : Part(table'[j]) = Part(table[j])
  BY DEF Part

LEMMA Unowed ==
  /\ \A S \in {Still, Cut, Shrunk, Slots, Placed, Sized, Handing, Lowering, Growing, Grown, Cleared} :
       /\ pc \in S => Owed = 0
       /\ pc' \in S => Owed' = 0
  BY DEF Owed, Still, Finding, Asking, Around, Under, Cut, Shrunk, Slots, Placed, Sized, Counted,
         Handing, Freeing, Lowering, Growing, Grown, Comparing, Cleared

\* An entry that is taken or given up is owed to the account.
LEMMA BalanceMoves ==
  ASSUME PTyped, PTyped', Balance, Owed = 0, UNCHANGED data_used, races' = {} => races = {},
         NEW i \in Index, \A j \in Index \ {i} : table'[j] = table[j],
         Owed' = Part(table[i]) - Part(table'[i]), InHandKept'
  PROVE  Balance'
<1>1. table \in [Index -> Entry] /\ table' \in [Index -> Entry]
  BY DEF PTyped, TypeOK
<1>2. \A j \in Index \ {i} : Part(table'[j]) = Part(table[j])
  OBVIOUS
<1>3. Amount(table') = Amount(table) + (Part(table'[i]) - Part(table[i]))
  BY <1>1, <1>2, AmountMoves
<1>4. Part(table'[i]) \in Int /\ Part(table[i]) \in Int /\ Amount(table) \in Int
  BY <1>1, PartUInt, OwedInt DEF UInt
<1>5. Amount(table') + Owed' = Amount(table) + Owed
  BY <1>3, <1>4
<1>6. QED
  BY <1>5 DEF Balance

-----------------------------------------------------------------------------
(* mm_allocate's steps.                                                    *)

LEMMA PInvFrom ==
  ASSUME PTyped', Quiet' => Ground', Counting' /\ races' \subseteq {"count"} /\ pc' # "panic" => Balance'
  PROVE  PInv'
  BY DEF PInv, Balanced

\* Between the changes only the places move.
LEMMA StillKeeps ==
  ASSUME Sound, PTyped', pc \in Still \cup Handing, pc' \in Still,
         UNCHANGED <<table, data_used, before, seen, races>>
  PROVE  PInv'
<1>1. pc \notin Carving \cup Joining /\ pc' \notin Carving \cup Joining /\ pc' \notin Counted \cup Handing
  BY DEF Still, Finding, Asking, Around, Under, Carving, Cut, Shrunk, Slots, Placed, Sized, Counted,
         Handing, Joining, Lowering, Growing, Grown, Comparing, Cleared
<1>2. Ground'
  BY <1>1 DEF Sound, Ground, Described, Region, Staged
<1>3. Owed = 0 /\ Owed' = 0
  BY Unowed
<1>4. Balance'
  BY <1>1, <1>3 DEF Sound, Balance, InHandKept
<1>5. QED
  BY <1>2, <1>4, PInvFrom

LEMMA KeepsAsked ==
  ASSUME Sound, NEW size \in Sizes, Asked(size)
  PROVE  PInv'
<1>1. /\ pc = "out" /\ pc' \in {"out", "search"} /\ arg' = size /\ halted' \in BOOLEAN
      /\ UNCHANGED <<table, data_used, scan, faults, reg, before, seen, races, at, near, del>>
  BY DEF Asked, Slow, Go
<1>2. pc \in Still /\ pc' \in Still /\ pc # "sameStateWith" /\ size \in UInt
  BY <1>1, AlignSize DEF Still, Asking
<1>3. PTyped'
  BY <1>1, <1>2, Operands, HistoryTyped, PhaseIn, StepTyped DEF Sound
<1>4. QED
  BY <1>1, <1>2, <1>3, StillKeeps

LEMMA KeepsGive ==
  ASSUME Sound, Give
  PROVE  PInv'
<1>1. /\ pc = "give" /\ pc' = "out" /\ arg' = 0 /\ at' = 0
      /\ UNCHANGED <<vars, near, del, reg, before, seen, races>>
  BY DEF Give, Slow
<1>2. pc \in Handing /\ pc' \in Still /\ pc # "sameStateWith" /\ pc' \notin Asking \cup Carving \cup Counted
  BY <1>1 DEF Still, Handing, Asking, Carving, Cut, Shrunk, Slots, Placed, Sized, Counted
<1>3. PTyped'
  BY <1>1, <1>2, Operands, HistoryTyped, PhaseIn, StepTyped DEF Sound, vars
<1>4. QED
  BY <1>1, <1>2, <1>3, StillKeeps DEF vars

\* The block that fits is taken.
LEMMA KeepsTake ==
  ASSUME Sound,
         Change("take", [table EXCEPT ![at].state = "USED"], "takeBytes", "found", ~Fits(table[at]), seen)
  PROVE  PInv'
<1>1. /\ pc = "take" /\ pc' = "takeBytes" /\ table' = [table EXCEPT ![at].state = "USED"] /\ reg' = 0
      /\ UNCHANGED <<data_used, scan, halted, faults, arg, before, at, near, del>> /\ seen' = seen
      /\ (races' \subseteq {"count"} => Fits(table[at]) /\ races' = races)
  BY DEF Change, Store, Slow, Go, Raced
<1>t. PTyped /\ table \in [Index -> Entry] /\ at \in Index /\ "USED" \in {"FREE", "USED"}
  BY Operands DEF Sound
<1>2. /\ table' \in [Index -> Entry] /\ \A j \in Index \ {at} : table'[j] = table[j]
      /\ table'[at].ptr = table[at].ptr /\ table'[at].size = table[at].size /\ table'[at].state = "USED"
  <2>1. table' = [table EXCEPT ![at].state = "USED"]
    BY <1>1
  <2>2. QED
    BY <1>t, <2>1, StoreState
<1>3. /\ pc \in Still /\ pc \in Asking /\ pc' \in Counted
      /\ pc \notin Carving \cup Joining /\ pc' \notin Carving \cup Joining
  BY <1>1 DEF Still, Asking, Counted, Carving, Cut, Shrunk, Slots, Placed, Sized, Joining, Lowering,
         Growing, Grown, Comparing, Cleared
<1>4. PTyped'
  BY <1>1, <1>2, <1>3, <1>t, Operands, HistoryTyped, PhaseIn, StepTyped
<1>5. Ground'
  <2>1. \A a \in UInt : Times(table', a) = Times(table, a)
    BY <1>2, TimesKept
  <2>2. QED
    BY <1>1, <1>3, <2>1 DEF Sound, Ground, Described, Region, Staged
<1>6. ASSUME races' \subseteq {"count"} PROVE Balance'
  <2>1. table[at].state = "FREE" /\ races' = races
    BY <1>1, <1>6 DEF Fits
  <2>2. Owed = 0 /\ Owed' = -table[at].size /\ InHandKept'
    <3>1. Owed = 0
      BY <1>3, Unowed
    <3>2. Owed' = -table[at].size /\ InHandKept'
      BY <1>1, <1>2, <1>3 DEF Owed, InHandKept
    <3>3. QED
      BY <3>1, <3>2
  <2>3. Part(table[at]) = 0 /\ Part(table'[at]) = table[at].size /\ table[at].size \in Int
    BY <1>2, <1>t, <2>1, Operands DEF Part, UInt
  <2>4. Owed' = Part(table[at]) - Part(table'[at])
    BY <2>2, <2>3
  <2>5. QED
    BY <1>1, <1>2, <1>4, <1>t, <2>1, <2>2, <2>4, BalanceMoves DEF Sound
<1>7. QED
  BY <1>4, <1>5, <1>6, PInvFrom

\* The mass entry moves up by what is asked.
LEMMA KeepsCarvePtr ==
  ASSUME Sound, CarvePtr
  PROVE  PInv'
<1> DEFINE a == Align(arg)
<1>1. /\ pc = "carvePtr" /\ pc' = "carveSize" /\ table' = [table EXCEPT ![0].ptr = Wrap(reg + a)]
      /\ UNCHANGED <<data_used, scan, halted, arg, at, near, del>> /\ reg' = 0
      /\ before' = <<View(Mass), View(EMPTY)>> /\ seen' = <<View(table'[0]), View(EMPTY)>>
      /\ (races' \subseteq {"count"} => reg = Mass.ptr /\ races' = races)
      /\ (faults' = {} => ~(Mass.size < a) /\ Mass.state # "USED")
      /\ faults' \subseteq faults \cup {"mass_exhausted", "mass_used"}
  BY DEF CarvePtr, Store, Slow, Go, Raced
<1>3. /\ pc \in Still /\ pc \in Asking /\ pc' \in Cut /\ pc' \in Carving
      /\ pc' \notin Shrunk \cup Slots \cup Placed \cup Sized /\ pc # "sameStateWith"
      /\ pc \notin Carving \cup Joining /\ pc' \notin Joining /\ pc' \notin Counted \cup Handing
  BY <1>1 DEF Still, Asking, Counted, Handing, Carving, Cut, Shrunk, Slots, Placed, Sized, Joining, Lowering,
         Growing, Grown, Comparing, Cleared
<1>t. /\ PTyped /\ table \in [Index -> Entry] /\ 0 \in Index /\ arg \in Sizes /\ a \in UInt /\ 0 < a
      /\ Wrap(reg + a) \in UInt /\ Mass \in Entry /\ Mass = table[0] /\ reg \in UInt
  <2>1. PTyped /\ arg \in Sizes
    BY <1>3, HistoryTyped DEF Sound
  <2>2. reg \in UInt /\ 0 \in Index /\ a \in UInt /\ 0 < a
    BY <1>3, <2>1, Operands, AlignSize
  <2>3. QED
    BY <2>1, <2>2, Operands DEF Mass
<1> HIDE DEF a
<1>2. /\ table' \in [Index -> Entry] /\ \A j \in Index \ {0} : table'[j] = table[j]
      /\ table'[0].ptr = Wrap(reg + a) /\ table'[0].size = Mass.size /\ table'[0].state = Mass.state
  <2>1. table' = [table EXCEPT ![0].ptr = Wrap(reg + a)] /\ Wrap(reg + a) \in UInt
    BY <1>1, <1>t
  <2>2. table \in [Index -> Entry] /\ 0 \in Index
    BY <1>t
  <2>3. /\ table' \in [Index -> Entry] /\ \A j \in Index \ {0} : table'[j] = table[j]
        /\ table'[0].ptr = Wrap(reg + a) /\ table'[0].size = table[0].size
        /\ table'[0].state = table[0].state
    BY <2>1, <2>2 DEF Entry
  <2>4. QED
    BY <1>t, <2>3
<1>4. /\ before'[1] = View(Mass) /\ before'[2] = View(EMPTY)
      /\ seen'[1] = View(table'[0]) /\ seen'[2] = View(EMPTY) /\ table'[0] \in Entry
  BY <1>1, <1>2, <1>t
<1>5. /\ before'[1] \in Views /\ before'[1].ptr = Mass.ptr /\ before'[1].size = Mass.size
      /\ before'[1].state = Mass.state /\ \A x : Over(before'[1], x) = Over(table[0], x)
      /\ seen'[1] \in Views /\ seen'[1].ptr = Wrap(reg + a) /\ seen'[1].size = Mass.size
      /\ seen'[1].state = Mass.state /\ \A x : Over(seen'[1], x) = Over(table'[0], x)
  BY <1>2, <1>4, <1>t, ViewFields
<1>6. PTyped'
  <2>1. faults' \subseteq Fault /\ arg' \in Sizes /\ arg' \in UInt
    BY <1>1, <1>t, HistoryTyped DEF Fault
  <2>2. QED
    BY <1>1, <1>2, <1>3, <1>4, <1>5, <1>t, <2>1, Operands, EmptyView, HistoryTyped, PhaseIn, StepTyped
<1>7. ASSUME faults' = {}, races' \subseteq {"count"} PROVE Ground'
  <2>1. reg = Mass.ptr /\ ~(Mass.size < a) /\ Mass.state = "FREE" /\ Mass.size \in UInt
    BY <1>1, <1>7, <1>t, Operands
  <2>2. Settled /\ Over(table[0], 0) = 0
    BY <1>3, <1>t, SettledStill DEF Sound
  <2>3. Described'
    <3> SUFFICES ASSUME NEW x \in UInt
                 PROVE  Times(table', x) = Region(x) + ((Over(seen'[1], x) - Over(before'[1], x))
                                                         + (Over(seen'[2], x) - Over(before'[2], x)))
      BY DEF Described, Region
    <3>1. Aside(table, table', 0)
      BY <1>2 DEF Aside
    <3>2. Times(table', x) = Times(table, x) + (Over(table'[0], x) - Over(table[0], x))
      BY <1>t, <3>1, TimesMoves
    <3>3. Over(seen'[2], x) = 0 /\ Over(before'[2], x) = 0
      BY <1>4, EmptyView
    <3>4. Over(table'[0], x) \in {0, 1} /\ Over(table[0], x) \in {0, 1} /\ Region(x) \in {0, 1}
      BY OverBit DEF Region
    <3>5. QED
      BY <1>5, <2>2, <3>2, <3>3, <3>4 DEF Settled
  <2>4. StagedCarve'
    <3>1. a =< Mass.size
      BY <1>t, <2>1 DEF UInt
    <3>2. Over(View(EMPTY), 0) = 0
      BY ZeroIndex, EmptyView
    <3>3. QED
      BY <1>1, <1>3, <1>4, <1>5, <2>1, <2>2, <3>1, <3>2, EmptyView DEF StagedCarve, a
  <2>5. QED
    BY <1>3, <2>3, <2>4 DEF Ground, Staged
<1>8. ASSUME races' \subseteq {"count"} PROVE Balance'
  <2>1. \A j \in Index : Part(table'[j]) = Part(table[j])
    BY <1>2, <1>t DEF Part
  <2>2. Owed = 0 /\ Owed' = 0
    BY <1>3, Unowed
  <2>3. QED
    BY <1>1, <1>3, <1>6, <1>8, <1>t, <2>1, <2>2, BalanceKept DEF Sound
<1>9. QED
  BY <1>6, <1>7, <1>8, PInvFrom DEF Quiet

\* It shrinks by as much.
LEMMA KeepsCarveSize ==
  ASSUME Sound,
         Change("carveSizeStore", [table EXCEPT ![0].size = Wrap(reg - Align(arg))], "carveBytes",
                "mass", View(Mass) # seen[1] \/ reg # seen[1].size, <<View(table'[0]), seen[2]>>)
  PROVE  PInv'
<1> DEFINE a == Align(arg)
<1>1. /\ pc = "carveSizeStore" /\ pc' = "carveBytes"
      /\ UNCHANGED <<data_used, scan, halted, faults, arg, before, at, near, del>> /\ reg' = 0
      /\ seen' = <<View(table'[0]), seen[2]>>
      /\ (races' \subseteq {"count"} => View(Mass) = seen[1] /\ reg = seen[1].size /\ races' = races)
  BY DEF Change, Store, Slow, Go, Raced
<1>0. table' = [table EXCEPT ![0].size = Wrap(reg - a)]
  BY DEF Change, Store
<1>3. /\ pc \in Cut /\ pc' \in Shrunk /\ pc \in Carving /\ pc' \in Carving /\ pc # "sameStateWith"
      /\ pc' \notin Cut \cup Slots \cup Placed \cup Sized /\ pc \notin Slots \cup Placed \cup Sized
      /\ pc' \notin Joining /\ pc' \notin Counted \cup Handing
  BY <1>1 DEF Counted, Handing, Carving, Cut, Shrunk, Slots, Placed, Sized, Joining, Lowering,
         Growing, Grown, Comparing, Cleared
<1>t. /\ PTyped /\ table \in [Index -> Entry] /\ 0 \in Index /\ arg \in Sizes /\ arg \in UInt
      /\ a \in UInt /\ Wrap(reg - a) \in UInt
  <2>1. PTyped /\ arg \in Sizes /\ arg \in UInt
    BY <1>3, HistoryTyped DEF Sound
  <2>2. reg \in UInt /\ 0 \in Index /\ a \in UInt
    BY <1>3, <2>1, Operands, AlignSize
  <2>3. QED
    BY <2>1, <2>2, Operands
<1> HIDE DEF a
<1>2. /\ table' \in [Index -> Entry] /\ \A j \in Index \ {0} : table'[j] = table[j]
      /\ table'[0].ptr = table[0].ptr /\ table'[0].size = Wrap(reg - a)
      /\ table'[0].state = table[0].state
  BY <1>0, <1>t DEF Entry
<1>4. /\ seen'[1] = View(table'[0]) /\ seen'[2] = seen[2] /\ seen'[1] \in Views
      /\ seen'[1].ptr = table'[0].ptr /\ seen'[1].size = table'[0].size /\ seen'[1].state = table'[0].state
  BY <1>1, <1>2, <1>t, ViewFields
<1>6. PTyped'
  BY <1>1, <1>2, <1>3, <1>4, <1>t, Operands, HistoryTyped, PhaseIn, StepTyped
<1>7. SUFFICES ASSUME races' \subseteq {"count"} PROVE Ground' /\ Balance'
  BY <1>6, PInvFrom DEF Quiet
<1>8. /\ StagedCarve /\ View(table[0]) = seen[1] /\ reg = seen[1].size /\ races' = races
      /\ table[0].ptr = seen[1].ptr /\ table[0].size = seen[1].size /\ table[0].state = "FREE"
  <2>1. StagedCarve /\ View(table[0]) = seen[1] /\ reg = seen[1].size /\ races' = races
    BY <1>1, <1>3, <1>7 DEF Mass, Sound, Ground, Staged
  <2>2. table[0] \in Entry
    BY <1>t
  <2>3. QED
    BY <2>1, <2>2, ViewFields DEF StagedCarve
<1>9. Described'
  BY <1>1, <1>2, <1>4, <1>6, <1>8, <1>t, ChangeFirst DEF Sound, Ground
<1>10. reg = before[1].size /\ a =< before[1].size /\ Wrap(reg - a) = before[1].size - a
  <2>1. reg = before[1].size /\ a =< before[1].size /\ before[1].size \in UInt
    BY <1>3, <1>8, <1>t, HistoryTyped DEF StagedCarve, a
  <2>2. before[1].size - a \in UInt
    BY <1>t, <2>1, HeapAssumption DEF UInt
  <2>3. QED
    BY <2>1, <2>2, WrapId
<1>11. StagedCarve'
  BY <1>1, <1>2, <1>3, <1>4, <1>8, <1>10 DEF StagedCarve, a
<1>12. Balance'
  <2>1. table'[0].state = "FREE"
    BY <1>2, <1>8
  <2>2. \A j \in Index : Part(table'[j]) = Part(table[j])
    BY <1>2, <1>8, <1>t, <2>1, PartsFree
  <2>3. Owed = 0 /\ Owed' = 0
    BY <1>3, Unowed
  <2>4. QED
    BY <1>1, <1>3, <1>6, <1>8, <1>t, <2>2, <2>3, BalanceKept DEF Sound
<1>13. QED
  BY <1>3, <1>9, <1>11, <1>12 DEF Ground, Staged

\* A state is stored that is there already, unless somebody has changed it.
LEMMA KeepsFreeState ==
  ASSUME Sound, NEW S \in {Shrunk, Grown}, pc \in S, NEW i \in Index, NEW place \in S, NEW name,
         NEW next \in S, name # "count", next \notin Asking, next # "sameStateWith",
         Change(place, [table EXCEPT ![i].state = "FREE"], next, name, table[i].state # "FREE", seen)
  PROVE  PInv'
<1>1. /\ pc' = next /\ reg' = 0
      /\ UNCHANGED <<data_used, scan, halted, faults, arg, before, seen, at, near, del>>
      /\ (races' \subseteq {"count"} => table[i].state = "FREE" /\ races' = races)
  BY DEF Change, Store, Slow, Go, Raced
<1>0. table' = [table EXCEPT ![i].state = "FREE"]
  BY DEF Change, Store
<1>t. PTyped /\ table \in [Index -> Entry] /\ S \in Phases /\ S \notin {Slots, Counted, Handing}
  BY Operands, PhaseIn, NotOther DEF Sound
<1>2. /\ table' \in [Index -> Entry] /\ \A j \in Index \ {i} : table'[j] = table[j]
      /\ table'[i].ptr = table[i].ptr /\ table'[i].size = table[i].size /\ table'[i].state = "FREE"
  BY <1>0, <1>t DEF Entry
<1>3. pc' \in Asking \cup Carving \cup Counted => pc \in Asking \cup Carving \cup Counted
  <2>1. S = Shrunk => pc \in Carving
    BY DEF Carving
  <2>2. S = Grown => pc' \notin Asking \cup Carving \cup Counted
    BY <1>1 DEF Grown, Comparing, Asking, Carving, Cut, Shrunk, Slots, Placed, Sized, Counted
  <2>3. QED
    BY <2>1, <2>2
<1>4. PTyped'
  BY <1>1, <1>2, <1>3, <1>t, Operands, HistoryTyped, StepTyped
<1>5. SUFFICES ASSUME races' \subseteq {"count"} PROVE PInv'
  BY <1>4, PInvFrom DEF Quiet
<1>6. \A j \in Index : View(table'[j]) = View(table[j])
  BY <1>1, <1>2, <1>5 DEF View
<1>7. Calm(S)
  BY <1>1, <1>2, <1>5, <1>6, <1>t, Operands DEF Calm
<1>8. QED
  BY <1>7, <1>t, CalmKeeps

\* The address of the block.
LEMMA KeepsAddress ==
  ASSUME Sound, Address
  PROVE  PInv'
<1>1. /\ pc = "address" /\ pc' = "slot" /\ reg' = Wrap(Mass.ptr - Align(arg))
      /\ UNCHANGED <<vars, arg, before, seen, at, near, del>>
      /\ (races' \subseteq {"count"} => reg' = before[1].ptr /\ races' = races)
  BY DEF Address, Slow, Go, Raced
<1>2. UNCHANGED <<table, data_used, scan, halted, faults>>
  BY <1>1 DEF vars
<1>3. /\ pc \in Shrunk /\ pc' \in Slots /\ pc \in Carving /\ pc' \in Carving
      /\ pc' \notin Cut \cup Placed \cup Sized /\ pc \notin Cut \cup Slots \cup Placed \cup Sized
      /\ pc' \notin Joining /\ pc' \notin Counted \cup Handing
  BY <1>1 DEF Counted, Handing, Carving, Cut, Shrunk, Slots, Placed, Sized, Joining, Lowering,
         Growing, Grown, Comparing, Cleared
<1>t. PTyped /\ arg \in Sizes /\ Align(arg) \in UInt /\ Mass.ptr \in UInt
  BY <1>3, HistoryTyped, AlignSize, Operands DEF Sound, Mass
<1>4. PTyped'
  <2>1. reg' \in UInt
    BY <1>1, <1>t, Operands
  <2>2. QED
    BY <1>1, <1>2, <1>3, <1>t, <2>1, Operands, HistoryTyped, PhaseIn, StepTyped
<1>5. SUFFICES ASSUME races' \subseteq {"count"} PROVE Ground' /\ Balance'
  BY <1>4, PInvFrom DEF Quiet
<1>6. Described'
  BY <1>1, <1>2 DEF Sound, Ground, Described, Region
<1>7. StagedCarve'
  BY <1>1, <1>3, <1>5 DEF Sound, Ground, Staged, StagedCarve
<1>8. Balance'
  <2>1. Owed = 0 /\ Owed' = 0
    BY <1>3, Unowed
  <2>2. QED
    BY <1>1, <1>2, <1>3, <1>4, <1>5, <1>t, <2>1, BalanceKept DEF Sound
<1>9. QED
  BY <1>3, <1>6, <1>7, <1>8 DEF Ground, Staged

\* A store to one of the two entries, which is as the slow call has left it.
LEMMA ChangeKeeps ==
  ASSUME Sound, PTyped', NEW i \in Index, \A j \in Index \ {i} : table'[j] = table[j],
         pc \in Carving \cup Joining, pc' \in Carving \cup Joining, UNCHANGED <<data_used, before>>,
         races' \subseteq {"count"} =>
           /\ races' = races /\ table'[i].state = "FREE" /\ Staged'
           /\ \/ View(table[i]) = seen[1] /\ seen'[1] = View(table'[i]) /\ seen'[2] = seen[2]
              \/ View(table[i]) = seen[2] /\ seen'[2] = View(table'[i]) /\ seen'[1] = seen[1]
  PROVE  PInv'
<1>1. SUFFICES ASSUME races' \subseteq {"count"} PROVE Ground' /\ Balance'
  BY PInvFrom DEF Quiet
<1>t. PTyped /\ table[i] \in Entry
  BY Operands DEF Sound
<1>2. Described'
  BY <1>1, <1>t, ChangeFirst, ChangeSecond DEF Sound, Ground
<1>3. table[i].state = "FREE"
  <2>1. seen[1].state = "FREE" /\ seen[2].state = "FREE"
    BY DEF Sound, Ground, Staged, StagedCarve, StagedJoin
  <2>2. View(table[i]).state = table[i].state
    BY <1>t, ViewFields
  <2>3. QED
    BY <1>1, <2>1, <2>2
<1>4. Owed = 0 /\ Owed' = 0 /\ pc' \notin Counted \cup Handing
  <2>1. pc' \notin Counted \cup Handing
    BY DEF Carving, Joining, Counted, Handing, Cut, Shrunk, Slots, Placed, Sized, Lowering, Growing,
           Grown, Comparing, Cleared
  <2>2. QED
    BY <2>1, Unowed DEF Carving, Joining
<1>5. \A j \in Index : Part(table'[j]) = Part(table[j])
  BY <1>1, <1>3, PartsFree
<1>6. Balance'
  BY <1>1, <1>4, <1>5, <1>t, BalanceKept DEF Sound
<1>7. QED
  BY <1>1, <1>2, <1>6 DEF Ground

\* The entry for the block: its address and its size.
LEMMA KeepsCreatePtr ==
  ASSUME Sound,
         Change("createPtr", [table EXCEPT ![at].ptr = reg], "createSize",
                "slot", View(table[at]) # seen[2], <<seen[1], View(table'[at])>>)
  PROVE  PInv'
<1>1. /\ pc = "createPtr" /\ pc' = "createSize"
      /\ UNCHANGED <<data_used, scan, halted, faults, arg, before, at, near, del>> /\ reg' = 0
      /\ seen' = <<seen[1], View(table'[at])>>
      /\ (races' \subseteq {"count"} => View(table[at]) = seen[2] /\ races' = races)
  BY DEF Change, Store, Slow, Go, Raced
<1>0. table' = [table EXCEPT ![at].ptr = reg]
  BY DEF Change, Store
<1>3. /\ pc \in Slots /\ pc' \in Placed /\ pc \in Carving /\ pc' \in Carving /\ pc # "sameStateWith"
      /\ pc' \notin Cut \cup Shrunk \cup Slots \cup Sized /\ pc \notin Cut \cup Shrunk \cup Placed \cup Sized
      /\ pc' \notin Joining
  BY <1>1 DEF Carving, Cut, Shrunk, Slots, Placed, Sized, Joining, Lowering, Growing, Grown,
         Comparing, Cleared
<1>t. /\ PTyped /\ table \in [Index -> Entry] /\ at \in Index /\ arg \in Sizes /\ arg \in UInt
      /\ reg \in UInt
  BY <1>3, Operands, HistoryTyped DEF Sound
<1>2. /\ table' \in [Index -> Entry] /\ \A j \in Index \ {at} : table'[j] = table[j]
      /\ table'[at].ptr = reg /\ table'[at].size = table[at].size /\ table'[at].state = table[at].state
  BY <1>0, <1>t DEF Entry
<1>4. /\ seen'[2] = View(table'[at]) /\ seen'[1] = seen[1] /\ seen'[2] \in Views
      /\ seen'[2].ptr = reg /\ seen'[2].size = table[at].size /\ seen'[2].state = table[at].state
  BY <1>1, <1>2, <1>t, ViewFields
<1>5. PTyped'
  BY <1>1, <1>2, <1>3, <1>4, <1>t, Operands, HistoryTyped, PhaseIn, StepTyped
<1>6. ASSUME races' \subseteq {"count"} PROVE table'[at].state = "FREE" /\ StagedCarve'
  <2>1. StagedCarve /\ reg = before[1].ptr
    BY <1>3 DEF Sound, Ground, Staged, StagedCarve
  <2>2. table[at].size = 0 /\ table[at].state = "FREE"
    <3>1. View(table[at]) = seen[2] /\ table[at] \in Entry
      BY <1>1, <1>6, <1>t
    <3>2. seen[2].size = 0 /\ seen[2].state = "FREE"
      BY <1>3, <2>1 DEF StagedCarve
    <3>3. QED
      BY <3>1, <3>2, ViewFields
  <2>3. Over(seen'[2], 0) = 0
    BY <1>4, <1>t, <2>2, ArcZero, ZeroIndex DEF Over
  <2>4. QED
    BY <1>1, <1>2, <1>3, <1>4, <2>1, <2>2, <2>3 DEF StagedCarve
<1>7. QED
  BY <1>1, <1>2, <1>3, <1>4, <1>5, <1>6, <1>t, ChangeKeeps DEF Staged

LEMMA KeepsCreateSize ==
  ASSUME Sound,
         Change("createSize", [table EXCEPT ![at].size = Align(arg)], "createBytes",
                "slot", View(table[at]) # seen[2], <<seen[1], View(table'[at])>>)
  PROVE  PInv'
<1> DEFINE a == Align(arg)
<1>1. /\ pc = "createSize" /\ pc' = "createBytes"
      /\ UNCHANGED <<data_used, scan, halted, faults, arg, before, at, near, del>> /\ reg' = 0
      /\ seen' = <<seen[1], View(table'[at])>>
      /\ (races' \subseteq {"count"} => View(table[at]) = seen[2] /\ races' = races)
  BY DEF Change, Store, Slow, Go, Raced
<1>0. table' = [table EXCEPT ![at].size = a]
  BY DEF Change, Store
<1>3. /\ pc \in Placed /\ pc' \in Sized /\ pc \in Carving /\ pc' \in Carving /\ pc # "sameStateWith"
      /\ pc' \notin Cut \cup Shrunk \cup Slots \cup Placed /\ pc \notin Cut \cup Shrunk \cup Slots \cup Sized
      /\ pc' \notin Joining
  BY <1>1 DEF Carving, Cut, Shrunk, Slots, Placed, Sized, Joining, Lowering, Growing, Grown,
         Comparing, Cleared
<1>t. /\ PTyped /\ table \in [Index -> Entry] /\ at \in Index /\ arg \in Sizes /\ arg \in UInt
      /\ a \in UInt
  BY <1>3, Operands, HistoryTyped, AlignSize DEF Sound
<1> HIDE DEF a
<1>2. /\ table' \in [Index -> Entry] /\ \A j \in Index \ {at} : table'[j] = table[j]
      /\ table'[at].ptr = table[at].ptr /\ table'[at].size = a /\ table'[at].state = table[at].state
  BY <1>0, <1>t DEF Entry
<1>4. /\ seen'[2] = View(table'[at]) /\ seen'[1] = seen[1] /\ seen'[2] \in Views
      /\ seen'[2].ptr = table[at].ptr /\ seen'[2].size = a /\ seen'[2].state = table[at].state
  BY <1>1, <1>2, <1>t, ViewFields
<1>5. PTyped'
  BY <1>1, <1>2, <1>3, <1>4, <1>t, Operands, HistoryTyped, PhaseIn, StepTyped
<1>6. ASSUME races' \subseteq {"count"} PROVE table'[at].state = "FREE" /\ StagedCarve'
  <2>1. StagedCarve
    BY <1>3 DEF Sound, Ground, Staged
  <2>2. table[at].ptr = before[1].ptr /\ table[at].state = "FREE"
    <3>1. View(table[at]) = seen[2] /\ table[at] \in Entry
      BY <1>1, <1>6, <1>t
    <3>2. seen[2].ptr = before[1].ptr /\ seen[2].state = "FREE"
      BY <1>3, <2>1 DEF StagedCarve
    <3>3. QED
      BY <3>1, <3>2, ViewFields
  <2>3. Over(seen'[2], 0) = 0
    <3>1. before[1] \in Views /\ a =< before[1].size /\ Over(before[1], 0) = 0 /\ 0 \in UInt
      BY <1>t, <2>1, HistoryTyped, ZeroIndex DEF StagedCarve, a
    <3>2. 0 = Arc(before[1].ptr, a, 0) + Arc(Wrap(before[1].ptr + a), before[1].size - a, 0)
      BY <1>t, <3>1, CutArc
    <3>3. Arc(before[1].ptr, a, 0) \in {0, 1}
          /\ Arc(Wrap(before[1].ptr + a), before[1].size - a, 0) \in {0, 1}
      BY ArcUInt
    <3>4. Arc(before[1].ptr, a, 0) = 0
      BY <3>2, <3>3
    <3>5. QED
      BY <1>4, <2>2, <3>4 DEF Over
  <2>4. QED
    BY <1>1, <1>2, <1>3, <1>4, <2>1, <2>2, <2>3 DEF StagedCarve, a
<1>7. QED
  BY <1>1, <1>2, <1>3, <1>4, <1>5, <1>6, <1>t, ChangeKeeps DEF Staged

\* The block is described and held: the change is over.
LEMMA KeepsCreateState ==
  ASSUME Sound, CreateState
  PROVE  PInv'
<1>1. /\ pc = "createState" /\ pc' = "createAsked"
      /\ UNCHANGED <<data_used, scan, halted, faults, arg, at, near, del>> /\ reg' = 0
      /\ before' = Nothing /\ seen' = Nothing
      /\ (races' \subseteq {"count"} => View(table[at]) = seen[2] /\ races' = races)
  BY DEF CreateState, Store, Slow, Go, Raced
<1>0. table' = [table EXCEPT ![at].state = "USED"]
  BY DEF CreateState, Store
<1>3. /\ pc \in Sized /\ pc' \in Counted /\ pc \in Carving
      /\ pc \notin Cut \cup Shrunk \cup Slots \cup Placed /\ pc' \notin Carving \cup Joining
  BY <1>1 DEF Carving, Cut, Shrunk, Slots, Placed, Sized, Joining, Lowering, Growing, Grown,
         Comparing, Cleared, Counted
<1>t. PTyped /\ table \in [Index -> Entry] /\ at \in Index /\ arg \in Sizes /\ arg \in UInt
  BY <1>3, Operands, HistoryTyped DEF Sound
<1>2. /\ table' \in [Index -> Entry] /\ \A j \in Index \ {at} : table'[j] = table[j]
      /\ table'[at].ptr = table[at].ptr /\ table'[at].size = table[at].size
      /\ table'[at].state = "USED"
  BY <1>0, <1>t DEF Entry
<1>4. PTyped'
  BY <1>1, <1>2, <1>3, <1>t, Operands, HistoryTyped, EmptyView, NothingTyped, PhaseIn, StepTyped
<1>5. SUFFICES ASSUME races' \subseteq {"count"} PROVE Ground' /\ Balance'
  BY <1>4, PInvFrom DEF Quiet
<1>6. Ground'
  <2>1. \A x \in UInt : Over(seen[1], x) + Over(seen[2], x) = Over(before[1], x) + Over(before[2], x)
    <3> TAKE x \in UInt
    <3> DEFINE a == Align(arg)
    <3>1. /\ StagedCarve /\ a \in UInt /\ before[1] \in Views /\ a =< before[1].size
          /\ before[2] = View(EMPTY)
          /\ seen[1].ptr = Wrap(before[1].ptr + a) /\ seen[1].size = before[1].size - a
          /\ seen[2].ptr = before[1].ptr /\ seen[2].size = a
      BY <1>3, <1>t, AlignSize, HistoryTyped DEF Sound, Ground, Staged, StagedCarve
    <3> HIDE DEF a
    <3>2. Over(before[1], x) = Arc(before[1].ptr, a, x) + Arc(Wrap(before[1].ptr + a), before[1].size - a, x)
      BY <3>1, CutArc
    <3>3. Over(seen[1], x) \in {0, 1} /\ Over(seen[2], x) \in {0, 1}
      BY OverBit
    <3>4. Over(before[1], x) = Over(seen[2], x) + Over(seen[1], x) /\ Over(before[2], x) = 0
      BY <3>1, <3>2, EmptyView DEF Over
    <3>5. QED
      BY <3>3, <3>4
  <2>2. Settled
    BY <2>1, SettledMeets DEF Sound, Ground
  <2>3. \A x \in UInt : Times(table', x) = Times(table, x)
    BY <1>2, TimesKept
  <2>4. Described'
    BY <1>1, <2>2, <2>3, Settles
  <2>5. QED
    BY <1>1, <1>3, <2>4 DEF Ground, Staged
<1>7. Balance'
  <2>1. table[at].state = "FREE"
    <3>1. View(table[at]) = seen[2] /\ table[at] \in Entry /\ seen[2].state = "FREE"
      BY <1>1, <1>3, <1>5, <1>t DEF Sound, Ground, Staged, StagedCarve
    <3>2. QED
      BY <3>1, ViewFields
  <2>2. Owed = 0 /\ Owed' = -table[at].size /\ InHandKept'
    <3>1. Owed = 0
      BY <1>3, Unowed
    <3>2. Owed' = -table[at].size /\ InHandKept'
      BY <1>1, <1>2, <1>3 DEF Owed, InHandKept
    <3>3. QED
      BY <3>1, <3>2
  <2>3. Part(table[at]) = 0 /\ Part(table'[at]) = table[at].size
    BY <1>2, <2>1 DEF Part
  <2>s. table[at].size \in Int
    <3>1. table[at].size \in UInt
      BY <1>t, Operands
    <3>2. QED
      BY <3>1 DEF UInt
  <2>4. Owed' = Part(table[at]) - Part(table'[at])
    BY <2>2, <2>3, <2>s
  <2>5. /\ Owed = 0 /\ InHandKept' /\ UNCHANGED data_used /\ Balance /\ (races' = {} => races = {})
        /\ \A j \in Index \ {at} : table'[j] = table[j]
    BY <1>1, <1>2, <1>5, <2>2 DEF Sound
  <2>6. QED
    BY <1>4, <1>t, <2>4, <2>5, BalanceMoves
<1>8. QED
  BY <1>6, <1>7

\* The sum.
LEMMA KeepsCountStore ==
  ASSUME Sound, CountStore
  PROVE  PInv'
<1>1. /\ pc = "countStore" /\ pc' = "give" /\ data_used' = reg /\ reg' = 0
      /\ UNCHANGED <<table, scan, halted, faults, arg, before, seen, at, near, del>>
      /\ (races' = {} => reg = Wrap(data_used + table[at].size) /\ races = {})
  BY DEF CountStore, Slow, Go, Raced
<1>2. /\ pc \in Counted /\ pc' \in Handing /\ pc # "sameStateWith"
      /\ pc' \notin Carving \cup Joining \cup Asking \cup Counted /\ pc \notin Carving \cup Joining
  BY <1>1 DEF Asking, Carving, Cut, Shrunk, Slots, Placed, Sized, Joining, Lowering, Growing, Grown,
         Comparing, Cleared, Counted, Handing
<1>3. PTyped'
  BY <1>1, <1>2, Operands, HistoryTyped, PhaseIn, StepTyped DEF Sound
<1>4. Ground'
  BY <1>1, <1>2 DEF Sound, Ground, Described, Region, Staged
<1>5. InHandKept'
  BY <1>1, <1>2 DEF Sound, Balance, InHandKept
<1>6. ASSUME races' = {} PROVE data_used' = Wrap(Amount(table') + Owed')
  <2>1. Owed = -table[at].size /\ Owed' = 0
    BY <1>2, Unowed DEF Owed
  <2>2. data_used = Wrap(Amount(table) + (-table[at].size)) /\ data_used' = Wrap(data_used + table[at].size)
    BY <1>1, <1>6, <2>1 DEF Sound, Balance
  <2>3. table[at].size \in UInt /\ Amount(table) \in Int
    BY Operands, OwedInt DEF Sound
  <2>4. /\ table[at].size \in Int /\ Amount(table) + (-table[at].size) \in Int
        /\ (Amount(table) + (-table[at].size)) + table[at].size = Amount(table) + 0
    BY <2>3 DEF UInt
  <2>5. Wrap(Wrap(Amount(table) + (-table[at].size)) + table[at].size) = Wrap(Amount(table) + 0)
    BY <2>4, WrapTwice
  <2>6. QED
    BY <1>1, <2>1, <2>2, <2>5
<1>7. QED
  BY <1>3, <1>4, <1>5, <1>6, PInvFrom DEF Balance

-----------------------------------------------------------------------------
(* mm_free's steps.                                                        *)

LEMMA KeepsFreed ==
  ASSUME Sound, NEW p \in DATA_BASE .. DATA_END - 1, Freed(p)
  PROVE  PInv'
<1>1. /\ pc = "out" /\ pc' = "find" /\ arg' = p
      /\ UNCHANGED <<table, data_used, scan, halted, faults, at, near, del, reg, before, seen, races>>
  BY DEF Freed, Slow, vars
<1>2. /\ pc \in Still /\ pc' \in Still /\ pc # "sameStateWith" /\ p \in UInt
      /\ pc' \notin Asking \cup Carving \cup Counted
  BY <1>1, HeapAssumption DEF Still, Finding, Asking, Carving, Cut, Shrunk, Slots, Placed, Sized,
     Counted, UInt
<1>3. PTyped'
  BY <1>1, <1>2, Operands, HistoryTyped, PhaseIn, StepTyped DEF Sound
<1>4. QED
  BY <1>1, <1>2, <1>3, StillKeeps

\* The block is given up.
LEMMA KeepsRelease ==
  ASSUME Sound, Release
  PROVE  PInv'
<1>1. /\ pc = "release" /\ pc' = "uncount" /\ reg' = 0
      /\ UNCHANGED <<data_used, scan, halted, faults, arg, at, near, del>>
      /\ before' = <<View(table[at]), View(EMPTY)>> /\ seen' = before'
      /\ (races' \subseteq {"count"} => at \in Holding(arg) /\ races' = races)
  BY DEF Release, Store, Slow, Go, Raced
<1>0. table' = [table EXCEPT ![at].state = "FREE"]
  BY DEF Release, Store
<1>3. /\ pc \in Still /\ pc' \in Freeing /\ pc # "sameStateWith" /\ pc' \notin Counted \cup Handing
      /\ pc \notin Carving \cup Joining /\ pc' \notin Carving \cup Joining \cup Asking
  BY <1>1 DEF Still, Finding, Freeing, Asking, Counted, Handing, Carving, Cut, Shrunk, Slots, Placed,
         Sized, Joining, Lowering, Growing, Grown, Comparing, Cleared
<1>t. PTyped /\ table \in [Index -> Entry] /\ at \in Index /\ table[at] \in Entry /\ table[at].size \in UInt
  BY Operands DEF Sound
<1>2. /\ table' \in [Index -> Entry] /\ \A j \in Index \ {at} : table'[j] = table[j]
      /\ table'[at].ptr = table[at].ptr /\ table'[at].size = table[at].size
      /\ table'[at].state = "FREE"
  BY <1>0, <1>t DEF Entry
<1>4. /\ before'[1] = View(table[at]) /\ before'[2] = View(EMPTY) /\ seen' = before'
      /\ before'[1] \in Views /\ before'[2] \in Views /\ seen'[1].size = table[at].size
  BY <1>1, <1>t, ViewFields, EmptyView
<1>5. PTyped'
  BY <1>1, <1>2, <1>3, <1>4, <1>t, Operands, HistoryTyped, PhaseIn, StepTyped
<1>6. Ground'
  <2>1. \A a \in UInt : Times(table', a) = Times(table, a)
    BY <1>2, TimesKept
  <2>2. Settled
    BY <1>3, SettledStill DEF Sound
  <2>3. Described'
    BY <1>4, <2>1, <2>2, Settles
  <2>4. QED
    BY <1>3, <1>4, <2>3 DEF Ground, Staged
<1>7. ASSUME races' \subseteq {"count"} PROVE Balance'
  <2>1. table[at].state = "USED"
    BY <1>1, <1>7 DEF Holding
  <2>2. Owed = 0 /\ Owed' = table[at].size
    <3>1. Owed = 0
      BY <1>3, Unowed
    <3>2. Owed' = table[at].size
      BY <1>3, <1>4 DEF Owed
    <3>3. QED
      BY <3>1, <3>2
  <2>3. Part(table[at]) = table[at].size /\ Part(table'[at]) = 0
    BY <1>2, <2>1 DEF Part
  <2>4. table[at].size \in Int
    BY <1>t DEF UInt
  <2>5. Owed' = Part(table[at]) - Part(table'[at])
    BY <2>2, <2>3, <2>4
  <2>6. /\ Owed = 0 /\ InHandKept' /\ UNCHANGED data_used /\ Balance /\ (races' = {} => races = {})
        /\ \A j \in Index \ {at} : table'[j] = table[j]
    BY <1>1, <1>2, <1>3, <1>7, <2>2 DEF Sound, InHandKept
  <2>7. QED
    BY <1>5, <1>t, <2>5, <2>6, BalanceMoves
<1>8. QED
  BY <1>5, <1>6, <1>7, PInvFrom

\* It is taken off the sum.
LEMMA KeepsUncountStore ==
  ASSUME Sound, UncountStore
  PROVE  PInv'
<1>1. /\ pc = "uncountStore" /\ pc' = "merge" /\ data_used' = reg /\ reg' = 0 /\ arg' = 0 /\ at' = 0
      /\ UNCHANGED <<table, scan, halted, faults, near, del>> /\ before' = Nothing /\ seen' = Nothing
      /\ (races' = {} => reg = Wrap(data_used - seen[1].size) /\ races = {})
  BY DEF UncountStore, Slow, Raced
<1>2. /\ pc \in Freeing /\ pc' \in Still /\ pc # "sameStateWith" /\ pc' \notin Counted \cup Handing
      /\ pc' \notin Carving \cup Joining \cup Asking \cup Counted /\ pc \notin Carving \cup Joining \cup Counted
  BY <1>1 DEF Asking, Carving, Cut, Shrunk, Slots, Placed, Sized, Joining, Lowering, Growing, Grown,
         Comparing, Cleared, Counted, Handing, Freeing, Still, Around
<1>3. PTyped'
  BY <1>1, <1>2, Operands, HistoryTyped, EmptyView, NothingTyped, PhaseIn, StepTyped DEF Sound
<1>4. Ground'
  <2>1. Settled
    BY <1>2, SettledStill DEF Sound
  <2>2. Described'
    BY <1>1, <2>1, Settles
  <2>3. QED
    BY <1>1, <1>2, <2>2 DEF Ground, Staged
<1>5. InHandKept'
  BY <1>2 DEF InHandKept
<1>6. ASSUME races' = {} PROVE data_used' = Wrap(Amount(table') + Owed')
  <2>1. Owed = seen[1].size /\ Owed' = 0
    BY <1>2, Unowed DEF Owed
  <2>2. data_used = Wrap(Amount(table) + seen[1].size) /\ data_used' = Wrap(data_used - seen[1].size)
    BY <1>1, <1>6, <2>1 DEF Sound, Balance
  <2>3. seen[1].size \in UInt /\ Amount(table) \in Int
    BY HistoryTyped, OwedInt DEF Sound
  <2>4. /\ -seen[1].size \in Int /\ Amount(table) + seen[1].size \in Int
        /\ (Amount(table) + seen[1].size) + (-seen[1].size) = Amount(table) + 0
    BY <2>3 DEF UInt
  <2>5. Wrap(Wrap(Amount(table) + seen[1].size) + (-seen[1].size)) = Wrap(Amount(table) + 0)
    BY <2>4, WrapTwice
  <2>6. data_used - seen[1].size = data_used + (-seen[1].size)
    <3>1. data_used \in UInt
      BY Operands DEF Sound
    <3>2. QED
      BY <2>3, <3>1 DEF UInt
  <2>7. QED
    BY <1>1, <2>1, <2>2, <2>5, <2>6
<1>7. QED
  BY <1>3, <1>4, <1>5, <1>6, PInvFrom DEF Balance

-----------------------------------------------------------------------------
(* mm_merge_nearest's steps.                                               *)

\* A decision about the entries i and near: both blocks are free, one below the other.
LEMMA DecisionKeeps ==
  ASSUME Sound, PTyped', NEW i \in Index, pc \in Still, pc' \in Joining,
         UNCHANGED <<table, data_used>>,
         before' = <<View(table[i]), View(table[near])>>, seen' = before',
         races' \subseteq {"count"} => races' = races,
         Quiet' => /\ pc' \in Lowering /\ table[i].state = "FREE" /\ table[near].state = "FREE"
                   /\ Wrap(table[near].ptr + table[near].size) = table[i].ptr
  PROVE  PInv'
<1>1. /\ PTyped /\ near \in Index /\ table[i] \in Entry /\ table[near] \in Entry
  BY Operands DEF Sound
<1>2. pc \notin Carving \cup Joining /\ pc' \notin Counted \cup Handing /\ pc' \notin Carving
  BY DEF Still, Finding, Asking, Around, Under, Carving, Cut, Shrunk, Slots, Placed, Sized, Counted,
         Handing, Joining, Lowering, Growing, Grown, Comparing, Cleared
<1>3. Settled /\ Over(table[i], 0) = 0 /\ Over(table[near], 0) = 0
  BY <1>1, <1>2, SettledStill DEF Sound
<1>4. /\ before'[1] = View(table[i]) /\ before'[2] = View(table[near]) /\ seen' = before'
      /\ before'[1].ptr = table[i].ptr /\ before'[1].state = table[i].state
      /\ before'[2].ptr = table[near].ptr /\ before'[2].size = table[near].size
      /\ before'[2].state = table[near].state
      /\ Over(before'[1], 0) = Over(table[i], 0) /\ Over(before'[2], 0) = Over(table[near], 0)
  BY <1>1, ViewFields
<1>5. Described'
  BY <1>3, <1>4, Settles
<1>6. Quiet' => Ground'
  <2>1. pc' \in Lowering => pc' \notin Cleared /\ pc' \in Joining
    BY DEF Lowering, Cleared, Joining
  <2>2. Quiet' => StagedJoin'
    BY <1>3, <1>4, <2>1 DEF StagedJoin
  <2>3. QED
    BY <1>2, <1>5, <2>2 DEF Ground, Staged
<1>7. ASSUME races' \subseteq {"count"} PROVE Balance'
  <2>1. Owed = 0 /\ Owed' = 0
    BY Unowed DEF Joining
  <2>2. QED
    BY <1>1, <1>2, <1>7, <2>1, BalanceKept DEF Sound
<1>8. QED
  BY <1>6, <1>7, PInvFrom

LEMMA KeepsCompare ==
  ASSUME Sound, Compare
  PROVE  PInv'
<1>1. /\ pc = "compareWith" /\ pc' = (IF reg > table[near].ptr THEN "lower" ELSE "grow") /\ reg' = 0
      /\ UNCHANGED <<table, data_used, scan, halted, arg, at, near, del>>
      /\ before' = <<View(table[at]), View(table[near])>> /\ seen' = before'
      /\ (races' \subseteq {"count"} => Neighbours /\ reg = table[at].ptr /\ races' = races)
      /\ (faults' = {} => table[near].ptr + table[near].size = table[at].ptr)
      /\ faults' \subseteq faults \cup {"false_merge"}
  BY DEF Compare, Begin, Slow, Go, Raced
<1>2. /\ pc \in Still /\ pc' \in {"lower", "grow"} /\ pc' \in Joining /\ pc # "sameStateWith"
      /\ pc' \notin Asking \cup Carving \cup Counted
  BY <1>1 DEF Still, Around, Joining, Lowering, Growing, Asking, Carving, Cut, Shrunk, Slots, Placed,
     Sized, Counted
<1>t. /\ PTyped /\ at \in Index /\ near \in Index /\ table[at] \in Entry /\ table[near] \in Entry
      /\ table[at].ptr \in UInt /\ table[near].ptr \in UInt /\ table[near].size \in UInt
  BY Operands DEF Sound
<1>3. /\ before'[1] \in Views /\ before'[2] \in Views /\ seen'[1] \in Views /\ seen'[2] \in Views
  BY <1>1, <1>t, ViewFields
<1>4. PTyped'
  <2>1. faults' \subseteq Fault
    BY <1>1, <1>t, HistoryTyped DEF Fault
  <2>2. pc' \in Lowering \/ pc' \in Growing
    BY <1>2 DEF Lowering, Growing
  <2>3. QED
    BY <1>1, <1>2, <1>3, <1>t, <2>1, <2>2, Operands, HistoryTyped, PhaseIn, StepTyped
<1>5. ASSUME Quiet'
      PROVE  /\ pc' \in Lowering /\ table[at].state = "FREE" /\ table[near].state = "FREE"
             /\ Wrap(table[near].ptr + table[near].size) = table[at].ptr
  <2>1. /\ reg = table[at].ptr /\ table[near].ptr + table[near].size = table[at].ptr
        /\ table[at].state = "FREE" /\ table[near].state = "FREE" /\ table[near].size > 0
    BY <1>1, <1>5 DEF Quiet, Neighbours, Nearest
  <2>2. reg > table[near].ptr
    BY <1>t, <2>1 DEF UInt
  <2>3. Wrap(table[near].ptr + table[near].size) = table[at].ptr
    BY <1>t, <2>1, WrapId
  <2>4. QED
    BY <1>1, <2>1, <2>2, <2>3 DEF Lowering
<1>6. QED
  BY <1>1, <1>2, <1>4, <1>5, <1>t, DecisionKeeps

LEMMA KeepsFoldBody ==
  ASSUME Sound, FoldBody
  PROVE  PInv'
<1>1. /\ pc = "foldLower" /\ pc' = "lowerStore" /\ reg' = table[near].ptr
      /\ UNCHANGED <<table, data_used, scan, halted, arg, at, near, del>>
      /\ before' = <<View(Mass), View(table[near])>> /\ seen' = before'
      /\ (races' \subseteq {"count"} => near \in BelowMass /\ races' = races)
      /\ (faults' = {} => Mass.state # "USED")
      /\ faults' \subseteq faults \cup {"mass_used"}
  BY DEF FoldBody, Begin, Slow, Go, Raced
<1>2. /\ pc \in Still /\ pc' \in Lowering /\ pc' \in Joining /\ pc # "sameStateWith"
      /\ pc' \notin Asking \cup Carving \cup Counted
  BY <1>1 DEF Still, Under, Joining, Lowering, Growing, Asking, Carving, Cut, Shrunk, Slots, Placed,
     Sized, Counted
<1>t. /\ PTyped /\ 0 \in Index /\ near \in Index /\ table[0] \in Entry /\ table[near] \in Entry
      /\ Mass = table[0] /\ table[near].ptr \in UInt /\ table[0].state \in {"FREE", "USED"}
  BY Operands DEF Sound, Mass
<1>3. /\ before'[1] \in Views /\ before'[2] \in Views /\ seen'[1] \in Views /\ seen'[2] \in Views
  BY <1>1, <1>t, ViewFields
<1>4. PTyped'
  <2>1. faults' \subseteq Fault
    BY <1>1, <1>t, HistoryTyped DEF Fault
  <2>2. QED
    BY <1>1, <1>2, <1>3, <1>t, <2>1, Operands, HistoryTyped, PhaseIn, StepTyped
<1>5. ASSUME Quiet'
      PROVE  /\ table[0].state = "FREE" /\ table[near].state = "FREE"
             /\ Wrap(table[near].ptr + table[near].size) = table[0].ptr
  BY <1>1, <1>5, <1>t DEF Quiet, BelowMass
<1>6. QED
  BY <1>1, <1>2, <1>4, <1>5, <1>t, DecisionKeeps

LEMMA KindName == Kind \in {"fold", "merge"}
  BY DEF Kind

\* The first entry moves down to where the second starts.
LEMMA KeepsLower ==
  ASSUME Sound,
         Change("lowerStore", [table EXCEPT ![at].ptr = reg], "grow", Kind,
                View(table[at]) # seen[1] \/ reg # seen[2].ptr, <<View(table'[at]), seen[2]>>)
  PROVE  PInv'
<1>1. /\ pc = "lowerStore" /\ pc' = "grow"
      /\ UNCHANGED <<data_used, scan, halted, faults, arg, before, at, near, del>> /\ reg' = 0
      /\ seen' = <<View(table'[at]), seen[2]>>
      /\ (races' \subseteq {"count"} => View(table[at]) = seen[1] /\ reg = seen[2].ptr /\ races' = races)
  BY KindName DEF Change, Store, Slow, Go, Raced
<1>0. table' = [table EXCEPT ![at].ptr = reg]
  BY DEF Change, Store
<1>3. /\ pc \in Lowering /\ pc' \in Growing /\ pc \in Joining /\ pc' \in Joining /\ pc # "sameStateWith"
      /\ pc \notin Cleared /\ pc' \notin Lowering \cup Cleared
      /\ pc' \notin Carving \cup Asking \cup Counted
  BY <1>1 DEF Carving, Cut, Shrunk, Slots, Placed, Sized, Joining, Lowering, Growing, Grown,
         Comparing, Cleared, Asking, Counted
<1>t. /\ PTyped /\ table \in [Index -> Entry] /\ at \in Index /\ arg \in UInt /\ reg \in UInt
  BY <1>3, Operands, HistoryTyped DEF Sound
<1>2. /\ table' \in [Index -> Entry] /\ \A j \in Index \ {at} : table'[j] = table[j]
      /\ table'[at].ptr = reg /\ table'[at].size = table[at].size /\ table'[at].state = table[at].state
  BY <1>0, <1>t DEF Entry
<1>4. /\ seen'[1] = View(table'[at]) /\ seen'[2] = seen[2] /\ seen'[1] \in Views
      /\ seen'[1].ptr = reg /\ seen'[1].size = table[at].size /\ seen'[1].state = table[at].state
  BY <1>1, <1>2, <1>t, ViewFields
<1>5. PTyped'
  BY <1>1, <1>2, <1>3, <1>4, <1>t, Operands, HistoryTyped, PhaseIn, StepTyped
<1>6. ASSUME races' \subseteq {"count"} PROVE table'[at].state = "FREE" /\ StagedJoin'
  <2>1. StagedJoin
    BY <1>3 DEF Sound, Ground, Staged
  <2>2. View(table[at]) = seen[1] /\ table[at] \in Entry /\ reg = seen[2].ptr
    BY <1>1, <1>6, <1>t
  <2>3. table[at].size = before[1].size /\ table[at].state = "FREE" /\ reg = before[2].ptr
    BY <1>3, <2>1, <2>2, ViewFields DEF StagedJoin
  <2>4. Over(seen'[1], 0) = 0
    <3>1. /\ before[1] \in Views /\ before[2] \in Views /\ Over(before[1], 0) = 0
          /\ Over(before[2], 0) = 0 /\ Wrap(before[2].ptr + before[2].size) = before[1].ptr
      BY <1>t, <2>1, HistoryTyped DEF StagedJoin
    <3>2. Arc(before[2].ptr, before[1].size, 0) = 0
      BY <3>1, JoinArc
    <3>3. QED
      BY <1>4, <2>3, <3>2 DEF Over
  <2>5. QED
    BY <1>1, <1>2, <1>3, <1>4, <2>1, <2>3, <2>4 DEF StagedJoin
<1>7. QED
  BY <1>1, <1>2, <1>3, <1>4, <1>5, <1>6, <1>t, ChangeKeeps DEF Staged

\* It grows by the second.
LEMMA KeepsGrow ==
  ASSUME Sound,
         Change("growStore", [table EXCEPT ![at].size = reg], IF at = 0 THEN "foldBytes" ELSE "bytes",
                Kind, View(table[at]) # seen[1] \/ reg # Wrap(seen[1].size + seen[2].size),
                <<View(table'[at]), seen[2]>>)
  PROVE  PInv'
<1>1. /\ pc = "growStore" /\ pc' \in {"foldBytes", "bytes"}
      /\ UNCHANGED <<data_used, scan, halted, faults, arg, before, at, near, del>> /\ reg' = 0
      /\ seen' = <<View(table'[at]), seen[2]>>
      /\ (races' \subseteq {"count"} => /\ View(table[at]) = seen[1] /\ races' = races
                                        /\ reg = Wrap(seen[1].size + seen[2].size))
  BY KindName DEF Change, Store, Slow, Go, Raced
<1>0. table' = [table EXCEPT ![at].size = reg]
  BY DEF Change, Store
<1>3. /\ pc \in Growing /\ pc' \in Grown /\ pc \in Joining /\ pc' \in Joining /\ pc # "sameStateWith"
      /\ pc \notin Lowering \cup Cleared /\ pc' \notin Lowering \cup Growing \cup Cleared
      /\ pc' \notin Carving \cup Asking \cup Counted
  BY <1>1 DEF Carving, Cut, Shrunk, Slots, Placed, Sized, Joining, Lowering, Growing, Grown,
         Comparing, Cleared, Asking, Counted
<1>t. /\ PTyped /\ table \in [Index -> Entry] /\ at \in Index /\ arg \in UInt /\ reg \in UInt
  BY <1>3, Operands, HistoryTyped DEF Sound
<1>2. /\ table' \in [Index -> Entry] /\ \A j \in Index \ {at} : table'[j] = table[j]
      /\ table'[at].ptr = table[at].ptr /\ table'[at].size = reg /\ table'[at].state = table[at].state
  BY <1>0, <1>t DEF Entry
<1>4. /\ seen'[1] = View(table'[at]) /\ seen'[2] = seen[2] /\ seen'[1] \in Views
      /\ seen'[1].ptr = table[at].ptr /\ seen'[1].size = reg /\ seen'[1].state = table[at].state
  BY <1>1, <1>2, <1>t, ViewFields
<1>5. PTyped'
  BY <1>1, <1>2, <1>3, <1>4, <1>t, Operands, HistoryTyped, PhaseIn, StepTyped
<1>6. ASSUME races' \subseteq {"count"} PROVE table'[at].state = "FREE" /\ StagedJoin'
  <2>1. StagedJoin
    BY <1>3 DEF Sound, Ground, Staged
  <2>2. /\ View(table[at]) = seen[1] /\ table[at] \in Entry
        /\ reg = Wrap(seen[1].size + seen[2].size)
    BY <1>1, <1>6, <1>t
  <2>3. /\ table[at].ptr = before[2].ptr /\ table[at].state = "FREE"
        /\ reg = Wrap(before[1].size + before[2].size)
    BY <1>3, <2>1, <2>2, ViewFields DEF StagedJoin
  <2>4. reg = before[1].size + before[2].size /\ Over(seen'[1], 0) = 0
    <3>1. /\ before[1] \in Views /\ before[2] \in Views /\ Over(before[1], 0) = 0
          /\ Over(before[2], 0) = 0 /\ Wrap(before[2].ptr + before[2].size) = before[1].ptr
      BY <1>t, <2>1, HistoryTyped DEF StagedJoin
    <3>2. /\ Wrap(before[1].size + before[2].size) = before[1].size + before[2].size
          /\ Arc(before[2].ptr, before[1].size + before[2].size, 0) = 0
      BY <3>1, JoinArc
    <3>3. QED
      BY <1>4, <2>3, <3>2 DEF Over
  <2>5. QED
    BY <1>1, <1>2, <1>3, <1>4, <2>1, <2>3, <2>4 DEF StagedJoin
<1>7. QED
  BY <1>1, <1>2, <1>3, <1>4, <1>5, <1>6, <1>t, ChangeKeeps DEF Staged

LEMMA AboveUInt ==
  ASSUME NEW p \in UInt, NEW part \in Nat \ {0}
  PROVE  Above(p, part) \in UInt
<1>1. p \in Nat /\ p < UINT /\ UINT \in Nat
  BY HeapAssumption DEF UInt
<1>2. p % part \in 0 .. part - 1
  BY <1>1
<1>3. p < part => p % part = p
  BY <1>1
<1> DEFINE m == p % part
<1>4. m \in Nat /\ m =< p
  <2>1. CASE p < part
    BY <1>1, <1>3, <2>1
  <2>2. CASE ~(p < part)
    BY <1>1, <1>2, <2>2
  <2>3. QED
    BY <2>1, <2>2
<1> HIDE DEF m
<1>5. p - m \in UInt
  BY <1>1, <1>4 DEF UInt
<1>6. QED
  BY <1>5 DEF Above, m

\* The second is cleared piece by piece; without a size it describes nothing.
LEMMA ClearKeeps ==
  ASSUME Sound, pc \in {"clearSize", "clearState", "clearThird"}, pc' \in {"clearState", "clearThird", "clearLast"},
         UNCHANGED <<data_used, scan, halted, faults, arg, before, at, near, del>>, reg' = 0,
         table' \in [Index -> Entry], \A j \in Index \ {del} : table'[j] = table[j],
         seen' = Left(table'),
         races' \subseteq {"count"} =>
           /\ View(table[del]) = seen[2] /\ races' = races
           /\ table'[del].state \in {"FREE", table[del].state}
           /\ table'[del].size \in {0, table[del].size} /\ (pc = "clearSize" => table'[del].size = 0)
  PROVE  PInv'
<1>3. /\ pc \in Grown \cup Cleared /\ pc' \in Cleared /\ pc \in Joining /\ pc' \in Joining
      /\ pc # "sameStateWith" /\ pc \notin Lowering \cup Growing /\ pc' \notin Lowering \cup Growing
      /\ pc' \notin Carving \cup Asking \cup Counted /\ (pc \in Cleared <=> pc # "clearSize")
  BY DEF Carving, Cut, Shrunk, Slots, Placed, Sized, Joining, Lowering, Growing, Grown,
         Comparing, Cleared, Asking, Counted
<1>t. PTyped /\ table \in [Index -> Entry] /\ del \in Index /\ arg \in UInt /\ table'[del] \in Entry
  BY Operands, HistoryTyped DEF Sound
<1>4. /\ seen'[2] = View(table'[del]) /\ seen'[1] = seen[1] /\ seen'[2] \in Views
      /\ seen'[2].ptr = table'[del].ptr /\ seen'[2].size = table'[del].size
      /\ seen'[2].state = table'[del].state
  BY <1>t, ViewFields DEF Left
<1>5. PTyped'
  BY <1>3, <1>4, <1>t, Operands, HistoryTyped, PhaseIn, StepTyped
<1>6. ASSUME races' \subseteq {"count"} PROVE table'[del].state = "FREE" /\ StagedJoin'
  <2>1. StagedJoin
    BY <1>3 DEF Sound, Ground, Staged
  <2>2. View(table[del]) = seen[2] /\ table[del] \in Entry
    BY <1>6, <1>t
  <2>3. table[del].state = "FREE" /\ (pc # "clearSize" => table[del].size = 0)
    BY <1>3, <2>1, <2>2, ViewFields DEF StagedJoin
  <2>4. table'[del].size = 0 /\ table'[del].state = "FREE"
    BY <1>6, <2>3
  <2>5. Over(seen'[2], 0) = 0
    BY <1>4, <1>t, <2>4, ArcZero, ZeroIndex DEF Over, Entry
  <2>6. QED
    BY <1>3, <1>4, <2>1, <2>4, <2>5 DEF StagedJoin
<1>7. QED
  BY <1>3, <1>4, <1>5, <1>6, <1>t, ChangeKeeps DEF Staged

LEMMA KeepsClear ==
  ASSUME Sound,
         \/ Change("clearSize", [table EXCEPT ![del].size = 0], "clearState", Kind, Stale, Left(table'))
         \/ Change("clearState", [table EXCEPT ![del].state = "FREE", ![del].ptr = Above(table[del].ptr, LOW)],
                   "clearThird", Kind, Stale, Left(table'))
         \/ Change("clearThird", [table EXCEPT ![del].ptr = Above(table[del].ptr, THREE)], "clearLast",
                   Kind, Stale, Left(table'))
  PROVE  PInv'
<1>1. /\ pc \in {"clearSize", "clearState", "clearThird"} /\ pc' \in {"clearState", "clearThird", "clearLast"}
      /\ UNCHANGED <<data_used, scan, halted, faults, arg, before, at, near, del>> /\ reg' = 0
      /\ seen' = Left(table')
      /\ (races' \subseteq {"count"} => View(table[del]) = seen[2] /\ races' = races)
  BY KindName DEF Change, Store, Slow, Go, Raced, Stale
<1>t. /\ table \in [Index -> Entry] /\ del \in Index /\ table[del].ptr \in UInt /\ 0 \in UInt
      /\ Above(table[del].ptr, LOW) \in UInt /\ Above(table[del].ptr, THREE) \in UInt
  <2>1. /\ table \in [Index -> Entry] /\ del \in Index /\ table[del].ptr \in UInt /\ 0 \in UInt
    BY Operands DEF Sound
  <2>2. QED
    BY <2>1, AboveUInt, PiecesAssumption
<1>2. CASE pc = "clearSize"
  <2>1. table' = [table EXCEPT ![del].size = 0]
    BY <1>2 DEF Change, Store, Slow
  <2>2. /\ table' \in [Index -> Entry] /\ \A j \in Index \ {del} : table'[j] = table[j]
        /\ table'[del].size = 0 /\ table'[del].state = table[del].state
    BY <1>t, <2>1 DEF Entry
  <2>3. QED
    BY <1>1, <2>2, ClearKeeps
<1>3. CASE pc = "clearState"
  <2>1. table' = [table EXCEPT ![del].state = "FREE", ![del].ptr = Above(table[del].ptr, LOW)]
    BY <1>3 DEF Change, Store, Slow
  <2>2. /\ table' \in [Index -> Entry] /\ \A j \in Index \ {del} : table'[j] = table[j]
        /\ table'[del].size = table[del].size /\ table'[del].state = "FREE"
    BY <1>t, <2>1 DEF Entry
  <2>3. QED
    BY <1>1, <1>3, <2>2, ClearKeeps
<1>4. CASE pc = "clearThird"
  <2>1. table' = [table EXCEPT ![del].ptr = Above(table[del].ptr, THREE)]
    BY <1>4 DEF Change, Store, Slow
  <2>2. /\ table' \in [Index -> Entry] /\ \A j \in Index \ {del} : table'[j] = table[j]
        /\ table'[del].size = table[del].size /\ table'[del].state = table[del].state
    BY <1>t, <2>1 DEF Entry
  <2>3. QED
    BY <1>1, <1>4, <2>2, ClearKeeps
<1>5. QED
  BY <1>1, <1>2, <1>3, <1>4

\* The change is over.
LEMMA KeepsClearLast ==
  ASSUME Sound, ClearLast
  PROVE  PInv'
<1>1. /\ pc = "clearLast" /\ pc' \in {"rest", "merge", "fold"}
      /\ UNCHANGED <<data_used, scan, halted, faults, arg, reg>>
      /\ before' = Nothing /\ seen' = Nothing
      /\ (races' \subseteq {"count"} => View(table[del]) = seen[2] /\ races' = races)
  BY KindName DEF ClearLast, Slow, Raced, Stale, NextMerge, NextAt
<1>0. table' = [table EXCEPT ![del].ptr = 0]
  BY DEF ClearLast
<1>3. /\ pc \in Cleared /\ pc' \in Still /\ pc \in Joining /\ pc # "sameStateWith"
      /\ pc \notin Lowering \cup Growing /\ pc' \notin Counted \cup Handing
      /\ pc' \notin Carving \cup Joining \cup Asking \cup Counted
  BY <1>1 DEF Carving, Cut, Shrunk, Slots, Placed, Sized, Joining, Lowering, Growing, Grown,
         Comparing, Cleared, Asking, Counted, Handing, Still, Around, Under
<1>t. /\ PTyped /\ table \in [Index -> Entry] /\ del \in Index /\ table[del] \in Entry /\ arg \in UInt
      /\ 0 \in UInt /\ at' \in Index /\ near' \in Index /\ del' \in Index
  BY Operands, HistoryTyped DEF Sound, ClearLast, NextMerge, NextAt
<1>2. /\ table' \in [Index -> Entry] /\ \A j \in Index \ {del} : table'[j] = table[j]
      /\ table'[del].ptr = 0 /\ table'[del].size = table[del].size /\ table'[del].state = table[del].state
  BY <1>0, <1>t DEF Entry
<1>4. PTyped'
  <2>1. reg' \in UInt /\ before'[1] \in Views /\ before'[2] \in Views /\ seen'[1] \in Views /\ seen'[2] \in Views
    BY <1>1, <1>3, <1>t, Operands, EmptyView, NothingTyped
  <2>2. QED
    BY <1>1, <1>2, <1>3, <1>t, <2>1, Operands, HistoryTyped, PhaseIn, StepTyped
<1>5. SUFFICES ASSUME races' \subseteq {"count"} PROVE Ground' /\ Balance'
  BY <1>4, PInvFrom DEF Quiet
<1>6. /\ StagedJoin /\ table[del].size = 0 /\ table[del].state = "FREE"
  <2>1. StagedJoin /\ View(table[del]) = seen[2]
    BY <1>1, <1>3, <1>5 DEF Sound, Ground, Staged
  <2>2. QED
    BY <1>3, <1>t, <2>1, ViewFields DEF StagedJoin
<1>7. Settled
  <2>1. /\ before[1] \in Views /\ before[2] \in Views /\ Over(before[1], 0) = 0 /\ Over(before[2], 0) = 0
        /\ Wrap(before[2].ptr + before[2].size) = before[1].ptr
        /\ seen[1].ptr = before[2].ptr /\ seen[1].size = before[1].size + before[2].size
        /\ seen[2].size = 0 /\ seen[2].ptr \in UInt
    BY <1>3, <1>6, <1>t, HistoryTyped DEF StagedJoin
  <2>2. \A x \in UInt : Over(seen[1], x) = Over(before[1], x) + Over(before[2], x)
    BY <2>1, JoinArc DEF Over
  <2>3. \A x \in UInt : Over(seen[2], x) = 0
    BY <2>1, ArcZero DEF Over
  <2>4. \A x \in UInt : Over(seen[1], x) + Over(seen[2], x) = Over(before[1], x) + Over(before[2], x)
    <3> TAKE x \in UInt
    <3>1. Over(before[1], x) \in {0, 1} /\ Over(before[2], x) \in {0, 1}
      BY OverBit
    <3>2. QED
      BY <2>2, <2>3, <3>1
  <2>5. QED
    BY <2>4, SettledMeets DEF Sound, Ground
<1>8. \A x \in UInt : Times(table', x) = Times(table, x)
  <2> TAKE x \in UInt
  <2>1. Over(table'[del], x) = 0 /\ Over(table[del], x) = 0
    BY <1>2, <1>6, <1>t, ArcZero DEF Over, Entry
  <2>2. Aside(table, table', del)
    BY <1>2 DEF Aside
  <2>3. Times(table', x) = Times(table, x) + (Over(table'[del], x) - Over(table[del], x))
    BY <1>t, <2>2, TimesMoves
  <2>4. Times(table, x) \in Nat
    BY TimesNat
  <2>5. QED
    BY <2>1, <2>3, <2>4
<1>9. Ground'
  BY <1>1, <1>3, <1>7, <1>8, Settles DEF Ground, Staged
<1>10. Balance'
  <2>1. Owed = 0 /\ Owed' = 0
    BY <1>3, Unowed
  <2>2. \A j \in Index : Part(table'[j]) = Part(table[j])
    BY <1>2, <1>6, <1>t, PartsFree
  <2>3. QED
    BY <1>1, <1>3, <1>4, <1>5, <1>t, <2>1, <2>2, BalanceKept DEF Sound
<1>11. QED
  BY <1>9, <1>10

-----------------------------------------------------------------------------
(* A whole call between two steps.                                         *)

\* Some address is never described, whatever the slow call has begun.
LEMMA Undescribed ==
  ASSUME PTyped, Ground
  PROVE  \E z \in UInt : Times(table, z) = 0
<1>0. 0 \in UInt /\ Region(0) = 0
  BY ZeroIndex, HeapAssumption DEF Region
<1>1. CASE pc \notin Carving \cup Joining
  BY <1>0, <1>1, SettledStill
<1>2. CASE pc \in Joining
  <2>1. Over(seen[1], 0) = 0 /\ Over(before[1], 0) = 0 /\ Over(seen[2], 0) = 0 /\ Over(before[2], 0) = 0
    BY <1>2 DEF Ground, Staged, StagedJoin
  <2>2. Times(table, 0) = 0
    BY <1>0, <2>1 DEF Ground, Described
  <2>3. QED
    BY <1>0, <2>2
<1>3. CASE pc \in Carving
  <2> DEFINE a == Align(arg)
             b == before[1]
  <2>1. /\ StagedCarve /\ arg \in Sizes /\ a \in UInt /\ 0 < a /\ b \in Views /\ b.ptr \in UInt
        /\ b.size \in UInt /\ a =< b.size
    BY <1>3, HistoryTyped, AlignSize DEF Ground, Staged, StagedCarve
  <2>2. \A x \in UInt : Over(before[2], x) = 0
    BY <2>1, EmptyView DEF StagedCarve
  <2>3. /\ Over(b, 0) = 0 /\ Over(seen[2], 0) = 0 /\ seen[1].ptr = Wrap(b.ptr + a)
        /\ seen[1].size = IF pc \in Cut THEN b.size ELSE b.size - a
    BY <2>1 DEF StagedCarve
  <2>4. CASE pc \notin Cut
    <3>1. Over(b, 0) = Arc(b.ptr, a, 0) + Arc(Wrap(b.ptr + a), b.size - a, 0)
      BY <1>0, <2>1, CutArc
    <3>2. Arc(b.ptr, a, 0) \in {0, 1} /\ Over(seen[1], 0) \in {0, 1}
      BY ArcUInt, OverBit
    <3>3. Over(seen[1], 0) = Arc(Wrap(b.ptr + a), b.size - a, 0)
      BY <2>3, <2>4 DEF Over
    <3>4. Over(seen[1], 0) = 0
      BY <2>3, <3>1, <3>2, <3>3
    <3>5. Times(table, 0) = 0
      BY <1>0, <2>2, <2>3, <3>4 DEF Ground, Described
    <3>6. QED
      BY <1>0, <3>5
  <2>5. CASE pc \in Cut
    <3> DEFINE q == b.ptr + (a - 1)
               z == Wrap(q)
    <3>0. /\ b.ptr \in Int /\ a \in Int /\ a > 0 /\ b.size \in Int /\ a =< b.size /\ b.size < UINT
          /\ UINT \in Int /\ a - 1 \in UInt /\ q \in Int /\ -b.ptr \in Int /\ b.ptr + a \in Int
          /\ -(b.ptr + a) \in Int /\ q + (-b.ptr) = a - 1 /\ q + (-(b.ptr + a)) = -1
      BY <2>1, HeapAssumption DEF UInt
    <3>1. z \in UInt /\ z \in Int
      BY <3>0, WrapUInt DEF UInt
    <3>2. Over(b, z) = 1
      <4>1. Wrap(z + (-b.ptr)) = Wrap(q + (-b.ptr))
        BY <3>0, WrapTwice
      <4>2. Wrap(a - 1) = a - 1 /\ z + (-b.ptr) = z - b.ptr
        BY <3>0, <3>1, WrapId
      <4>3. Wrap(z - b.ptr) < b.size
        BY <3>0, <4>1, <4>2
      <4>4. QED
        BY <4>3 DEF Over, Arc
    <3>3. Over(seen[1], z) = 0
      <4>1. Wrap(z - Wrap(b.ptr + a)) = Wrap(z - (b.ptr + a))
        BY <3>0, <3>1, WrapLess
      <4>2. Wrap(z + (-(b.ptr + a))) = Wrap(q + (-(b.ptr + a)))
        BY <3>0, WrapTwice
      <4>3. z + (-(b.ptr + a)) = z - (b.ptr + a)
        BY <3>0, <3>1
      <4>4. Wrap(-1) = -1 + UINT
        BY <3>0, WrapBelow
      <4>5. ~(Wrap(z - Wrap(b.ptr + a)) < b.size)
        BY <3>0, <4>1, <4>2, <4>3, <4>4
      <4>6. QED
        BY <2>3, <2>5, <4>5 DEF Over, Arc
    <3> HIDE DEF z
    <3>4. Over(seen[2], z) = 0
      <4>1. seen[2].ptr = 0 /\ seen[2].size = 0
        BY <2>1, <2>5 DEF StagedCarve, Cut, Placed, Sized
      <4>2. QED
        BY <1>0, <3>1, <4>1, ArcZero DEF Over
    <3>5. Times(table, z) = Region(z) + ((0 - 1) + (0 - 0))
      BY <2>2, <3>1, <3>2, <3>3, <3>4 DEF Ground, Described
    <3>6. Times(table, z) \in Nat /\ Region(z) \in {0, 1}
      BY TimesNat DEF Region
    <3>7. Times(table, z) = 0
      BY <3>5, <3>6
    <3>8. QED
      BY <3>1, <3>7
  <2>6. QED
    BY <2>4, <2>5
<1>4. QED
  BY <1>1, <1>2, <1>3

LEMMA WholeBalance ==
  ASSUME PTyped, Balance, Whole, Counting', races \subseteq {"count"}
  PROVE  Balance'
<1>1. UNCHANGED <<pc, arg, at, near, del, reg, before, seen, races>> /\ Next /\ Counting
  <2>1. UNCHANGED <<pc, arg, at, near, del, reg, before, seen, races>> /\ Next /\ ~halted
    BY WholeIsNext
  <2>2. "mass_used" \notin faults
    BY <2>1 DEF Next, Allocate, AllocateTooLarge, AllocateExact, AllocateCarve, Free, MergeStep,
           MergeWith, FoldIntoMass, FoldBlock, NothingToFold, Counting
  <2>3. QED
    BY <2>1, <2>2 DEF Counting
<1>2. TypeOK /\ TypeOK' /\ at \in Index
  BY <1>1, TypeNext DEF PTyped, SlowTyped
<1>3. pc \in Counted \cup Handing => table[at].state = "USED" /\ table[at].ptr \in InHand
  BY DEF Balance, InHandKept, InHand, Counted, Handing, Giving, Finding
<1>4. pc \in Counted \cup Handing => table'[at].state = "USED" /\ table'[at].size = table[at].size
  BY <1>2, <1>3, HeldKept
<1>5. InHandKept' /\ Owed' = Owed
  BY <1>1, <1>4 DEF InHandKept, Owed
<1>6. ASSUME races' = {} PROVE data_used' = Wrap(Amount(table') + Owed')
  <2>1. PICK o \in Int : o = Owed
    BY OwedInt
  <2>2. Accounted(o)
    BY <1>1, <1>6, <2>1 DEF Balance, Accounted
  <2>3. Accounted(o)'
    BY <1>1, <1>2, <2>2, AccountNext
  <2>4. data_used' = Wrap(Amount(table') + o)
    BY <2>3 DEF Accounted
  <2>5. QED
    BY <1>5, <2>1, <2>4
<1>7. QED
  BY <1>5, <1>6 DEF Balance

LEMMA KeepsWhole ==
  ASSUME PInv, Followed, Whole
  PROVE  PInv'
<1>1. /\ Next /\ ~halted /\ UNCHANGED <<pc, arg, at, near, del, reg, before, seen, races>>
      /\ faults = {} /\ races \subseteq {"count"}
  BY WholeIsNext DEF Followed
<1>2. PTyped /\ PTyped'
  BY <1>1, TypeNext DEF PInv, PTyped, SlowTyped
<1>3. SUFFICES ASSUME pc # "panic" PROVE (Quiet' => Ground') /\ (Counting' => Balance')
  BY <1>1, <1>2 DEF PInv, Quiet, Balanced
<1>4. Ground /\ Balance
  BY <1>1, <1>3 DEF PInv, Quiet, Balanced, Counting
<1>5. ASSUME Quiet' PROVE Ground'
  <2>1. SameGround
    BY <1>2, <1>5, GroundWhole DEF Quiet, PTyped
  <2>2. \A a \in UInt : Times(table', a) = Times(table, a)
    BY <1>2, <1>4, <2>1, Undescribed DEF SameGround
  <2>3. Described'
    BY <1>1, <1>4, <2>2 DEF Ground, Described, Region
  <2>4. Staged'
    BY <1>1, <1>4 DEF Ground, Staged, StagedCarve, StagedJoin
  <2>5. QED
    BY <2>3, <2>4 DEF Ground
<1>6. QED
  BY <1>1, <1>2, <1>4, <1>5, WholeBalance

-----------------------------------------------------------------------------
(* All together.                                                           *)

LEMMA AllocateKeeps ==
  ASSUME Sound, AllocateStep
  PROVE  PInv'
<1>t. PTyped /\ 0 \in Index /\ at \in Index
  BY Operands DEF Sound
<1>1. ASSUME \E T \in Phases : Calm(T) PROVE PInv'
  BY <1>1, CalmKeeps
<1>2. CASE \E size \in Sizes : Asked(size)
  BY <1>2, KeepsAsked
<1>3. CASE Search \/ FreeIndex
  BY <1>1, <1>3, <1>t, LookAllocate
<1>4. CASE Take
  BY <1>1, <1>4, <1>t, KeepsTake, WriteBytes DEF Take
<1>5. CASE Carve
  <2>1. CASE Change("carveState", [table EXCEPT ![0].state = "FREE"], "address",
                    "mass", Mass.state # "FREE", seen)
    <3>1. /\ pc \in Shrunk /\ "carveState" \in Shrunk /\ "address" \in Shrunk /\ "address" \notin Asking
          /\ Change("carveState", [table EXCEPT ![0].state = "FREE"], "address",
                    "mass", table[0].state # "FREE", seen)
      BY <2>1 DEF Change, Store, Slow, Shrunk, Asking, Mass
    <3>2. QED
      BY <1>t, <3>1, KeepsFreeState
  <2>2. QED
    BY <1>1, <1>5, <1>t, <2>1, LookAllocate, WriteBytes, KeepsCarvePtr, KeepsCarveSize DEF Carve
<1>6. CASE Address
  BY <1>6, KeepsAddress
<1>7. CASE Create
  BY <1>1, <1>7, <1>t, KeepsCreatePtr, KeepsCreateSize, WriteBytes, KeepsCreateState DEF Create
<1>8. CASE Finish
  BY <1>1, <1>8, <1>t, LookCount, WriteStamp, KeepsCountStore, KeepsGive DEF Finish
<1>9. QED
  BY <1>2, <1>3, <1>4, <1>5, <1>6, <1>7, <1>8 DEF AllocateStep

LEMMA FreeKeeps ==
  ASSUME Sound, FreeStep
  PROVE  PInv'
<1>t. PTyped /\ at \in Index
  BY Operands DEF Sound
<1>1. ASSUME \E T \in Phases : Calm(T) PROVE PInv'
  BY <1>1, CalmKeeps
<1>2. CASE \E p \in DATA_BASE .. DATA_END - 1 : Freed(p)
  BY <1>2, KeepsFreed
<1>3. CASE Find \/ Merge \/ GetNearest \/ Fold
  BY <1>1, <1>3, <1>t, LookFree
<1>4. CASE Release
  BY <1>4, KeepsRelease
<1>5. CASE Uncount
  BY <1>1, <1>5, <1>t, LookFree, KeepsUncountStore DEF Uncount
<1>6. CASE MergeBody
  BY <1>1, <1>6, <1>t, LookFree, KeepsCompare DEF MergeBody
<1>7. CASE FoldBody
  BY <1>7, KeepsFoldBody
<1>8. CASE Grow
  <2>1. CASE Change("free", [table EXCEPT ![at].state = "FREE"], "delete", Kind,
                    table[at].state # "FREE", seen)
    <3>1. /\ pc \in Grown /\ "free" \in Grown /\ "delete" \in Grown /\ "delete" \notin Asking
          /\ Kind # "count"
      BY <2>1, KindName DEF Change, Store, Slow, Grown, Comparing, Asking
    <3>2. QED
      BY <1>t, <2>1, <3>1, KeepsFreeState
  <2>2. QED
    BY <1>1, <1>8, <1>t, <2>1, LookJoin, WriteBytes, KeepsLower, KeepsGrow DEF Grow
<1>9. CASE DeleteEntry
  BY <1>1, <1>9, <1>t, LookJoin
<1>10. CASE Clear
  BY <1>1, <1>10, <1>t, WriteBytes, KeepsClear, KeepsClearLast DEF Clear
<1>11. CASE Rest
  BY <1>1, <1>11, <1>t, LookFree, WriteBytes DEF Rest
<1>12. QED
  BY <1>2, <1>3, <1>4, <1>5, <1>6, <1>7, <1>8, <1>9, <1>10, <1>11 DEF FreeStep

LEMMA PInvNext == PInv /\ [PNext]_preemptedVars => PInv'
<1> SUFFICES ASSUME PInv, [PNext]_preemptedVars PROVE PInv'
  OBVIOUS
<1>1. CASE UNCHANGED preemptedVars
  <2>1. /\ UNCHANGED <<table, data_used, scan, halted, faults>>
        /\ UNCHANGED <<pc, arg, at, near, del, reg, before, seen, races>>
    BY <1>1 DEF preemptedVars, vars, slowVars
  <2>2. PTyped'
    BY <2>1 DEF PInv, PTyped, SlowTyped, TypeOK
  <2>3. Quiet' => Quiet /\ Ground'
    BY <2>1 DEF PInv, Quiet, Ground, Described, Region, Staged, StagedCarve, StagedJoin
  <2>4. Balanced'
    BY <2>1 DEF PInv, Balanced, Counting, Balance, InHandKept, Owed
  <2>5. QED
    BY <2>2, <2>3, <2>4 DEF PInv
<1>2. CASE PNext
  <2>1. Followed /\ (Whole \/ AllocateStep \/ FreeStep \/ Panic)
    BY <1>2 DEF PNext
  <2>2. CASE Panic
    <3>1. /\ UNCHANGED <<table, data_used, scan, faults, pc, arg, at, near, del, reg, before, seen>>
          /\ halted' = TRUE /\ pc = "panic"
      BY <2>2 DEF Panic, Slow, slowVars
    <3>2. PTyped'
      BY <3>1 DEF PInv, PTyped, SlowTyped, TypeOK
    <3>3. QED
      BY <3>1, <3>2 DEF PInv, Quiet, Balanced
  <2>3. ASSUME AllocateStep \/ FreeStep PROVE Sound
    <3>1. CASE AllocateStep
      <4>1. ~halted /\ pc # "panic"
        BY <3>1 DEF AllocateStep, Asked, Search, Take, Carve, CarvePtr, Address, FreeIndex, Null, Create,
           CreateState, Finish, CountStore, Give, Load, Test, Write, Change, Store, Slow
      <4>2. QED
        BY <2>1, <4>1 DEF PInv, Sound, Followed, Quiet, Balanced, Counting
    <3>2. CASE FreeStep
      <4>1. ~halted /\ pc # "panic"
        BY <3>2 DEF FreeStep, Freed, Find, Release, Uncount, UncountStore, Merge, GetNearest, MergeBody,
           Compare, Fold, FoldBody, Grow, DeleteEntry, Same, Clear, ClearLast, Rest, Load, Test, Write,
           Change, Store, Slow
      <4>2. QED
        BY <2>1, <4>1 DEF PInv, Sound, Followed, Quiet, Balanced, Counting
    <3>3. QED
      BY <2>3, <3>1, <3>2
  <2>4. QED
    BY <2>1, <2>2, <2>3, KeepsWhole, AllocateKeeps, FreeKeeps
<1>3. QED
  BY <1>1, <1>2

\* At first the mass entry describes the region, and no other address.
LEMMA PInvInit == PInit => PInv
<1> SUFFICES ASSUME PInit PROVE PInv
  OBVIOUS
<1>1. Init /\ pc = "out" /\ races = {} /\ seen = before
  BY DEF PInit
<1>2. PTyped
  <2>1. TypeOK
    BY <1>1, TypeInit
  <2>2. "out" \in UNION Phases /\ "out" \notin Asking \cup Carving \cup Counted
    <3>1. "out" \in Still /\ "out" \notin Asking \cup Carving \cup Counted
      BY DEF Still, Asking, Carving, Cut, Shrunk, Slots, Placed, Sized, Counted
    <3>2. QED
      BY <3>1, PhaseIn
  <2>3. QED
    BY <2>1, <2>2, ZeroIndex, EmptyView, NothingTyped DEF PInit, PTyped, SlowTyped
<1> DEFINE size  == DATA_END - DATA_BASE
           empty == [i \in Index |-> EMPTY]
<1>3. /\ table[0].ptr = DATA_BASE /\ table[0].size = size
      /\ \A i \in Index \ {0} : table[i] = EMPTY
  BY <1>1, ZeroIndex DEF Init
<1>4. /\ DATA_BASE \in UInt /\ DATA_END \in UInt /\ size \in UInt
      /\ DATA_BASE + size = DATA_END /\ UINT \in Nat /\ DATA_END < UINT
      /\ DATA_BASE \in Nat /\ size \in Nat
  BY HeapAssumption DEF UInt
<1>5. \A a \in UInt : Arc(DATA_BASE, size, a) = Region(a)
  <2> SUFFICES ASSUME NEW a \in UInt PROVE Arc(DATA_BASE, size, a) = Region(a)
    OBVIOUS
  <2> HIDE DEF size
  <2>1. a \in Int /\ a >= 0 /\ a < UINT
    BY <1>4 DEF UInt
  <2>2. CASE DATA_BASE =< a
    <3>1. a - DATA_BASE \in UInt
      BY <1>4, <2>1, <2>2 DEF UInt
    <3>2. Wrap(a - DATA_BASE) = a - DATA_BASE
      BY <3>1, WrapId
    <3>3. (a - DATA_BASE < size) <=> (a \in DATA_BASE .. DATA_END - 1)
      BY <1>4, <2>1, <2>2
    <3>4. QED
      BY <3>2, <3>3 DEF Arc, Region
  <2>3. CASE ~(DATA_BASE =< a)
    <3>1. a - DATA_BASE < 0 /\ (a - DATA_BASE) + UINT >= 0 /\ a - DATA_BASE \in Int
      BY <1>4, <2>1, <2>3
    <3>2. Wrap(a - DATA_BASE) = (a - DATA_BASE) + UINT
      BY <3>1, WrapBelow
    <3>3. ~((a - DATA_BASE) + UINT < size) /\ a \notin DATA_BASE .. DATA_END - 1
      BY <1>4, <2>1, <2>3
    <3>4. QED
      BY <3>2, <3>3 DEF Arc, Region
  <2>4. QED
    BY <2>2, <2>3
<1> HIDE DEF size
<1>6. \A a \in UInt : Times(table, a) = Region(a)
  <2> SUFFICES ASSUME NEW a \in UInt PROVE Times(table, a) = Region(a)
    OBVIOUS
  <2>1. \A i \in Index : empty[i].ptr = 0 /\ empty[i].size = 0
    BY ZeroIndex
  <2> HIDE DEF empty
  <2>2. \A i \in Index : Over(empty[i], a) = 0
    BY <2>1, ZeroIndex, ArcZero DEF Over
  <2>3. Times(empty, a) = 0
    BY <2>2, TimesSome
  <2>4. Aside(empty, table, 0)
    BY <1>3, <2>1, ZeroIndex DEF Aside
  <2>5. Times(table, a) = Times(empty, a) + (Over(table[0], a) - Over(empty[0], a))
    BY <2>4, ZeroIndex, TimesMoves
  <2>6. Over(table[0], a) = Region(a) /\ Over(empty[0], a) = 0
    BY <1>3, <1>5, <2>2, ZeroIndex DEF Over
  <2>7. Region(a) \in {0, 1}
    BY DEF Region
  <2>8. QED
    BY <2>3, <2>5, <2>6, <2>7
<1>7. Ground
  <2>1. seen = before /\ pc \notin Carving \cup Joining
    BY <1>1 DEF Carving, Cut, Shrunk, Slots, Placed, Sized, Joining, Lowering, Growing, Grown,
       Comparing, Cleared
  <2>2. Described
    <3> SUFFICES ASSUME NEW a \in UInt
                 PROVE  Times(table, a) = Region(a) + ((Over(seen[1], a) - Over(before[1], a))
                                                         + (Over(seen[2], a) - Over(before[2], a)))
      BY DEF Described
    <3>1. Over(seen[1], a) \in {0, 1} /\ Over(seen[2], a) \in {0, 1} /\ Region(a) \in {0, 1}
      BY OverBit DEF Region
    <3>2. QED
      BY <1>6, <2>1, <3>1
  <2>3. QED
    BY <2>1, <2>2 DEF Ground, Staged
<1>8. Balance
  <2>1. InHandKept /\ Owed = 0
    BY <1>1 DEF InHandKept, Owed, Counted, Handing, Freeing
  <2>2. Counting
    BY <1>1 DEF Init, Counting
  <2>3. data_used = Wrap(Amount(table) + 0)
    BY <1>1, <2>2, AccountInit DEF Accounted
  <2>4. QED
    BY <2>1, <2>3 DEF Balance
<1>9. QED
  BY <1>2, <1>7, <1>8 DEF PInv, Balanced

\* An entry covers what its arc does, when address 0 is in none.
LEMMA CoversOver ==
  ASSUME PTyped, Times(table, 0) = 0, NEW i \in Index, NEW a \in DATA_BASE .. DATA_END - 1
  PROVE  Covers(i, a) <=> Over(table[i], a) = 1
<1> DEFINE p == table[i].ptr
           s == table[i].size
<1>1. p \in UInt /\ s \in UInt /\ a \in UInt
  BY EntryFields, HeapAssumption DEF PTyped, UInt
<1>2. p \in Int /\ s \in Int /\ a \in Int /\ p >= 0 /\ a < UINT /\ p < UINT /\ UINT \in Int /\ a >= 0 /\ s < UINT
  BY <1>1, HeapAssumption DEF UInt
<1>3. Covers(i, a) <=> p =< a /\ a < p + s
  BY DEF Covers
<1>4. Over(table[i], a) = 1 <=> Wrap(a - p) < s
  BY DEF Over, Arc
<1>5. Over(table[i], 0) = 0
  BY OverUInt, TimesOf
<1>6. ~(Wrap(0 - p) < s)
  BY <1>5 DEF Over, Arc
<1> HIDE DEF p, s
<1>7. CASE p =< a
  <2>1. a - p \in UInt
    BY <1>2, <1>7 DEF UInt
  <2>2. Wrap(a - p) = a - p
    BY <2>1, WrapId
  <2>3. QED
    BY <1>2, <1>3, <1>4, <1>7, <2>2
<1>8. CASE ~(p =< a)
  <2>1. a - p < 0 /\ (a - p) + UINT >= 0 /\ 0 - p < 0 /\ (0 - p) + UINT >= 0
    BY <1>2, <1>8
  <2>2. Wrap(a - p) = (a - p) + UINT /\ Wrap(0 - p) = (0 - p) + UINT
    <3>1. a - p \in Int /\ 0 - p \in Int
      BY <1>2
    <3>2. QED
      BY <2>1, <3>1, WrapBelow
  <2>3. ~(Wrap(a - p) < s)
    BY <1>2, <1>6, <2>2
  <2>4. QED
    BY <1>3, <1>4, <1>8, <2>3
<1>9. QED
  BY <1>7, <1>8


-----------------------------------------------------------------------------
(* A call nobody comes between.                                            *)

\* What each place relies on.
AskKnows ==
  /\ pc \in {"searchState", "take"} => table[at].size = Align(arg)
  /\ pc = "take" => table[at].state = "FREE"
  /\ pc = "countSize" => reg = data_used
  /\ pc = "countStore" => reg = Wrap(data_used + table[at].size)

CarveKnows ==
  /\ pc = "carvePtr" => reg = Mass.ptr
  /\ pc \in Cut \cup Shrunk => View(Mass) = seen[1]
  /\ pc = "carveSizeStore" => reg = Mass.size
  /\ pc \in {"slotSize", "slotBytes", "slotState", "createPtr"} => table[at].ptr = 0
  /\ pc \in {"slotBytes", "slotState", "createPtr"} => table[at].size = 0
  /\ pc = "createPtr" => table[at].state = "FREE"
  /\ pc \in Placed \cup Sized => View(table[at]) = seen[2]

FreeKnows ==
  /\ pc \in {"findState", "findPtr", "release"} => table[at].size # 0
  /\ pc \in {"findPtr", "release"} => table[at].state = "USED"
  /\ pc = "release" => table[at].ptr = arg
  /\ pc \in Freeing => table[at].size = seen[1].size
  /\ pc = "uncountSize" => reg = data_used
  /\ pc = "uncountStore" => reg = Wrap(data_used - seen[1].size)

Ends   == Wrap(table[near].ptr + table[near].size) = table[at].ptr
Starts == Wrap(table[at].ptr - table[at].size) = table[near].ptr

NearKnows ==
  /\ pc \in Around \ {"merge"} => ValidPtr(table[at].ptr)
  /\ pc \in Around \ {"merge", "mergeState"} => table[at].state = "FREE"
  /\ pc \in Around \ {"merge", "mergeState", "near"} => table[near].ptr > 0
  /\ pc \in Around \ {"merge", "mergeState", "near", "nearSize"} => table[near].size > 0 /\ near # at
  /\ pc = "endSize" => reg = table[near].ptr
  /\ pc = "endTest" => reg = Wrap(table[near].ptr + table[near].size)
  /\ pc = "endState" => Ends
  /\ pc = "startSize" => reg = table[at].ptr
  /\ pc = "startTest" => reg = Wrap(table[at].ptr - table[at].size)
  /\ pc = "startState" => Starts
  /\ pc \in {"compare", "compareWith"} => (Ends \/ Starts) /\ table[near].state = "FREE"
  /\ pc = "compareWith" => reg = table[at].ptr

FoldKnows ==
  /\ pc \in Under => at = 0
  /\ pc \in Under \ {"fold"} => ValidPtr(table[near].ptr)
  /\ pc = "foldSize" => reg = table[near].ptr
  /\ pc = "foldTest" => reg = Wrap(table[near].ptr + table[near].size)
  /\ pc \in {"foldState", "foldLower"} => Wrap(table[near].ptr + table[near].size) = Mass.ptr
  /\ pc = "foldLower" => table[near].state = "FREE"

JoinKnows ==
  /\ pc \in Lowering \cup Growing \cup (Grown \ {"clear", "clearSize"}) => View(table[near]) = seen[2]
  /\ pc \in Lowering \cup Growing \cup {"bytes", "bytesStore", "foldBytes", "free"}
       => View(table[at]) = seen[1]
  /\ pc \in Joining /\ near = at => before[1] = before[2]
  /\ pc = "lowerStore" => reg = seen[2].ptr
  /\ pc = "growAdd" => reg = seen[1].size
  /\ pc = "growStore" => reg = Wrap(seen[1].size + seen[2].size)
  /\ pc = "sameWith" => reg = table[del].ptr
  /\ pc \in Comparing \ {"delete", "deleteSize", "deleteAgain", "same", "sameWith"}
       => table[del].ptr = seen[2].ptr
  /\ pc = "sameSizeWith" => reg = table[del].size
  /\ pc \in {"sameBytes", "sameBytesWith", "sameState", "sameStateWith"} => table[del].size = seen[2].size
  /\ pc = "sameStateWith" => reg = table[del].state
  /\ pc \in Cleared \cup {"clear", "clearSize"} => View(table[del]) = seen[2]

Knows == AskKnows /\ CarveKnows /\ FreeKnows /\ NearKnows /\ FoldKnows /\ JoinKnows
Alone == ~interrupted => races = {} /\ Knows

\* What a step of a call that is alone may assume.
SoundAlone == Sound /\ ~interrupted /\ races = {} /\ Knows

LEMMA Elsewhere ==
  /\ pc' \in Asking \cup Carving \cup Counted \cup Handing
       => FreeKnows' /\ NearKnows' /\ FoldKnows' /\ JoinKnows'
  /\ pc' \in Finding \cup Freeing => AskKnows' /\ CarveKnows' /\ NearKnows' /\ FoldKnows' /\ JoinKnows'
  /\ pc' \in Around => AskKnows' /\ CarveKnows' /\ FreeKnows' /\ FoldKnows' /\ JoinKnows'
  /\ pc' \in Under => AskKnows' /\ CarveKnows' /\ FreeKnows' /\ NearKnows' /\ JoinKnows'
  /\ pc' \in Joining => AskKnows' /\ CarveKnows' /\ FreeKnows' /\ NearKnows' /\ FoldKnows'
  /\ pc' \in {"out", "panic", "rest", "restStore"} => Knows'
<1> USE DEF Asking, Carving, Cut, Shrunk, Slots, Placed, Sized, Counted, Handing, Finding, Freeing, Around,
            Under, Joining, Lowering, Growing, Grown, Comparing, Cleared
<1>1. pc' \notin Asking \cup Carving \cup Counted => AskKnows' /\ CarveKnows'
  BY DEF AskKnows, CarveKnows
<1>2. pc' \notin Finding \cup Freeing => FreeKnows'
  BY DEF FreeKnows
<1>3. pc' \notin Around => NearKnows'
  BY DEF NearKnows
<1>4. pc' \notin Under => FoldKnows'
  BY DEF FoldKnows
<1>5. pc' \notin Joining => JoinKnows'
  BY DEF JoinKnows
<1>6. QED
  BY <1>1, <1>2, <1>3, <1>4, <1>5 DEF Knows

LEMMA SearchAlone ==
  ASSUME SoundAlone, Search
  PROVE  races' = {} /\ Knows'
<1>1. pc' \in Asking /\ races' = {}
  BY DEF Search, Test, Go, NextAt, Asking, SoundAlone
<1>2. AskKnows' /\ CarveKnows'
  BY DEF Search, Test, Slow, Go, NextAt, SoundAlone, Knows, AskKnows, CarveKnows, vars, Cut, Shrunk,
         Placed, Sized
<1>3. QED
  BY <1>1, <1>2, Elsewhere DEF Knows

LEMMA TakeAlone ==
  ASSUME SoundAlone, Take
  PROVE  races' = {} /\ Knows'
<1>1. pc' \in Counted /\ races' = {}
  BY DEF Take, Change, Write, Store, Slow, Go, Counted, SoundAlone, Knows, AskKnows, Raced, Fits
<1>2. AskKnows' /\ CarveKnows'
  BY DEF Take, Change, Write, Store, Slow, Go, AskKnows, CarveKnows, Cut, Shrunk, Placed, Sized
<1>3. QED
  BY <1>1, <1>2, Elsewhere DEF Knows

LEMMA CarveAlone ==
  ASSUME SoundAlone, Carve
  PROVE  races' = {} /\ Knows'
<1>t. table \in [Index -> Entry] /\ 0 \in Index /\ table[0] \in Entry /\ Mass = table[0]
  BY Operands DEF SoundAlone, Sound, Mass
<1>1. pc' \in Asking \cup Carving
  BY DEF Carve, CarvePtr, Load, Change, Write, Store, Slow, Go, Asking, Carving, Cut, Shrunk
<1>2. CASE Load("carve", Mass.ptr, "carvePtr") \/ Load("carveSize", Mass.size, "carveSizeStore")
           \/ Load("carveBytes", Mass.bytes, "carveBytesStore")
  <2>1. races' = {}
    BY <1>2 DEF Load, SoundAlone
  <2>2. AskKnows' /\ CarveKnows'
    BY <1>2 DEF Load, Slow, Go, SoundAlone, Knows, AskKnows, CarveKnows, vars, Cut, Shrunk, Placed, Sized, Mass
  <2>3. QED
    BY <1>1, <2>1, <2>2, Elsewhere DEF Knows
<1>3. CASE CarvePtr
  <2>1. reg = Mass.ptr /\ races' = {}
    BY <1>3 DEF CarvePtr, Store, Slow, Raced, SoundAlone, Knows, CarveKnows
  <2>2. AskKnows' /\ CarveKnows'
    BY <1>3 DEF CarvePtr, Store, Slow, Go, AskKnows, CarveKnows, Cut, Shrunk, Placed, Sized, Mass
  <2>3. QED
    BY <1>1, <2>1, <2>2, Elsewhere DEF Knows
<1>4. CASE Change("carveSizeStore", [table EXCEPT ![0].size = Wrap(reg - Align(arg))], "carveBytes",
                  "mass", View(Mass) # seen[1] \/ reg # seen[1].size, <<View(table'[0]), seen[2]>>)
  <2>1. View(Mass) = seen[1] /\ reg = seen[1].size
    BY <1>4, <1>t, ViewFields DEF Change, Store, Slow, SoundAlone, Knows, CarveKnows, Cut
  <2>2. races' = {}
    BY <1>4, <2>1 DEF Change, Raced, SoundAlone
  <2>3. AskKnows' /\ CarveKnows'
    BY <1>4 DEF Change, Store, Slow, Go, AskKnows, CarveKnows, Cut, Shrunk, Placed, Sized, Mass
  <2>4. QED
    BY <1>1, <2>2, <2>3, Elsewhere DEF Knows
<1>5. CASE Write("carveBytesStore", [table EXCEPT ![0].bytes = Wrap(reg - arg)], "carveState")
  <2>1. /\ View(Mass) = seen[1] /\ races' = {} /\ seen' = seen /\ pc' = "carveState"
        /\ table' = [table EXCEPT ![0].bytes = Wrap(reg - arg)]
    BY <1>5 DEF Write, Store, Slow, Go, SoundAlone, Knows, CarveKnows, Shrunk
  <2>2. View(table'[0]) = View(table[0])
    BY <1>t, <2>1 DEF View, Entry
  <2>3. AskKnows' /\ CarveKnows'
    BY <1>t, <2>1, <2>2 DEF AskKnows, CarveKnows, Cut, Shrunk, Placed, Sized, Mass
  <2>4. QED
    BY <1>1, <2>1, <2>3, Elsewhere DEF Knows
<1>6. CASE Change("carveState", [table EXCEPT ![0].state = "FREE"], "address",
                  "mass", Mass.state # "FREE", seen)
  <2>1. /\ View(Mass) = seen[1] /\ seen' = seen /\ pc' = "address"
        /\ table' = [table EXCEPT ![0].state = "FREE"] /\ seen[1].state = "FREE"
    BY <1>6 DEF Change, Store, Slow, Go, SoundAlone, Knows, CarveKnows, Shrunk, Sound, Ground, Staged,
                StagedCarve, Carving
  <2>2. Mass.state = "FREE"
    BY <1>t, <2>1, ViewFields
  <2>3. races' = {}
    BY <1>6, <2>2 DEF Change, Raced, SoundAlone
  <2>4. View(table'[0]) = View(table[0])
    BY <1>t, <2>1, <2>2 DEF View, Entry
  <2>5. AskKnows' /\ CarveKnows'
    BY <1>t, <2>1, <2>4 DEF AskKnows, CarveKnows, Cut, Shrunk, Placed, Sized, Mass
  <2>6. QED
    BY <1>1, <2>3, <2>5, Elsewhere DEF Knows
<1>7. QED
  BY <1>2, <1>3, <1>4, <1>5, <1>6 DEF Carve

LEMMA AddressAlone ==
  ASSUME SoundAlone, Address
  PROVE  races' = {} /\ Knows'
<1> DEFINE a == Align(arg)
<1>1. pc = "address" /\ pc' = "slot" /\ reg' = Wrap(Mass.ptr - a) /\ (reg' = before[1].ptr => races' = races)
  BY DEF Address, Slow, Go, Raced
<1>2. /\ View(Mass) = seen[1] /\ StagedCarve /\ pc \in Shrunk
  BY <1>1 DEF SoundAlone, Sound, Ground, Staged, Knows, CarveKnows, Carving, Shrunk
<1>3. /\ PTyped /\ table[0] \in Entry /\ Mass = table[0] /\ arg \in Sizes
  BY <1>2, Operands, HistoryTyped DEF SoundAlone, Sound, Mass, Carving
<1>4. before[1].ptr \in UInt /\ a \in UInt /\ Mass.ptr = Wrap(before[1].ptr + a)
  BY <1>2, <1>3, HistoryTyped, AlignSize, ViewFields DEF StagedCarve
<1> HIDE DEF a
<1>5. /\ before[1].ptr + a \in Int /\ -a \in Int /\ (before[1].ptr + a) + (-a) = before[1].ptr
      /\ Wrap(before[1].ptr + a) + (-a) = Wrap(before[1].ptr + a) - a
  BY <1>4, WrapUInt DEF UInt
<1>6. reg' = before[1].ptr
  BY <1>1, <1>4, <1>5, WrapTwice, WrapId
<1>7. AskKnows' /\ CarveKnows'
  BY <1>1 DEF AskKnows, CarveKnows, Cut, Shrunk, Placed, Sized
<1>8. pc' \in Carving
  BY <1>1 DEF Carving, Slots
<1>9. QED
  BY <1>1, <1>6, <1>7, <1>8, Elsewhere DEF Knows, SoundAlone

LEMMA FreeIndexAlone ==
  ASSUME SoundAlone, FreeIndex
  PROVE  races' = {} /\ Knows'
<1>1. pc' \in Carving \cup {"panic"} /\ races' = {}
  BY DEF FreeIndex, Null, Slow, Go, NextAt, Carving, Slots, SoundAlone
<1>2. AskKnows' /\ CarveKnows'
  BY DEF FreeIndex, Null, Slow, Go, NextAt, SoundAlone, Knows, AskKnows, CarveKnows, vars, Cut, Shrunk,
         Placed, Sized
<1>3. QED
  BY <1>1, <1>2, Elsewhere DEF Knows

LEMMA CreateAlone ==
  ASSUME SoundAlone, Create
  PROVE  races' = {} /\ Knows'
<1>t. /\ table \in [Index -> Entry] /\ at \in Index /\ table[at] \in Entry
      /\ PTyped /\ seen[2] \in Views
  BY Operands, HistoryTyped DEF SoundAlone, Sound
<1>1. pc' \in Carving \cup Counted
  BY DEF Create, CreateState, Change, Write, Store, Slow, Go, Carving, Placed, Sized, Counted
<1>2. CASE Change("createPtr", [table EXCEPT ![at].ptr = reg], "createSize",
                  "slot", View(table[at]) # seen[2], <<seen[1], View(table'[at])>>)
  <2>1. /\ table[at].ptr = 0 /\ table[at].size = 0 /\ table[at].state = "FREE" /\ StagedCarve
        /\ pc \notin Placed \cup Sized
    BY <1>2 DEF Change, Store, Slow, SoundAlone, Sound, Ground, Staged, Knows, CarveKnows, Carving,
                Slots, Placed, Sized
  <2>2. seen[2].ptr = 0 /\ seen[2].size = 0 /\ seen[2].state = "FREE"
    BY <2>1 DEF StagedCarve
  <2>3. View(table[at]) = seen[2]
    BY <1>t, <2>1, <2>2, ViewFields, SameView
  <2>4. races' = {}
    BY <1>2, <2>3 DEF Change, Raced, SoundAlone
  <2>5. AskKnows' /\ CarveKnows'
    BY <1>2 DEF Change, Store, Slow, Go, AskKnows, CarveKnows, Cut, Shrunk, Placed, Sized
  <2>6. QED
    BY <1>1, <2>4, <2>5, Elsewhere DEF Knows
<1>3. CASE Change("createSize", [table EXCEPT ![at].size = Align(arg)], "createBytes",
                  "slot", View(table[at]) # seen[2], <<seen[1], View(table'[at])>>)
  <2>1. races' = {}
    BY <1>3 DEF Change, Store, Slow, Raced, SoundAlone, Knows, CarveKnows, Placed
  <2>2. AskKnows' /\ CarveKnows'
    BY <1>3 DEF Change, Store, Slow, Go, AskKnows, CarveKnows, Cut, Shrunk, Placed, Sized
  <2>3. QED
    BY <1>1, <2>1, <2>2, Elsewhere DEF Knows
<1>4. CASE Write("createBytes", [table EXCEPT ![at].bytes = Align(Align(arg))], "createState")
  <2>1. /\ View(table[at]) = seen[2] /\ races' = {} /\ seen' = seen /\ pc' = "createState" /\ at' = at
        /\ table' = [table EXCEPT ![at].bytes = Align(Align(arg))]
    BY <1>4 DEF Write, Store, Slow, Go, SoundAlone, Knows, CarveKnows, Sized
  <2>2. View(table'[at]) = View(table[at])
    BY <1>t, <2>1 DEF View, Entry
  <2>3. AskKnows' /\ CarveKnows'
    BY <2>1, <2>2 DEF AskKnows, CarveKnows, Cut, Shrunk, Placed, Sized
  <2>4. QED
    BY <1>1, <2>1, <2>3, Elsewhere DEF Knows
<1>5. CASE CreateState
  <2>1. races' = {}
    BY <1>5 DEF CreateState, Store, Slow, Raced, SoundAlone, Knows, CarveKnows, Sized
  <2>2. AskKnows' /\ CarveKnows'
    BY <1>5 DEF CreateState, Store, Slow, Go, AskKnows, CarveKnows, Cut, Shrunk, Placed, Sized
  <2>3. QED
    BY <1>1, <2>1, <2>2, Elsewhere DEF Knows
<1>6. CASE Write("createAsked", [table EXCEPT ![at].bytes = arg], "check")
  <2>1. races' = {}
    BY <1>6 DEF Write, SoundAlone
  <2>2. AskKnows' /\ CarveKnows'
    BY <1>6 DEF Write, Store, Slow, Go, AskKnows, CarveKnows, Cut, Shrunk, Placed, Sized
  <2>3. QED
    BY <1>1, <2>1, <2>2, Elsewhere DEF Knows
<1>7. QED
  BY <1>2, <1>3, <1>4, <1>5, <1>6 DEF Create

LEMMA FinishAlone ==
  ASSUME SoundAlone, Finish
  PROVE  races' = {} /\ Knows'
<1>1. pc' \in Counted \cup Handing \cup {"panic", "out"}
  BY DEF Finish, CountStore, Give, Test, Load, Write, Store, Slow, Go, Counted, Handing
<1>2. races' = {}
  BY DEF Finish, CountStore, Give, Test, Load, Write, Slow, Raced, SoundAlone, Knows, AskKnows
<1>3. CarveKnows'
  BY DEF Finish, CountStore, Give, Test, Load, Write, Store, Slow, Go, CarveKnows, Cut, Shrunk, Placed, Sized
<1>4. AskKnows'
  BY DEF Finish, CountStore, Give, Test, Load, Write, Store, Slow, Go, AskKnows, SoundAlone, Knows, vars
<1>5. QED
  BY <1>1, <1>2, <1>3, <1>4, Elsewhere DEF Knows

LEMMA FindAlone ==
  ASSUME SoundAlone, Find
  PROVE  races' = {} /\ Knows'
<1>1. table[at].state \in {"FREE", "USED"}
  BY Operands DEF SoundAlone, Sound
<1>2. pc' \in Finding \cup {"out"} /\ races' = {}
  BY DEF Find, Test, Go, NextAt, Finding, SoundAlone
<1>3. FreeKnows'
  BY <1>1 DEF Find, Test, Slow, Go, NextAt, SoundAlone, Knows, FreeKnows, vars, Freeing
<1>4. QED
  BY <1>2, <1>3, Elsewhere DEF Knows

LEMMA ReleaseAlone ==
  ASSUME SoundAlone, Release
  PROVE  races' = {} /\ Knows'
<1>t. table \in [Index -> Entry] /\ at \in Index /\ table[at] \in Entry
  BY Operands DEF SoundAlone, Sound
<1>1. /\ pc = "release" /\ pc' = "uncount" /\ at' = at /\ table' = [table EXCEPT ![at].state = "FREE"]
      /\ seen' = <<View(table[at]), View(EMPTY)>> /\ (at \in Holding(arg) => races' = races)
  BY DEF Release, Store, Slow, Go, Raced
<1>2. at \in Holding(arg)
  BY <1>1, <1>t DEF SoundAlone, Knows, FreeKnows, Holding
<1>3. table'[at].size = table[at].size
  BY <1>t, <1>1 DEF Entry
<1>4. seen'[1].size = table[at].size
  BY <1>t, <1>1, ViewFields
<1>5. FreeKnows'
  BY <1>1, <1>3, <1>4 DEF FreeKnows
<1>6. pc' \in Freeing
  BY <1>1 DEF Freeing
<1>7. QED
  BY <1>1, <1>2, <1>5, <1>6, Elsewhere DEF Knows, SoundAlone

LEMMA UncountAlone ==
  ASSUME SoundAlone, Uncount
  PROVE  races' = {} /\ Knows'
<1>1. races' = {}
  BY DEF Uncount, UncountStore, Load, Slow, Raced, SoundAlone, Knows, FreeKnows
<1>2. CASE UncountStore
  <2>1. pc' = "merge" /\ pc' \in Around
    BY <1>2 DEF UncountStore, Around
  <2>2. NearKnows'
    BY <2>1 DEF NearKnows
  <2>3. QED
    BY <1>1, <2>1, <2>2, Elsewhere DEF Knows
<1>3. CASE ~UncountStore
  <2>1. pc' \in Freeing
    BY <1>3 DEF Uncount, Load, Slow, Go, Freeing
  <2>2. FreeKnows'
    BY <1>3 DEF Uncount, Load, Slow, Go, Freeing, SoundAlone, Knows, FreeKnows, vars
  <2>3. QED
    BY <1>1, <2>1, <2>2, Elsewhere DEF Knows
<1>4. QED
  BY <1>2, <1>3

LEMMA MergeAlone ==
  ASSUME SoundAlone, Merge
  PROVE  races' = {} /\ Knows'
<1>1. races' = {} /\ pc' \in Around \cup Under
  BY DEF Merge, Test, Go, NextMerge, NextAt, SoundAlone, Around, Under
<1>2. NearKnows'
  BY DEF Merge, Test, Slow, Go, NextMerge, NextAt, SoundAlone, Knows, NearKnows, vars, Around
<1>3. FoldKnows'
  BY DEF Merge, Test, Slow, Go, NextMerge, NextAt, FoldKnows, Under
<1>4. QED
  BY <1>1, <1>2, <1>3, Elsewhere DEF Knows

LEMMA NearestAlone ==
  ASSUME SoundAlone, GetNearest
  PROVE  races' = {} /\ Knows'
<1>1. races' = {} /\ pc' \in Around \cup Under
  BY DEF GetNearest, Load, Test, Go, Found, NotNear, NextNear, NextMerge, NextAt, SoundAlone, Around, Under
<1>2. FoldKnows'
  BY DEF GetNearest, Load, Test, Go, Found, NotNear, NextNear, NextMerge, NextAt, FoldKnows, Under
<1>3. UNCHANGED table
  BY DEF GetNearest, Load, Test, vars
<1>4. NearKnows'
  <2>1. CASE \/ Test("near", table[near].ptr > 0, Go("nearSize"), NotNear)
             \/ Test("nearSize", table[near].size > 0 /\ near # at, Go("end"), NotNear)
    BY <1>3, <2>1 DEF Test, Slow, Go, NotNear, NextNear, NextMerge, NextAt, SoundAlone, Knows, NearKnows,
                      Around
  <2>2. CASE \/ Load("end", table[near].ptr, "endSize")
             \/ Load("endSize", Wrap(reg + table[near].size), "endTest")
             \/ Test("endTest", reg = table[at].ptr, Go("endState"), Go("start"))
             \/ Test("endState", table[near].state = "FREE", Found, Go("start"))
    BY <1>3, <2>2 DEF Load, Test, Slow, Go, Found, NextMerge, NextAt, SoundAlone, Knows, NearKnows,
                      Around, Ends, Starts
  <2>3. CASE \/ Load("start", table[at].ptr, "startSize")
             \/ Load("startSize", Wrap(reg - table[at].size), "startTest")
             \/ Test("startTest", reg = table[near].ptr, Go("startState"), NotNear)
             \/ Test("startState", table[near].state = "FREE", Found, NotNear)
    BY <1>3, <2>3 DEF Load, Test, Slow, Go, Found, NotNear, NextNear, NextMerge, NextAt, SoundAlone,
                      Knows, NearKnows, Around, Ends, Starts
  <2>4. QED
    BY <2>1, <2>2, <2>3 DEF GetNearest
<1>5. QED
  BY <1>1, <1>2, <1>4, Elsewhere DEF Knows

LEMMA BodyAlone ==
  ASSUME SoundAlone, MergeBody
  PROVE  races' = {} /\ Knows'
<1>1. CASE Load("compare", table[at].ptr, "compareWith")
  <2>1. races' = {} /\ pc' \in Around
    BY <1>1 DEF Load, Go, SoundAlone, Around
  <2>2. NearKnows'
    BY <1>1 DEF Load, Slow, Go, SoundAlone, Knows, NearKnows, Around, Ends, Starts, vars
  <2>3. QED
    BY <2>1, <2>2, Elsewhere DEF Knows
<1>2. CASE Compare
  <2>1. /\ pc = "compareWith" /\ pc' \in {"lower", "grow"} /\ pc' \in Joining
        /\ seen' = <<View(table[at]), View(table[near])>> /\ before' = seen'
        /\ UNCHANGED <<table, at, near, del>> /\ (Neighbours /\ reg = table[at].ptr => races' = races)
    BY <1>2 DEF Compare, Begin, Slow, Go, Raced, Joining, Lowering, Growing
  <2>2. Neighbours /\ reg = table[at].ptr /\ near # at
    <3>1. near \in Index
      BY Operands DEF SoundAlone, Sound
    <3>2. QED
      BY <2>1, <3>1 DEF SoundAlone, Knows, NearKnows, Around, Ends, Starts, Neighbours, Nearest
  <2>3. JoinKnows'
    BY <2>1, <2>2 DEF JoinKnows, Grown, Comparing, Cleared
  <2>4. QED
    BY <2>1, <2>2, <2>3, Elsewhere DEF Knows, SoundAlone
<1>3. CASE Load("lower", table[near].ptr, "lowerStore")
  <2>1. /\ pc = "lower" /\ pc' = "lowerStore" /\ reg' = table[near].ptr /\ races' = {}
        /\ UNCHANGED <<table, at, near, del, before, seen>>
    BY <1>3 DEF Load, Slow, Go, SoundAlone, vars
  <2>2. /\ View(table[near]) = seen[2] /\ View(table[at]) = seen[1]
        /\ (near = at => before[1] = before[2])
    BY <2>1 DEF SoundAlone, Knows, JoinKnows, Lowering, Joining
  <2>3. table[near].ptr = seen[2].ptr
    <3>1. table[near] \in Entry
      BY Operands DEF SoundAlone, Sound
    <3>2. QED
      BY <2>2, <3>1, ViewFields
  <2>4. JoinKnows'
    BY <2>1, <2>2, <2>3 DEF JoinKnows, Growing, Grown, Comparing, Cleared
  <2>5. pc' \in Joining
    BY <2>1 DEF Joining, Lowering
  <2>6. QED
    BY <2>1, <2>4, <2>5, Elsewhere DEF Knows
<1>4. QED
  BY <1>1, <1>2, <1>3 DEF MergeBody

LEMMA FoldAlone ==
  ASSUME SoundAlone, Fold
  PROVE  races' = {} /\ Knows'
<1>1. races' = {} /\ pc' \in Under \cup {"rest"}
  BY DEF Fold, Load, Test, Go, NotBelow, NextNear, SoundAlone, Under
<1>2. FoldKnows'
  BY DEF Fold, Load, Test, Slow, Go, NotBelow, NextNear, SoundAlone, Knows, FoldKnows, Under, vars, Mass
<1>3. QED
  BY <1>1, <1>2, Elsewhere DEF Knows

LEMMA FoldBodyAlone ==
  ASSUME SoundAlone, FoldBody
  PROVE  races' = {} /\ Knows'
<1>1. /\ pc = "foldLower" /\ pc' = "lowerStore" /\ reg' = table[near].ptr
      /\ seen' = <<View(Mass), View(table[near])>> /\ before' = seen'
      /\ UNCHANGED <<table, at, near, del>> /\ (near \in BelowMass => races' = races)
  BY DEF FoldBody, Begin, Slow, Go, Raced
<1>2. near \in Index /\ table[near] \in Entry
  BY Operands DEF SoundAlone, Sound
<1>3. at = 0 /\ near \in BelowMass
  BY <1>1, <1>2 DEF SoundAlone, Knows, FoldKnows, Under, BelowMass
<1>4. View(table[near]).ptr = table[near].ptr
  BY <1>2, ViewFields
<1>5. JoinKnows'
  BY <1>1, <1>3, <1>4 DEF JoinKnows, Growing, Grown, Comparing, Cleared, Mass
<1>6. pc' \in Joining
  BY <1>1 DEF Joining, Lowering
<1>7. QED
  BY <1>1, <1>3, <1>5, <1>6, Elsewhere DEF Knows, SoundAlone

\* A block that is taken into itself has no size.
LEMMA SelfEmpty ==
  ASSUME SoundAlone, pc \in Joining, near = at
  PROVE  before[1].size = 0 /\ before[2].size = 0
<1>1. before[1] = before[2] /\ StagedJoin
  BY DEF SoundAlone, Knows, JoinKnows, Sound, Ground, Staged
<1>2. before[2].ptr \in UInt /\ before[2].size \in UInt
  BY HistoryTyped DEF SoundAlone, Sound
<1>3. QED
  BY <1>1, <1>2, NoGoingRound DEF StagedJoin

LEMMA GrowAlone ==
  ASSUME SoundAlone, Grow
  PROVE  races' = {} /\ Knows'
<1>t. /\ table \in [Index -> Entry] /\ at \in Index /\ near \in Index /\ PTyped
      /\ table[at] \in Entry /\ table[near] \in Entry
  BY Operands DEF SoundAlone, Sound
<1>0. pc' \in Joining /\ UNCHANGED <<at, near, del, before>>
  BY DEF Grow, Change, Write, Load, Store, Slow, Go, Joining, Growing, Grown, Comparing
<1>s. pc \in Joining /\ StagedJoin /\ (near = at => before[1] = before[2])
  <2>1. pc \in Joining
    BY DEF Grow, Change, Write, Load, Store, Slow, Joining, Lowering, Growing, Grown
  <2>2. QED
    BY <2>1 DEF SoundAlone, Sound, Ground, Staged, Knows, JoinKnows
<1>1. CASE Change("lowerStore", [table EXCEPT ![at].ptr = reg], "grow", Kind,
                  View(table[at]) # seen[1] \/ reg # seen[2].ptr, <<View(table'[at]), seen[2]>>)
  <2>1. /\ pc = "lowerStore" /\ pc' = "grow" /\ table' = [table EXCEPT ![at].ptr = reg]
        /\ seen' = <<View(table'[at]), seen[2]>>
        /\ (View(table[at]) = seen[1] /\ reg = seen[2].ptr => races' = races)
    BY <1>1 DEF Change, Store, Slow, Go, Raced
  <2>2. View(table[at]) = seen[1] /\ View(table[near]) = seen[2] /\ reg = seen[2].ptr
    BY <2>1 DEF SoundAlone, Knows, JoinKnows, Lowering
  <2>3. table[near].ptr = reg
    BY <1>t, <2>2, ViewFields
  <2>4. View(table'[near]) = View(table[near])
    BY <1>t, <2>1, <2>3 DEF View, Entry
  <2>5. JoinKnows'
    BY <1>0, <1>s, <2>1, <2>2, <2>4 DEF JoinKnows, Grown, Comparing, Cleared
  <2>6. QED
    BY <1>0, <2>1, <2>2, <2>5, Elsewhere DEF Knows, SoundAlone
<1>2. CASE Load("grow", table[at].size, "growAdd") \/ Load("growAdd", Wrap(reg + table[near].size), "growStore")
  <2>1. /\ UNCHANGED <<table, seen>> /\ races' = {} /\ pc \in Growing
        /\ \/ pc = "grow" /\ pc' = "growAdd" /\ reg' = table[at].size
           \/ pc = "growAdd" /\ pc' = "growStore" /\ reg' = Wrap(reg + table[near].size)
    BY <1>2 DEF Load, Slow, Go, SoundAlone, vars, Growing
  <2>2. /\ View(table[at]) = seen[1] /\ View(table[near]) = seen[2]
        /\ (pc = "growAdd" => reg = seen[1].size)
    BY <2>1 DEF SoundAlone, Knows, JoinKnows
  <2>3. table[at].size = seen[1].size /\ table[near].size = seen[2].size
    BY <1>t, <2>2, ViewFields
  <2>4. JoinKnows'
    BY <1>0, <1>s, <2>1, <2>2, <2>3 DEF JoinKnows, Grown, Comparing, Cleared
  <2>5. QED
    BY <1>0, <2>1, <2>4, Elsewhere DEF Knows
<1>3. CASE Change("growStore", [table EXCEPT ![at].size = reg], IF at = 0 THEN "foldBytes" ELSE "bytes",
                  Kind, View(table[at]) # seen[1] \/ reg # Wrap(seen[1].size + seen[2].size),
                  <<View(table'[at]), seen[2]>>)
  <2>1. /\ pc = "growStore" /\ pc' \in {"foldBytes", "bytes"} /\ table' = [table EXCEPT ![at].size = reg]
        /\ seen' = <<View(table'[at]), seen[2]>>
        /\ (View(table[at]) = seen[1] /\ reg = Wrap(seen[1].size + seen[2].size) => races' = races)
    BY <1>3 DEF Change, Store, Slow, Go, Raced
  <2>2. /\ View(table[at]) = seen[1] /\ View(table[near]) = seen[2]
        /\ reg = Wrap(seen[1].size + seen[2].size) /\ pc \notin Lowering \cup Cleared
    BY <2>1 DEF SoundAlone, Knows, JoinKnows, Growing, Lowering, Cleared
  <2>3. near = at => reg = table[at].size
    <3>1. ASSUME near = at PROVE reg = table[at].size
      <4>1. before[1].size = 0 /\ before[2].size = 0 /\ seen[2] = before[2]
        BY <1>s, <2>2, <3>1, SelfEmpty DEF StagedJoin
      <4>2. seen[1].size = 0 /\ seen[2].size = 0
        BY <2>2, <3>1, <4>1
      <4>3. Wrap(0 + 0) = 0
        BY ZeroIndex, WrapId
      <4>4. table[at].size = 0
        BY <1>t, <2>2, <4>2, ViewFields
      <4>5. QED
        BY <2>2, <4>2, <4>3, <4>4
    <3>2. QED
      BY <3>1
  <2>4. View(table'[near]) = View(table[near])
    BY <1>t, <2>1, <2>3 DEF View, Entry
  <2>5. JoinKnows'
    BY <1>0, <1>s, <2>1, <2>2, <2>4 DEF JoinKnows, Lowering, Growing, Grown, Comparing, Cleared
  <2>6. QED
    BY <1>0, <2>1, <2>2, <2>5, Elsewhere DEF Knows, SoundAlone
<1>4. CASE Load("bytes", table[at].size, "bytesStore")
  <2>1. /\ UNCHANGED <<table, seen>> /\ races' = {} /\ pc = "bytes" /\ pc' = "bytesStore"
    BY <1>4 DEF Load, Slow, Go, SoundAlone, vars
  <2>2. View(table[at]) = seen[1] /\ View(table[near]) = seen[2]
    BY <2>1 DEF SoundAlone, Knows, JoinKnows, Grown
  <2>3. JoinKnows'
    BY <1>0, <1>s, <2>1, <2>2 DEF JoinKnows, Lowering, Growing, Grown, Comparing, Cleared
  <2>4. QED
    BY <1>0, <2>1, <2>3, Elsewhere DEF Knows
<1>5. CASE \/ Write("bytesStore", [table EXCEPT ![at].bytes = reg], "free")
           \/ Write("foldBytes", [table EXCEPT ![at].bytes = 0], "free")
  <2>1. /\ seen' = seen /\ races' = {} /\ pc \in {"bytesStore", "foldBytes"} /\ pc' = "free"
        /\ (table' = [table EXCEPT ![at].bytes = reg] \/ table' = [table EXCEPT ![at].bytes = 0])
    BY <1>5 DEF Write, Store, Slow, Go, SoundAlone
  <2>2. View(table[at]) = seen[1] /\ View(table[near]) = seen[2]
    BY <2>1 DEF SoundAlone, Knows, JoinKnows, Grown
  <2>3. View(table'[at]) = View(table[at]) /\ View(table'[near]) = View(table[near])
    BY <1>t, <2>1 DEF View, Entry
  <2>4. JoinKnows'
    BY <1>0, <1>s, <2>1, <2>2, <2>3 DEF JoinKnows, Lowering, Growing, Grown, Comparing, Cleared
  <2>5. QED
    BY <1>0, <2>1, <2>4, Elsewhere DEF Knows
<1>6. CASE Change("free", [table EXCEPT ![at].state = "FREE"], "delete", Kind, table[at].state # "FREE", seen)
  <2>1. /\ seen' = seen /\ pc = "free" /\ pc' = "delete" /\ table' = [table EXCEPT ![at].state = "FREE"]
        /\ (table[at].state = "FREE" => races' = races)
    BY <1>6 DEF Change, Store, Slow, Go, Raced
  <2>2. View(table[at]) = seen[1] /\ View(table[near]) = seen[2] /\ seen[1].state = "FREE"
    BY <1>s, <2>1 DEF SoundAlone, Knows, JoinKnows, Grown, StagedJoin
  <2>3. table[at].state = "FREE"
    BY <1>t, <2>2, ViewFields
  <2>4. View(table'[near]) = View(table[near])
    BY <1>t, <2>1, <2>3 DEF View, Entry
  <2>5. JoinKnows'
    BY <1>0, <1>s, <2>1, <2>2, <2>4 DEF JoinKnows, Lowering, Growing, Grown, Comparing, Cleared
  <2>6. QED
    BY <1>0, <2>1, <2>3, <2>5, Elsewhere DEF Knows, SoundAlone
<1>7. QED
  BY <1>1, <1>2, <1>3, <1>4, <1>5, <1>6 DEF Grow

LEMMA DeleteAlone ==
  ASSUME SoundAlone, DeleteEntry
  PROVE  races' = {} /\ Knows'
<1>t. /\ at \in Index /\ near \in Index /\ del \in Index /\ PTyped
      /\ table[near] \in Entry /\ table[del] \in Entry /\ seen[2] \in Views
  BY Operands, HistoryTyped DEF SoundAlone, Sound
<1>1. /\ races' = {} /\ UNCHANGED <<table, seen, before, at, near>> /\ pc' \in Comparing \cup {"clear", "panic"}
  BY DEF DeleteEntry, Same, Test, Load, Go, NextDel, SoundAlone, vars, Comparing
<1>2. /\ pc \in Comparing /\ View(table[near]) = seen[2] /\ (near = at => before[1] = before[2])
  <2>1. pc \in Comparing
    BY DEF DeleteEntry, Same, Test, Load, Slow, Comparing
  <2>2. pc \in Joining /\ pc \in Grown \ {"clear", "clearSize"}
    BY <2>1 DEF Comparing, Joining, Grown
  <2>3. QED
    BY <2>1, <2>2 DEF SoundAlone, Knows, JoinKnows
<1>3. seen[2].ptr = table[near].ptr /\ seen[2].size = table[near].size /\ seen[2].state = table[near].state
  BY <1>2, <1>t, ViewFields
<1>4. pc' = "clear" => View(table[del]) = seen[2]
  <2>1. ASSUME pc' = "clear" PROVE View(table[del]) = seen[2]
    <3>1. pc = "sameStateWith" /\ reg = table[near].state
      BY <2>1 DEF DeleteEntry, Same, Test, Load, Slow, Go, NextDel
    <3>2. /\ table[del].state = seen[2].state /\ table[del].ptr = seen[2].ptr
          /\ table[del].size = seen[2].size
      BY <1>3, <3>1 DEF SoundAlone, Knows, JoinKnows, Comparing
    <3>3. QED
      BY <1>t, <3>2, ViewFields, SameView
  <2>2. QED
    BY <2>1
<1>5. pc' = "clear" => del' = del
  BY DEF DeleteEntry, Same, Test, Load, Go, NextDel
<1>6. JoinKnows'
  <2>1. CASE pc' \in {"clear", "panic"}
    BY <1>1, <1>2, <1>4, <1>5, <2>1 DEF JoinKnows, Lowering, Growing, Grown, Comparing, Cleared, Joining
  <2>2. CASE pc' \in Comparing
    <3>1. /\ (pc' \in {"sameSize", "sameSizeWith", "sameBytes", "sameBytesWith", "sameState", "sameStateWith"}
               => table[del'].ptr = seen[2].ptr)
          /\ (pc' \in {"sameBytes", "sameBytesWith", "sameState", "sameStateWith"}
               => table[del'].size = seen[2].size)
      BY <1>3 DEF DeleteEntry, Same, Test, Load, Slow, Go, NextDel, SoundAlone, Knows, JoinKnows, Comparing
    <3>2. /\ (pc' = "sameWith" => reg' = table[del'].ptr) /\ (pc' = "sameSizeWith" => reg' = table[del'].size)
          /\ (pc' = "sameStateWith" => reg' = table[del'].state)
      BY DEF DeleteEntry, Same, Test, Load, Slow, Go, NextDel
    <3>3. QED
      BY <1>1, <1>2, <2>2, <3>1, <3>2 DEF JoinKnows, Lowering, Growing, Grown, Comparing, Cleared
  <2>3. QED
    BY <1>1, <2>1, <2>2
<1>7. pc' \in Joining \cup {"panic"}
  BY <1>1 DEF Joining, Grown
<1>8. QED
  BY <1>1, <1>6, <1>7, Elsewhere DEF Knows

LEMMA ClearAlone ==
  ASSUME SoundAlone, Clear
  PROVE  races' = {} /\ Knows'
<1>t. /\ table \in [Index -> Entry] /\ del \in Index /\ table[del] \in Entry
  BY Operands DEF SoundAlone, Sound
<1>1. /\ pc \in {"clear", "clearSize", "clearState", "clearThird", "clearLast"} /\ pc \in Joining
      /\ View(table[del]) = seen[2] /\ (near = at => before[1] = before[2])
  <2>1. pc \in {"clear", "clearSize", "clearState", "clearThird", "clearLast"}
    BY DEF Clear, ClearLast, Change, Write, Store, Slow
  <2>2. pc \in Joining /\ pc \in Cleared \cup {"clear", "clearSize"}
    BY <2>1 DEF Joining, Grown, Cleared
  <2>3. QED
    BY <2>1, <2>2 DEF SoundAlone, Knows, JoinKnows
<1>2. races' = {}
  BY <1>1 DEF Clear, ClearLast, Change, Write, Raced, Stale, SoundAlone
<1>3. CASE ClearLast
  <2>1. pc' \in Around \cup Under \cup {"rest"} /\ NearKnows' /\ FoldKnows'
    BY <1>3 DEF ClearLast, NextMerge, NextAt, Around, Under, NearKnows, FoldKnows
  <2>2. QED
    BY <1>2, <2>1, Elsewhere DEF Knows
<1>4. CASE Write("clear", [table EXCEPT ![del].bytes = 0], "clearSize")
  <2>1. /\ pc' = "clearSize" /\ table' = [table EXCEPT ![del].bytes = 0]
        /\ UNCHANGED <<seen, before, at, near, del>>
    BY <1>4 DEF Write, Store, Go
  <2>2. View(table'[del]) = View(table[del])
    BY <1>t, <2>1 DEF View, Entry
  <2>3. JoinKnows'
    BY <1>1, <2>1, <2>2 DEF JoinKnows, Lowering, Growing, Grown, Comparing, Cleared
  <2>4. pc' \in Joining
    BY <2>1 DEF Joining, Grown
  <2>5. QED
    BY <1>2, <2>3, <2>4, Elsewhere DEF Knows
<1>5. CASE ~ClearLast /\ pc # "clear"
  <2>1. /\ pc' \in {"clearState", "clearThird", "clearLast"} /\ seen' = Left(table')
        /\ UNCHANGED <<before, at, near, del>>
    BY <1>5 DEF Clear, Change, Write, Store, Slow, Go
  <2>2. seen'[2] = View(table'[del])
    BY <2>1 DEF Left
  <2>3. JoinKnows'
    BY <1>1, <2>1, <2>2 DEF JoinKnows, Lowering, Growing, Grown, Comparing, Cleared
  <2>4. pc' \in Joining
    BY <2>1 DEF Joining, Cleared
  <2>5. QED
    BY <1>2, <2>3, <2>4, Elsewhere DEF Knows
<1>6. QED
  BY <1>3, <1>4, <1>5 DEF Clear, Change, Store, Slow

LEMMA RestAlone ==
  ASSUME SoundAlone, Rest
  PROVE  races' = {} /\ Knows'
<1>1. races' = {} /\ pc' \in {"restStore", "out"}
  BY DEF Rest, Load, Write, Store, Go, SoundAlone
<1>2. QED
  BY <1>1, Elsewhere

LEMMA AllocateAlone ==
  ASSUME SoundAlone, AllocateStep
  PROVE  races' = {} /\ Knows'
<1>1. ASSUME NEW size \in Sizes, Asked(size) PROVE races' = {} /\ Knows'
  <2>1. pc' \in {"out", "search"} /\ races' = {}
    BY <1>1 DEF Asked, Go, SoundAlone
  <2>2. pc' = "search" => pc' \in Asking /\ AskKnows' /\ CarveKnows'
    BY DEF Asking, AskKnows, CarveKnows, Cut, Shrunk, Placed, Sized
  <2>3. QED
    BY <2>1, <2>2, Elsewhere DEF Knows
<1>2. QED
  BY <1>1, SearchAlone, TakeAlone, CarveAlone, AddressAlone, FreeIndexAlone, CreateAlone, FinishAlone
     DEF AllocateStep

LEMMA FreeAlone ==
  ASSUME SoundAlone, FreeStep
  PROVE  races' = {} /\ Knows'
<1>1. ASSUME NEW p \in DATA_BASE .. DATA_END - 1, Freed(p) PROVE races' = {} /\ Knows'
  <2>1. pc' = "find" /\ races' = {} /\ pc' \in Finding
    BY <1>1 DEF Freed, SoundAlone, Finding
  <2>2. FreeKnows'
    BY <2>1 DEF FreeKnows, Freeing
  <2>3. QED
    BY <2>1, <2>2, Elsewhere DEF Knows
<1>2. QED
  BY <1>1, FindAlone, ReleaseAlone, UncountAlone, MergeAlone, NearestAlone, BodyAlone, FoldAlone, FoldBodyAlone,
     GrowAlone, DeleteAlone, ClearAlone, RestAlone DEF FreeStep

LEMMA AloneNext == PInv /\ Alone /\ [PNext]_preemptedVars => Alone'
<1> SUFFICES ASSUME PInv, Alone, [PNext]_preemptedVars PROVE Alone'
  OBVIOUS
<1>1. CASE UNCHANGED preemptedVars
  BY <1>1 DEF preemptedVars, vars, slowVars, Alone, Knows, AskKnows, CarveKnows, FreeKnows, NearKnows, FoldKnows,
              JoinKnows, Ends, Starts, Mass
<1>2. CASE PNext
  <2>1. Followed /\ (Whole \/ AllocateStep \/ FreeStep \/ Panic)
    BY <1>2 DEF PNext
  <2>2. CASE Whole
    <3>1. interrupted' = (interrupted \/ pc # "out") /\ pc' = pc /\ races' = races
      BY <2>2, WholeIsNext
    <3>2. QED
      BY <3>1, Elsewhere DEF Alone
  <2>3. CASE Panic
    BY <2>3, Elsewhere DEF Panic, Slow, slowVars, Alone
  <2>4. CASE AllocateStep \/ FreeStep
    <3>1. ~halted /\ pc # "panic" /\ (pc # "out" => interrupted' = interrupted)
      <4>1. CASE AllocateStep
        BY <4>1 DEF AllocateStep, Asked, Search, Take, Carve, CarvePtr, Address, FreeIndex, Null, Create,
           CreateState, Finish, CountStore, Give, Load, Test, Write, Change, Store, Slow
      <4>2. CASE FreeStep
        BY <4>2 DEF FreeStep, Freed, Find, Release, Uncount, UncountStore, Merge, GetNearest, MergeBody,
           Compare, Fold, FoldBody, Grow, DeleteEntry, Same, Clear, ClearLast, Rest, Load, Test, Write,
           Change, Store, Slow
      <4>3. QED
        BY <2>4, <4>1, <4>2
    <3>2. Sound
      BY <2>1, <3>1 DEF PInv, Sound, Followed, Quiet, Balanced, Counting
    <3>3. CASE pc # "out"
      <4>1. ~interrupted => SoundAlone
        BY <3>2 DEF Alone, SoundAlone
      <4>2. QED
        BY <2>4, <3>1, <3>3, <4>1, AllocateAlone, FreeAlone DEF Alone
    <3>4. CASE pc = "out"
      <4>1. races = {}
        BY <2>1, <3>4 DEF Followed
      <4>2. races' = {} /\ pc' \in {"out", "search", "find"}
        BY <2>4, <3>4, <4>1 DEF AllocateStep, Asked, Search, Take, Carve, CarvePtr, Address, FreeIndex, Null,
           Create, CreateState, Finish, CountStore, Give, FreeStep, Freed, Find, Release, Uncount, UncountStore,
           Merge, GetNearest, MergeBody, Compare, Fold, FoldBody, Grow, DeleteEntry, Same, Clear, ClearLast,
           Rest, Load, Test, Write, Change, Store, Slow, Go
      <4>3. Knows'
        <5>1. pc' = "search" => pc' \in Asking /\ AskKnows' /\ CarveKnows'
          BY DEF Asking, AskKnows, CarveKnows, Cut, Shrunk, Placed, Sized
        <5>2. pc' = "find" => pc' \in Finding /\ FreeKnows'
          BY DEF Finding, FreeKnows, Freeing
        <5>3. QED
          BY <4>2, <5>1, <5>2, Elsewhere DEF Knows
      <4>4. QED
        BY <4>2, <4>3 DEF Alone
    <3>5. QED
      BY <3>3, <3>4
  <2>5. QED
    BY <2>1, <2>2, <2>3, <2>4
<1>3. QED
  BY <1>1, <1>2

\* Once the calls are over, the table describes every address of the region once.
LEMMA RestSurvives ==
  ASSUME PInv, AtRest, races \subseteq {"count"}
  PROVE  NoOverlap /\ NothingLost /\ (races = {} => Accounting)
<1>t. PTyped /\ pc = "out" /\ pc \notin Carving \cup Joining \cup Counted \cup Freeing
  BY DEF PInv, AtRest, Carving, Cut, Shrunk, Slots, Placed, Sized, Joining, Lowering, Growing, Grown,
         Comparing, Cleared, Counted, Freeing
<1>1. ASSUME Intact
      PROVE  Times(table, 0) = 0 /\ \A a \in DATA_BASE .. DATA_END - 1 : Times(table, a) = 1
  <2>1. Ground
    BY <1>1, <1>t DEF PInv, Quiet, Intact
  <2>2. Times(table, 0) = 0 /\ Settled
    BY <1>t, <2>1, SettledStill
  <2>3. \A a \in DATA_BASE .. DATA_END - 1 : a \in UInt /\ Region(a) = 1
    BY HeapAssumption DEF Region, UInt
  <2>4. QED
    BY <2>2, <2>3 DEF Settled
<1>2. NoOverlap
  <2> SUFFICES ASSUME Intact, NEW i \in Index, NEW j \in Index, i # j,
                      NEW a \in DATA_BASE .. DATA_END - 1, Covers(i, a), Covers(j, a)
               PROVE  FALSE
    BY DEF NoOverlap
  <2>1. Over(table[i], a) = 1 /\ Over(table[j], a) = 1 /\ Times(table, a) = 1
    BY <1>t, <1>1, CoversOver
  <2>2. j \in Index \ {i}
    OBVIOUS
  <2>3. Over(table[i], a) + Over(table[j], a) =< Times(table, a)
    BY <2>2, TimesOfTwo
  <2>4. QED
    BY <2>1, <2>3
<1>3. NothingLost
  <2> SUFFICES ASSUME Intact, NEW a \in DATA_BASE .. DATA_END - 1
               PROVE  \E i \in Index : Covers(i, a)
    BY DEF NothingLost
  <2>1. Times(table, a) # 0
    BY <1>1
  <2>2. \E i \in Index : Over(table[i], a) = 1
    BY <2>1, TimesSome
  <2>3. QED
    BY <1>t, <1>1, <2>2, CoversOver
<1>4. ASSUME races = {}, Counting
      PROVE  data_used = Wrap(MapThenSumSet(LAMBDA i : table[i].size,
                                            {i \in Index : table[i].state = "USED"}))
  <2>1. table \in [Index -> Entry]
    BY <1>t DEF PTyped, TypeOK
  <2>2. Owed = 0
    BY <1>t DEF Owed
  <2>3. data_used = Wrap(Amount(table) + 0)
    BY <1>4, <1>t, <2>2 DEF PInv, Balanced, Balance
  <2>4. Amount(table) + 0 = Amount(table)
    BY <1>t, OwedInt
  <2>5. data_used = Wrap(Amount(table))
    BY <2>3, <2>4
  <2>6. QED
    BY <2>1, <2>5, SumIsAmount
<1>5. races = {} => Accounting
  BY <1>4 DEF Accounting, Counting
<1>6. QED
  BY <1>2, <1>3, <1>5

\* A call of mm_allocate or mm_free may be cut at any of its loads and stores, as often as one
\* likes, by other whole calls.  As long as nothing is changed under it at the places `races`
\* names, no address is described twice once the calls are over, and none is lost, even when
\* only data_used was changed; data_used is the sum of the held blocks when nothing was.  And
\* only a call that was cut comes to one of those places.
THEOREM HeapPreemptedSurvives == PSpec => []HeapSurvives
<1>1. PInit => Alone
  <2>1. ASSUME PInit PROVE Alone
    <3>1. pc = "out" /\ races = {}
      BY <2>1 DEF PInit
    <3>2. Knows
      BY <3>1 DEF Knows, AskKnows, CarveKnows, FreeKnows, NearKnows, FoldKnows, JoinKnows, Cut, Shrunk, Placed,
         Sized, Freeing, Around, Under, Joining, Lowering, Growing, Grown, Comparing, Cleared
    <3>3. QED
      BY <3>1, <3>2 DEF Alone
  <2>2. QED
    BY <2>1
<1>2. PInv /\ Alone => HeapSurvives
  BY RestSurvives DEF Alone, HeapSurvives
<1>3. QED
  BY <1>1, <1>2, PInvInit, PInvNext, AloneNext, PTL DEF PSpec
=============================================================================
