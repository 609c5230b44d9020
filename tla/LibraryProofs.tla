---------------------------- MODULE LibraryProofs ----------------------------
(***************************************************************************)
(* Theorems about Library.tla, for every width of numbers from 8 to 32     *)
(* bits, every size of the buffer, all characters, words and moments.      *)
(*                                                                         *)
(* Strings and numbers are functions defined recursively or folds over a   *)
(* sequence.  A function defined recursively exists and obeys its equation *)
(* because the numbers it goes down to are smaller (RecursionExists), and  *)
(* a fold is known by its values on the beginnings of the sequence.  From  *)
(* these it follows that what is printed reads back.                       *)
(*                                                                         *)
(* The invariant has a part for each of the four that the library is made  *)
(* of: the buffer holds the promised string and zeros behind it until a    *)
(* call slips (StringInv), a string_t fills the one block it owns          *)
(* (ObjectInv), the clock's steps have passed on what was asked (ClockInv) *)
(* and the timer's counters add up to its ticks (TimerInv).                *)
(***************************************************************************)
EXTENDS Library, SequenceTheorems, FiniteSetTheorems, WellFoundedInduction, TLAPS

-----------------------------------------------------------------------------
(* Natural numbers and recursive functions.                                *)

\* Every nonempty set of natural numbers has a least element.
LEMMA NatLeast ==
  ASSUME NEW T \in SUBSET Nat, T # {}
  PROVE  \E x \in T : \A y \in T : x =< y
<1> DEFINE R == OpToRel(<, Nat)
<1>1. IsWellFoundedOn(R, Nat)
  BY NatLessThanWellFounded
<1>2. \A x, y \in Nat : x < y => <<x, y>> \in R
  BY DEF OpToRel
<1> HIDE DEF R
<1>3. PICK x \in T : \A y \in T : ~(<<y, x>> \in R)
  BY <1>1, WFMin
<1>4. \A y \in T : ~(y < x)
  BY <1>2, <1>3
<1>5. \A y \in T : y \in Int /\ x \in Int
  OBVIOUS
<1>6. QED
  BY <1>4, <1>5

\* Induction up to a bound.
LEMMA UpTo ==
  ASSUME NEW m \in Nat, NEW S, 0 \in S,
         \A n \in 0 .. m - 1 : n \in S => n + 1 \in S
  PROVE  0 .. m \subseteq S
<1> SUFFICES ASSUME NEW k \in (0 .. m) \ S PROVE FALSE
  OBVIOUS
<1> DEFINE T == (0 .. m) \ S
<1>0. T \in SUBSET Nat /\ T # {}
  OBVIOUS
<1>1. PICK x \in T : \A y \in T : x =< y
  BY <1>0, NatLeast
<1>2. x # 0 /\ x - 1 \in 0 .. m - 1
  BY <1>1
<1>3. x - 1 \in S
  BY <1>1, <1>2
<1>4. QED
  BY <1>1, <1>2, <1>3

\* The same from all that is below.
LEMMA Upwards ==
  ASSUME NEW m \in Nat, NEW S,
         \A n \in 0 .. m : (\A k \in 0 .. n - 1 : k \in S) => n \in S
  PROVE  0 .. m \subseteq S
<1> SUFFICES ASSUME NEW k \in (0 .. m) \ S PROVE FALSE
  OBVIOUS
<1> DEFINE T == (0 .. m) \ S
<1>1. T \in SUBSET Nat /\ T # {}
  OBVIOUS
<1>2. PICK x \in T : \A y \in T : x =< y
  BY <1>1, NatLeast
<1>3. \A y \in 0 .. x - 1 : y \in S
  <2> SUFFICES ASSUME NEW y \in 0 .. x - 1, y \notin S PROVE FALSE
    OBVIOUS
  <2>1. y \in T /\ ~(x =< y)
    BY <1>2
  <2>2. QED
    BY <1>2, <2>1
<1>4. QED
  BY <1>2, <1>3

\* A set of things with ranks is all there is if each is in it as soon as those of lower
\* rank are.
LEMMA ByRank ==
  ASSUME NEW A, NEW rank \in [A -> Nat], NEW S,
         \A x \in A : (\A y \in A : rank[y] < rank[x] => y \in S) => x \in S
  PROVE  A \subseteq S
<1> SUFFICES ASSUME A \ S # {} PROVE FALSE
  OBVIOUS
<1> DEFINE T == {rank[x] : x \in A \ S}
<1>1. T \in SUBSET Nat /\ T # {}
  OBVIOUS
<1>2. PICK r \in T : \A y \in T : r =< y
  BY <1>1, NatLeast
<1>3. PICK x \in A \ S : r = rank[x]
  BY <1>2
<1>4. \A y \in A : rank[y] < rank[x] => y \in S
  <2> SUFFICES ASSUME NEW y \in A, rank[y] < rank[x], y \notin S PROVE FALSE
    OBVIOUS
  <2>1. rank[y] \in T /\ rank[y] \in Nat /\ rank[x] \in Nat
    OBVIOUS
  <2>2. rank[x] =< rank[y]
    BY <1>2, <1>3, <2>1
  <2>3. QED
    BY <2>1, <2>2
<1>5. QED
  BY <1>3, <1>4

\* The function on A that is g of its value at prev[x] where Rec says so, and first elsewhere.
Recursion(f, A, Rec, prev, first, g) ==
  \A x \in A : f[x] = IF x \in Rec THEN g[<<x, f[prev[x]]>>] ELSE first[x]

\* There is one, if prev goes down in ranks of which there is a highest.
LEMMA RecursionExists ==
  ASSUME NEW A, NEW D, NEW m \in Nat, NEW rank \in [A -> 0 .. m], NEW Rec,
         NEW prev, NEW first, NEW g \in [A \X D -> D],
         \A x \in A \cap Rec : prev[x] \in A /\ rank[prev[x]] < rank[x],
         \A x \in A \ Rec : first[x] \in D
  PROVE  \E f \in [A -> D] : Recursion(f, A, Rec, prev, first, g)
<1> DEFINE Holds(f, x) == f[x] = IF x \in Rec THEN g[<<x, f[prev[x]]>>] ELSE first[x]
           Upto(f, k)  == \A x \in A : rank[x] < k => Holds(f, x)
           S == {k \in 0 .. m + 1 : \E f \in [A -> D] : Upto(f, k)}
<1>1. 0 \in S
  <2>1. \A x \in A : ~(rank[x] < 0)
    OBVIOUS
  <2>2. \E f \in [A -> D] : TRUE
    <3>1. CASE D # {}
      <4>1. PICK d \in D : TRUE
        BY <3>1
      <4>2. [x \in A |-> d] \in [A -> D]
        BY <4>1
      <4>3. QED
        BY <4>2
    <3>2. CASE D = {}
      <4>1. A \ Rec = {}
        BY <3>2
      <4>2. A = {}
        <5> SUFFICES ASSUME A # {} PROVE FALSE
          OBVIOUS
        <5>0. PICK E : E = {}
          OBVIOUS
        <5>1. A \subseteq E
          <6>1. \A x \in A : ~(\A y \in A : ~(rank[y] < rank[x]))
            BY <4>1
          <6>2. \A x \in A : (\A y \in A : rank[y] < rank[x] => y \in E) => x \in E
            BY <5>0, <6>1
          <6>3. rank \in [A -> Nat]
            OBVIOUS
          <6>4. QED
            BY <6>2, <6>3, ByRank
        <5>2. QED
          BY <5>0, <5>1
      <4>3. [x \in A |-> x] \in [A -> D]
        BY <4>2
      <4>4. QED
        BY <4>3
    <3>3. QED
      BY <3>1, <3>2
  <2>3. QED
    BY <2>1, <2>2
<1>2. ASSUME NEW k \in 0 .. m, k \in S PROVE k + 1 \in S
  <2>1. PICK f \in [A -> D] : Upto(f, k)
    BY <1>2
  <2> DEFINE h == [x \in A |-> IF x \in Rec THEN g[<<x, f[prev[x]]>>] ELSE first[x]]
  <2>2. h \in [A -> D]
    OBVIOUS
  <2>3. Upto(h, k + 1)
    <3> SUFFICES ASSUME NEW x \in A, rank[x] < k + 1 PROVE Holds(h, x)
      OBVIOUS
    <3>1. CASE x \in Rec
      <4>1. prev[x] \in A /\ rank[prev[x]] < k
        <5>1. prev[x] \in A /\ rank[prev[x]] < rank[x]
          BY <3>1
        <5>2. rank[prev[x]] \in Int /\ rank[x] \in Int /\ k \in Int
          BY <5>1
        <5>3. QED
          BY <5>1, <5>2
      <4>2. f[prev[x]] = h[prev[x]]
        BY <2>1, <4>1
      <4>3. h[x] = g[<<x, f[prev[x]]>>]
        BY <3>1
      <4>4. QED
        BY <3>1, <4>2, <4>3
    <3>2. CASE x \notin Rec
      BY <3>2
    <3>3. QED
      BY <3>1, <3>2
  <2> HIDE DEF h, Upto
  <2>4. QED
    BY <2>2, <2>3
<1>3. m + 1 \in S
  <2>1. \A n \in 0 .. (m + 1) - 1 : n \in S => n + 1 \in S
    BY <1>2
  <2> HIDE DEF S
  <2>2. 0 .. m + 1 \subseteq S
    BY <1>1, <2>1, UpTo
  <2>3. QED
    BY <2>2
<1>4. PICK f \in [A -> D] : Upto(f, m + 1)
  BY <1>3
<1>5. \A x \in A : rank[x] < m + 1
  <2> TAKE x \in A
  <2>1. rank[x] \in 0 .. m
    OBVIOUS
  <2>2. QED
    BY <2>1
<1>6. QED
  BY <1>4, <1>5 DEF Recursion

-----------------------------------------------------------------------------
(* Folds over sequences.                                                   *)

LEMMA MaxIsGreatest ==
  ASSUME NEW n \in Nat, NEW T \in SUBSET (1 .. n), T # {}
  PROVE  Max(T) \in T /\ \A y \in T : y =< Max(T)
<1> DEFINE U == {k \in Nat : \E x \in T : k = n - x}
<1>1. U # {} /\ U \in SUBSET Nat
  <2>1. PICK x \in T : TRUE
    OBVIOUS
  <2>2. n - x \in U
    BY <2>1
  <2>3. QED
    BY <2>2
<1>2. PICK k \in U : \A l \in U : k =< l
  BY <1>1, NatLeast
<1>3. PICK x \in T : k = n - x
  BY <1>2
<1>4. ASSUME NEW y \in T PROVE x >= y
  <2>1. n - y \in U
    OBVIOUS
  <2>2. k =< n - y
    BY <1>2, <2>1
  <2>3. QED
    BY <1>3, <2>2
<1>5. \E z \in T : \A y \in T : z >= y
  BY <1>4
<1>6. Max(T) \in T /\ \A y \in T : Max(T) >= y
  BY <1>5 DEF Max
<1>7. QED
  BY <1>6

LEMMA MaxOfRange ==
  ASSUME NEW k \in Nat, k # 0
  PROVE  Max(1 .. k) = k /\ (1 .. k) \ {k} = 1 .. k - 1 /\ 1 .. k # {}
<1>1. k \in 1 .. k /\ 1 .. k \in SUBSET (1 .. k)
  OBVIOUS
<1>2. PICK T \in SUBSET (1 .. k) : T = 1 .. k
  OBVIOUS
<1>3. Max(T) \in T /\ \A y \in T : y =< Max(T)
  BY <1>1, <1>2, MaxIsGreatest
<1>4. QED
  BY <1>1, <1>2, <1>3

\* The results of a fold over the subsets of the positions, the highest one last.
Folded(v, n, g) ==
  \A T \in SUBSET (1 .. n) : v[T] = IF T = {} THEN 0 ELSE g[<<v[T \ {Max(T)}], Max(T)>>]

LEMMA FoldExists ==
  ASSUME NEW n \in Nat, NEW g \in [Int \X (1 .. n) -> Int]
  PROVE  \E v \in [SUBSET (1 .. n) -> Int] : Folded(v, n, g)
<1> DEFINE A     == SUBSET (1 .. n)
           rank  == [T \in A |-> IF T = {} THEN 0 ELSE Max(T)]
           Rec   == A \ {{}}
           prev  == [T \in A |-> T \ {Max(T)}]
           first == [T \in A |-> 0]
           h     == [x \in A \X Int |-> IF x[1] = {} THEN 0 ELSE g[<<x[2], Max(x[1])>>]]
<1>1. rank \in [A -> 0 .. n]
  <2> SUFFICES ASSUME NEW T \in A PROVE (IF T = {} THEN 0 ELSE Max(T)) \in 0 .. n
    OBVIOUS
  <2>1. CASE T = {}
    BY <2>1
  <2>2. CASE T # {}
    <3>1. Max(T) \in T /\ T \subseteq 1 .. n
      BY <2>2, MaxIsGreatest
    <3>2. PICK x \in 1 .. n : x = Max(T)
      BY <3>1
    <3>3. x \in 0 .. n
      OBVIOUS
    <3>4. QED
      BY <2>2, <3>2, <3>3
  <2>3. QED
    BY <2>1, <2>2
<1>2. h \in [A \X Int -> Int]
  <2> SUFFICES ASSUME NEW T \in A, NEW d \in Int
               PROVE (IF T = {} THEN 0 ELSE g[<<d, Max(T)>>]) \in Int
    OBVIOUS
  <2>1. CASE T = {}
    BY <2>1
  <2>2. CASE T # {}
    <3>1. Max(T) \in 1 .. n
      BY <2>2, MaxIsGreatest
    <3>2. QED
      BY <2>2, <3>1
  <2>3. QED
    BY <2>1, <2>2
<1>3. \A x \in A \cap Rec : prev[x] \in A /\ rank[prev[x]] < rank[x]
  <2> SUFFICES ASSUME NEW x \in A, x # {} PROVE prev[x] \in A /\ rank[prev[x]] < rank[x]
    OBVIOUS
  <2>1. Max(x) \in x /\ Max(x) \in 1 .. n /\ \A y \in x : y =< Max(x)
    BY MaxIsGreatest
  <2>2. prev[x] = x \ {Max(x)} /\ prev[x] \in A /\ rank[x] = Max(x)
    OBVIOUS
  <2>3. CASE prev[x] = {}
    BY <2>1, <2>2, <2>3
  <2>4. CASE prev[x] # {}
    <3>1. Max(prev[x]) \in prev[x]
      BY <2>2, <2>4, MaxIsGreatest
    <3>2. Max(prev[x]) \in x /\ Max(prev[x]) # Max(x) /\ Max(prev[x]) \in 1 .. n
      BY <2>2, <3>1
    <3>3. rank[prev[x]] = Max(prev[x])
      BY <2>2, <2>4
    <3>4. QED
      BY <2>1, <2>2, <3>2, <3>3
  <2>5. QED
    BY <2>3, <2>4
<1>4. \A x \in A \ Rec : first[x] \in Int
  OBVIOUS
<1> HIDE DEF rank, h, prev, first
<1>5. PICK v \in [A -> Int] : Recursion(v, A, Rec, prev, first, h)
  <2> HIDE DEF A, Rec
  <2>1. QED
    BY <1>1, <1>2, <1>3, <1>4, RecursionExists
<1>6. Folded(v, n, g)
  <2> SUFFICES ASSUME NEW T \in A
               PROVE  v[T] = IF T = {} THEN 0 ELSE g[<<v[T \ {Max(T)}], Max(T)>>]
    BY DEF Folded
  <2>1. v[T] = IF T \in Rec THEN h[<<T, v[prev[T]]>>] ELSE first[T]
    BY <1>5 DEF Recursion
  <2>2. CASE T = {}
    BY <2>1, <2>2 DEF first
  <2>3. CASE T # {}
    <3>1. v[T] = h[<<T, v[prev[T]]>>] /\ prev[T] = T \ {Max(T)}
      BY <2>1, <2>3 DEF prev
    <3>2. <<T, v[prev[T]]>> \in A \X Int
      BY <3>1
    <3>3. h[<<T, v[prev[T]]>>] = g[<<v[prev[T]], Max(T)>>]
      BY <2>3, <3>2 DEF h
    <3>4. QED
      BY <2>3, <3>1, <3>3
  <2>4. QED
    BY <2>2, <2>3
<1>7. QED
  BY <1>6

\* Read from the left, the results after each position.
Steps(f, n, g) == f[0] = 0 /\ \A k \in 1 .. n : f[k] = g[<<f[k - 1], k>>]

LEMMA FoldSteps ==
  ASSUME NEW n \in Nat, NEW g \in [Int \X (1 .. n) -> Int], NEW v, Folded(v, n, g),
         NEW f, Steps(f, n, g)
  PROVE  \A k \in 0 .. n : f[k] \in Int /\ v[1 .. k] = f[k]
<1> DEFINE S == {k \in 0 .. n : f[k] \in Int /\ v[1 .. k] = f[k]}
<1>1. 0 \in S
  <2>1. 1 .. 0 = {} /\ {} \in SUBSET (1 .. n)
    OBVIOUS
  <2>2. v[{}] = 0
    BY <2>1 DEF Folded
  <2>3. QED
    BY <2>1, <2>2 DEF Steps
<1>2. ASSUME NEW k \in 0 .. n - 1, k \in S PROVE k + 1 \in S
  <2>1. f[k + 1] = g[<<f[k], k + 1>>]
    <3>1. k + 1 \in 1 .. n /\ (k + 1) - 1 = k
      OBVIOUS
    <3>2. QED
      BY <3>1 DEF Steps
  <2>2. /\ Max(1 .. k + 1) = k + 1 /\ (1 .. k + 1) \ {k + 1} = 1 .. k /\ 1 .. k + 1 # {}
    <3>1. k + 1 \in Nat /\ k + 1 # 0 /\ (k + 1) - 1 = k
      OBVIOUS
    <3>2. QED
      BY <3>1, MaxOfRange
  <2>3. v[1 .. k + 1] = g[<<v[1 .. k], k + 1>>]
    <3>1. 1 .. k + 1 \in SUBSET (1 .. n)
      OBVIOUS
    <3>2. QED
      BY <2>2, <3>1 DEF Folded
  <2>4. f[k] \in Int /\ v[1 .. k] = f[k] /\ k + 1 \in 0 .. n /\ k + 1 \in 1 .. n
    BY <1>2
  <2>5. g[<<f[k], k + 1>>] \in Int
    BY <2>4
  <2>6. QED
    BY <2>1, <2>3, <2>4, <2>5
<1> HIDE DEF S
<1>3. 0 .. n \subseteq S
  BY <1>1, <1>2, UpTo
<1>4. QED
  BY <1>3 DEF S

LEMMA StepsExist ==
  ASSUME NEW n \in Nat, NEW g \in [Int \X (1 .. n) -> Int]
  PROVE  \E f \in [0 .. n -> Int] : Steps(f, n, g)
<1>1. PICK v \in [SUBSET (1 .. n) -> Int] : Folded(v, n, g)
  BY FoldExists
<1> DEFINE f == [k \in 0 .. n |-> v[1 .. k]]
<1>2. f \in [0 .. n -> Int]
  <2>1. \A k \in 0 .. n : 1 .. k \in SUBSET (1 .. n)
    OBVIOUS
  <2>2. QED
    BY <2>1
<1>3. f[0] = 0
  <2>1. 1 .. 0 = {} /\ {} \in SUBSET (1 .. n) /\ f[0] = v[1 .. 0]
    OBVIOUS
  <2>2. QED
    BY <1>1, <2>1 DEF Folded
<1>4. ASSUME NEW k \in 1 .. n PROVE f[k] = g[<<f[k - 1], k>>]
  <2>1. Max(1 .. k) = k /\ (1 .. k) \ {k} = 1 .. k - 1 /\ 1 .. k # {}
    BY MaxOfRange
  <2>2. 1 .. k \in SUBSET (1 .. n) /\ f[k] = v[1 .. k] /\ f[k - 1] = v[1 .. k - 1]
    OBVIOUS
  <2> HIDE DEF f
  <2>3. QED
    BY <1>1, <2>1, <2>2 DEF Folded
<1>5. QED
  BY <1>2, <1>3, <1>4 DEF Steps

-----------------------------------------------------------------------------
(* The value of a string of digits.                                        *)

Digits(s, base) == [x \in Int \X (1 .. Len(s)) |-> x[1] * base + DigitValue(s[x[2]])]

LEMMA DigitValueInt ==
  ASSUME NEW c \in Int
  PROVE  DigitValue(c) \in Int /\ (isdigit(c) => DigitValue(c) = c - 48 /\ DigitValue(c) \in 0 .. 9)
  BY DEF DigitValue, toupper, isdigit, islower

LEMMA DigitsType ==
  ASSUME NEW s \in Seq(Int), NEW base \in Int
  PROVE  Digits(s, base) \in [Int \X (1 .. Len(s)) -> Int] /\ Len(s) \in Nat
<1>1. Len(s) \in Nat /\ \A k \in 1 .. Len(s) : s[k] \in Int
  BY LenProperties, ElementOfSeq
<1>2. ASSUME NEW x \in Int \X (1 .. Len(s)) PROVE x[1] * base + DigitValue(s[x[2]]) \in Int
  <2>1. x[1] \in Int /\ x[2] \in 1 .. Len(s)
    OBVIOUS
  <2>2. DigitValue(s[x[2]]) \in Int
    BY <1>1, <2>1, DigitValueInt
  <2>3. x[1] * base \in Int
    BY <2>1
  <2>4. QED
    BY <2>2, <2>3
<1>3. QED
  BY <1>1, <1>2 DEF Digits

LEMMA ValueIs ==
  ASSUME NEW s \in Seq(Int), NEW base \in Int, NEW f, Steps(f, Len(s), Digits(s, base))
  PROVE  Value(s, base) = f[Len(s)] /\ Value(s, base) \in Int
<1> DEFINE n == Len(s)
           iter[T \in SUBSET DOMAIN s] ==
             IF T = {} THEN 0
             ELSE LET x == Max(T) IN iter[T \ {x}] * base + DigitValue(s[x])
<1>1. n \in Nat /\ DOMAIN s = 1 .. n /\ Digits(s, base) \in [Int \X (1 .. n) -> Int]
  BY DigitsType, LenProperties
<1>2. PICK v \in [SUBSET (1 .. n) -> Int] : Folded(v, n, Digits(s, base))
  BY <1>1, FoldExists
<1>3. v = [T \in SUBSET DOMAIN s |->
             IF T = {} THEN 0
             ELSE LET x == Max(T) IN v[T \ {x}] * base + DigitValue(s[x])]
  <2> SUFFICES ASSUME NEW T \in SUBSET (1 .. n)
               PROVE  v[T] = IF T = {} THEN 0
                             ELSE v[T \ {Max(T)}] * base + DigitValue(s[Max(T)])
    BY <1>1
  <2>1. CASE T = {}
    BY <1>2, <2>1 DEF Folded
  <2>2. CASE T # {}
    <3>1. PICK m \in 1 .. n : m = Max(T)
      BY <1>1, <2>2, MaxIsGreatest
    <3>2. v[T \ {m}] \in Int
      OBVIOUS
    <3>3. v[T] = Digits(s, base)[<<v[T \ {m}], m>>]
      BY <1>2, <2>2, <3>1 DEF Folded
    <3>4. QED
      BY <2>2, <3>1, <3>2, <3>3 DEF Digits
  <2>3. QED
    BY <2>1, <2>2
<1>4. iter = [T \in SUBSET DOMAIN s |->
             IF T = {} THEN 0
             ELSE LET x == Max(T) IN iter[T \ {x}] * base + DigitValue(s[x])]
  BY <1>3
<1>5. Value(s, base) = iter[DOMAIN s]
  BY DEF Value, FoldLeft, MapThenFoldSet
<1> HIDE DEF iter
<1>6. iter[DOMAIN s] = f[n]
  <2> DEFINE S == {k \in 0 .. n : f[k] \in Int /\ iter[1 .. k] = f[k]}
  <2>1. 0 \in S
    <3>1. 1 .. 0 = {} /\ {} \in SUBSET (1 .. n)
      OBVIOUS
    <3>2. iter[{}] = 0
      BY <1>1, <1>4, <3>1
    <3>3. QED
      BY <1>1, <3>1, <3>2 DEF Steps
  <2>2. ASSUME NEW k \in 0 .. n - 1, k \in S PROVE k + 1 \in S
    <3>1. f[k + 1] = Digits(s, base)[<<f[k], k + 1>>]
      <4>1. k + 1 \in 1 .. n /\ (k + 1) - 1 = k
        BY <1>1
      <4>2. QED
        BY <4>1 DEF Steps
    <3>2. Max(1 .. k + 1) = k + 1 /\ (1 .. k + 1) \ {k + 1} = 1 .. k /\ 1 .. k + 1 # {}
      <4>1. k + 1 \in Nat /\ k + 1 # 0 /\ (k + 1) - 1 = k
        BY <1>1
      <4>2. QED
        BY <4>1, MaxOfRange
    <3>3. f[k] \in Int /\ iter[1 .. k] = f[k] /\ k + 1 \in 0 .. n /\ k + 1 \in 1 .. n
      BY <1>1, <2>2
    <3>4. iter[1 .. k + 1] = iter[1 .. k] * base + DigitValue(s[k + 1])
      <4>1. 1 .. k + 1 \in SUBSET DOMAIN s
        BY <1>1, <3>3
      <4>2. iter[1 .. k + 1] = iter[(1 .. k + 1) \ {Max(1 .. k + 1)}] * base + DigitValue(s[Max(1 .. k + 1)])
        BY <1>4, <3>2, <4>1
      <4>3. QED
        BY <3>2, <4>2
    <3>5. <<f[k], k + 1>> \in Int \X (1 .. n)
      BY <3>3
    <3>6. f[k + 1] \in Int
      BY <1>1, <3>1, <3>5
    <3>7. f[k + 1] = f[k] * base + DigitValue(s[k + 1])
      BY <3>1, <3>5 DEF Digits
    <3>8. QED
      BY <3>3, <3>4, <3>6, <3>7
  <2> HIDE DEF S
  <2>3. 0 .. n \subseteq S
    BY <1>1, <2>1, <2>2, UpTo
  <2>4. n \in S
    BY <1>1, <2>3
  <2>5. QED
    BY <1>1, <2>4 DEF S
<1>7. f[n] \in Int
  <2>1. Steps(f, n, Digits(s, base))
    OBVIOUS
  <2> HIDE DEF n
  <2>2. \A k \in 0 .. n : f[k] \in Int
    BY <1>1, <1>2, <2>1, FoldSteps
  <2>3. QED
    BY <1>1, <2>2
<1>8. QED
  BY <1>5, <1>6, <1>7

LEMMA ValueEmpty ==
  ASSUME NEW base \in Int
  PROVE  Value(<<>>, base) = 0
<1>1. <<>> \in Seq(Int) /\ Len(<<>>) = 0
  BY EmptySeq
<1>2. PICK f \in [0 .. 0 -> Int] : Steps(f, Len(<<>>), Digits(<<>>, base))
  BY <1>1, DigitsType, StepsExist
<1>3. Value(<<>>, base) = f[0]
  BY <1>1, <1>2, ValueIs
<1>4. QED
  BY <1>2, <1>3 DEF Steps

LEMMA ValueAppend ==
  ASSUME NEW s \in Seq(Int), NEW c \in Int, NEW base \in Int
  PROVE  /\ Value(Append(s, c), base) = Value(s, base) * base + DigitValue(c)
         /\ Value(s, base) \in Int
<1> DEFINE n == Len(s)
           t == Append(s, c)
<1>1. /\ t \in Seq(Int) /\ Len(t) = n + 1 /\ n \in Nat /\ t[n + 1] = c
      /\ \A i \in 1 .. n : t[i] = s[i]
  BY AppendProperties, LenProperties
<1> HIDE DEF t
<1>2. Digits(t, base) \in [Int \X (1 .. n + 1) -> Int] /\ n + 1 \in Nat
  BY <1>1, DigitsType
<1>3. PICK f \in [0 .. n + 1 -> Int] : Steps(f, n + 1, Digits(t, base))
  BY <1>2, StepsExist
<1>4. Steps(f, n, Digits(s, base))
  <2> SUFFICES ASSUME NEW k \in 1 .. n PROVE f[k] = Digits(s, base)[<<f[k - 1], k>>]
    BY <1>3 DEF Steps
  <2>1. k \in 1 .. n + 1 /\ k - 1 \in 0 .. n + 1 /\ k \in 1 .. Len(s)
    BY <1>1
  <2>2. f[k - 1] \in Int /\ f[k] = Digits(t, base)[<<f[k - 1], k>>]
    BY <1>3, <2>1 DEF Steps
  <2>3. Digits(t, base)[<<f[k - 1], k>>] = f[k - 1] * base + DigitValue(t[k])
    BY <1>1, <2>1, <2>2 DEF Digits
  <2>4. Digits(s, base)[<<f[k - 1], k>>] = f[k - 1] * base + DigitValue(s[k])
    BY <2>1, <2>2 DEF Digits
  <2>5. QED
    BY <1>1, <2>2, <2>3, <2>4
<1>5. Value(s, base) = f[n] /\ Value(s, base) \in Int
  BY <1>4, ValueIs
<1>6. Value(t, base) = f[n + 1]
  BY <1>1, <1>3, ValueIs
<1>7. f[n + 1] = f[n] * base + DigitValue(c)
  <2>1. n + 1 \in 1 .. n + 1 /\ (n + 1) - 1 = n /\ n \in 0 .. n + 1
    BY <1>1
  <2>2. f[n + 1] = Digits(t, base)[<<f[n], n + 1>>] /\ f[n] \in Int
    BY <1>3, <2>1 DEF Steps
  <2>3. <<f[n], n + 1>> \in Int \X (1 .. Len(t))
    BY <1>1, <2>1, <2>2
  <2>4. QED
    BY <1>1, <2>2, <2>3 DEF Digits
<1>8. QED
  BY <1>5, <1>6, <1>7 DEF t

LEMMA ValueOne ==
  ASSUME NEW c \in Int, NEW base \in Int
  PROVE  Value(<<c>>, base) = DigitValue(c)
<1>1. <<>> \in Seq(Int) /\ Append(<<>>, c) = <<c>>
  BY EmptySeq
<1>2. Value(Append(<<>>, c), base) = Value(<<>>, base) * base + DigitValue(c)
  BY <1>1, ValueAppend
<1>3. Value(<<>>, base) = 0 /\ DigitValue(c) \in Int /\ 0 * base = 0
  BY ValueEmpty, DigitValueInt
<1>4. QED
  BY <1>1, <1>2, <1>3

-----------------------------------------------------------------------------
(* Conversion to an int.                                                   *)

LEMMA ModUnique ==
  ASSUME NEW x \in Int, NEW q \in Int, NEW r \in 0 .. UINT - 1, x = UINT * q + r
  PROVE  x % UINT = r
<1>1. UINT \in Int /\ UINT > 0
  BY NumbersAssumption
<1> DEFINE p == x \div UINT
           m == x % UINT
<1>2. p \in Int /\ m \in 0 .. UINT - 1 /\ x = UINT * p + m
  BY <1>1
<1> HIDE DEF p, m
<1> DEFINE d == q - p
<1>3. UINT * q \in Int /\ UINT * p \in Int /\ d \in Int /\ UINT * d = UINT * q - UINT * p
  BY <1>1, <1>2
<1>4. m - r = UINT * d
  BY <1>1, <1>2, <1>3
<1> HIDE DEF d
<1>5. d = 0
  <2>1. UINT * d < UINT /\ UINT * d > -UINT
    BY <1>1, <1>2, <1>4
  <2>2. CASE d >= 1
    <3>1. UINT * d >= UINT
      BY <1>1, <1>3, <2>2
    <3>2. QED
      BY <1>1, <1>3, <2>1, <3>1
  <2>3. CASE d =< -1
    <3>1. UINT * d =< -UINT
      BY <1>1, <1>3, <2>3
    <3>2. QED
      BY <1>1, <1>3, <2>1, <3>1
  <2>4. QED
    BY <1>3, <2>2, <2>3
<1>6. UINT * d = 0
  BY <1>1, <1>5
<1>7. QED
  BY <1>2, <1>4, <1>6 DEF m

LEMMA ModShift ==
  ASSUME NEW x \in Int, NEW k \in Int
  PROVE  (x - UINT * k) % UINT = x % UINT
<1>1. UINT \in Int /\ UINT > 0
  BY NumbersAssumption
<1> DEFINE p == x \div UINT
           m == x % UINT
<1>2. p \in Int /\ m \in 0 .. UINT - 1 /\ x = UINT * p + m
  BY <1>1
<1> HIDE DEF p, m
<1>3. p - k \in Int /\ UINT * (p - k) = UINT * p - UINT * k /\ UINT * p \in Int /\ UINT * k \in Int
  BY <1>1, <1>2
<1>4. x - UINT * k \in Int /\ x - UINT * k = UINT * (p - k) + m
  BY <1>2, <1>3
<1>5. (x - UINT * k) % UINT = m
  BY <1>2, <1>3, <1>4, ModUnique
<1>6. QED
  BY <1>5 DEF m

LEMMA ToIntShift ==
  ASSUME NEW x \in Int
  PROVE  /\ \E k \in Int : ToInt(x) = x - UINT * k
         /\ ToInt(x) \in Int
<1>1. UINT \in Int /\ UINT > 0
  BY NumbersAssumption
<1> DEFINE p == x \div UINT
           m == x % UINT
<1>2. p \in Int /\ m \in 0 .. UINT - 1 /\ x = UINT * p + m
  BY <1>1
<1>3. ToInt(x) = IF m < UINT \div 2 THEN m ELSE m - UINT
  BY DEF ToInt
<1> HIDE DEF p, m
<1>4. UINT * p \in Int /\ UINT * (p + 1) = UINT * p + UINT /\ p + 1 \in Int
  BY <1>1, <1>2
<1>5. CASE m < UINT \div 2
  <2>1. ToInt(x) = x - UINT * p
    BY <1>2, <1>3, <1>4, <1>5
  <2>2. QED
    BY <1>2, <1>3, <1>5, <2>1
<1>6. CASE ~(m < UINT \div 2)
  <2>1. ToInt(x) = x - UINT * (p + 1)
    BY <1>1, <1>2, <1>3, <1>4, <1>6
  <2>2. p + 1 \in Int /\ m - UINT \in Int /\ ToInt(x) = m - UINT
    BY <1>1, <1>2, <1>3, <1>6
  <2>3. QED
    BY <2>1, <2>2
<1>7. QED
  BY <1>5, <1>6

\* Conversions in between do not change what a sum comes to.
LEMMA ToIntTwice ==
  ASSUME NEW x \in Int, NEW d \in Int
  PROVE  ToInt(ToInt(x) * 10 + d) = ToInt(x * 10 + d)
<1>1. PICK k \in Int : ToInt(x) = x - UINT * k
  BY ToIntShift
<1>2. UINT \in Int /\ UINT * k \in Int /\ UINT * (10 * k) = 10 * (UINT * k) /\ 10 * k \in Int
  <2>1. UINT \in Int
    BY NumbersAssumption
  <2>2. QED
    BY <2>1
<1>3. (x - UINT * k) * 10 + d = (x * 10 + d) - UINT * (10 * k)
  BY <1>2
<1>4. ((x * 10 + d) - UINT * (10 * k)) % UINT = (x * 10 + d) % UINT
  <2>1. x * 10 + d \in Int
    OBVIOUS
  <2>2. QED
    BY <1>2, <2>1, ModShift
<1>5. QED
  BY <1>1, <1>3, <1>4 DEF ToInt

LEMMA ToIntMod ==
  ASSUME NEW x \in Int
  PROVE  ToInt(x) % UINT = x % UINT
<1>1. PICK k \in Int : ToInt(x) = x - UINT * k
  BY ToIntShift
<1>2. QED
  BY <1>1, ModShift

-----------------------------------------------------------------------------
(* atol.                                                                   *)

Wrapping(s) == [x \in Int \X (1 .. Len(s)) |-> ToInt(x[1] * 10 + s[x[2]] - Zero)]

LEMMA AtolReads ==
  ASSUME NEW s \in Seq(Int), \A k \in 1 .. Len(s) : isdigit(s[k])
  PROVE  atol(s) = Value(s, 10) % UINT
<1> DEFINE n == Len(s)
           g == Wrapping(s)
           iter[T \in SUBSET DOMAIN s] ==
             IF T = {} THEN 0
             ELSE LET x == Max(T) IN ToInt(iter[T \ {x}] * 10 + s[x] - Zero)
<1>1. n \in Nat /\ DOMAIN s = 1 .. n /\ \A k \in 1 .. n : s[k] \in Int
  BY LenProperties, ElementOfSeq
<1>2. g \in [Int \X (1 .. n) -> Int]
  <2>1. ASSUME NEW x \in Int \X (1 .. n) PROVE ToInt(x[1] * 10 + s[x[2]] - Zero) \in Int
    <3>1. x[1] \in Int /\ s[x[2]] \in Int
      BY <1>1
    <3>2. x[1] * 10 + s[x[2]] - Zero \in Int
      BY <3>1 DEF Zero
    <3>3. QED
      BY <3>2, ToIntShift
  <2>2. QED
    BY <2>1 DEF Wrapping
<1>3. \A d \in Int, k \in 1 .. n : g[<<d, k>>] = ToInt(d * 10 + s[k] - Zero)
  <2> TAKE d \in Int, k \in 1 .. n
  <2>1. <<d, k>> \in Int \X (1 .. Len(s))
    OBVIOUS
  <2>2. QED
    BY <2>1 DEF Wrapping
<1> HIDE DEF g
<1>4. PICK v \in [SUBSET (1 .. n) -> Int] : Folded(v, n, g)
  BY <1>1, <1>2, FoldExists
<1>5. v = [T \in SUBSET DOMAIN s |->
             IF T = {} THEN 0
             ELSE LET x == Max(T) IN ToInt(v[T \ {x}] * 10 + s[x] - Zero)]
  <2> SUFFICES ASSUME NEW T \in SUBSET (1 .. n)
               PROVE  v[T] = IF T = {} THEN 0
                             ELSE ToInt(v[T \ {Max(T)}] * 10 + s[Max(T)] - Zero)
    BY <1>1
  <2>1. CASE T = {}
    BY <1>4, <2>1 DEF Folded
  <2>2. CASE T # {}
    <3>1. PICK m \in 1 .. n : m = Max(T)
      BY <1>1, <2>2, MaxIsGreatest
    <3>2. v[T \ {m}] \in Int
      OBVIOUS
    <3>3. v[T] = g[<<v[T \ {m}], m>>]
      BY <1>4, <2>2, <3>1 DEF Folded
    <3>4. QED
      BY <1>3, <2>2, <3>1, <3>2, <3>3
  <2>3. QED
    BY <2>1, <2>2
<1>6. iter = [T \in SUBSET DOMAIN s |->
             IF T = {} THEN 0
             ELSE LET x == Max(T) IN ToInt(iter[T \ {x}] * 10 + s[x] - Zero)]
  BY <1>5
<1>7. atol(s) = iter[DOMAIN s] % UINT
  <2>1. FoldLeft(LAMBDA res, c : ToInt(res * 10 + c - Zero), 0, s) = iter[DOMAIN s]
    BY DEF FoldLeft, MapThenFoldSet
  <2> HIDE DEF iter
  <2>2. ~\E k \in 1 .. Len(s) : s[k] < 48 \/ s[k] > 57
    BY <1>1, SMTT(30) DEF isdigit
  <2>3. QED
    BY <2>1, <2>2 DEF atol
<1> HIDE DEF iter
<1>8. PICK f \in [0 .. n -> Int] : Steps(f, n, Digits(s, 10))
  <2>0. 10 \in Int
    OBVIOUS
  <2>1. Digits(s, 10) \in [Int \X (1 .. n) -> Int]
    BY <2>0, DigitsType
  <2>2. QED
    BY <1>1, <2>1, StepsExist
<1>9. Value(s, 10) = f[n]
  BY <1>8, ValueIs
<1>10. iter[DOMAIN s] = ToInt(f[n])
  <2> DEFINE S == {k \in 0 .. n : iter[1 .. k] = ToInt(f[k])}
  <2>1. 0 \in S
    <3>1. 1 .. 0 = {} /\ {} \in SUBSET (1 .. n)
      OBVIOUS
    <3>2. iter[{}] = 0
      BY <1>1, <1>6, <3>1
    <3>3. ToInt(0) = 0
      BY NumbersAssumption DEF ToInt
    <3>4. QED
      BY <1>1, <1>8, <3>1, <3>2, <3>3 DEF Steps
  <2>2. ASSUME NEW k \in 0 .. n - 1, k \in S PROVE k + 1 \in S
    <3>1. k + 1 \in 1 .. n /\ (k + 1) - 1 = k /\ k + 1 \in 0 .. n /\ k \in 0 .. n
      BY <1>1
    <3>2. f[k + 1] = f[k] * 10 + DigitValue(s[k + 1]) /\ f[k] \in Int
      <4>1. f[k + 1] = Digits(s, 10)[<<f[k], k + 1>>] /\ f[k] \in Int
        BY <1>8, <3>1 DEF Steps
      <4>2. <<f[k], k + 1>> \in Int \X (1 .. Len(s))
        BY <3>1, <4>1
      <4>3. QED
        BY <4>1, <4>2 DEF Digits
    <3>3. Max(1 .. k + 1) = k + 1 /\ (1 .. k + 1) \ {k + 1} = 1 .. k /\ 1 .. k + 1 # {}
      <4>1. k + 1 \in Nat /\ k + 1 # 0
        BY <3>1
      <4>2. QED
        BY <3>1, <4>1, MaxOfRange
    <3>4. iter[1 .. k + 1] = ToInt(iter[1 .. k] * 10 + s[k + 1] - Zero)
      <4>1. 1 .. k + 1 \in SUBSET DOMAIN s
        BY <1>1, <3>1
      <4>2. iter[1 .. k + 1]
              = ToInt(iter[(1 .. k + 1) \ {Max(1 .. k + 1)}] * 10 + s[Max(1 .. k + 1)] - Zero)
        BY <1>6, <3>3, <4>1
      <4>3. QED
        BY <3>3, <4>2
    <3>5. DigitValue(s[k + 1]) = s[k + 1] - Zero /\ DigitValue(s[k + 1]) \in Int
      BY <1>1, <3>1, DigitValueInt DEF Zero
    <3>6. ToInt(ToInt(f[k]) * 10 + DigitValue(s[k + 1])) = ToInt(f[k] * 10 + DigitValue(s[k + 1]))
      BY <3>2, <3>5, ToIntTwice
    <3>7. iter[1 .. k] = ToInt(f[k])
      BY <2>2
    <3>8. QED
      BY <3>1, <3>2, <3>4, <3>5, <3>6, <3>7
  <2> HIDE DEF S
  <2>3. 0 .. n \subseteq S
    BY <1>1, <2>1, <2>2, UpTo
  <2>4. n \in S
    BY <1>1, <2>3
  <2>5. QED
    BY <1>1, <2>4 DEF S
<1>11. f[n] \in Int
  BY <1>1, <1>8
<1>12. QED
  BY <1>7, <1>9, <1>10, <1>11, ToIntMod

LEMMA AtolOther ==
  ASSUME NEW s \in Seq(Int), NEW k \in 1 .. Len(s), ~isdigit(s[k])
  PROVE  atol(s) = 0
<1>1. PICK c \in Int : c = s[k]
  BY ElementOfSeq
<1>2. ~(c \in 48 .. 57)
  BY <1>1 DEF isdigit
<1>3. c < 48 \/ c > 57
  BY <1>2
<1>4. \E i \in 1 .. Len(s) : s[i] < 48 \/ s[i] > 57
  BY <1>1, <1>3
<1>5. QED
  BY <1>4 DEF atol

-----------------------------------------------------------------------------
(* ultoa.                                                                  *)

Figures == 48 .. 57
Letters == 65 .. 70

LEMMA FiguresInt ==
  ASSUME NEW s
  PROVE  /\ s \in Seq(Figures) => s \in Seq(Figures \cup Letters)
         /\ s \in Seq(Figures \cup Letters) => s \in Seq(Int) /\ s \in Seq(1 .. 127)
<1>1. /\ Figures \subseteq Figures \cup Letters /\ Figures \cup Letters \subseteq Int
      /\ Figures \cup Letters \subseteq 1 .. 127
  BY DEF Figures, Letters
<1>2. /\ Seq(Figures) \subseteq Seq(Figures \cup Letters)
      /\ Seq(Figures \cup Letters) \subseteq Seq(Int)
      /\ Seq(Figures \cup Letters) \subseteq Seq(1 .. 127)
  BY <1>1, SeqMonotonic
<1>3. QED
  BY <1>2

LEMMA OneSeq ==
  ASSUME NEW S, NEW x \in S
  PROVE  <<x>> \in Seq(S) /\ <<x>> # <<>> /\ Len(<<x>>) = 1 /\ <<x>>[1] = x
  OBVIOUS

LEMMA UltoaDigitReads ==
  ASSUME NEW d \in 0 .. 15
  PROVE  /\ UltoaDigit(d) \in Figures \cup Letters
         /\ d < 10 => UltoaDigit(d) \in Figures
         /\ DigitValue(UltoaDigit(d)) = d
  BY DEF UltoaDigit, Zero, Figures, Letters, DigitValue, isdigit, islower, toupper

LEMMA Divided ==
  ASSUME NEW v \in Nat, NEW base \in {2, 10, 16}
  PROVE  /\ v \div base \in 0 .. v /\ v % base \in 0 .. base - 1
         /\ v = (v \div base) * base + (v % base)
         /\ v >= base => v \div base < v
<1>1. CASE base = 2
  BY <1>1
<1>2. CASE base = 10
  BY <1>2
<1>3. CASE base = 16
  BY <1>3
<1>4. QED
  BY <1>1, <1>2, <1>3

\* What the loop of ultoa has written for each of the numbers it comes by.
Written(f, value, base) ==
  \A v \in 0 .. value : f[v] = IF v < base THEN <<UltoaDigit(v)>>
                                          ELSE Append(f[v \div base], UltoaDigit(v % base))

LEMMA UltoaWritten ==
  ASSUME NEW value \in Nat, NEW base \in {2, 10, 16}
  PROVE  \E f : Written(f, value, base) /\ ultoa(value, base) = f[value]
<1> DEFINE A     == 0 .. value
           D     == Seq(Int)
           Rec   == {v \in A : ~(v < base)}
           rank  == [v \in A |-> v]
           prev  == [v \in A |-> v \div base]
           first == [v \in A |-> <<UltoaDigit(v)>>]
           g     == [x \in A \X D |-> Append(x[2], UltoaDigit(x[1] % base))]
           written[v \in 0 .. value] ==
             IF v < base THEN <<UltoaDigit(v)>>
                         ELSE Append(written[v \div base], UltoaDigit(v % base))
<1>1. \A v \in A : /\ v \div base \in A /\ v % base \in 0 .. 15 /\ UltoaDigit(v % base) \in Int
                   /\ v >= base => v \div base < v
  <2> TAKE v \in A
  <2>1. /\ v \div base \in 0 .. v /\ v % base \in 0 .. base - 1 /\ v >= base => v \div base < v
    BY Divided
  <2>2. v \div base \in A /\ v % base \in 0 .. 15
    BY <2>1
  <2>3. UltoaDigit(v % base) \in Figures \cup Letters
    BY <2>2, UltoaDigitReads
  <2>4. QED
    BY <2>1, <2>2, <2>3 DEF Figures, Letters
<1>2. g \in [A \X D -> D]
  <2>1. ASSUME NEW x \in A \X D PROVE Append(x[2], UltoaDigit(x[1] % base)) \in D
    <3>1. x[1] \in A /\ x[2] \in D /\ UltoaDigit(x[1] % base) \in Int
      BY <1>1
    <3>2. QED
      BY <3>1, AppendProperties
  <2>2. QED
    BY <2>1
<1>3. \A v \in A \cap Rec : prev[v] \in A /\ rank[prev[v]] < rank[v]
  <2> TAKE v \in A \cap Rec
  <2>1. v \in A /\ v >= base
    OBVIOUS
  <2>2. v \div base \in A /\ v \div base < v
    BY <1>1, <2>1
  <2> HIDE DEF A, Rec
  <2>3. QED
    BY <2>1, <2>2
<1>4. \A v \in A \ Rec : first[v] \in D
  <2> SUFFICES ASSUME NEW v \in A, v < base PROVE <<UltoaDigit(v)>> \in D
    OBVIOUS
  <2>1. v \in 0 .. 15
    OBVIOUS
  <2>2. UltoaDigit(v) \in Int
    BY <2>1, UltoaDigitReads DEF Figures, Letters
  <2>3. QED
    BY <2>2
<1>5. PICK f \in [A -> D] : Recursion(f, A, Rec, prev, first, g)
  <2>1. rank \in [A -> 0 .. value]
    OBVIOUS
  <2> HIDE DEF A, D, Rec, rank, prev, first, g
  <2>2. QED
    BY <1>2, <1>3, <1>4, <2>1, RecursionExists
<1>6. \A v \in A : f[v] = IF v < base THEN <<UltoaDigit(v)>>
                                     ELSE Append(f[v \div base], UltoaDigit(v % base))
  <2> SUFFICES ASSUME NEW v \in A
               PROVE  f[v] = IF v < base THEN <<UltoaDigit(v)>>
                                         ELSE Append(f[v \div base], UltoaDigit(v % base))
    OBVIOUS
  <2>1. f[v] = IF v \in Rec THEN g[<<v, f[prev[v]]>>] ELSE first[v]
    <3> HIDE DEF A, Rec, prev, first, g
    <3>1. QED
      BY <1>5 DEF Recursion
  <2>2. CASE v < base
    BY <2>1, <2>2
  <2>3. CASE ~(v < base)
    <3>1. prev[v] = v \div base /\ v \div base \in A /\ v \in Rec
      BY <1>1, <2>3
    <3>2. f[v \div base] \in D
      BY <1>5, <3>1
    <3>3. <<v, f[v \div base]>> \in A \X D
      BY <3>2
    <3>4. g[<<v, f[v \div base]>>] = Append(f[v \div base], UltoaDigit(v % base))
      BY <3>3
    <3>5. QED
      BY <2>1, <2>3, <3>1, <3>4
  <2>4. QED
    BY <2>2, <2>3
<1>7. f = [v \in 0 .. value |->
             IF v < base THEN <<UltoaDigit(v)>>
                         ELSE Append(f[v \div base], UltoaDigit(v % base))]
  BY <1>5, <1>6
<1>8. written = [v \in 0 .. value |->
             IF v < base THEN <<UltoaDigit(v)>>
                         ELSE Append(written[v \div base], UltoaDigit(v % base))]
  BY <1>7
<1>9. ultoa(value, base) = written[value]
  BY DEF ultoa
<1> HIDE DEF written
<1>10. Written(written, value, base)
  BY <1>8 DEF Written
<1>11. QED
  BY <1>9, <1>10

\* ultoa writes figures, and they read as the number.
LEMMA UltoaReads ==
  ASSUME NEW value \in Nat, NEW base \in {2, 10, 16}
  PROVE  /\ ultoa(value, base) \in Seq(Figures \cup Letters)
         /\ base # 16 => ultoa(value, base) \in Seq(Figures)
         /\ ultoa(value, base) # <<>>
         /\ Value(ultoa(value, base), base) = value
<1>1. PICK f : Written(f, value, base) /\ ultoa(value, base) = f[value]
  BY UltoaWritten
<1> DEFINE C == IF base = 16 THEN Figures \cup Letters ELSE Figures
           S == {v \in 0 .. value : /\ f[v] \in Seq(C) /\ f[v] # <<>>
                                    /\ Value(f[v], base) = v}
<1>2. C \subseteq Figures \cup Letters /\ C \subseteq Int
  BY DEF Figures, Letters
<1>3. ASSUME NEW d \in 0 .. base - 1
      PROVE  UltoaDigit(d) \in C /\ UltoaDigit(d) \in Int /\ DigitValue(UltoaDigit(d)) = d
  <2>1. d \in 0 .. 15 /\ (base # 16 => d < 10)
    OBVIOUS
  <2>2. QED
    BY <1>2, <2>1, UltoaDigitReads
<1> HIDE DEF C
<1>4. ASSUME NEW v \in 0 .. value, \A u \in 0 .. v - 1 : u \in S
      PROVE  v \in S
  <2>1. CASE v < base
    <3>1. f[v] = <<UltoaDigit(v)>>
      BY <1>1, <2>1 DEF Written
    <3>2. v \in 0 .. base - 1 /\ base \in Int
      BY <2>1
    <3>3. UltoaDigit(v) \in C /\ UltoaDigit(v) \in Int /\ DigitValue(UltoaDigit(v)) = v
      BY <1>3, <3>2
    <3>4. Value(f[v], base) = v
      BY <3>1, <3>2, <3>3, ValueOne
    <3>5. f[v] \in Seq(C) /\ f[v] # <<>>
      BY <3>1, <3>3, OneSeq
    <3>6. QED
      BY <3>4, <3>5
  <2>2. CASE ~(v < base)
    <3> DEFINE u == v \div base
               d == v % base
    <3>1. u \in 0 .. value /\ u < v /\ d \in 0 .. base - 1 /\ v = u * base + d /\ base \in Int
      <4>1. v \in Nat /\ v >= base
        BY <2>2
      <4>2. u \in 0 .. v /\ d \in 0 .. base - 1 /\ v = u * base + d /\ u < v
        BY <4>1, Divided
      <4>3. QED
        BY <4>2
    <3>2. f[v] = Append(f[u], UltoaDigit(d))
      BY <1>1, <2>2 DEF Written
    <3> HIDE DEF u, d
    <3>3. f[u] \in Seq(C) /\ f[u] \in Seq(Int) /\ Value(f[u], base) = u
      <4>1. u \in S
        BY <1>4, <3>1
      <4>2. f[u] \in Seq(C) /\ Value(f[u], base) = u
        BY <4>1
      <4>3. QED
        BY <1>2, <4>2, SeqMonotonic
    <3>4. UltoaDigit(d) \in C /\ UltoaDigit(d) \in Int /\ DigitValue(UltoaDigit(d)) = d
      BY <1>3, <3>1
    <3>5. Value(f[v], base) = u * base + d
      BY <3>1, <3>2, <3>3, <3>4, ValueAppend
    <3>6. f[v] \in Seq(C) /\ f[v] # <<>>
      BY <3>2, <3>3, <3>4, AppendProperties
    <3>7. QED
      BY <3>1, <3>5, <3>6
  <2>3. QED
    BY <2>1, <2>2
<1>5. value \in S
  <2>1. \A v \in 0 .. value : (\A u \in 0 .. v - 1 : u \in S) => v \in S
    BY <1>4
  <2> HIDE DEF S
  <2>2. 0 .. value \subseteq S
    BY <2>1, Upwards
  <2>3. QED
    BY <2>2
<1>6. f[value] \in Seq(C) /\ f[value] # <<>> /\ Value(f[value], base) = value
  BY <1>5
<1>7. QED
  BY <1>1, <1>2, <1>6, SeqMonotonic DEF C

LEMMA UltoaSmall ==
  ASSUME NEW value \in 0 .. 9
  PROVE  ultoa(value, 10) = <<value + Zero>>
<1>1. value \in Nat /\ 10 \in {2, 10, 16} /\ value \in 0 .. value /\ value < 10
  OBVIOUS
<1>2. PICK f : Written(f, value, 10) /\ ultoa(value, 10) = f[value]
  BY <1>1, UltoaWritten
<1>3. f[value] = IF value < 10 THEN <<UltoaDigit(value)>>
                               ELSE Append(f[value \div 10], UltoaDigit(value % 10))
  BY <1>1, <1>2 DEF Written
<1>4. UltoaDigit(value) = value + Zero
  BY DEF UltoaDigit, Zero
<1>5. QED
  BY <1>1, <1>2, <1>3, <1>4

-----------------------------------------------------------------------------
(* itoa.                                                                   *)

Ints == (-UINT \div 2) .. UINT \div 2
Size(n) == IF n < 0 THEN -n ELSE n

LEMMA IntsAreInt ==
  /\ UINT \div 2 \in Nat /\ UINT \div 2 >= 128
  /\ \A n \in Int : n \in Ints <=> -(UINT \div 2) =< n /\ n =< UINT \div 2
  /\ \A n \in Ints : n \in Int /\ Size(n) \in 0 .. UINT \div 2
<1>1. UINT \div 2 \in Nat /\ UINT \div 2 >= 128
  BY NumbersAssumption
<1>2. \A n : n \in Ints <=> n \in (-(UINT \div 2)) .. (UINT \div 2)
  BY DEF Ints
<1> DEFINE h == UINT \div 2
<1> HIDE DEF h
<1>3. h \in Nat /\ \A n : n \in Ints <=> n \in (-h) .. h
  BY <1>1, <1>2 DEF h
<1>4. \A n \in Int : n \in Ints <=> -h =< n /\ n =< h
  BY <1>3
<1>5. \A n \in Ints : n \in Int /\ Size(n) \in 0 .. h
  BY <1>3 DEF Size
<1>6. QED
  BY <1>1, <1>4, <1>5 DEF h

LEMMA CDivided ==
  ASSUME NEW n \in Ints
  PROVE  /\ CDiv(n, 10) \in Ints /\ CRem(n, 10) \in -9 .. 9
         /\ CDiv(n, 10) = 0 <=> Size(n) < 10
         /\ Size(n) = Size(CDiv(n, 10)) * 10 + Size(CRem(n, 10))
         /\ Size(CRem(n, 10)) \in 0 .. 9 /\ Size(CDiv(n, 10)) \in Nat
         /\ n # 0 => Size(CDiv(n, 10)) < Size(n)
         /\ CDiv(n, 10) < 0 <=> n =< -10
         /\ n >= 0 => CDiv(n, 10) >= 0 /\ CRem(n, 10) >= 0
<1> DEFINE h == UINT \div 2
<1>1. n \in Int /\ h \in Nat /\ -h =< n /\ n =< h
  BY IntsAreInt
<1>2. CASE n >= 0
  <2> DEFINE q == n \div 10
             r == n % 10
  <2>1. q \in Nat /\ r \in 0 .. 9 /\ n = q * 10 + r
    BY <1>1, <1>2
  <2>2. CDiv(n, 10) = q
    BY <1>1, <1>2 DEF CDiv
  <2> HIDE DEF q, r, h
  <2>3. CRem(n, 10) = r
    BY <1>1, <2>1, <2>2 DEF CRem
  <2>4. q \in Ints
    <3>1. -h =< q /\ q =< h /\ q \in Int
      BY <1>1, <1>2, <2>1
    <3>2. QED
      BY <3>1, IntsAreInt DEF h
  <2>5. Size(n) = n /\ Size(q) = q /\ Size(r) = r
    BY <1>2, <2>1 DEF Size
  <2>6. QED
    BY <1>1, <1>2, <2>1, <2>2, <2>3, <2>4, <2>5
<1>3. CASE n < 0
  <2> DEFINE q == (-n) \div 10
             r == (-n) % 10
  <2>1. q \in Nat /\ r \in 0 .. 9 /\ -n = q * 10 + r
    BY <1>1, <1>3
  <2>2. CDiv(n, 10) = -q
    BY <1>1, <1>3 DEF CDiv
  <2> HIDE DEF q, r, h
  <2>3. CRem(n, 10) = -r
    BY <1>1, <2>1, <2>2 DEF CRem
  <2>4. -q \in Ints
    <3>1. -h =< -q /\ -q =< h /\ -q \in Int
      BY <1>1, <1>3, <2>1
    <3>2. QED
      BY <3>1, IntsAreInt DEF h
  <2>5. Size(n) = -n /\ Size(-q) = q /\ Size(-r) = r
    BY <1>1, <1>3, <2>1 DEF Size
  <2>6. -r \in -9 .. 9 /\ (-q = 0 <=> -n < 10) /\ (-q < 0 <=> n =< -10)
    BY <1>1, <2>1
  <2>7. QED
    BY <1>1, <1>3, <2>1, <2>2, <2>3, <2>4, <2>5, <2>6
<1>4. QED
  BY <1>1, <1>2, <1>3

LEMMA ItoaDigitReads ==
  ASSUME NEW d \in -9 .. 9
  PROVE  /\ ItoaDigit(d) \in Figures /\ ItoaDigit(d) \in Int
         /\ DigitValue(ItoaDigit(d)) = Size(d)
<1>1. Size(d) \in 0 .. 9
  BY DEF Size
<1>2. ItoaDigit(d) = 48 + Size(d)
  BY DEF ItoaDigit, Size, Zero
<1>3. QED
  BY <1>1, <1>2, DigitValueInt DEF Figures, DigitValue, isdigit

\* What the loop of itoa has written for each of the numbers it comes by.
Converted(f) ==
  \A n \in Ints : f[n] = IF CDiv(n, 10) = 0 THEN ItoaSign(<<ItoaDigit(n)>>, n)
                                           ELSE Append(f[CDiv(n, 10)], ItoaDigit(CRem(n, 10)))

LEMMA ItoaSignType ==
  ASSUME NEW s \in Seq(Int), NEW n \in Int
  PROVE  ItoaSign(s, n) \in Seq(Int)
<1>1. Minus \in Int
  BY DEF Minus
<1>2. <<Minus>> \in Seq(Int)
  BY <1>1, OneSeq
<1>3. <<Minus>> \o s \in Seq(Int)
  BY <1>2, ConcatProperties
<1>4. QED
  BY <1>3 DEF ItoaSign

LEMMA ItoaDigitInt ==
  ASSUME NEW n \in Int
  PROVE  ItoaDigit(n) \in Int
  BY DEF ItoaDigit, Zero

LEMMA ItoaConverted ==
  ASSUME NEW num \in Ints
  PROVE  \E f : Converted(f) /\ itoa(num, 10) = f[num]
<1> DEFINE A     == Ints
           D     == Seq(Int)
           Rec   == {n \in A : CDiv(n, 10) # 0}
           rank  == [n \in A |-> Size(n)]
           prev  == [n \in A |-> CDiv(n, 10)]
           first == [n \in A |-> ItoaSign(<<ItoaDigit(n)>>, n)]
           g     == [x \in A \X D |-> Append(x[2], ItoaDigit(CRem(x[1], 10)))]
           written[n \in (-UINT \div 2) .. UINT \div 2] ==
             IF CDiv(n, 10) = 0 THEN ItoaSign(<<ItoaDigit(n)>>, n)
                                ELSE Append(written[CDiv(n, 10)], ItoaDigit(CRem(n, 10)))
<1>1. g \in [A \X D -> D]
  <2>1. ASSUME NEW x \in A \X D PROVE Append(x[2], ItoaDigit(CRem(x[1], 10))) \in D
    <3>1. x[1] \in Ints /\ x[2] \in D
      OBVIOUS
    <3>2. ItoaDigit(CRem(x[1], 10)) \in Int
      BY <3>1, CDivided, ItoaDigitReads
    <3>3. QED
      BY <3>1, <3>2, AppendProperties
  <2>2. QED
    BY <2>1
<1>2. \A n \in A \cap Rec : prev[n] \in A /\ rank[prev[n]] < rank[n]
  <2> SUFFICES ASSUME NEW n \in Ints, CDiv(n, 10) # 0
               PROVE  prev[n] \in A /\ rank[prev[n]] < rank[n]
    OBVIOUS
  <2>1. CDiv(n, 10) \in Ints /\ Size(CDiv(n, 10)) < Size(n)
    <3>1. n # 0
      BY DEF CDiv
    <3>2. QED
      BY <3>1, CDivided
  <2>2. QED
    BY <2>1
<1>3. \A n \in A \ Rec : first[n] \in D
  <2> SUFFICES ASSUME NEW n \in Ints PROVE ItoaSign(<<ItoaDigit(n)>>, n) \in D
    OBVIOUS
  <2>1. n \in Int
    BY IntsAreInt
  <2>2. <<ItoaDigit(n)>> \in Seq(Int)
    BY <2>1, ItoaDigitInt, OneSeq
  <2>3. QED
    BY <2>1, <2>2, ItoaSignType
<1>4. PICK f \in [A -> D] : Recursion(f, A, Rec, prev, first, g)
  <2>1. rank \in [A -> 0 .. UINT \div 2] /\ UINT \div 2 \in Nat
    BY IntsAreInt
  <2> HIDE DEF A, D, Rec, rank, prev, first, g
  <2>2. QED
    BY <1>1, <1>2, <1>3, <2>1, RecursionExists
<1>5. ASSUME NEW n \in A
      PROVE  f[n] = IF CDiv(n, 10) = 0 THEN ItoaSign(<<ItoaDigit(n)>>, n)
                                       ELSE Append(f[CDiv(n, 10)], ItoaDigit(CRem(n, 10)))
  <2>1. f[n] = IF n \in Rec THEN g[<<n, f[prev[n]]>>] ELSE first[n]
    <3> HIDE DEF A, Rec, prev, first, g
    <3>1. QED
      BY <1>4 DEF Recursion
  <2>2. CASE CDiv(n, 10) = 0
    BY <2>1, <2>2
  <2>3. CASE CDiv(n, 10) # 0
    <3>1. prev[n] = CDiv(n, 10) /\ CDiv(n, 10) \in A /\ n \in Rec
      BY <2>3, CDivided
    <3>2. f[CDiv(n, 10)] \in D
      BY <1>4, <3>1
    <3>3. <<n, f[CDiv(n, 10)]>> \in A \X D
      BY <3>2
    <3>4. g[<<n, f[CDiv(n, 10)]>>] = Append(f[CDiv(n, 10)], ItoaDigit(CRem(n, 10)))
      BY <3>3
    <3>5. QED
      BY <2>1, <2>3, <3>1, <3>4
  <2>4. QED
    BY <2>2, <2>3
<1>6. f = [n \in (-UINT \div 2) .. UINT \div 2 |->
             IF CDiv(n, 10) = 0 THEN ItoaSign(<<ItoaDigit(n)>>, n)
                                ELSE Append(f[CDiv(n, 10)], ItoaDigit(CRem(n, 10)))]
  <2>1. f = [n \in A |->
             IF CDiv(n, 10) = 0 THEN ItoaSign(<<ItoaDigit(n)>>, n)
                                ELSE Append(f[CDiv(n, 10)], ItoaDigit(CRem(n, 10)))]
    BY <1>4, <1>5
  <2>2. QED
    BY <2>1 DEF Ints
<1>7. written = [n \in (-UINT \div 2) .. UINT \div 2 |->
             IF CDiv(n, 10) = 0 THEN ItoaSign(<<ItoaDigit(n)>>, n)
                                ELSE Append(written[CDiv(n, 10)], ItoaDigit(CRem(n, 10)))]
  BY <1>6
<1>8. itoa(num, 10) = written[num]
  <2>1. 10 \in 2 .. 36
    OBVIOUS
  <2>2. QED
    BY <2>1 DEF itoa
<1> HIDE DEF written
<1>9. Converted(written)
  BY <1>7 DEF Converted, Ints
<1>10. QED
  BY <1>8, <1>9

\* itoa writes figures that read as the number without its sign, and the sign in front.
LEMMA ItoaReads ==
  ASSUME NEW num \in Ints
  PROVE  \E t \in Seq(Figures) : /\ t # <<>> /\ Value(t, 10) = Size(num)
                                 /\ itoa(num, 10) = IF num < 0 THEN <<Minus>> \o t ELSE t
<1>1. PICK f : Converted(f) /\ itoa(num, 10) = f[num]
  BY ItoaConverted
<1> DEFINE h == UINT \div 2
           Good(n) == \E t \in Seq(Figures) : /\ t # <<>> /\ Value(t, 10) = Size(n)
                                              /\ f[n] = IF n < 0 THEN <<Minus>> \o t ELSE t
           S == {k \in 0 .. h : \A n \in Ints : Size(n) = k => Good(n)}
<1>2. h \in Nat /\ \A n \in Ints : n \in Int /\ Size(n) \in 0 .. h
  BY IntsAreInt
<1> HIDE DEF h
<1>3. ASSUME NEW n \in Ints, Size(n) < 10 PROVE Good(n)
  <2>1. CDiv(n, 10) = 0
    BY <1>3, CDivided
  <2>2. f[n] = ItoaSign(<<ItoaDigit(n)>>, n)
    BY <1>1, <2>1 DEF Converted
  <2>3. n \in -9 .. 9
    BY <1>2, <1>3 DEF Size
  <2>4. ItoaDigit(n) \in Figures /\ ItoaDigit(n) \in Int /\ DigitValue(ItoaDigit(n)) = Size(n)
    BY <2>3, ItoaDigitReads
  <2> DEFINE t == <<ItoaDigit(n)>>
  <2>5. t \in Seq(Figures) /\ t # <<>>
    BY <2>4, OneSeq
  <2>6. Value(t, 10) = Size(n)
    <3>1. 10 \in Int
      OBVIOUS
    <3>2. QED
      BY <2>4, <3>1, ValueOne
  <2>7. f[n] = IF n < 0 THEN <<Minus>> \o t ELSE t
    BY <2>2 DEF ItoaSign
  <2> HIDE DEF t
  <2>8. QED
    BY <2>5, <2>6, <2>7
<1>4. ASSUME NEW n \in Ints, ~(Size(n) < 10), Good(CDiv(n, 10)) PROVE Good(n)
  <2> DEFINE u == CDiv(n, 10)
             d == CRem(n, 10)
  <2>1. /\ u # 0 /\ d \in -9 .. 9 /\ Size(n) = Size(u) * 10 + Size(d) /\ Size(d) \in 0 .. 9
        /\ Size(u) \in Nat
    BY <1>4, CDivided
  <2>2. u < 0 <=> n < 0
    <3>1. u < 0 <=> n =< -10
      BY CDivided
    <3>2. n =< -10 <=> n < 0
      BY <1>2, <1>4 DEF Size
    <3>3. QED
      BY <3>1, <3>2
  <2>3. f[n] = Append(f[u], ItoaDigit(d))
    BY <1>1, <2>1 DEF Converted
  <2>4. PICK t \in Seq(Figures) : /\ t # <<>> /\ Value(t, 10) = Size(u)
                                  /\ f[u] = IF u < 0 THEN <<Minus>> \o t ELSE t
    BY <1>4
  <2> HIDE DEF u, d
  <2>5. ItoaDigit(d) \in Figures /\ ItoaDigit(d) \in Int /\ DigitValue(ItoaDigit(d)) = Size(d)
    BY <2>1, ItoaDigitReads
  <2> DEFINE w == Append(t, ItoaDigit(d))
  <2>6. w \in Seq(Figures) /\ w # <<>> /\ t \in Seq(Int)
    BY <2>4, <2>5, AppendProperties, FiguresInt
  <2>7. Value(w, 10) = Size(n)
    <3>1. 10 \in Int
      OBVIOUS
    <3>2. Value(w, 10) = Value(t, 10) * 10 + DigitValue(ItoaDigit(d))
      BY <2>5, <2>6, <3>1, ValueAppend
    <3>3. QED
      BY <2>1, <2>4, <2>5, <3>2
  <2>8. f[n] = IF n < 0 THEN <<Minus>> \o w ELSE w
    <3>1. CASE n < 0
      <4>1. <<Minus>> \in Seq(Int) /\ <<ItoaDigit(d)>> \in Seq(Int)
        BY <2>5, OneSeq DEF Minus
      <4>2. <<Minus>> \o t \in Seq(Int)
        BY <2>6, <4>1, ConcatProperties
      <4>3. f[n] = (<<Minus>> \o t) \o <<ItoaDigit(d)>>
        BY <2>2, <2>3, <2>4, <2>5, <3>1, <4>2, AppendIsConcat
      <4>4. w = t \o <<ItoaDigit(d)>>
        BY <2>5, <2>6, AppendIsConcat
      <4>5. (<<Minus>> \o t) \o <<ItoaDigit(d)>> = <<Minus>> \o (t \o <<ItoaDigit(d)>>)
        BY <2>6, <4>1, ConcatAssociative
      <4>6. QED
        BY <3>1, <4>3, <4>4, <4>5
    <3>2. CASE ~(n < 0)
      BY <2>2, <2>3, <2>4, <3>2
    <3>3. QED
      BY <3>1, <3>2
  <2> HIDE DEF w
  <2>9. QED
    BY <2>6, <2>7, <2>8
<1> HIDE DEF Good
<1>5. ASSUME NEW k \in 0 .. h, \A j \in 0 .. k - 1 : j \in S PROVE k \in S
  <2> SUFFICES ASSUME NEW n \in Ints, Size(n) = k PROVE Good(n)
    OBVIOUS
  <2>1. CASE k < 10
    BY <1>3, <2>1
  <2>2. CASE ~(k < 10)
    <3> DEFINE j == Size(CDiv(n, 10))
    <3>1. j \in Nat /\ j < Size(n) /\ CDiv(n, 10) \in Ints
      <4>1. n # 0
        BY <2>2 DEF Size
      <4>2. QED
        BY <4>1, CDivided
    <3>2. j \in 0 .. k - 1
      BY <3>1
    <3>3. j \in S
      BY <1>5, <3>2
    <3>4. Good(CDiv(n, 10))
      BY <3>1, <3>3
    <3>5. QED
      BY <1>4, <2>2, <3>4
  <2>3. QED
    BY <2>1, <2>2
<1>6. 0 .. h \subseteq S
  <2>1. \A k \in 0 .. h : (\A j \in 0 .. k - 1 : j \in S) => k \in S
    BY <1>5
  <2> HIDE DEF S
  <2>2. QED
    BY <1>2, <2>1, Upwards
<1>7. Good(num)
  BY <1>2, <1>6
<1>8. QED
  BY <1>1, <1>7 DEF Good

-----------------------------------------------------------------------------
(* Sequences.                                                              *)

LEMMA Joined ==
  ASSUME NEW S, NEW s \in Seq(S), NEW t \in Seq(S)
  PROVE  /\ s \o t \in Seq(S) /\ Len(s \o t) = Len(s) + Len(t)
         /\ Len(s) \in Nat /\ Len(t) \in Nat
         /\ \A k \in 1 .. Len(s) : (s \o t)[k] = s[k]
         /\ \A k \in 1 .. Len(t) : (s \o t)[Len(s) + k] = t[k]
<1>1. Len(s) \in Nat /\ Len(t) \in Nat
  BY LenProperties
<1> DEFINE u == s \o t
           m == Len(s)
           n == Len(t)
<1>2. u \in Seq(S) /\ Len(u) = m + n /\ \A i \in 1 .. m + n : u[i] = IF i <= m THEN s[i] ELSE t[i - m]
  BY ConcatProperties
<1>3. m \in Nat /\ n \in Nat
  BY <1>1
<1> HIDE DEF u, m, n
<1>4. \A k \in 1 .. m : u[k] = s[k]
  BY <1>2, <1>3
<1>5. ASSUME NEW k \in 1 .. n PROVE u[m + k] = t[k]
  <2>1. m + k \in 1 .. m + n /\ ~(m + k =< m) /\ (m + k) - m = k
    BY <1>3
  <2>2. QED
    BY <1>2, <2>1
<1>6. QED
  BY <1>2, <1>3, <1>4, <1>5 DEF u, m, n

LEMMA Piece ==
  ASSUME NEW S, NEW s \in Seq(S), NEW m \in Int, NEW n \in Int,
         1 =< m, m - 1 =< n, n =< Len(s)
  PROVE  /\ SubSeq(s, m, n) \in Seq(S) /\ Len(SubSeq(s, m, n)) = n - m + 1
         /\ \A i \in 1 .. n - m + 1 : SubSeq(s, m, n)[i] = s[m + i - 1]
<1>1. Len(s) \in Nat
  BY LenProperties
<1>2. \A i \in m .. n : s[i] \in S
  <2> TAKE i \in m .. n
  <2>1. i \in 1 .. Len(s)
    BY <1>1
  <2>2. QED
    BY <2>1, ElementOfSeq
<1> DEFINE u == SubSeq(s, m, n)
<1>3. /\ u \in Seq(S) /\ Len(u) = IF m =< n THEN n - m + 1 ELSE 0
      /\ \A i \in 1 .. n - m + 1 : u[i] = s[m + i - 1]
  BY <1>2, SubSeqProperties
<1> HIDE DEF u
<1>4. Len(u) = n - m + 1
  BY <1>3
<1>5. QED
  BY <1>3, <1>4 DEF u

\* Sequences that agree everywhere are the same.
LEMMA Same ==
  ASSUME NEW S, NEW T, NEW s \in Seq(S), NEW t \in Seq(T), Len(s) = Len(t),
         \A k \in 1 .. Len(s) : s[k] = t[k]
  PROVE  s = t
<1>1. /\ s \in [1 .. Len(s) -> S] /\ t \in [1 .. Len(s) -> T]
  BY LenProperties
<1>2. QED
  BY <1>1

LEMMA PairSeq ==
  ASSUME NEW S, NEW x \in S, NEW y \in S
  PROVE  /\ <<x, y>> \in Seq(S) /\ Len(<<x, y>>) = 2 /\ <<x, y>>[1] = x /\ <<x, y>>[2] = y
         /\ <<x>> \o <<y>> = <<x, y>> /\ Append(<<x>>, y) = <<x, y>>
<1>1. <<x, y>> \in Seq(S) /\ Len(<<x, y>>) = 2 /\ <<x, y>>[1] = x /\ <<x, y>>[2] = y
  OBVIOUS
<1>2. <<x>> \o <<y>> = <<x, y>>
  <2> DEFINE a == <<x>>
             b == <<y>>
             c == <<x, y>>
  <2>1. a \in Seq(S) /\ Len(a) = 1 /\ a[1] = x /\ b \in Seq(S) /\ Len(b) = 1 /\ b[1] = y
    OBVIOUS
  <2>2. c \in Seq(S) /\ Len(c) = 2 /\ c[1] = x /\ c[2] = y
    BY <1>1
  <2> HIDE DEF a, b, c
  <2>3. /\ a \o b \in Seq(S) /\ Len(a \o b) = Len(a) + Len(b)
        /\ \A k \in 1 .. Len(a) : (a \o b)[k] = a[k]
        /\ \A k \in 1 .. Len(b) : (a \o b)[Len(a) + k] = b[k]
    BY <2>1, Joined
  <2>4. (a \o b)[1] = c[1] /\ (a \o b)[2] = c[2]
    <3>1. 1 \in 1 .. Len(a) /\ 1 \in 1 .. Len(b) /\ Len(a) + 1 = 2
      BY <2>1
    <3>2. (a \o b)[1] = a[1] /\ (a \o b)[Len(a) + 1] = b[1]
      BY <2>3, <3>1
    <3>3. QED
      BY <2>1, <2>2, <3>1, <3>2
  <2>5. \A k \in 1 .. 2 : (a \o b)[k] = c[k]
    <3>1. \A k \in 1 .. 2 : k = 1 \/ k = 2
      OBVIOUS
    <3>2. QED
      BY <2>4, <3>1
  <2>6. a \o b = c
    BY <2>1, <2>2, <2>3, <2>5, Same
  <2>7. QED
    BY <2>6 DEF a, b, c
<1>3. Append(<<x>>, y) = <<x, y>>
  <2>1. <<x>> \in Seq(S)
    OBVIOUS
  <2>2. Append(<<x>>, y) = <<x>> \o <<y>>
    BY <2>1, AppendIsConcat
  <2>3. QED
    BY <1>2, <2>2
<1>4. QED
  BY <1>1, <1>2, <1>3

\* The zeros in front of up to two digits.
LEMMA Repeated ==
  ASSUME NEW S, NEW x \in S
  PROVE  /\ [k \in 1 .. 0 |-> x] = <<>> /\ [k \in 1 .. 1 |-> x] = <<x>>
         /\ [k \in 1 .. 2 |-> x] = <<x, x>>
<1>1. [k \in 1 .. 1 |-> x] = <<x>>
  <2>1. [k \in 1 .. 1 |-> x] \in Seq(S) /\ Len([k \in 1 .. 1 |-> x]) = 1
    OBVIOUS
  <2>2. <<x>> \in Seq(S) /\ Len(<<x>>) = 1
    OBVIOUS
  <2>3. \A k \in 1 .. 1 : [i \in 1 .. 1 |-> x][k] = <<x>>[k]
    OBVIOUS
  <2> DEFINE a == [i \in 1 .. 1 |-> x]
             b == <<x>>
  <2>4. a \in Seq(S) /\ b \in Seq(S) /\ Len(a) = 1 /\ Len(b) = 1 /\ \A k \in 1 .. 1 : a[k] = b[k]
    BY <2>1, <2>2, <2>3
  <2> HIDE DEF a, b
  <2>5. a = b
    BY <2>4, Same
  <2>6. QED
    BY <2>5 DEF a, b
<1>2. [k \in 1 .. 2 |-> x] = <<x, x>>
  <2> DEFINE a == [i \in 1 .. 2 |-> x]
             b == <<x, x>>
  <2>1. a \in Seq(S) /\ Len(a) = 2
    OBVIOUS
  <2>2. b \in Seq(S) /\ Len(b) = 2
    OBVIOUS
  <2>3. \A k \in 1 .. 2 : a[k] = b[k]
    OBVIOUS
  <2> HIDE DEF a, b
  <2>5. a = b
    BY <2>1, <2>2, <2>3, Same
  <2>6. QED
    BY <2>5 DEF a, b
<1>3. [k \in 1 .. 0 |-> x] = <<>>
  OBVIOUS
<1>4. QED
  BY <1>1, <1>2, <1>3

-----------------------------------------------------------------------------
(* int2str and ftoa.                                                       *)

\* What the loop of int2str has written for each of the numbers it comes by.
Digited(f) ==
  \A n \in Ints : f[n] = IF n = 0 THEN <<>> ELSE Append(f[CDiv(n, 10)], CRem(n, 10) + Zero)

LEMMA Int2strDigited ==
  ASSUME NEW x, NEW d
  PROVE  \E f : /\ Digited(f)
                /\ int2str(x, d) = [k \in 1 .. (IF d - Len(f[x]) > 0 THEN d - Len(f[x]) ELSE 0) |-> Zero] \o f[x]
<1> DEFINE A     == Ints
           D     == Seq(Int)
           Rec   == {n \in A : n # 0}
           rank  == [n \in A |-> Size(n)]
           prev  == [n \in A |-> CDiv(n, 10)]
           first == [n \in A |-> <<>>]
           g     == [y \in A \X D |-> Append(y[2], CRem(y[1], 10) + Zero)]
           digits[n \in (-UINT \div 2) .. UINT \div 2] ==
             IF n = 0 THEN <<>> ELSE Append(digits[CDiv(n, 10)], CRem(n, 10) + Zero)
<1>1. g \in [A \X D -> D]
  <2>1. ASSUME NEW y \in A \X D PROVE Append(y[2], CRem(y[1], 10) + Zero) \in D
    <3>1. y[1] \in Ints /\ y[2] \in D
      OBVIOUS
    <3>2. CRem(y[1], 10) + Zero \in Int
      <4>1. CRem(y[1], 10) \in -9 .. 9
        BY <3>1, CDivided
      <4>2. QED
        BY <4>1 DEF Zero
    <3>3. QED
      BY <3>1, <3>2, AppendProperties
  <2>2. QED
    BY <2>1
<1>2. \A n \in A \cap Rec : prev[n] \in A /\ rank[prev[n]] < rank[n]
  <2> SUFFICES ASSUME NEW n \in Ints, n # 0
               PROVE  prev[n] \in A /\ rank[prev[n]] < rank[n]
    OBVIOUS
  <2>1. CDiv(n, 10) \in Ints /\ Size(CDiv(n, 10)) < Size(n)
    BY CDivided
  <2>2. QED
    BY <2>1
<1>3. \A n \in A \ Rec : first[n] \in D
  BY EmptySeq
<1>4. PICK f \in [A -> D] : Recursion(f, A, Rec, prev, first, g)
  <2>1. rank \in [A -> 0 .. UINT \div 2] /\ UINT \div 2 \in Nat
    BY IntsAreInt
  <2> HIDE DEF A, D, Rec, rank, prev, first, g
  <2>2. QED
    BY <1>1, <1>2, <1>3, <2>1, RecursionExists
<1>5. ASSUME NEW n \in A
      PROVE  f[n] = IF n = 0 THEN <<>> ELSE Append(f[CDiv(n, 10)], CRem(n, 10) + Zero)
  <2>1. f[n] = IF n \in Rec THEN g[<<n, f[prev[n]]>>] ELSE first[n]
    <3> HIDE DEF A, Rec, prev, first, g
    <3>1. QED
      BY <1>4 DEF Recursion
  <2>2. CASE n = 0
    BY <2>1, <2>2
  <2>3. CASE n # 0
    <3>1. prev[n] = CDiv(n, 10) /\ CDiv(n, 10) \in A /\ n \in Rec
      BY <2>3, CDivided
    <3>2. f[CDiv(n, 10)] \in D
      BY <1>4, <3>1
    <3>3. <<n, f[CDiv(n, 10)]>> \in A \X D
      BY <3>2
    <3>4. g[<<n, f[CDiv(n, 10)]>>] = Append(f[CDiv(n, 10)], CRem(n, 10) + Zero)
      BY <3>3
    <3>5. QED
      BY <2>1, <2>3, <3>1, <3>4
  <2>4. QED
    BY <2>2, <2>3
<1>6. f = [n \in (-UINT \div 2) .. UINT \div 2 |->
             IF n = 0 THEN <<>> ELSE Append(f[CDiv(n, 10)], CRem(n, 10) + Zero)]
  <2>1. f = [n \in A |->
             IF n = 0 THEN <<>> ELSE Append(f[CDiv(n, 10)], CRem(n, 10) + Zero)]
    BY <1>4, <1>5
  <2>2. QED
    BY <2>1 DEF Ints
<1>7. digits = [n \in (-UINT \div 2) .. UINT \div 2 |->
             IF n = 0 THEN <<>> ELSE Append(digits[CDiv(n, 10)], CRem(n, 10) + Zero)]
  BY <1>6
<1>8. int2str(x, d) = [k \in 1 .. (IF d - Len(digits[x]) > 0 THEN d - Len(digits[x]) ELSE 0) |-> Zero]
                      \o digits[x]
  BY DEF int2str
<1> HIDE DEF digits
<1>9. Digited(digits)
  BY <1>7 DEF Digited, Ints
<1>10. QED
  BY <1>8, <1>9

\* The digits of a number that is not negative are figures and read as the number.
LEMMA DigitedReads ==
  ASSUME NEW f, Digited(f), NEW num \in Ints, num >= 0
  PROVE  f[num] \in Seq(Figures) /\ Value(f[num], 10) = num
<1> DEFINE h == UINT \div 2
           S == {k \in 0 .. h : f[k] \in Seq(Figures) /\ Value(f[k], 10) = k}
<1>1. h \in Nat /\ num \in 0 .. h /\ \A k \in 0 .. h : k \in Ints /\ Size(k) = k
  BY IntsAreInt DEF Size
<1> HIDE DEF h
<1>2. ASSUME NEW k \in 0 .. h, \A j \in 0 .. k - 1 : j \in S PROVE k \in S
  <2>1. CASE k = 0
    <3>1. f[k] = <<>>
      BY <1>1, <2>1 DEF Digited
    <3>2. 10 \in Int
      OBVIOUS
    <3>3. QED
      BY <2>1, <3>1, <3>2, ValueEmpty, EmptySeq
  <2>2. CASE k # 0
    <3> DEFINE u == CDiv(k, 10)
               d == CRem(k, 10)
    <3>1. /\ u \in Int /\ u >= 0 /\ u < k /\ d \in 0 .. 9 /\ k = u * 10 + d
      <4>1. k \in Ints /\ k \in Int /\ k >= 0 /\ Size(k) = k
        BY <1>1
      <4>2. /\ u \in Ints /\ u >= 0 /\ d >= 0 /\ d \in -9 .. 9
            /\ Size(k) = Size(u) * 10 + Size(d) /\ Size(u) < Size(k)
        BY <2>2, <4>1, CDivided
      <4>3. u \in Int /\ Size(u) = u /\ Size(d) = d
        BY <4>2, IntsAreInt DEF Size
      <4>4. QED
        BY <4>1, <4>2, <4>3
    <3>2. f[k] = Append(f[u], d + Zero)
      BY <1>1, <2>2 DEF Digited
    <3> HIDE DEF u, d
    <3>3. f[u] \in Seq(Figures) /\ f[u] \in Seq(Int) /\ Value(f[u], 10) = u
      <4>1. u \in 0 .. k - 1
        BY <3>1
      <4>2. u \in S
        BY <1>2, <4>1
      <4>3. QED
        BY <4>2, FiguresInt
    <3>4. d + Zero \in Figures /\ d + Zero \in Int /\ DigitValue(d + Zero) = d
      <4>1. d + Zero \in Int /\ isdigit(d + Zero) /\ d + Zero \in Figures
        BY <3>1 DEF Zero, isdigit, Figures
      <4>2. QED
        BY <3>1, <4>1, DigitValueInt DEF Zero
    <3>5. Value(f[k], 10) = u * 10 + d
      <4>1. 10 \in Int
        OBVIOUS
      <4>2. QED
        BY <3>2, <3>3, <3>4, <4>1, ValueAppend
    <3>6. f[k] \in Seq(Figures)
      BY <3>2, <3>3, <3>4, AppendProperties
    <3>7. QED
      BY <3>1, <3>5, <3>6
  <2>3. QED
    BY <2>1, <2>2
<1>3. num \in S
  <2>1. \A k \in 0 .. h : (\A j \in 0 .. k - 1 : j \in S) => k \in S
    BY <1>2
  <2> HIDE DEF S
  <2>2. 0 .. h \subseteq S
    BY <1>1, <2>1, Upwards
  <2>3. QED
    BY <1>1, <2>2
<1>4. QED
  BY <1>3

LEMMA Int2strWhole ==
  ASSUME NEW n \in Ints, n >= 0
  PROVE  int2str(n, 0) \in Seq(Figures) /\ Value(int2str(n, 0), 10) = n
<1>1. PICK f : /\ Digited(f)
               /\ int2str(n, 0) = [k \in 1 .. (IF 0 - Len(f[n]) > 0 THEN 0 - Len(f[n]) ELSE 0) |-> Zero] \o f[n]
  BY Int2strDigited
<1>2. f[n] \in Seq(Figures) /\ Value(f[n], 10) = n
  BY <1>1, DigitedReads
<1>3. Len(f[n]) \in Nat
  BY <1>2, LenProperties
<1>4. [k \in 1 .. (IF 0 - Len(f[n]) > 0 THEN 0 - Len(f[n]) ELSE 0) |-> Zero] = <<>>
  <2>1. (IF 0 - Len(f[n]) > 0 THEN 0 - Len(f[n]) ELSE 0) = 0
    BY <1>3
  <2>2. [k \in 1 .. 0 |-> Zero] = <<>>
    OBVIOUS
  <2>3. QED
    BY <2>1, <2>2
<1>5. int2str(n, 0) = f[n]
  BY <1>1, <1>2, <1>4, ConcatEmptySeq
<1>6. QED
  BY <1>2, <1>5

LEMMA Int2strTwo ==
  ASSUME NEW r \in 0 .. 99
  PROVE  int2str(r, 2) = <<Zero + (r \div 10), Zero + (r % 10)>>
<1>1. PICK f : /\ Digited(f)
               /\ int2str(r, 2) = [k \in 1 .. (IF 2 - Len(f[r]) > 0 THEN 2 - Len(f[r]) ELSE 0) |-> Zero] \o f[r]
  BY Int2strDigited
<1>2. \A k \in 0 .. 99 : k \in Ints
  BY IntsAreInt
<1>3. f[0] = <<>>
  <2>1. 0 \in Ints
    BY <1>2
  <2>2. QED
    BY <1>1, <2>1 DEF Digited
<1>4. ASSUME NEW k \in 1 .. 99
      PROVE  f[k] = Append(f[k \div 10], (k % 10) + Zero)
  <2>1. k \in Ints /\ k # 0
    BY <1>2
  <2>2. CDiv(k, 10) = k \div 10 /\ CRem(k, 10) = k % 10
    BY DEF CDiv, CRem
  <2>3. QED
    BY <1>1, <2>1, <2>2 DEF Digited
<1>5. ASSUME NEW k \in 1 .. 9 PROVE f[k] = <<k + Zero>>
  <2>1. k \div 10 = 0 /\ k % 10 = k /\ k \in 1 .. 99 /\ k + Zero \in Int
    BY DEF Zero
  <2>2. f[k] = Append(f[k \div 10], (k % 10) + Zero)
    BY <1>4, <2>1
  <2>3. f[k] = Append(<<>>, k + Zero)
    BY <1>3, <2>1, <2>2
  <2>4. Append(<<>>, k + Zero) = <<k + Zero>>
    BY <2>1
  <2>5. QED
    BY <2>3, <2>4
<1>6. CASE r = 0
  <2>1. f[r] = <<>> /\ Len(<<>>) = 0
    BY <1>3, <1>6
  <2>2. int2str(r, 2) = [k \in 1 .. 2 |-> Zero] \o <<>>
    <3>1. (IF 2 - Len(f[r]) > 0 THEN 2 - Len(f[r]) ELSE 0) = 2
      BY <2>1
    <3>2. QED
      BY <1>1, <2>1, <3>1
  <2>3. Zero \in Int
    BY DEF Zero
  <2>4. int2str(r, 2) = <<Zero, Zero>>
    <3>1. [k \in 1 .. 2 |-> Zero] = <<Zero, Zero>> /\ <<Zero, Zero>> \in Seq(Int)
      BY <2>3, Repeated, PairSeq
    <3>2. QED
      BY <2>2, <3>1, ConcatEmptySeq
  <2>5. r \div 10 = 0 /\ r % 10 = 0 /\ Zero + 0 = Zero
    BY <1>6 DEF Zero
  <2>6. QED
    BY <2>4, <2>5
<1>7. CASE r \in 1 .. 9
  <2>1. f[r] = <<r + Zero>> /\ Len(<<r + Zero>>) = 1
    BY <1>5, <1>7
  <2>2. int2str(r, 2) = [k \in 1 .. 1 |-> Zero] \o <<r + Zero>>
    <3>1. (IF 2 - Len(f[r]) > 0 THEN 2 - Len(f[r]) ELSE 0) = 1
      BY <2>1
    <3>2. QED
      BY <1>1, <2>1, <3>1
  <2>3. Zero \in Int /\ r + Zero \in Int
    BY DEF Zero
  <2>4. int2str(r, 2) = <<Zero, r + Zero>>
    <3>1. [k \in 1 .. 1 |-> Zero] = <<Zero>>
      BY <2>3, Repeated
    <3>2. <<Zero>> \o <<r + Zero>> = <<Zero, r + Zero>>
      BY <2>3, PairSeq, ZenonT(30)
    <3>3. QED
      BY <2>2, <3>1, <3>2
  <2>5. r \div 10 = 0 /\ r % 10 = r /\ Zero + 0 = Zero /\ Zero + r = r + Zero
    BY <1>7 DEF Zero
  <2>6. QED
    BY <2>4, <2>5
<1>8. CASE r \in 10 .. 99
  <2> DEFINE q == r \div 10
             d == r % 10
  <2>1. q \in 1 .. 9 /\ d \in 0 .. 9
    BY <1>8
  <2>2. f[r] = Append(f[q], d + Zero)
    <3>1. r \in 1 .. 99
      BY <1>8
    <3>2. QED
      BY <1>4, <3>1
  <2> HIDE DEF q, d
  <2>3. f[q] = <<q + Zero>>
    BY <1>5, <2>1
  <2>4. q + Zero \in Int /\ d + Zero \in Int /\ q + Zero = Zero + q /\ d + Zero = Zero + d
    BY <2>1 DEF Zero
  <2>5. f[r] = <<q + Zero, d + Zero>> /\ Len(<<q + Zero, d + Zero>>) = 2
    <3> DEFINE x == q + Zero
               y == d + Zero
    <3>1. x \in Int /\ y \in Int /\ f[r] = Append(<<x>>, y)
      BY <2>2, <2>3, <2>4
    <3> HIDE DEF x, y
    <3>2. x \in Int /\ y \in Int
      BY <3>1
    <3>3. Append(<<x>>, y) = <<x, y>> /\ Len(<<x, y>>) = 2
      <4>1. Append(<<x>>, y) = <<x, y>>
        <5> DEFINE S == Int
        <5>1. x \in S /\ y \in S
          BY <3>2
        <5> HIDE DEF S
        <5>2. <<x>> \in Seq(S)
          BY <5>1
        <5>3. Append(<<x>>, y) = <<x>> \o <<y>>
          BY <5>1, <5>2, AppendIsConcat
        <5>4. <<x>> \o <<y>> = <<x, y>>
          BY <5>1, PairSeq
        <5>5. QED
          BY <5>3, <5>4
      <4>2. Len(<<x, y>>) = 2
        OBVIOUS
      <4>3. QED
        BY <4>1, <4>2
    <3>4. QED
      BY <3>1, <3>3 DEF x, y
  <2>6. int2str(r, 2) = [k \in 1 .. 0 |-> Zero] \o <<q + Zero, d + Zero>>
    <3>1. (IF 2 - Len(f[r]) > 0 THEN 2 - Len(f[r]) ELSE 0) = 0
      BY <2>5
    <3>2. QED
      BY <1>1, <2>5, <3>1
  <2>7. [k \in 1 .. 0 |-> Zero] = <<>>
    OBVIOUS
  <2>8. int2str(r, 2) = <<Zero + q, Zero + d>>
    <3>1. <<q + Zero, d + Zero>> \in Seq(Int)
      BY <2>4, PairSeq
    <3>2. <<>> \o <<q + Zero, d + Zero>> = <<q + Zero, d + Zero>>
      BY <3>1, ConcatEmptySeq
    <3>3. QED
      BY <2>4, <2>6, <2>7, <3>2
  <2>9. QED
    BY <2>8 DEF q, d
<1>9. QED
  BY <1>6, <1>7, <1>8

\* What ftoa writes reads as the number of hundredths, or as one less.
LEMMA FtoaReads ==
  ASSUME NEW n \in 0 .. UINT - 1, NEW s \in ftoa(n)
  PROVE  /\ s \in Seq(1 .. 127) /\ s # <<>>
         /\ Value(RemoveAt(s, Len(s) - 2), 10) \in {n, n - 1}
<1> DEFINE q == n \div 100
           m == n % 100
           l == IF m > 0 THEN m - 1 ELSE m
<1>0. n \in Nat /\ n =< UINT - 1 /\ UINT \in Nat /\ UINT >= 256 /\ UINT % 2 = 0
  BY NumbersAssumption
<1>1. q \in Nat /\ m \in 0 .. 99 /\ n = q * 100 + m /\ l \in 0 .. 99
  BY <1>0
<1>2. CDiv(n, 100) = q
  BY <1>0 DEF CDiv
<1>3. q \in Ints /\ q >= 0
  <2> DEFINE h == UINT \div 2
  <2>1. h \in Nat /\ UINT = 2 * h
    BY <1>0
  <2> HIDE DEF q, m, h
  <2>2. q \in Int /\ -h =< q /\ q =< h
    BY <1>0, <1>1, <2>1
  <2>3. QED
    BY <1>1, <2>2, IntsAreInt DEF h
<1> HIDE DEF q, m
<1>4. CRem(n, 100) = m
  BY <1>0, <1>1, <1>2 DEF CRem
<1>5. ftoa(n) = {int2str(q, 0) \o <<46>> \o int2str(r, 2) : r \in {m, l}}
  <2>1. (IF m > 0 THEN m - 1 ELSE IF m < 0 THEN m + 1 ELSE m) = l
    BY <1>1
  <2>2. QED
    BY <1>2, <1>4, <2>1, ZenonT(60) DEF ftoa
<1>6. PICK r \in {m, l} : s = int2str(q, 0) \o <<46>> \o int2str(r, 2)
  BY <1>5
<1>7. r \in 0 .. 99 /\ r \in {m, m - 1}
  BY <1>1
<1> DEFINE w == int2str(q, 0)
           a == Zero + (r \div 10)
           b == Zero + (r % 10)
<1>8. w \in Seq(Figures) /\ w \in Seq(Int) /\ w \in Seq(1 .. 127) /\ Value(w, 10) = q
  BY <1>3, Int2strWhole, FiguresInt
<1>9. /\ a \in 48 .. 57 /\ b \in 48 .. 57 /\ a \in Int /\ b \in Int
      /\ isdigit(a) /\ isdigit(b) /\ (a - 48) * 10 + (b - 48) = r
  BY <1>7 DEF Zero, isdigit
<1>10. s = (w \o <<46>>) \o <<a, b>>
  BY <1>6, <1>7, Int2strTwo
<1> HIDE DEF w, a, b
<1>11. /\ s \in Seq(1 .. 127) /\ Len(s) = Len(w) + 3 /\ Len(w) \in Nat /\ s # <<>>
       /\ \A k \in 1 .. Len(w) : s[k] = w[k]
       /\ s[Len(w) + 1] = 46 /\ s[Len(w) + 2] = a /\ s[Len(w) + 3] = b
  <2>1. <<46>> \in Seq(1 .. 127) /\ Len(<<46>>) = 1 /\ <<46>>[1] = 46
    OBVIOUS
  <2>2. <<a, b>> \in Seq(1 .. 127) /\ Len(<<a, b>>) = 2 /\ <<a, b>>[1] = a /\ <<a, b>>[2] = b
    BY <1>9
  <2>3. Len(w) \in Nat
    BY <1>8, LenProperties
  <2> DEFINE t == w \o <<46>>
             u == <<46>>
             v == <<a, b>>
  <2>4. s = t \o v /\ t = w \o u /\ u \in Seq(1 .. 127) /\ v \in Seq(1 .. 127)
    BY <1>10, <2>1, <2>2
  <2>5. Len(u) = 1 /\ u[1] = 46 /\ Len(v) = 2 /\ v[1] = a /\ v[2] = b
    BY <2>2
  <2> HIDE DEF t, u, v
  <2>6. /\ t \in Seq(1 .. 127) /\ Len(t) = Len(w) + 1 /\ Len(t) \in Nat
        /\ \A k \in 1 .. Len(w) : t[k] = w[k]
        /\ \A k \in 1 .. 1 : t[Len(w) + k] = u[k]
    <3>1. /\ w \o u \in Seq(1 .. 127) /\ Len(w \o u) = Len(w) + Len(u)
          /\ \A k \in 1 .. Len(w) : (w \o u)[k] = w[k]
          /\ \A k \in 1 .. Len(u) : (w \o u)[Len(w) + k] = u[k]
      BY <1>8, <2>4, Joined
    <3>2. QED
      BY <2>3, <2>4, <2>5, <3>1
  <2>7. /\ s \in Seq(1 .. 127) /\ Len(s) = Len(t) + 2
        /\ \A k \in 1 .. Len(t) : s[k] = t[k]
        /\ \A k \in 1 .. 2 : s[Len(t) + k] = v[k]
    <3>1. /\ t \o v \in Seq(1 .. 127) /\ Len(t \o v) = Len(t) + Len(v)
          /\ \A k \in 1 .. Len(t) : (t \o v)[k] = t[k]
          /\ \A k \in 1 .. Len(v) : (t \o v)[Len(t) + k] = v[k]
      <4>1. t \in Seq(1 .. 127) /\ v \in Seq(1 .. 127)
        BY <2>4, <2>6
      <4>2. QED
        BY <4>1, Joined
    <3>2. QED
      BY <2>4, <2>5, <3>1
  <2>8. \A k \in 1 .. Len(w) + 1 : s[k] = t[k]
    BY <2>6, <2>7
  <2>9. \A k \in 1 .. Len(w) : s[k] = w[k]
    BY <2>3, <2>6, <2>8
  <2>10. s[Len(w) + 1] = 46
    <3>1. Len(w) + 1 \in 1 .. Len(w) + 1
      BY <2>3
    <3>2. QED
      BY <2>5, <2>6, <2>8, <3>1
  <2>11. s[Len(w) + 2] = a /\ s[Len(w) + 3] = b
    <3>1. Len(w) + 2 = Len(t) + 1 /\ Len(w) + 3 = Len(t) + 2
      BY <2>3, <2>6
    <3>2. QED
      BY <2>5, <2>7, <3>1
  <2>12. Len(s) = Len(w) + 3 /\ s # <<>>
    <3>1. Len(s) = Len(w) + 3
      BY <2>3, <2>6, <2>7
    <3>2. QED
      BY <2>3, <2>7, <3>1, EmptySeq
  <2>13. QED
    BY <2>3, <2>7, <2>9, <2>10, <2>11, <2>12
<1> DEFINE z == Append(Append(w, a), b)
<1>12. RemoveAt(s, Len(s) - 2) = z
  <2> DEFINE n1 == Len(w)
             x == SubSeq(s, 1, n1)
             y == SubSeq(s, n1 + 2, n1 + 3)
  <2>1. n1 \in Nat /\ Len(s) = n1 + 3
    BY <1>11
  <2>2. RemoveAt(s, Len(s) - 2) = x \o y
    <3>1. Len(s) - 2 - 1 = n1 /\ Len(s) - 2 + 1 = n1 + 2
      BY <2>1
    <3>2. (Len(s) - 2) - 1 = n1 /\ (Len(s) - 2) + 1 = n1 + 2
      BY <2>1
    <3>3. QED
      BY <2>1, <3>2 DEF RemoveAt
  <2>3. x = w
    <3>1. /\ x \in Seq(1 .. 127) /\ Len(x) = n1 - 1 + 1
          /\ \A k \in 1 .. n1 - 1 + 1 : x[k] = s[1 + k - 1]
      BY <1>11, <2>1, Piece
    <3>2. QED
      BY <1>8, <1>11, <3>1, SeqEqual
  <2>4. y = <<a, b>>
    <3>1. y \in Seq(1 .. 127) /\ Len(y) = 2 /\ y[1] = s[n1 + 2] /\ y[2] = s[n1 + 3]
      <4>1. (n1 + 3) - (n1 + 2) + 1 = 2 /\ (n1 + 2) + 1 - 1 = n1 + 2 /\ (n1 + 2) + 2 - 1 = n1 + 3
        BY <2>1
      <4>2. n1 + 2 \in Int /\ n1 + 3 \in Int /\ 1 =< n1 + 2 /\ (n1 + 2) - 1 =< n1 + 3 /\ n1 + 3 =< Len(s)
        BY <2>1
      <4>3. /\ y \in Seq(1 .. 127) /\ Len(y) = (n1 + 3) - (n1 + 2) + 1
            /\ \A i \in 1 .. (n1 + 3) - (n1 + 2) + 1 : y[i] = s[(n1 + 2) + i - 1]
        <5> DEFINE m1 == n1 + 2
                   m2 == n1 + 3
        <5>1. m1 \in Int /\ m2 \in Int /\ 1 =< m1 /\ m1 - 1 =< m2 /\ m2 =< Len(s)
          BY <4>2
        <5> HIDE DEF m1, m2
        <5>2. /\ SubSeq(s, m1, m2) \in Seq(1 .. 127) /\ Len(SubSeq(s, m1, m2)) = m2 - m1 + 1
              /\ \A i \in 1 .. m2 - m1 + 1 : SubSeq(s, m1, m2)[i] = s[m1 + i - 1]
          <6>1. s \in Seq(1 .. 127)
            BY <1>11
          <6>2. QED
            BY <5>1, <6>1, Piece
        <5>3. QED
          BY <5>2 DEF m1, m2
      <4>4. QED
        BY <4>1, <4>3
    <3>2. y[1] = a /\ y[2] = b
      BY <1>11, <3>1
    <3>3. <<a, b>> \in Seq(1 .. 127) /\ Len(<<a, b>>) = 2 /\ <<a, b>>[1] = a /\ <<a, b>>[2] = b
      BY <1>9
    <3>4. \A i \in 1 .. 2 : y[i] = <<a, b>>[i]
      BY <3>2, <3>3
    <3> DEFINE v == <<a, b>>
    <3>5. v \in Seq(1 .. 127) /\ Len(v) = 2 /\ \A i \in 1 .. 2 : y[i] = v[i]
      BY <3>3, <3>4
    <3> HIDE DEF v
    <3>6. y = v
      BY <3>1, <3>5, SeqEqual
    <3>7. QED
      BY <3>6 DEF v
  <2>5. w \o <<a, b>> = z
    BY <1>8, <1>9
  <2>6. QED
    BY <2>2, <2>3, <2>4, <2>5
<1>13. Value(z, 10) = n + r - m
  <2>1. 10 \in Int
    OBVIOUS
  <2>2. Append(w, a) \in Seq(Int)
    BY <1>8, <1>9, AppendProperties
  <2>3. DigitValue(a) = a - 48 /\ DigitValue(b) = b - 48
    BY <1>9, DigitValueInt
  <2>4. Value(Append(w, a), 10) = q * 10 + (a - 48)
    BY <1>8, <1>9, <2>1, <2>3, ValueAppend
  <2> DEFINE v == Append(w, a)
  <2>5. Value(z, 10) = Value(v, 10) * 10 + (b - 48)
    <3>1. v \in Seq(Int) /\ b \in Int /\ z = Append(v, b)
      BY <1>9, <2>2
    <3> HIDE DEF v
    <3>2. Value(Append(v, b), 10) = Value(v, 10) * 10 + DigitValue(b)
      BY <2>1, <3>1, ValueAppend
    <3>3. QED
      BY <2>3, <3>1, <3>2
  <2>6. QED
    BY <1>1, <1>7, <1>9, <2>4, <2>5
<1>14. n + r - m \in {n, n - 1}
  BY <1>0, <1>1, <1>7
<1>15. QED
  BY <1>11, <1>12, <1>13, <1>14

-----------------------------------------------------------------------------
(* strhex.                                                                 *)

LEMMA ValueSteps ==
  ASSUME NEW s \in Seq(Int), NEW base \in Int
  PROVE  \E f : /\ f[0] = 0 /\ Value(s, base) = f[Len(s)]
                /\ \A k \in 0 .. Len(s) : f[k] \in Int
                /\ \A k \in 1 .. Len(s) : f[k] = f[k - 1] * base + DigitValue(s[k])
<1>1. Digits(s, base) \in [Int \X (1 .. Len(s)) -> Int] /\ Len(s) \in Nat
  BY DigitsType
<1>2. PICK f \in [0 .. Len(s) -> Int] : Steps(f, Len(s), Digits(s, base))
  BY <1>1, StepsExist
<1>3. \A k \in 0 .. Len(s) : f[k] \in Int
  BY <1>2
<1>4. ASSUME NEW k \in 1 .. Len(s) PROVE f[k] = f[k - 1] * base + DigitValue(s[k])
  <2>1. k - 1 \in 0 .. Len(s)
    BY <1>1
  <2>2. <<f[k - 1], k>> \in Int \X (1 .. Len(s))
    BY <1>3, <2>1
  <2>3. f[k] = Digits(s, base)[<<f[k - 1], k>>]
    BY <1>2 DEF Steps
  <2>4. QED
    BY <2>2, <2>3 DEF Digits
<1>5. f[0] = 0
  BY <1>2 DEF Steps
<1>6. Value(s, base) = f[Len(s)]
  BY <1>2, ValueIs
<1>7. QED
  BY <1>3, <1>4, <1>5, <1>6

\* A number without its last j - 1 hexadecimal digits.
Shift(n, j) == n \div Shifted[j]

LEMMA ShiftedIs ==
  /\ Shifted[1] = 1 /\ Shifted[2] = 16 /\ Shifted[3] = 256 /\ Shifted[4] = 4096
  /\ Shifted[5] = 65536 /\ Shifted[6] = 1048576 /\ Shifted[7] = 16777216
  /\ Shifted[8] = 268435456
BY DEF Shifted

LEMMA ShiftSteps ==
  ASSUME NEW n \in Nat
  PROVE  /\ Shift(n, 1) = n
         /\ \A j \in 1 .. 8 : Shift(n, j) \in Nat /\ Shift(n, j) % 16 \in 0 .. 15
         /\ \A j \in 1 .. 7 : Shift(n, j) = Shift(n, j + 1) * 16 + (Shift(n, j) % 16)
<1>1. Shift(n, 1) = n /\ Shift(n, 1) \in Nat
  BY ShiftedIs, SMT DEF Shift
<1>2. \A j \in 1 .. 7 : j = 1 \/ j = 2 \/ j = 3 \/ j = 4 \/ j = 5 \/ j = 6 \/ j = 7
  OBVIOUS
<1>3. \A j \in 1 .. 8 : j = 1 \/ j = 2 \/ j = 3 \/ j = 4 \/ j = 5 \/ j = 6 \/ j = 7 \/ j = 8
  OBVIOUS
<1>4. ASSUME NEW j \in 1 .. 8 PROVE Shift(n, j) \in Nat /\ Shift(n, j) % 16 \in 0 .. 15
  <2>1. Shift(n, j) \in Nat
    <3>1. Shifted[j] \in Nat \ {0}
      BY <1>3, ShiftedIs, SMT
    <3>2. PICK m \in Nat \ {0} : m = Shifted[j]
      BY <3>1
    <3>3. n \div m \in Nat
      OBVIOUS
    <3>4. QED
      BY <3>2, <3>3 DEF Shift
  <2>2. QED
    BY <2>1
<1>5. ASSUME NEW j \in 1 .. 7 PROVE Shift(n, j) = Shift(n, j + 1) * 16 + (Shift(n, j) % 16)
  <2>1. CASE j = 1
    <3>1. n \div 1 = (n \div 16) * 16 + ((n \div 1) % 16)
      BY SMT
    <3>2. QED
      BY <2>1, <3>1, ShiftedIs, SMT DEF Shift
  <2>2. CASE j = 2
    <3>1. n \div 16 = (n \div 256) * 16 + ((n \div 16) % 16)
      BY SMT
    <3>2. QED
      BY <2>2, <3>1, ShiftedIs, SMT DEF Shift
  <2>3. CASE j = 3
    <3>1. n \div 256 = (n \div 4096) * 16 + ((n \div 256) % 16)
      BY SMT
    <3>2. QED
      BY <2>3, <3>1, ShiftedIs, SMT DEF Shift
  <2>4. CASE j = 4
    <3>1. n \div 4096 = (n \div 65536) * 16 + ((n \div 4096) % 16)
      BY SMT
    <3>2. QED
      BY <2>4, <3>1, ShiftedIs, SMT DEF Shift
  <2>5. CASE j = 5
    <3>1. n \div 65536 = (n \div 1048576) * 16 + ((n \div 65536) % 16)
      BY SMT
    <3>2. QED
      BY <2>5, <3>1, ShiftedIs, SMT DEF Shift
  <2>6. CASE j = 6
    <3>1. n \div 1048576 = (n \div 16777216) * 16 + ((n \div 1048576) % 16)
      BY SMT
    <3>2. QED
      BY <2>6, <3>1, ShiftedIs, SMT DEF Shift
  <2>7. CASE j = 7
    <3>1. n \div 16777216 = (n \div 268435456) * 16 + ((n \div 16777216) % 16)
      BY SMT
    <3>2. QED
      BY <2>7, <3>1, ShiftedIs, SMT DEF Shift
  <2>8. QED
    BY <1>2, <2>1, <2>2, <2>3, <2>4, <2>5, <2>6, <2>7
<1>6. QED
  BY <1>1, <1>4, <1>5

LEMMA HexDigitReads ==
  ASSUME NEW d \in 0 .. 15
  PROVE  HexDigit(d) \in Figures \cup Letters /\ DigitValue(HexDigit(d)) = d
  BY DEF HexDigit, Zero, Figures, Letters, DigitValue, isdigit, islower, toupper

LEMMA ModOfSum ==
  /\ \A d, r \in Nat : r < 256 => (d * 256 + r) % 256 = r
  /\ \A d, r \in Nat : r < 65536 => (d * 65536 + r) % 65536 = r
<1>1. ASSUME NEW d \in Nat, NEW r \in Nat, r < 256 PROVE (d * 256 + r) % 256 = r
  <2>1. PICK x \in Nat : x = d * 256 + r
    BY SMT
  <2>2. x \div 256 \in Nat /\ x % 256 \in Nat /\ x % 256 < 256 /\ x = 256 * (x \div 256) + (x % 256)
    BY SMT
  <2>3. PICK q, m \in Nat : m = x % 256 /\ m < 256 /\ x = 256 * q + m
    BY <2>2, SMT
  <2>4. q = d
    <3>1. 256 * q + m = 256 * d + r /\ m < 256
      BY <2>1, <2>3, SMT
    <3>2. q < d + 1 /\ d < q + 1
      BY <1>1, <3>1, SMT
    <3>3. QED
      BY <3>2, SMT
  <2>5. QED
    BY <2>1, <2>3, <2>4, SMT
<1>2. ASSUME NEW d \in Nat, NEW r \in Nat, r < 65536 PROVE (d * 65536 + r) % 65536 = r
  <2>1. PICK x \in Nat : x = d * 65536 + r
    BY SMT
  <2>2. x \div 65536 \in Nat /\ x % 65536 \in Nat /\ x % 65536 < 65536 /\ x = 65536 * (x \div 65536) + (x % 65536)
    BY SMT
  <2>3. PICK q, m \in Nat : m = x % 65536 /\ m < 65536 /\ x = 65536 * q + m
    BY <2>2, SMT
  <2>4. q = d
    <3>1. 65536 * q + m = 65536 * d + r /\ m < 65536
      BY <2>1, <2>3, SMT
    <3>2. q < d + 1 /\ d < q + 1
      BY <1>2, <3>1, SMT
    <3>3. QED
      BY <3>2, SMT
  <2>5. QED
    BY <2>1, <2>3, <2>4, SMT
<1>3. QED
  BY <1>1, <1>2, SMT

LEMMA LowBytesIs ==
  ASSUME NEW n
  PROVE  LowBytes(n, 1) = n % 256 /\ LowBytes(n, 2) = n % 65536 /\ LowBytes(n, 4) = n
<1>1. 1 # 2 /\ 1 # 4 /\ 2 # 4
  OBVIOUS
<1>2. QED
  BY <1>1, SMT DEF LowBytes

\* strhex writes the bytes asked for, and they read as what those bytes hold.
LEMMA StrhexReads ==
  ASSUME NEW n \in 0 .. UINT - 1, NEW bytes \in {1, 2, 4}
  PROVE  /\ strhex(n, FALSE, bytes) \in Seq(Figures \cup Letters)
         /\ strhex(n, FALSE, bytes) # <<>>
         /\ Value(strhex(n, FALSE, bytes), 16) = LowBytes(n, bytes)
<1> DEFINE w == 2 * bytes
           s == [k \in 1 .. w |-> HexDigit(Shift(n, w - k + 1) % 16)]
           q(j) == Shift(n, j)
           r(j) == q(j) % 16
<1>1. n \in Nat /\ w \in {2, 4, 8} /\ w \in Nat /\ n =< UINT - 1
  BY NumbersAssumption
<1>2. /\ q(1) = n /\ \A j \in 1 .. 8 : q(j) \in Nat /\ r(j) \in 0 .. 15
      /\ \A j \in 1 .. 7 : q(j) = q(j + 1) * 16 + r(j)
  BY <1>1, ShiftSteps
<1> HIDE DEF q, r
<1>3. \A k \in 1 .. w : /\ (w - k) + 1 = w - k + 1 /\ w - k + 1 \in 1 .. 8
                        /\ HexDigit(r(w - k + 1)) \in Figures \cup Letters
                        /\ DigitValue(HexDigit(r(w - k + 1))) = r(w - k + 1)
  <2> TAKE k \in 1 .. w
  <2>1. w - k + 1 \in 1 .. 8 /\ (w - k) + 1 = w - k + 1
    BY <1>1
  <2>2. PICK j \in 1 .. 8 : j = w - k + 1
    BY <2>1
  <2>3. r(j) \in 0 .. 15
    BY <1>2
  <2>4. HexDigit(r(j)) \in Figures \cup Letters /\ DigitValue(HexDigit(r(j))) = r(j)
    BY <2>3, HexDigitReads
  <2>5. QED
    BY <2>1, <2>2, <2>4
<1>4. /\ s \in Seq(Figures \cup Letters) /\ s \in Seq(Int) /\ Len(s) = w /\ s # <<>>
      /\ \A k \in 1 .. w : DigitValue(s[k]) = r(w - k + 1)
  <2>1. \A k \in 1 .. w : s[k] = HexDigit(r(w - k + 1))
    BY <1>3 DEF q, r
  <2>2. s \in [1 .. w -> Figures \cup Letters]
    BY <1>3 DEF q, r
  <2> HIDE DEF s, w
  <2>3. s \in Seq(Figures \cup Letters) /\ Len(s) = w
    BY <1>1, <2>2, IsASeq, LenProperties
  <2>4. s # <<>>
    BY <1>1, <2>3, EmptySeq
  <2>5. \A k \in 1 .. w : DigitValue(s[k]) = r(w - k + 1)
    BY <1>3, <2>1
  <2>6. QED
    BY <2>3, <2>4, <2>5, FiguresInt
<1>5. strhex(n, FALSE, bytes) = s
  <2>1. strhex(n, FALSE, bytes) = <<>> \o s
    BY DEF strhex, Shift
  <2> HIDE DEF s
  <2>2. QED
    BY <1>4, <2>1, ConcatEmptySeq
<1> HIDE DEF s
<1>6. PICK f : /\ f[0] = 0 /\ Value(s, 16) = f[w]
               /\ \A k \in 0 .. w : f[k] \in Int
               /\ \A k \in 1 .. w : f[k] = f[k - 1] * 16 + r(w - k + 1)
  <2>1. 16 \in Int
    OBVIOUS
  <2>2. \E f : /\ f[0] = 0 /\ Value(s, 16) = f[Len(s)]
               /\ \A k \in 0 .. Len(s) : f[k] \in Int
               /\ \A k \in 1 .. Len(s) : f[k] = f[k - 1] * 16 + DigitValue(s[k])
    BY <1>4, <2>1, ValueSteps
  <2> HIDE DEF w
  <2>3. QED
    BY <1>4, <2>2
<1>7. SUFFICES Value(s, 16) = LowBytes(n, bytes)
  BY <1>4, <1>5, Zenon
<1>8. CASE bytes = 1
  <2>1. w = 2
    BY <1>8
  <2>2. f[1] = f[0] * 16 + r(2) /\ f[2] = f[1] * 16 + r(1)
    <3>1. /\ 1 \in 1 .. 2 /\ 2 \in 1 .. 2 /\ 1 - 1 = 0 /\ 2 - 1 = 1
          /\ 2 - 1 + 1 = 2 /\ 2 - 2 + 1 = 1
      OBVIOUS
    <3>2. f[1] = f[1 - 1] * 16 + r(2 - 1 + 1) /\ f[2] = f[2 - 1] * 16 + r(2 - 2 + 1)
      BY <1>6, <2>1, <3>1
    <3>3. QED
      BY <3>1, <3>2
  <2>3. q(1) = q(2) * 16 + r(1) /\ q(2) = q(3) * 16 + r(2) /\ q(3) \in Nat
    <3>1. 1 \in 1 .. 7 /\ 2 \in 1 .. 7 /\ 3 \in 1 .. 8 /\ 1 + 1 = 2 /\ 2 + 1 = 3
      OBVIOUS
    <3>2. q(1) = q(1 + 1) * 16 + r(1) /\ q(2) = q(2 + 1) * 16 + r(2)
      BY <1>2, <3>1
    <3>3. QED
      BY <1>2, <3>1, <3>2
  <2>4. r(1) \in 0 .. 15 /\ r(2) \in 0 .. 15 /\ q(2) \in Nat
    <3>1. 1 \in 1 .. 8 /\ 2 \in 1 .. 8
      OBVIOUS
    <3>2. QED
      BY <1>2, <3>1
  <2>5. PICK a, b \in 0 .. 15, c, d \in Nat : a = r(1) /\ b = r(2) /\ c = q(2) /\ d = q(3)
    BY <2>3, <2>4
  <2>6. f[2] = b * 16 + a /\ n = c * 16 + a /\ c = d * 16 + b
    BY <1>2, <1>6, <2>2, <2>3, <2>5
  <2>7. f[2] = n % 256
    <3>1. n = d * 256 + f[2] /\ f[2] \in Nat /\ f[2] < 256
      BY <2>5, <2>6
    <3>2. (d * 256 + f[2]) % 256 = f[2]
      BY <3>1, ModOfSum
    <3>3. QED
      BY <3>1, <3>2
  <2>8. QED
    <3>1. Value(s, 16) = n % 256
      BY <1>6, <2>1, <2>7
    <3>2. LowBytes(n, bytes) = n % 256
      BY <1>8, LowBytesIs, SMT
    <3>3. QED
      BY <3>1, <3>2, SMT
<1>9. CASE bytes = 2
  <2>1. w = 4
    BY <1>9
  <2>2. /\ f[1] = f[0] * 16 + r(4) /\ f[2] = f[1] * 16 + r(3)
        /\ f[3] = f[2] * 16 + r(2) /\ f[4] = f[3] * 16 + r(1)
    <3>1. /\ 1 \in 1 .. 4 /\ 2 \in 1 .. 4 /\ 3 \in 1 .. 4 /\ 4 \in 1 .. 4
          /\ 1 - 1 = 0 /\ 2 - 1 = 1 /\ 3 - 1 = 2 /\ 4 - 1 = 3
          /\ 4 - 1 + 1 = 4 /\ 4 - 2 + 1 = 3 /\ 4 - 3 + 1 = 2 /\ 4 - 4 + 1 = 1
      OBVIOUS
    <3>2. /\ f[1] = f[1 - 1] * 16 + r(4 - 1 + 1) /\ f[2] = f[2 - 1] * 16 + r(4 - 2 + 1)
          /\ f[3] = f[3 - 1] * 16 + r(4 - 3 + 1) /\ f[4] = f[4 - 1] * 16 + r(4 - 4 + 1)
      BY <1>6, <2>1, <3>1
    <3>3. QED
      BY <3>1, <3>2
  <2>3. /\ q(1) = q(2) * 16 + r(1) /\ q(2) = q(3) * 16 + r(2)
        /\ q(3) = q(4) * 16 + r(3) /\ q(4) = q(5) * 16 + r(4)
        /\ q(2) \in Nat /\ q(3) \in Nat /\ q(4) \in Nat /\ q(5) \in Nat
    <3>1. /\ 1 \in 1 .. 7 /\ 2 \in 1 .. 7 /\ 3 \in 1 .. 7 /\ 4 \in 1 .. 7
          /\ 2 \in 1 .. 8 /\ 3 \in 1 .. 8 /\ 4 \in 1 .. 8 /\ 5 \in 1 .. 8
          /\ 1 + 1 = 2 /\ 2 + 1 = 3 /\ 3 + 1 = 4 /\ 4 + 1 = 5
      OBVIOUS
    <3>2. /\ q(1) = q(1 + 1) * 16 + r(1) /\ q(2) = q(2 + 1) * 16 + r(2)
          /\ q(3) = q(3 + 1) * 16 + r(3) /\ q(4) = q(4 + 1) * 16 + r(4)
      BY <1>2, <3>1
    <3>3. QED
      BY <1>2, <3>1, <3>2
  <2>4. /\ r(1) \in 0 .. 15 /\ r(2) \in 0 .. 15
        /\ r(3) \in 0 .. 15 /\ r(4) \in 0 .. 15
    <3>1. 1 \in 1 .. 8 /\ 2 \in 1 .. 8 /\ 3 \in 1 .. 8 /\ 4 \in 1 .. 8
      OBVIOUS
    <3>2. QED
      BY <1>2, <3>1
  <2>5. PICK a, b, c, d \in 0 .. 15, x, y, z, u \in Nat :
          /\ a = r(1) /\ b = r(2) /\ c = r(3) /\ d = r(4)
          /\ x = q(2) /\ y = q(3) /\ z = q(4) /\ u = q(5)
    BY <2>3, <2>4
  <2>6. /\ f[1] = d /\ f[2] = f[1] * 16 + c /\ f[3] = f[2] * 16 + b /\ f[4] = f[3] * 16 + a
        /\ n = x * 16 + a /\ x = y * 16 + b /\ y = z * 16 + c /\ z = u * 16 + d
    BY <1>2, <1>6, <2>2, <2>3, <2>5
  <2>7. f[4] = n % 65536
    <3>1. f[4] = d * 4096 + c * 256 + b * 16 + a
      BY <2>5, <2>6
    <3>2. f[4] \in Nat /\ f[4] < 65536
      <4>1. PICK v \in Int : v = d * 4096 + c * 256 + b * 16 + a
        BY SMT
      <4>2. 0 =< v /\ v < 65536
        BY <4>1, SMT
      <4>3. QED
        BY <3>1, <4>1, <4>2, SMT
    <3>3. n = u * 65536 + f[4]
      <4>1. y = u * 256 + d * 16 + c
        BY <2>5, <2>6
      <4>2. n = y * 256 + b * 16 + a
        BY <2>5, <2>6
      <4>3. QED
        BY <2>5, <3>1, <4>1, <4>2
    <3>4. (u * 65536 + f[4]) % 65536 = f[4]
      BY <3>2, ModOfSum
    <3>5. QED
      BY <3>3, <3>4
  <2>8. QED
    <3>1. Value(s, 16) = n % 65536
      BY <1>6, <2>1, <2>7
    <3>2. LowBytes(n, bytes) = n % 65536
      BY <1>9, LowBytesIs, SMT
    <3>3. QED
      BY <3>1, <3>2, SMT
<1>10. CASE bytes = 4
  <2>1. w = 8
    BY <1>10
  <2>2. r(8) = q(8) /\ q(8) \in Nat
    <3>1. UINT - 1 \in Nat /\ (UINT - 1) \div 16 < 268435456
      BY NumbersAssumption, SMT
    <3>2. PICK u \in Nat : u = UINT - 1
      BY <3>1
    <3>3. n =< u /\ u \div 16 < 268435456
      BY <1>1, <3>1, <3>2, SMT
    <3>4. n \div 268435456 \in 0 .. 15
      <4>1. PICK a \in Nat, b \in 0 .. 15 : u = 16 * a + b /\ a < 268435456
        <5>1. u \div 16 \in Nat /\ u % 16 \in 0 .. 15 /\ u = 16 * (u \div 16) + (u % 16)
          BY SMT
        <5>2. QED
          BY <3>3, <5>1, SMT
      <4>2. PICK d \in Nat, e \in Nat : d = n \div 268435456 /\ n = 268435456 * d + e
        <5>1. /\ n \div 268435456 \in Nat /\ n % 268435456 \in Nat
              /\ n = 268435456 * (n \div 268435456) + (n % 268435456)
          BY <1>1, SMT
        <5>2. QED
          BY <5>1, SMT
      <4>3. d < 16
        BY <1>1, <3>3, <4>1, <4>2, SMT
      <4>4. QED
        BY <4>2, <4>3, SMT
    <3>5. q(8) = n \div 268435456
      BY ShiftedIs, SMT DEF q, Shift
    <3>6. r(8) = q(8) % 16
      BY DEF r
    <3>7. QED
      BY <3>4, <3>5, <3>6, SMT
  <2> DEFINE S == {k \in 0 .. 8 : k = 0 \/ f[k] = q(8 - k + 1)}
  <2>3. 0 \in S
    OBVIOUS
  <2>4. \A k \in 0 .. 8 - 1 : k \in S => k + 1 \in S
    <3> SUFFICES ASSUME NEW k \in 0 .. 7, k = 0 \/ f[k] = q(8 - k + 1)
                 PROVE  f[k + 1] = q(8 - (k + 1) + 1)
      OBVIOUS
    <3>1. k + 1 \in 1 .. w /\ (k + 1) - 1 = k /\ k \in 0 .. w /\ 8 - k \in 1 .. 8
      BY <2>1
    <3>2. 8 - (k + 1) + 1 = 8 - k /\ w - (k + 1) + 1 = 8 - k
      BY <2>1
    <3>3. f[k + 1] = f[k] * 16 + r(8 - k) /\ f[k] \in Int
      BY <1>6, <3>1, <3>2
    <3>4. CASE k = 0
      <4>1. 8 - k = 8
        BY <3>4
      <4>2. f[k + 1] = q(8)
        BY <1>6, <2>2, <3>3, <3>4, <4>1
      <4>3. QED
        BY <3>2, <4>1, <4>2
    <3>5. CASE k # 0
      <4>1. PICK j \in 1 .. 7 : j = 8 - k /\ 8 - k + 1 = j + 1
        BY <3>5
      <4>2. q(j) = q(j + 1) * 16 + r(j)
        BY <1>2
      <4>3. f[k] = q(j + 1)
        BY <3>5, <4>1
      <4>4. QED
        BY <3>2, <3>3, <4>1, <4>2, <4>3
    <3>6. QED
      BY <3>4, <3>5
  <2> HIDE DEF S
  <2>5. 0 .. 8 \subseteq S
    <3>1. 8 \in Nat
      OBVIOUS
    <3>2. QED
      BY <2>3, <2>4, <3>1, UpTo
  <2>6. f[8] = n
    <3>1. 8 \in S /\ 8 - 8 + 1 = 1 /\ 8 # 0
      BY <2>5
    <3>2. QED
      BY <1>2, <3>1 DEF S
  <2>7. QED
    <3>1. Value(s, 16) = n
      BY <1>6, <2>1, <2>6
    <3>2. LowBytes(n, bytes) = n
      BY <1>10, LowBytesIs, SMT
    <3>3. QED
      BY <3>1, <3>2, SMT
<1>11. QED
  BY <1>8, <1>9, <1>10

-----------------------------------------------------------------------------
(* The buffer.                                                             *)

Chars == 1 .. 127

\* The first cells of f are the characters of t; f holds the string t.
Begins(f, t) == /\ t \in Seq(Chars) /\ Len(t) < SIZE
                /\ \A k \in 1 .. Len(t) : f[k - 1] = t[k]
Holds(f, t) == Begins(f, t) /\ f[Len(t)] = NUL

LEMMA CharsOf ==
  ASSUME NEW t \in Seq(Chars)
  PROVE  /\ t \in Seq(Int) /\ Len(t) \in Nat
         /\ \A k \in 1 .. Len(t) : t[k] \in Chars /\ t[k] \in Int /\ t[k] >= 1 /\ t[k] # NUL
<1>1. Chars \subseteq Int /\ \A c \in Chars : c \in Int /\ c >= 1 /\ c # NUL
  BY DEF Chars, NUL
<1>2. t \in Seq(Int) /\ Len(t) \in Nat
  BY <1>1, SeqMonotonic, LenProperties
<1>3. \A k \in 1 .. Len(t) : t[k] \in Chars
  BY ElementOfSeq
<1>4. QED
  BY <1>1, <1>2, <1>3

LEMMA SizeIs ==
  SIZE \in Nat /\ SIZE >= 2 /\ \A i \in Int : i \in Cell <=> 0 =< i /\ i < SIZE
BY StringsAssumption DEF Cell

LEMMA EmptyHeld ==
  ASSUME NEW f
  PROVE  Begins(f, <<>>)
<1>1. <<>> \in Seq(Chars) /\ Len(<<>>) = 0 /\ 1 .. 0 = {}
  BY EmptySeq
<1>2. QED
  BY <1>1, SizeIs DEF Begins

\* A buffer's string ends at its first NUL.
LEMMA StrlenIs ==
  ASSUME NEW f, NEW t, Holds(f, t)
  PROVE  strlen(f) = Len(t) /\ Held(f) = t /\ memchr(f, NUL, SIZE) = {Len(t)}
<1> DEFINE n == Len(t)
<1>1. /\ t \in Seq(Chars) /\ n \in Nat /\ n < SIZE /\ f[n] = NUL /\ n \in Cell
      /\ \A k \in 1 .. n : f[k - 1] = t[k]
  BY CharsOf, SizeIs DEF Holds, Begins
<1>2. \A i \in 0 .. n - 1 : f[i] # NUL
  <2> TAKE i \in 0 .. n - 1
  <2>1. i + 1 \in 1 .. n /\ (i + 1) - 1 = i
    BY <1>1
  <2>2. f[i] = t[i + 1] /\ t[i + 1] # NUL
    BY <1>1, <2>1, CharsOf
  <2>3. QED
    BY <2>2
<1> HIDE DEF n
<1>3. strlen(f) = n
  <2> DEFINE Stops(m) == m \in Cell /\ f[m] = NUL /\ \A i \in 0 .. m - 1 : f[i] # NUL
  <2>1. Stops(n)
    BY <1>1, <1>2
  <2>2. ASSUME NEW m, Stops(m) PROVE m = n
    <3>1. m \in Nat
      BY <2>2, SizeIs DEF Cell
    <3>2. ~(m < n)
      <4> SUFFICES ASSUME m < n PROVE FALSE
        OBVIOUS
      <4>1. m \in 0 .. n - 1
        BY <1>1, <3>1
      <4>2. QED
        BY <1>2, <2>2, <4>1
    <3>3. ~(n < m)
      <4> SUFFICES ASSUME n < m PROVE FALSE
        OBVIOUS
      <4>1. n \in 0 .. m - 1
        BY <1>1, <3>1
      <4>2. QED
        BY <1>1, <2>2, <4>1
    <3>4. QED
      BY <1>1, <3>1, <3>2, <3>3
  <2>3. strlen(f) = CHOOSE m : Stops(m)
    BY DEF strlen
  <2> HIDE DEF Stops
  <2>4. Stops(strlen(f))
    BY <2>1, <2>3
  <2>5. QED
    BY <2>2, <2>4
<1>4. Held(f) = t
  <2>1. Held(f) = [k \in 1 .. n |-> f[k - 1]]
    BY <1>3 DEF Held
  <2>2. t \in [1 .. n -> Chars]
    BY <1>1, LenProperties DEF n
  <2>3. QED
    BY <1>1, <2>1, <2>2
<1>5. memchr(f, NUL, SIZE) = {n}
  <2> DEFINE at == {i \in Cell : i < SIZE /\ f[i] = NUL}
  <2>1. n \in at
    BY <1>1
  <2>2. \A i \in at : i \in Nat /\ n =< i
    <3> SUFFICES ASSUME NEW i \in at PROVE i \in Nat /\ n =< i
      OBVIOUS
    <3>1. i \in Nat /\ f[i] = NUL
      BY SizeIs DEF Cell
    <3>2. ~(i \in 0 .. n - 1)
      BY <1>2, <3>1
    <3>3. QED
      BY <1>1, <3>1, <3>2
  <2>3. memchr(f, NUL, SIZE) = {i \in at : \A j \in at : i =< j}
    BY DEF memchr
  <2> HIDE DEF at
  <2>4. \A i \in at : (\A j \in at : i =< j) => i = n
    BY <1>1, <2>1, <2>2
  <2>5. QED
    BY <2>1, <2>2, <2>3, <2>4
<1>6. QED
  BY <1>3, <1>4, <1>5 DEF n

LEMMA PutCell ==
  ASSUME NEW f, NEW at \in Nat, NEW p, Len(p) \in Nat, NEW i \in Cell
  PROVE  /\ at =< i /\ i < at + Len(p) => Put(f, at, p)[i] = p[i - at + 1]
         /\ i < at \/ at + Len(p) =< i => Put(f, at, p)[i] = f[i]
<1> DEFINE m == Len(p)
<1>1. i \in Nat /\ m \in Nat
  BY SizeIs DEF Cell
<1>2. Put(f, at, p)[i] = IF i - at \in 0 .. m - 1 THEN p[i - at + 1] ELSE f[i]
  BY DEF Put
<1> HIDE DEF m
<1>3. i - at \in 0 .. m - 1 <=> at =< i /\ i < at + m
  BY <1>1
<1>4. QED
  BY <1>1, <1>2, <1>3 DEF m

\* u is written behind t, with or without its NUL: without, there must have been one.
LEMMA Appended ==
  ASSUME NEW f, NEW t, Begins(f, t), NEW u \in Seq(Chars), NEW p,
         Len(t) + Len(u) < SIZE,
         \/ Len(p) = Len(u) /\ f[Len(t) + Len(u)] = NUL
         \/ Len(p) = Len(u) + 1 /\ p[Len(p)] = NUL,
         \A k \in 1 .. Len(u) : p[k] = u[k]
  PROVE  Holds(Put(f, Len(t), p), t \o u)
<1> DEFINE n == Len(t)
           m == Len(u)
           g == Put(f, n, p)
           v == t \o u
<1>1. /\ t \in Seq(Chars) /\ n \in Nat /\ m \in Nat /\ n + m < SIZE
      /\ \A k \in 1 .. n : f[k - 1] = t[k]
  BY CharsOf DEF Begins
<1>2. Len(p) \in Nat /\ Len(p) \in {m, m + 1}
  BY <1>1
<1>3. /\ v \in Seq(Chars) /\ Len(v) = n + m
      /\ \A k \in 1 .. n : v[k] = t[k]
      /\ \A k \in 1 .. m : v[n + k] = u[k]
  BY <1>1, Joined
<1>4. \A i \in Cell : /\ n =< i /\ i < n + Len(p) => g[i] = p[i - n + 1]
                      /\ i < n \/ n + Len(p) =< i => g[i] = f[i]
  BY <1>1, <1>2, PutCell
<1>5. /\ \A k \in 1 .. m : p[k] = u[k]
      /\ \/ Len(p) = m /\ f[n + m] = NUL
         \/ Len(p) = m + 1 /\ p[m + 1] = NUL
  <2>1. \/ Len(p) = m /\ f[n + m] = NUL
        \/ Len(p) = m + 1 /\ p[Len(p)] = NUL
    OBVIOUS
  <2> HIDE DEF n, m, g, v
  <2>2. QED
    BY <2>1 DEF m
<1> HIDE DEF n, m, g, v
<1>6. \A k \in 1 .. n + m : g[k - 1] = v[k]
  <2> TAKE k \in 1 .. n + m
  <2>1. k - 1 \in Cell /\ k \in Int
    BY <1>1, SizeIs
  <2>2. CASE k =< n
    <3>1. k - 1 < n /\ k \in 1 .. n
      BY <1>1, <2>2
    <3>2. QED
      BY <1>1, <1>3, <1>4, <2>1, <3>1
  <2>3. CASE k > n
    <3>1. PICK j \in 1 .. m : k = n + j
      <4>1. k - n \in 1 .. m /\ k = n + (k - n)
        BY <1>1, <2>3
      <4>2. QED
        BY <4>1
    <3>2. n =< k - 1 /\ k - 1 < n + Len(p) /\ k - 1 - n + 1 = j /\ (k - 1) - n + 1 = j
      BY <1>1, <1>2, <3>1
    <3>3. g[k - 1] = p[j]
      BY <1>4, <2>1, <3>2
    <3>4. QED
      BY <1>3, <1>5, <3>1, <3>3
  <2>4. QED
    BY <1>1, <2>1, <2>2, <2>3
<1>7. g[n + m] = NUL
  <2>1. n + m \in Cell /\ n =< n + m /\ (n + m) - n + 1 = m + 1
    BY <1>1, SizeIs
  <2>2. CASE Len(p) = m /\ f[n + m] = NUL
    <3>1. n + Len(p) =< n + m
      BY <1>1, <2>2
    <3>2. QED
      BY <1>4, <2>1, <2>2, <3>1
  <2>3. CASE Len(p) = m + 1 /\ p[m + 1] = NUL
    <3>1. n + m < n + Len(p)
      BY <1>1, <2>3
    <3>2. QED
      BY <1>4, <2>1, <2>3, <3>1
  <2>4. QED
    BY <1>5, <2>2, <2>3
<1>8. Holds(g, v)
  BY <1>1, <1>3, <1>6, <1>7 DEF Holds, Begins
<1>9. QED
  BY <1>8 DEF g, v, n

\* The same from the first cell on.
LEMMA Replaces ==
  ASSUME NEW f, NEW u \in Seq(Chars), NEW p, Len(u) < SIZE,
         \/ Len(p) = Len(u) /\ f[Len(u)] = NUL
         \/ Len(p) = Len(u) + 1 /\ p[Len(p)] = NUL,
         \A k \in 1 .. Len(u) : p[k] = u[k]
  PROVE  Holds(Put(f, 0, p), u)
<1> DEFINE t == <<>>
<1>1. Begins(f, t) /\ Len(t) = 0
  BY EmptyHeld
<1>2. t \o u = u
  BY ConcatEmptySeq
<1>3. Len(u) \in Nat /\ Len(t) + Len(u) = Len(u)
  BY <1>1, CharsOf
<1> HIDE DEF t
<1>4. Holds(Put(f, Len(t), p), t \o u)
  BY <1>1, <1>3, Appended
<1>5. QED
  BY <1>1, <1>2, <1>4

\* The string that is left when an operation leaves one: after each of them in turn.
LEMMA ClearHolds ==
  ASSUME Clear
  PROVE  Holds(buf', text')
<1>1. buf' = memset(buf, NUL, SIZE) /\ text' = <<>>
  BY DEF Clear
<1>2. 0 \in Cell /\ SIZE \in Nat /\ SIZE >= 2
  BY SizeIs
<1>3. memset(buf, NUL, SIZE)[0] = NUL
  <2> DEFINE w == 4 * (SIZE \div 4)
  <2>1. w \in Nat /\ (0 < w \/ (SIZE % 4 >= 1 /\ w = 0)) /\ SIZE % 4 \in Nat
    BY <1>2
  <2>2. memset(buf, NUL, SIZE)[0] = IF 0 < w \/ 0 - w \in 0 .. (SIZE % 4) - 1 THEN NUL ELSE buf[0]
    BY <1>2 DEF memset
  <2> HIDE DEF w
  <2>3. 0 < w \/ 0 - w \in 0 .. (SIZE % 4) - 1
    BY <2>1
  <2>4. QED
    BY <2>2, <2>3
<1>4. Len(<<>>) = 0
  OBVIOUS
<1>5. QED
  BY <1>1, <1>3, <1>4, EmptyHeld DEF Holds

LEMMA SlipNone ==
  ASSUME NEW name, NEW condition, Slip(name, condition), slips' = {}
  PROVE  ~condition
<1> SUFFICES ASSUME condition PROVE FALSE
  OBVIOUS
<1>1. name \in slips'
  BY DEF Slip
<1>2. QED
  BY <1>1

LEMMA StrcatHolds ==
  ASSUME Holds(buf, text), NEW s \in Words, Strcat(s), slips' = {}
  PROVE  Holds(buf', text')
<1>1. s \in Seq(Chars) /\ strlen(buf) = Len(text) /\ Begins(buf, text)
  BY StringsAssumption, StrlenIs DEF Chars, Holds
<1>2. /\ Len(text) + Len(s) < SIZE /\ buf' = Put(buf, Len(text), s) /\ text' = text \o s
      /\ Slip("not_ended", buf[Len(text) + Len(s)] # NUL)
  BY <1>1 DEF Strcat
<1>3. buf[Len(text) + Len(s)] = NUL
  BY <1>2, SlipNone
<1>4. Holds(Put(buf, Len(text), s), text \o s)
  BY <1>1, <1>2, <1>3, Appended
<1>5. QED
  BY <1>2, <1>4

\* The first n of the characters of s and its NUL.
LEMMA FirstOf ==
  ASSUME NEW s \in Seq(Chars), NEW n \in 0 .. Len(s) + 1
  PROVE  /\ Len(First(Append(s, NUL), n)) = n
         /\ \A k \in 1 .. n : First(Append(s, NUL), n)[k] = Append(s, NUL)[k]
         /\ \A k \in 1 .. Len(s) : Append(s, NUL)[k] = s[k]
         /\ Append(s, NUL)[Len(s) + 1] = NUL
         /\ n =< Len(s) => /\ First(s, n) \in Seq(Chars) /\ Len(First(s, n)) = n
                           /\ \A k \in 1 .. n : First(s, n)[k] = s[k]
         /\ n = Len(s) + 1 => First(s, n) = s
<1>1. s \in Seq(Int) /\ Len(s) \in Nat /\ n \in Nat
  BY CharsOf
<1> DEFINE a == Append(s, NUL)
<1>2. /\ a \in Seq(Int) /\ Len(a) = Len(s) + 1 /\ a[Len(s) + 1] = NUL
      /\ \A k \in 1 .. Len(s) : a[k] = s[k]
  BY <1>1, AppendProperties DEF NUL
<1> HIDE DEF a
<1>3. First(a, n) = SubSeq(a, 1, n)
  <2>1. n =< Len(a)
    BY <1>2
  <2>2. QED
    BY <2>1 DEF First
<1>4. Len(SubSeq(a, 1, n)) = n /\ \A k \in 1 .. n : SubSeq(a, 1, n)[k] = a[k]
  <2>1. 1 \in Int /\ n \in Int /\ 1 =< 1 /\ 1 - 1 =< n /\ n =< Len(a)
    BY <1>1, <1>2
  <2>2. /\ Len(SubSeq(a, 1, n)) = n - 1 + 1
        /\ \A k \in 1 .. n - 1 + 1 : SubSeq(a, 1, n)[k] = a[1 + k - 1]
    BY <1>2, <2>1, Piece
  <2>3. n - 1 + 1 = n /\ \A k \in 1 .. n : 1 + k - 1 = k
    BY <1>1
  <2>4. QED
    BY <2>2, <2>3
<1>5. ASSUME n =< Len(s)
      PROVE  /\ First(s, n) \in Seq(Chars) /\ Len(First(s, n)) = n
             /\ \A k \in 1 .. n : First(s, n)[k] = s[k]
  <2>1. 1 \in Int /\ n \in Int /\ 1 =< 1 /\ 1 - 1 =< n /\ n =< Len(s)
    BY <1>1, <1>5
  <2>2. /\ SubSeq(s, 1, n) \in Seq(Chars) /\ Len(SubSeq(s, 1, n)) = n - 1 + 1
        /\ \A k \in 1 .. n - 1 + 1 : SubSeq(s, 1, n)[k] = s[1 + k - 1]
    BY <2>1, Piece
  <2>3. n - 1 + 1 = n /\ \A k \in 1 .. n : 1 + k - 1 = k
    BY <1>1
  <2>4. First(s, n) = SubSeq(s, 1, n)
    BY <1>5 DEF First
  <2>5. QED
    BY <2>2, <2>3, <2>4
<1>6. ASSUME n = Len(s) + 1 PROVE First(s, n) = s
  <2>1. First(s, n) = SubSeq(s, 1, Len(s))
    <3>1. ~(n =< Len(s))
      BY <1>1, <1>6
    <3>2. QED
      BY <3>1 DEF First
  <2>2. SubSeq(s, 1, Len(s)) = s
    BY SubSeqFull
  <2>3. QED
    BY <2>1, <2>2
<1>7. QED
  BY <1>2, <1>3, <1>4, <1>5, <1>6 DEF a

LEMMA StrncatHolds ==
  ASSUME Holds(buf, text), NEW s \in Words, NEW n, Strncat(s, n), slips' = {}
  PROVE  Holds(buf', text')
<1>1. s \in Seq(Chars) /\ strlen(buf) = Len(text) /\ Begins(buf, text) /\ text \in Seq(Chars)
  BY StringsAssumption, StrlenIs DEF Chars, Holds, Begins
<1> DEFINE p == First(Append(s, NUL), n)
           u == First(s, n)
<1>2. /\ n \in 0 .. Len(s) + 1 /\ Len(text) + n < SIZE
      /\ buf' = Put(buf, Len(text), p) /\ text' = text \o u
      /\ Slip("not_ended", n =< Len(s) /\ buf[Len(text) + n] # NUL)
  BY <1>1 DEF Strncat
<1>3. n =< Len(s) => buf[Len(text) + n] = NUL
  BY <1>2, SlipNone
<1>4. Len(s) \in Nat /\ n \in Nat /\ Len(text) \in Nat
  BY <1>1, <1>2, CharsOf
<1>5. /\ Len(p) = n /\ \A k \in 1 .. n : p[k] = Append(s, NUL)[k]
      /\ \A k \in 1 .. Len(s) : Append(s, NUL)[k] = s[k]
      /\ Append(s, NUL)[Len(s) + 1] = NUL
      /\ n =< Len(s) => u \in Seq(Chars) /\ Len(u) = n /\ \A k \in 1 .. n : u[k] = s[k]
      /\ n = Len(s) + 1 => u = s
  BY <1>1, <1>2, FirstOf
<1> HIDE DEF p, u
<1>6. CASE n =< Len(s)
  <2>1. \A k \in 1 .. n : p[k] = u[k]
    BY <1>4, <1>5, <1>6
  <2>2. Holds(Put(buf, Len(text), p), text \o u)
    BY <1>1, <1>2, <1>3, <1>5, <1>6, <2>1, Appended
  <2>3. QED
    BY <1>2, <2>2
<1>7. CASE n = Len(s) + 1
  <2>1. /\ \A k \in 1 .. Len(u) : p[k] = u[k]
        /\ Len(p) = Len(u) + 1 /\ p[Len(p)] = NUL /\ u \in Seq(Chars)
    <3>1. u = s /\ Len(p) = Len(s) + 1 /\ u \in Seq(Chars)
      BY <1>1, <1>5, <1>7
    <3>2. Len(s) + 1 \in 1 .. n /\ \A k \in 1 .. Len(s) : k \in 1 .. n
      BY <1>4, <1>7
    <3>3. p[Len(s) + 1] = NUL /\ \A k \in 1 .. Len(s) : p[k] = s[k]
      BY <1>5, <3>2
    <3>4. QED
      BY <3>1, <3>3
  <2>2. Len(text) + Len(u) < SIZE
    <3>1. Len(u) = Len(s)
      BY <1>5, <1>7
    <3>2. Len(text) + Len(s) < SIZE
      BY <1>2, <1>4, <1>7, SizeIs
    <3>3. QED
      BY <3>1, <3>2
  <2>3. Holds(Put(buf, Len(text), p), text \o u)
    BY <1>1, <2>1, <2>2, Appended
  <2>4. QED
    BY <1>2, <2>3
<1>8. QED
  BY <1>2, <1>4, <1>6, <1>7

LEMMA StrcpyHolds ==
  ASSUME NEW s \in Words, Strcpy(s), slips' = {}
  PROVE  Holds(buf', text')
<1>1. s \in Seq(Chars)
  BY StringsAssumption DEF Chars
<1>2. /\ Len(s) < SIZE /\ buf' = Put(buf, 0, s) /\ text' = s
      /\ Slip("shorter", buf[Len(s)] # NUL)
  BY DEF Strcpy
<1>3. buf[Len(s)] = NUL
  BY <1>2, SlipNone
<1>4. Holds(Put(buf, 0, s), s)
  BY <1>1, <1>2, <1>3, Replaces
<1>5. QED
  BY <1>2, <1>4

LEMMA StrncpyHolds ==
  ASSUME Holds(buf, text), NEW s \in Words, NEW n, Strncpy(s, n), slips' = {}
  PROVE  Holds(buf', text')
<1> DEFINE p == First(Append(s, NUL), n)
           u == First(s, n)
           L == Len(text)
<1>1. s \in Seq(Chars) /\ Begins(buf, text) /\ text \in Seq(Chars) /\ L < SIZE /\ buf[L] = NUL
  BY StringsAssumption DEF Chars, Holds, Begins
<1>2. /\ n \in 0 .. Len(s) + 1 /\ n < SIZE
      /\ buf' = Put(buf, 0, p)
      /\ text' = IF n > Len(s) THEN s ELSE u \o SubSeq(text, n + 1, L)
      /\ Slip("not_ended", n > L /\ n =< Len(s) /\ buf[n] # NUL)
  BY DEF Strncpy
<1>3. n > L /\ n =< Len(s) => buf[n] = NUL
  BY <1>2, SlipNone
<1>4. Len(s) \in Nat /\ n \in Nat /\ L \in Nat
  BY <1>1, <1>2, CharsOf
<1>5. /\ Len(p) = n /\ \A k \in 1 .. n : p[k] = Append(s, NUL)[k]
      /\ \A k \in 1 .. Len(s) : Append(s, NUL)[k] = s[k]
      /\ Append(s, NUL)[Len(s) + 1] = NUL
      /\ n =< Len(s) => u \in Seq(Chars) /\ Len(u) = n /\ \A k \in 1 .. n : u[k] = s[k]
  BY <1>1, <1>2, FirstOf
<1> HIDE DEF p, u
<1>6. CASE n = Len(s) + 1
  <2>1. Len(s) + 1 \in 1 .. n /\ \A k \in 1 .. Len(s) : k \in 1 .. n
    BY <1>4, <1>6
  <2>2. p[Len(s) + 1] = NUL /\ \A k \in 1 .. Len(s) : p[k] = s[k]
    BY <1>5, <2>1
  <2>3. Len(p) = Len(s) + 1 /\ Len(s) < SIZE /\ n > Len(s)
    BY <1>2, <1>4, <1>5, <1>6, SizeIs
  <2>4. Holds(Put(buf, 0, p), s)
    BY <1>1, <2>2, <2>3, Replaces
  <2>5. QED
    BY <1>2, <2>3, <2>4
<1>7. CASE n =< Len(s)
  <2>1. \A k \in 1 .. n : p[k] = u[k]
    BY <1>4, <1>5, <1>7
  <2> DEFINE r == SubSeq(text, n + 1, L)
  <2>2. text' = u \o r
    BY <1>2, <1>4, <1>7
  <2>3. CASE n > L
    <3>1. r = <<>>
      <4>1. n + 1 \in Int /\ L \in Int /\ L < n + 1
        BY <1>4, <2>3
      <4>2. QED
        BY <4>1, SubSeqEmpty
    <3>2. text' = u
      BY <1>5, <1>7, <2>2, <3>1, ConcatEmptySeq
    <3>3. Holds(Put(buf, 0, p), u)
      BY <1>2, <1>3, <1>5, <1>7, <2>1, <2>3, Replaces
    <3>4. QED
      BY <1>2, <3>2, <3>3
  <2>4. CASE n =< L
    <3>1. r \in Seq(Chars) /\ Len(r) = L - n /\ \A i \in 1 .. L - n : r[i] = text[n + i]
      <4> DEFINE m == n + 1
      <4>1. m \in Int /\ L \in Int /\ 1 =< m /\ m - 1 =< L /\ L =< Len(text) /\ L - m + 1 = L - n
        BY <1>4, <2>4
      <4>2. \A i \in 1 .. L - n : m + i - 1 = n + i
        BY <1>4
      <4> HIDE DEF m
      <4>3. /\ SubSeq(text, m, L) \in Seq(Chars) /\ Len(SubSeq(text, m, L)) = L - m + 1
            /\ \A i \in 1 .. L - m + 1 : SubSeq(text, m, L)[i] = text[m + i - 1]
        BY <1>1, <4>1, Piece
      <4>4. QED
        BY <4>1, <4>2, <4>3 DEF m
    <3> HIDE DEF r
    <3> DEFINE v == u \o r
               g == Put(buf, 0, p)
    <3>2. /\ v \in Seq(Chars) /\ Len(v) = n + (L - n)
          /\ \A k \in 1 .. n : v[k] = u[k]
          /\ \A k \in 1 .. L - n : v[n + k] = r[k]
      <4>1. u \in Seq(Chars) /\ Len(u) = n
        BY <1>5, <1>7
      <4>2. r \in Seq(Chars) /\ Len(r) = L - n
        BY <3>1
      <4>3. /\ u \o r \in Seq(Chars) /\ Len(u \o r) = Len(u) + Len(r)
            /\ \A k \in 1 .. Len(u) : (u \o r)[k] = u[k]
            /\ \A k \in 1 .. Len(r) : (u \o r)[Len(u) + k] = r[k]
        <5>1. u \in Seq(Chars) /\ r \in Seq(Chars)
          BY <4>1, <4>2
        <5> HIDE DEF v
        <5>2. QED
          BY <5>1, Joined
      <4>4. QED
        BY <4>1, <4>2, <4>3
    <3>3. \A i \in Cell : (i < n => g[i] = p[i + 1]) /\ (n =< i => g[i] = buf[i])
      <4>1. 0 \in Nat /\ Len(p) \in Nat /\ Len(p) = n
        BY <1>4, <1>5
      <4>2. TAKE i \in Cell
      <4>3. /\ 0 =< i /\ i < 0 + Len(p) => Put(buf, 0, p)[i] = p[i - 0 + 1]
            /\ i < 0 \/ 0 + Len(p) =< i => Put(buf, 0, p)[i] = buf[i]
        BY <4>1, PutCell, ZenonT(30)
      <4>4. i \in Int /\ 0 =< i /\ i - 0 + 1 = i + 1 /\ 0 + Len(p) = n /\ n \in Int
        BY <1>4, <4>1, SizeIs DEF Cell
      <4>5. p[i - 0 + 1] = p[i + 1]
        BY <4>4
      <4>6. ASSUME i < n PROVE g[i] = p[i + 1]
        <5>1. i < 0 + Len(p)
          BY <4>4, <4>6
        <5>2. QED
          BY <4>3, <4>4, <4>5, <5>1
      <4>7. ASSUME n =< i PROVE g[i] = buf[i]
        <5>1. 0 + Len(p) =< i
          BY <4>4, <4>7
        <5>2. QED
          BY <4>3, <5>1
      <4>8. QED
        BY <4>6, <4>7
    <3> HIDE DEF v, g
    <3>4. Len(v) = L
      BY <1>4, <3>2
    <3>5. \A k \in 1 .. L : g[k - 1] = v[k]
      <4> TAKE k \in 1 .. L
      <4>1. k - 1 \in Cell /\ (k - 1) + 1 = k
        BY <1>1, <1>4, SizeIs
      <4>2. CASE k =< n
        <5>1. k \in 1 .. n /\ k - 1 < n
          BY <1>4, <4>2
        <5>2. g[k - 1] = p[k]
          BY <3>3, <4>1, <5>1
        <5>3. QED
          BY <2>1, <3>2, <5>1, <5>2
      <4>3. CASE k > n
        <5>1. n =< k - 1 /\ k - n \in 1 .. L - n /\ n + (k - n) = k
          BY <1>4, <4>3
        <5>2. g[k - 1] = buf[k - 1]
          BY <3>3, <4>1, <5>1
        <5>3. v[k] = text[k]
          BY <3>1, <3>2, <5>1
        <5>4. buf[k - 1] = text[k]
          BY <1>1 DEF Begins
        <5>5. QED
          BY <5>2, <5>3, <5>4
      <4>4. QED
        BY <1>4, <4>2, <4>3
    <3>6. g[L] = NUL
      <4>1. L \in Cell /\ n =< L
        BY <1>1, <1>4, <2>4, SizeIs
      <4>2. QED
        BY <1>1, <3>3, <4>1
    <3>7. Holds(g, v)
      BY <1>1, <3>2, <3>4, <3>5, <3>6 DEF Holds, Begins
    <3>8. QED
      BY <1>2, <2>2, <3>7 DEF g, v
  <2>5. QED
    BY <1>4, <2>3, <2>4
<1>8. QED
  BY <1>2, <1>4, <1>6, <1>7

LEMMA StraddHolds ==
  ASSUME Holds(buf, text), NEW c \in Alphabet, Stradd(c)
  PROVE  Holds(buf', text')
<1>1. c \in Chars /\ strlen(buf) = Len(text) /\ Begins(buf, text) /\ text \in Seq(Chars)
  BY StringsAssumption, StrlenIs DEF Chars, Holds, Begins
<1> DEFINE u == <<c>>
           p == <<c, NUL>>
<1>2. Len(text) + 1 < SIZE /\ buf' = Put(buf, Len(text), p) /\ text' = Append(text, c)
  BY <1>1 DEF Stradd
<1>3. u \in Seq(Chars) /\ Len(u) = 1 /\ u[1] = c
  BY <1>1, OneSeq
<1>4. Len(p) = 2 /\ p[1] = c /\ p[2] = NUL
  OBVIOUS
<1>5. text' = text \o u
  BY <1>1, <1>2, AppendIsConcat
<1> HIDE DEF u, p
<1>6. \A k \in 1 .. Len(u) : p[k] = u[k]
  BY <1>3, <1>4
<1>7. Holds(Put(buf, Len(text), p), text \o u)
  <2>1. Len(text) + Len(u) < SIZE /\ Len(p) = Len(u) + 1 /\ p[Len(p)] = NUL
    BY <1>2, <1>3, <1>4
  <2>2. QED
    BY <1>1, <1>3, <1>6, <2>1, Appended
<1>8. QED
  BY <1>2, <1>5, <1>7

\* What strlwr and strupr do: every character in its place is made another one.
LEMMA InPlaceHolds ==
  ASSUME Holds(buf, text), NEW g \in [Chars -> Chars],
         buf' = InPlace(buf, [k \in 1 .. strlen(buf) |-> g[buf[k - 1]]]),
         text' = [k \in 1 .. Len(text) |-> g[text[k]]]
  PROVE  Holds(buf', text')
<1>1. /\ strlen(buf) = Len(text) /\ text \in Seq(Chars) /\ Len(text) < SIZE /\ buf[Len(text)] = NUL
      /\ \A k \in 1 .. Len(text) : buf[k - 1] = text[k]
  BY StrlenIs DEF Holds, Begins
<1> DEFINE L == Len(text)
           u == [k \in 1 .. L |-> g[text[k]]]
<1>2. L \in Nat /\ \A k \in 1 .. L : text[k] \in Chars
  BY <1>1, CharsOf
<1>3. buf' = Put(buf, 0, [k \in 1 .. L |-> g[buf[k - 1]]]) /\ text' = u
  BY <1>1 DEF InPlace
<1>4. [k \in 1 .. L |-> g[buf[k - 1]]] = u
  BY <1>1
<1>5. u \in [1 .. L -> Chars]
  BY <1>2
<1> HIDE DEF L, u
<1>6. u \in Seq(Chars) /\ Len(u) = L
  BY <1>2, <1>5, IsASeq, LenProperties
<1>7. Holds(Put(buf, 0, u), u)
  BY <1>1, <1>6, Replaces DEF L
<1>8. QED
  BY <1>3, <1>4, <1>7

LEMMA CasesOfChars ==
  \A c \in Chars : tolower(c) \in Chars /\ toupper(c) \in Chars
BY DEF Chars, tolower, toupper, isupper, islower

LEMMA StrlwrHolds ==
  ASSUME Holds(buf, text), Strlwr
  PROVE  Holds(buf', text')
<1> DEFINE g == [c \in Chars |-> tolower(c)]
<1>1. g \in [Chars -> Chars] /\ \A c \in Chars : g[c] = tolower(c)
  BY CasesOfChars
<1>2. /\ strlen(buf) = Len(text) /\ \A k \in 1 .. Len(text) : text[k] \in Chars /\ buf[k - 1] = text[k]
  BY StrlenIs, CharsOf DEF Holds, Begins
<1> HIDE DEF g
<1>3. /\ buf' = InPlace(buf, [k \in 1 .. strlen(buf) |-> g[buf[k - 1]]])
      /\ text' = [k \in 1 .. Len(text) |-> g[text[k]]]
  <2>1. [k \in 1 .. strlen(buf) |-> g[buf[k - 1]]] = [k \in 1 .. strlen(buf) |-> tolower(buf[k - 1])]
    BY <1>1, <1>2
  <2>2. [k \in 1 .. Len(text) |-> g[text[k]]] = [k \in 1 .. Len(text) |-> tolower(text[k])]
    BY <1>1, <1>2
  <2>3. QED
    BY <2>1, <2>2 DEF Strlwr
<1>4. QED
  BY <1>1, <1>3, InPlaceHolds

LEMMA StruprHolds ==
  ASSUME Holds(buf, text), Strupr
  PROVE  Holds(buf', text')
<1> DEFINE g == [c \in Chars |-> toupper(c)]
<1>1. g \in [Chars -> Chars] /\ \A c \in Chars : g[c] = toupper(c)
  BY CasesOfChars
<1>2. /\ strlen(buf) = Len(text) /\ \A k \in 1 .. Len(text) : text[k] \in Chars /\ buf[k - 1] = text[k]
  BY StrlenIs, CharsOf DEF Holds, Begins
<1> HIDE DEF g
<1>3. /\ buf' = InPlace(buf, [k \in 1 .. strlen(buf) |-> g[buf[k - 1]]])
      /\ text' = [k \in 1 .. Len(text) |-> g[text[k]]]
  <2>1. [k \in 1 .. strlen(buf) |-> g[buf[k - 1]]] = [k \in 1 .. strlen(buf) |-> toupper(buf[k - 1])]
    BY <1>1, <1>2
  <2>2. [k \in 1 .. Len(text) |-> g[text[k]]] = [k \in 1 .. Len(text) |-> toupper(text[k])]
    BY <1>1, <1>2
  <2>3. QED
    BY <2>1, <2>2 DEF Strupr
<1>4. QED
  BY <1>1, <1>3, InPlaceHolds

\* The operations that write no NUL and leave the length: those of the first L cells that
\* are characters, and the cell behind them as it was.
LEMMA OverwrittenHolds ==
  ASSUME Holds(buf, text), Len(text') = Len(text), text' \in Seq(Chars),
         \A k \in 1 .. Len(text) : buf'[k - 1] = text'[k],
         buf'[Len(text)] = buf[Len(text)]
  PROVE  Holds(buf', text')
BY DEF Holds, Begins

LEMMA StrrevHolds ==
  ASSUME Holds(buf, text), Strrev
  PROVE  Holds(buf', text')
<1> DEFINE L == Len(text)
<1>1. /\ strlen(buf) = L /\ text \in Seq(Chars) /\ L < SIZE /\ L \in Nat
      /\ \A k \in 1 .. L : buf[k - 1] = text[k] /\ text[k] \in Chars
  BY StrlenIs, CharsOf DEF Holds, Begins
<1>2. /\ buf' = [i \in Cell |-> IF i < L THEN buf[L - 1 - i] ELSE buf[i]]
      /\ text' = [i \in 1 .. L |-> text[(L - i) + 1]]
  BY <1>1 DEF Strrev, Mirror, Reverse
<1> HIDE DEF L
<1>3. \A k \in 1 .. L : (L - k) + 1 \in 1 .. L /\ k - 1 < L /\ k - 1 \in Cell /\ L - 1 - (k - 1) = (L - k) + 1 - 1
  BY <1>1, SizeIs
<1>4. text' \in [1 .. L -> Chars]
  BY <1>1, <1>2, <1>3
<1>5. text' \in Seq(Chars) /\ Len(text') = L
  BY <1>1, <1>4, IsASeq, LenProperties
<1>6. \A k \in 1 .. L : buf'[k - 1] = text'[k]
  <2> TAKE k \in 1 .. L
  <2>1. buf'[k - 1] = buf[L - 1 - (k - 1)]
    BY <1>2, <1>3
  <2>2. buf[(L - k) + 1 - 1] = text[(L - k) + 1]
    BY <1>1, <1>3
  <2>3. QED
    BY <1>2, <1>3, <2>1, <2>2
<1>7. buf'[L] = buf[L]
  <2>1. L \in Cell /\ ~(L < L)
    BY <1>1, SizeIs
  <2>2. QED
    BY <1>2, <2>1
<1>8. QED
  BY <1>5, <1>6, <1>7, OverwrittenHolds DEF L

LEMMA StrsetHolds ==
  ASSUME Holds(buf, text), NEW c \in Alphabet, Strset(c)
  PROVE  Holds(buf', text')
<1> DEFINE L == Len(text)
<1>1. strlen(buf) = L /\ text \in Seq(Chars) /\ L < SIZE /\ L \in Nat /\ c \in Chars
  BY StrlenIs, CharsOf, StringsAssumption DEF Holds, Begins, Chars
<1>2. /\ buf' = [i \in Cell |-> IF i < L THEN c ELSE buf[i]]
      /\ text' = [k \in 1 .. L |-> c]
  BY <1>1 DEF Strset
<1> HIDE DEF L
<1>3. \A k \in 1 .. L : k - 1 < L /\ k - 1 \in Cell
  BY <1>1, SizeIs
<1>4. text' \in [1 .. L -> Chars]
  BY <1>1, <1>2
<1>5. text' \in Seq(Chars) /\ Len(text') = L
  BY <1>1, <1>4, IsASeq, LenProperties
<1>6. \A k \in 1 .. L : buf'[k - 1] = text'[k]
  BY <1>2, <1>3
<1>7. buf'[L] = buf[L]
  <2>1. L \in Cell /\ ~(L < L)
    BY <1>1, SizeIs
  <2>2. QED
    BY <1>2, <2>1
<1>8. QED
  BY <1>5, <1>6, <1>7, OverwrittenHolds DEF L

LEMMA StrnsetHolds ==
  ASSUME Holds(buf, text), NEW c \in Alphabet, NEW n \in Cell, Strnset(c, n), slips' = {}
  PROVE  Holds(buf', text')
<1> DEFINE L == Len(text)
<1>1. /\ strlen(buf) = L /\ text \in Seq(Chars) /\ L < SIZE /\ L \in Nat /\ c \in Chars /\ n \in Nat
      /\ \A k \in 1 .. L : buf[k - 1] = text[k] /\ text[k] \in Chars
  BY StrlenIs, CharsOf, StringsAssumption, SizeIs DEF Holds, Begins, Chars, Cell
<1>2. /\ buf' = [i \in Cell |-> IF i < n THEN c ELSE buf[i]]
      /\ text' = [k \in 1 .. L |-> IF k =< n THEN c ELSE text[k]]
      /\ Slip("too_far", n > L)
  BY <1>1 DEF Strnset
<1> HIDE DEF L
<1>3. n =< L
  <2>1. ~(n > L)
    BY <1>2, SlipNone
  <2>2. QED
    BY <1>1, <2>1
<1>4. \A k \in 1 .. L : (k - 1 < n <=> k =< n) /\ k - 1 \in Cell
  BY <1>1, SizeIs
<1>5. text' \in [1 .. L -> Chars]
  BY <1>1, <1>2
<1>6. text' \in Seq(Chars) /\ Len(text') = L
  BY <1>1, <1>5, IsASeq, LenProperties
<1>7. \A k \in 1 .. L : buf'[k - 1] = text'[k]
  BY <1>1, <1>2, <1>4
<1>8. buf'[L] = buf[L]
  <2>1. L \in Cell /\ ~(L < n)
    BY <1>1, <1>3, SizeIs
  <2>2. QED
    BY <1>2, <2>1
<1>9. QED
  BY <1>6, <1>7, <1>8, OverwrittenHolds DEF L

LEMMA StrncmpHolds ==
  ASSUME Holds(buf, text), NEW s \in Words, NEW n, Strncmp(s, n), slips' = {}
  PROVE  Holds(buf', text')
<1>1. Slip("compared", buf' # buf) /\ text' = text
  BY DEF Strncmp
<1>2. buf' = buf
  BY <1>1, SlipNone
<1>3. QED
  BY <1>1, <1>2

LEMMA ShowHolds ==
  ASSUME NEW digits \in Seq(Chars), NEW base, NEW n, Show(digits, base, n)
  PROVE  Holds(buf', text')
<1>1. /\ Len(digits) < SIZE /\ \A i \in Cell : buf[i] = NUL
      /\ buf' = Put(buf, 0, digits) /\ text' = digits
  BY DEF Show
<1>2. Len(digits) \in Cell
  BY <1>1, CharsOf, SizeIs
<1>3. Holds(Put(buf, 0, digits), digits)
  BY <1>1, <1>2, Replaces
<1>4. QED
  BY <1>1, <1>3


-----------------------------------------------------------------------------
(* Comparing.                                                              *)

\* A string with its NUL.
LEMMA Ended ==
  ASSUME NEW s \in Seq(Chars)
  PROVE  /\ Len(s) \in Nat /\ Append(s, NUL)[Len(s) + 1] = NUL
         /\ \A k \in 1 .. Len(s) : Append(s, NUL)[k] = s[k] /\ s[k] \in Int /\ s[k] >= 1
<1>1. s \in Seq(Int) /\ Len(s) \in Nat /\ \A k \in 1 .. Len(s) : s[k] \in Int /\ s[k] >= 1
  BY CharsOf
<1>2. NUL \in Int
  BY DEF NUL
<1>3. QED
  BY <1>1, <1>2, AppendProperties

\* Where the comparison of a buffer with a string stops.
LEMMA StopsAt ==
  ASSUME NEW f, NEW t, Holds(f, t), NEW s \in Seq(Chars)
  PROVE  LET k == FirstDifference(f, s) IN
         /\ k \in 0 .. Len(s) /\ k =< Len(t)
         /\ f[k] = Append(t, NUL)[k + 1]
         /\ f[k] = NUL \/ f[k] # Append(s, NUL)[k + 1]
         /\ \A i \in 1 .. k : t[i] = s[i]
<1> DEFINE L == Len(t)
           n == Len(s)
           b == Append(s, NUL)
<1>1. /\ t \in Seq(Chars) /\ L \in Nat /\ n \in Nat /\ f[L] = NUL
      /\ \A k \in 1 .. L : f[k - 1] = t[k] /\ t[k] \in Int /\ t[k] >= 1 /\ Append(t, NUL)[k] = t[k]
      /\ Append(t, NUL)[L + 1] = NUL
      /\ \A k \in 1 .. n : b[k] = s[k] /\ s[k] >= 1 /\ s[k] \in Int
      /\ b[n + 1] = NUL
  BY Ended DEF Holds, Begins
<1> DEFINE Ends(k) == f[k] = NUL \/ f[k] # b[k + 1]
           Stops(k) == k \in 0 .. n /\ Ends(k) /\ \A i \in 0 .. k - 1 : f[i] # NUL /\ f[i] = s[i + 1]
<1>2. FirstDifference(f, s) = CHOOSE k : Stops(k)
  BY DEF FirstDifference
<1> HIDE DEF L, n, b
<1>3. \E m \in Nat : m =< n /\ Ends(m)
  <2>1. CASE L =< n
    BY <1>1, <2>1
  <2>2. CASE n < L
    <3>1. n + 1 \in 1 .. L /\ (n + 1) - 1 = n
      BY <1>1, <2>2
    <3>2. f[n] = t[n + 1] /\ t[n + 1] # NUL
      BY <1>1, <3>1 DEF NUL
    <3>3. QED
      BY <1>1, <3>2
  <2>3. QED
    BY <1>1, <2>1, <2>2
<1>4. \E k : Stops(k)
  <2> DEFINE A == {k \in Nat : Ends(k)}
  <2>1. PICK m \in Nat : m =< n /\ Ends(m)
    BY <1>3
  <2>2. A \subseteq Nat /\ m \in A
    BY <2>1
  <2> HIDE DEF A
  <2>3. PICK k \in A : \A j \in A : k =< j
    BY <2>2, NatLeast
  <2> USE DEF A
  <2>4. k \in 0 .. n /\ Ends(k)
    BY <1>1, <2>1, <2>2, <2>3
  <2>5. ASSUME NEW i \in 0 .. k - 1 PROVE f[i] # NUL /\ f[i] = s[i + 1]
    <3>1. i \in Nat /\ i + 1 \in 1 .. n /\ ~(k =< i)
      BY <1>1, <2>4
    <3>2. ~Ends(i)
      BY <2>3, <3>1
    <3>3. QED
      BY <1>1, <3>1, <3>2
  <2>6. QED
    BY <2>4, <2>5
<1> DEFINE k == FirstDifference(f, s)
<1>5. Stops(k)
  <2> HIDE DEF Stops
  <2>1. QED
    BY <1>2, <1>4
<1> HIDE DEF k
<1>6. k \in Nat /\ k =< L
  <2> SUFFICES ASSUME k > L PROVE FALSE
    BY <1>1, <1>5
  <2>1. L \in 0 .. k - 1
    BY <1>1, <1>5
  <2>2. QED
    BY <1>1, <1>5, <2>1
<1>7. f[k] = Append(t, NUL)[k + 1]
  <2>1. CASE k = L
    BY <1>1, <2>1
  <2>2. CASE k < L
    <3>1. k + 1 \in 1 .. L /\ (k + 1) - 1 = k
      BY <1>1, <1>6, <2>2
    <3>2. QED
      BY <1>1, <3>1
  <2>3. k = L \/ k < L
    BY <1>1, <1>6
  <2>4. QED
    BY <2>1, <2>2, <2>3
<1>8. ASSUME NEW i \in 1 .. k PROVE t[i] = s[i]
  <2>1. i - 1 \in 0 .. k - 1 /\ i \in 1 .. L /\ (i - 1) + 1 = i
    BY <1>1, <1>6
  <2>2. f[i - 1] = s[(i - 1) + 1] /\ f[i - 1] = t[i]
    BY <1>1, <1>5, <2>1
  <2>3. QED
    BY <2>1, <2>2
<1>9. QED
  BY <1>5, <1>6, <1>7, <1>8 DEF k, L, n, b

\* The order of two strings from the character at which they part.
LEMMA Ordered ==
  ASSUME NEW t \in Seq(Chars), NEW s \in Seq(Chars), NEW k \in Nat, k =< Len(s), k =< Len(t),
         NEW d, d = Append(t, NUL)[k + 1], NEW e, e = Append(s, NUL)[k + 1],
         d = NUL \/ d # e,
         \A i \in 1 .. k : t[i] = s[i]
  PROVE  /\ d \in Int /\ e \in Int
         /\ d = e <=> t = s
         /\ d < e <=> Before(t, s)
<1> DEFINE L == Len(t)
           n == Len(s)
           b == Append(s, NUL)
           a == Append(t, NUL)
<1>1. /\ L \in Nat /\ n \in Nat /\ a[L + 1] = NUL /\ b[n + 1] = NUL
      /\ \A i \in 1 .. L : a[i] = t[i] /\ t[i] \in Int /\ t[i] >= 1
      /\ \A i \in 1 .. n : b[i] = s[i] /\ s[i] \in Int /\ s[i] >= 1
  BY Ended
<1>2. d = a[k + 1] /\ e = b[k + 1] /\ k =< L /\ k =< n
  OBVIOUS
<1>3. t = s => L = n /\ d = e
  OBVIOUS
<1>4. Before(t, s) <=> \/ L < n /\ t = SubSeq(s, 1, L)
                       \/ \E j \in 1 .. L : j =< n /\ t[j] < s[j] /\ SubSeq(t, 1, j - 1) = SubSeq(s, 1, j - 1)
  BY DEF Before
<1>5. ASSUME NEW j \in Nat, j =< L
      PROVE  /\ SubSeq(t, 1, j) \in Seq(Chars) /\ Len(SubSeq(t, 1, j)) = j
             /\ \A i \in 1 .. j : SubSeq(t, 1, j)[i] = t[i]
  <2>1. 1 \in Int /\ j \in Int /\ 1 =< 1 /\ 1 - 1 =< j /\ j =< Len(t)
    BY <1>5
  <2>2. /\ SubSeq(t, 1, j) \in Seq(Chars) /\ Len(SubSeq(t, 1, j)) = j - 1 + 1
        /\ \A i \in 1 .. j - 1 + 1 : SubSeq(t, 1, j)[i] = t[1 + i - 1]
    BY <2>1, Piece
  <2>3. j - 1 + 1 = j /\ \A i \in 1 .. j : 1 + i - 1 = i
    OBVIOUS
  <2>4. QED
    BY <2>2, <2>3
<1>6. ASSUME NEW j \in Nat, j =< n
      PROVE  /\ SubSeq(s, 1, j) \in Seq(Chars) /\ Len(SubSeq(s, 1, j)) = j
             /\ \A i \in 1 .. j : SubSeq(s, 1, j)[i] = s[i]
  <2>1. 1 \in Int /\ j \in Int /\ 1 =< 1 /\ 1 - 1 =< j /\ j =< Len(s)
    BY <1>6
  <2>2. /\ SubSeq(s, 1, j) \in Seq(Chars) /\ Len(SubSeq(s, 1, j)) = j - 1 + 1
        /\ \A i \in 1 .. j - 1 + 1 : SubSeq(s, 1, j)[i] = s[1 + i - 1]
    BY <2>1, Piece
  <2>3. j - 1 + 1 = j /\ \A i \in 1 .. j : 1 + i - 1 = i
    OBVIOUS
  <2>4. QED
    BY <2>2, <2>3
<1>7. (n = L /\ \A i \in 1 .. L : t[i] = s[i]) => t = s
  BY Same
<1>8. /\ k = L => d = NUL
      /\ k < L => d = t[k + 1] /\ d \in Int /\ d >= 1 /\ k + 1 \in 1 .. L
      /\ k = n => e = NUL
      /\ k < n => e = s[k + 1] /\ e \in Int /\ e >= 1 /\ k + 1 \in 1 .. n
  <2>1. k < L => k + 1 \in 1 .. L
    BY <1>1
  <2>2. k < n => k + 1 \in 1 .. n
    BY <1>1
  <2> HIDE DEF L, n, a, b
  <2>3. QED
    BY <1>1, <1>2, <2>1, <2>2
<1> HIDE DEF L, n, a, b
<1>9. d \in Int /\ e \in Int /\ d >= 0 /\ e >= 0
  BY <1>1, <1>2, <1>8 DEF NUL
<1>10. CASE d = e
  <2>1. k = L /\ k = n
    BY <1>1, <1>2, <1>8, <1>9, <1>10 DEF NUL
  <2>2. t = s
    BY <1>7, <2>1
  <2>3. ~Before(t, s)
    <3>1. ~(L < n)
      BY <1>1, <2>1
    <3>2. ASSUME NEW j \in 1 .. L PROVE ~(t[j] < s[j])
      BY <1>1, <2>2
    <3>3. QED
      BY <1>4, <3>1, <3>2
  <2>4. QED
    BY <1>9, <1>10, <2>2, <2>3
<1>11. CASE d < e
  <2>1. k < n /\ e = s[k + 1] /\ k + 1 \in 1 .. n
    BY <1>1, <1>2, <1>8, <1>9, <1>11 DEF NUL
  <2>2. CASE k = L
    <3>1. SubSeq(s, 1, L) = t
      <4>1. /\ SubSeq(s, 1, L) \in Seq(Chars) /\ Len(SubSeq(s, 1, L)) = L
            /\ \A i \in 1 .. L : SubSeq(s, 1, L)[i] = t[i]
        BY <1>1, <1>2, <1>6, <2>2
      <4>2. QED
        BY <4>1, Same DEF L
    <3>2. L < n
      BY <2>1, <2>2
    <3>3. QED
      BY <1>3, <1>4, <1>9, <1>11, <3>1, <3>2
  <2>3. CASE k < L
    <3>1. d = t[k + 1] /\ k + 1 \in 1 .. L /\ k + 1 =< n /\ (k + 1) - 1 = k
      BY <1>1, <1>8, <2>1, <2>3
    <3>2. SubSeq(t, 1, k) = SubSeq(s, 1, k)
      <4>1. /\ SubSeq(s, 1, k) \in Seq(Chars) /\ Len(SubSeq(s, 1, k)) = k
            /\ \A i \in 1 .. k : SubSeq(s, 1, k)[i] = t[i]
        BY <1>2, <1>6
      <4>2. /\ SubSeq(t, 1, k) \in Seq(Chars) /\ Len(SubSeq(t, 1, k)) = k
            /\ \A i \in 1 .. k : SubSeq(t, 1, k)[i] = t[i]
        BY <1>2, <1>5
      <4>3. QED
        BY <4>1, <4>2, Same
    <3>3. t[k + 1] < s[k + 1]
      BY <1>11, <2>1, <3>1
    <3>4. \E j \in 1 .. L : j =< n /\ t[j] < s[j] /\ SubSeq(t, 1, j - 1) = SubSeq(s, 1, j - 1)
      BY <3>1, <3>2, <3>3
    <3>5. QED
      BY <1>3, <1>4, <1>9, <1>11, <3>4, SMTT(30)
  <2>4. QED
    BY <1>1, <1>2, <2>2, <2>3
<1>12. CASE d > e
  <2>1. k < L /\ d = t[k + 1] /\ k + 1 \in 1 .. L
    BY <1>1, <1>2, <1>8, <1>9, <1>12 DEF NUL
  <2>2. ASSUME L < n, t = SubSeq(s, 1, L) PROVE FALSE
    <3>1. k < n /\ e = s[k + 1]
      BY <1>1, <1>8, <2>1, <2>2
    <3>2. SubSeq(s, 1, L)[k + 1] = s[k + 1]
      BY <1>1, <1>6, <2>1, <2>2
    <3>3. QED
      BY <1>9, <1>12, <2>1, <2>2, <3>1, <3>2
  <2>3. ASSUME NEW j \in 1 .. L, j =< n, t[j] < s[j], SubSeq(t, 1, j - 1) = SubSeq(s, 1, j - 1)
        PROVE  FALSE
    <3>1. j \in Nat /\ j \in 1 .. n /\ t[j] \in Int /\ s[j] \in Int
      BY <1>1, <2>3
    <3>2. j > k
      <4> SUFFICES ASSUME j =< k PROVE FALSE
        BY <3>1
      <4>1. t[j] = s[j]
        BY <3>1
      <4>2. QED
        BY <2>3, <3>1, <4>1
    <3>3. k < n /\ e = s[k + 1]
      BY <1>1, <1>8, <2>3, <3>1, <3>2
    <3>4. CASE j = k + 1
      BY <1>9, <1>12, <2>1, <2>3, <3>3, <3>4
    <3>5. CASE j > k + 1
      <4>1. j - 1 \in Nat /\ j - 1 =< L /\ j - 1 =< n /\ k + 1 \in 1 .. j - 1
        BY <1>1, <2>3, <3>1, <3>5
      <4>2. SubSeq(t, 1, j - 1)[k + 1] = t[k + 1] /\ SubSeq(s, 1, j - 1)[k + 1] = s[k + 1]
        BY <1>5, <1>6, <4>1
      <4>3. t[k + 1] = s[k + 1]
        BY <2>3, <4>2
      <4>4. d = e
        BY <2>1, <3>3, <4>3
      <4>5. QED
        BY <1>9, <1>12, <4>4
    <3>6. QED
      BY <3>1, <3>2, <3>4, <3>5
  <2>4. QED
    BY <1>3, <1>4, <1>9, <1>12, <2>2, <2>3
<1>13. QED
  BY <1>9, <1>10, <1>11, <1>12

\* What the comparing functions say of a buffer and a string.
LEMMA Compared ==
  ASSUME NEW f, NEW t, Holds(f, t), NEW s \in Seq(Chars)
  PROVE  /\ streql(f, s) <=> t = s
         /\ strcmp(f, s) < 0 <=> Before(t, s)
         /\ streql(f, s) <=> memcmp(f, Append(s, NUL), Len(s) + 1) = 0
<1> DEFINE k == FirstDifference(f, s)
           b == Append(s, NUL)
           n == Len(s)
<1>1. t \in Seq(Chars) /\ Len(t) \in Nat /\ f[Len(t)] = NUL /\ \A i \in 1 .. Len(t) : f[i - 1] = t[i]
  BY CharsOf DEF Holds, Begins
<1>2. /\ k \in 0 .. n /\ k =< Len(t)
      /\ f[k] = Append(t, NUL)[k + 1]
      /\ f[k] = NUL \/ f[k] # b[k + 1]
      /\ \A i \in 1 .. k : t[i] = s[i]
  BY StopsAt
<1>3. strcmp(f, s) = f[k] - b[k + 1]
  BY DEF strcmp
<1>4. n \in Nat /\ b[n + 1] = NUL /\ \A i \in 1 .. n : b[i] = s[i]
  BY Ended
<1>5. k \in Nat
  BY <1>2
<1> HIDE DEF k
<1>6. /\ f[k] \in Int /\ b[k + 1] \in Int
      /\ f[k] = b[k + 1] <=> t = s
      /\ f[k] < b[k + 1] <=> Before(t, s)
  <2> DEFINE d == f[k]
             e == b[k + 1]
  <2>1. /\ k =< Len(s) /\ k =< Len(t) /\ d = Append(t, NUL)[k + 1] /\ e = Append(s, NUL)[k + 1]
        /\ d = NUL \/ d # e
    BY <1>2
  <2> HIDE DEF d, e
  <2>2. d \in Int /\ e \in Int /\ (d = e <=> t = s) /\ (d < e <=> Before(t, s))
    BY <1>1, <1>2, <1>5, <2>1, Ordered
  <2>3. QED
    BY <2>2 DEF d, e
<1>7. (streql(f, s) <=> t = s) /\ (strcmp(f, s) < 0 <=> Before(t, s))
  <2> HIDE DEF b
  <2>1. PICK x \in Int, y \in Int : x = f[k] /\ y = b[k + 1]
    BY <1>6
  <2>2. strcmp(f, s) = x - y
    BY <1>3, <2>1
  <2>3. (x - y = 0 <=> x = y) /\ (x - y < 0 <=> x < y)
    OBVIOUS
  <2>4. QED
    BY <1>6, <2>1, <2>2, <2>3 DEF streql
<1> HIDE DEF b, n
<1>8. memcmp(f, b, n + 1) = 0 <=> \A i \in 0 .. n : f[i] = b[i + 1]
  <2> DEFINE differ == {i \in 0 .. (n + 1) - 1 : f[i] # b[i + 1]}
             first  == CHOOSE i \in differ : \A j \in differ : i =< j
  <2>1. memcmp(f, b, n + 1) = IF differ = {} THEN 0 ELSE IF f[first] > b[first + 1] THEN 1 ELSE -1
    BY DEF memcmp
  <2> HIDE DEF first
  <2>2. (n + 1) - 1 = n
    BY <1>4
  <2>3. differ = {} <=> \A i \in 0 .. n : f[i] = b[i + 1]
    BY <2>2
  <2> HIDE DEF differ
  <2>4. memcmp(f, b, n + 1) = 0 <=> differ = {}
    BY <2>1
  <2>5. QED
    BY <2>3, <2>4
<1>9. (\A i \in 0 .. n : f[i] = b[i + 1]) <=> t = s
  <2>1. ASSUME \A i \in 0 .. n : f[i] = b[i + 1] PROVE t = s
    BY <1>2, <1>6, <2>1
  <2>2. ASSUME t = s, NEW i \in 0 .. n PROVE f[i] = b[i + 1]
    <3>1. CASE i = n
      <4>1. Len(t) = n
        BY <2>2 DEF n
      <4>2. QED
        BY <1>1, <1>4, <3>1, <4>1
    <3>2. CASE i < n
      <4>1. i + 1 \in 1 .. n /\ (i + 1) - 1 = i /\ Len(t) = n
        BY <1>4, <2>2, <3>2 DEF n
      <4>2. f[i] = t[i + 1] /\ b[i + 1] = s[i + 1]
        BY <1>1, <1>4, <4>1
      <4>3. QED
        BY <2>2, <4>2
    <3>3. QED
      BY <1>4, <3>1, <3>2
  <2>3. QED
    BY <2>1, <2>2
<1>10. QED
  BY <1>7, <1>8, <1>9 DEF b, n

LEMMA BufferKeptWhenHeld ==
  ASSUME slips = {} => Holds(buf, text)
  PROVE  BufferKept
<1> SUFFICES ASSUME slips = {}
             PROVE  /\ Held(buf) = text /\ memchr(buf, NUL, SIZE) = {Len(text)}
                    /\ \A s \in Words : /\ streql(buf, s) <=> text = s
                                        /\ strcmp(buf, s) < 0 <=> Before(text, s)
                                        /\ streql(buf, s) <=> memcmp(buf, Append(s, NUL), Len(s) + 1) = 0
  BY DEF BufferKept
<1>1. Holds(buf, text)
  OBVIOUS
<1>2. \A s \in Words : s \in Seq(Chars)
  BY StringsAssumption DEF Chars
<1>3. QED
  BY <1>1, <1>2, StrlenIs, Compared

-----------------------------------------------------------------------------
(* The numbers in the buffer.                                              *)

\* What a printed number reads as.
ReadsAs(s, num) ==
  LET read == Reads(s, num.base)
  IN  read = num.value \/ (num.base = HUNDREDTHS /\ read = num.value - 1)

\* The buffer holds what was promised, and the number that was printed if it still shows one.
StringInv ==
  /\ slips = {} => Holds(buf, text)
  /\ number # NONE => slips = {} /\ ReadsAs(text, number)

LEMMA FiguresAreChars ==
  ASSUME NEW s \in Seq(Figures \cup Letters), s # <<>>
  PROVE  s \in Seq(Chars) /\ s[1] # Minus
<1>1. Figures \cup Letters \subseteq Chars
  BY DEF Figures, Letters, Chars
<1>2. s \in Seq(Chars)
  BY <1>1, SeqMonotonic
<1>3. 1 \in 1 .. Len(s)
  <2>1. Len(s) \in Nat /\ Len(s) # 0
    BY LenProperties, EmptySeq
  <2>2. QED
    BY <2>1
<1>4. s[1] \in Figures \cup Letters
  BY <1>3, ElementOfSeq
<1>5. QED
  BY <1>2, <1>4 DEF Figures, Letters, Minus

\* A string of digits without a sign.
LEMMA PlainReads ==
  ASSUME NEW s \in Seq(Figures \cup Letters), s # <<>>, NEW base \in {2, 10, 16}, NEW n,
         Value(s, base) = n
  PROVE  s \in Seq(Chars) /\ ReadsAs(s, [base |-> base, value |-> n])
<1>1. s \in Seq(Chars) /\ s[1] # Minus
  BY FiguresAreChars
<1>2. base # HUNDREDTHS
  BY DEF HUNDREDTHS
<1>3. Reads(s, base) = n
  BY <1>1, <1>2 DEF Reads
<1>4. QED
  BY <1>1, <1>3 DEF ReadsAs

LEMMA ToIntInts ==
  ASSUME NEW n \in Nat
  PROVE  ToInt(n) \in Ints
<1> DEFINE m == n % UINT
           h == UINT \div 2
<1>1. UINT \in Nat /\ UINT >= 256 /\ UINT % 2 = 0
  BY NumbersAssumption
<1>2. m \in 0 .. UINT - 1
  BY <1>1
<1>3. h \in Nat /\ UINT = 2 * h
  BY <1>1
<1>4. ToInt(n) = IF m < h THEN m ELSE m - UINT
  BY DEF ToInt
<1>5. \A k \in Int : k \in Ints <=> -h =< k /\ k =< h
  BY IntsAreInt
<1> HIDE DEF m, h
<1>6. ToInt(n) \in Int /\ -h =< ToInt(n) /\ ToInt(n) =< h
  BY <1>1, <1>2, <1>3, <1>4
<1>7. QED
  BY <1>5, <1>6

\* A number with its sign, as itoa prints it.
LEMMA SignedReads ==
  ASSUME NEW num \in Ints
  PROVE  itoa(num, 10) \in Seq(Chars) /\ ReadsAs(itoa(num, 10), [base |-> 10, value |-> num])
<1> DEFINE s == itoa(num, 10)
<1>1. PICK t \in Seq(Figures) : /\ t # <<>> /\ Value(t, 10) = Size(num)
                                /\ s = IF num < 0 THEN <<Minus>> \o t ELSE t
  BY ItoaReads
<1>2. num \in Int
  BY IntsAreInt
<1>3. t \in Seq(Figures \cup Letters)
  BY FiguresInt
<1>4. t \in Seq(Chars) /\ t[1] # Minus
  BY <1>1, <1>3, FiguresAreChars
<1>5. Minus \in Chars /\ 10 # HUNDREDTHS
  BY DEF Minus, Chars, HUNDREDTHS
<1> HIDE DEF s
<1>6. CASE num < 0
  <2>1. s = <<Minus>> \o t /\ Size(num) = -num
    BY <1>1, <1>6 DEF Size
  <2>2. <<Minus>> \in Seq(Chars) /\ Len(<<Minus>>) = 1 /\ <<Minus>>[1] = Minus
    BY <1>5, OneSeq
  <2>3. /\ s \in Seq(Chars) /\ Len(s) = 1 + Len(t) /\ Len(t) \in Nat /\ s[1] = Minus
        /\ \A k \in 1 .. Len(t) : s[1 + k] = t[k]
    <3>1. /\ <<Minus>> \o t \in Seq(Chars) /\ Len(<<Minus>> \o t) = Len(<<Minus>>) + Len(t)
          /\ Len(t) \in Nat
          /\ \A k \in 1 .. Len(<<Minus>>) : (<<Minus>> \o t)[k] = <<Minus>>[k]
          /\ \A k \in 1 .. Len(t) : (<<Minus>> \o t)[Len(<<Minus>>) + k] = t[k]
      BY <1>4, <2>2, Joined
    <3>2. 1 \in 1 .. Len(<<Minus>>)
      BY <2>2
    <3>3. QED
      BY <2>1, <2>2, <3>1, <3>2
  <2>4. s # <<>> /\ Tail(s) = t
    <3>1. s # <<>>
      BY <2>3, EmptySeq
    <3>2. /\ Tail(s) \in Seq(Chars) /\ Len(Tail(s)) = Len(s) - 1
          /\ \A k \in 1 .. Len(Tail(s)) : Tail(s)[k] = s[k + 1]
      BY <2>3, <3>1, HeadTailProperties
    <3>3. Len(Tail(s)) = Len(t) /\ \A k \in 1 .. Len(t) : Tail(s)[k] = t[k]
      BY <2>3, <3>2
    <3>4. QED
      BY <1>4, <3>1, <3>2, <3>3, Same
  <2>5. Reads(s, 10) = -Value(t, 10)
    BY <1>5, <2>3, <2>4 DEF Reads
  <2>6. -Value(t, 10) = num
    BY <1>1, <1>2, <2>1
  <2>7. QED
    BY <2>3, <2>5, <2>6 DEF ReadsAs, s
<1>7. CASE ~(num < 0)
  <2>1. s = t /\ Value(t, 10) = num
    BY <1>1, <1>7 DEF Size
  <2>2. Reads(s, 10) = num
    BY <1>4, <1>5, <2>1 DEF Reads
  <2>3. QED
    BY <1>4, <2>1, <2>2 DEF ReadsAs, s
<1>8. QED
  BY <1>6, <1>7

LEMMA ShowNumberReads ==
  ASSUME slips = {}, NEW n \in Shown, ShowNumber(n)
  PROVE  StringInv'
<1>1. n \in 0 .. UINT - 1 /\ n \in Nat
  BY StringsAssumption, NumbersAssumption
<1>2. \E digits \in Seq(Chars) : \E base, v :
        Show(digits, base, v) /\ ReadsAs(digits, [base |-> base, value |-> v])
  <2>1. CASE \E base \in {2, 10, 16} : Show(ultoa(n, base), base, n)
    <3>1. PICK base \in {2, 10, 16} : Show(ultoa(n, base), base, n)
      BY <2>1
    <3>2. /\ ultoa(n, base) \in Seq(Figures \cup Letters) /\ ultoa(n, base) # <<>>
          /\ Value(ultoa(n, base), base) = n
      BY <1>1, UltoaReads
    <3>3. ultoa(n, base) \in Seq(Chars) /\ ReadsAs(ultoa(n, base), [base |-> base, value |-> n])
      BY <3>2, PlainReads
    <3>4. QED
      BY <3>1, <3>3
  <2>2. CASE Show(itoa(ToInt(n), 10), 10, ToInt(n))
    <3>1. ToInt(n) \in Ints
      BY <1>1, ToIntInts
    <3>2. /\ itoa(ToInt(n), 10) \in Seq(Chars)
          /\ ReadsAs(itoa(ToInt(n), 10), [base |-> 10, value |-> ToInt(n)])
      BY <3>1, SignedReads
    <3>3. QED
      BY <2>2, <3>2
  <2>3. CASE \E bytes \in {1, 2, 4} : Show(strhex(n, FALSE, bytes), 16, LowBytes(n, bytes))
    <3>1. PICK bytes \in {1, 2, 4} : Show(strhex(n, FALSE, bytes), 16, LowBytes(n, bytes))
      BY <2>3
    <3> DEFINE s == strhex(n, FALSE, bytes)
               v == LowBytes(n, bytes)
    <3>2. s \in Seq(Figures \cup Letters) /\ s # <<>> /\ Value(s, 16) = v
      BY <1>1, StrhexReads
    <3>3. Show(s, 16, v) /\ 16 \in {2, 10, 16}
      BY <3>1
    <3> HIDE DEF s, v
    <3>4. s \in Seq(Chars) /\ ReadsAs(s, [base |-> 16, value |-> v])
      BY <3>2, <3>3, PlainReads
    <3>5. QED
      BY <3>3, <3>4
  <2>4. CASE \E digits \in ftoa(n) : Show(digits, HUNDREDTHS, n)
    <3>1. PICK digits \in ftoa(n) : Show(digits, HUNDREDTHS, n)
      BY <2>4
    <3>2. digits \in Seq(Chars) /\ Value(RemoveAt(digits, Len(digits) - 2), 10) \in {n, n - 1}
      BY <1>1, FtoaReads DEF Chars
    <3>3. ReadsAs(digits, [base |-> HUNDREDTHS, value |-> n])
      BY <3>2 DEF ReadsAs, Reads
    <3>4. QED
      BY <3>1, <3>2, <3>3
  <2>5. QED
    BY <2>1, <2>2, <2>3, <2>4 DEF ShowNumber
<1>3. PICK digits \in Seq(Chars) :
        \E base, v : Show(digits, base, v) /\ ReadsAs(digits, [base |-> base, value |-> v])
  BY <1>2
<1>4. PICK base, v : Show(digits, base, v) /\ ReadsAs(digits, [base |-> base, value |-> v])
  BY <1>3
<1>5. Holds(buf', text')
  BY <1>4, ShowHolds
<1>6. slips' = {} /\ text' = digits /\ number' = [base |-> base, value |-> v]
  BY <1>4 DEF Show
<1>7. ReadsAs(text', number')
  BY <1>4, <1>6
<1>8. (slips = {} => Holds(buf, text))' /\ (number # NONE => slips = {} /\ ReadsAs(text, number))'
  BY <1>5, <1>6, <1>7 DEF ReadsAs
<1>9. QED
  BY <1>8 DEF StringInv

LEMMA StringInitInv ==
  ASSUME StringInit
  PROVE  StringInv
<1>1. buf = [i \in Cell |-> NUL] /\ text = <<>> /\ number = NONE
  BY DEF StringInit
<1>2. Holds(buf, <<>>)
  <2>1. 0 \in Cell /\ Len(<<>>) = 0
    BY SizeIs
  <2>2. QED
    BY <1>1, <2>1, EmptyHeld DEF Holds
<1>3. QED
  BY <1>1, <1>2 DEF StringInv

LEMMA StringNextInv ==
  ASSUME StringInv, StringNext
  PROVE  StringInv'
<1>1. ASSUME Holds(buf', text') \/ slips' # {}, number' = NONE PROVE StringInv'
  <2>1. (slips = {} => Holds(buf, text))' /\ (number # NONE => slips = {} /\ ReadsAs(text, number))'
    <3>1. NONE' = NONE
      BY DEF NONE
    <3>2. QED
      BY <1>1, <3>1
  <2>2. QED
    BY <2>1 DEF StringInv
<1>2. CASE Clear
  <2>1. number' = NONE
    BY <1>2 DEF Clear
  <2>2. QED
    BY <1>1, <1>2, <2>1, ClearHolds
<1>3. CASE /\ slips = {} /\ number' = NONE
           /\ \/ \E s \in Words : \/ Strcat(s) \/ Strcpy(s)
                                  \/ \E n \in 0 .. Len(s) + 1 : Strncat(s, n) \/ Strncpy(s, n) \/ Strncmp(s, n)
              \/ \E c \in Alphabet : Stradd(c) \/ Strset(c) \/ \E n \in Cell : Strnset(c, n)
              \/ Strlwr \/ Strupr \/ Strrev
  <2>1. Holds(buf, text) /\ number' = NONE
    BY <1>3 DEF StringInv
  <2> SUFFICES ASSUME slips' = {} PROVE Holds(buf', text')
    BY <1>1, <2>1
  <2>2. ASSUME NEW s \in Words, Strcat(s) PROVE Holds(buf', text')
    BY <2>1, <2>2, StrcatHolds
  <2>3. ASSUME NEW s \in Words, Strcpy(s) PROVE Holds(buf', text')
    BY <2>1, <2>3, StrcpyHolds
  <2>4. ASSUME NEW s \in Words, NEW n \in 0 .. Len(s) + 1, Strncat(s, n) PROVE Holds(buf', text')
    BY <2>1, <2>4, StrncatHolds
  <2>5. ASSUME NEW s \in Words, NEW n \in 0 .. Len(s) + 1, Strncpy(s, n) PROVE Holds(buf', text')
    BY <2>1, <2>5, StrncpyHolds
  <2>6. ASSUME NEW s \in Words, NEW n \in 0 .. Len(s) + 1, Strncmp(s, n) PROVE Holds(buf', text')
    BY <2>1, <2>6, StrncmpHolds
  <2>7. ASSUME NEW c \in Alphabet, Stradd(c) PROVE Holds(buf', text')
    BY <2>1, <2>7, StraddHolds
  <2>8. ASSUME NEW c \in Alphabet, Strset(c) PROVE Holds(buf', text')
    BY <2>1, <2>8, StrsetHolds
  <2>9. ASSUME NEW c \in Alphabet, NEW n \in Cell, Strnset(c, n) PROVE Holds(buf', text')
    BY <2>1, <2>9, StrnsetHolds
  <2>10. ASSUME Strlwr \/ Strupr \/ Strrev PROVE Holds(buf', text')
    BY <2>1, <2>10, StrlwrHolds, StruprHolds, StrrevHolds
  <2>11. QED
    BY <1>3, <2>2, <2>3, <2>4, <2>5, <2>6, <2>7, <2>8, <2>9, <2>10
<1>4. CASE slips = {} /\ \E n \in Shown : ShowNumber(n)
  BY <1>4, ShowNumberReads
<1>5. QED
  BY <1>2, <1>3, <1>4 DEF StringNext

LEMMA StringSame ==
  ASSUME StringInv, UNCHANGED stringVars
  PROVE  StringInv'
<1>1. buf' = buf /\ text' = text /\ number' = number /\ slips' = slips
  BY DEF stringVars
<1>2. (slips = {} => Holds(buf, text))' /\ (number # NONE => slips = {} /\ ReadsAs(text, number))'
  BY <1>1 DEF StringInv, Holds, Begins, ReadsAs
<1>3. QED
  BY <1>2 DEF StringInv

\* What atol makes of a string that a buffer holds.
LEMMA AtolKept ==
  ASSUME NEW s \in Seq(Chars)
  PROVE  IF s # <<>> /\ \A k \in 1 .. Len(s) : isdigit(s[k])
           THEN Value(s, 10) < UINT => atol(s) = Value(s, 10)
           ELSE atol(s) = 0
<1>1. s \in Seq(Int) /\ Len(s) \in Nat /\ 10 \in Int
  BY CharsOf
<1>2. UINT \in Nat /\ UINT >= 256
  BY NumbersAssumption
<1>3. CASE \E k \in 1 .. Len(s) : ~isdigit(s[k])
  BY <1>1, <1>3, AtolOther
<1>4. CASE \A k \in 1 .. Len(s) : isdigit(s[k])
  <2>1. atol(s) = Value(s, 10) % UINT
    BY <1>1, <1>4, AtolReads
  <2>2. Value(s, 10) \in Nat
    <3>1. PICK f : /\ f[0] = 0 /\ Value(s, 10) = f[Len(s)]
                   /\ \A k \in 0 .. Len(s) : f[k] \in Int
                   /\ \A k \in 1 .. Len(s) : f[k] = f[k - 1] * 10 + DigitValue(s[k])
      BY <1>1, ValueSteps
    <3> DEFINE n == Len(s)
               S == {k \in 0 .. n : f[k] \in Nat}
    <3>2. n \in Nat /\ \A k \in 1 .. n : DigitValue(s[k]) \in 0 .. 9
      <4>1. \A k \in 1 .. n : s[k] \in Int
        BY <1>1, ElementOfSeq
      <4>2. QED
        BY <1>1, <1>4, <4>1, DigitValueInt
    <3> HIDE DEF n
    <3>3. 0 \in S
      BY <3>1, <3>2
    <3>4. ASSUME NEW k \in 0 .. n - 1, k \in S PROVE k + 1 \in S
      <4>1. k + 1 \in 1 .. n /\ (k + 1) - 1 = k /\ f[k] \in Nat
        BY <3>2, <3>4
      <4>2. f[k + 1] = f[k] * 10 + DigitValue(s[k + 1]) /\ DigitValue(s[k + 1]) \in 0 .. 9
        BY <3>1, <3>2, <4>1 DEF n
      <4>3. f[k] * 10 \in Nat
        BY <4>1
      <4>4. PICK d \in Nat : d = DigitValue(s[k + 1])
        BY <4>2
      <4>5. f[k + 1] \in Nat
        BY <4>2, <4>3, <4>4
      <4>6. QED
        BY <3>2, <4>1, <4>5
    <3> HIDE DEF S
    <3>5. 0 .. n \subseteq S
      BY <3>2, <3>3, <3>4, UpTo
    <3>6. n \in S
      BY <3>2, <3>5
    <3>7. QED
      BY <3>1, <3>6 DEF S, n
  <2>3. s = <<>> => atol(s) = 0
    <3>1. Value(<<>>, 10) = 0
      BY <1>1, ValueEmpty
    <3>2. 0 % UINT = 0
      BY <1>2
    <3>3. QED
      BY <2>1, <3>1, <3>2
  <2>4. Value(s, 10) < UINT => Value(s, 10) % UINT = Value(s, 10)
    <3>1. PICK v \in Nat : v = Value(s, 10)
      BY <2>2
    <3>2. v < UINT => v % UINT = v
      BY <1>2
    <3>3. QED
      BY <3>1, <3>2
  <2>5. QED
    BY <1>4, <2>1, <2>3, <2>4
<1>5. QED
  BY <1>3, <1>4

LEMMA ReadBackWhenHeld ==
  ASSUME StringInv
  PROVE  NumbersReadBack
<1>1. slips = {} => Held(buf) = text /\ text \in Seq(Chars)
  BY StrlenIs DEF StringInv, Holds, Begins
<1>2. number # NONE => slips = {} /\ ReadsAs(text, number)
  BY DEF StringInv
<1>3. number # NONE => ReadsAs(Held(buf), number)
  BY <1>1, <1>2
<1>4. slips = {} =>
       IF text # <<>> /\ \A k \in 1 .. Len(text) : isdigit(text[k])
         THEN Value(text, 10) < UINT => atol(Held(buf)) = Value(text, 10)
         ELSE atol(Held(buf)) = 0
  <2> SUFFICES ASSUME slips = {}
               PROVE  IF text # <<>> /\ \A k \in 1 .. Len(text) : isdigit(text[k])
                        THEN Value(text, 10) < UINT => atol(text) = Value(text, 10)
                        ELSE atol(text) = 0
    BY <1>1
  <2>1. QED
    BY <1>1, AtolKept
<1>5. QED
  BY <1>3, <1>4 DEF NumbersReadBack, ReadsAs

-----------------------------------------------------------------------------
(* The string object.                                                      *)

Cells == 0 .. 127

\* Its block holds the string it is to hold and a NUL, and is the only one.
Filled(b) ==
  /\ b \in Seq(Cells) /\ length + 1 =< Len(b)
  /\ \A k \in 1 .. length : b[k] = joined[k]
  /\ b[length + 1] = NUL

ObjectInv ==
  /\ joined \in Seq(Chars) /\ length = Len(joined)
  /\ data = NULL => joined = <<>>
  /\ data # NULL => Filled(data)
  /\ blocks = IF data = NULL THEN 0 ELSE 1
  /\ beyond \in BOOLEAN /\ nothing \in BOOLEAN /\ (beyond => nothing)

LEMMA CharsAreCells ==
  ASSUME NEW s \in Seq(Chars)
  PROVE  s \in Seq(Cells) /\ Len(s) \in Nat
<1>1. Chars \subseteq Cells
  BY DEF Chars, Cells
<1>2. QED
  BY <1>1, SeqMonotonic, LenProperties

LEMMA ZerosAre ==
  ASSUME NEW n \in Nat
  PROVE  /\ Zeros(n) \in Seq(Cells) /\ Len(Zeros(n)) = n
         /\ \A k \in 1 .. n : Zeros(n)[k] = NUL
<1>1. Zeros(n) \in [1 .. n -> Cells] /\ \A k \in 1 .. n : Zeros(n)[k] = NUL
  BY DEF Zeros, Cells, NUL
<1>2. QED
  BY <1>1, IsASeq, LenProperties

LEMMA CopiedIs ==
  ASSUME NEW b \in Seq(Cells), NEW n \in Nat, NEW s \in Seq(Cells)
  PROVE  /\ Copied(b, n, s) \in Seq(Cells) /\ Len(Copied(b, n, s)) = Len(b)
         /\ \A k \in 1 .. Len(b) :
              /\ k - n \in 1 .. Len(s) => Copied(b, n, s)[k] = s[k - n]
              /\ k - n \notin 1 .. Len(s) => Copied(b, n, s)[k] = b[k]
<1> DEFINE L == Len(b)
           m == Len(s)
           c == [k \in 1 .. L |-> IF k - n \in 1 .. m THEN s[k - n] ELSE b[k]]
<1>1. L \in Nat /\ m \in Nat /\ (\A k \in 1 .. L : b[k] \in Cells) /\ \A k \in 1 .. m : s[k] \in Cells
  BY LenProperties, ElementOfSeq
<1>2. Copied(b, n, s) = c
  BY DEF Copied
<1> HIDE DEF L, m
<1>3. c \in [1 .. L -> Cells]
  BY <1>1
<1>4. \A k \in 1 .. L : /\ k - n \in 1 .. m => c[k] = s[k - n]
                        /\ k - n \notin 1 .. m => c[k] = b[k]
  OBVIOUS
<1> HIDE DEF c
<1>5. c \in Seq(Cells) /\ Len(c) = L
  BY <1>1, <1>3, IsASeq, LenProperties
<1>6. QED
  BY <1>2, <1>4, <1>5 DEF L, m

\* The new block an object moves to: what it holds, then zeros.
LEMMA MovedIs ==
  ASSUME ObjectInv, NEW size \in Nat, length =< size
  PROVE  /\ Moved(size) \in Seq(Cells) /\ Len(Moved(size)) = size
         /\ \A k \in 1 .. length : Moved(size)[k] = joined[k]
         /\ \A k \in length + 1 .. size : Moved(size)[k] = NUL
<1>1. joined \in Seq(Chars) /\ length = Len(joined) /\ length \in Nat
  BY LenProperties DEF ObjectInv
<1>2. /\ Zeros(size) \in Seq(Cells) /\ Len(Zeros(size)) = size
      /\ \A k \in 1 .. size : Zeros(size)[k] = NUL
  BY ZerosAre
<1>3. CASE data = NULL
  <2>1. Moved(size) = Zeros(size)
    BY <1>3 DEF Moved
  <2>2. length = 0
    BY <1>1, <1>3, EmptySeq DEF ObjectInv
  <2>3. QED
    BY <1>2, <2>1, <2>2
<1>4. CASE data # NULL
  <2> DEFINE p == SubSeq(data, 1, length)
  <2>1. Moved(size) = Copied(Zeros(size), 0, p)
    BY <1>4 DEF Moved
  <2>2. /\ data \in Seq(Cells) /\ length + 1 =< Len(data) /\ Len(data) \in Nat
        /\ \A k \in 1 .. length : data[k] = joined[k]
    BY <1>4, LenProperties DEF ObjectInv, Filled
  <2>3. p \in Seq(Cells) /\ Len(p) = length /\ \A k \in 1 .. length : p[k] = data[k]
    <3>1. 1 \in Int /\ length \in Int /\ 1 =< 1 /\ 1 - 1 =< length /\ length =< Len(data)
      BY <1>1, <2>2
    <3>2. /\ p \in Seq(Cells) /\ Len(p) = length - 1 + 1
          /\ \A k \in 1 .. length - 1 + 1 : p[k] = data[1 + k - 1]
      BY <2>2, <3>1, Piece
    <3> HIDE DEF p
    <3>3. length - 1 + 1 = length /\ \A k \in 1 .. length : 1 + k - 1 = k
      BY <1>1
    <3>4. QED
      BY <3>2, <3>3
  <2> HIDE DEF p
  <2> DEFINE z == Zeros(size)
             g == Copied(z, 0, p)
  <2>4. z \in Seq(Cells) /\ 0 \in Nat
    BY <1>2
  <2> HIDE DEF z
  <2>5. /\ g \in Seq(Cells) /\ Len(g) = Len(z)
        /\ \A k \in 1 .. Len(z) : /\ k - 0 \in 1 .. Len(p) => g[k] = p[k - 0]
                                  /\ k - 0 \notin 1 .. Len(p) => g[k] = z[k]
    BY <2>3, <2>4, CopiedIs
  <2> HIDE DEF g
  <2>6. Len(z) = size /\ \A k \in 1 .. size : z[k] = NUL /\ k - 0 = k
    BY <1>2 DEF z
  <2>7. \A k \in 1 .. size : (k \in 1 .. length => g[k] = p[k]) /\ (k \notin 1 .. length => g[k] = z[k])
    BY <2>3, <2>5, <2>6
  <2>8. \A k \in 1 .. length : g[k] = joined[k]
    BY <1>1, <2>2, <2>3, <2>7
  <2>9. \A k \in length + 1 .. size : g[k] = NUL
    BY <1>1, <2>6, <2>7
  <2>10. QED
    BY <2>1, <2>5, <2>6, <2>8, <2>9 DEF g, z
<1>5. QED
  BY <1>3, <1>4

\* Any of the appending functions, from what its new block holds.
LEMMA Grown ==
  ASSUME ObjectInv, NEW u \in Seq(Chars),
         data' \in Seq(Cells), Len(data') = length + Len(u) + 1,
         \A k \in 1 .. length : data'[k] = joined[k],
         \A k \in 1 .. Len(u) : data'[length + k] = u[k],
         data'[length + Len(u) + 1] = NUL,
         Replaced, joined' = joined \o u, length' = length + Len(u),
         beyond' \in BOOLEAN, nothing' \in BOOLEAN, beyond' => nothing'
  PROVE  ObjectInv'
<1> DEFINE m == Len(u)
           v == joined \o u
<1>1. joined \in Seq(Chars) /\ length = Len(joined) /\ length \in Nat /\ m \in Nat
  BY LenProperties DEF ObjectInv
<1>2. /\ v \in Seq(Chars) /\ Len(v) = length + m
      /\ \A k \in 1 .. length : v[k] = joined[k]
      /\ \A k \in 1 .. m : v[length + k] = u[k]
  BY <1>1, Joined
<1> HIDE DEF v, m
<1>3. data' # NULL
  <2>1. Len(data') > 0 /\ Len(<<>>) = 0
    BY <1>1 DEF m
  <2>2. QED
    BY <2>1 DEF NULL
<1>4. ASSUME NEW k \in 1 .. length + m PROVE data'[k] = v[k]
  <2>1. CASE k =< length
    <3>1. k \in 1 .. length
      BY <1>1, <2>1
    <3>2. QED
      BY <1>2, <3>1
  <2>2. CASE k > length
    <3>1. k - length \in 1 .. m /\ length + (k - length) = k
      BY <1>1, <2>2
    <3>2. data'[length + (k - length)] = u[k - length] /\ v[length + (k - length)] = u[k - length]
      BY <1>2, <3>1 DEF m
    <3>3. QED
      BY <3>1, <3>2
  <2>3. QED
    BY <1>1, <2>1, <2>2
<1>5. blocks' = 1
  BY DEF ObjectInv, Replaced
<1>6. joined' = v /\ length' = length + m
  BY DEF v, m
<1>7. /\ data' \in Seq(Cells) /\ length' + 1 =< Len(data')
      /\ \A k \in 1 .. length' : data'[k] = joined'[k]
      /\ data'[length' + 1] = NUL
  BY <1>1, <1>4, <1>6 DEF m
<1>8. /\ joined' \in Seq(Chars) /\ length' = Len(joined')
      /\ beyond' \in BOOLEAN /\ nothing' \in BOOLEAN /\ (beyond' => nothing')
  BY <1>2, <1>6
<1>9. NULL' = NULL
  BY DEF NULL
<1> HIDE DEF NULL
<1>10. QED
  BY <1>3, <1>5, <1>7, <1>8, <1>9 DEF ObjectInv, Filled, NUL

LEMMA AppendCharInv ==
  ASSUME ObjectInv, NEW c \in Alphabet, StringAppendChar(c)
  PROVE  ObjectInv'
<1> DEFINE u == <<c>>
           e == <<c, NUL>>
           b == Moved(length + 2)
           g == Copied(b, length, e)
<1>1. joined \in Seq(Chars) /\ length \in Nat /\ c \in Chars
  BY LenProperties, StringsAssumption DEF ObjectInv, Chars
<1>2. u \in Seq(Chars) /\ Len(u) = 1 /\ u[1] = c
  BY <1>1, OneSeq
<1>3. e \in Seq(Cells) /\ Len(e) = 2 /\ e[1] = c /\ e[2] = NUL
  <2>1. c \in Cells /\ NUL \in Cells
    BY <1>1 DEF Chars, Cells, NUL
  <2>2. QED
    BY <2>1
<1>4. /\ b \in Seq(Cells) /\ Len(b) = length + 2
      /\ \A k \in 1 .. length : b[k] = joined[k]
  <2>1. length + 2 \in Nat /\ length =< length + 2
    BY <1>1
  <2>2. QED
    BY <2>1, MovedIs
<1>5. /\ Replaced /\ data' = g /\ length' = length + 1 /\ joined' = Append(joined, c)
      /\ beyond' = beyond /\ nothing' = nothing
  BY DEF StringAppendChar
<1>6. joined' = joined \o u
  BY <1>1, <1>5, AppendIsConcat
<1> HIDE DEF u, e, b
<1>7. /\ g \in Seq(Cells) /\ Len(g) = Len(b)
      /\ \A k \in 1 .. Len(b) : /\ k - length \in 1 .. Len(e) => g[k] = e[k - length]
                                /\ k - length \notin 1 .. Len(e) => g[k] = b[k]
  BY <1>1, <1>3, <1>4, CopiedIs
<1> HIDE DEF g
<1>8. \A k \in 1 .. length : g[k] = joined[k]
  <2> TAKE k \in 1 .. length
  <2>1. k \in 1 .. Len(b) /\ k - length \notin 1 .. Len(e)
    BY <1>1, <1>3, <1>4
  <2>2. QED
    BY <1>4, <1>7, <2>1
<1>9. g[length + 1] = c /\ g[length + 2] = NUL
  <2>1. /\ length + 1 \in 1 .. Len(b) /\ (length + 1) - length = 1 /\ 1 \in 1 .. Len(e)
        /\ length + 2 \in 1 .. Len(b) /\ (length + 2) - length = 2 /\ 2 \in 1 .. Len(e)
    BY <1>1, <1>3, <1>4
  <2>2. g[length + 1] = e[(length + 1) - length] /\ g[length + 2] = e[(length + 2) - length]
    BY <1>7, <2>1
  <2>3. QED
    BY <1>3, <2>1, <2>2
<1>10. /\ data' \in Seq(Cells) /\ Len(data') = length + Len(u) + 1
       /\ \A k \in 1 .. length : data'[k] = joined[k]
       /\ \A k \in 1 .. Len(u) : data'[length + k] = u[k]
       /\ data'[length + Len(u) + 1] = NUL
       /\ length' = length + Len(u)
  <2>1. length + 1 + 1 = length + 2
    BY <1>1
  <2>2. \A k \in 1 .. Len(u) : k = 1
    BY <1>2
  <2>3. QED
    BY <1>2, <1>4, <1>5, <1>7, <1>8, <1>9, <2>1, <2>2
<1>11. beyond' \in BOOLEAN /\ nothing' \in BOOLEAN /\ (beyond' => nothing')
  BY <1>5 DEF ObjectInv
<1>12. QED
  BY <1>2, <1>5, <1>6, <1>10, <1>11, Grown

LEMMA AlignedIs ==
  ASSUME NEW n \in Nat
  PROVE  Aligned(n) \in Nat /\ Aligned(n) >= n
<1>1. MEM_ALIGN \in Nat /\ MEM_ALIGN > 0
  BY StringObjectAssumption
<1>2. (-n) % MEM_ALIGN \in Nat
  BY <1>1
<1>3. QED
  BY <1>2 DEF Aligned

LEMMA AppendInv ==
  ASSUME ObjectInv, NEW u \in Seq(Chars), StringAppend(u)
  PROVE  ObjectInv'
<1> DEFINE m == Len(u)
           size == length + m + 1
           b == Moved(size)
           h == Copied(b, length, u)
           e == <<NUL>>
           at == length + m
           g == Copied(h, at, e)
<1>1. joined \in Seq(Chars) /\ length \in Nat /\ m \in Nat /\ u \in Seq(Cells)
  BY LenProperties, CharsAreCells DEF ObjectInv
<1>2. /\ Replaced /\ data' = g /\ length' = length + m /\ joined' = joined \o u
      /\ beyond' = (beyond \/ length + 2 > Aligned(size))
      /\ nothing' = (nothing \/ (u = <<>> /\ Aligned(length + 1) = length + 1))
  BY DEF StringAppend
<1>3. size \in Nat /\ at \in Nat /\ size = at + 1 /\ length =< size
  BY <1>1
<1>4. beyond' \in BOOLEAN /\ nothing' \in BOOLEAN /\ (beyond' => nothing')
  <2>1. ASSUME length + 2 > Aligned(size) PROVE u = <<>> /\ Aligned(length + 1) = length + 1
    <3>1. Aligned(size) \in Nat /\ Aligned(size) >= size
      BY <1>3, AlignedIs
    <3>2. m = 0
      BY <1>1, <2>1, <3>1
    <3>3. u = <<>>
      BY <3>2, EmptySeq
    <3>4. size = length + 1
      BY <1>1, <3>2
    <3>5. QED
      BY <1>1, <2>1, <3>1, <3>3, <3>4
  <2> DEFINE x == length + 2 > Aligned(size)
             y == u = <<>> /\ Aligned(length + 1) = length + 1
  <2>2. x => y
    BY <2>1
  <2>3. beyond' = (beyond \/ x) /\ nothing' = (nothing \/ y)
    BY <1>2
  <2> HIDE DEF x, y
  <2>4. beyond \in BOOLEAN /\ nothing \in BOOLEAN /\ (beyond => nothing)
    BY DEF ObjectInv
  <2>5. QED
    BY <2>2, <2>3, <2>4
<1>5. /\ b \in Seq(Cells) /\ Len(b) = size /\ \A k \in 1 .. length : b[k] = joined[k]
  <2> HIDE DEF size
  <2>1. QED
    BY <1>3, MovedIs
<1>6. e \in Seq(Cells) /\ Len(e) = 1 /\ e[1] = NUL
  <2>1. NUL \in Cells
    BY DEF Cells, NUL
  <2>2. QED
    BY <2>1, OneSeq
<1> HIDE DEF b, e, size
<1>7. /\ h \in Seq(Cells) /\ Len(h) = Len(b)
      /\ \A k \in 1 .. Len(b) : /\ k - length \in 1 .. Len(u) => h[k] = u[k - length]
                                /\ k - length \notin 1 .. Len(u) => h[k] = b[k]
  BY <1>1, <1>5, CopiedIs
<1> HIDE DEF h, at
<1>8. /\ g \in Seq(Cells) /\ Len(g) = Len(h)
      /\ \A k \in 1 .. Len(h) : /\ k - at \in 1 .. Len(e) => g[k] = e[k - at]
                                /\ k - at \notin 1 .. Len(e) => g[k] = h[k]
  BY <1>3, <1>6, <1>7, CopiedIs
<1> HIDE DEF g, m
<1>9. at = length + m /\ m = Len(u)
  BY DEF at, m
<1>10. \A k \in 1 .. length : g[k] = joined[k]
  <2> TAKE k \in 1 .. length
  <2>1. k \in 1 .. size /\ k - length \notin 1 .. m /\ k - at \notin 1 .. 1
    BY <1>1, <1>3, <1>9
  <2>2. QED
    BY <1>5, <1>6, <1>7, <1>8, <1>9, <2>1
<1>11. \A k \in 1 .. m : g[length + k] = u[k]
  <2> TAKE k \in 1 .. m
  <2>1. /\ length + k \in 1 .. size /\ (length + k) - length = k /\ (length + k) - at \notin 1 .. 1
    BY <1>1, <1>3, <1>9
  <2>2. g[length + k] = h[length + k]
    BY <1>5, <1>6, <1>7, <1>8, <2>1
  <2>3. h[length + k] = u[(length + k) - length]
    BY <1>5, <1>7, <1>9, <2>1
  <2>4. QED
    BY <2>1, <2>2, <2>3
<1>12. g[size] = NUL
  <2>1. size \in 1 .. size /\ size - at = 1 /\ 1 \in 1 .. 1
    BY <1>3
  <2>2. g[size] = e[size - at]
    BY <1>5, <1>6, <1>7, <1>8, <2>1
  <2>3. QED
    BY <1>6, <2>1, <2>2
<1>13. /\ data' \in Seq(Cells) /\ Len(data') = length + Len(u) + 1
       /\ \A k \in 1 .. length : data'[k] = joined[k]
       /\ \A k \in 1 .. Len(u) : data'[length + k] = u[k]
       /\ data'[length + Len(u) + 1] = NUL
       /\ length' = length + Len(u)
  <2>1. size = length + Len(u) + 1
    BY <1>9 DEF size
  <2>2. QED
    BY <1>2, <1>5, <1>7, <1>8, <1>9, <1>10, <1>11, <1>12, <2>1
<1>14. QED
  BY <1>2, <1>4, <1>13, Grown

LEMMA CreateInv ==
  ASSUME ObjectInv, NEW s \in Words, StringCreate(s)
  PROVE  ObjectInv'
<1>1. s \in Seq(Chars) /\ s \in Seq(Cells) /\ Len(s) \in Nat
  <2>1. s \in Seq(Chars)
    BY StringsAssumption DEF Chars
  <2>2. QED
    BY <2>1, CharsAreCells
<1>2. /\ data = NULL /\ length' = Len(s) /\ joined' = s /\ beyond' = beyond /\ nothing' = nothing
      /\ blocks = 0
      /\ data' = IF s = <<>> THEN NULL ELSE Copied(Zeros(Len(s) + 1), 0, s)
      /\ blocks' = IF s = <<>> THEN blocks ELSE blocks + 1
  BY DEF StringCreate, ObjectInv
<1>3. beyond' \in BOOLEAN /\ nothing' \in BOOLEAN /\ (beyond' => nothing')
  BY <1>2 DEF ObjectInv
<1>4. NULL' = NULL
  BY DEF NULL
<1>5. CASE s = <<>>
  <2>1. data' = NULL /\ blocks' = 0
    BY <1>2, <1>5
  <2>2. QED
    BY <1>1, <1>2, <1>3, <1>4, <1>5, <2>1 DEF ObjectInv
<1>6. CASE s # <<>>
  <2> DEFINE n == Len(s)
             z == Zeros(n + 1)
             g == Copied(z, 0, s)
  <2>1. n + 1 \in Nat /\ 0 \in Nat /\ n \in Nat
    BY <1>1
  <2>2. z \in Seq(Cells) /\ Len(z) = n + 1 /\ \A k \in 1 .. n + 1 : z[k] = NUL
    BY <2>1, ZerosAre
  <2> HIDE DEF z
  <2>3. /\ g \in Seq(Cells) /\ Len(g) = Len(z)
        /\ \A k \in 1 .. Len(z) : /\ k - 0 \in 1 .. Len(s) => g[k] = s[k - 0]
                                  /\ k - 0 \notin 1 .. Len(s) => g[k] = z[k]
    BY <1>1, <2>1, <2>2, CopiedIs
  <2>4. data' = g /\ blocks' = 1
    BY <1>2, <1>6 DEF z
  <2> HIDE DEF g
  <2>5. \A k \in 1 .. n + 1 : (k \in 1 .. n => g[k] = s[k]) /\ (k \notin 1 .. n => g[k] = NUL)
    <3>1. \A k \in 1 .. n + 1 : k - 0 = k
      BY <2>1
    <3>2. QED
      BY <2>2, <2>3, <3>1
  <2> HIDE DEF n
  <2>6. /\ data' \in Seq(Cells) /\ n + 1 =< Len(data')
        /\ \A k \in 1 .. n : data'[k] = s[k]
        /\ data'[n + 1] = NUL
    BY <2>1, <2>2, <2>3, <2>4, <2>5
  <2>7. data' # NULL
    <3>1. Len(data') > 0 /\ Len(<<>>) = 0
      BY <2>1, <2>2, <2>3, <2>4
    <3>2. QED
      BY <3>1 DEF NULL
  <2>8. Filled(data)'
    BY <1>2, <2>6 DEF Filled, n, NUL
  <2>9. QED
    BY <1>1, <1>2, <1>3, <1>4, <2>4, <2>7, <2>8 DEF ObjectInv
<1>7. QED
  BY <1>5, <1>6

LEMMA ObjectInitInv ==
  ASSUME ObjectInit
  PROVE  ObjectInv
<1>1. <<>> \in Seq(Chars) /\ Len(<<>>) = 0
  BY EmptySeq
<1>2. /\ data = NULL /\ length = 0 /\ blocks = 0 /\ beyond = FALSE
      /\ joined = <<>> /\ nothing = FALSE
  BY DEF ObjectInit
<1>3. joined \in Seq(Chars) /\ length = Len(joined)
  BY <1>1, <1>2
<1>4. beyond \in BOOLEAN /\ nothing \in BOOLEAN /\ (beyond => nothing)
  BY <1>2
<1>5. blocks = IF data = NULL THEN 0 ELSE 1
  BY <1>2
<1>6. QED
  BY <1>2, <1>3, <1>4, <1>5 DEF ObjectInv

LEMMA ObjectNextInv ==
  ASSUME ObjectInv, ObjectNext
  PROVE  ObjectInv'
<1>1. ASSUME NEW s \in Words, StringCreate(s) PROVE ObjectInv'
  BY <1>1, CreateInv
<1>2. CASE StringClear
  <2>1. /\ data' = NULL /\ length' = 0 /\ joined' = <<>> /\ beyond' = beyond /\ nothing' = nothing
        /\ blocks' = 0
    BY <1>2 DEF StringClear, ObjectInv
  <2>2. NULL' = NULL /\ <<>> \in Seq(Chars) /\ Len(<<>>) = 0
    BY EmptySeq DEF NULL
  <2>3. beyond' \in BOOLEAN /\ nothing' \in BOOLEAN /\ (beyond' => nothing')
    BY <2>1 DEF ObjectInv
  <2>4. QED
    BY <2>1, <2>2, <2>3 DEF ObjectInv
<1>3. ASSUME NEW s \in Words, StringAppend(s) PROVE ObjectInv'
  <2>1. s \in Seq(Chars)
    BY StringsAssumption DEF Chars
  <2>2. QED
    BY <1>3, <2>1, AppendInv
<1>4. ASSUME NEW c \in Alphabet, StringAppendChar(c) PROVE ObjectInv'
  BY <1>4, AppendCharInv
<1>5. ASSUME NEW n \in Shown, NEW base \in {10, 16}, StringAppendInt(n, base) PROVE ObjectInv'
  <2>1. n \in Nat /\ base \in {2, 10, 16}
    BY StringsAssumption, NumbersAssumption
  <2>2. ultoa(n, base) \in Seq(Figures \cup Letters) /\ ultoa(n, base) # <<>>
    BY <2>1, UltoaReads
  <2>3. ultoa(n, base) \in Seq(Chars)
    BY <2>2, FiguresAreChars
  <2>4. StringAppend(ultoa(n, base))
    BY <1>5 DEF StringAppendInt
  <2>5. QED
    BY <2>3, <2>4, AppendInv
<1>6. QED
  BY <1>1, <1>2, <1>3, <1>4, <1>5 DEF ObjectNext

LEMMA ObjectSame ==
  ASSUME ObjectInv, UNCHANGED objectVars
  PROVE  ObjectInv'
BY DEF ObjectInv, objectVars, Filled, NULL, NUL

LEMMA ObjectKeptWhenFilled ==
  ASSUME ObjectInv
  PROVE  ObjectKept
<1>1. joined \in Seq(Chars) /\ length = Len(joined) /\ length \in Nat /\ (beyond => nothing)
  BY LenProperties DEF ObjectInv
<1>2. CASE data = NULL
  BY <1>1, <1>2 DEF ObjectInv, ObjectKept
<1>3. CASE data # NULL
  <2> DEFINE p == SubSeq(data, 1, length + 1)
             a == Append(joined, NUL)
  <2>1. /\ data \in Seq(Cells) /\ length + 1 =< Len(data)
        /\ \A k \in 1 .. length : data[k] = joined[k]
        /\ data[length + 1] = NUL /\ blocks = 1
    BY <1>3 DEF ObjectInv, Filled
  <2>2. p \in Seq(Cells) /\ Len(p) = length + 1 /\ \A k \in 1 .. length + 1 : p[k] = data[k]
    <3> DEFINE m == length + 1
    <3>1. 1 \in Int /\ m \in Int /\ 1 =< 1 /\ 1 - 1 =< m /\ m =< Len(data)
      BY <1>1, <2>1
    <3> HIDE DEF m
    <3>2. /\ SubSeq(data, 1, m) \in Seq(Cells) /\ Len(SubSeq(data, 1, m)) = m - 1 + 1
          /\ \A k \in 1 .. m - 1 + 1 : SubSeq(data, 1, m)[k] = data[1 + k - 1]
      BY <2>1, <3>1, Piece
    <3>3. m - 1 + 1 = m /\ \A k \in 1 .. m : 1 + k - 1 = k
      BY <3>1
    <3>4. QED
      BY <3>2, <3>3 DEF m
  <2>3. a \in Seq(Int) /\ Len(a) = length + 1
    <3>1. joined \in Seq(Int) /\ NUL \in Int
      BY <1>1, CharsOf DEF NUL
    <3>2. QED
      BY <1>1, <3>1, AppendProperties
  <2>4. a[length + 1] = NUL /\ \A k \in 1 .. length : a[k] = joined[k]
    BY <1>1, Ended
  <2> HIDE DEF p, a
  <2>5. \A k \in 1 .. length + 1 : p[k] = a[k]
    <3> TAKE k \in 1 .. length + 1
    <3>1. k \in 1 .. length \/ k = length + 1
      BY <1>1
    <3>2. QED
      BY <2>1, <2>2, <2>4, <3>1
  <2>6. p = a
    BY <2>2, <2>3, <2>5, Same
  <2>7. QED
    BY <1>1, <1>3, <2>1, <2>6 DEF ObjectKept, p, a
<1>4. QED
  BY <1>2, <1>3

-----------------------------------------------------------------------------
(* The clock.                                                              *)

TimesOfDay == [second : 0 .. 59, minute : 0 .. 59, hour : 0 .. 23,
               day : 1 .. 31, month : 1 .. 12, year : 2000 .. 2099]

Decoded == [second : 0 .. 59, minute : 0 .. 59, hour : 0 .. 255,
            day : 1 .. 31, month : 1 .. 12, year : 0 .. 2099]

Octet == 0 .. 255
Years == 0 .. 2099

\* A time of day whose hour and year were decoded in another way.
DecodedAs(t, decoded, century) ==
  [second |-> t.second, minute |-> t.minute, hour |-> decoded,
   day |-> t.day, month |-> t.month, year |-> century]

LEMMA DecodedAsDecoded ==
  ASSUME NEW t \in TimesOfDay, NEW decoded \in Octet, NEW century \in Years
  PROVE  DecodedAs(t, decoded, century) \in Decoded
<1>1. t.second \in 0 .. 59 /\ t.minute \in 0 .. 59 /\ t.day \in 1 .. 31 /\ t.month \in 1 .. 12
  BY DEF TimesOfDay
<1>2. QED
  BY <1>1 DEF Decoded, DecodedAs, Octet, Years

\* What the time is to be for the moment the clock was asked at.
Promised == [second |-> asked.second, minute |-> asked.minute,
             hour |-> IF Misread THEN time.hour ELSE asked.hour,
             day |-> asked.day, month |-> asked.month,
             year |-> IF mode.bcd THEN asked.year ELSE asked.year % 100]

\* What a time is written as.
Text(t, military, seconds, short) ==
  [chars |-> TimeString(t, military, seconds) \o <<SPACE>> \o DateString(t, short),
   military |-> military, seconds |-> seconds]

Displayed(s) == \E military, seconds, short \in BOOLEAN : s = Text(time, military, seconds, short)

ClockInv ==
  /\ mode \in Modes
  /\ asked # NONE_YET => asked \in TimesOfDay /\ time \in Decoded /\ time = Promised
  /\ packed # NONE_YET => asked # NONE_YET /\ packed = Packed(time)
  /\ shown # NONE_YET => asked # NONE_YET /\ Displayed(shown)

\* Two BCD digits in a byte are the number they stand for.
LEMMA BcdDecimal ==
  ASSUME NEW n \in 0 .. 99
  PROVE  Decimal((n \div 10) * 16 + (n % 10)) = n
<1> DEFINE a == n \div 10
           c == n % 10
           r == a * 16 + c
<1>1. a \in 0 .. 9 /\ c \in 0 .. 9 /\ n = a * 10 + c
  OBVIOUS
<1> HIDE DEF a, c
<1>2. r % 16 = c /\ r \div 16 = a
  BY <1>1
<1> HIDE DEF r
<1>3. c + a * 10 = n /\ n % 256 = n
  BY <1>1
<1>4. QED
  BY <1>2, <1>3 DEF Decimal, Byte, r, a, c

LEMMA HourDecoded ==
  ASSUME NEW hour \in 0 .. 23, mode \in Modes, mode.bcd
  PROVE  /\ DecodedHour(HourRegister(mode, hour)) \in 0 .. 255
         /\ ~mode.twelve \/ hour \in 1 .. 11 => DecodedHour(HourRegister(mode, hour)) = hour
<1> DEFINE reg == HourRegister(mode, hour)
           low(h) == (h \div 10) * 16 + (h % 10)
<1>1. \A h : Bcd(mode, h) = low(h)
  BY DEF Bcd
<1>2. ASSUME NEW h \in 0 .. 23 PROVE low(h) \in 0 .. 35 /\ Decimal(low(h)) = h
  <2>1. h \in 0 .. 99
    OBVIOUS
  <2>2. Decimal(low(h)) = h
    BY <2>1, BcdDecimal
  <2>3. h \div 10 \in 0 .. 2 /\ h % 10 \in 0 .. 9 /\ (h \div 10 = 2 => h % 10 =< 3)
    OBVIOUS
  <2>4. low(h) \in 0 .. 35
    BY <2>3
  <2>5. QED
    BY <2>2, <2>4
<1> HIDE DEF low
<1>3. ASSUME NEW n \in 0 .. 255 PROVE DecodedHour(n) \in 0 .. 255
  <2>1. Decimal(n) \in 0 .. 255
    BY DEF Decimal, Byte
  <2> DEFINE d == Decimal(n)
  <2> HIDE DEF d
  <2>2. DecodedHour(n) = IF n >= 128 /\ d < 128 THEN d + 128 ELSE d
    BY DEF DecodedHour, d
  <2>3. QED
    BY <2>1, <2>2 DEF d
<1>4. ASSUME NEW h \in 0 .. 23 PROVE DecodedHour(low(h)) = h
  <2>1. low(h) \in 0 .. 35 /\ Decimal(low(h)) = h
    BY <1>2
  <2>2. ~(low(h) >= 128)
    BY <2>1
  <2>3. QED
    BY <2>1, <2>2 DEF DecodedHour
<1>5. CASE ~mode.twelve
  <2>1. reg = low(hour)
    BY <1>1, <1>5 DEF HourRegister
  <2>2. DecodedHour(reg) = hour
    BY <1>4, <2>1
  <2>3. QED
    BY <2>2
<1>6. CASE mode.twelve
  <2> DEFINE h == IF hour % 12 = 0 THEN 12 ELSE hour % 12
  <2>1. reg = low(h) + (IF hour >= 12 THEN 128 ELSE 0)
    BY <1>1, <1>6 DEF HourRegister
  <2>2. h \in 0 .. 23 /\ (hour \in 1 .. 11 => h = hour)
    OBVIOUS
  <2> HIDE DEF h, reg
  <2>3. low(h) \in 0 .. 35
    BY <1>2, <2>2
  <2>4. reg \in 0 .. 255
    BY <2>1, <2>3
  <2>5. ASSUME hour \in 1 .. 11 PROVE DecodedHour(reg) = hour
    <3>1. reg = low(hour)
      BY <2>1, <2>2, <2>3, <2>5
    <3>2. QED
      BY <1>4, <3>1
  <2>6. QED
    BY <1>3, <1>6, <2>4, <2>5 DEF reg
<1>7. QED
  BY <1>5, <1>6

LEMMA RtcReadInv ==
  ASSUME ClockInv, NEW t \in Moments, RtcRead(t)
  PROVE  ClockInv'
<1> DEFINE raw == [second |-> Bcd(mode, t.second), minute |-> Bcd(mode, t.minute),
                   hour |-> HourRegister(mode, t.hour), day |-> Bcd(mode, t.day),
                   month |-> Bcd(mode, t.month), year |-> Bcd(mode, t.year % 100)]
<1>1. t \in TimesOfDay /\ mode \in Modes
  BY TimeAssumption DEF TimesOfDay, ClockInv
<1>2. /\ t.second \in 0 .. 59 /\ t.minute \in 0 .. 59 /\ t.hour \in 0 .. 23 /\ t.day \in 1 .. 31
      /\ t.month \in 1 .. 12 /\ t.year \in 2000 .. 2099
      /\ mode.bcd \in BOOLEAN /\ mode.twelve \in BOOLEAN
  BY <1>1 DEF TimesOfDay, Modes
<1>3. /\ asked' = t /\ packed' = NONE_YET /\ shown' = NONE_YET /\ mode' = mode
      /\ time' = IF mode.bcd
                   THEN [second |-> Decimal(raw.second), minute |-> Decimal(raw.minute),
                         hour |-> DecodedHour(raw.hour), day |-> Decimal(raw.day),
                         month |-> Decimal(raw.month), year |-> Century(Decimal(raw.year))]
                   ELSE raw
  BY DEF RtcRead
<1>4. time' \in Decoded /\ time' = Promised'
  <2> DEFINE misread == mode.twelve /\ t.hour \notin 1 .. 11
             promised == [second |-> t.second, minute |-> t.minute,
                          hour |-> IF misread THEN time'.hour ELSE t.hour,
                          day |-> t.day, month |-> t.month,
                          year |-> IF mode.bcd THEN t.year ELSE t.year % 100]
  <2>1. Promised' = promised
    BY <1>3 DEF Promised, Misread
  <2>2. t.year % 100 \in 0 .. 99 /\ t.year = 2000 + (t.year % 100)
    <3> DEFINE y == t.year
    <3>1. y \in 2000 .. 2099
      BY <1>2
    <3> HIDE DEF y
    <3>2. y % 100 \in 0 .. 99 /\ y = 2000 + (y % 100)
      BY <3>1
    <3>3. QED
      BY <3>2 DEF y
  <2>3. CASE mode.bcd
    <3>1. \A n \in 0 .. 99 : Decimal(Bcd(mode, n)) = n
      BY <2>3, BcdDecimal DEF Bcd
    <3>2. /\ Decimal(raw.second) = t.second /\ Decimal(raw.minute) = t.minute
          /\ Decimal(raw.day) = t.day /\ Decimal(raw.month) = t.month
          /\ Decimal(raw.year) = t.year % 100
      <4>1. /\ t.second \in 0 .. 99 /\ t.minute \in 0 .. 99 /\ t.day \in 0 .. 99
            /\ t.month \in 0 .. 99 /\ t.year % 100 \in 0 .. 99
        BY <1>2, <2>2
      <4>2. QED
        BY <3>1, <4>1
    <3> DEFINE hour == DecodedHour(HourRegister(mode, t.hour))
    <3>3. hour \in 0 .. 255 /\ (~misread => hour = t.hour)
      BY <1>1, <1>2, <2>3, HourDecoded
    <3>4. raw.hour = HourRegister(mode, t.hour)
      OBVIOUS
    <3> HIDE DEF raw
    <3>5. time' = [second |-> t.second, minute |-> t.minute, hour |-> hour,
                   day |-> t.day, month |-> t.month, year |-> (t.year % 100) + 2000]
      BY <1>3, <2>3, <3>2, <3>4 DEF Century
    <3>6. (t.year % 100) + 2000 = t.year
      BY <1>2, <2>2
    <3> HIDE DEF hour
    <3>7. time' = [second |-> t.second, minute |-> t.minute, hour |-> hour,
                   day |-> t.day, month |-> t.month, year |-> t.year]
      BY <3>5, <3>6
    <3>8. t.year \in 0 .. 2099
      BY <1>2
    <3>9. time' \in Decoded
      BY <1>2, <3>3, <3>7, <3>8 DEF Decoded
    <3>10. promised = [second |-> t.second, minute |-> t.minute, hour |-> hour,
                       day |-> t.day, month |-> t.month, year |-> t.year]
      BY <2>3, <3>3, <3>7
    <3>11. QED
      BY <2>1, <3>7, <3>9, <3>10
  <2>4. CASE ~mode.bcd
    <3> DEFINE hour == HourRegister(mode, t.hour)
    <3>1. \A n : Bcd(mode, n) = n
      BY <2>4 DEF Bcd
    <3>2. hour \in 0 .. 255 /\ (~misread => hour = t.hour)
      <4> DEFINE h == t.hour
      <4>1. hour = IF ~mode.twelve THEN h ELSE (IF h % 12 = 0 THEN 12 ELSE h % 12) + (IF h >= 12 THEN 128 ELSE 0)
        BY <3>1 DEF HourRegister
      <4>2. h \in 0 .. 23 /\ (misread <=> mode.twelve /\ h \notin 1 .. 11)
        BY <1>2
      <4> HIDE DEF h, hour, misread
      <4>3. hour \in 0 .. 255
        BY <4>1, <4>2
      <4>4. ~misread => hour = h
        <5>1. h \in 1 .. 11 => h % 12 = h /\ h # 0 /\ ~(h >= 12)
          OBVIOUS
        <5>2. h + 0 = h
          BY <4>2
        <5>3. QED
          BY <4>1, <4>2, <5>1, <5>2
      <4>5. QED
        BY <4>3, <4>4 DEF h
    <3>3. time' = [second |-> t.second, minute |-> t.minute, hour |-> hour,
                   day |-> t.day, month |-> t.month, year |-> t.year % 100]
      BY <1>3, <2>4, <3>1
    <3> HIDE DEF hour, raw
    <3>4. t.year % 100 \in 0 .. 2099
      BY <2>2
    <3>5. time' \in Decoded
      <4>1. hour \in Octet /\ t.year % 100 \in Years
        BY <3>2, <3>4 DEF Octet, Years
      <4>2. DecodedAs(t, hour, t.year % 100) \in Decoded
        BY <1>1, <4>1, DecodedAsDecoded
      <4>3. time' = DecodedAs(t, hour, t.year % 100)
        BY <3>3 DEF DecodedAs
      <4>4. QED
        BY <4>2, <4>3
    <3>6. promised = [second |-> t.second, minute |-> t.minute, hour |-> hour,
                      day |-> t.day, month |-> t.month, year |-> t.year % 100]
      BY <2>4, <3>2, <3>3
    <3>7. QED
      BY <2>1, <3>3, <3>5, <3>6
  <2>5. QED
    BY <2>3, <2>4
<1>5. asked' \in TimesOfDay /\ mode' \in Modes
  BY <1>1, <1>3
<1>6. NONE_YET' = NONE_YET
  BY DEF NONE_YET
<1> HIDE DEF raw
<1>7. packed' = NONE_YET' /\ shown' = NONE_YET'
  BY <1>3, <1>6
<1>8. QED
  BY <1>4, <1>5, <1>7 DEF ClockInv, TimesOfDay, Decoded, Modes

\* A time of day is what its packed form is unpacked to.
LEMMA UnpackedPacked ==
  ASSUME NEW t \in Decoded
  PROVE  Unpacked(Packed(t)) = t
<1>1. /\ t.day \in 1 .. 31 /\ t.year \in 0 .. 2099
      /\ t = [second |-> t.second, minute |-> t.minute, hour |-> t.hour,
              day |-> t.day, month |-> t.month, year |-> t.year]
  BY DEF Decoded
<1>2. (t.year \div 256) * 256 + (t.year % 256) = t.year
  <2> DEFINE y == t.year
  <2>1. y \in Nat
    BY <1>1, SMTT(30)
  <2> HIDE DEF y
  <2>2. (y \div 256) * 256 + (y % 256) = y
    BY <2>1
  <2>3. QED
    BY <2>2 DEF y
<1>3. ~(t.day >= 128)
  BY <1>1
<1>4. Packed(t) = <<0, t.second, t.minute, t.hour, t.day, t.month, t.year \div 256, t.year % 256>>
  BY <1>3 DEF Packed
<1> DEFINE b == Packed(t)
<1>5. /\ b[2] = t.second /\ b[3] = t.minute /\ b[4] = t.hour /\ b[5] = t.day /\ b[6] = t.month
      /\ b[7] = t.year \div 256 /\ b[8] = t.year % 256
  BY <1>4
<1> HIDE DEF b
<1>6. Unpacked(b) = [second |-> t.second, minute |-> t.minute, hour |-> t.hour,
                     day |-> t.day, month |-> t.month, year |-> t.year]
  BY <1>2, <1>5 DEF Unpacked
<1>7. QED
  BY <1>1, <1>6 DEF b

LEMMA ClockSame ==
  ASSUME ClockInv, asked' = asked, mode' = mode, time' = time,
         \/ packed' = packed
         \/ asked # NONE_YET /\ packed' = Packed(time),
         \/ shown' = shown
         \/ asked # NONE_YET /\ Displayed(shown')
  PROVE  ClockInv'
<1>1. Promised' = Promised /\ NONE_YET' = NONE_YET
  BY DEF Promised, Misread, NONE_YET
<1>3. mode' \in Modes /\ (asked' # NONE_YET => asked' \in TimesOfDay /\ time' \in Decoded /\ time' = Promised')
  BY <1>1 DEF ClockInv
<1>4. packed' # NONE_YET => asked' # NONE_YET /\ packed' = Packed(time')
  BY DEF ClockInv
<1>5. shown' # NONE_YET => asked' # NONE_YET /\ Displayed(shown')
  BY DEF ClockInv
<1>6. shown' # NONE_YET => Displayed(shown)'
  BY <1>5 DEF Displayed
<1>7. QED
  BY <1>1, <1>3, <1>4, <1>5, <1>6 DEF ClockInv, TimesOfDay, Decoded, Modes

LEMMA ClockNextInv ==
  ASSUME ClockInv, ClockNext
  PROVE  ClockInv'
<1>1. ASSUME NEW t \in Moments, RtcRead(t) PROVE ClockInv'
  BY <1>1, RtcReadInv
<1>2. CASE TimePack
  <2>1. /\ asked # NONE_YET /\ packed' = Packed(time)
        /\ asked' = asked /\ mode' = mode /\ time' = time /\ shown' = shown
    BY <1>2 DEF TimePack
  <2>2. QED
    BY <2>1, ClockSame
<1>3. CASE TimeUnpack
  <2>1. /\ packed # NONE_YET /\ time' = Unpacked(packed)
        /\ asked' = asked /\ mode' = mode /\ packed' = packed /\ shown' = shown
    BY <1>3 DEF TimeUnpack
  <2>2. time \in Decoded /\ packed = Packed(time)
    BY <2>1 DEF ClockInv
  <2>3. time' = time
    BY <2>1, <2>2, UnpackedPacked
  <2>4. QED
    BY <2>1, <2>3, ClockSame
<1>4. ASSUME NEW military \in BOOLEAN, NEW seconds \in BOOLEAN, NEW short \in BOOLEAN,
             TimeStringTimedate(military, seconds, short)
      PROVE  ClockInv'
  <2>1. /\ asked # NONE_YET
        /\ shown' = [chars |-> TimeString(time, military, seconds) \o <<SPACE>> \o DateString(time, short),
                     military |-> military, seconds |-> seconds]
        /\ asked' = asked /\ mode' = mode /\ time' = time /\ packed' = packed
    BY <1>4 DEF TimeStringTimedate
  <2>2. Displayed(shown')
    BY <2>1 DEF Displayed, Text
  <2>3. QED
    BY <2>1, <2>2, ClockSame
<1>5. QED
  BY <1>1, <1>2, <1>3, <1>4 DEF ClockNext

-----------------------------------------------------------------------------
(* Reading a time back from what is shown.                                 *)

\* What is left of a sequence without its first element.
LEMMA ConsTail ==
  ASSUME NEW x \in Int, NEW s \in Seq(Int)
  PROVE  Tail(<<x>> \o s) = s /\ (<<x>> \o s)[1] = x /\ <<x>> \o s \in Seq(Int)
<1> DEFINE o == <<x>>
           t == o \o s
<1>1. o \in Seq(Int) /\ Len(o) = 1 /\ o[1] = x
  BY OneSeq
<1> HIDE DEF o
<1>2. /\ t \in Seq(Int) /\ Len(t) = 1 + Len(s) /\ Len(s) \in Nat /\ t[1] = x
      /\ \A k \in 1 .. Len(s) : t[1 + k] = s[k]
  <2>1. /\ t \in Seq(Int) /\ Len(t) = Len(o) + Len(s) /\ Len(s) \in Nat
        /\ \A k \in 1 .. Len(o) : t[k] = o[k]
        /\ \A k \in 1 .. Len(s) : t[Len(o) + k] = s[k]
    <3>1. o \in Seq(Int)
      BY <1>1
    <3>2. QED
      BY <3>1, Joined
  <2>2. 1 \in 1 .. Len(o)
    BY <1>1
  <2>3. QED
    BY <1>1, <2>1, <2>2
<1> HIDE DEF t
<1>3. t # <<>>
  BY <1>2, EmptySeq
<1>4. /\ Tail(t) \in Seq(Int) /\ Len(Tail(t)) = Len(t) - 1
      /\ \A k \in 1 .. Len(Tail(t)) : Tail(t)[k] = t[k + 1]
  BY <1>2, <1>3, HeadTailProperties
<1>5. Len(Tail(t)) = Len(s) /\ \A k \in 1 .. Len(Tail(t)) : Tail(t)[k] = s[k]
  BY <1>2, <1>4
<1>6. Tail(t) = s
  BY <1>4, <1>5, Same
<1>7. QED
  BY <1>2, <1>6 DEF t, o

\* What is in front of a character and what is behind it.
LEMMA Parted ==
  ASSUME NEW a \in Seq(Int), NEW b \in Seq(Int), NEW stop \in Int,
         \A k \in 1 .. Len(a) : a[k] # stop
  PROVE  /\ Until(a \o (<<stop>> \o b), stop) = a
         /\ Behind(a \o (<<stop>> \o b), stop) = b
<1> DEFINE c == <<stop>> \o b
           s == a \o c
           n == Len(a)
           m == Len(b)
<1>1. <<stop>> \in Seq(Int) /\ Len(<<stop>>) = 1 /\ <<stop>>[1] = stop
  BY OneSeq
<1>2. /\ c \in Seq(Int) /\ Len(c) = 1 + m /\ m \in Nat /\ c[1] = stop
      /\ \A k \in 1 .. m : c[1 + k] = b[k]
  <2>1. /\ <<stop>> \o b \in Seq(Int) /\ Len(<<stop>> \o b) = Len(<<stop>>) + Len(b)
        /\ Len(b) \in Nat
        /\ \A k \in 1 .. Len(<<stop>>) : (<<stop>> \o b)[k] = <<stop>>[k]
        /\ \A k \in 1 .. Len(b) : (<<stop>> \o b)[Len(<<stop>>) + k] = b[k]
    BY <1>1, Joined
  <2>2. 1 \in 1 .. Len(<<stop>>)
    BY <1>1
  <2>3. QED
    BY <1>1, <2>1, <2>2
<1> HIDE DEF c, m
<1>3. /\ s \in Seq(Int) /\ Len(s) = n + Len(c) /\ n \in Nat
      /\ \A k \in 1 .. n : s[k] = a[k]
      /\ \A k \in 1 .. Len(c) : s[n + k] = c[k]
  <2>1. c \in Seq(Int)
    BY <1>2
  <2>2. QED
    BY <2>1, Joined
<1> HIDE DEF s, n
<1>4. /\ Len(s) = n + (1 + m) /\ s[n + 1] = stop /\ n + 1 \in 1 .. Len(s)
      /\ \A k \in 1 .. m : s[n + (1 + k)] = b[k]
  <2>1. 1 \in 1 .. Len(c) /\ \A k \in 1 .. m : 1 + k \in 1 .. Len(c)
    BY <1>2
  <2>2. QED
    BY <1>2, <1>3, <2>1
<1> DEFINE Stops(k) == /\ k \in 1 .. Len(s) /\ s[k] = stop
                       /\ \A i \in 1 .. k - 1 : s[i] # stop
           at == CHOOSE k : Stops(k)
<1>5. \A i \in 1 .. n : s[i] # stop
  BY <1>3 DEF n
<1>6. at = n + 1
  <2>1. Stops(n + 1)
    <3>1. (n + 1) - 1 = n
      BY <1>3
    <3>2. QED
      BY <1>4, <1>5, <3>1
  <2> HIDE DEF Stops
  <2>2. Stops(at)
    BY <2>1
  <2> HIDE DEF at
  <2> USE DEF Stops
  <2>3. at \in Nat /\ at >= 1 /\ s[at] = stop
    BY <2>2
  <2>4. ~(at =< n)
    <3> SUFFICES ASSUME at =< n PROVE FALSE
      OBVIOUS
    <3>1. at \in 1 .. n
      BY <1>3, <2>3
    <3>2. QED
      BY <1>5, <2>3, <3>1
  <2>5. ~(at > n + 1)
    <3> SUFFICES ASSUME at > n + 1 PROVE FALSE
      OBVIOUS
    <3>1. n + 1 \in 1 .. at - 1
      BY <1>3, <2>3
    <3>2. QED
      BY <1>4, <2>2, <3>1
  <2>6. QED
    BY <1>3, <2>3, <2>4, <2>5
<1>7. Until(s, stop) = SubSeq(s, 1, at - 1)
  BY DEF Until
<1> HIDE DEF at
<1>8. Until(s, stop) = a
  <2>1. 1 \in Int /\ n \in Int /\ 1 =< 1 /\ 1 - 1 =< n /\ n =< Len(s) /\ (n + 1) - 1 = n
    BY <1>2, <1>3, <1>4
  <2>2. /\ SubSeq(s, 1, n) \in Seq(Int) /\ Len(SubSeq(s, 1, n)) = n - 1 + 1
        /\ \A i \in 1 .. n - 1 + 1 : SubSeq(s, 1, n)[i] = s[1 + i - 1]
    BY <1>3, <2>1, Piece
  <2>3. n - 1 + 1 = n /\ \A i \in 1 .. n : 1 + i - 1 = i
    BY <1>3
  <2>4. SubSeq(s, 1, n) \in Seq(Int) /\ Len(SubSeq(s, 1, n)) = Len(a)
    BY <2>2, <2>3 DEF n
  <2>5. \A i \in 1 .. Len(SubSeq(s, 1, n)) : SubSeq(s, 1, n)[i] = a[i]
    BY <1>3, <2>2, <2>3
  <2>6. SubSeq(s, 1, n) = a
    BY <2>4, <2>5, Same
  <2>7. QED
    BY <1>6, <1>7, <2>1, <2>6
<1>9. Behind(s, stop) = b
  <2> DEFINE p == n + 2
             L == Len(s)
  <2>1. Behind(s, stop) = SubSeq(s, p, L)
    BY <1>8 DEF Behind, n
  <2>2. p \in Int /\ L \in Int /\ 1 =< p /\ p - 1 =< L /\ L =< Len(s) /\ L - p + 1 = m
    BY <1>2, <1>3, <1>4
  <2>3. \A i \in 1 .. m : p + i - 1 = n + (1 + i)
    BY <1>3
  <2> HIDE DEF p, L
  <2>4. /\ SubSeq(s, p, L) \in Seq(Int) /\ Len(SubSeq(s, p, L)) = L - p + 1
        /\ \A i \in 1 .. L - p + 1 : SubSeq(s, p, L)[i] = s[p + i - 1]
    BY <1>3, <2>2, Piece
  <2>5. SubSeq(s, p, L) \in Seq(Int) /\ Len(SubSeq(s, p, L)) = Len(b)
    BY <2>2, <2>4 DEF m
  <2>6. \A i \in 1 .. Len(SubSeq(s, p, L)) : SubSeq(s, p, L)[i] = b[i]
    BY <1>4, <2>2, <2>3, <2>4
  <2>7. SubSeq(s, p, L) = b
    BY <2>5, <2>6, Same
  <2>8. QED
    BY <2>1, <2>7
<1>10. QED
  BY <1>8, <1>9 DEF s, c

\* Digits are none of the characters that part a time.
LEMMA FiguresPart ==
  ASSUME NEW s \in Seq(Figures)
  PROVE  /\ s \in Seq(Int)
         /\ \A k \in 1 .. Len(s) : s[k] # COLON /\ s[k] # SPACE /\ s[k] # COMMA
<1>1. Figures \subseteq Int
  BY DEF Figures
<1>2. s \in Seq(Int)
  BY <1>1, SeqMonotonic
<1>3. \A k \in 1 .. Len(s) : s[k] \in Figures
  BY ElementOfSeq
<1>4. \A c \in Figures : c # COLON /\ c # SPACE /\ c # COMMA
  BY DEF Figures, COLON, SPACE, COMMA
<1>5. QED
  BY <1>2, <1>3, <1>4

LEMMA DecimalWritten ==
  ASSUME NEW n \in Nat
  PROVE  ultoa(n, 10) \in Seq(Figures) /\ Number(ultoa(n, 10)) = n
<1>1. 10 \in {2, 10, 16} /\ 10 # 16
  OBVIOUS
<1>2. QED
  BY <1>1, UltoaReads DEF Number

\* One digit behind a zero.
LEMMA ZeroInFront ==
  ASSUME NEW n \in 0 .. 9
  PROVE  <<Zero>> \o ultoa(n, 10) \in Seq(Figures) /\ Number(<<Zero>> \o ultoa(n, 10)) = n
<1> DEFINE c == n + Zero
<1>1. ultoa(n, 10) = <<c>>
  BY UltoaSmall
<1>2. c \in Figures /\ Zero \in Figures /\ c \in Int /\ Zero \in Int /\ isdigit(Zero) /\ isdigit(c)
      /\ c - 48 = n /\ Zero - 48 = 0
  BY DEF Figures, Zero, isdigit
<1> HIDE DEF c
<1>3. <<Zero>> \o <<c>> = Append(<<Zero>>, c) /\ <<Zero>> \in Seq(Figures) /\ <<Zero>> \in Seq(Int)
      /\ <<c>> \in Seq(Figures)
  BY <1>2, AppendIsConcat, OneSeq
<1>4. <<Zero>> \o <<c>> \in Seq(Figures)
  BY <1>3, ConcatProperties
<1>5. 10 \in Int
  OBVIOUS
<1>6. Value(Append(<<Zero>>, c), 10) = Value(<<Zero>>, 10) * 10 + DigitValue(c)
  BY <1>2, <1>3, <1>5, ValueAppend
<1>7. Value(<<Zero>>, 10) = DigitValue(Zero)
  BY <1>2, <1>5, ValueOne
<1>8. DigitValue(Zero) = 0 /\ DigitValue(c) = n
  BY <1>2, DigitValueInt
<1>9. 0 * 10 + n = n
  OBVIOUS
<1>10. QED
  BY <1>1, <1>3, <1>4, <1>6, <1>7, <1>8, <1>9 DEF Number

LEMMA PaddedReads ==
  ASSUME NEW n \in Nat
  PROVE  Padded(n) \in Seq(Figures) /\ Number(Padded(n)) = n
<1>1. CASE n < 10
  <2>1. n \in 0 .. 9 /\ Padded(n) = <<Zero>> \o ultoa(n, 10)
    BY <1>1 DEF Padded
  <2>2. QED
    BY <2>1, ZeroInFront
<1>2. CASE ~(n < 10)
  <2>1. Padded(n) = ultoa(n, 10)
    BY <1>2 DEF Padded
  <2>2. QED
    BY <2>1, DecimalWritten
<1>3. QED
  BY <1>1, <1>2

\* The hour of a 12-hour display.
Twelve(hour) == IF hour > 12 THEN hour - 12 ELSE hour

LEMMA TwelveReads ==
  ASSUME NEW hour \in Nat
  PROVE  LET s == (IF hour < 10 THEN <<Zero>> ELSE <<>>) \o ultoa(Twelve(hour), 10)
         IN  s \in Seq(Figures) /\ Number(s) = Twelve(hour)
<1> DEFINE n == Twelve(hour)
<1>1. n \in Nat /\ (hour < 10 => n \in 0 .. 9)
  BY DEF Twelve
<1> HIDE DEF n
<1>2. CASE hour < 10
  <2>1. <<Zero>> \o ultoa(n, 10) \in Seq(Figures) /\ Number(<<Zero>> \o ultoa(n, 10)) = n
    BY <1>1, <1>2, ZeroInFront
  <2>2. QED
    BY <1>2, <2>1 DEF n
<1>3. CASE ~(hour < 10)
  <2>1. ultoa(n, 10) \in Seq(Figures) /\ Number(ultoa(n, 10)) = n
    BY <1>1, DecimalWritten
  <2>2. <<>> \o ultoa(n, 10) = ultoa(n, 10)
    BY <2>1, ConcatEmptySeq
  <2>3. QED
    BY <1>3, <2>1, <2>2 DEF n
<1>4. QED
  BY <1>2, <1>3

\* The date, read from the text behind its last space.
LEMMA DateReads ==
  ASSUME NEW t \in Decoded, NEW short \in BOOLEAN
  PROVE  LET date == DateString(t, short) IN
         /\ date \in Seq(Int)
         /\ date[1] % 1000 = t.month
         /\ Number(Until(Tail(Tail(date)), COMMA)) = t.day
         /\ Number(Tail(Behind(Tail(Tail(date)), COMMA))) = t.year
<1> DEFINE mon == MonthName(t.month, short)
           d == ultoa(t.day, 10)
           y == ultoa(t.year, 10)
           r == <<SPACE>> \o y
           u == d \o (<<COMMA>> \o r)
           h == <<mon, SPACE>>
<1>1. t.day \in Nat /\ t.year \in Nat /\ t.month \in 1 .. 12
  BY SMTT(30) DEF Decoded
<1>2. /\ d \in Seq(Figures) /\ Number(d) = t.day /\ y \in Seq(Figures) /\ Number(y) = t.year
  BY <1>1, DecimalWritten
<1>3. mon \in Int /\ mon % 1000 = t.month
  <2> DEFINE m == t.month
  <2>1. m \in 1 .. 12
    BY <1>1
  <2>2. mon = (IF short THEN 1000 ELSE 2000) + m
    BY <2>1 DEF MonthName
  <2> HIDE DEF m, mon
  <2>3. mon \in Int /\ mon % 1000 = m
    BY <2>1, <2>2
  <2>4. QED
    BY <2>3 DEF m
<1>4. SPACE \in Int /\ COMMA \in Int
  BY DEF SPACE, COMMA
<1>5. DateString(t, short) = ((h \o d) \o <<COMMA, SPACE>>) \o y
  BY DEF DateString
<1>6. /\ d \in Seq(Int) /\ y \in Seq(Int)
      /\ \A k \in 1 .. Len(d) : d[k] # COMMA
  BY <1>2, FiguresPart
<1> HIDE DEF d, y, mon
<1>7. /\ h \in Seq(Int) /\ <<COMMA, SPACE>> \in Seq(Int) /\ <<COMMA>> \in Seq(Int) /\ <<SPACE>> \in Seq(Int)
      /\ <<COMMA, SPACE>> = <<COMMA>> \o <<SPACE>>
      /\ h = <<mon>> \o <<SPACE>> /\ <<mon>> \in Seq(Int) /\ <<mon>>[1] = mon /\ Len(<<mon>>) = 1
      /\ h[1] = mon /\ Len(h) = 2
  <2>1. /\ h \in Seq(Int) /\ <<COMMA, SPACE>> \in Seq(Int) /\ <<COMMA>> \in Seq(Int) /\ <<SPACE>> \in Seq(Int)
        /\ <<mon>> \in Seq(Int) /\ <<mon>>[1] = mon /\ Len(<<mon>>) = 1
        /\ h[1] = mon /\ Len(h) = 2
    BY <1>3, <1>4
  <2>2. <<COMMA, SPACE>> = <<COMMA>> \o <<SPACE>> /\ h = <<mon>> \o <<SPACE>>
    BY <1>3, <1>4
  <2>3. QED
    BY <2>1, <2>2
<1>8. r \in Seq(Int) /\ u \in Seq(Int)
  BY <1>6, <1>7, ConcatProperties
<1>9. DateString(t, short) = h \o u
  <2>1. (h \o d) \o <<COMMA, SPACE>> = h \o (d \o <<COMMA, SPACE>>) /\ d \o <<COMMA, SPACE>> \in Seq(Int)
    BY <1>6, <1>7, ConcatAssociative, ConcatProperties
  <2>2. (h \o (d \o <<COMMA, SPACE>>)) \o y = h \o ((d \o <<COMMA, SPACE>>) \o y)
    BY <1>6, <1>7, <2>1, ConcatAssociative, SMTT(30)
  <2>3. (d \o <<COMMA, SPACE>>) \o y = d \o (<<COMMA, SPACE>> \o y)
    BY <1>6, <1>7, ConcatAssociative, SMTT(30)
  <2>4. (<<COMMA>> \o <<SPACE>>) \o y = <<COMMA>> \o (<<SPACE>> \o y)
    BY <1>6, <1>7, ConcatAssociative
  <2>5. QED
    BY <1>5, <1>7, <2>1, <2>2, <2>3, <2>4
<1>10. Until(u, COMMA) = d /\ Behind(u, COMMA) = r
  <2> HIDE DEF r
  <2>1. QED
    BY <1>4, <1>6, <1>8, Parted
<1>11. Tail(r) = y
  BY <1>4, <1>6, ConsTail
<1>12. h \o u \in Seq(Int) /\ (h \o u)[1] = mon /\ Tail(Tail(h \o u)) = u
  <2> HIDE DEF u
  <2>1. h \o u = <<mon>> \o (<<SPACE>> \o u) /\ <<SPACE>> \o u \in Seq(Int)
    <3>1. <<mon>> \in Seq(Int) /\ <<SPACE>> \in Seq(Int) /\ h = <<mon>> \o <<SPACE>>
      BY <1>7
    <3> HIDE DEF h
    <3>2. (<<mon>> \o <<SPACE>>) \o u = <<mon>> \o (<<SPACE>> \o u)
      BY <1>8, <3>1, ConcatAssociative
    <3>3. <<SPACE>> \o u \in Seq(Int)
      BY <1>8, <3>1, ConcatProperties
    <3>4. QED
      BY <3>1, <3>2, <3>3
  <2>2. Tail(<<mon>> \o (<<SPACE>> \o u)) = <<SPACE>> \o u
    BY <1>3, <2>1, ConsTail
  <2>3. Tail(<<SPACE>> \o u) = u
    BY <1>4, <1>8, ConsTail
  <2>4. h \o u \in Seq(Int) /\ (h \o u)[1] = mon
    <3>1. 1 \in 1 .. Len(h)
      BY <1>7
    <3> HIDE DEF h
    <3>2. h \o u \in Seq(Int) /\ \A k \in 1 .. Len(h) : (h \o u)[k] = h[k]
      BY <1>7, <1>8, Joined
    <3>3. QED
      BY <1>7, <3>1, <3>2
  <2>5. QED
    BY <2>1, <2>2, <2>3, <2>4
<1> DEFINE date == DateString(t, short)
<1> HIDE DEF h, u, r, date
<1>13. date = h \o u
  BY <1>9 DEF date
<1>14. /\ date \in Seq(Int) /\ date[1] % 1000 = t.month /\ Tail(Tail(date)) = u
  BY <1>3, <1>12, <1>13
<1>15. /\ Number(Until(Tail(Tail(date)), COMMA)) = t.day
       /\ Number(Tail(Behind(Tail(Tail(date)), COMMA))) = t.year
  BY <1>2, <1>10, <1>11, <1>14
<1>16. QED
  BY <1>14, <1>15 DEF date

LEMMA Regrouped ==
  \A x, y, z \in Seq(Int) : (x \o y) \o z = x \o (y \o z)
BY ConcatAssociative, SMTT(30)

LEMMA FieldsOf ==
  ASSUME NEW t \in Decoded
  PROVE  /\ t.second \in 0 .. 59 /\ t.minute \in 0 .. 59 /\ t.hour \in 0 .. 255
         /\ t.second \in Nat /\ t.minute \in Nat /\ t.hour \in Nat
<1>1. t.second \in 0 .. 59 /\ t.minute \in 0 .. 59 /\ t.hour \in 0 .. 255
  BY DEF Decoded
<1>2. QED
  BY <1>1

IntFields == [second : Int, minute : Int, hour : Int, day : Int, month : Int, year : Int]

LEMMA TwoFields ==
  ASSUME NEW r \in IntFields, NEW h \in Int, NEW y \in Int
  PROVE  [r EXCEPT !.hour = h, !.year = y]
           = [second |-> r.second, minute |-> r.minute, hour |-> h,
              day |-> r.day, month |-> r.month, year |-> y]
<1> DEFINE p == [r EXCEPT !.hour = h, !.year = y]
           q == [second |-> r.second, minute |-> r.minute, hour |-> h,
                 day |-> r.day, month |-> r.month, year |-> y]
<1>1. p \in IntFields
  BY DEF IntFields
<1>2. /\ p.second = r.second /\ p.minute = r.minute /\ p.hour = h
      /\ p.day = r.day /\ p.month = r.month /\ p.year = y
  BY DEF IntFields
<1>3. /\ q \in IntFields
      /\ q.second = r.second /\ q.minute = r.minute /\ q.hour = h
      /\ q.day = r.day /\ q.month = r.month /\ q.year = y
  BY DEF IntFields
<1> HIDE DEF p, q
<1>4. p = q
  BY <1>1, <1>2, <1>3 DEF IntFields
<1>5. QED
  BY <1>4 DEF p, q

\* What is in front of and behind what TimeString joins.
AllText(a, b, c, d, e, f, g) ==
  /\ a \in Seq(Int) /\ b \in Seq(Int) /\ c \in Seq(Int) /\ d \in Seq(Int)
  /\ e \in Seq(Int) /\ f \in Seq(Int) /\ g \in Seq(Int)

InOrder(a, b, c, d, e, f, g) == (((((a \o b) \o c) \o d) \o e) \o f) \o g
InParts(a, b, c, d, e, f, g) == a \o (b \o ((c \o d) \o (e \o (f \o g))))

LEMMA Chained ==
  ASSUME NEW a, NEW b, NEW c, NEW d, NEW e, NEW f, NEW g
  PROVE  AllText(a, b, c, d, e, f, g) => InOrder(a, b, c, d, e, f, g) = InParts(a, b, c, d, e, f, g)
<1> SUFFICES ASSUME AllText(a, b, c, d, e, f, g)
             PROVE  (((((a \o b) \o c) \o d) \o e) \o f) \o g = a \o (b \o ((c \o d) \o (e \o (f \o g))))
  BY DEF InOrder, InParts
<1>0. /\ a \in Seq(Int) /\ b \in Seq(Int) /\ c \in Seq(Int) /\ d \in Seq(Int)
      /\ e \in Seq(Int) /\ f \in Seq(Int) /\ g \in Seq(Int)
  BY DEF AllText
<1> DEFINE y  == a \o b
           cd == c \o d
           fg == f \o g
<1>1. y \in Seq(Int) /\ cd \in Seq(Int) /\ fg \in Seq(Int)
  BY <1>0, ConcatProperties
<1> HIDE DEF y, cd, fg
<1>2. y \in Seq(Int) /\ c \in Seq(Int) /\ d \in Seq(Int)
  BY <1>0, <1>1
<1>3. (y \o c) \o d = y \o (c \o d)
  BY <1>2, Regrouped
<1> DEFINE r == e \o fg
           x == y \o cd
<1>4. r \in Seq(Int) /\ x \in Seq(Int)
  BY <1>0, <1>1, ConcatProperties
<1> HIDE DEF r, x
<1>5. (x \o e) \o fg = x \o (e \o fg)
  <2>1. x \in Seq(Int) /\ e \in Seq(Int) /\ fg \in Seq(Int)
    BY <1>0, <1>1, <1>4
  <2>2. QED
    BY <2>1, Regrouped
<1> DEFINE xe == x \o e
           z  == cd \o r
<1>6. xe \in Seq(Int) /\ z \in Seq(Int)
  BY <1>0, <1>1, <1>4, ConcatProperties
<1> HIDE DEF xe, z
<1>7. (xe \o f) \o g = xe \o (f \o g)
  <2>1. xe \in Seq(Int) /\ f \in Seq(Int) /\ g \in Seq(Int)
    BY <1>0, <1>6
  <2>2. QED
    BY <2>1, Regrouped
<1>8. (y \o cd) \o r = y \o (cd \o r)
  <2>1. y \in Seq(Int) /\ cd \in Seq(Int) /\ r \in Seq(Int)
    BY <1>1, <1>4
  <2>2. QED
    BY <2>1, Regrouped
<1>9. (a \o b) \o z = a \o (b \o z)
  <2>1. a \in Seq(Int) /\ b \in Seq(Int) /\ z \in Seq(Int)
    BY <1>0, <1>6
  <2>2. QED
    BY <2>1, Regrouped
<1>10. (((a \o b) \o c) \o d) = x
  BY <1>3 DEF x, y, cd
<1>11. ((x \o e) \o f) \o g = x \o r
  BY <1>5, <1>7 DEF xe, fg, r
<1>12. x \o r = a \o (b \o z)
  BY <1>8, <1>9 DEF x, y, z
<1>13. z = (c \o d) \o (e \o (f \o g))
  BY DEF z, cd, r, fg
<1>14. QED
  BY <1>10, <1>11, <1>12, <1>13

\* What is read from the text a time was written to.
LEMMA ShownReads ==
  ASSUME NEW t \in Decoded, NEW military \in BOOLEAN, NEW seconds \in BOOLEAN, NEW short \in BOOLEAN,
         NEW s, s = Text(t, military, seconds, short)
  PROVE  /\ t.hour \in 0 .. 23 => ReadBack(s).hour = t.hour
         /\ ReadBack(s).minute = t.minute
         /\ ReadBack(s).second = IF seconds THEN t.second ELSE asked.second
         /\ ReadBack(s).month = t.month
         /\ ReadBack(s).day = t.day
         /\ ReadBack(s).year = t.year
<1> DEFINE H == IF military THEN Padded(t.hour)
                ELSE (IF t.hour < 10 THEN <<Zero>> ELSE <<>>) \o ultoa(Twelve(t.hour), 10)
           P == Padded(t.minute)
           sec == ultoa(t.second, 10)
           S == IF seconds THEN <<COLON>> \o sec ELSE <<>>
           AP == IF t.hour >= 12 THEN 80 ELSE 65
           half == <<AP, 77>>
           T == IF military THEN <<>> ELSE <<SPACE, AP, 77>>
           D == DateString(t, short)
           B == <<SPACE>>
           C == <<COLON>>
           BD == B \o D
           late == IF military THEN D ELSE half \o BD
           PS == P \o S
           tail == PS \o (B \o late)
<1>1. t.hour \in 0 .. 255 /\ t.minute \in Nat /\ t.second \in Nat /\ t.hour \in Nat
  BY FieldsOf
<1>2. P \in Seq(Figures) /\ Number(P) = t.minute /\ sec \in Seq(Figures) /\ Number(sec) = t.second
  BY <1>1, PaddedReads, DecimalWritten
<1>3. H \in Seq(Figures) /\ Number(H) = IF military THEN t.hour ELSE Twelve(t.hour)
  <2>1. Padded(t.hour) \in Seq(Figures) /\ Number(Padded(t.hour)) = t.hour
    BY <1>1, PaddedReads
  <2> DEFINE G == (IF t.hour < 10 THEN <<Zero>> ELSE <<>>) \o ultoa(Twelve(t.hour), 10)
  <2>2. G \in Seq(Figures) /\ Number(G) = Twelve(t.hour)
    BY <1>1, TwelveReads
  <2>3. H = IF military THEN Padded(t.hour) ELSE G
    OBVIOUS
  <2> HIDE DEF G, H
  <2>4. QED
    BY <2>1, <2>2, <2>3
<1>4. /\ D \in Seq(Int) /\ D[1] % 1000 = t.month
      /\ Number(Until(Tail(Tail(D)), COMMA)) = t.day
      /\ Number(Tail(Behind(Tail(Tail(D)), COMMA))) = t.year
  BY DateReads
<1>5. TimeString(t, military, seconds) = (((H \o C) \o P) \o S) \o T
  BY DEF TimeString, Twelve
<1>6. s.chars = (((((H \o C) \o P) \o S) \o T) \o B) \o D /\ s.military = military /\ s.seconds = seconds
  <2>1. /\ s.chars = TimeString(t, military, seconds) \o <<SPACE>> \o DateString(t, short)
        /\ s.military = military /\ s.seconds = seconds
    BY DEF Text
  <2>2. QED
    BY <1>5, <2>1
<1>7. COLON \in Int /\ SPACE \in Int /\ COLON # SPACE /\ AP \in {65, 80} /\ AP # SPACE /\ 77 # SPACE /\ AP \in Int
  BY DEF COLON, SPACE
<1> HIDE DEF H, P, sec, D, AP
<1>8. /\ H \in Seq(Int) /\ \A k \in 1 .. Len(H) : H[k] # COLON
      /\ P \in Seq(Int) /\ \A k \in 1 .. Len(P) : P[k] # COLON /\ P[k] # SPACE
      /\ sec \in Seq(Int) /\ \A k \in 1 .. Len(sec) : sec[k] # SPACE
  BY <1>2, <1>3, FiguresPart
<1>9. B \in Seq(Int) /\ C \in Seq(Int) /\ half \in Seq(Int) /\ half[1] = AP /\ half[2] = 77 /\ Len(half) = 2
  BY <1>7
<1>10. S \in Seq(Int) /\ \A k \in 1 .. Len(S) : S[k] # SPACE
  <2>1. CASE seconds
    <3> DEFINE cs == C \o sec
    <3>1. C \in Seq(Int) /\ Len(C) = 1 /\ C[1] = COLON
      BY <1>7, OneSeq
    <3>2. S = cs
      BY <2>1
    <3> HIDE DEF C, S
    <3>3. /\ cs \in Seq(Int) /\ Len(cs) = Len(C) + Len(sec) /\ Len(sec) \in Nat
          /\ \A k \in 1 .. Len(C) : cs[k] = C[k]
          /\ \A k \in 1 .. Len(sec) : cs[Len(C) + k] = sec[k]
      <4>1. C \in Seq(Int) /\ sec \in Seq(Int)
        BY <1>8, <3>1
      <4>2. QED
        BY <4>1, Joined
    <3> HIDE DEF cs
    <3>4. ASSUME NEW k \in 1 .. Len(cs) PROVE cs[k] # SPACE
      <4>1. CASE k = 1
        <5>1. 1 \in 1 .. Len(C)
          BY <3>1
        <5>2. QED
          BY <1>7, <3>1, <3>3, <4>1, <5>1
      <4>2. CASE k > 1
        <5>1. k - 1 \in 1 .. Len(sec) /\ Len(C) + (k - 1) = k
          BY <3>1, <3>3, <4>2
        <5>2. cs[Len(C) + (k - 1)] = sec[k - 1]
          BY <3>3, <5>1
        <5>3. QED
          BY <1>8, <5>1, <5>2
      <4>3. QED
        BY <3>1, <3>3, <4>1, <4>2
    <3>5. QED
      BY <3>2, <3>3, <3>4
  <2>2. CASE ~seconds
    <3>1. S = <<>> /\ <<>> \in Seq(Int) /\ 1 .. Len(<<>>) = {}
      BY <2>2
    <3>2. QED
      BY <3>1
  <2>3. QED
    BY <2>1, <2>2
<1>11. BD \in Seq(Int) /\ late \in Seq(Int) /\ T \in Seq(Int)
  <2>1. BD \in Seq(Int)
    BY <1>4, <1>9, ConcatProperties
  <2> HIDE DEF BD
  <2>2. half \o BD \in Seq(Int)
    BY <1>9, <2>1, ConcatProperties
  <2>3. <<>> \in Seq(Int) /\ <<SPACE, AP, 77>> \in Seq(Int)
    BY <1>7
  <2> HIDE DEF half
  <2>4. QED
    BY <1>4, <2>1, <2>2, <2>3
<1>12. T \o BD = B \o late
  <2>1. CASE military
    <3>1. T = <<>> /\ late = D
      BY <2>1
    <3>2. <<>> \o BD = BD
      BY <1>11, ConcatEmptySeq
    <3>3. QED
      BY <3>1, <3>2
  <2>2. CASE ~military
    <3>1. T = <<SPACE, AP, 77>> /\ late = half \o BD
      BY <2>2
    <3>2. <<SPACE, AP, 77>> = B \o half
      BY <1>7
    <3> HIDE DEF B, half, BD
    <3>3. (B \o half) \o BD = B \o (half \o BD)
      <4>1. B \in Seq(Int) /\ half \in Seq(Int) /\ BD \in Seq(Int)
        BY <1>9, <1>11
      <4>2. QED
        BY <4>1, Regrouped
    <3>4. QED
      BY <3>1, <3>2, <3>3
  <2>3. QED
    BY <2>1, <2>2
<1>13. s.chars = H \o (C \o tail)
  <2> HIDE DEF B, C, S, T
  <2>1. (((((H \o C) \o P) \o S) \o T) \o B) \o D = H \o (C \o ((P \o S) \o (T \o (B \o D))))
    <3>1. /\ H \in Seq(Int) /\ C \in Seq(Int) /\ P \in Seq(Int) /\ S \in Seq(Int)
          /\ T \in Seq(Int) /\ B \in Seq(Int) /\ D \in Seq(Int)
      BY <1>4, <1>8, <1>9, <1>10, <1>11
    <3>2. AllText(H, C, P, S, T, B, D)
      BY <3>1 DEF AllText
    <3>3. InOrder(H, C, P, S, T, B, D) = InParts(H, C, P, S, T, B, D)
      BY <3>2, Chained
    <3>4. QED
      BY <3>3 DEF InOrder, InParts
  <2>2. QED
    BY <1>6, <1>12, <2>1
<1>14. PS \in Seq(Int) /\ \A k \in 1 .. Len(PS) : PS[k] # SPACE
  <2> HIDE DEF S
  <2>1. /\ PS \in Seq(Int) /\ Len(PS) = Len(P) + Len(S) /\ Len(P) \in Nat /\ Len(S) \in Nat
        /\ \A k \in 1 .. Len(P) : PS[k] = P[k]
        /\ \A k \in 1 .. Len(S) : PS[Len(P) + k] = S[k]
    BY <1>8, <1>10, Joined
  <2> HIDE DEF PS
  <2>2. ASSUME NEW k \in 1 .. Len(PS) PROVE PS[k] # SPACE
    <3>1. CASE k =< Len(P)
      <4>1. k \in 1 .. Len(P)
        BY <2>1, <3>1
      <4>2. QED
        BY <1>8, <2>1, <4>1
    <3>2. CASE k > Len(P)
      <4>1. k - Len(P) \in 1 .. Len(S) /\ Len(P) + (k - Len(P)) = k
        BY <2>1, <3>2
      <4>2. PS[Len(P) + (k - Len(P))] = S[k - Len(P)]
        BY <2>1, <4>1
      <4>3. QED
        BY <1>10, <4>1, <4>2
    <3>3. QED
      BY <2>1, <3>1, <3>2
  <2>3. QED
    BY <2>1, <2>2
<1>15. tail \in Seq(Int)
  <2>1. B \o late \in Seq(Int)
    BY <1>9, <1>11, ConcatProperties
  <2> DEFINE bl == B \o late
  <2>2. bl \in Seq(Int)
    BY <2>1
  <2> HIDE DEF bl, PS
  <2>3. PS \o bl \in Seq(Int)
    BY <1>14, <2>2, ConcatProperties
  <2>4. QED
    BY <2>3 DEF bl
<1>16. Until(s.chars, COLON) = H /\ Behind(s.chars, COLON) = tail
  <2> HIDE DEF tail
  <2>1. H \in Seq(Int) /\ tail \in Seq(Int) /\ COLON \in Int /\ \A k \in 1 .. Len(H) : H[k] # COLON
    BY <1>7, <1>8, <1>15
  <2>2. /\ Until(H \o (<<COLON>> \o tail), COLON) = H
        /\ Behind(H \o (<<COLON>> \o tail), COLON) = tail
    BY <2>1, Parted
  <2>3. QED
    BY <1>13, <2>2
<1>17. Until(tail, SPACE) = PS /\ Behind(tail, SPACE) = late
  <2> HIDE DEF PS, late
  <2>1. QED
    BY <1>7, <1>11, <1>14, Parted
<1>18. ~military => late[1] = AP /\ Behind(late, SPACE) = D
  <2> SUFFICES ASSUME ~military PROVE (half \o BD)[1] = AP /\ Behind(half \o BD, SPACE) = D
    OBVIOUS
  <2>1. \A k \in 1 .. Len(half) : half[k] # SPACE
    BY <1>7, <1>9
  <2>2. 1 \in 1 .. Len(half)
    BY <1>9
  <2> HIDE DEF half
  <2>3. Behind(half \o BD, SPACE) = D
    BY <1>4, <1>7, <1>9, <2>1, Parted, SMTT(30)
  <2>4. (half \o BD)[1] = half[1]
    <3> HIDE DEF BD
    <3>1. half \in Seq(Int) /\ BD \in Seq(Int)
      BY <1>9, <1>11
    <3>2. \A k \in 1 .. Len(half) : (half \o BD)[k] = half[k]
      BY <3>1, Joined
    <3>3. QED
      BY <2>2, <3>2
  <2>5. QED
    BY <1>9, <2>3, <2>4
<1>19. seconds => Until(PS, COLON) = P /\ Behind(PS, COLON) = sec
  <2> SUFFICES ASSUME seconds PROVE Until(P \o (C \o sec), COLON) = P /\ Behind(P \o (C \o sec), COLON) = sec
    OBVIOUS
  <2>1. P \in Seq(Int) /\ sec \in Seq(Int) /\ COLON \in Int /\ \A k \in 1 .. Len(P) : P[k] # COLON
    BY <1>7, <1>8
  <2>2. /\ Until(P \o (<<COLON>> \o sec), COLON) = P
        /\ Behind(P \o (<<COLON>> \o sec), COLON) = sec
    BY <2>1, Parted
  <2>3. QED
    BY <2>2
<1>20. ~seconds => PS = P
  <2> SUFFICES ASSUME ~seconds PROVE P \o <<>> = P
    OBVIOUS
  <2>1. QED
    BY <1>8, ConcatEmptySeq
<1> HIDE DEF PS, tail, late
<1> DEFINE hour   == Number(Until(s.chars, COLON))
           rest   == Behind(s.chars, COLON)
           clock  == Until(rest, SPACE)
           pm     == ~s.military /\ Behind(rest, SPACE)[1] = 80
           date   == Behind(IF s.military THEN rest ELSE Behind(rest, SPACE), SPACE)
<1>21. /\ ReadBack(s).hour = IF pm /\ hour < 12 THEN hour + 12 ELSE hour
       /\ ReadBack(s).minute = Number(IF s.seconds THEN Until(clock, COLON) ELSE clock)
       /\ ReadBack(s).second = IF s.seconds THEN Number(Behind(clock, COLON)) ELSE asked.second
       /\ ReadBack(s).month = date[1] % 1000
       /\ ReadBack(s).day = Number(Until(Tail(Tail(date)), COMMA))
       /\ ReadBack(s).year = Number(Tail(Behind(Tail(Tail(date)), COMMA)))
  BY DEF ReadBack
<1>22. /\ hour = IF military THEN t.hour ELSE Twelve(t.hour)
       /\ rest = tail /\ clock = PS /\ date = D
       /\ pm <=> ~military /\ AP = 80
  <2>1. hour = IF military THEN t.hour ELSE Twelve(t.hour)
    BY <1>3, <1>16
  <2>2. rest = tail /\ clock = PS /\ Behind(rest, SPACE) = late
    BY <1>16, <1>17
  <2>3. military => late = D
    BY DEF late
  <2>4. date = D
    BY <1>6, <1>18, <2>2, <2>3
  <2>5. pm <=> ~military /\ AP = 80
    BY <1>6, <1>18, <2>2
  <2>6. QED
    BY <2>1, <2>2, <2>4, <2>5
<1> HIDE DEF hour, rest, clock, date, pm
<1>23. ASSUME t.hour \in 0 .. 23 PROVE (IF pm /\ hour < 12 THEN hour + 12 ELSE hour) = t.hour
  <2> DEFINE h == t.hour
  <2>1. h \in 0 .. 23
    BY <1>23
  <2>2. AP = 80 <=> h >= 12
    BY DEF AP
  <2>3. hour = IF military THEN h ELSE IF h > 12 THEN h - 12 ELSE h
    BY <1>22 DEF Twelve
  <2> HIDE DEF h
  <2>4. CASE military
    <3>1. ~pm /\ hour = h
      BY <1>22, <2>3, <2>4
    <3>2. QED
      BY <3>1 DEF h
  <2>5. CASE ~military
    <3>1. pm <=> h >= 12
      BY <1>22, <2>2, <2>5
    <3>2. hour = IF h > 12 THEN h - 12 ELSE h
      BY <2>3, <2>5
    <3>3. CASE h >= 12
      <4>1. pm
        BY <3>1, <3>3
      <4>2. (IF hour < 12 THEN hour + 12 ELSE hour) = h
        BY <2>1, <3>2, <3>3
      <4>3. QED
        BY <4>1, <4>2 DEF h
    <3>4. CASE ~(h >= 12)
      <4>1. ~pm
        BY <3>1, <3>4
      <4>2. hour = h
        BY <2>1, <3>2, <3>4
      <4>3. QED
        BY <4>1, <4>2 DEF h
    <3>5. QED
      BY <3>3, <3>4
  <2>6. QED
    BY <2>4, <2>5
<1>24. (t.hour \in 0 .. 23 => ReadBack(s).hour = t.hour)
  BY <1>21, <1>23
<1>25. ReadBack(s).minute = t.minute /\ ReadBack(s).second = IF seconds THEN t.second ELSE asked.second
  BY <1>2, <1>6, <1>19, <1>20, <1>21, <1>22
<1>26. ReadBack(s).month = t.month /\ ReadBack(s).day = t.day /\ ReadBack(s).year = t.year
  BY <1>4, <1>21, <1>22
<1>27. QED
  BY <1>24, <1>25, <1>26

LEMMA ClockToldByInv ==
  ASSUME ClockInv
  PROVE  ClockTold
<1> DEFINE promised == [asked EXCEPT !.hour = IF Misread THEN time.hour ELSE @,
                                     !.year = IF mode.bcd THEN @ ELSE @ % 100]
<1> SUFFICES ASSUME asked # NONE_YET
             PROVE  /\ time = promised
                    /\ shown # NONE_YET =>
                         \A field \in {"second", "minute", "day", "month", "year"} \cup
                                      (IF Misread THEN {} ELSE {"hour"}) :
                           ReadBack(shown)[field] = promised[field]
  BY DEF ClockTold
<1>1. asked \in TimesOfDay /\ time \in Decoded /\ time = Promised
  BY DEF ClockInv
<1>2. promised = Promised
  <2> DEFINE h == IF Misread THEN time.hour ELSE asked.hour
             y == IF mode.bcd THEN asked.year ELSE asked.year % 100
  <2>1. promised = [asked EXCEPT !.hour = h, !.year = y]
    OBVIOUS
  <2>2. Promised = [second |-> asked.second, minute |-> asked.minute, hour |-> h,
                    day |-> asked.day, month |-> asked.month, year |-> y]
    BY DEF Promised
  <2> HIDE DEF h, y, promised
  <2>3. [asked EXCEPT !.hour = h, !.year = y]
          = [second |-> asked.second, minute |-> asked.minute, hour |-> h,
             day |-> asked.day, month |-> asked.month, year |-> y]
    <3>1. asked \in IntFields
      BY <1>1 DEF TimesOfDay, IntFields
    <3>2. h \in Int /\ y \in Int
      <4>1. time.hour \in 0 .. 255
        BY <1>1, FieldsOf
      <4>2. asked.hour \in Int /\ asked.year \in Int
        BY <3>1 DEF IntFields
      <4>3. \A k \in Int : k % 100 \in Int
        OBVIOUS
      <4>4. QED
        BY <4>1, <4>2, <4>3 DEF h, y
    <3>3. QED
      BY <3>1, <3>2, TwoFields
  <2>4. QED
    BY <2>1, <2>2, <2>3
<1>3. time = promised
  BY <1>1, <1>2
<1> HIDE DEF promised
<1>4. ASSUME shown # NONE_YET
      PROVE  /\ \A field \in {"second", "minute", "day", "month", "year"} :
                  ReadBack(shown)[field] = time[field]
             /\ ~Misread => ReadBack(shown).hour = time.hour
  <2>1. PICK military \in BOOLEAN, seconds \in BOOLEAN, short \in BOOLEAN :
          shown = Text(time, military, seconds, short)
    BY <1>4 DEF ClockInv, Displayed
  <2>2. /\ time.hour \in 0 .. 23 => ReadBack(shown).hour = time.hour
        /\ ReadBack(shown).minute = time.minute
        /\ ReadBack(shown).second = IF seconds THEN time.second ELSE asked.second
        /\ ReadBack(shown).month = time.month
        /\ ReadBack(shown).day = time.day
        /\ ReadBack(shown).year = time.year
    <3>1. time \in Decoded
      BY <1>1
    <3>2. QED
      BY <2>1, <3>1, ShownReads
  <2>3. time.second = asked.second /\ (~Misread => time.hour = asked.hour)
    BY <1>1 DEF Promised
  <2>4. asked.hour \in 0 .. 23
    BY <1>1 DEF TimesOfDay
  <2>5. QED
    BY <2>2, <2>3, <2>4
<1>5. QED
  BY <1>3, <1>4

-----------------------------------------------------------------------------
(* The timer.                                                              *)

TicksPerMilli == IF PER_MILLI = 0 THEN 1 ELSE PER_MILLI

TimerInv ==
  /\ ticks \in Nat /\ timer \in Nat /\ millis \in Nat /\ total \in Nat /\ secs \in Nat
  /\ millis =< MILLIS /\ timer < TicksPerMilli
  /\ TimerAgrees

LEMMA TimerNextInv ==
  ASSUME TimerInv, PitCalculate
  PROVE  TimerInv'
<1> DEFINE p == TicksPerMilli
           q == MILLIS + 1
           milli == timer + 1 >= PER_MILLI
           m == IF milli THEN millis + 1 ELSE millis
<1>1. p \in Nat /\ p >= 1 /\ PER_MILLI \in Nat /\ MILLIS \in Nat /\ q \in Nat
      /\ p = IF PER_MILLI = 0 THEN 1 ELSE PER_MILLI
  BY TimeAssumption DEF TicksPerMilli
<1>2. /\ ticks \in Nat /\ timer \in Nat /\ millis \in Nat /\ total \in Nat /\ secs \in Nat
      /\ millis =< MILLIS /\ timer < p
      /\ total = q * secs + millis /\ ticks = p * total + timer
  BY DEF TimerInv, TimerAgrees, TicksPerMilli
<1>3. /\ ticks' = ticks + 1
      /\ total' = IF milli THEN total + 1 ELSE total
      /\ secs' = IF m > MILLIS THEN secs + 1 ELSE secs
      /\ millis' = IF m > MILLIS THEN 0 ELSE m
      /\ timer' = IF milli \/ m > MILLIS THEN 0 ELSE timer + 1
  BY DEF PitCalculate, SecondFull
<1>4. \A i \in Nat : q * (i + 1) = q * i + q /\ p * (i + 1) = p * i + p /\ q * i \in Nat /\ p * i \in Nat
  <2> HIDE DEF p, q
  <2>1. QED
    BY <1>1
<1> DEFINE qs == q * secs
           pt == p * total
<1>5. qs \in Nat /\ pt \in Nat /\ total = qs + millis /\ ticks = pt + timer
      /\ q * (secs + 1) = qs + q /\ p * (total + 1) = pt + p
  <2> HIDE DEF p, q
  <2>1. QED
    BY <1>2, <1>4
<1>6. q = MILLIS + 1
  OBVIOUS
<1> HIDE DEF p, q, qs, pt
<1>7. CASE milli
  <2>1. timer + 1 = p
    BY <1>1, <1>2, <1>7
  <2>2. m = millis + 1 /\ total' = total + 1 /\ timer' = 0
    BY <1>3, <1>7
  <2>3. ticks' = p * total' + timer'
    BY <1>1, <1>2, <1>3, <1>5, <2>1, <2>2
  <2>4. CASE m > MILLIS
    <3>1. millis = MILLIS /\ millis' = 0 /\ secs' = secs + 1
      BY <1>1, <1>2, <1>3, <2>2, <2>4
    <3>2. total' = q * secs' + millis'
      BY <1>1, <1>5, <1>6, <2>2, <3>1
    <3>3. QED
      BY <1>1, <1>2, <1>3, <2>2, <2>3, <3>1, <3>2 DEF TimerInv, TimerAgrees, p, q, TicksPerMilli
  <2>5. CASE ~(m > MILLIS)
    <3>1. millis' = millis + 1 /\ secs' = secs /\ millis' =< MILLIS /\ millis' \in Nat
      BY <1>1, <1>2, <1>3, <2>2, <2>5
    <3>2. total' = q * secs' + millis'
      <4>1. total' = qs + millis'
        BY <1>2, <1>5, <2>2, <3>1
      <4>2. QED
        BY <3>1, <4>1 DEF qs
    <3>3. QED
      BY <1>1, <1>2, <1>3, <2>2, <2>3, <3>1, <3>2 DEF TimerInv, TimerAgrees, p, q, TicksPerMilli
  <2>6. QED
    BY <2>4, <2>5
<1>8. CASE ~milli
  <2>1. m = millis /\ ~(m > MILLIS)
    BY <1>1, <1>2, <1>8
  <2>2. /\ total' = total /\ secs' = secs /\ millis' = millis /\ timer' = timer + 1
    BY <1>3, <1>8, <2>1
  <2>3. timer + 1 < p
    BY <1>1, <1>2, <1>8
  <2>4. ticks' = p * total' + timer'
    <3>1. ticks' = pt + timer'
      BY <1>2, <1>3, <1>5, <2>2
    <3>2. QED
      BY <2>2, <3>1 DEF pt
  <2>5. total' = q * secs' + millis'
    BY <1>2, <2>2
  <2>6. QED
    BY <1>1, <1>2, <1>3, <2>2, <2>3, <2>4, <2>5 DEF TimerInv, TimerAgrees, p, q, TicksPerMilli
<1>9. QED
  BY <1>7, <1>8

-----------------------------------------------------------------------------
(* The library.                                                            *)

LibraryInv == StringInv /\ ObjectInv /\ ClockInv /\ TimerInv

LEMMA LibraryInit == Init => LibraryInv
<1> SUFFICES ASSUME Init PROVE LibraryInv
  OBVIOUS
<1>1. StringInv
  BY StringInitInv DEF Init
<1>2. ObjectInv
  BY ObjectInitInv DEF Init
<1>3. ClockInv
  BY DEF Init, TimeInit, ClockInv
<1>4. TimerInv
  <2>1. ticks = 0 /\ timer = 0 /\ millis = 0 /\ total = 0 /\ secs = 0
    BY DEF Init, TimeInit
  <2> DEFINE p == TicksPerMilli
             q == MILLIS + 1
  <2>2. p \in Nat /\ p >= 1 /\ q \in Nat /\ 0 =< MILLIS
    BY TimeAssumption DEF TicksPerMilli
  <2> HIDE DEF p, q
  <2>3. 0 = q * 0 + 0 /\ 0 = p * 0 + 0 /\ 0 < p
    BY <2>2
  <2> USE DEF p, q
  <2>4. TimerAgrees
    BY <2>1, <2>3 DEF TimerAgrees, TicksPerMilli
  <2>5. QED
    BY <2>1, <2>2, <2>3, <2>4 DEF TimerInv
<1>5. QED
  BY <1>1, <1>2, <1>3, <1>4 DEF LibraryInv

LEMMA TimerSame ==
  ASSUME TimerInv, UNCHANGED timerVars
  PROVE  TimerInv'
<1>1. ticks' = ticks /\ timer' = timer /\ millis' = millis /\ total' = total /\ secs' = secs
  BY DEF timerVars
<1>2. QED
  BY <1>1 DEF TimerInv, TimerAgrees, TicksPerMilli

LEMMA LibraryNext == LibraryInv /\ [Next]_vars => LibraryInv'
<1> SUFFICES ASSUME LibraryInv, [Next]_vars PROVE LibraryInv'
  OBVIOUS
<1> USE DEF LibraryInv
<1>1. ASSUME UNCHANGED timeVars PROVE ClockInv' /\ TimerInv'
  <2>1. /\ asked' = asked /\ mode' = mode /\ time' = time /\ packed' = packed /\ shown' = shown
        /\ UNCHANGED timerVars
    BY <1>1 DEF timeVars, clockVars
  <2>2. QED
    BY <2>1, ClockSame, TimerSame
<1>2. CASE part = "buffer" /\ StringNext /\ UNCHANGED <<objectVars, timeVars>>
  <2>1. StringNext /\ UNCHANGED objectVars /\ UNCHANGED timeVars
    BY <1>2
  <2>2. QED
    BY <1>1, <2>1, StringNextInv, ObjectSame
<1>3. CASE part = "object" /\ ObjectNext /\ UNCHANGED <<stringVars, timeVars>>
  <2>1. ObjectNext /\ UNCHANGED stringVars /\ UNCHANGED timeVars
    BY <1>3
  <2>2. QED
    BY <1>1, <2>1, ObjectNextInv, StringSame
<1>4. CASE part = "clock" /\ ClockNext /\ UNCHANGED <<stringVars, objectVars>>
  <2>1. ClockNext /\ UNCHANGED stringVars /\ UNCHANGED objectVars
    BY <1>4
  <2>2. UNCHANGED timerVars
    BY <2>1 DEF ClockNext, RtcRead, TimePack, TimeUnpack, TimeStringTimedate
  <2>3. QED
    BY <2>1, <2>2, StringSame, ObjectSame, ClockNextInv, TimerSame
<1>5. CASE part = "timer" /\ PitCalculate /\ UNCHANGED <<stringVars, objectVars>>
  <2>1. PitCalculate /\ UNCHANGED stringVars /\ UNCHANGED objectVars
    BY <1>5
  <2>2. asked' = asked /\ mode' = mode /\ time' = time /\ packed' = packed /\ shown' = shown
    BY <2>1 DEF PitCalculate, clockVars
  <2>3. QED
    BY <2>1, <2>2, StringSame, ObjectSame, ClockSame, TimerNextInv
<1>6. CASE UNCHANGED vars
  <2>1. UNCHANGED stringVars /\ UNCHANGED objectVars /\ UNCHANGED timeVars
    BY <1>6 DEF vars
  <2>2. QED
    BY <1>1, <2>1, StringSame, ObjectSame
<1>7. QED
  BY <1>2, <1>3, <1>4, <1>5, <1>6 DEF Next

\* The invariant of the buffer, the string object, the clock and the timer together.
LEMMA LibrarySpecInv == Spec => []LibraryInv
BY LibraryInit, LibraryNext, PTL DEF Spec

\* Whatever strings, characters and numbers the functions of string.c are called with and in
\* whatever order, a buffer that was cleared once holds the string they promise and compares
\* equal to that one only, up to a call that slips; and a string_t holds all that was
\* appended to it, in the one block it owns.
THEOREM LibraryStringsKept == Spec => []StringsKept
<1>1. LibraryInv => StringsKept
  <2>1. StringInv => (slips = {} => Holds(buf, text))
    BY DEF StringInv
  <2>2. QED
    BY <2>1, BufferKeptWhenHeld, ObjectKeptWhenFilled DEF LibraryInv, StringsKept
<1>2. QED
  BY <1>1, LibrarySpecInv, PTL

\* Every number of the machine's width that ultoa, itoa, strhex or ftoa prints is the number
\* that is read off the buffer, to a hundredth for ftoa, and atol gives the number that a
\* string's digits say, or 0 if it is none.
THEOREM LibraryNumbersReadBack == Spec => []NumbersReadBack
<1>1. LibraryInv => NumbersReadBack
  BY ReadBackWhenHeld DEF LibraryInv
<1>2. QED
  BY <1>1, LibrarySpecInv, PTL

\* For every moment of this century and every setting of the clock, rtc_read, time_pack,
\* time_unpack and time_string_timedate pass the time on as it was, except for the hours and
\* the century ClockTold names; and pit_calculate's ticks, milliseconds and seconds agree at
\* every frequency and for every number of ticks.
THEOREM LibraryTimeKept == Spec => []TimeKept
<1>1. LibraryInv => TimeKept
  BY ClockToldByInv DEF LibraryInv, TimerInv, TimeKept
<1>2. QED
  BY <1>1, LibrarySpecInv, PTL
=============================================================================
