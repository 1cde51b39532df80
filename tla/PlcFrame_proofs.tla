-------------------------- MODULE PlcFrame_proofs --------------------------
(***************************************************************************)
(* Proofs about PlcFrame, for every value of a parameter: each frame that  *)
(* leaves the program carries its own checksum, and the number typed is    *)
(* the number written and read.  Sums and numbers are folds over bytes;    *)
(* that a fold is what its steps say is one induction, over the positions. *)
(***************************************************************************)
EXTENDS PlcFrame, SequenceTheorems, WellFoundedInduction, NaturalsInduction, TLAPS

----------------------------------------------------------------------------
(* Folds. *)

LEMMA Smallest ==
  ASSUME NEW T, T \subseteq Nat, T # {}
  PROVE  \E x \in T : \A y \in T : x <= y
<1> DEFINE R == OpToRel(<, Nat)
<1>1. IsWellFoundedOn(R, Nat)
  BY NatLessThanWellFounded
<1>2. \A x \in Nat, y \in Nat : <<y, x>> \in R <=> y < x
  BY DEF OpToRel
<1>3. PICK x \in T : \A y \in T : ~(<<y, x>> \in R)
  <2> HIDE DEF R
  <2> QED BY <1>1, WFMin
<1>4. ASSUME NEW y \in T PROVE x <= y
  <2>1. x \in Nat /\ y \in Nat
    BY <1>3, <1>4
  <2>2. ~(y < x)
    BY <1>2, <1>3, <2>1
  <2> QED BY <2>1, <2>2
<1> QED BY <1>3, <1>4

\* Induction, for the set of the numbers that have a property.
LEMMA Induction ==
  ASSUME NEW T, 0 \in T, \A n \in Nat : n \in T => n + 1 \in T
  PROVE  Nat \subseteq T
<1> SUFFICES ASSUME Nat \ T # {} PROVE FALSE
  OBVIOUS
<1>1. PICK x \in Nat \ T : \A y \in Nat \ T : x <= y
  BY Smallest
<1>2. x # 0 /\ x - 1 \in Nat /\ ~(x <= x - 1)
  BY <1>1
<1>3. x - 1 \in T
  BY <1>1, <1>2
<1>4. (x - 1) + 1 = x
  BY <1>1
<1> QED BY <1>1, <1>2, <1>3, <1>4

\* The recursive function in FlattenSeq exists: it yields a sequence of the elements,
\* The greatest of the first m + 1 numbers is m + 1, if it is there.
LEMMA MaxOfTop ==
  ASSUME NEW m \in Nat, NEW s \in SUBSET (1 .. m + 1), m + 1 \in s
  PROVE  Max(s) = m + 1
<1>1. \A y \in s : m + 1 >= y
  OBVIOUS
<1>2. \A x \in s : (\A y \in s : x >= y) => x = m + 1
  OBVIOUS
<1> QED BY <1>1, <1>2 DEF Max

\* What a fold from the left chooses, the greatest position, is a position.
LEMMA MaxInside ==
  ASSUME NEW n \in Nat, NEW s \in SUBSET (1 .. n), s # {}
  PROVE  Max(s) \in s
<1> DEFINE T == {m \in Nat : \A r \in SUBSET (1 .. m) : r # {} => Max(r) \in r}
<1>1. 0 \in T
  <2>1. 1 .. 0 = {}
    OBVIOUS
  <2> QED BY <2>1
<1>2. ASSUME NEW m \in Nat, m \in T PROVE m + 1 \in T
  <2>1. ASSUME NEW r \in SUBSET (1 .. m + 1), r # {} PROVE Max(r) \in r
    <3>1. CASE m + 1 \in r
      BY <2>1, <3>1, MaxOfTop
    <3>2. CASE m + 1 \notin r
      <4>1. r \in SUBSET (1 .. m)
        BY <2>1, <3>2
      <4> QED BY <1>2, <2>1, <4>1
    <3> QED BY <3>1, <3>2
  <2> QED BY <2>1
<1>3. n \in T
  <2> HIDE DEF T
  <2> QED BY <1>1, <1>2, Induction
<1> QED BY <1>3

\* The recursion a fold is defined by has a solution: over the sets of positions, where w[i]
\* is what the value at position i does to what was folded before it.
Folds(h, n, c, w) ==
    \A s \in SUBSET (1 .. n) :
        h[s] = IF s = {} THEN c ELSE w[Max(s)][h[s \ {Max(s)}]]

LEMMA FoldExists ==
  ASSUME NEW n \in Nat, NEW c \in Int, NEW w \in [1 .. n -> [Int -> Int]]
  PROVE  \E h \in [SUBSET (1 .. n) -> Int] : Folds(h, n, c, w)
<1> DEFINE T == {m \in Nat : m <= n => \E h \in [SUBSET (1 .. m) -> Int] : Folds(h, m, c, w)}
<1>1. 0 \in T
  <2> DEFINE h == [s \in SUBSET (1 .. 0) |-> c]
  <2>1. 1 .. 0 = {}
    OBVIOUS
  <2>2. h \in [SUBSET (1 .. 0) -> Int] /\ \A s \in SUBSET (1 .. 0) : s = {} /\ h[s] = c
    BY <2>1
  <2>3. Folds(h, 0, c, w)
    <3> HIDE DEF h
    <3> QED BY <2>2 DEF Folds
  <2> QED BY <2>2, <2>3
<1>2. ASSUME NEW m \in Nat, m \in T PROVE m + 1 \in T
  <2> SUFFICES m + 1 <= n => \E g \in [SUBSET (1 .. m + 1) -> Int] : Folds(g, m + 1, c, w)
    <3>1. m + 1 \in Nat
      OBVIOUS
    <3> QED BY <3>1
  <2> SUFFICES ASSUME m + 1 <= n
               PROVE  \E g \in [SUBSET (1 .. m + 1) -> Int] : Folds(g, m + 1, c, w)
    OBVIOUS
  <2>1. PICK h \in [SUBSET (1 .. m) -> Int] : Folds(h, m, c, w)
    <3>1. m <= n
      BY m + 1 <= n, m \in Nat, n \in Nat
    <3> QED BY <1>2, <3>1
  <2>2. m + 1 \in 1 .. n /\ w[m + 1] \in [Int -> Int]
    OBVIOUS
  <2> DEFINE g == [s \in SUBSET (1 .. m + 1) |->
                      IF m + 1 \in s THEN w[m + 1][h[s \ {m + 1}]] ELSE h[s]]
  <2>3. \A s \in SUBSET (1 .. m + 1) :
           /\ s \ {m + 1} \in SUBSET (1 .. m)
           /\ m + 1 \notin s => s \in SUBSET (1 .. m)
    OBVIOUS
  <2>4. g \in [SUBSET (1 .. m + 1) -> Int]
    <3>1. ASSUME NEW s \in SUBSET (1 .. m + 1)
          PROVE  (IF m + 1 \in s THEN w[m + 1][h[s \ {m + 1}]] ELSE h[s]) \in Int
      <4>1. h[s \ {m + 1}] \in Int /\ (m + 1 \notin s => h[s] \in Int)
        BY <2>1, <2>3
      <4> QED BY <2>2, <4>1
    <3> QED BY <3>1
  <2>5. \A s \in SUBSET (1 .. m) : g[s] = h[s]
    OBVIOUS
  <2>6. ASSUME NEW s \in SUBSET (1 .. m + 1)
        PROVE  g[s] = IF s = {} THEN c ELSE w[Max(s)][g[s \ {Max(s)}]]
    <3>1. CASE m + 1 \in s
      <4>1. Max(s) = m + 1 /\ s # {}
        BY <3>1, MaxOfTop
      <4>2. g[s] = w[m + 1][h[s \ {m + 1}]] /\ g[s \ {m + 1}] = h[s \ {m + 1}]
        BY <2>3, <2>5, <3>1
      <4> QED BY <4>1, <4>2
    <3>2. CASE m + 1 \notin s
      <4>1. s \in SUBSET (1 .. m) /\ s \ {Max(s)} \in SUBSET (1 .. m)
        BY <2>3, <3>2
      <4>2. g[s] = h[s] /\ g[s \ {Max(s)}] = h[s \ {Max(s)}]
        BY <2>5, <4>1
      <4>3. h[s] = IF s = {} THEN c ELSE w[Max(s)][h[s \ {Max(s)}]]
        BY <2>1, <4>1 DEF Folds
      <4> QED BY <4>2, <4>3
    <3> QED BY <3>1, <3>2
  <2>7. Folds(g, m + 1, c, w)
    <3> HIDE DEF g
    <3> QED BY <2>6 DEF Folds
  <2> QED BY <2>4, <2>7
<1>3. n \in T
  <2> HIDE DEF T
  <2> QED BY <1>1, <1>2, Induction
<1>4. n <= n
  OBVIOUS
<1> QED BY <1>3, <1>4

\* A fold goes through the positions one after the other.
LEMMA LastPosition ==
  ASSUME NEW n \in Nat, NEW k \in 1 .. n
  PROVE  /\ (1 .. k) \in SUBSET (1 .. n) /\ (1 .. k) # {}
         /\ (1 .. k) \ {k} = 1 .. (k - 1)
         /\ Max(1 .. k) = k
<1>1. (1 .. k) \ {k} \subseteq 1 .. (k - 1) /\ 1 .. (k - 1) \subseteq (1 .. k) \ {k}
  <2>1. ASSUME NEW i \in 1 .. k, i # k PROVE i \in 1 .. (k - 1)
    BY <2>1
  <2>2. ASSUME NEW i \in 1 .. (k - 1) PROVE i \in 1 .. k /\ i # k
    OBVIOUS
  <2> QED BY <2>1, <2>2
<1>2. k - 1 \in Nat /\ (k - 1) + 1 = k /\ (1 .. k) \in SUBSET (1 .. (k - 1) + 1) /\ k \in 1 .. k
  OBVIOUS
<1>3. Max(1 .. k) = (k - 1) + 1
  BY <1>2, MaxOfTop
<1>4. (1 .. k) \in SUBSET (1 .. n)
  OBVIOUS
<1> QED BY <1>1, <1>2, <1>3, <1>4

\* The sum of bytes, step by step.
LEMMA SumSteps ==
  ASSUME NEW n \in Nat, NEW b, DOMAIN b = 1 .. n, \A i \in 1 .. n : b[i] \in Int
  PROVE  \E g : /\ g[0] = 0 /\ \A k \in 0 .. n : g[k] \in Int
                /\ \A k \in 1 .. n : g[k] = ((g[k - 1] + b[k]) % 256)
                /\ FoldLeft(LAMBDA a, x : (a + x) % 256, 0, b) = g[n]
<1> DEFINE w == [i \in 1 .. n |-> [a \in Int |-> ((a + b[i]) % 256)]]
           Val(h, s) == IF s = {} THEN 0 ELSE ((h[s \ {Max(s)}] + b[Max(s)]) % 256)
           Rec(h) == h = [s \in SUBSET (1 .. n) |-> Val(h, s)]
           f == CHOOSE h : Rec(h)
           g == [k \in 0 .. n |-> f[1 .. k]]
           T == {k \in Nat : k <= n => g[k] \in Int}
<1>0. FoldLeft(LAMBDA a, x : (a + x) % 256, 0, b) = f[1 .. n]
  BY Zenon DEF FoldLeft, MapThenFoldSet
<1>1. \A a \in Int : \A i \in 1 .. n : ((a + b[i]) % 256) \in Int
  OBVIOUS
<1>2. w \in [1 .. n -> [Int -> Int]] /\ \A i \in 1 .. n, a \in Int : w[i][a] = ((a + b[i]) % 256)
  BY <1>1
<1>3. PICK h \in [SUBSET (1 .. n) -> Int] : Folds(h, n, 0, w)
  <2>1. w \in [1 .. n -> [Int -> Int]] /\ 0 \in Int
    BY <1>2
  <2> HIDE DEF w
  <2> QED BY <2>1, FoldExists, Zenon
<1>4. Rec(h)
  <2>1. ASSUME NEW s \in SUBSET (1 .. n) PROVE h[s] = Val(h, s)
    <3>1. CASE s = {}
      BY <1>3, <3>1 DEF Folds
    <3>2. CASE s # {}
      <4> HIDE DEF w
      <4>1. Max(s) \in 1 .. n /\ s \ {Max(s)} \in SUBSET (1 .. n)
        BY <3>2, MaxInside
      <4>2. h[s] = w[Max(s)][h[s \ {Max(s)}]] /\ h[s \ {Max(s)}] \in Int
        BY <1>3, <3>2, <4>1 DEF Folds
      <4>3. w[Max(s)][h[s \ {Max(s)}]] = ((h[s \ {Max(s)}] + b[Max(s)]) % 256)
        BY <1>2, <4>1, <4>2, ZenonT(40)
      <4> QED BY <3>2, <4>2, <4>3, ZenonT(40)
    <3> QED BY <3>1, <3>2
  <2> HIDE DEF Val, w
  <2> QED BY <1>3, <2>1
<1>5. \A s \in SUBSET (1 .. n) : f[s] = Val(f, s)
  <2>1. Rec(f)
    <3> HIDE DEF Rec
    <3> QED BY <1>4
  <2> HIDE DEF f, Val
  <2> QED BY <2>1
<1> HIDE DEF f
<1>6. g[0] = 0
  <2>1. 1 .. 0 = {} /\ {} \in SUBSET (1 .. n) /\ 0 \in 0 .. n
    OBVIOUS
  <2>2. f[{}] = 0
    BY <1>5, <2>1
  <2> QED BY <2>1, <2>2
<1>7. ASSUME NEW k \in 1 .. n PROVE g[k] = ((g[k - 1] + b[k]) % 256)
  <2>1. f[1 .. k] = ((f[1 .. (k - 1)] + b[k]) % 256)
    <3>1. /\ (1 .. k) \in SUBSET (1 .. n) /\ (1 .. k) # {}
          /\ (1 .. k) \ {k} = 1 .. (k - 1) /\ Max(1 .. k) = k
      BY LastPosition
    <3>2. f[1 .. k] = Val(f, 1 .. k)
      BY <1>5, <3>1, Zenon
    <3> QED BY <3>1, <3>2, Zenon
  <2>2. k \in 0 .. n /\ k - 1 \in 0 .. n
    OBVIOUS
  <2> QED BY <2>1, <2>2
<1>8. g[n] = f[1 .. n]
  OBVIOUS
<1> HIDE DEF g
<1>9. n \in Nat /\ Nat \subseteq T
  <2>1. 0 \in T
    BY <1>6
  <2>2. ASSUME NEW k \in Nat, k \in T PROVE k + 1 \in T
    <3>1. k + 1 <= n => g[k + 1] \in Int
      <4> SUFFICES ASSUME k + 1 <= n PROVE g[k + 1] \in Int
        OBVIOUS
      <4>1. g[k] \in Int /\ k + 1 \in 1 .. n /\ (k + 1) - 1 = k
        BY <2>2
      <4>2. g[k + 1] = ((g[k] + b[k + 1]) % 256)
        BY <1>7, <4>1
      <4>3. ((g[k] + b[k + 1]) % 256) \in Int
        BY <1>1, <4>1, Zenon
      <4> QED BY <4>2, <4>3, Zenon
    <3> QED BY <3>1
  <2> HIDE DEF T
  <2> QED BY <2>1, <2>2, Induction
<1>10. \A k \in 0 .. n : g[k] \in Int
  BY <1>9
<1> QED BY <1>0, <1>6, <1>7, <1>8, <1>10

\* The number that characters stand for, digit by digit.
LEMMA NumberSteps ==
  ASSUME NEW n \in Nat, NEW b, DOMAIN b = 1 .. n, \A i \in 1 .. n : DigitOf(b[i]) \in Int
  PROVE  \E g : /\ g[0] = 0 /\ \A k \in 0 .. n : g[k] \in Int
                /\ \A k \in 1 .. n : g[k] = (16 * g[k - 1] + DigitOf(b[k]))
                /\ FoldLeft(LAMBDA a, c : 16 * a + DigitOf(c), 0, b) = g[n]
<1> DEFINE w == [i \in 1 .. n |-> [a \in Int |-> (16 * a + DigitOf(b[i]))]]
           Val(h, s) == IF s = {} THEN 0 ELSE (16 * h[s \ {Max(s)}] + DigitOf(b[Max(s)]))
           Rec(h) == h = [s \in SUBSET (1 .. n) |-> Val(h, s)]
           f == CHOOSE h : Rec(h)
           g == [k \in 0 .. n |-> f[1 .. k]]
           T == {k \in Nat : k <= n => g[k] \in Int}
<1>0. FoldLeft(LAMBDA a, c : 16 * a + DigitOf(c), 0, b) = f[1 .. n]
  BY Zenon DEF FoldLeft, MapThenFoldSet
<1>1. \A a \in Int : \A i \in 1 .. n : (16 * a + DigitOf(b[i])) \in Int
  OBVIOUS
<1>2. w \in [1 .. n -> [Int -> Int]] /\ \A i \in 1 .. n, a \in Int : w[i][a] = (16 * a + DigitOf(b[i]))
  BY <1>1
<1>3. PICK h \in [SUBSET (1 .. n) -> Int] : Folds(h, n, 0, w)
  <2>1. w \in [1 .. n -> [Int -> Int]] /\ 0 \in Int
    BY <1>2
  <2> HIDE DEF w
  <2> QED BY <2>1, FoldExists, Zenon
<1>4. Rec(h)
  <2>1. ASSUME NEW s \in SUBSET (1 .. n) PROVE h[s] = Val(h, s)
    <3>1. CASE s = {}
      BY <1>3, <3>1 DEF Folds
    <3>2. CASE s # {}
      <4> HIDE DEF w
      <4>1. Max(s) \in 1 .. n /\ s \ {Max(s)} \in SUBSET (1 .. n)
        BY <3>2, MaxInside
      <4>2. h[s] = w[Max(s)][h[s \ {Max(s)}]] /\ h[s \ {Max(s)}] \in Int
        BY <1>3, <3>2, <4>1 DEF Folds
      <4> QED BY <1>2, <3>2, <4>1, <4>2
    <3> QED BY <3>1, <3>2
  <2> HIDE DEF Val, w
  <2> QED BY <1>3, <2>1
<1>5. \A s \in SUBSET (1 .. n) : f[s] = Val(f, s)
  <2>1. Rec(f)
    <3> HIDE DEF Rec
    <3> QED BY <1>4
  <2> HIDE DEF f, Val
  <2> QED BY <2>1
<1> HIDE DEF f
<1>6. g[0] = 0
  <2>1. 1 .. 0 = {} /\ {} \in SUBSET (1 .. n) /\ 0 \in 0 .. n
    OBVIOUS
  <2>2. f[{}] = 0
    BY <1>5, <2>1
  <2> QED BY <2>1, <2>2
<1>7. ASSUME NEW k \in 1 .. n PROVE g[k] = (16 * g[k - 1] + DigitOf(b[k]))
  <2>1. f[1 .. k] = (16 * f[1 .. (k - 1)] + DigitOf(b[k]))
    <3>1. /\ (1 .. k) \in SUBSET (1 .. n) /\ (1 .. k) # {}
          /\ (1 .. k) \ {k} = 1 .. (k - 1) /\ Max(1 .. k) = k
      BY LastPosition
    <3>2. f[1 .. k] = Val(f, 1 .. k)
      BY <1>5, <3>1, Zenon
    <3> QED BY <3>1, <3>2, Zenon
  <2>2. k \in 0 .. n /\ k - 1 \in 0 .. n
    OBVIOUS
  <2> QED BY <2>1, <2>2
<1>8. g[n] = f[1 .. n]
  OBVIOUS
<1> HIDE DEF g
<1>9. n \in Nat /\ Nat \subseteq T
  <2>1. 0 \in T
    BY <1>6
  <2>2. ASSUME NEW k \in Nat, k \in T PROVE k + 1 \in T
    <3>1. k + 1 <= n => g[k + 1] \in Int
      <4> SUFFICES ASSUME k + 1 <= n PROVE g[k + 1] \in Int
        OBVIOUS
      <4>1. g[k] \in Int /\ k + 1 \in 1 .. n /\ (k + 1) - 1 = k
        BY <2>2
      <4>2. g[k + 1] = (16 * g[k] + DigitOf(b[k + 1]))
        BY <1>7, <4>1
      <4>3. (16 * g[k] + DigitOf(b[k + 1])) \in Int
        BY <1>1, <4>1, Zenon
      <4> QED BY <4>2, <4>3, Zenon
    <3> QED BY <3>1
  <2> HIDE DEF T
  <2> QED BY <2>1, <2>2, Induction
<1>10. \A k \in 0 .. n : g[k] \in Int
  BY <1>9
<1> QED BY <1>0, <1>6, <1>7, <1>8, <1>10

----------------------------------------------------------------------------
(* The checksum. *)

\* The sum is one byte, and is made of the bytes before the two digits alone.
LEMMA SumOfFront ==
  ASSUME NEW b \in Seq(Int), Len(b) >= 3
  PROVE  \E g : /\ g[0] = 0 /\ \A k \in 0 .. Len(b) - 3 : g[k] \in Int
                /\ \A k \in 1 .. Len(b) - 3 : g[k] = ((g[k - 1] + b[k]) % 256)
                /\ lrcCaculate(b) = g[Len(b) - 3]
<1> DEFINE n == Len(b) - 3
           a == SubSeq(b, 1, n)
<1>1. /\ n \in Nat /\ DOMAIN a = 1 .. n
      /\ \A i \in 1 .. n : a[i] = b[i] /\ b[i] \in Int
  OBVIOUS
<1>2. lrcCaculate(b) = FoldLeft(LAMBDA e, x : (e + x) % 256, 0, a)
  BY DEF lrcCaculate
<1> HIDE DEF n, a
<1>3. PICK g : /\ g[0] = 0 /\ \A k \in 0 .. n : g[k] \in Int
               /\ \A k \in 1 .. n : g[k] = ((g[k - 1] + a[k]) % 256)
               /\ FoldLeft(LAMBDA e, x : (e + x) % 256, 0, a) = g[n]
  <2>1. n \in Nat /\ DOMAIN a = 1 .. n /\ \A i \in 1 .. n : a[i] \in Int
    BY <1>1
  <2>2. \E g : /\ g[0] = 0 /\ \A k \in 0 .. n : g[k] \in Int
               /\ \A k \in 1 .. n : g[k] = ((g[k - 1] + a[k]) % 256)
               /\ FoldLeft(LAMBDA e, x : (e + x) % 256, 0, a) = g[n]
    BY <2>1, SumSteps, ZenonT(40)
  <2> QED BY <2>2, ZenonT(40)
<1>4. \A k \in 1 .. n : g[k] = ((g[k - 1] + b[k]) % 256)
  BY <1>1, <1>3, ZenonT(40)
<1> QED BY <1>2, <1>3, <1>4 DEF n

LEMMA SumOfTwo ==
  ASSUME NEW x \in Int, NEW y \in Int
  PROVE  ((x + y) % 256) \in 0 .. 255
OBVIOUS

LEMMA SumIsByte ==
  ASSUME NEW b \in Seq(Int), Len(b) >= 3
  PROVE  lrcCaculate(b) \in 0 .. 255
<1>1. PICK g : /\ g[0] = 0 /\ \A k \in 0 .. Len(b) - 3 : g[k] \in Int
               /\ \A k \in 1 .. Len(b) - 3 : g[k] = ((g[k - 1] + b[k]) % 256)
               /\ lrcCaculate(b) = g[Len(b) - 3]
  BY SumOfFront
<1>2. CASE Len(b) = 3
  BY <1>1, <1>2
<1>3. CASE Len(b) > 3
  <2>1. Len(b) - 3 \in 1 .. Len(b) - 3 /\ (Len(b) - 3) - 1 \in 0 .. Len(b) - 3 /\ Len(b) - 3 \in 1 .. Len(b)
    BY <1>3
  <2>2. g[(Len(b) - 3) - 1] \in Int /\ b[Len(b) - 3] \in Int
    BY <1>1, <2>1
  <2>4. g[Len(b) - 3] = ((g[(Len(b) - 3) - 1] + b[Len(b) - 3]) % 256)
    BY <1>1, <2>1, Zenon
  <2>5. g[Len(b) - 3] \in 0 .. 255
    <3> DEFINE x == g[(Len(b) - 3) - 1]
               y == b[Len(b) - 3]
    <3>1. x \in Int /\ y \in Int
      BY <2>2
    <3> HIDE DEF x, y
    <3>2. ((x + y) % 256) \in 0 .. 255
      BY <3>1, SumOfTwo
    <3> QED BY <2>4, <3>2, Zenon DEF x, y
  <2> QED BY <1>1, <2>5, Zenon
<1>4. Len(b) \in Nat
  OBVIOUS
<1>5. \A n \in Nat : n >= 3 => n = 3 \/ n > 3
  OBVIOUS
<1> QED BY <1>2, <1>3, <1>4, <1>5, Zenon

\* What setlrc does to a frame: the last three bytes are two digits and 03, the sum of the rest
\* does not change, and the frame passes the check.
LEMMA WithLrcChecks ==
  ASSUME NEW b \in Seq(Int), Len(b) >= 3
  PROVE  /\ WithLrc(b) \in Seq(Int) /\ Len(WithLrc(b)) = Len(b)
         /\ \A i \in 1 .. Len(b) - 3 : WithLrc(b)[i] = b[i]
         /\ lrcCheck(WithLrc(b))
<1> DEFINE f == WithLrc(b)
           hi == heToAsciiNum(lrcCaculate(b) \div 16)
           lo == heToAsciiNum(lrcCaculate(b) % 16)
<1>1. hi \in Int /\ lo \in Int
  <2>1. \A x \in 0 .. 255 : heToAsciiNum(x \div 16) \in Int /\ heToAsciiNum(x % 16) \in Int
    BY DEF heToAsciiNum
  <2> QED BY <2>1, SumIsByte, Zenon
<1>2. f = [b EXCEPT ![Len(b) - 2] = hi, ![Len(b) - 1] = lo]
  BY DEF WithLrc
<1> HIDE DEF f, hi, lo
<1>3. /\ f \in Seq(Int) /\ Len(f) = Len(b)
      /\ f[Len(b) - 2] = hi /\ f[Len(b) - 1] = lo
      /\ \A i \in 1 .. Len(b) - 3 : f[i] = b[i]
  BY <1>1, <1>2, SMTT(30)
<1>4. SubSeq(f, 1, Len(f) - 3) = SubSeq(b, 1, Len(b) - 3)
  BY <1>3
<1>5. lrcCaculate(f) = lrcCaculate(b)
  BY <1>4, Zenon DEF lrcCaculate
<1>6. lrcCheck(f)
  BY <1>3, <1>5 DEF lrcCheck, hi, lo
<1> QED BY <1>3, <1>6 DEF f

\* The sum goes on modulo 256.
LEMMA SumGoesOn ==
  ASSUME NEW a \in Int, NEW x \in Int
  PROVE  (((a % 256) + x) % 256) = ((a + x) % 256)
OBVIOUS

\* What the sum is for bytes whose totals are known.
LEMMA SumOfTotals ==
  ASSUME NEW b \in Seq(Int), NEW n \in Nat, Len(b) = n + 3, n >= 1,
         NEW t \in [1 .. n -> Int], t[1] = b[1],
         \A k \in 2 .. n : t[k] = t[k - 1] + b[k]
  PROVE  lrcCaculate(b) = (t[n] % 256)
<1>1. n >= 1 /\ Len(b) >= 3 /\ Len(b) - 3 = n /\ 1 \in 1 .. n
  OBVIOUS
<1>2. PICK g : /\ g[0] = 0
               /\ \A k \in 1 .. n : g[k] = ((g[k - 1] + b[k]) % 256)
               /\ lrcCaculate(b) = g[n]
  BY <1>1, SumOfFront
<1> DEFINE T == {k \in Nat : 1 <= k /\ k <= n => g[k] = (t[k] % 256)}
<1>3. 0 \in T
  OBVIOUS
<1>4. ASSUME NEW k \in Nat, k \in T PROVE k + 1 \in T
  <2>1. CASE k = 0
    <3>1. g[1] = ((g[0] + b[1]) % 256)
      <4>1. g[1] = ((g[1 - 1] + b[1]) % 256)
        BY <1>1, <1>2
      <4>2. 1 - 1 = 0
        OBVIOUS
      <4> QED BY <4>1, <4>2
    <3>2. b[1] \in Int /\ b[1] = t[1]
      BY <1>1
    <3>3. \A x \in Int : 0 + x = x
      OBVIOUS
    <3>4. g[1] = (t[1] % 256)
      BY <1>2, <3>1, <3>2, <3>3, Zenon
    <3> QED BY <2>1, <3>4
  <2>2. CASE k >= 1 /\ k + 1 <= n
    <3>1. /\ k + 1 \in 2 .. n /\ k + 1 \in 1 .. n /\ k \in 1 .. n /\ (k + 1) - 1 = k
          /\ b[k + 1] \in Int /\ t[k] \in Int
      BY <1>1, <2>2
    <3>2. g[k] = (t[k] % 256)
      BY <1>4, <3>1
    <3>3. g[k + 1] = ((g[(k + 1) - 1] + b[k + 1]) % 256) /\ t[k + 1] = t[(k + 1) - 1] + b[k + 1]
      BY <1>2, <3>1
    <3>4. g[k + 1] = (((t[k] % 256) + b[k + 1]) % 256) /\ t[k + 1] = t[k] + b[k + 1]
      BY <3>1, <3>2, <3>3, ZenonT(40)
    <3>5. g[k + 1] = (t[k + 1] % 256)
      <4>1. (((t[k] % 256) + b[k + 1]) % 256) = ((t[k] + b[k + 1]) % 256)
        BY <3>1, SumGoesOn, SMT
      <4> QED BY <3>4, <4>1, Zenon
    <3> QED BY <3>5
  <2>3. CASE k + 1 > n
    BY <2>3
  <2>4. k = 0 \/ (k >= 1 /\ k + 1 <= n) \/ k + 1 > n
    BY <1>1
  <2> QED BY <2>1, <2>2, <2>3, <2>4
<1>5. n \in T
  <2> HIDE DEF T
  <2> QED BY <1>3, <1>4, Induction
<1> QED BY <1>1, <1>2, <1>5

----------------------------------------------------------------------------
(* The literal commands. *)

CoilEnds(op, m, hi, lo) ==
    LET b == Coil(op, m, hi, lo)
    IN  /\ Len(b) = 14 /\ b[12] = hi /\ b[13] = lo
        /\ lrcCaculate(b) = ((422 + op + m) % 256)

LEMMA CoilSum ==
  ASSUME NEW op \in Int, NEW m \in Int, NEW hi \in Int, NEW lo \in Int
  PROVE  CoilEnds(op, m, hi, lo)
<1> DEFINE b == <<2, 48, 49, 52, 50, op, 77, 48, 48, 48, m, hi, lo, 3>>
           t == <<2, 50, 99, 151, 201, 201 + op, 278 + op, 326 + op,
                  374 + op, 422 + op, 422 + op + m>>
<1>1. /\ b \in Seq(Int) /\ Len(b) = 11 + 3 /\ b[12] = hi /\ b[13] = lo
      /\ b[1] = 2 /\ Coil(op, m, hi, lo) = b
  BY DEF Coil
<1>2. t \in [1 .. 11 -> Int] /\ t[1] = 2 /\ t[11] = 422 + op + m
  OBVIOUS
<1>3. /\ t[2] = t[1] + b[2] /\ t[3] = t[2] + b[3] /\ t[4] = t[3] + b[4]
      /\ t[5] = t[4] + b[5] /\ t[6] = t[5] + b[6] /\ t[7] = t[6] + b[7]
      /\ t[8] = t[7] + b[8] /\ t[9] = t[8] + b[9] /\ t[10] = t[9] + b[10]
      /\ t[11] = t[10] + b[11]
  OBVIOUS
<1> HIDE DEF b, t
<1>4. ASSUME NEW k \in 2 .. 11 PROVE t[k] = t[k - 1] + b[k]
  <2>1. k \in {2, 3, 4, 5, 6, 7, 8, 9, 10, 11}
    OBVIOUS
  <2>2. 2 - 1 = 1 /\ 3 - 1 = 2 /\ 4 - 1 = 3 /\ 5 - 1 = 4 /\ 6 - 1 = 5 /\ 7 - 1 = 6
        /\ 8 - 1 = 7 /\ 9 - 1 = 8 /\ 10 - 1 = 9 /\ 11 - 1 = 10
    OBVIOUS
  <2> QED BY <1>3, <2>1, <2>2, ZenonT(40)
<1>5. lrcCaculate(b) = (t[11] % 256)
  <2>1. b \in Seq(Int) /\ 11 \in Nat /\ Len(b) = 11 + 3 /\ 11 >= 1 /\ t[1] = b[1]
    BY <1>1, <1>2
  <2>2. t \in [1 .. 11 -> Int]
    BY <1>2
  <2>3. \A k \in 2 .. 11 : t[k] = t[k - 1] + b[k]
    BY <1>4
  <2> QED BY <2>1, <2>2, <2>3, SumOfTotals, ZenonT(40)
<1>6. lrcCaculate(b) = ((422 + op + m) % 256)
  BY <1>2, <1>5, ZenonT(40)
<1> QED BY <1>1, <1>6 DEF CoilEnds

StateEnds(p, q, r, hi, lo) ==
    LET b == State(<<p, 48, 48, q, r>>, hi, lo)
    IN  /\ Len(b) = 15 /\ b[13] = hi /\ b[14] = lo
        /\ lrcCaculate(b) = ((396 + p + q + r) % 256)

LEMMA StateSum ==
  ASSUME NEW p \in Int, NEW q \in Int, NEW r \in Int, NEW hi \in Int,
         NEW lo \in Int
  PROVE  StateEnds(p, q, r, hi, lo)
<1> DEFINE b == State(<<p, 48, 48, q, r>>, hi, lo)
           t == <<2, 50, 99, 151, 203, 251, 300, 300 + p, 348 + p, 396 + p,
                  396 + p + q, 396 + p + q + r>>
<1>1. /\ b \in Seq(Int) /\ Len(b) = 12 + 3 /\ b[13] = hi /\ b[14] = lo
      /\ b[1] = 2 /\ b[2] = 48 /\ b[3] = 49 /\ b[4] = 52 /\ b[5] = 52
      /\ b[6] = 48 /\ b[7] = 49 /\ b[8] = p /\ b[9] = 48 /\ b[10] = 48
      /\ b[11] = q /\ b[12] = r
  BY DEF State
<1> HIDE DEF b
<1>2. t \in [1 .. 12 -> Int] /\ t[1] = 2 /\ t[12] = 396 + p + q + r
  OBVIOUS
<1>3. /\ t[2] = t[1] + b[2] /\ t[3] = t[2] + b[3] /\ t[4] = t[3] + b[4]
      /\ t[5] = t[4] + b[5] /\ t[6] = t[5] + b[6] /\ t[7] = t[6] + b[7]
      /\ t[8] = t[7] + b[8] /\ t[9] = t[8] + b[9] /\ t[10] = t[9] + b[10]
      /\ t[11] = t[10] + b[11] /\ t[12] = t[11] + b[12]
  BY <1>1
<1> HIDE DEF t
<1>4. ASSUME NEW k \in 2 .. 12 PROVE t[k] = t[k - 1] + b[k]
  <2>1. k \in {2, 3, 4, 5, 6, 7, 8, 9, 10, 11, 12}
    OBVIOUS
  <2>2. 2 - 1 = 1 /\ 3 - 1 = 2 /\ 4 - 1 = 3 /\ 5 - 1 = 4 /\ 6 - 1 = 5 /\ 7 - 1 = 6
        /\ 8 - 1 = 7 /\ 9 - 1 = 8 /\ 10 - 1 = 9 /\ 11 - 1 = 10 /\ 12 - 1 = 11
    OBVIOUS
  <2> QED BY <1>3, <2>1, <2>2, ZenonT(40)
<1>5. lrcCaculate(b) = (t[12] % 256)
  <2>1. b \in Seq(Int) /\ 12 \in Nat /\ Len(b) = 12 + 3 /\ 12 >= 1 /\ t[1] = b[1]
    BY <1>1, <1>2
  <2>2. t \in [1 .. 12 -> Int]
    BY <1>2
  <2>3. \A k \in 2 .. 12 : t[k] = t[k - 1] + b[k]
    BY <1>4
  <2> QED BY <2>1, <2>2, <2>3, SumOfTotals, ZenonT(40)
<1>6. lrcCaculate(b) = ((396 + p + q + r) % 256)
  BY <1>2, <1>5, ZenonT(40)
<1> QED BY <1>1, <1>6 DEF b, StateEnds

RegisterEnds(r, hi, lo) ==
    LET b == Register(r, hi, lo)
    IN  /\ Len(b) = 17 /\ b[15] = hi /\ b[16] = lo
        /\ lrcCaculate(b) = ((644 + r) % 256)

LEMMA RegisterSum ==
  ASSUME NEW r \in Int, NEW hi \in Int, NEW lo \in Int
  PROVE  RegisterEnds(r, hi, lo)
<1> DEFINE b == <<2, 48, 49, 52, 54, 48, 49, 68, 82, 48, 48, 48, 48, r, hi, lo, 3>>
           t == <<2, 50, 99, 151, 205, 253, 302, 370, 452, 500, 548, 596,
                  644, 644 + r>>
<1>1. /\ b \in Seq(Int) /\ Len(b) = 14 + 3 /\ b[15] = hi /\ b[16] = lo
      /\ b[1] = 2 /\ Register(r, hi, lo) = b
  BY DEF Register
<1>2. t \in [1 .. 14 -> Int] /\ t[1] = 2 /\ t[14] = 644 + r
  OBVIOUS
<1>3. /\ t[2] = t[1] + b[2] /\ t[3] = t[2] + b[3] /\ t[4] = t[3] + b[4]
      /\ t[5] = t[4] + b[5] /\ t[6] = t[5] + b[6] /\ t[7] = t[6] + b[7]
      /\ t[8] = t[7] + b[8] /\ t[9] = t[8] + b[9] /\ t[10] = t[9] + b[10]
      /\ t[11] = t[10] + b[11] /\ t[12] = t[11] + b[12] /\ t[13] = t[12] + b[13]
      /\ t[14] = t[13] + b[14]
  OBVIOUS
<1> HIDE DEF b, t
<1>4. ASSUME NEW k \in 2 .. 14 PROVE t[k] = t[k - 1] + b[k]
  <2>1. k \in {2, 3, 4, 5, 6, 7, 8, 9, 10, 11, 12, 13, 14}
    OBVIOUS
  <2>2. 2 - 1 = 1 /\ 3 - 1 = 2 /\ 4 - 1 = 3 /\ 5 - 1 = 4 /\ 6 - 1 = 5 /\ 7 - 1 = 6
        /\ 8 - 1 = 7 /\ 9 - 1 = 8 /\ 10 - 1 = 9 /\ 11 - 1 = 10 /\ 12 - 1 = 11 /\ 13 - 1 = 12 /\ 14 - 1 = 13
    OBVIOUS
  <2> QED BY <1>3, <2>1, <2>2, ZenonT(40)
<1>5. lrcCaculate(b) = (t[14] % 256)
  <2>1. b \in Seq(Int) /\ 14 \in Nat /\ Len(b) = 14 + 3 /\ 14 >= 1 /\ t[1] = b[1]
    BY <1>1, <1>2
  <2>2. t \in [1 .. 14 -> Int]
    BY <1>2
  <2>3. \A k \in 2 .. 14 : t[k] = t[k - 1] + b[k]
    BY <1>4
  <2> QED BY <2>1, <2>2, <2>3, SumOfTotals, ZenonT(40)
<1>6. lrcCaculate(b) = ((644 + r) % 256)
  BY <1>2, <1>5, ZenonT(40)
<1> QED BY <1>1, <1>6 DEF RegisterEnds

\* Each literal of CmdProcess ends in the digits of its sum.
LEMMA CommandsCheck ==
  ASSUME NEW c \in DOMAIN Commands
  PROVE  lrcCheck(Commands[c])
<1>1. c \in {"C_ENABLE_RELEASE", "C_ENABLE_LOCKED",
             "C_ROTATE_A", "C_ROTATE_B",
             "C_ROTATE_ALL_TIME", "C_STOP",
             "C_READ_STATE_ENABLE", "C_READ_STATE_ROTATE",
             "C_READ_SPEED", "C_READ_ANGLE"}
  BY DEF Commands
<1>2. ASSUME c = "C_ENABLE_RELEASE" PROVE lrcCheck(Commands[c])
  <2> DEFINE b == Coil(52, 48, 48, 65)
  <2>1. Commands[c] = b
    BY <1>2 DEF Commands
  <2>2. Len(b) = 14 /\ b[12] = 48 /\ b[13] = 65 /\ lrcCaculate(b) = ((422 + 52 + 48) % 256)
    <3>1. CoilEnds(52, 48, 48, 65)
      BY CoilSum
    <3> QED BY <3>1 DEF CoilEnds
  <2> HIDE DEF b
  <2>3. lrcCheck(b)
    BY <2>2 DEF lrcCheck, heToAsciiNum
  <2> QED BY <2>1, <2>3
<1>3. ASSUME c = "C_ENABLE_LOCKED" PROVE lrcCheck(Commands[c])
  <2> DEFINE b == Coil(51, 48, 48, 57)
  <2>1. Commands[c] = b
    BY <1>3 DEF Commands
  <2>2. Len(b) = 14 /\ b[12] = 48 /\ b[13] = 57 /\ lrcCaculate(b) = ((422 + 51 + 48) % 256)
    <3>1. CoilEnds(51, 48, 48, 57)
      BY CoilSum
    <3> QED BY <3>1 DEF CoilEnds
  <2> HIDE DEF b
  <2>3. lrcCheck(b)
    BY <2>2 DEF lrcCheck, heToAsciiNum
  <2> QED BY <2>1, <2>3
<1>4. ASSUME c = "C_ROTATE_A" PROVE lrcCheck(Commands[c])
  <2> DEFINE b == Coil(52, 49, 48, 66)
  <2>1. Commands[c] = b
    BY <1>4 DEF Commands
  <2>2. Len(b) = 14 /\ b[12] = 48 /\ b[13] = 66 /\ lrcCaculate(b) = ((422 + 52 + 49) % 256)
    <3>1. CoilEnds(52, 49, 48, 66)
      BY CoilSum
    <3> QED BY <3>1 DEF CoilEnds
  <2> HIDE DEF b
  <2>3. lrcCheck(b)
    BY <2>2 DEF lrcCheck, heToAsciiNum
  <2> QED BY <2>1, <2>3
<1>5. ASSUME c = "C_ROTATE_B" PROVE lrcCheck(Commands[c])
  <2> DEFINE b == Coil(51, 49, 48, 65)
  <2>1. Commands[c] = b
    BY <1>5 DEF Commands
  <2>2. Len(b) = 14 /\ b[12] = 48 /\ b[13] = 65 /\ lrcCaculate(b) = ((422 + 51 + 49) % 256)
    <3>1. CoilEnds(51, 49, 48, 65)
      BY CoilSum
    <3> QED BY <3>1 DEF CoilEnds
  <2> HIDE DEF b
  <2>3. lrcCheck(b)
    BY <2>2 DEF lrcCheck, heToAsciiNum
  <2> QED BY <2>1, <2>3
<1>6. ASSUME c = "C_ROTATE_ALL_TIME" PROVE lrcCheck(Commands[c])
  <2> DEFINE b == Coil(51, 50, 48, 66)
  <2>1. Commands[c] = b
    BY <1>6 DEF Commands
  <2>2. Len(b) = 14 /\ b[12] = 48 /\ b[13] = 66 /\ lrcCaculate(b) = ((422 + 51 + 50) % 256)
    <3>1. CoilEnds(51, 50, 48, 66)
      BY CoilSum
    <3> QED BY <3>1 DEF CoilEnds
  <2> HIDE DEF b
  <2>3. lrcCheck(b)
    BY <2>2 DEF lrcCheck, heToAsciiNum
  <2> QED BY <2>1, <2>3
<1>7. ASSUME c = "C_STOP" PROVE lrcCheck(Commands[c])
  <2> DEFINE b == Coil(52, 50, 48, 67)
  <2>1. Commands[c] = b
    BY <1>7 DEF Commands
  <2>2. Len(b) = 14 /\ b[12] = 48 /\ b[13] = 67 /\ lrcCaculate(b) = ((422 + 52 + 50) % 256)
    <3>1. CoilEnds(52, 50, 48, 67)
      BY CoilSum
    <3> QED BY <3>1 DEF CoilEnds
  <2> HIDE DEF b
  <2>3. lrcCheck(b)
    BY <2>2 DEF lrcCheck, heToAsciiNum
  <2> QED BY <2>1, <2>3
<1>8. ASSUME c = "C_READ_STATE_ENABLE" PROVE lrcCheck(Commands[c])
  <2> DEFINE b == State(<<89, 48, 48, 48, 50>>, 52, 55)
  <2>1. Commands[c] = b
    BY <1>8 DEF Commands
  <2>2. Len(b) = 15 /\ b[13] = 52 /\ b[14] = 55 /\ lrcCaculate(b) = ((396 + 89 + 48 + 50) % 256)
    <3>1. StateEnds(89, 48, 50, 52, 55)
      BY StateSum
    <3> QED BY <3>1 DEF StateEnds
  <2> HIDE DEF b
  <2>3. lrcCheck(b)
    BY <2>2 DEF lrcCheck, heToAsciiNum
  <2> QED BY <2>1, <2>3
<1>9. ASSUME c = "C_READ_STATE_ROTATE" PROVE lrcCheck(Commands[c])
  <2> DEFINE b == State(<<77, 48, 48, 49, 48>>, 51, 65)
  <2>1. Commands[c] = b
    BY <1>9 DEF Commands
  <2>2. Len(b) = 15 /\ b[13] = 51 /\ b[14] = 65 /\ lrcCaculate(b) = ((396 + 77 + 49 + 48) % 256)
    <3>1. StateEnds(77, 49, 48, 51, 65)
      BY StateSum
    <3> QED BY <3>1 DEF StateEnds
  <2> HIDE DEF b
  <2>3. lrcCheck(b)
    BY <2>2 DEF lrcCheck, heToAsciiNum
  <2> QED BY <2>1, <2>3
<1>10. ASSUME c = "C_READ_SPEED" PROVE lrcCheck(Commands[c])
  <2> DEFINE b == Register(48, 66, 52)
  <2>1. Commands[c] = b
    BY <1>10 DEF Commands
  <2>2. Len(b) = 17 /\ b[15] = 66 /\ b[16] = 52 /\ lrcCaculate(b) = ((644 + 48) % 256)
    <3>1. RegisterEnds(48, 66, 52)
      BY RegisterSum
    <3> QED BY <3>1 DEF RegisterEnds
  <2> HIDE DEF b
  <2>3. lrcCheck(b)
    BY <2>2 DEF lrcCheck, heToAsciiNum
  <2> QED BY <2>1, <2>3
<1>11. ASSUME c = "C_READ_ANGLE" PROVE lrcCheck(Commands[c])
  <2> DEFINE b == Register(50, 66, 54)
  <2>1. Commands[c] = b
    BY <1>11 DEF Commands
  <2>2. Len(b) = 17 /\ b[15] = 66 /\ b[16] = 54 /\ lrcCaculate(b) = ((644 + 50) % 256)
    <3>1. RegisterEnds(50, 66, 54)
      BY RegisterSum
    <3> QED BY <3>1 DEF RegisterEnds
  <2> HIDE DEF b
  <2>3. lrcCheck(b)
    BY <2>2 DEF lrcCheck, heToAsciiNum
  <2> QED BY <2>1, <2>3
<1> QED BY <1>1, <1>2, <1>3, <1>4, <1>5, <1>6, <1>7, <1>8, <1>9, <1>10, <1>11

----------------------------------------------------------------------------
(* The frames that are built. *)

\* Numbers in a row are a sequence.
LEMMA RowIsSeq ==
  ASSUME NEW n \in Nat, NEW f \in [1 .. n -> Int]
  PROVE  f \in Seq(Int) /\ Len(f) = n
<1>1. [i \in 1 .. n |-> f[i]] \in Seq(Int)
  OBVIOUS
<1>2. f = [i \in 1 .. n |-> f[i]]
  OBVIOUS
<1>3. f \in Seq(Int)
  BY <1>1, <1>2
<1>4. Len(f) = n
  BY <1>2
<1> QED BY <1>3, <1>4

\* The weights of eight digits.
LEMMA Powers ==
  /\ 16 ^ 0 = 1 /\ 16 ^ 1 = 16 /\ 16 ^ 2 = 256 /\ 16 ^ 3 = 4096 /\ 16 ^ 4 = 65536
  /\ 16 ^ 5 = 1048576 /\ 16 ^ 6 = 16777216 /\ 16 ^ 7 = 268435456
OBVIOUS

\* A digit and its character.
LEMMA Characters ==
  ASSUME NEW d \in 0 .. 15
  PROVE  heToAsciiNum(d) \in Int /\ DigitOf(heToAsciiNum(d)) = d
BY DEF heToAsciiNum, DigitOf

LEMMA DigitAt ==
  ASSUME NEW v \in Nat, NEW e \in 0 .. 7
  PROVE  ((v \div 16 ^ e) % 16) \in 0 .. 15
<1>1. ASSUME NEW p \in {1, 16, 256, 4096, 65536, 1048576, 16777216, 268435456}
      PROVE  ((v \div p) % 16) \in 0 .. 15
  OBVIOUS
<1>2. e \in {0, 1, 2, 3, 4, 5, 6, 7}
  OBVIOUS
<1>3. 16 ^ e \in {1, 16, 256, 4096, 65536, 1048576, 16777216, 268435456}
  <2>1. CASE e = 0
    BY <2>1
  <2>2. CASE e = 1
    BY <2>2
  <2>3. CASE e = 2
    BY <2>3
  <2>4. CASE e = 3
    BY <2>4
  <2>5. CASE e = 4
    BY <2>5
  <2>6. CASE e = 5
    BY <2>6
  <2>7. CASE e = 6
    BY <2>7
  <2>8. CASE e = 7
    BY <2>8
  <2> QED BY <1>2, <2>1, <2>2, <2>3, <2>4, <2>5, <2>6, <2>7, <2>8
<1> QED BY <1>1, <1>3

\* QString::number gives as many digits as the number needs, eight at most.
LEMMA DigitsNeeded ==
  ASSUME NEW v \in Nat
  PROVE  /\ NDigits(v) \in 1 .. 8
         /\ NDigits(v) = 8 \/ v < 16 ^ NDigits(v)
         /\ NDigits(v) = 1 \/ v >= 16 ^ (NDigits(v) - 1)
<1> DEFINE Q(n) == (n = 8 \/ v < 16 ^ n) /\ (n = 1 \/ v >= 16 ^ (n - 1))
<1>1. \E n \in 1 .. 8 : Q(n)
  <2>1. /\ 1 - 1 = 0 /\ 2 - 1 = 1 /\ 3 - 1 = 2 /\ 4 - 1 = 3 /\ 5 - 1 = 4 /\ 6 - 1 = 5
        /\ 7 - 1 = 6 /\ 8 - 1 = 7
    OBVIOUS
  <2>2. /\ v < 16 => Q(1)
        /\ v >= 16 /\ v < 256 => Q(2)
        /\ v >= 256 /\ v < 4096 => Q(3)
        /\ v >= 4096 /\ v < 65536 => Q(4)
        /\ v >= 65536 /\ v < 1048576 => Q(5)
        /\ v >= 1048576 /\ v < 16777216 => Q(6)
        /\ v >= 16777216 /\ v < 268435456 => Q(7)
        /\ v >= 268435456 => Q(8)
    BY <2>1, Powers
  <2> HIDE DEF Q
  <2> QED BY <2>2
<1>2. NDigits(v) = CHOOSE n \in 1 .. 8 : Q(n)
  BY DEF NDigits
<1>3. NDigits(v) \in 1 .. 8 /\ Q(NDigits(v))
  <2> HIDE DEF Q
  <2> QED BY <1>1, <1>2
<1> QED BY <1>3

LEMMA HexTextType ==
  ASSUME NEW v \in Nat
  PROVE  HexText(v) \in Seq(Int) /\ Len(HexText(v)) = NDigits(v)
<1> DEFINE n == NDigits(v)
           Char(i) == heToAsciiNum((v \div 16 ^ (n - i)) % 16)
<1>1. n \in 1 .. 8
  BY DigitsNeeded
<1>2. HexText(v) = [i \in 1 .. n |-> Char(i)]
  BY DEF HexText
<1> HIDE DEF n
<1>3. ASSUME NEW i \in 1 .. n PROVE Char(i) \in Int
  <2>1. n - i \in 0 .. 7
    BY <1>1
  <2> QED BY <2>1, DigitAt, Characters
<1> HIDE DEF Char
<1>4. HexText(v) \in [1 .. n -> Int] /\ n \in Nat
  BY <1>1, <1>2, <1>3
<1>5. HexText(v) \in Seq(Int) /\ Len(HexText(v)) = n
  BY <1>4, RowIsSeq
<1> QED BY <1>5 DEF n

LEMMA PaddedType ==
  ASSUME NEW v \in Nat
  PROVE  Padded(v) \in [1 .. 8 -> Int]
<1>1. ASSUME NEW i \in 1 .. 8 PROVE heToAsciiNum((v \div 16 ^ (8 - i)) % 16) \in Int
  <2>1. 8 - i \in 0 .. 7
    OBVIOUS
  <2> QED BY <2>1, DigitAt, Characters
<1> QED BY <1>1 DEF Padded

LEMMA BlankType ==
  ASSUME NEW r \in Int, NEW fill \in [1 .. 8 -> Int]
  PROVE  /\ Blank(r, fill) \in Seq(Int) /\ Len(Blank(r, fill)) = 25
         /\ \A i \in 15 .. 22 : Blank(r, fill)[i] = fill[i - 14]
<1> DEFINE a == <<\h02, \h30, \h31, \h34, \h37, \h30, \h31, \h44, \h52,
                  \h30, \h30, \h30, \h30, r>>
           z == <<0, 0, \h03>>
<1>1. a \in Seq(Int) /\ Len(a) = 14
  OBVIOUS
<1>2. z \in Seq(Int) /\ Len(z) = 3
  OBVIOUS
<1>3. fill \in Seq(Int) /\ Len(fill) = 8
  BY RowIsSeq
<1>4. Blank(r, fill) = (a \o fill) \o z
  BY DEF Blank
<1> HIDE DEF a, z
<1>5. /\ a \o fill \in Seq(Int) /\ Len(a \o fill) = 22
      /\ \A i \in 15 .. 22 : (a \o fill)[i] = fill[i - 14]
  <2>1. /\ a \o fill \in Seq(Int) /\ Len(a \o fill) = Len(a) + Len(fill)
        /\ \A i \in 1 .. Len(a) + Len(fill) :
              (a \o fill)[i] = IF i <= Len(a) THEN a[i] ELSE fill[i - Len(a)]
    BY <1>1, <1>3, ConcatProperties, Zenon
  <2>2. a \o fill \in Seq(Int) /\ Len(a \o fill) = 22
    BY <1>1, <1>3, <2>1
  <2>3. ASSUME NEW i \in 15 .. 22 PROVE (a \o fill)[i] = fill[i - 14]
    <3>1. i \in 1 .. Len(a) + Len(fill) /\ ~(i <= Len(a)) /\ i - Len(a) = i - 14
      BY <1>1, <1>3, SMTT(30)
    <3> QED BY <2>1, <3>1
  <2> QED BY <2>2, <2>3
<1> DEFINE c == a \o fill
<1> HIDE DEF c
<1>6. /\ c \o z \in Seq(Int) /\ Len(c \o z) = 25
      /\ \A i \in 1 .. 22 : (c \o z)[i] = c[i]
  <2>1. c \in Seq(Int) /\ Len(c) = 22
    BY <1>5 DEF c
  <2>2. /\ c \o z \in Seq(Int) /\ Len(c \o z) = Len(c) + Len(z)
        /\ \A i \in 1 .. Len(c) + Len(z) :
              (c \o z)[i] = IF i <= Len(c) THEN c[i] ELSE z[i - Len(c)]
    BY <1>2, <2>1, ConcatProperties, Zenon
  <2>3. c \o z \in Seq(Int) /\ Len(c \o z) = 25
    BY <1>2, <2>1, <2>2
  <2>4. ASSUME NEW i \in 1 .. 22 PROVE (c \o z)[i] = c[i]
    <3>1. i \in 1 .. Len(c) + Len(z) /\ i <= Len(c)
      BY <1>2, <2>1, SMTT(30)
    <3> QED BY <2>2, <3>1
  <2> QED BY <2>3, <2>4
<1>7. \A i \in 15 .. 22 : i \in 1 .. 22
  OBVIOUS
<1>8. Blank(r, fill) = c \o z /\ \A i \in 15 .. 22 : c[i] = fill[i - 14]
  BY <1>4, <1>5 DEF c
<1> QED BY <1>6, <1>7, <1>8

LEMMA PutDigitsType ==
  ASSUME NEW f \in Seq(Int), Len(f) = 25, NEW t \in Seq(Int), Len(t) <= 8
  PROVE  /\ PutDigits(f, t) \in Seq(Int) /\ Len(PutDigits(f, t)) = 25
         /\ \A i \in 15 .. 22 : PutDigits(f, t)[i] = IF i > 22 - Len(t) THEN t[i - 22 + Len(t)]
                                                                       ELSE f[i]
<1> DEFINE Byte(i) == IF i \in 23 - Len(t) .. 22 THEN t[i - 22 + Len(t)] ELSE f[i]
<1>1. ASSUME NEW i \in 1 .. 25 PROVE Byte(i) \in Int
  <2>0. Len(t) \in Nat /\ i \in 1 .. Len(f)
    BY LenProperties, Len(f) = 25
  <2>1. f[i] \in Int
    BY <2>0, ElementOfSeq
  <2>2. i \in 23 - Len(t) .. 22 => i - 22 + Len(t) \in 1 .. Len(t)
    BY <2>0
  <2>3. \A j \in 1 .. Len(t) : t[j] \in Int
    OBVIOUS
  <2> QED BY <2>1, <2>2, <2>3
<1>2. PutDigits(f, t) = [i \in 1 .. 25 |-> Byte(i)]
  BY DEF PutDigits
<1>3. PutDigits(f, t) \in Seq(Int) /\ Len(PutDigits(f, t)) = 25
  <2> HIDE DEF Byte
  <2>1. PutDigits(f, t) \in [1 .. 25 -> Int]
    BY <1>1, <1>2
  <2> QED BY <2>1, RowIsSeq
<1>4. ASSUME NEW i \in 15 .. 22
      PROVE  PutDigits(f, t)[i] = IF i > 22 - Len(t) THEN t[i - 22 + Len(t)] ELSE f[i]
  <2>1. Len(t) \in Nat
    OBVIOUS
  <2>2. i \in 23 - Len(t) .. 22 <=> i > 22 - Len(t)
    BY <2>1
  <2>3. PutDigits(f, t)[i] = Byte(i)
    <3>1. i \in 1 .. 25
      OBVIOUS
    <3> HIDE DEF Byte
    <3> QED BY <1>2, <3>1
  <2> QED BY <2>2, <2>3
<1> QED BY <1>3, <1>4

----------------------------------------------------------------------------
(* The number that eight characters mean. *)

\* One digit more: what is left of a number without its last digits.
LEMMA NextDigit ==
  ASSUME NEW v \in Nat, v <= MaxInt
  PROVE  /\ (v \div 268435456) \in 0 .. 7
         /\ 16 * (v \div 268435456) + ((v \div 16777216) % 16) = (v \div 16777216)
         /\ 16 * (v \div 16777216) + ((v \div 1048576) % 16) = (v \div 1048576)
         /\ 16 * (v \div 1048576) + ((v \div 65536) % 16) = (v \div 65536)
         /\ 16 * (v \div 65536) + ((v \div 4096) % 16) = (v \div 4096)
         /\ 16 * (v \div 4096) + ((v \div 256) % 16) = (v \div 256)
         /\ 16 * (v \div 256) + ((v \div 16) % 16) = (v \div 16)
         /\ 16 * (v \div 16) + ((v \div 1) % 16) = (v \div 1)
         /\ (v \div 1) = v
<1>1. v \in Nat /\ v <= 2147483647 /\ (v \div 268435456) \in 0 .. 7 /\ (v \div 1) = v
  BY SMT DEF MaxInt
<1>2. 16 * (v \div 268435456) + ((v \div 16777216) % 16) = (v \div 16777216)
  BY <1>1, SMT
<1>3. 16 * (v \div 16777216) + ((v \div 1048576) % 16) = (v \div 1048576)
  BY <1>1, SMT
<1>4. 16 * (v \div 1048576) + ((v \div 65536) % 16) = (v \div 65536)
  BY <1>1, SMT
<1>5. 16 * (v \div 65536) + ((v \div 4096) % 16) = (v \div 4096)
  BY <1>1, SMT
<1>6. 16 * (v \div 4096) + ((v \div 256) % 16) = (v \div 256)
  BY <1>1, SMT
<1>7. 16 * (v \div 256) + ((v \div 16) % 16) = (v \div 16)
  BY <1>1, SMT
<1>8. 16 * (v \div 16) + ((v \div 1) % 16) = (v \div 1)
  BY <1>1, SMT
<1> QED BY <1>1, <1>2, <1>3, <1>4, <1>5, <1>6, <1>7, <1>8, SMT

\* toInt reads what QString::number wrote with zeros before it.
LEMMA EightDigits ==
  ASSUME NEW v \in Nat, v <= MaxInt
  PROVE  ToInt(Padded(v)) = v
<1> DEFINE t == Padded(v)
           q(p) == v \div p
<1>1. v \in Nat
  OBVIOUS
<1>2. t \in [1 .. 8 -> Int] /\ Len(t) = 8 /\ DOMAIN t = 1 .. 8
  BY <1>1, PaddedType, RowIsSeq
<1>3. ASSUME NEW i \in 1 .. 8
      PROVE  DigitOf(t[i]) = ((v \div 16 ^ (8 - i)) % 16) /\ DigitOf(t[i]) \in 0 .. 15
  <2>1. 8 - i \in 0 .. 7 /\ t[i] = heToAsciiNum((v \div 16 ^ (8 - i)) % 16)
    BY DEF Padded
  <2> HIDE DEF t
  <2>2. ((v \div 16 ^ (8 - i)) % 16) \in 0 .. 15
    BY <1>1, <2>1, DigitAt
  <2> QED BY <2>1, <2>2, Characters
<1> HIDE DEF t
<1>4. /\ DigitOf(t[1]) = ((v \div 268435456) % 16)
      /\ DigitOf(t[2]) = ((v \div 16777216) % 16)
      /\ DigitOf(t[3]) = ((v \div 1048576) % 16)
      /\ DigitOf(t[4]) = ((v \div 65536) % 16)
      /\ DigitOf(t[5]) = ((v \div 4096) % 16)
      /\ DigitOf(t[6]) = ((v \div 256) % 16)
      /\ DigitOf(t[7]) = ((v \div 16) % 16)
      /\ DigitOf(t[8]) = ((v \div 1) % 16)
  BY <1>3, Powers, SMT
<1>5. PICK g : /\ g[0] = 0 /\ \A k \in 0 .. 8 : g[k] \in Int
               /\ \A k \in 1 .. 8 : g[k] = (16 * g[k - 1] + DigitOf(t[k]))
               /\ FoldLeft(LAMBDA a, c : 16 * a + DigitOf(c), 0, t) = g[8]
  <2>1. \A i \in 1 .. 8 : DigitOf(t[i]) \in Int
    BY <1>3
  <2> DEFINE n == 8
  <2>2. n \in Nat /\ DOMAIN t = 1 .. n /\ \A i \in 1 .. n : DigitOf(t[i]) \in Int
    BY <1>2, <2>1
  <2> HIDE DEF n
  <2>3. \E g : /\ g[0] = 0 /\ \A k \in 0 .. n : g[k] \in Int
               /\ \A k \in 1 .. n : g[k] = (16 * g[k - 1] + DigitOf(t[k]))
               /\ FoldLeft(LAMBDA a, c : 16 * a + DigitOf(c), 0, t) = g[n]
    BY <2>2, NumberSteps
  <2> QED BY <2>3, Zenon DEF n
<1>6. /\ g[1] = 16 * g[0] + DigitOf(t[1])
      /\ g[2] = 16 * g[1] + DigitOf(t[2])
      /\ g[3] = 16 * g[2] + DigitOf(t[3])
      /\ g[4] = 16 * g[3] + DigitOf(t[4])
      /\ g[5] = 16 * g[4] + DigitOf(t[5])
      /\ g[6] = 16 * g[5] + DigitOf(t[6])
      /\ g[7] = 16 * g[6] + DigitOf(t[7])
      /\ g[8] = 16 * g[7] + DigitOf(t[8])
  <2>1. \A k \in 1 .. 8 : g[k] = (16 * g[k - 1] + DigitOf(t[k]))
    BY <1>5
  <2> QED BY <2>1
<1>7. DigitOf(t[1]) \in 0 .. 7 /\ g[1] = (v \div 268435456)
  <2>1. \A d \in 0 .. 7 : (d % 16) = d
    OBVIOUS
  <2>2. DigitOf(t[1]) = (v \div 268435456) /\ (v \div 268435456) \in 0 .. 7
    BY <1>4, <2>1, NextDigit, SMT
  <2>3. g[1] = DigitOf(t[1])
    <3>1. g[0] = 0
      BY <1>5, Zenon
    <3>2. g[1] = 16 * g[0] + DigitOf(t[1])
      BY <1>6, Zenon
    <3>3. DigitOf(t[1]) \in Int
      BY <1>3
    <3> QED BY <3>1, <3>2, <3>3, SMT
  <2> QED BY <2>2, <2>3, SMT
<1>8. g[2] = (v \div 16777216)
  BY <1>4, <1>6, <1>7, NextDigit, SMT
<1>9. g[3] = (v \div 1048576)
  BY <1>4, <1>6, <1>8, NextDigit, SMT
<1>10. g[4] = (v \div 65536)
  BY <1>4, <1>6, <1>9, NextDigit, SMT
<1>11. g[5] = (v \div 4096)
  BY <1>4, <1>6, <1>10, NextDigit, SMT
<1>12. g[6] = (v \div 256)
  BY <1>4, <1>6, <1>11, NextDigit, SMT
<1>13. g[7] = (v \div 16)
  BY <1>4, <1>6, <1>12, NextDigit, SMT
<1>14. g[8] = (v \div 1)
  BY <1>4, <1>6, <1>13, NextDigit, SMT
<1>15. ToInt(t) = g[8]
  <2>1. \A i \in 1 .. Len(t) : DigitOf(t[i]) # -1
    BY <1>2, <1>3
  <2>2. ~(DigitOf(t[1]) > 7)
    BY <1>7
  <2>3. ToInt(t) = FoldLeft(LAMBDA a, c : 16 * a + DigitOf(c), 0, t)
    BY <2>1, <2>2, Zenon DEF ToInt
  <2> QED BY <1>5, <2>3, Zenon
<1> QED BY <1>14, <1>15, NextDigit, SMT DEF t

----------------------------------------------------------------------------
(* Each frame, and the field in it. *)

\* What the stack holds of a number of up to eight digits.
LEMMA OnStackType ==
  ASSUME NEW t \in Seq(Int), NEW b \in Int
  PROVE  /\ OnStack(t, b) \in Seq(Int) /\ Len(OnStack(t, b)) = Len(t)
         /\ Len(t) <= 5 => OnStack(t, b) = t
<1> DEFINE n == Len(t)
<1>1. n \in Nat /\ DOMAIN t = 1 .. n /\ \A i \in 1 .. n : t[i] \in Int
  OBVIOUS
<1>2. OnStack(t, b) \in [1 .. n -> Int]
  BY <1>1 DEF OnStack
<1>3. OnStack(t, b) \in Seq(Int) /\ Len(OnStack(t, b)) = n
  BY <1>1, <1>2, RowIsSeq
<1>4. ASSUME n <= 5 PROVE OnStack(t, b) = t
  <2>1. \A i \in 1 .. n : i <= 5
    BY <1>1, <1>4
  <2>2. OnStack(t, b) = [i \in 1 .. n |-> t[i]]
    BY <2>1 DEF OnStack
  <2>3. t = [i \in 1 .. n |-> t[i]]
    BY <1>1
  <2> QED BY <2>2, <2>3
<1> QED BY <1>3, <1>4

\* The zeros that the first apply button starts from, and the unset bytes of the second.
LEMMA Fills ==
  /\ [i \in 1 .. 8 |-> \h30] \in [1 .. 8 -> Int]
  /\ [i \in 1 .. 8 |-> 0] \in [1 .. 8 -> Int]
  /\ \A r \in Registers : r \in Int
BY DEF Registers

\* A frame of 25 bytes that checks.
Built(f) == f \in Seq(Int) /\ Len(f) = 25 /\ lrcCheck(f)

\* The digits of v end at the last byte of the field, over zeros.
HoldsDigits(f, v) ==
    \A i \in 15 .. 22 : f[i] = IF i > 22 - NDigits(v)
                               THEN HexText(v)[i - 22 + NDigits(v)] ELSE \h30

\* sendArrayConfig's frame is 25 bytes long and checks.
LEMMA ApplyFrame ==
  ASSUME NEW v \in Nat, NEW r \in Registers, NEW b \in Stray
  PROVE  /\ Built(sendArrayConfig(r, v, b))
         /\ NDigits(v) <= 5 => HoldsDigits(sendArrayConfig(r, v, b), v)
<1> DEFINE t == HexText(v)
           s == OnStack(t, b)
           z == [i \in 1 .. 8 |-> \h30]
           e == Blank(r, z)
           f == PutDigits(e, s)
<1>1. t \in Seq(Int) /\ Len(t) = NDigits(v) /\ Len(t) <= 8
  <2>1. \A n \in 1 .. 8 : n <= 8
    OBVIOUS
  <2> QED BY <2>1, HexTextType, DigitsNeeded, Zenon
<1>2. b \in Int
  BY FrameAssumption
<1> HIDE DEF t
<1>3. s \in Seq(Int) /\ Len(s) = NDigits(v) /\ (NDigits(v) <= 5 => s = t)
  BY <1>1, <1>2, OnStackType
<1> HIDE DEF s
<1>4. z \in [1 .. 8 -> Int] /\ r \in Int /\ \A i \in 15 .. 22 : z[i - 14] = \h30
  BY Fills
<1> HIDE DEF z
<1>5. e \in Seq(Int) /\ Len(e) = 25 /\ \A i \in 15 .. 22 : e[i] = \h30
  BY <1>4, BlankType
<1> HIDE DEF e
<1>6. /\ f \in Seq(Int) /\ Len(f) = 25
      /\ \A i \in 15 .. 22 : f[i] = IF i > 22 - Len(s) THEN s[i - 22 + Len(s)] ELSE e[i]
  <2>1. Len(s) <= 8
    BY <1>1, <1>3, Zenon
  <2> QED BY <1>3, <1>5, <2>1, PutDigitsType, Zenon
<1> HIDE DEF f
<1>7. /\ WithLrc(f) \in Seq(Int) /\ Len(WithLrc(f)) = 25 /\ lrcCheck(WithLrc(f))
      /\ \A i \in 1 .. 22 : WithLrc(f)[i] = f[i]
  <2>1. Len(f) >= 3 /\ Len(f) - 3 = 22
    BY <1>6
  <2>2. /\ WithLrc(f) \in Seq(Int) /\ Len(WithLrc(f)) = Len(f) /\ lrcCheck(WithLrc(f))
        /\ \A i \in 1 .. Len(f) - 3 : WithLrc(f)[i] = f[i]
    BY <1>6, <2>1, WithLrcChecks, Zenon
  <2> QED BY <1>6, <2>1, <2>2, Zenon
<1>8. \A i \in 15 .. 22 : i \in 1 .. 22
  OBVIOUS
<1>9. sendArrayConfig(r, v, b) = WithLrc(f)
  BY DEF sendArrayConfig, f, e, z, s, t
<1>10. ASSUME NDigits(v) <= 5, NEW i \in 15 .. 22
       PROVE  WithLrc(f)[i] = IF i > 22 - NDigits(v) THEN t[i - 22 + NDigits(v)] ELSE \h30
  <2>1. s = t /\ WithLrc(f)[i] = f[i]
    BY <1>3, <1>7, <1>8, <1>10, Zenon
  <2>2. f[i] = IF i > 22 - Len(s) THEN s[i - 22 + Len(s)] ELSE e[i]
    BY <1>6
  <2>3. e[i] = \h30
    BY <1>5
  <2> QED BY <1>3, <2>1, <2>2, <2>3, Zenon
<1>11. Built(WithLrc(f))
  BY <1>7, Zenon DEF Built
<1>12. NDigits(v) <= 5 => HoldsDigits(WithLrc(f), v)
  BY <1>10 DEF HoldsDigits, t
<1> QED BY <1>9, <1>11, <1>12, Zenon

\* So is the second apply button's.
LEMMA ApplyTwoFrame ==
  ASSUME NEW v \in Nat, NEW r \in Registers
  PROVE  /\ Built(Apply2(r, v))
         /\ HasCase(NDigits(v)) => HoldsDigits(Apply2(r, v), v)
<1> DEFINE t == HexText(v)
           z == [i \in 1 .. 8 |-> \h30]
           y == [i \in 1 .. 8 |-> 0]
           e == Blank(r, z)
           d == Blank(r, y)
           p == PutDigits(e, t)
           f == IF HasCase(NDigits(v)) THEN p ELSE d
<1>1. t \in Seq(Int) /\ Len(t) = NDigits(v) /\ Len(t) <= 8
  <2>1. \A n \in 1 .. 8 : n <= 8
    OBVIOUS
  <2> QED BY <2>1, HexTextType, DigitsNeeded, Zenon
<1> HIDE DEF t
<1>2. /\ z \in [1 .. 8 -> Int] /\ y \in [1 .. 8 -> Int] /\ r \in Int
      /\ \A i \in 15 .. 22 : z[i - 14] = \h30
  BY Fills
<1> HIDE DEF z, y
<1>3. e \in Seq(Int) /\ Len(e) = 25 /\ \A i \in 15 .. 22 : e[i] = \h30
  <2>1. e \in Seq(Int) /\ Len(e) = 25 /\ \A i \in 15 .. 22 : e[i] = z[i - 14]
    BY <1>2, BlankType, Zenon
  <2> QED BY <1>2, <2>1, ZenonT(40)
<1>4. d \in Seq(Int) /\ Len(d) = 25
  BY <1>2, BlankType, Zenon
<1> HIDE DEF e, d
<1>5. /\ p \in Seq(Int) /\ Len(p) = 25
      /\ \A i \in 15 .. 22 : p[i] = IF i > 22 - Len(t) THEN t[i - 22 + Len(t)] ELSE e[i]
  BY <1>1, <1>3, PutDigitsType, Zenon
<1> HIDE DEF p
<1>6. f \in Seq(Int) /\ Len(f) = 25 /\ (HasCase(NDigits(v)) => f = p)
  BY <1>4, <1>5
<1>7. Apply2(r, v) = WithLrc(f)
  BY DEF Apply2, f, p, d, e, z, y, t
<1> HIDE DEF f
<1>8. /\ WithLrc(f) \in Seq(Int) /\ Len(WithLrc(f)) = 25 /\ lrcCheck(WithLrc(f))
      /\ \A i \in 1 .. 22 : WithLrc(f)[i] = f[i]
  <2>1. Len(f) >= 3 /\ Len(f) - 3 = 22
    BY <1>6
  <2>2. /\ WithLrc(f) \in Seq(Int) /\ Len(WithLrc(f)) = Len(f) /\ lrcCheck(WithLrc(f))
        /\ \A i \in 1 .. Len(f) - 3 : WithLrc(f)[i] = f[i]
    BY <1>6, <2>1, WithLrcChecks, Zenon
  <2> QED BY <1>6, <2>1, <2>2, Zenon
<1>9. \A i \in 15 .. 22 : i \in 1 .. 22
  OBVIOUS
<1>10. ASSUME HasCase(NDigits(v)), NEW i \in 15 .. 22
       PROVE  WithLrc(f)[i] = IF i > 22 - NDigits(v) THEN t[i - 22 + NDigits(v)] ELSE \h30
  <2>1. f = p /\ WithLrc(f)[i] = f[i]
    BY <1>6, <1>8, <1>9, <1>10, Zenon
  <2>2. p[i] = IF i > 22 - Len(t) THEN t[i - 22 + Len(t)] ELSE e[i]
    BY <1>5
  <2>3. e[i] = \h30
    BY <1>3
  <2> QED BY <1>1, <2>1, <2>2, <2>3, Zenon
<1>11. Built(WithLrc(f))
  BY <1>8, Zenon DEF Built
<1>12. HasCase(NDigits(v)) => HoldsDigits(WithLrc(f), v)
  BY <1>10 DEF HoldsDigits, t
<1> QED BY <1>7, <1>11, <1>12, Zenon

\* The weight of each digit.
LEMMA PowerOf ==
  ASSUME NEW e \in Int, 0 <= e, e <= 7
  PROVE  \/ e = 0 /\ 16 ^ e = 1
         \/ e = 1 /\ 16 ^ e = 16
         \/ e = 2 /\ 16 ^ e = 256
         \/ e = 3 /\ 16 ^ e = 4096
         \/ e = 4 /\ 16 ^ e = 65536
         \/ e = 5 /\ 16 ^ e = 1048576
         \/ e = 6 /\ 16 ^ e = 16777216
         \/ e = 7 /\ 16 ^ e = 268435456
<1>1. CASE e = 0
  BY <1>1, SMT
<1>2. CASE e = 1
  BY <1>2, SMT
<1>3. CASE e = 2
  BY <1>3, SMT
<1>4. CASE e = 3
  BY <1>4, SMT
<1>5. CASE e = 4
  BY <1>5, SMT
<1>6. CASE e = 5
  BY <1>6, SMT
<1>7. CASE e = 6
  BY <1>7, SMT
<1>8. CASE e = 7
  BY <1>8, SMT
<1> QED BY <1>1, <1>2, <1>3, <1>4, <1>5, <1>6, <1>7, <1>8, SMT

\* A number of up to five digits, put over eight zeros, is the number with zeros before it.
LEMMA DigitsWritten ==
  ASSUME NEW v \in Nat, v < 16 ^ 5, NEW i \in 15 .. 22
  PROVE  /\ NDigits(v) <= 5
         /\ Padded(v)[i - 14] = IF i > 22 - NDigits(v)
                                THEN HexText(v)[i - 22 + NDigits(v)] ELSE \h30
<1> DEFINE n == NDigits(v)
           j == i - 14
<1>1. /\ n \in 1 .. 8 /\ (n = 8 \/ v < 16 ^ n) /\ (n = 1 \/ v >= 16 ^ (n - 1))
  BY DigitsNeeded
<1> HIDE DEF n
<1>2. n <= 5
  <2>1. n = 6 => v >= 16 ^ 5
    BY <1>1
  <2>2. n = 7 => v >= 16 ^ 6
    BY <1>1
  <2>3. n = 8 => v >= 16 ^ 7
    BY <1>1
  <2> QED BY <1>1, <2>1, <2>2, <2>3, Powers, SMT
<1>3. j \in 1 .. 8 /\ 8 - j \in 0 .. 7
  OBVIOUS
<1>4. Padded(v)[j] = heToAsciiNum((v \div 16 ^ (8 - j)) % 16)
  BY <1>3 DEF Padded
<1>5. ASSUME i > 22 - n
      PROVE  Padded(v)[j] = HexText(v)[i - 22 + n]
  <2>1. i - 22 + n \in 1 .. n /\ n - (i - 22 + n) = 8 - j
    BY <1>1, <1>5
  <2>2. HexText(v)[i - 22 + n] = heToAsciiNum((v \div 16 ^ (n - (i - 22 + n))) % 16)
    BY <2>1 DEF HexText, n
  <2> HIDE DEF j
  <2> QED BY <1>4, <2>1, <2>2
<1>6. ASSUME ~(i > 22 - n)
      PROVE  Padded(v)[j] = \h30
  <2>1. 8 - j >= n /\ 8 - j \in 0 .. 7
    BY <1>1, <1>3, <1>6
  <2>2. v < 16 ^ (8 - j)
    <3> DEFINE k == 8 - j
    <3>1. k \in 0 .. 7 /\ k >= n /\ n \in 1 .. 5 /\ v < 16 ^ n
      BY <1>1, <1>2, <2>1
    <3> HIDE DEF k
    <3>2. k \in {1, 2, 3, 4, 5, 6, 7} /\ n \in {1, 2, 3, 4, 5}
      BY <3>1
    <3>3. 16 ^ n <= 16 ^ k
      <4>1. k \in Int /\ 0 <= k /\ k <= 7 /\ n \in Int /\ 0 <= n /\ n <= 7 /\ n <= k
        BY <3>1
      <4> DEFINE x == 16 ^ n
                 y == 16 ^ k
      <4>2. \/ n = 0 /\ x = 1
            \/ n = 1 /\ x = 16
            \/ n = 2 /\ x = 256
            \/ n = 3 /\ x = 4096
            \/ n = 4 /\ x = 65536
            \/ n = 5 /\ x = 1048576
            \/ n = 6 /\ x = 16777216
            \/ n = 7 /\ x = 268435456
        BY <4>1, PowerOf, SMT
      <4>3. \/ k = 0 /\ y = 1
            \/ k = 1 /\ y = 16
            \/ k = 2 /\ y = 256
            \/ k = 3 /\ y = 4096
            \/ k = 4 /\ y = 65536
            \/ k = 5 /\ y = 1048576
            \/ k = 6 /\ y = 16777216
            \/ k = 7 /\ y = 268435456
        BY <4>1, PowerOf, SMT
      <4> HIDE DEF x, y
      <4>4. x <= y
        BY <4>1, <4>2, <4>3, SMT
      <4> QED BY <4>4, SMT DEF x, y
    <3>4. 16 ^ n \in Int /\ 16 ^ k \in Int
      BY <3>2, Powers, SMT
    <3> QED BY <3>1, <3>3, <3>4, SMT DEF k
  <2>3. (v \div 16 ^ (8 - j)) = 0
    <3> DEFINE w == 16 ^ (8 - j)
    <3>1. w \in Int /\ v < w
      <4>1. 8 - j \in {0, 1, 2, 3, 4, 5, 6, 7}
        BY <2>1
      <4> DEFINE k == 8 - j
      <4>2. k \in {0, 1, 2, 3, 4, 5, 6, 7}
        BY <4>1
      <4> HIDE DEF k
      <4>3. 16 ^ k \in Int
        BY <4>2, Powers, SMT
      <4> QED BY <2>2, <4>3 DEF k
    <3> HIDE DEF w
    <3>2. (v \div w) = 0
      BY <3>1
    <3> QED BY <3>2 DEF w
  <2> HIDE DEF j
  <2>4. (0 % 16) = 0 /\ heToAsciiNum(0) = \h30
    BY DEF heToAsciiNum
  <2> QED BY <1>4, <2>3, <2>4
<1> HIDE DEF j
<1>7. Padded(v)[j] = IF i > 22 - n THEN HexText(v)[i - 22 + n] ELSE \h30
  BY <1>5, <1>6
<1> QED BY <1>2, <1>7 DEF n, j

\* A row is the function of its entries.
LEMMA RowIsItsEntries ==
  ASSUME NEW t \in [1 .. 8 -> Int]
  PROVE  t = [i \in 1 .. 8 |-> t[i]]
OBVIOUS

\* Eight bytes of a longer frame are the eight of a row.
LEMMA Field ==
  ASSUME NEW f \in Seq(Int), NEW t \in [1 .. 8 -> Int], NEW m \in Nat
  PROVE  m + 8 <= Len(f) /\ (\A i \in 1 .. 8 : f[m + i] = t[i]) => SubSeq(f, m + 1, m + 8) = t
<1>1. \A i \in 1 .. 8 : m + i \in m + 1 .. m + 8 /\ m + 1 + i - 1 = m + i
  OBVIOUS
<1>2. m + 8 <= Len(f) => SubSeq(f, m + 1, m + 8) = [i \in 1 .. 8 |-> f[m + i]]
  BY <1>1
<1>3. (\A i \in 1 .. 8 : f[m + i] = t[i])
        => [i \in 1 .. 8 |-> f[m + i]] = [i \in 1 .. 8 |-> t[i]]
  OBVIOUS
<1> QED BY <1>2, <1>3, RowIsItsEntries, Zenon

\* The reply is 17 bytes long, checks, and holds the eight digits from the seventh byte on.
LEMMA ReplyFrame ==
  ASSUME NEW v \in Nat
  PROVE  LET f == ReplyOf(v)
         IN  /\ f \in Seq(Int) /\ Len(f) = 17 /\ lrcCheck(f)
             /\ \A i \in 1 .. 8 : f[6 + i] = Padded(v)[i]
<1> DEFINE h == <<\h02, \h30, \h31, \h34, \h36, \h30>>
           t == Padded(v)
           z == <<0, 0, \h03>>
           c == h \o t
           f == c \o z
<1>1. h \in Seq(Int) /\ Len(h) = 6 /\ z \in Seq(Int) /\ Len(z) = 3
  OBVIOUS
<1>2. t \in Seq(Int) /\ Len(t) = 8
  BY PaddedType, RowIsSeq
<1>3. ReplyOf(v) = WithLrc(f)
  BY DEF ReplyOf
<1> HIDE DEF h, t, z
<1>4. c \in Seq(Int) /\ Len(c) = 14 /\ \A i \in 1 .. 8 : c[6 + i] = t[i]
  <2>1. /\ c \in Seq(Int) /\ Len(c) = Len(h) + Len(t)
        /\ \A i \in 1 .. Len(h) + Len(t) : c[i] = IF i <= Len(h) THEN h[i] ELSE t[i - Len(h)]
    BY <1>1, <1>2, ConcatProperties, Zenon
  <2> HIDE DEF c
  <2>2. /\ Len(c) = 6 + 8
        /\ \A i \in 1 .. 6 + 8 : c[i] = IF i <= 6 THEN h[i] ELSE t[i - 6]
    BY <1>1, <1>2, <2>1, Zenon
  <2>3. 6 + 8 = 14 /\ \A i \in 1 .. 8 : 6 + i \in 1 .. 6 + 8 /\ ~(6 + i <= 6) /\ (6 + i) - 6 = i
    OBVIOUS
  <2>4. \A i \in 1 .. 8 : c[6 + i] = t[i]
    BY <2>2, <2>3, Zenon
  <2> QED BY <2>1, <2>2, <2>3, <2>4, Zenon
<1> HIDE DEF c
<1>5. f \in Seq(Int) /\ Len(f) = 17 /\ \A i \in 1 .. 14 : f[i] = c[i]
  <2>1. /\ f \in Seq(Int) /\ Len(f) = Len(c) + Len(z)
        /\ \A i \in 1 .. Len(c) + Len(z) : f[i] = IF i <= Len(c) THEN c[i] ELSE z[i - Len(c)]
    BY <1>1, <1>4, ConcatProperties, Zenon
  <2> HIDE DEF f
  <2>2. /\ Len(f) = 14 + 3
        /\ \A i \in 1 .. 14 + 3 : f[i] = IF i <= 14 THEN c[i] ELSE z[i - 14]
    BY <1>1, <1>4, <2>1, Zenon
  <2>3. 14 + 3 = 17 /\ \A i \in 1 .. 14 : i \in 1 .. 14 + 3 /\ i <= 14
    OBVIOUS
  <2>4. \A i \in 1 .. 14 : f[i] = c[i]
    BY <2>2, <2>3, Zenon
  <2> QED BY <2>1, <2>2, <2>3, <2>4, Zenon
<1> HIDE DEF f
<1>6. /\ WithLrc(f) \in Seq(Int) /\ Len(WithLrc(f)) = 17 /\ lrcCheck(WithLrc(f))
      /\ \A i \in 1 .. 14 : WithLrc(f)[i] = f[i]
  <2>1. Len(f) >= 3 /\ Len(f) - 3 = 14
    BY <1>5
  <2>2. /\ WithLrc(f) \in Seq(Int) /\ Len(WithLrc(f)) = Len(f) /\ lrcCheck(WithLrc(f))
        /\ \A i \in 1 .. Len(f) - 3 : WithLrc(f)[i] = f[i]
    BY <1>5, <2>1, WithLrcChecks, Zenon
  <2> QED BY <1>5, <2>1, <2>2, Zenon
<1>7. \A i \in 1 .. 8 : 6 + i \in 1 .. 14
  OBVIOUS
<1>8. \A i \in 1 .. 8 : WithLrc(f)[6 + i] = t[i]
  BY <1>4, <1>5, <1>6, <1>7, Zenon
<1>9. t = Padded(v)
  BY DEF t
<1> HIDE DEF t
<1> QED BY <1>3, <1>6, <1>8, <1>9

\* The eight characters of the field of a frame that writes a number mean the number.
LEMMA FieldMeansValue ==
  ASSUME NEW v \in Nat, v <= MaxInt, v < 16 ^ 5, NEW f, Built(f), HoldsDigits(f, v)
  PROVE  ToInt(SubSeq(f, 15, 22)) = v
<1>0. f \in Seq(Int) /\ Len(f) = 25
  BY Built(f), Zenon DEF Built
<1>1. ASSUME NEW i \in 15 .. 22 PROVE f[i] = Padded(v)[i - 14]
  <2>1. f[i] = IF i > 22 - NDigits(v) THEN HexText(v)[i - 22 + NDigits(v)] ELSE \h30
    BY HoldsDigits(f, v) DEF HoldsDigits
  <2>2. Padded(v)[i - 14] = IF i > 22 - NDigits(v)
                            THEN HexText(v)[i - 22 + NDigits(v)] ELSE \h30
    BY v < 16 ^ 5, DigitsWritten
  <2> QED BY <2>1, <2>2
<1>2. \A i \in 1 .. 8 : 14 + i \in 15 .. 22 /\ (14 + i) - 14 = i
  OBVIOUS
<1>3. \A i \in 1 .. 8 : f[14 + i] = Padded(v)[i]
  BY <1>1, <1>2
<1>4. 14 \in Nat /\ 14 + 8 <= Len(f) /\ 14 + 1 = 15 /\ 14 + 8 = 22
  BY <1>0
<1> DEFINE m == 14
<1>5. SubSeq(f, 15, 22) = Padded(v)
  <2>1. m \in Nat /\ m + 8 <= Len(f) /\ m + 1 = 15 /\ m + 8 = 22
    BY <1>4
  <2>2. \A i \in 1 .. 8 : f[m + i] = Padded(v)[i]
    BY <1>3
  <2> HIDE DEF m
  <2>3. SubSeq(f, m + 1, m + 8) = Padded(v)
    BY <1>0, <2>1, <2>2, PaddedType, Field, Zenon
  <2> QED BY <2>1, <2>3, Zenon
<1> QED BY <1>5, EightDigits

----------------------------------------------------------------------------
(* The theorems. *)

\* What the three properties rest on: the parameter never changes.
FrameInv == value \in Values /\ EveryFrameChecks /\ ApplyWritesValue /\ ReadsBack

LEMMA ValuesFit ==
  ASSUME NEW v \in Values
  PROVE  v \in Nat /\ v <= MaxInt
<1>1. \A m \in Int : \A n \in 0 .. m : n \in Nat /\ n <= m
  OBVIOUS
<1>2. MaxInt \in Int
  BY SMT DEF MaxInt
<1> QED BY <1>1, <1>2, FrameAssumption, Zenon

LEMMA FrameInvHolds == Spec => []FrameInv
<1>1. Init => FrameInv
  BY DEF Init, FrameInv, EveryFrameChecks, ApplyWritesValue, ReadsBack
<1>2. FrameInv /\ [Next]_vars => FrameInv'
  <2> SUFFICES ASSUME FrameInv, [Next]_vars PROVE FrameInv'
    OBVIOUS
  <2>0. value \in Values /\ value \in Nat /\ value <= MaxInt
    BY ValuesFit DEF FrameInv
  <2>1. CASE Command
    <3>1. PICK c \in DOMAIN Commands : Write(c, Commands[c])
      BY <2>1 DEF Command
    <3>2. c \notin {"Apply", "Apply2", "reply"}
      BY DEF Commands
    <3>3. sent' = c /\ frame' = Commands[c] /\ value' = value
      BY <3>1 DEF Write
    <3>4. lrcCheck(frame)'
      <4>1. lrcCheck(Commands[c])
        BY CommandsCheck
      <4> QED BY <3>3, <4>1 DEF lrcCheck
    <3>5. ApplyWritesValue' /\ ReadsBack'
      BY <3>2, <3>3 DEF ApplyWritesValue, ReadsBack
    <3> QED BY <2>0, <3>3, <3>4, <3>5 DEF FrameInv, EveryFrameChecks
  <2>2. CASE Apply
    <3>1. PICK r \in Registers, b \in Stray : Write("Apply", sendArrayConfig(r, value, b))
      BY <2>2 DEF Apply
    <3>2. sent' = "Apply" /\ frame' = sendArrayConfig(r, value, b) /\ value' = value
      BY <3>1 DEF Write
    <3> DEFINE f == sendArrayConfig(r, value, b)
    <3>3. Built(f) /\ (NDigits(value) <= 5 => HoldsDigits(f, value))
      BY <2>0, ApplyFrame, Zenon
    <3> HIDE DEF f
    <3>4. value < 16 ^ 5 => ToInt(SubSeq(f, 15, 22)) = value
      <4> SUFFICES ASSUME value < 16 ^ 5 PROVE ToInt(SubSeq(f, 15, 22)) = value
        OBVIOUS
      <4>1. 15 \in 15 .. 22
        OBVIOUS
      <4>2. NDigits(value) <= 5
        BY <2>0, <4>1, DigitsWritten, Zenon
      <4> QED BY <2>0, <3>3, <4>2, FieldMeansValue, Zenon
    <3>5. EveryFrameChecks'
      BY <3>2, <3>3, Zenon DEF EveryFrameChecks, lrcCheck, Built, f
    <3>6. ApplyWritesValue'
      BY <3>2, <3>4, Zenon DEF ApplyWritesValue, f
    <3>7. ReadsBack'
      BY <3>2 DEF ReadsBack
    <3> QED BY <2>0, <3>2, <3>5, <3>6, <3>7 DEF FrameInv
  <2>3. CASE ApplyTwo
    <3>1. PICK r \in Registers : Write("Apply2", Apply2(r, value))
      BY <2>3 DEF ApplyTwo
    <3>2. sent' = "Apply2" /\ frame' = Apply2(r, value) /\ value' = value
      BY <3>1 DEF Write
    <3> DEFINE f == Apply2(r, value)
    <3>3. Built(f) /\ (HasCase(NDigits(value)) => HoldsDigits(f, value))
      BY <2>0, ApplyTwoFrame, Zenon
    <3> HIDE DEF f
    <3>4. 16 <= value /\ value < 16 ^ 5 => ToInt(SubSeq(f, 15, 22)) = value
      <4> SUFFICES ASSUME 16 <= value, value < 16 ^ 5 PROVE ToInt(SubSeq(f, 15, 22)) = value
        OBVIOUS
      <4>1. 15 \in 15 .. 22
        OBVIOUS
      <4>2. NDigits(value) <= 5
        BY <2>0, <4>1, DigitsWritten, Zenon
      <4>3. HasCase(NDigits(value))
        <5>1. NDigits(value) \in 1 .. 8 /\ (NDigits(value) = 8 \/ value < 16 ^ NDigits(value))
          BY <2>0, DigitsNeeded, Zenon
        <5>2. NDigits(value) # 1
          <6> SUFFICES ASSUME NDigits(value) = 1 PROVE FALSE
            OBVIOUS
          <6>1. value < 16 ^ 1
            BY <5>1
          <6>2. value < 16
            BY <6>1, Powers
          <6> QED BY <2>0, <6>2
        <5> QED BY <4>2, <5>1, <5>2 DEF HasCase
      <4> QED BY <2>0, <3>3, <4>3, FieldMeansValue, Zenon
    <3>5. EveryFrameChecks'
      BY <3>2, <3>3, Zenon DEF EveryFrameChecks, lrcCheck, Built, f
    <3>6. ApplyWritesValue'
      BY <3>2, <3>4, Zenon DEF ApplyWritesValue, f
    <3>7. ReadsBack'
      BY <3>2 DEF ReadsBack
    <3> QED BY <2>0, <3>2, <3>5, <3>6, <3>7 DEF FrameInv
  <2>4. CASE ReadBack
    <3> DEFINE f == ReplyOf(value)
    <3>1. sent' = "reply" /\ frame' = f /\ shown' = FieldText(f) /\ value' = value
      BY <2>4 DEF ReadBack
    <3>2. /\ f \in Seq(Int) /\ Len(f) = 17 /\ lrcCheck(f)
          /\ \A i \in 1 .. 8 : f[6 + i] = Padded(value)[i]
      BY <2>0, ReplyFrame, Zenon
    <3> HIDE DEF f
    <3>3. FieldText(f) = value
      <4>1. 6 \in Nat /\ 6 + 8 <= Len(f) /\ 6 + 1 = 7 /\ 6 + 8 = 14
        BY <3>2
      <4>2. SubSeq(f, 6 + 1, 6 + 8) = Padded(value)
        BY <2>0, <3>2, <4>1, PaddedType, Field, Zenon
      <4> QED BY <2>0, <4>1, <4>2, EightDigits, Zenon DEF FieldText
    <3>4. EveryFrameChecks'
      BY <3>1, <3>2, Zenon DEF EveryFrameChecks, lrcCheck
    <3>5. ApplyWritesValue'
      BY <3>1 DEF ApplyWritesValue
    <3>6. ReadsBack'
      BY <3>1, <3>3, Zenon DEF ReadsBack
    <3> QED BY <2>0, <3>1, <3>4, <3>5, <3>6 DEF FrameInv
  <2>5. CASE UNCHANGED vars
    BY <2>5, Zenon DEF vars, FrameInv, EveryFrameChecks, ApplyWritesValue, ReadsBack, lrcCheck
  <2> QED BY <2>1, <2>2, <2>3, <2>4, <2>5 DEF Next
<1> QED BY <1>1, <1>2, PTL DEF Spec

\* Every frame that leaves the program, a literal of CmdProcess or one of the two that are built, and
\* every reply to a read carries the checksum that lrcCheck accepts.
THEOREM FramesCheck == Spec => []EveryFrameChecks
<1>1. FrameInv => EveryFrameChecks
  BY DEF FrameInv
<1> QED BY <1>1, FrameInvHolds, PTL

\* Any parameter of up to five digits is written as itself by on_pushButtonMotorParaApply, and from
\* two digits on by the second button: the digits end at the last byte of the field, on zeros.
THEOREM ParameterWritten == Spec => []ApplyWritesValue
<1>1. FrameInv => ApplyWritesValue
  BY DEF FrameInv
<1> QED BY <1>1, FrameInvHolds, PTL

\* Whatever value the PLC answers with, toInt of bytes 6 to 13 shows it.
THEOREM ValueReadBack == Spec => []ReadsBack
<1>1. FrameInv => ReadsBack
  BY DEF FrameInv
<1> QED BY <1>1, FrameInvHolds, PTL

============================================================================
