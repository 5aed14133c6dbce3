---------------------------- MODULE Stage1Proofs ----------------------------
(***************************************************************************)
(* The index of stage 1, for every text, kernel, width of a block and      *)
(* number of entries stored at a time: no store passes the capacity that   *)
(* was reserved, the entries are offsets of the text in ascending order,   *)
(* they are the starts of its tokens, what one block leaves for the next   *)
(* is what a scan of the text from its start would know there, and a       *)
(* container skip, by blocks or by bytes, ends behind the closer that      *)
(* belongs to its opener.                                                  *)
(***************************************************************************)
EXTENDS Stage1, FunctionTheorems, FiniteSetTheorems, SequenceTheorems,
        WellFoundedInduction, TLAPS

(***************************************************************************)
(* I.  What the bit tricks compute, for every width of a block: a product  *)
(* with all ones by doubling shifts is the parity of the bits so far       *)
(* (prefix_xor), and the carry of an addition is the parity of a run of    *)
(* backslashes (find_escaped).                                             *)
(***************************************************************************)

-----------------------------------------------------------------------------
(* Numbers.                                                                *)

(* A non-empty set of naturals has a least element: an argument by         *)
(* induction over positions is made on the least counterexample.           *)
LEMMA LeastElement ==
    ASSUME NEW T, T \subseteq Nat, T # {}
    PROVE  \E n \in T : \A m \in T : n <= m
<1>. DEFINE Upto == {0..n : n \in T}
<1>1. ASSUME NEW n \in T PROVE 0..n \in FiniteSubsetsOf(Nat)
  <2>1. 0..n \in SUBSET Nat /\ IsFiniteSet(0..n)
    BY FS_Interval
  <2>. QED
    BY <2>1 DEF FiniteSubsetsOf
<1>2. Upto \subseteq FiniteSubsetsOf(Nat) /\ Upto # {}
  BY <1>1
<1>3. PICK B \in Upto : \A C \in Upto : ~ (<<C, B>> \in StrictSubsetOrdering(Nat))
  <2>. HIDE DEF Upto
  <2>. QED
    BY <1>2, FS_StrictSubsetOrderingWellFounded, WFMin
<1>4. PICK n \in T : B = 0..n
  BY <1>3
<1>5. ASSUME NEW m \in T, m < n PROVE FALSE
  <2>1. <<0..m, B>> \in StrictSubsetOrdering(Nat)
    BY <1>4, <1>5 DEF StrictSubsetOrdering
  <2>. QED
    BY <1>3, <2>1
<1>. QED
  BY <1>5

(* A set of naturals with 0 that goes on to the next up to n has all to n. *)
LEMMA UpTo ==
    ASSUME NEW n \in Nat, NEW T, 0 \in T,
           \A k \in 0..(n - 1) : k \in T => k + 1 \in T
    PROVE  0..n \subseteq T
<1>. DEFINE missed == {k \in 0..n : k \notin T}
<1>1. ASSUME missed # {} PROVE FALSE
  <2>1. PICK k \in missed : \A m \in missed : k <= m
    <3>1. missed \subseteq Nat
      OBVIOUS
    <3>. HIDE DEF missed
    <3>. QED
      BY <1>1, <3>1, LeastElement
  <2>2. k \in 0..n /\ k \notin T /\ k # 0
    BY <2>1
  <2>3. k - 1 \in 0..n /\ ~ (k <= k - 1)
    BY <2>2
  <2>4. k - 1 \in T
    BY <2>1, <2>3
  <2>5. k - 1 \in 0..(n - 1) /\ (k - 1) + 1 = k
    BY <2>2
  <2>. QED
    BY <2>2, <2>4, <2>5
<1>. QED
  BY <1>1

(* 2^n counts the subsets of a set of n elements.                          *)
LEMMA PowerCounts ==
    ASSUME NEW n \in Nat
    PROVE  /\ IsFiniteSet(SUBSET (1..n))
           /\ Cardinality(SUBSET (1..n)) = 2 ^ n
           /\ 2 ^ n \in Nat \ {0}
<1>1. IsFiniteSet(1..n) /\ Cardinality(1..n) = n
  BY FS_Interval
<1>2. IsFiniteSet(SUBSET (1..n)) /\ Cardinality(SUBSET (1..n)) = 2 ^ n
  BY <1>1, FS_SUBSET
<1>3. SUBSET (1..n) # {}
  OBVIOUS
<1>. QED
  BY <1>2, <1>3, FS_EmptySet, FS_CardinalityType

(* Half of the subsets have the last element.                              *)
LEMMA PowerDoubles ==
    ASSUME NEW n \in Nat
    PROVE  2 ^ (n + 1) = 2 * 2 ^ n
<1>. DEFINE S == 1..n
            T == 1..(n + 1)
            without == SUBSET S
            with == {X \cup {n + 1} : X \in without}
            f == [X \in without |-> X \cup {n + 1}]
<1>0. n + 1 \in Nat /\ n + 1 \notin S /\ T = S \cup {n + 1}
  OBVIOUS
<1>1. f \in Bijection(without, with)
  <2>1. f \in [without -> with]
    OBVIOUS
  <2>2. \A X, Y \in without : f[X] = f[Y] => X = Y
    <3>. HIDE DEF S, with
    <3>. SUFFICES ASSUME NEW X \in without, NEW Y \in without, X \cup {n + 1} = Y \cup {n + 1}
                  PROVE  X = Y
      OBVIOUS
    <3>. QED
      BY <1>0
  <2>3. f \in Injection(without, with)
    <3>. HIDE DEF f, without, with
    <3>. QED
      BY <2>1, <2>2, Fun_IsInj
  <2>4. \A Y \in with : \E X \in without : f[X] = Y
    OBVIOUS
  <2>5. f \in Surjection(without, with)
    <3>. HIDE DEF f, without, with
    <3>. QED
      BY <2>1, <2>4, Fun_IsSurj
  <2>. QED
    BY <2>3, <2>5, Fun_IsBij DEF Bijection
<1>2. without \cup with = SUBSET T
  <2>. HIDE DEF S, T
  <2>1. ASSUME NEW Z \in SUBSET T PROVE Z \in without \cup with
    <3>1. CASE n + 1 \in Z
      <4>1. Z \ {n + 1} \in without /\ Z = (Z \ {n + 1}) \cup {n + 1}
        BY <1>0, <3>1
      <4>. QED
        BY <4>1
    <3>2. CASE n + 1 \notin Z
      BY <1>0, <3>2
    <3>. QED
      BY <3>1, <3>2
  <2>. QED
    BY <1>0, <2>1
<1>3. without \cap with = {}
  <2>. HIDE DEF S
  <2>. QED
    BY <1>0
<1>4. IsFiniteSet(without) /\ Cardinality(without) = 2 ^ n /\ 2 ^ n \in Nat
  BY PowerCounts
<1>5. IsFiniteSet(SUBSET T) /\ Cardinality(SUBSET T) = 2 ^ (n + 1)
  BY <1>0, PowerCounts
<1>. HIDE DEF without, with, f, S, T
<1>6. IsFiniteSet(with) /\ Cardinality(with) = 2 ^ n
  BY <1>1, <1>4, FS_Bijection, Fun_ExistsBij
<1>7. Cardinality(without \cup with) = Cardinality(without) + Cardinality(with)
  BY <1>3, <1>4, <1>6, FS_Union, FS_EmptySet
<1>8. 2 ^ (n + 1) = 2 ^ n + 2 ^ n
  BY <1>2, <1>4, <1>5, <1>6, <1>7, Zenon
<1>9. ASSUME NEW p \in Nat PROVE p + p = 2 * p
  OBVIOUS
<1>. QED
  BY <1>4, <1>8, <1>9, Zenon

(* A block has an even number of bytes, at positions from 0.               *)
LEMMA WidthFacts ==
    /\ Width \in Nat \ {0} /\ Width % 2 = 0
    /\ Bits \subseteq Nat /\ IsFiniteSet(Bits) /\ 0 \in Bits
<1>1. LogWidth - 1 \in Nat /\ (LogWidth - 1) + 1 = LogWidth
  BY WidthAssumption
<1>2. 2 ^ (LogWidth - 1) \in Nat \ {0}
  BY <1>1, PowerCounts
<1>3. 2 ^ LogWidth = 2 * 2 ^ (LogWidth - 1)
  BY <1>1, PowerDoubles
<1>4. Width \in Nat \ {0} /\ Width % 2 = 0
  BY <1>2, <1>3 DEF Width
<1>5. Bits \subseteq Nat /\ 0 \in Bits
  BY <1>4 DEF Bits
<1>6. IsFiniteSet(Bits)
  BY <1>4, FS_Interval DEF Bits
<1>. QED
  BY <1>4, <1>5, <1>6

(* Oddness, and how it adds up.                                            *)
Odd(n) == n % 2 = 1

(* Of two numbers.                                                         *)
LEMMA OddSum ==
    ASSUME NEW a \in Nat, NEW b \in Nat
    PROVE  Odd(a + b) <=> ~ (Odd(a) <=> Odd(b))
BY DEF Odd

(* Of the next number.                                                     *)
LEMMA OddNext ==
    ASSUME NEW a \in Nat
    PROVE  Odd(a + 1) <=> ~ Odd(a)
BY DEF Odd

-----------------------------------------------------------------------------
(* prefix_xor.                                                             *)

(* The bits of a mask behind `low` and up to `high`.                       *)
CountIn(x, low, high) == Cardinality({j \in x : low < j /\ j <= high})

(* They are a number, none before the block.                               *)
LEMMA CountType ==
    ASSUME NEW x \in SUBSET Bits, NEW low \in Int, NEW high \in Int
    PROVE  /\ IsFiniteSet({j \in x : low < j /\ j <= high})
           /\ CountIn(x, low, high) \in Nat
           /\ high < 0 => CountIn(x, low, high) = 0
<1>. DEFINE A == {j \in x : low < j /\ j <= high}
<1>1. A \subseteq Bits
  OBVIOUS
<1>2. high < 0 => A = {}
  <2>1. \A j \in x : j \in Int /\ 0 <= j
    BY WidthFacts
  <2>. QED
    BY <2>1
<1>. HIDE DEF A
<1>3. IsFiniteSet(A) /\ Cardinality(A) \in Nat /\ (high < 0 => Cardinality(A) = 0)
  BY <1>1, <1>2, WidthFacts, FS_Subset, FS_CardinalityType, FS_EmptySet
<1>. QED
  BY <1>3 DEF CountIn, A

(* Two stretches that meet.                                                *)
LEMMA CountSplit ==
    ASSUME NEW x \in SUBSET Bits, NEW low \in Int, NEW mid \in Int, NEW high \in Int,
           low <= mid, mid <= high
    PROVE  CountIn(x, low, high) = CountIn(x, low, mid) + CountIn(x, mid, high)
<1>. DEFINE A == {j \in x : low < j /\ j <= mid}
            B == {j \in x : mid < j /\ j <= high}
            C == {j \in x : low < j /\ j <= high}
<1>1. \A j \in x : j \in Int
  BY WidthFacts
<1>2. A \cup B = C
  BY <1>1
<1>3. A \cap B = {}
  BY <1>1
<1>4. IsFiniteSet(A) /\ IsFiniteSet(B) /\ Cardinality(A) \in Nat /\ Cardinality(B) \in Nat
  BY CountType DEF CountIn
<1>. HIDE DEF A, B, C
<1>5. Cardinality(C) = Cardinality(A) + Cardinality(B)
  BY <1>2, <1>3, <1>4, FS_Union, FS_EmptySet
<1>. QED
  BY <1>5 DEF CountIn, A, B, C

(* One position.                                                           *)
LEMMA CountOne ==
    ASSUME NEW x \in SUBSET Bits, NEW i \in Int
    PROVE  CountIn(x, i - 1, i) = IF i \in x THEN 1 ELSE 0
<1>. DEFINE A == {j \in x : i - 1 < j /\ j <= i}
<1>1. \A j \in x : j \in Int
  BY WidthFacts
<1>2. CASE i \in x
  <2>1. \A j \in x : i - 1 < j /\ j <= i <=> j = i
    BY <1>1
  <2>2. A = {i}
    BY <1>2, <2>1, Zenon
  <2>. QED
    BY <1>2, <2>2, FS_Singleton DEF CountIn
<1>3. CASE i \notin x
  <2>1. A = {}
    BY <1>1, <1>3
  <2>. QED
    BY <1>3, <2>1, FS_EmptySet DEF CountIn
<1>. QED
  BY <1>2, <1>3

(* One shift and xor, and all of them.                                     *)
Twice(s, h) == Xor(s, ShiftUp(s, h))

Doublings(x) ==
    CHOOSE f : f = [k \in 0..LogWidth |-> IF k = 0 THEN x ELSE Twice(f[k - 1], 2 ^ (k - 1))]

(* They are what their recursive definition says.                          *)
LEMMA DoublingsFacts ==
    ASSUME NEW x
    PROVE  /\ PrefixXor(x) = Doublings(x)[LogWidth]
           /\ Doublings(x)[0] = x
           /\ \A k \in 0..(LogWidth - 1) :
                 Doublings(x)[k + 1] = Twice(Doublings(x)[k], 2 ^ k)
<1>. DEFINE Is(f, n) == f = [k \in 0..n |-> IF k = 0 THEN x ELSE Twice(f[k - 1], 2 ^ (k - 1))]
            T == {n \in Nat : \E f : Is(f, n)}
<1>1. LogWidth \in Nat
  BY WidthAssumption
<1>2. 0 \in T
  <2>1. Is([k \in 0..0 |-> x], 0)
    OBVIOUS
  <2>. QED
    BY <2>1
<1>3. ASSUME NEW n \in Nat, n \in T PROVE n + 1 \in T
  <2>1. PICK f : Is(f, n)
    BY <1>3
  <2>. DEFINE g == [k \in 0..(n + 1) |-> IF k = n + 1 THEN Twice(f[n], 2 ^ n) ELSE f[k]]
              h == [k \in 0..(n + 1) |-> IF k = 0 THEN x ELSE Twice(g[k - 1], 2 ^ (k - 1))]
  <2>2. ASSUME NEW k \in 0..(n + 1) PROVE g[k] = h[k]
    <3>1. CASE k = 0
      <4>1. 0 \in 0..n /\ 0 # n + 1 /\ 0 \in 0..(n + 1)
        OBVIOUS
      <4>2. f[0] = x
        BY <2>1, <4>1
      <4>3. g[0] = f[0]
        BY <4>1
      <4>. QED
        BY <3>1, <4>1, <4>2, <4>3
    <3>2. CASE k = n + 1
      <4>1. k # 0 /\ k - 1 = n /\ n \in 0..(n + 1) /\ n # n + 1
        BY <3>2
      <4>2. g[k] = Twice(f[n], 2 ^ n)
        BY <3>2
      <4>3. g[n] = f[n]
        BY <4>1
      <4>. HIDE DEF g
      <4>4. h[k] = Twice(g[n], 2 ^ n)
        BY <4>1
      <4>. QED
        BY <4>2, <4>3, <4>4
    <3>3. CASE k # 0 /\ k # n + 1
      <4>1. k \in 0..n /\ k - 1 \in 0..(n + 1) /\ k - 1 # n + 1
        BY <3>3
      <4>2. g[k] = f[k] /\ g[k - 1] = f[k - 1]
        BY <3>3, <4>1
      <4>3. f[k] = Twice(f[k - 1], 2 ^ (k - 1))
        BY <2>1, <3>3, <4>1
      <4>. HIDE DEF g
      <4>4. h[k] = Twice(g[k - 1], 2 ^ (k - 1))
        BY <3>3
      <4>. QED
        BY <4>2, <4>3, <4>4
    <3>. QED
      BY <3>1, <3>2, <3>3
  <2>3. g = h
    <3>1. g = [k \in 0..(n + 1) |-> g[k]] /\ h = [k \in 0..(n + 1) |-> h[k]]
      OBVIOUS
    <3>. HIDE DEF g, h
    <3>. QED
      BY <2>2, <3>1
  <2>4. Is(g, n + 1)
    <3>. HIDE DEF g
    <3>. QED
      BY <2>3
  <2>5. \E e : Is(e, n + 1)
    BY <2>4
  <2>. HIDE DEF Is
  <2>. QED
    BY <2>5
<1>4. LogWidth \in T
  <2>1. \A n \in 0..(LogWidth - 1) : n \in T => n + 1 \in T
    BY <1>1, <1>3
  <2>. HIDE DEF T
  <2>2. 0..LogWidth \subseteq T
    BY <1>1, <1>2, <2>1, UpTo
  <2>. QED
    BY <1>1, <2>2
<1>5. Is(Doublings(x), LogWidth)
  BY <1>4 DEF Doublings
<1>6. PrefixXor(x) = Doublings(x)[LogWidth]
  BY DEF PrefixXor, Doublings, Twice
<1>. DEFINE D == Doublings(x)
<1>7. \A k \in 0..LogWidth : D[k] = IF k = 0 THEN x ELSE Twice(D[k - 1], 2 ^ (k - 1))
  <2>1. Is(D, LogWidth)
    BY <1>5
  <2>. HIDE DEF D
  <2>. QED
    BY <2>1
<1>8. 0 \in 0..LogWidth
  BY <1>1
<1>. HIDE DEF D
<1>9. ASSUME NEW k \in 0..(LogWidth - 1) PROVE D[k + 1] = Twice(D[k], 2 ^ k)
  <2>1. k + 1 \in 0..LogWidth /\ k + 1 # 0 /\ (k + 1) - 1 = k
    BY <1>1
  <2>. QED
    BY <1>7, <2>1
<1>. QED
  BY <1>6, <1>7, <1>8, <1>9 DEF D

(* A shift and xor doubles the stretch whose parity a bit is.              *)
LEMMA TwiceParity ==
    ASSUME NEW x \in SUBSET Bits, NEW h \in Nat \ {0}, NEW s \in SUBSET Bits,
           \A i \in Bits : i \in s <=> Odd(CountIn(x, i - h, i))
    PROVE  /\ Twice(s, h) \in SUBSET Bits
           /\ \A i \in Bits : i \in Twice(s, h) <=> Odd(CountIn(x, i - 2 * h, i))
<1>1. Twice(s, h) \in SUBSET Bits
  BY DEF Twice, Xor, ShiftUp
<1>2. ASSUME NEW i \in Bits
      PROVE  i \in Twice(s, h) <=> Odd(CountIn(x, i - 2 * h, i))
  <2>1. i \in Nat /\ i - h \in Int /\ i - 2 * h \in Int /\ i - 2 * h <= i - h /\ i - h <= i
        /\ (i - h) - h = i - 2 * h
    BY WidthFacts
  <2>2. i \in Twice(s, h) <=> ~ (i \in s <=> i \in ShiftUp(s, h))
    BY DEF Twice, Xor
  <2>3. i \in ShiftUp(s, h) <=> i - h \in s
    <3>1. \A j \in s : j \in Int
      BY WidthFacts
    <3>2. i \in ShiftUp(s, h) <=> \E j \in s : i = j + h
      BY DEF ShiftUp
    <3>3. \A j \in s : i = j + h <=> i - h = j
      BY <2>1, <3>1
    <3>. QED
      BY <3>2, <3>3
  <2>4. /\ CountIn(x, i - 2 * h, i) = CountIn(x, i - 2 * h, i - h) + CountIn(x, i - h, i)
        /\ i - h < 0 => CountIn(x, i - 2 * h, i - h) = 0
        /\ CountIn(x, i - 2 * h, i - h) \in Nat /\ CountIn(x, i - h, i) \in Nat
    <3>1. CountIn(x, i - 2 * h, i) = CountIn(x, i - 2 * h, i - h) + CountIn(x, i - h, i)
      BY <2>1, CountSplit
    <3>2. CountIn(x, i - h, i) \in Nat
      <4>1. i \in Int /\ i - h \in Int
        BY <2>1
      <4>. QED
        BY <4>1, CountType, Zenon
    <3>. DEFINE k == i - h
    <3>3. k \in Int /\ i - 2 * h \in Int
      BY <2>1
    <3>. HIDE DEF k
    <3>4. CountIn(x, i - 2 * h, k) \in Nat /\ (k < 0 => CountIn(x, i - 2 * h, k) = 0)
      BY <3>3, CountType
    <3>. QED
      BY <3>1, <3>2, <3>4 DEF k
  <2>5. i - h \in s <=> Odd(CountIn(x, i - 2 * h, i - h))
    <3>1. CASE i - h < 0
      <4>1. i - h \notin s
        BY <3>1, <2>1, WidthFacts
      <4>2. ~ Odd(0)
        BY DEF Odd
      <4>. QED
        BY <2>4, <3>1, <4>1, <4>2
    <3>2. CASE ~ (i - h < 0)
      <4>1. i - h \in Bits
        BY <2>1, <3>2, WidthFacts DEF Bits
      <4>. QED
        BY <2>1, <4>1
    <3>. QED
      BY <3>1, <3>2
  <2>6. Odd(CountIn(x, i - 2 * h, i)) <=>
            ~ (Odd(CountIn(x, i - 2 * h, i - h)) <=> Odd(CountIn(x, i - h, i)))
    <3>. DEFINE a == CountIn(x, i - 2 * h, i - h)
                b == CountIn(x, i - h, i)
    <3>1. a \in Nat /\ b \in Nat /\ CountIn(x, i - 2 * h, i) = a + b
      BY <2>4
    <3>. HIDE DEF a, b
    <3>2. Odd(a + b) <=> ~ (Odd(a) <=> Odd(b))
      BY <3>1, OddSum
    <3>. QED
      BY <3>1, <3>2, Zenon DEF a, b
  <2>. QED
    BY <2>2, <2>3, <2>5, <2>6
<1>. QED
  BY <1>1, <1>2

(* A bit of prefix_xor is the parity of the bits up to it, its own         *)
(* included (stage1.rs 62).                                                *)
LEMMA PrefixXorParity ==
    ASSUME NEW x \in SUBSET Bits
    PROVE  /\ PrefixXor(x) \in SUBSET Bits
           /\ \A i \in Bits : i \in PrefixXor(x) <=> Odd(CountIn(x, -1, i))
<1>. DEFINE D == Doublings(x)
            Good(k) == /\ D[k] \in SUBSET Bits
                       /\ \A i \in Bits : i \in D[k] <=> Odd(CountIn(x, i - 2 ^ k, i))
            T == {k \in Nat : Good(k)}
<1>1. LogWidth \in Nat
  BY WidthAssumption
<1>2. 2 ^ 0 = 1
  <2>1. 1..0 = {} /\ SUBSET {} = {{}}
    OBVIOUS
  <2>. QED
    BY <2>1, PowerCounts, FS_Singleton
<1>3. Good(0)
  <2>1. D[0] = x
    BY DoublingsFacts
  <2>. HIDE DEF D
  <2>2. ASSUME NEW i \in Bits PROVE i \in x <=> Odd(CountIn(x, i - 1, i))
    <3>1. CountIn(x, i - 1, i) = IF i \in x THEN 1 ELSE 0
      BY CountOne, WidthFacts
    <3>. QED
      BY <3>1 DEF Odd
  <2>. QED
    BY <1>2, <2>1, <2>2
<1>4. ASSUME NEW k \in 0..(LogWidth - 1), Good(k) PROVE Good(k + 1)
  <2>1. D[k + 1] = Twice(D[k], 2 ^ k)
    BY DoublingsFacts
  <2>. HIDE DEF D
  <2>2. k \in Nat /\ 2 ^ k \in Nat \ {0} /\ 2 ^ (k + 1) = 2 * 2 ^ k
    <3>1. k \in Nat
      BY <1>1
    <3>. QED
      BY <3>1, PowerCounts, PowerDoubles
  <2>. DEFINE h == 2 ^ k
              s == D[k]
  <2>3. h \in Nat \ {0} /\ s \in SUBSET Bits
        /\ \A i \in Bits : i \in s <=> Odd(CountIn(x, i - h, i))
    BY <1>4, <2>2
  <2>. HIDE DEF h, s
  <2>4. /\ Twice(s, h) \in SUBSET Bits
        /\ \A i \in Bits : i \in Twice(s, h) <=> Odd(CountIn(x, i - 2 * h, i))
    BY <2>3, TwiceParity
  <2>. QED
    BY <2>1, <2>2, <2>4 DEF h, s
<1>5. 0 \in T /\ \A k \in 0..(LogWidth - 1) : k \in T => k + 1 \in T
  <2>. HIDE DEF Good
  <2>1. 0 \in T
    BY <1>3
  <2>2. ASSUME NEW k \in 0..(LogWidth - 1), k \in T PROVE k + 1 \in T
    BY <1>4, <2>2
  <2>. QED
    BY <2>1, <2>2
<1>6. Good(LogWidth)
  <2>. HIDE DEF Good
  <2>1. T \subseteq Nat
    OBVIOUS
  <2>2. LogWidth \in T
    <3>. HIDE DEF T
    <3>1. 0..LogWidth \subseteq T
      BY <1>1, <1>5, UpTo
    <3>. QED
      BY <1>1, <3>1
  <2>. QED
    BY <2>2
<1>7. PrefixXor(x) = D[LogWidth]
  BY DoublingsFacts
<1>. HIDE DEF D
<1>8. ASSUME NEW i \in Bits
      PROVE  CountIn(x, i - Width, i) = CountIn(x, -1, i)
  <2>1. i \in Int /\ i - Width \in Int /\ -1 \in Int /\ i - Width <= -1 /\ -1 <= i /\ -1 < 0
    BY WidthFacts DEF Bits
  <2>2. CountIn(x, i - Width, i) = CountIn(x, i - Width, -1) + CountIn(x, -1, i)
    BY <2>1, CountSplit
  <2>3. CountIn(x, i - Width, -1) = 0
    BY <2>1, CountType
  <2>4. CountIn(x, -1, i) \in Nat
    BY <2>1, CountType
  <2>. QED
    BY <2>2, <2>3, <2>4
<1>9. \A i \in Bits : i \in D[LogWidth] <=> Odd(CountIn(x, i - Width, i))
  BY <1>6 DEF Width
<1>. QED
  BY <1>6, <1>7, <1>8, <1>9

-----------------------------------------------------------------------------
(* find_escaped.                                                           *)

(* The carry of an addition, position by position.                         *)
LEMMA CarryNext ==
    ASSUME NEW a, NEW b, NEW i \in Nat
    PROVE  /\ ~ CarryInto(a, b, 0)
           /\ CarryInto(a, b, i + 1) <=> \/ i \in a \cap b
                                         \/ i \in a \cup b /\ CarryInto(a, b, i)
<1>1. ~ CarryInto(a, b, 0)
  BY DEF CarryInto
<1>2. ASSUME CarryInto(a, b, i + 1), i \notin a \cap b
      PROVE  i \in a \cup b /\ CarryInto(a, b, i)
  <2>1. PICK j \in 0..i : j \in a \cap b /\ (j + 1)..i \subseteq a \cup b
    BY <1>2 DEF CarryInto
  <2>2. j \in 0..(i - 1)
    BY <1>2, <2>1
  <2>3. i \in (j + 1)..i /\ (j + 1)..(i - 1) \subseteq (j + 1)..i
    BY <2>2
  <2>. QED
    BY <2>1, <2>2, <2>3 DEF CarryInto
<1>3. ASSUME i \in a \cap b PROVE CarryInto(a, b, i + 1)
  <2>1. i \in 0..((i + 1) - 1) /\ (i + 1)..((i + 1) - 1) = {}
    OBVIOUS
  <2>. QED
    BY <1>3, <2>1 DEF CarryInto
<1>4. ASSUME i \in a \cup b, CarryInto(a, b, i) PROVE CarryInto(a, b, i + 1)
  <2>1. PICK j \in 0..(i - 1) : j \in a \cap b /\ (j + 1)..(i - 1) \subseteq a \cup b
    BY <1>4 DEF CarryInto
  <2>2. j \in 0..((i + 1) - 1) /\ (j + 1)..((i + 1) - 1) \subseteq (j + 1)..(i - 1) \cup {i}
    BY <2>1
  <2>. QED
    BY <1>4, <2>1, <2>2 DEF CarryInto
<1>. QED
  BY <1>1, <1>2, <1>3, <1>4

Even(i) == i % 2 = 0

(* The parts of find_escaped: the backslashes that are not escaped by the  *)
(* block before, what follows one, and the runs that start at an odd place.*)
Unescaped(c, backslashes) == IF c.escaped THEN backslashes \ {0} ELSE backslashes
Behind(c, backslashes) == ShiftUp(Unescaped(c, backslashes), 1) \cup LowBit(c.escaped)
OddStarts(c, backslashes) ==
    (Unescaped(c, backslashes) \ {i \in Bits : i % 2 = 0}) \ Behind(c, backslashes)

(* `E` tells of every place of a block, and of the first one of the next,  *)
(* whether it is escaped: it is when the byte before it is a backslash     *)
(* that is not.                                                            *)
Escapes(E, c, backslashes) ==
    /\ 0 \in E <=> c.escaped
    /\ \A k \in Bits : k + 1 \in E <=> k \in backslashes /\ k \notin E

(* Who is behind a backslash, and where an odd run starts.                 *)
LEMMA BehindFacts ==
    ASSUME NEW c, c.escaped \in BOOLEAN, NEW bs \in SUBSET Bits, NEW i \in Bits
    PROVE  /\ i \in Behind(c, bs) <=> \/ i - 1 \in Unescaped(c, bs)
                                      \/ i = 0 /\ c.escaped
           /\ i \in OddStarts(c, bs) <=> /\ i \in Unescaped(c, bs)
                                         /\ ~ Even(i)
                                         /\ i \notin Behind(c, bs)
           /\ i \in Unescaped(c, bs) <=> i \in bs /\ ~ (i = 0 /\ c.escaped)
           /\ Unescaped(c, bs) \subseteq Bits
<1>. DEFINE u == Unescaped(c, bs)
<1>1. u \subseteq Bits /\ (i \in u <=> i \in bs /\ ~ (i = 0 /\ c.escaped))
  BY DEF Unescaped
<1>. HIDE DEF u
<1>2. i \in ShiftUp(u, 1) <=> i - 1 \in u
  <2>1. \A j \in u : j \in Int
    BY <1>1, WidthFacts
  <2>2. i \in ShiftUp(u, 1) <=> \E j \in u : i = j + 1
    BY DEF ShiftUp
  <2>3. i \in Int
    BY WidthFacts
  <2>4. \A j \in u : i = j + 1 <=> i - 1 = j
    BY <2>1, <2>3
  <2>. QED
    BY <2>2, <2>4
<1>3. i \in LowBit(c.escaped) <=> i = 0 /\ c.escaped
  BY DEF LowBit
<1>4. i \in Behind(c, bs) <=> i - 1 \in u \/ (i = 0 /\ c.escaped)
  BY <1>2, <1>3 DEF Behind, u
<1>5. i \in OddStarts(c, bs) <=> i \in u /\ ~ Even(i) /\ i \notin Behind(c, bs)
  BY DEF OddStarts, Even, u
<1>. QED
  BY <1>1, <1>4, <1>5 DEF u

(* The carry of the addition comes into a place exactly when the run that  *)
(* ends before it started at an odd place: when the place is escaped and   *)
(* even, or not escaped and odd.                                           *)
LEMMA CarryIs ==
    ASSUME NEW c, c.escaped \in BOOLEAN, NEW bs \in SUBSET Bits, NEW E, Escapes(E, c, bs)
    PROVE  \A i \in 0..Width :
               CarryInto(OddStarts(c, bs), Unescaped(c, bs), i) <=>
                   i - 1 \in Unescaped(c, bs) /\ (i \in E <=> Even(i))
<1>. DEFINE u == Unescaped(c, bs)
            o == OddStarts(c, bs)
            In(i) == CarryInto(o, u, i)
            Is(i) == In(i) <=> i - 1 \in u /\ (i \in E <=> Even(i))
            T == {i \in Nat : Is(i)}
<1>1. Is(0)
  <2>1. ~ In(0)
    BY CarryNext
  <2>2. 0 - 1 \notin u
    <3>1. u \subseteq Bits
      BY BehindFacts, WidthFacts
    <3>. HIDE DEF u
    <3>. QED
      BY <3>1, WidthFacts
  <2>. HIDE DEF In, u
  <2>. QED
    BY <2>1, <2>2
<1>2. ASSUME NEW i \in 0..(Width - 1), Is(i) PROVE Is(i + 1)
  <2>1. i \in Bits /\ i \in Nat /\ (i + 1) - 1 = i
    BY WidthFacts DEF Bits
  <2>2. In(i + 1) <=> i \in o \cap u \/ (i \in o \cup u /\ In(i))
    BY <2>1, CarryNext
  <2>3. /\ i \in o <=> i \in u /\ ~ Even(i) /\ ~ (i - 1 \in u \/ (i = 0 /\ c.escaped))
        /\ i \in u <=> i \in bs /\ ~ (i = 0 /\ c.escaped)
    BY <2>1, BehindFacts
  <2>4. Even(i + 1) <=> ~ Even(i)
    BY <2>1 DEF Even
  <2>5. i = 0 => Even(i)
    BY DEF Even
  <2>6. /\ i = 0 => (i \in E <=> c.escaped)
        /\ i + 1 \in E <=> i \in bs /\ i \notin E
    BY <2>1 DEF Escapes
  <2>7. i # 0 /\ i - 1 \notin u => i \notin E
    <3>. SUFFICES ASSUME i # 0, i - 1 \notin u PROVE i \notin E
      OBVIOUS
    <3>1. i - 1 \in Bits /\ (i - 1) + 1 = i
      BY <2>1, WidthFacts DEF Bits
    <3>2. i - 1 \in u <=> i - 1 \in bs /\ ~ (i - 1 = 0 /\ c.escaped)
      BY <3>1, BehindFacts
    <3>3. i \in E <=> i - 1 \in bs /\ i - 1 \notin E
      BY <3>1 DEF Escapes
    <3>4. i - 1 = 0 => (i - 1 \in E <=> c.escaped)
      BY DEF Escapes
    <3>. QED
      BY <3>2, <3>3, <3>4
  <2>8. In(i) <=> i - 1 \in u /\ (i \in E <=> Even(i))
    BY <1>2
  <2>. HIDE DEF In, u, o
  <2>9. In(i + 1) <=> i \in u /\ (i + 1 \in E <=> Even(i + 1))
    BY <2>2, <2>3, <2>4, <2>5, <2>6, <2>7, <2>8
  <2>. QED
    BY <2>1, <2>9
<1>. HIDE DEF Is
<1>3. 0 \in T /\ \A i \in 0..(Width - 1) : i \in T => i + 1 \in T
  <2>1. 0 \in T
    BY <1>1
  <2>2. ASSUME NEW i \in 0..(Width - 1), i \in T PROVE i + 1 \in T
    BY <1>2, <2>2
  <2>. QED
    BY <2>1, <2>2
<1>4. 0..Width \subseteq T
  <2>. HIDE DEF T
  <2>. QED
    BY <1>3, WidthFacts, UpTo
<1>. QED
  BY <1>4 DEF Is

(* find_escaped marks the bytes of the block that are escaped, and tells   *)
(* the next block whether its first one is (stage1.rs 46-58).              *)
LEMMA FindEscapedIs ==
    ASSUME NEW c, c.escaped \in BOOLEAN, NEW bs \in SUBSET Bits, NEW E, Escapes(E, c, bs)
    PROVE  /\ \A i \in Bits : i \in FindEscaped(c, bs).mask <=> i \in E
           /\ FindEscaped(c, bs).escaped \in BOOLEAN
           /\ FindEscaped(c, bs).escaped <=> Width \in E
<1>. DEFINE u == Unescaped(c, bs)
            o == OddStarts(c, bs)
            sum == SumOf(o, u)
            f == FindEscaped(c, bs)
<1>0. Width - 1 \in Bits /\ (Width - 1) + 1 = Width /\ Width \in 0..Width /\ Even(Width)
  BY WidthFacts DEF Bits, Even
<1>1. CASE bs = {}
  <2>1. f = [mask |-> LowBit(c.escaped), escaped |-> FALSE]
    BY <1>1 DEF FindEscaped
  <2>2. \A i \in Bits : i \in LowBit(c.escaped) <=> i = 0 /\ c.escaped
    BY DEF LowBit
  <2>3. ASSUME NEW i \in Bits, i # 0 PROVE i \notin E
    <3>1. i - 1 \in Bits /\ (i - 1) + 1 = i
      BY <2>3, WidthFacts DEF Bits
    <3>. QED
      BY <1>1, <3>1 DEF Escapes
  <2>4. Width \notin E
    BY <1>0, <1>1 DEF Escapes
  <2>5. 0 \in E <=> c.escaped
    BY DEF Escapes
  <2>6. f.mask = LowBit(c.escaped) /\ f.escaped = FALSE
    BY <2>1
  <2>. HIDE DEF f
  <2>7. \A i \in Bits : i \in f.mask <=> i \in E
    BY <2>2, <2>3, <2>5, <2>6
  <2>8. f.escaped \in BOOLEAN /\ (f.escaped <=> Width \in E)
    BY <2>4, <2>6
  <2>. QED
    BY <2>7, <2>8 DEF f
<1>2. CASE bs # {}
  <2>1. f = [mask |-> Xor({i \in Bits : i % 2 = 0}, ShiftUp(sum, 1)) \cap Behind(c, bs),
             escaped |-> CarryInto(o, u, Width)]
    BY <1>2, Zenon DEF FindEscaped, Unescaped, Behind, OddStarts
  <2>. HIDE DEF f
  <2>2. \A i \in 0..Width : CarryInto(o, u, i) <=> i - 1 \in u /\ (i \in E <=> Even(i))
    BY CarryIs
  <2>3. u \subseteq Bits
    BY BehindFacts, WidthFacts
  <2>4. CarryInto(o, u, Width) <=> Width \in E
    <3>1. CarryInto(o, u, Width) <=> Width - 1 \in u /\ Width \in E
      BY <1>0, <2>2
    <3>2. Width \in E => Width - 1 \in bs /\ Width - 1 \notin E
      BY <1>0 DEF Escapes
    <3>3. Width - 1 = 0 => (Width - 1 \in E <=> c.escaped)
      BY DEF Escapes
    <3>4. Width - 1 \in u <=> Width - 1 \in bs /\ ~ (Width - 1 = 0 /\ c.escaped)
      BY <1>0, BehindFacts
    <3>. QED
      BY <3>1, <3>2, <3>3, <3>4
  <2>5. CarryInto(o, u, Width) \in BOOLEAN
    BY DEF CarryInto
  <2>6. ASSUME NEW i \in Bits PROVE i \in f.mask <=> i \in E
    <3>1. i \in f.mask <=> i \in Behind(c, bs) /\ ~ (Even(i) <=> i \in ShiftUp(sum, 1))
      BY <2>1 DEF Xor, Even
    <3>2. i \in Behind(c, bs) <=> i - 1 \in u \/ (i = 0 /\ c.escaped)
      BY BehindFacts
    <3>3. CASE i = 0
      <4>1. 0 \notin ShiftUp(sum, 1)
        <5>1. \A j \in sum : j \in Nat
          BY WidthFacts DEF SumOf
        <5>. HIDE DEF sum
        <5>. QED
          BY <5>1 DEF ShiftUp
      <4>2. Even(0)
        BY DEF Even
      <4>3. 0 - 1 \notin u
        <5>. HIDE DEF u
        <5>. QED
          BY <2>3, WidthFacts
      <4>4. 0 \in E <=> c.escaped
        BY DEF Escapes
      <4>. HIDE DEF sum, u
      <4>. QED
        BY <3>1, <3>2, <3>3, <4>1, <4>2, <4>3, <4>4
    <3>4. CASE i # 0
      <4>. DEFINE h == i - 1
      <4>1. h \in Bits /\ h \in Nat /\ h + 1 = i /\ i \in 0..Width /\ h \in 0..Width
        BY <3>4, WidthFacts DEF Bits
      <4>2. i \in ShiftUp(sum, 1) <=> h \in sum
        <5>1. sum \subseteq Bits
          BY DEF SumOf
        <5>. HIDE DEF sum, h
        <5>2. \A j \in sum : j + 1 = i <=> j = h
          BY <4>1, <5>1, WidthFacts
        <5>3. i \in ShiftUp(sum, 1) <=> \E j \in sum : i = j + 1
          BY DEF ShiftUp
        <5>. QED
          BY <5>2, <5>3
      <4>3. h \in sum <=> ~ ((h \in o <=> h \notin u) <=> CarryInto(o, u, h))
        <5>. HIDE DEF o, u, h
        <5>1. h \in Xor(o, u) <=> (h \in o <=> h \notin u)
          BY DEF Xor
        <5>2. h \in sum <=> (h \in Xor(o, u)) # CarryInto(o, u, h)
          BY <4>1, Zenon DEF SumOf
        <5>3. CarryInto(o, u, h) \in BOOLEAN /\ (h \in Xor(o, u)) \in BOOLEAN
          BY DEF CarryInto
        <5>4. (h \in Xor(o, u)) # CarryInto(o, u, h) <=> ~ (h \in Xor(o, u) <=> CarryInto(o, u, h))
          BY <5>3
        <5>. HIDE DEF sum
        <5>. QED
          BY <5>1, <5>2, <5>4
      <4>4. CarryInto(o, u, i) <=> h \in u /\ (i \in E <=> Even(i))
        BY <2>2, <4>1
      <4>5. CarryInto(o, u, i) <=> h \in o \cap u \/ (h \in o \cup u /\ CarryInto(o, u, h))
        <5>. HIDE DEF h
        <5>. QED
          BY <4>1, CarryNext
      <4>6. CarryInto(o, u, h) => h - 1 \in u
        BY <2>2, <4>1
      <4>7. h \in o => h \in u /\ h - 1 \notin u
        BY <4>1, BehindFacts
      <4>8. i \in E => h \in u
        <5>1. i \in E <=> h \in bs /\ h \notin E
          BY <4>1 DEF Escapes
        <5>2. h \in u <=> h \in bs /\ ~ (h = 0 /\ c.escaped)
          BY <4>1, BehindFacts
        <5>3. h = 0 => (h \in E <=> c.escaped)
          BY DEF Escapes
        <5>. QED
          BY <5>1, <5>2, <5>3
      <4>9. i - 1 = h
        OBVIOUS
      <4>. HIDE DEF sum, u, o, h
      <4>. QED
        BY <3>1, <3>2, <3>4, <4>2, <4>3, <4>4, <4>5, <4>6, <4>7, <4>8, <4>9
    <3>. QED
      BY <3>3, <3>4
  <2>7. f.escaped = CarryInto(o, u, Width)
    BY <2>1
  <2>. HIDE DEF u, o
  <2>. QED
    BY <2>4, <2>5, <2>6, <2>7 DEF f
<1>. QED
  BY <1>1, <1>2

-----------------------------------------------------------------------------
(* What a block says, given what is escaped in it and what is in a string. *)

(* `S` tells of every place of a block, and of the first one of the next,  *)
(* whether a string is open there: one opens or closes behind each quote.  *)
Strings(S, c, quotes) ==
    /\ 0 \in S <=> c.in_string
    /\ \A k \in Bits : k + 1 \in S <=> ~ (k \in S <=> k \in quotes)

StringMask(c, quotes) == Xor(PrefixXor(quotes), IF c.in_string THEN Bits ELSE {})

(* The string mask is about the place behind each byte, and without the    *)
(* quotes about the byte's own (stage1.rs 70-76).                          *)
LEMMA StringMaskIs ==
    ASSUME NEW c, c.in_string \in BOOLEAN, NEW quotes \in SUBSET Bits, NEW S,
           Strings(S, c, quotes)
    PROVE  /\ \A i \in Bits : i \in Xor(StringMask(c, quotes), quotes) <=> i \in S
           /\ TopBit(StringMask(c, quotes)) \in BOOLEAN
           /\ TopBit(StringMask(c, quotes)) <=> Width \in S
<1>. DEFINE In(i) == Odd(CountIn(quotes, -1, i))
            string == StringMask(c, quotes)
            T == {i \in Nat : i \in Bits => (i + 1 \in S <=> ~ (In(i) <=> c.in_string))}
<1>1. 0 \in T
  <2>1. CountIn(quotes, -1, 0) = IF 0 \in quotes THEN 1 ELSE 0
    <3>1. CountIn(quotes, 0 - 1, 0) = IF 0 \in quotes THEN 1 ELSE 0
      BY CountOne
    <3>2. 0 - 1 = -1
      OBVIOUS
    <3>. QED
      BY <3>1, <3>2
  <2>2. In(0) <=> 0 \in quotes
    BY <2>1 DEF Odd
  <2>3. 0 \in Bits
    BY WidthFacts
  <2>4. 0 + 1 \in S <=> ~ (0 \in S <=> 0 \in quotes)
    BY <2>3 DEF Strings
  <2>5. 0 \in S <=> c.in_string
    BY DEF Strings
  <2>. HIDE DEF In
  <2>. QED
    BY <2>2, <2>4, <2>5
<1>2. ASSUME NEW i \in Nat, i \in T PROVE i + 1 \in T
  <2>. SUFFICES ASSUME i + 1 \in Bits
                PROVE  (i + 1) + 1 \in S <=> ~ (In(i + 1) <=> c.in_string)
    OBVIOUS
  <2>1. i \in Bits /\ (i + 1) - 1 = i /\ i + 1 \in Int
    BY WidthFacts DEF Bits
  <2>2. CountIn(quotes, i, i + 1) = IF i + 1 \in quotes THEN 1 ELSE 0
    <3>1. CountIn(quotes, (i + 1) - 1, i + 1) = IF i + 1 \in quotes THEN 1 ELSE 0
      BY <2>1, CountOne
    <3>. QED
      BY <2>1, <3>1
  <2>3. CountIn(quotes, -1, i + 1) = CountIn(quotes, -1, i) + CountIn(quotes, i, i + 1)
    BY CountSplit
  <2>4. CountIn(quotes, -1, i) \in Nat
    <3>1. -1 \in Int /\ i \in Int
      OBVIOUS
    <3>. QED
      BY <3>1, CountType, Zenon
  <2>5. In(i + 1) <=> ~ (In(i) <=> i + 1 \in quotes)
    <3>1. CASE i + 1 \in quotes
      <4>1. CountIn(quotes, -1, i + 1) = CountIn(quotes, -1, i) + 1
        BY <2>2, <2>3, <3>1
      <4>2. Odd(CountIn(quotes, -1, i) + 1) <=> ~ Odd(CountIn(quotes, -1, i))
        BY <2>4, OddNext
      <4>. QED
        BY <3>1, <4>1, <4>2
    <3>2. CASE i + 1 \notin quotes
      <4>1. CountIn(quotes, -1, i + 1) = CountIn(quotes, -1, i)
        BY <2>2, <2>3, <2>4, <3>2
      <4>. QED
        BY <3>2, <4>1
    <3>. QED
      BY <3>1, <3>2
  <2>6. (i + 1) + 1 \in S <=> ~ (i + 1 \in S <=> i + 1 \in quotes)
    BY DEF Strings
  <2>7. i + 1 \in S <=> ~ (In(i) <=> c.in_string)
    BY <1>2, <2>1
  <2>. HIDE DEF In
  <2>. QED
    BY <2>5, <2>6, <2>7
<1>3. \A i \in Bits : i + 1 \in S <=> ~ (In(i) <=> c.in_string)
  <2>1. \A i \in 0..(Width - 1) : i \in T => i + 1 \in T
    BY <1>2
  <2>2. Width \in Nat /\ \A i \in Bits : i \in 0..Width
    BY WidthFacts DEF Bits
  <2>. HIDE DEF In
  <2>3. 0..Width \subseteq T
    <3>. HIDE DEF T
    <3>. QED
      BY <1>1, <2>1, <2>2, UpTo
  <2>. QED
    BY <2>2, <2>3
<1>4. \A i \in Bits : i \in string <=> ~ (In(i) <=> c.in_string)
  <2>1. \A i \in Bits : i \in PrefixXor(quotes) <=> In(i)
    BY PrefixXorParity
  <2>2. PrefixXor(quotes) \in SUBSET Bits
    BY PrefixXorParity
  <2>. HIDE DEF In
  <2>. QED
    BY <2>1, <2>2 DEF StringMask, Xor
<1>5. \A i \in Bits : i \in string <=> i + 1 \in S
  <2>. HIDE DEF In, string
  <2>. QED
    BY <1>3, <1>4
<1>. HIDE DEF string
<1>6. \A i \in Bits : i \in Xor(string, quotes) <=> i \in S
  <2>. SUFFICES ASSUME NEW i \in Bits PROVE i \in Xor(string, quotes) <=> i \in S
    OBVIOUS
  <2>1. i \in Xor(string, quotes) <=> ~ (i \in string <=> i \in quotes)
    BY DEF Xor
  <2>2. i + 1 \in S <=> ~ (i \in S <=> i \in quotes)
    BY DEF Strings
  <2>. QED
    BY <1>5, <2>1, <2>2
<1>7. TopBit(string) \in BOOLEAN /\ (TopBit(string) <=> Width \in S)
  <2>1. Width - 1 \in Bits /\ (Width - 1) + 1 = Width
    BY WidthFacts DEF Bits
  <2>2. Width - 1 \in string <=> Width \in S
    BY <1>5, <2>1
  <2>. QED
    BY <2>2 DEF TopBit
<1>. QED
  BY <1>6, <1>7 DEF string

(* block_structurals and block_ops, said of every place of the block.      *)
LEMMA BlockIs ==
    ASSUME NEW c \in Carries, NEW m, m.backslash \in SUBSET Bits, m.quote \in SUBSET Bits,
           m.op \in SUBSET Bits, m.ws \in SUBSET Bits,
           NEW E, Escapes(E, c, m.backslash), NEW S, Strings(S, c, m.quote \ E)
    PROVE  LET next == BlockStructurals(c, m)
               cut(i) == i \notin m.op \cup m.ws \cup (m.quote \ E)
           IN  /\ \A i \in Bits : i \in next.bits <=>
                     /\ i \notin S
                     /\ \/ i \in m.op
                        \/ /\ i \notin m.op \cup m.ws
                           /\ ~ (i = 0 /\ c.scalar)
                           /\ ~ (i # 0 /\ cut(i - 1))
               /\ next.bits \in SUBSET Bits
               /\ next.carries \in Carries
               /\ next.carries.in_string <=> Width \in S
               /\ next.carries.escaped <=> Width \in E
               /\ next.carries.scalar <=> cut(Width - 1)
<1>. DEFINE f == FindEscaped(c, m.backslash)
            q == m.quote \ E
            string == StringMask(c, q)
            scalar == Bits \ (m.op \cup m.ws)
            follows == ShiftUp(scalar \ q, 1) \cup LowBit(c.scalar)
            bits == (m.op \cup (scalar \ follows)) \ Xor(string, q)
            after == [in_string |-> TopBit(string), escaped |-> f.escaped,
                      scalar |-> TopBit(scalar \ q)]
<1>0. c.in_string \in BOOLEAN /\ c.escaped \in BOOLEAN /\ c.scalar \in BOOLEAN
  BY DEF Carries
<1>1. /\ \A i \in Bits : i \in f.mask <=> i \in E
      /\ f.escaped \in BOOLEAN
      /\ f.escaped <=> Width \in E
  BY <1>0, FindEscapedIs
<1>. HIDE DEF f
<1>2. m.quote \ f.mask = q
  BY <1>1
<1>3. BlockStructurals(c, m) = [bits |-> bits, carries |-> after]
  BY <1>2, Zenon DEF BlockStructurals, f, StringMask
<1>4. q \in SUBSET Bits
  OBVIOUS
<1>5. /\ \A i \in Bits : i \in Xor(string, q) <=> i \in S
      /\ TopBit(string) \in BOOLEAN
      /\ TopBit(string) <=> Width \in S
  BY <1>0, <1>4, StringMaskIs
<1>. HIDE DEF string, q
<1>6. \A i \in Bits : i \in follows <=> (i = 0 /\ c.scalar) \/ (i # 0 /\ i - 1 \in scalar \ q)
  <2>. SUFFICES ASSUME NEW i \in Bits
                PROVE  i \in follows <=> (i = 0 /\ c.scalar) \/ (i # 0 /\ i - 1 \in scalar \ q)
    OBVIOUS
  <2>1. i \in LowBit(c.scalar) <=> i = 0 /\ c.scalar
    BY DEF LowBit
  <2>. DEFINE s == scalar \ q
  <2>2. s \subseteq Bits
    OBVIOUS
  <2>. HIDE DEF s
  <2>3. i \in ShiftUp(s, 1) <=> i # 0 /\ i - 1 \in s
    <3>1. \A j \in s : j \in Int /\ 0 <= j
      BY <2>2, WidthFacts
    <3>2. i \in Int
      BY WidthFacts
    <3>3. i \in ShiftUp(s, 1) <=> \E j \in s : i = j + 1
      BY DEF ShiftUp
    <3>4. \A j \in s : i = j + 1 <=> i # 0 /\ i - 1 = j
      BY <3>1, <3>2
    <3>. QED
      BY <3>3, <3>4
  <2>. QED
    BY <2>1, <2>3 DEF s
<1>7. \A i \in Bits : i \in bits <=>
          /\ i \notin S
          /\ i \in m.op \/ (i \in scalar /\ i \notin follows)
  BY <1>5
<1>8. bits \in SUBSET Bits
  OBVIOUS
<1>9. TopBit(scalar \ q) \in BOOLEAN /\ (TopBit(scalar \ q) <=> Width - 1 \in scalar \ q)
  BY DEF TopBit
<1>10. /\ after \in Carries /\ after.in_string = TopBit(string)
       /\ after.escaped = f.escaped /\ after.scalar = TopBit(scalar \ q)
  BY <1>1, <1>5, <1>9 DEF Carries
<1>11. \A i \in Bits : i \in scalar <=> i \notin m.op \cup m.ws
  OBVIOUS
<1>12. \A i \in Bits : i \in scalar \ q <=> i \notin m.op \cup m.ws \cup q
  OBVIOUS
<1>13. Width - 1 \in Bits /\ \A i \in Bits : i # 0 => i - 1 \in Bits
  BY WidthFacts DEF Bits
<1>. HIDE DEF bits, after, follows, scalar
<1>14. \A i \in Bits : i \in bits <=>
          /\ i \notin S
          /\ \/ i \in m.op
             \/ /\ i \notin m.op \cup m.ws
                /\ ~ (i = 0 /\ c.scalar)
                /\ ~ (i # 0 /\ i - 1 \notin m.op \cup m.ws \cup q)
  BY <1>6, <1>7, <1>11, <1>12, <1>13
<1>15. after.scalar <=> Width - 1 \notin m.op \cup m.ws \cup q
  BY <1>9, <1>10, <1>12, <1>13
<1>16. (after.in_string <=> Width \in S) /\ (after.escaped <=> Width \in E)
  BY <1>1, <1>5, <1>10
<1>17. BlockStructurals(c, m).bits = bits /\ BlockStructurals(c, m).carries = after
  BY <1>3
<1>. QED
  BY <1>8, <1>10, <1>14, <1>15, <1>16, <1>17, Zenon DEF q

(* block_ops, the same way: the structural bytes outside strings.          *)
LEMMA BlockOpsIs ==
    ASSUME NEW c \in Carries, NEW m, m.backslash \in SUBSET Bits, m.quote \in SUBSET Bits,
           m.op \in SUBSET Bits,
           NEW E, Escapes(E, c, m.backslash), NEW S, Strings(S, c, m.quote \ E)
    PROVE  LET next == BlockOps(c, m)
           IN  /\ next.bits = {i \in Bits : i \in m.op /\ i \notin S}
               /\ next.carries \in Carries
               /\ next.carries.in_string <=> Width \in S
               /\ next.carries.escaped <=> Width \in E
<1>. DEFINE f == FindEscaped(c, m.backslash)
            q == m.quote \ E
            string == StringMask(c, q)
            bits == m.op \ Xor(string, q)
            after == [c EXCEPT !.in_string = TopBit(string), !.escaped = f.escaped]
<1>0. c.in_string \in BOOLEAN /\ c.escaped \in BOOLEAN
  BY DEF Carries
<1>1. /\ \A i \in Bits : i \in f.mask <=> i \in E
      /\ f.escaped \in BOOLEAN
      /\ f.escaped <=> Width \in E
  BY <1>0, FindEscapedIs
<1>. HIDE DEF f
<1>2. m.quote \ f.mask = q
  BY <1>1
<1>3. BlockOps(c, m) = [bits |-> bits, carries |-> after]
  BY <1>2, Zenon DEF BlockOps, f, StringMask
<1>4. q \in SUBSET Bits
  OBVIOUS
<1>5. /\ \A i \in Bits : i \in Xor(string, q) <=> i \in S
      /\ TopBit(string) \in BOOLEAN
      /\ TopBit(string) <=> Width \in S
  BY <1>0, <1>4, StringMaskIs
<1>. HIDE DEF string, q
<1>6. bits = {i \in Bits : i \in m.op /\ i \notin S}
  BY <1>5
<1>7. after \in Carries /\ after.in_string = TopBit(string) /\ after.escaped = f.escaped
  BY <1>1, <1>5 DEF Carries
<1>. HIDE DEF bits, after
<1>8. BlockOps(c, m).bits = bits /\ BlockOps(c, m).carries = after
  BY <1>3
<1>. QED
  BY <1>1, <1>5, <1>6, <1>7, <1>8

(***************************************************************************)
(* II.  The index and the skip, block after block.                         *)
(***************************************************************************)
-----------------------------------------------------------------------------
(* Arithmetic.                                                             *)

(* The groups that hold n entries have fewer than s places left over.      *)
LEMMA GroupsBound ==
    ASSUME NEW n \in Nat, NEW s \in Nat \ {0}
    PROVE  ((n + s - 1) \div s) * s <= n + s - 1
  OBVIOUS

(* A number below the modulus is not truncated.                            *)
LEMMA BelowModulus ==
    ASSUME NEW a \in Nat, NEW p \in Nat \ {0}, a < p
    PROVE  a % p = a
  OBVIOUS

-----------------------------------------------------------------------------
(* The positions of a mask, in order.                                      *)

(* Positions 0 to m - 1 are m.                                             *)
LEMMA PositionCount ==
    ASSUME NEW m \in Nat
    PROVE  IsFiniteSet(0..(m - 1)) /\ Cardinality(0..(m - 1)) = m
<1>1. CASE m = 0
  <2>1. 0..(m - 1) = {}
    BY <1>1
  <2>. QED
    BY <1>1, <2>1, FS_EmptySet
<1>2. CASE m > 0
  <2>1. 0 \in Int /\ m - 1 \in Int /\ ~ (0 > m - 1) /\ m - 1 - 0 + 1 = m
    BY <1>2
  <2>. QED
    BY <2>1, FS_Interval
<1>. QED
  BY <1>1, <1>2

(* A mask of m positions has at most m of them.                            *)
LEMMA MaskSize ==
    ASSUME NEW m \in Nat, NEW bits \in SUBSET (0..(m - 1))
    PROVE  IsFiniteSet(bits) /\ Cardinality(bits) \in Nat /\ Cardinality(bits) <= m
<1>1. IsFiniteSet(0..(m - 1)) /\ Cardinality(0..(m - 1)) = m
  BY PositionCount
<1>2. IsFiniteSet(bits) /\ Cardinality(bits) <= m
  BY <1>1, FS_Subset
<1>. QED
  BY <1>2, FS_CardinalityType

(* Later positions have more below them.                                   *)
LEMMA BelowGrows ==
    ASSUME NEW m \in Nat, NEW bits \in SUBSET (0..(m - 1)),
           NEW i \in bits, NEW j \in bits, i < j
    PROVE  Below(bits, i) < Below(bits, j)
<1>. DEFINE lower == {h \in bits : h < i}
            upper == {h \in bits : h < j}
<1>0. i \in Int /\ j \in Int /\ \A h \in bits : h \in Int
  OBVIOUS
<1>1. IsFiniteSet(upper)
  BY MaskSize, FS_Subset, upper \in SUBSET bits
<1>2. lower \subseteq upper /\ i \in upper /\ i \notin lower
  <2>1. \A h \in bits : h < i => h < j
    BY <1>0
  <2>2. ~ (i < i)
    BY <1>0
  <2>. QED
    BY <2>1, <2>2
<1>3. Cardinality(lower) <= Cardinality(upper) /\ Cardinality(lower) # Cardinality(upper)
  <2>. HIDE DEF lower, upper
  <2>. QED
    BY <1>1, <1>2, FS_Subset
<1>4. Cardinality(lower) \in Nat /\ Cardinality(upper) \in Nat
  <2>. HIDE DEF lower, upper
  <2>. QED
    BY <1>1, <1>2, FS_Subset, FS_CardinalityType
<1>. QED
  BY <1>3, <1>4 DEF Below

(* Every rank below the size of the mask is that of one of its positions.  *)
LEMMA RankTaken ==
    ASSUME NEW m \in Nat, NEW bits \in SUBSET (0..(m - 1)),
           NEW k \in 1..Cardinality(bits)
    PROVE  BitAt(bits, k) \in bits /\ Below(bits, BitAt(bits, k)) = k - 1
<1>0. \A i, j \in bits : i < j => Below(bits, i) < Below(bits, j)
  BY BelowGrows
<1>. DEFINE n == Cardinality(bits)
            ranks == 0..(n - 1)
            rank == [i \in bits |-> Below(bits, i)]
<1>1. IsFiniteSet(bits) /\ n \in Nat
  BY MaskSize
<1>2. \A i \in bits : Below(bits, i) \in ranks
  <2>. SUFFICES ASSUME NEW i \in bits PROVE Below(bits, i) \in ranks
    OBVIOUS
  <2>. DEFINE lower == {h \in bits : h < i}
  <2>1. lower \subseteq bits /\ i \notin lower
    OBVIOUS
  <2>. HIDE DEF lower
  <2>2. IsFiniteSet(lower) /\ Cardinality(lower) \in Nat /\ Cardinality(lower) <= n
    BY <1>1, <2>1, FS_Subset, FS_CardinalityType
  <2>3. Cardinality(lower) # n
    BY <1>1, <2>1, FS_Subset
  <2>. QED
    BY <1>1, <2>2, <2>3 DEF Below, lower
<1>3. rank \in Injection(bits, ranks)
  <2>1. rank \in [bits -> ranks]
    BY <1>2
  <2>2. \A i, j \in bits : Below(bits, i) = Below(bits, j) => i = j
    <3>. SUFFICES ASSUME NEW i \in bits, NEW j \in bits, i # j
                  PROVE  Below(bits, i) # Below(bits, j)
      OBVIOUS
    <3>1. Below(bits, i) \in Int /\ Below(bits, j) \in Int
      BY <1>1, <1>2
    <3>2. i < j \/ j < i
      OBVIOUS
    <3>3. CASE i < j
      BY <1>0, <3>1, <3>3
    <3>4. CASE j < i
      BY <1>0, <3>1, <3>4
    <3>. QED
      BY <3>2, <3>3, <3>4
  <2>. QED
    BY <2>1, <2>2, Fun_IsInj
<1>4. IsFiniteSet(ranks) /\ Cardinality(ranks) = n
  <2>. HIDE DEF n
  <2>. QED
    BY <1>1, PositionCount
<1>5. rank \in Surjection(bits, ranks)
  <2>. HIDE DEF rank, ranks
  <2>. QED
    BY <1>3, <1>4, FS_Injection
<1>6. k - 1 \in ranks
  BY <1>1
<1>7. \E i \in bits : Below(bits, i) = k - 1
  BY <1>5, <1>6 DEF Surjection
<1>. QED
  BY <1>7 DEF BitAt
-----------------------------------------------------------------------------
Entries == [offset: Nat, byte: 0..255]

(* The inductive invariant: while the text is indexed there are no more    *)
(* entries than bytes behind `base`, all of them offsets below it.         *)

IndexInv ==
    /\ pc \in {"idle", "refused", "index", "indexed", "skip", "skipped"}
    /\ text \in Seq(0..255)
    /\ fits = TRUE
    /\ out \in Seq(Entries)
    /\ pc \in {"idle", "refused"} => out = <<>>
    /\ pc = "index" => /\ base \in 0..Len(text)
                       /\ IndexLenOk(Len(text), target.packed)
                       /\ Len(out) <= base
                       /\ \A k \in 1..Len(out) : out[k].offset < base
    /\ EntriesInText
    /\ EntriesAscend

(* What follows is said of any text behind base, so that a full block and  *)
(* the rest of the text are one case.                                      *)
LEMMA OffsetsExact ==
    ASSUME IndexLenOk(Len(text), target.packed), NEW block \in [Bits -> 0..255],
           text \in Seq(0..255), base \in Nat,
           NEW i \in Bits, base + i < Len(text)
    PROVE  /\ Entry(block, i) \in Entries
           /\ Entry(block, i).offset = base + i
<1>1. i \in Nat /\ Len(text) \in Nat
  BY WidthFacts DEF Bits
<1>2. 2 ^ PackedBits \in Nat \ {0} /\ 2 ^ OffsetBits \in Nat \ {0}
  BY PowerCounts, OffsetAssumption
<1>3. CASE target.packed
  <2>1. base + i < 2 ^ PackedBits
    BY <1>1, <1>2, <1>3 DEF IndexLenOk
  <2>. DEFINE power == 2 ^ PackedBits
  <2>2. (base + i) % power = base + i
    <3>. HIDE DEF power
    <3>1. power \in Nat \ {0} /\ base + i < power
      BY <1>2, <2>1 DEF power
    <3>2. base + i \in Nat
      BY <1>1
    <3>. QED
      BY <3>1, <3>2, BelowModulus
  <2>. QED
    BY <1>1, <1>3, <2>2 DEF Entry, Entries
<1>4. CASE ~ target.packed
  <2>1. base + i < 2 ^ OffsetBits
    BY <1>1, <1>2, <1>4 DEF IndexLenOk
  <2>. DEFINE power == 2 ^ OffsetBits
  <2>2. (base + i) % power = base + i
    <3>. HIDE DEF power
    <3>1. power \in Nat \ {0} /\ base + i < power
      BY <1>2, <2>1 DEF power
    <3>2. base + i \in Nat
      BY <1>1
    <3>. QED
      BY <3>1, <3>2, BelowModulus
  <2>. QED
    BY <1>1, <1>4, <2>2 DEF Entry, Entries
<1>. QED
  BY <1>3, <1>4

(* The entries that the bits of a block add, one for each, in order.       *)
LEMMA FlattenStores ==
    ASSUME IndexInv, pc = "index", NEW n \in Nat, base + n <= Len(text),
           NEW bits \in SUBSET (0..(n - 1)), bits \subseteq Bits,
           NEW block \in [Bits -> 0..255], Flatten(bits, block)
    PROVE  LET count == Cardinality(bits)
           IN  /\ \A k \in 1..count : /\ BitAt(bits, k) \in bits
                                       /\ Below(bits, BitAt(bits, k)) = k - 1
               /\ \A j, k \in 1..count : j < k => BitAt(bits, j) < BitAt(bits, k)
               /\ out' \in Seq(Entries) /\ Len(out') = Len(out) + count
               /\ \A k \in 1..Len(out) : out'[k] = out[k]
               /\ \A k \in 1..count :
                     /\ out'[Len(out) + k] = Entry(block, BitAt(bits, k))
                     /\ Entry(block, BitAt(bits, k)).offset = base + BitAt(bits, k)
<1>. DEFINE count == Cardinality(bits)
            added == [k \in 1..count |-> Entry(block, BitAt(bits, k))]
<1>1. base \in Nat /\ Len(text) \in Nat /\ text \in Seq(0..255)
  BY DEF IndexInv
<1>2. IsFiniteSet(bits) /\ count \in Nat /\ count <= n
  BY MaskSize
<1>3. \A k \in 1..count : /\ BitAt(bits, k) \in bits
                          /\ BitAt(bits, k) \in 0..(n - 1)
                          /\ Below(bits, BitAt(bits, k)) = k - 1
  BY RankTaken
<1>4. \A k \in 1..count : /\ added[k] \in Entries
                          /\ added[k].offset = base + BitAt(bits, k)
  <2>. SUFFICES ASSUME NEW k \in 1..count
                PROVE  /\ Entry(block, BitAt(bits, k)) \in Entries
                       /\ Entry(block, BitAt(bits, k)).offset = base + BitAt(bits, k)
    OBVIOUS
  <2>1. BitAt(bits, k) \in Bits /\ base + BitAt(bits, k) < Len(text)
    BY <1>1, <1>3
  <2>. QED
    BY <1>1, <2>1, OffsetsExact DEF IndexInv
<1>5. \A j, k \in 1..count : j < k => BitAt(bits, j) < BitAt(bits, k)
  <2>. SUFFICES ASSUME NEW j \in 1..count, NEW k \in 1..count, j < k
                PROVE  BitAt(bits, j) < BitAt(bits, k)
    OBVIOUS
  <2>1. BitAt(bits, j) \in bits /\ BitAt(bits, k) \in bits
    BY <1>3
  <2>2. Below(bits, BitAt(bits, j)) = j - 1 /\ Below(bits, BitAt(bits, k)) = k - 1
    BY <1>3
  <2>3. BitAt(bits, j) # BitAt(bits, k)
    BY <2>2
  <2>4. ~ (BitAt(bits, k) < BitAt(bits, j))
    <3>. SUFFICES ASSUME BitAt(bits, k) < BitAt(bits, j) PROVE FALSE
      OBVIOUS
    <3>1. Below(bits, BitAt(bits, k)) < Below(bits, BitAt(bits, j))
      BY <2>1, BelowGrows
    <3>. QED
      BY <2>2, <3>1
  <2>5. BitAt(bits, j) \in Int /\ BitAt(bits, k) \in Int
    BY <1>3
  <2>. QED
    BY <2>3, <2>4, <2>5
<1>6. added \in Seq(Entries) /\ Len(added) = count
  <2>1. added \in [1..count -> Entries]
    BY <1>4
  <2>. HIDE DEF added, count
  <2>. QED
    BY <1>2, <2>1
<1>7. out \in Seq(Entries) /\ out' = out \o added
  BY DEF IndexInv, Flatten
<1>8. /\ out' \in Seq(Entries) /\ Len(out') = Len(out) + count
      /\ \A k \in 1..Len(out) : out'[k] = out[k]
      /\ \A k \in 1..count : out'[Len(out) + k] = added[k]
  <2>. HIDE DEF added, count
  <2>1. /\ out' \in Seq(Entries) /\ Len(out') = Len(out) + count
        /\ \A k \in 1..(Len(out) + count) :
               out'[k] = IF k <= Len(out) THEN out[k] ELSE added[k - Len(out)]
    BY <1>6, <1>7, ConcatProperties
  <2>2. Len(out) \in Nat
    BY <1>7
  <2>. QED
    BY <1>2, <2>1, <2>2, SMTT(30)
<1>9. \A k \in 1..count : added[k] = Entry(block, BitAt(bits, k))
  OBVIOUS
<1>. HIDE DEF added
<1>. QED
  BY <1>3, <1>4, <1>5, <1>8, <1>9

(* The bytes between base and base + n are indexed in one step.            *)
LEMMA FlattenKeeps ==
    ASSUME IndexInv, pc = "index", NEW n \in Nat, base + n <= Len(text),
           NEW bits \in SUBSET (0..(n - 1)), bits \subseteq Bits,
           NEW block \in [Bits -> 0..255], Flatten(bits, block),
           base' = base + n, UNCHANGED <<text, target, pc>>
    PROVE  IndexInv'
<1>. DEFINE count == Cardinality(bits)
            groups == (count + Slots - 1) \div Slots
<1>1. base \in Nat /\ Len(text) \in Nat /\ text \in Seq(0..255)
  BY DEF IndexInv
<1>2. IsFiniteSet(bits) /\ count \in Nat /\ count <= n
  BY MaskSize
<1>3. \A k \in 1..count : BitAt(bits, k) \in bits /\ BitAt(bits, k) \in 0..(n - 1)
  BY FlattenStores
<1>4. \A j, k \in 1..count : j < k => BitAt(bits, j) < BitAt(bits, k)
  BY FlattenStores
<1>5. out \in Seq(Entries)
  BY DEF IndexInv
<1>6. /\ out' \in Seq(Entries) /\ Len(out') = Len(out) + count
      /\ \A k \in 1..Len(out) : out'[k] = out[k]
      /\ \A k \in 1..count : out'[Len(out) + k].offset = base + BitAt(bits, k)
  BY FlattenStores
<1>7. Len(out) \in Nat /\ Len(out) <= base /\ \A k \in 1..Len(out) : out[k].offset \in Nat /\ out[k].offset < base
  <2>1. Len(out) \in Nat /\ \A k \in 1..Len(out) : out[k].offset \in Nat
    <3>1. Len(out) \in Nat /\ \A k \in 1..Len(out) : out[k] \in Entries
      BY <1>5, ElementOfSeq, LenProperties
    <3>. QED
      BY <3>1 DEF Entries
  <2>2. Len(out) <= base /\ \A k \in 1..Len(out) : out[k].offset < base
    BY DEF IndexInv
  <2>. QED
    BY <2>1, <2>2
<1>8. fits' = TRUE
  <2>1. groups * Slots <= count + Slots - 1
    BY <1>2, WidthAssumption, GroupsBound
  <2>2. groups * Slots \in Int
    BY <1>2, WidthAssumption
  <2>3. Len(out) + groups * Slots <= Reserved
    <3>. DEFINE stored == groups * Slots
    <3>1. stored <= count + Slots - 1 /\ stored \in Int /\ Slots \in Nat
      BY <2>1, <2>2, WidthAssumption
    <3>. HIDE DEF stored
    <3>. QED
      BY <1>1, <1>2, <1>7, <3>1 DEF Reserved, stored
  <2>. QED
    BY <2>3 DEF Flatten, IndexInv
<1>9. \A k \in 1..Len(out') : /\ out'[k].offset \in Nat
                               /\ out'[k].offset < base + n
  <2>. SUFFICES ASSUME NEW k \in 1..Len(out')
                PROVE  out'[k].offset \in Nat /\ out'[k].offset < base + n
    OBVIOUS
  <2>1. CASE k \in 1..Len(out)
    BY <1>1, <1>6, <1>7, <2>1
  <2>2. CASE k \notin 1..Len(out)
    <3>1. PICK h \in 1..count : k = Len(out) + h
      <4>1. k - Len(out) \in 1..count /\ k = Len(out) + (k - Len(out))
        BY <1>2, <1>6, <1>7, <2>2
      <4>. QED
        BY <4>1
    <3>2. out'[k].offset = base + BitAt(bits, h) /\ BitAt(bits, h) \in 0..(n - 1)
      BY <1>3, <1>6, <3>1
    <3>. QED
      BY <1>1, <3>2
  <2>. QED
    BY <2>1, <2>2
<1>10. \A j, k \in 1..Len(out') : j < k => out'[j].offset < out'[k].offset
  <2>. SUFFICES ASSUME NEW j \in 1..Len(out'), NEW k \in 1..Len(out'), j < k
                PROVE  out'[j].offset < out'[k].offset
    OBVIOUS
  <2>1. CASE k \in 1..Len(out)
    <3>1. j \in 1..Len(out)
      BY <1>7, <2>1
    <3>2. DOMAIN out = 1..Len(out)
      BY <1>5
    <3>3. out[j].offset < out[k].offset
      BY <2>1, <3>1, <3>2 DEF IndexInv, EntriesAscend
    <3>. QED
      BY <1>6, <2>1, <3>1, <3>3
  <2>2. CASE k \notin 1..Len(out)
    <3>1. PICK h \in 1..count : k = Len(out) + h
      <4>1. k - Len(out) \in 1..count /\ k = Len(out) + (k - Len(out))
        BY <1>2, <1>6, <1>7, <2>2
      <4>. QED
        BY <4>1
    <3>2. out'[k].offset = base + BitAt(bits, h) /\ BitAt(bits, h) \in 0..(n - 1)
      BY <1>3, <1>6, <3>1
    <3>3. CASE j \in 1..Len(out)
      <4>1. out'[j].offset < base /\ out'[j].offset \in Nat
        BY <1>6, <1>7, <3>3
      <4>. QED
        BY <1>1, <3>2, <4>1
    <3>4. CASE j \notin 1..Len(out)
      <4>1. PICK g \in 1..count : j = Len(out) + g
        <5>1. j - Len(out) \in 1..count /\ j = Len(out) + (j - Len(out))
          BY <1>2, <1>6, <1>7, <3>4
        <5>. QED
          BY <5>1
      <4>2. out'[j].offset = base + BitAt(bits, g) /\ BitAt(bits, g) \in 0..(n - 1)
        BY <1>3, <1>6, <4>1
      <4>3. g < h
        BY <1>7, <3>1, <4>1
      <4>4. BitAt(bits, g) < BitAt(bits, h)
        BY <1>4, <4>3
      <4>. QED
        BY <1>1, <3>2, <4>2, <4>4
    <3>. QED
      BY <3>3, <3>4
  <2>. QED
    BY <2>1, <2>2
<1>11. DOMAIN out' = 1..Len(out')
  BY <1>6
<1>12. EntriesInText'
  BY <1>1, <1>9, <1>11 DEF EntriesInText
<1>13. EntriesAscend'
  BY <1>10, <1>11 DEF EntriesAscend
<1>14. base' \in 0..Len(text') /\ Len(out') <= base'
  BY <1>1, <1>2, <1>6, <1>7
<1>15. IndexLenOk(Len(text), target.packed)' /\ \A k \in 1..Len(out') : out'[k].offset < base'
  BY <1>9 DEF IndexInv, IndexLenOk
<1>. QED
  BY <1>6, <1>8, <1>12, <1>13, <1>14, <1>15 DEF IndexInv

(* What is found in a block are positions of the block.                    *)
LEMMA StructuralsInBlock ==
    ASSUME NEW c, NEW m, m.op \subseteq Bits
    PROVE  BlockStructurals(c, m).bits \subseteq Bits
  BY DEF BlockStructurals, Xor

(* The masks of every kernel are sets of positions, its bytes are bytes.   *)
LEMMA MasksInBlock ==
    ASSUME NEW block
    PROVE  /\ \A isa : Classify(isa, block).op \subseteq Bits
           /\ Avx2Masks(block).op \subseteq Bits
           /\ ScalarMasks(block).op \subseteq Bits
<1>1. NeonMasks(block).op \subseteq Bits
  BY DEF NeonMasks, Where
<1>2. Sse2Masks(block).op \subseteq Bits
  BY DEF Sse2Masks, Where
<1>3. Avx2Masks(block).op \subseteq Bits
  BY DEF Avx2Masks, Where
<1>4. ScalarMasks(block).op \subseteq Bits
  BY DEF ScalarMasks, Where
<1>. QED
  BY <1>1, <1>2, <1>3, <1>4 DEF Classify

(* A byte of a block is one of the text or a zero.                         *)
LEMMA BlockBytes ==
    ASSUME text \in Seq(0..255), base \in Nat
    PROVE  BlockAt(base) \in [Bits -> 0..255]
<1>. SUFFICES ASSUME NEW i \in Bits
              PROVE  (IF base + i < Len(text) THEN text[base + i + 1] ELSE 0) \in 0..255
  BY DEF BlockAt
<1>1. i \in Nat /\ Len(text) \in Nat
  BY WidthFacts DEF Bits
<1>2. CASE base + i < Len(text)
  <2>1. base + i + 1 \in 1..Len(text)
    BY <1>1, <1>2
  <2>. QED
    BY <1>2, <2>1, ElementOfSeq
<1>. QED
  BY <1>2

(* A full block.                                                           *)
LEMMA BlockKeeps ==
    ASSUME IndexInv, NEW masks, masks.op \subseteq Bits, IndexBlock(masks)
    PROVE  IndexInv'
<1>. DEFINE bits == BlockStructurals(carries, masks).bits
<1>1. pc = "index" /\ base + Width <= Len(text) /\ base' = base + Width
  BY DEF IndexBlock
<1>2. base \in Nat /\ text \in Seq(0..255)
  BY <1>1 DEF IndexInv
<1>3. bits \subseteq Bits /\ Bits = 0..(Width - 1)
  BY StructuralsInBlock DEF Bits
<1>4. BlockAt(base) \in [Bits -> 0..255]
  BY <1>2, BlockBytes
<1>5. Flatten(bits, BlockAt(base)) /\ UNCHANGED <<text, target, pc>>
  BY DEF IndexBlock
<1>. HIDE DEF bits
<1>. QED
  BY <1>1, <1>3, <1>4, <1>5, WidthFacts, FlattenKeeps

(* The rest of the text, its mask cut to the bytes that are there.         *)
LEMMA TailKeeps ==
    ASSUME IndexInv, NEW masks, masks.op \subseteq Bits, IndexTail(masks)
    PROVE  IndexInv'
<1>. DEFINE n == Len(text) - base
            bits == BlockStructurals(carries, masks).bits \cap 0..(n - 1)
<1>1. pc = "index" /\ base < Len(text) /\ base' = Len(text)
  BY DEF IndexTail
<1>2. base \in Nat /\ Len(text) \in Nat /\ text \in Seq(0..255)
  BY <1>1 DEF IndexInv
<1>3. bits \subseteq Bits /\ bits \in SUBSET (0..(n - 1))
  BY StructuralsInBlock
<1>4. BlockAt(base) \in [Bits -> 0..255]
  BY <1>2, BlockBytes
<1>5. Flatten(bits, BlockAt(base)) /\ UNCHANGED <<text, target, pc>>
  BY DEF IndexTail
<1>6. n \in Nat /\ base + n <= Len(text) /\ base' = base + n
  BY <1>1, <1>2
<1>. HIDE DEF bits, n
<1>. QED
  BY <1>1, <1>3, <1>4, <1>5, <1>6, FlattenKeeps

(* A step that leaves text and entries alone and does not go on indexing.  *)
LEMMA QuietKeeps ==
    ASSUME IndexInv, UNCHANGED <<text, out, fits>>,
           pc \notin {"idle", "refused"}, pc' \in {"indexed", "skip", "skipped"}
    PROVE  IndexInv'
  BY DEF IndexInv, EntriesInText, EntriesAscend

-----------------------------------------------------------------------------

(* IndexInv is inductive.                                                  *)
LEMMA IndexInit == Init => IndexInv
  BY DEF Init, IndexInv, EntriesInText, EntriesAscend

(* One case per action.                                                    *)
LEMMA IndexNext == IndexInv /\ [Next]_vars => IndexInv'
<1>. SUFFICES ASSUME IndexInv, [Next]_vars PROVE IndexInv'
  OBVIOUS
<1>1. CASE Start
  <2>1. text' \in Seq(0..255) /\ Len(text') \in Nat
    BY <1>1, TextsAssumption DEF Start
  <2>2. out' = <<>> /\ fits' = TRUE /\ base' = 0 /\ pc' = "index"
    BY <1>1 DEF Start
  <2>3. IndexLenOk(Len(text'), target'.packed)
    BY <1>1 DEF Start
  <2>. QED
    BY <2>1, <2>2, <2>3 DEF IndexInv, EntriesInText, EntriesAscend, IndexLenOk
<1>2. CASE Refuse
  <2>1. text' \in Seq(0..255)
    BY <1>2, TextsAssumption DEF Refuse
  <2>2. out = <<>> /\ UNCHANGED <<out, fits>> /\ pc' = "refused"
    BY <1>2 DEF Refuse, indexVars, IndexInv
  <2>. QED
    BY <2>1, <2>2 DEF IndexInv, EntriesInText, EntriesAscend
<1>3. CASE DriverBlock
  BY <1>3, BlockKeeps, MasksInBlock DEF DriverBlock
<1>4. CASE DriverTail
  BY <1>4, TailKeeps, MasksInBlock DEF DriverTail
<1>5. CASE Avx2Block
  BY <1>5, BlockKeeps, MasksInBlock DEF Avx2Block
<1>6. CASE Avx2Tail
  BY <1>6, TailKeeps, MasksInBlock DEF Avx2Tail
<1>7. CASE ScalarBlock
  BY <1>7, BlockKeeps, MasksInBlock DEF ScalarBlock
<1>8. CASE ScalarTail
  BY <1>8, TailKeeps, MasksInBlock DEF ScalarTail
<1>9. CASE Indexed
  BY <1>9, QuietKeeps DEF Indexed, indexVars
<1>10. CASE BeginSkip
  BY <1>10, QuietKeeps DEF BeginSkip
<1>11. CASE SkipBlock
  BY <1>11, QuietKeeps DEF SkipBlock, SkipEnds
<1>12. CASE ScalarSkipByte
  BY <1>12, QuietKeeps DEF ScalarSkipByte, SkipEnds
<1>13. CASE ScalarSkipQuoted
  BY <1>13, QuietKeeps DEF ScalarSkipQuoted
<1>14. CASE SkipRunsOut
  BY <1>14, QuietKeeps DEF SkipRunsOut, SkipEnds
<1>15. CASE Finish
  BY <1>15 DEF Finish, IndexInv, EntriesInText, EntriesAscend
<1>16. CASE UNCHANGED vars
  BY <1>16 DEF vars, IndexInv, EntriesInText, EntriesAscend, IndexLenOk
<1>. QED
  BY <1>1, <1>2, <1>3, <1>4, <1>5, <1>6, <1>7, <1>8, <1>9, <1>10, <1>11, <1>12,
     <1>13, <1>14, <1>15, <1>16 DEF Next

(* While a text is indexed there are no more entries than bytes dealt      *)
(* with, each the offset of one of them (stage1.rs 128-157, 646-679).      *)
THEOREM IndexInvariance == Spec => []IndexInv
  BY IndexInit, IndexNext, PTL DEF Spec

(* The unconditional stores of flatten_bits stay in the capacity reserved  *)
(* for the call, for every text, kernel, width and group of stores.        *)
THEOREM StoresReserved == Spec => []StoresStayReserved
<1>1. IndexInv => StoresStayReserved
  BY DEF IndexInv, StoresStayReserved
<1>. QED
  BY <1>1, IndexInvariance, PTL

(* Every entry is an offset of the text, where the driver looks for its    *)
(* token (driver.rs 351-361), and they ascend: no offset was truncated,    *)
(* with either encoding.                                                   *)
THEOREM EntriesLocated == Spec => [](EntriesInText /\ EntriesAscend)
<1>1. IndexInv => EntriesInText /\ EntriesAscend
  BY DEF IndexInv
<1>. QED
  BY <1>1, IndexInvariance, PTL

-----------------------------------------------------------------------------
(* The text, byte by byte.                                                 *)

(* `s` starts the run of backslashes that ends before `i`.                 *)
RunOf(i, s) ==
    /\ s \in 0..(i - 1)
    /\ \A j \in s..(i - 1) : text[j + 1] = BACKSLASH
    /\ s > 0 => text[s] # BACKSLASH

(* Escaped, by the start of the run.                                       *)
LEMMA EscapedByRun ==
    ASSUME NEW i \in Nat
    PROVE  Escaped(i) <=> \E s \in 0..(i - 1) : RunOf(i, s) /\ Odd(i - s)
<1>1. ASSUME NEW n \in 1..i, n % 2 = 1,
             \A j \in (i - n)..(i - 1) : text[j + 1] = BACKSLASH,
             i - n > 0 => text[i - n] # BACKSLASH
      PROVE  i - n \in 0..(i - 1) /\ RunOf(i, i - n) /\ Odd(i - (i - n))
  <2>1. i - n \in 0..(i - 1) /\ i - (i - n) = n
    OBVIOUS
  <2>2. RunOf(i, i - n)
    BY <1>1, <2>1 DEF RunOf
  <2>. QED
    BY <1>1, <2>1, <2>2 DEF Odd
<1>2. ASSUME NEW s \in 0..(i - 1), RunOf(i, s), Odd(i - s)
      PROVE  Escaped(i)
  <2>1. i - s \in 1..i /\ i - (i - s) = s
    OBVIOUS
  <2>2. (i - s) % 2 = 1
    BY <1>2 DEF Odd
  <2>3. \A j \in s..(i - 1) : text[j + 1] = BACKSLASH
    BY <1>2 DEF RunOf
  <2>4. s > 0 => text[s] # BACKSLASH
    BY <1>2 DEF RunOf
  <2>. QED
    BY <2>1, <2>2, <2>3, <2>4, Zenon DEF Escaped
<1>3. Escaped(i) => \E s \in 0..(i - 1) : RunOf(i, s) /\ Odd(i - s)
  <2>. SUFFICES ASSUME Escaped(i) PROVE \E s \in 0..(i - 1) : RunOf(i, s) /\ Odd(i - s)
    OBVIOUS
  <2>1. PICK n \in 1..i : /\ n % 2 = 1
                          /\ \A j \in (i - n)..(i - 1) : text[j + 1] = BACKSLASH
                          /\ i - n > 0 => text[i - n] # BACKSLASH
    BY Zenon DEF Escaped
  <2>. QED
    BY <1>1, <2>1, Zenon
<1>. QED
  BY <1>2, <1>3, Zenon

(* A run has one start,                                                    *)
LEMMA RunUnique ==
    ASSUME NEW i \in Nat, NEW s, NEW t, RunOf(i, s), RunOf(i, t)
    PROVE  s = t
<1>1. ASSUME NEW a, NEW b, RunOf(i, a), RunOf(i, b), a < b PROVE FALSE
  <2>1. a \in 0..(i - 1) /\ b \in 0..(i - 1)
    BY <1>1 DEF RunOf
  <2>2. b - 1 \in a..(i - 1) /\ b > 0 /\ (b - 1) + 1 = b
    BY <1>1, <2>1
  <2>3. text[(b - 1) + 1] = BACKSLASH
    BY <1>1, <2>2 DEF RunOf
  <2>4. text[b] # BACKSLASH
    BY <1>1, <2>2 DEF RunOf
  <2>. QED
    BY <2>2, <2>3, <2>4
<1>2. s \in 0..(i - 1) /\ t \in 0..(i - 1)
  BY DEF RunOf
<1>3. ~ (s < t) /\ ~ (t < s)
  BY <1>1
<1>. QED
  BY <1>2, <1>3

(* and there is one when the byte before is a backslash.                   *)
LEMMA RunExists ==
    ASSUME NEW i \in Nat, i > 0, text[i] = BACKSLASH
    PROVE  \E s : RunOf(i, s)
<1>. DEFINE T == {s \in 0..(i - 1) : \A j \in s..(i - 1) : text[j + 1] = BACKSLASH}
<1>1. i - 1 \in T
  <2>1. i - 1 \in 0..(i - 1) /\ \A j \in (i - 1)..(i - 1) : j + 1 = i
    OBVIOUS
  <2>. QED
    BY <2>1
<1>2. PICK s \in T : \A r \in T : s <= r
  <2>1. T \subseteq Nat
    OBVIOUS
  <2>2. T # {}
    <3>. HIDE DEF T
    <3>. QED
      BY <1>1
  <2>. HIDE DEF T
  <2>. QED
    BY <2>1, <2>2, LeastElement
<1>3. ASSUME s > 0, text[s] = BACKSLASH PROVE FALSE
  <2>1. s - 1 \in 0..(i - 1) /\ ~ (s <= s - 1)
    BY <1>2, <1>3
  <2>2. ASSUME NEW j \in (s - 1)..(i - 1) PROVE text[j + 1] = BACKSLASH
    <3>1. CASE j = s - 1
      <4>1. j + 1 = s
        BY <1>2, <3>1
      <4>. QED
        BY <1>3, <4>1
    <3>2. CASE j # s - 1
      <4>1. j \in s..(i - 1)
        BY <1>2, <3>2
      <4>. QED
        BY <1>2, <4>1
    <3>. QED
      BY <3>1, <3>2
  <2>3. s - 1 \in T
    BY <2>1, <2>2
  <2>. HIDE DEF T
  <2>. QED
    BY <1>2, <2>1, <2>3
<1>. QED
  BY <1>2, <1>3 DEF RunOf

(* The byte behind a backslash that is not escaped is.                     *)
LEMMA EscapedNext ==
    /\ ~ Escaped(0)
    /\ \A i \in Nat : Escaped(i + 1) <=> text[i + 1] = BACKSLASH /\ ~ Escaped(i)
<1>1. ~ Escaped(0)
  BY DEF Escaped
<1>. SUFFICES ASSUME NEW i \in Nat
              PROVE  Escaped(i + 1) <=> text[i + 1] = BACKSLASH /\ ~ Escaped(i)
  BY <1>1
<1>2. i + 1 \in Nat /\ (i + 1) - 1 = i /\ (i + 1) - i = 1 /\ i \in 0..i /\ \A j \in i..i : j = i
  OBVIOUS
<1>3. ASSUME NEW s \in 0..(i - 1)
      PROVE  RunOf(i + 1, s) <=> text[i + 1] = BACKSLASH /\ RunOf(i, s)
  <2>1. s \in 0..i /\ s..i = s..(i - 1) \cup {i}
    OBVIOUS
  <2>. QED
    BY <1>2, <2>1 DEF RunOf
<1>4. ASSUME NEW s \in 0..(i - 1) PROVE Odd((i + 1) - s) <=> ~ Odd(i - s)
  <2>1. i - s \in Nat /\ (i + 1) - s = (i - s) + 1
    OBVIOUS
  <2>. QED
    BY <2>1, OddNext
<1>5. RunOf(i + 1, i) <=> text[i + 1] = BACKSLASH /\ (i > 0 => text[i] # BACKSLASH)
  BY <1>2 DEF RunOf
<1>6. Odd((i + 1) - i)
  BY <1>2 DEF Odd
<1>7. Escaped(i + 1) <=> \E s \in 0..i : RunOf(i + 1, s) /\ Odd((i + 1) - s)
  BY <1>2, EscapedByRun
<1>8. Escaped(i) <=> \E s \in 0..(i - 1) : RunOf(i, s) /\ Odd(i - s)
  BY EscapedByRun
<1>9. ASSUME text[i + 1] = BACKSLASH, ~ Escaped(i) PROVE Escaped(i + 1)
  <2>1. CASE i > 0 /\ text[i] = BACKSLASH
    <3>1. PICK s : RunOf(i, s)
      BY <2>1, RunExists
    <3>2. s \in 0..(i - 1) /\ s \in 0..i
      BY <3>1 DEF RunOf
    <3>3. ~ Odd(i - s)
      BY <1>8, <1>9, <3>1, <3>2
    <3>. QED
      BY <1>3, <1>4, <1>7, <1>9, <3>1, <3>2, <3>3
  <2>2. CASE ~ (i > 0 /\ text[i] = BACKSLASH)
    BY <1>2, <1>5, <1>6, <1>7, <1>9, <2>2
  <2>. QED
    BY <2>1, <2>2
<1>10. ASSUME Escaped(i + 1) PROVE text[i + 1] = BACKSLASH /\ ~ Escaped(i)
  <2>1. PICK s \in 0..i : RunOf(i + 1, s) /\ Odd((i + 1) - s)
    BY <1>7, <1>10
  <2>2. CASE s = i
    <3>1. text[i + 1] = BACKSLASH /\ (i > 0 => text[i] # BACKSLASH)
      BY <1>5, <2>1, <2>2
    <3>2. ASSUME NEW r \in 0..(i - 1), RunOf(i, r) PROVE FALSE
      <4>1. i - 1 \in r..(i - 1) /\ (i - 1) + 1 = i /\ i > 0
        OBVIOUS
      <4>2. text[(i - 1) + 1] = BACKSLASH
        BY <3>2, <4>1 DEF RunOf
      <4>. QED
        BY <3>1, <4>1, <4>2
    <3>. QED
      BY <1>8, <3>1, <3>2
  <2>3. CASE s # i
    <3>1. s \in 0..(i - 1)
      BY <2>3
    <3>2. text[i + 1] = BACKSLASH /\ RunOf(i, s) /\ ~ Odd(i - s)
      BY <1>3, <1>4, <2>1, <3>1
    <3>3. ASSUME NEW r \in 0..(i - 1), RunOf(i, r), Odd(i - r) PROVE FALSE
      <4>1. r = s
        BY <3>2, <3>3, RunUnique
      <4>. QED
        BY <3>2, <3>3, <4>1
    <3>. QED
      BY <1>8, <3>2, <3>3
  <2>. QED
    BY <2>2, <2>3
<1>. QED
  BY <1>9, <1>10

(* The quotes are offsets, and each opens or closes a string.              *)
LEMMA WithinNext ==
    ASSUME text \in Seq(0..255)
    PROVE  /\ RealQuotes \subseteq Nat
           /\ ~ WithinString(0)
           /\ \A i \in Nat : WithinString(i + 1) <=> ~ (WithinString(i) <=> i \in RealQuotes)
<1>. DEFINE Q == RealQuotes
            Before(i) == {q \in Q : q < i}
<1>1. Len(text) \in Nat /\ Q \subseteq 0..(Len(text) - 1)
  BY DEF RealQuotes, Offsets
<1>2. Q \subseteq Nat /\ IsFiniteSet(Q)
  <2>. HIDE DEF Q
  <2>1. IsFiniteSet(0..(Len(text) - 1)) /\ 0..(Len(text) - 1) \subseteq Nat
    BY <1>1, FS_Interval
  <2>2. IsFiniteSet(Q)
    BY <1>1, <2>1, FS_Subset, Zenon
  <2>. QED
    BY <1>1, <2>1, <2>2, Zenon
<1>. HIDE DEF Q
<1>3. ASSUME NEW i \in Nat PROVE IsFiniteSet(Before(i)) /\ Cardinality(Before(i)) \in Nat
  <2>1. Before(i) \subseteq Q
    OBVIOUS
  <2>. HIDE DEF Before
  <2>. QED
    BY <1>2, <2>1, FS_Subset, FS_CardinalityType
<1>4. ASSUME NEW i \in Nat PROVE WithinString(i) <=> Odd(Cardinality(Before(i)))
  BY DEF WithinString, Odd, Q
<1>5. ~ WithinString(0)
  <2>1. Before(0) = {}
    <3>1. \A q \in Q : ~ (q < 0)
      BY <1>2
    <3>. QED
      BY <3>1, Zenon
  <2>. HIDE DEF Before
  <2>2. Cardinality(Before(0)) = 0
    BY <2>1, FS_EmptySet
  <2>. QED
    BY <1>4, <2>2 DEF Odd
<1>6. ASSUME NEW i \in Nat
      PROVE  WithinString(i + 1) <=> ~ (WithinString(i) <=> i \in Q)
  <2>0. \A q \in Q : q < i + 1 <=> q < i \/ q = i
    BY <1>2
  <2>1. CASE i \in Q
    <3>0. ~ (i < i)
      OBVIOUS
    <3>1. Before(i + 1) = Before(i) \cup {i} /\ i \notin Before(i)
      BY <2>0, <2>1, <3>0, Zenon
    <3>. HIDE DEF Before
    <3>2. Cardinality(Before(i + 1)) = Cardinality(Before(i)) + 1
      BY <1>3, <3>1, FS_AddElement
    <3>3. WithinString(i) <=> Odd(Cardinality(Before(i)))
      BY <1>4
    <3>4. i + 1 \in Nat
      OBVIOUS
    <3>5. WithinString(i + 1) <=> Odd(Cardinality(Before(i + 1)))
      BY <1>4, <3>4, Zenon
    <3>6. Odd(Cardinality(Before(i)) + 1) <=> ~ Odd(Cardinality(Before(i)))
      BY <1>3, OddNext, Zenon
    <3>. QED
      BY <2>1, <3>2, <3>3, <3>5, <3>6, Zenon
  <2>2. CASE i \notin Q
    <3>1. Before(i + 1) = Before(i)
      BY <2>0, <2>2, Zenon
    <3>. HIDE DEF Before
    <3>. QED
      BY <1>4, <2>2, <3>1
  <2>. QED
    BY <2>1, <2>2
<1>. QED
  BY <1>2, <1>5, <1>6 DEF Q

-----------------------------------------------------------------------------
(* A block, as a part of the text.                                         *)

(* The masks of a block, as any kernel finds them: exact for quotes and    *)
(* backslashes, and for the rest but for what the tables misread.          *)
Reads(block, m) ==
    /\ m.backslash = {i \in Bits : block[i] = BACKSLASH}
    /\ m.quote = {i \in Bits : block[i] = QUOTE}
    /\ m.op \in SUBSET Bits /\ m.ws \in SUBSET Bits
    /\ \A i \in Bits : ~ Misread(block[i]) =>
           /\ i \in m.op <=> block[i] \in Ops
           /\ i \in m.ws <=> block[i] \in Spaces

(* Where the tables do not misread, they agree with the sets of bytes.     *)
LEMMA NotMisread ==
    ASSUME NEW b, ~ Misread(b)
    PROVE  /\ b \in NibbleOps <=> b \in Ops
           /\ b \in NibbleSpaces <=> b \in Spaces
<1>1. (b \in NibbleOps) = (b \in Ops) /\ (b \in NibbleSpaces) = (b \in Spaces)
  BY Zenon DEF Misread
<1>. QED
  BY <1>1, Zenon

(* All four kernels read a block (stage1.rs 181-225, 386-447, 484-559).    *)
LEMMA KernelsRead ==
    ASSUME NEW block
    PROVE  /\ \A isa : Reads(block, Classify(isa, block))
           /\ Reads(block, Avx2Masks(block))
           /\ Reads(block, ScalarMasks(block))
<1>1. \A x : Where(block, {x}) = {i \in Bits : block[i] = x}
  BY DEF Where
<1>2. \A A : Where(block, A) \in SUBSET Bits /\ \A i \in Bits : i \in Where(block, A) <=> block[i] \in A
  BY DEF Where
<1>3. \A i \in Bits : ~ Misread(block[i]) =>
          /\ i \in Where(block, NibbleOps) <=> block[i] \in Ops
          /\ i \in Where(block, NibbleSpaces) <=> block[i] \in Spaces
  BY <1>2, NotMisread, Zenon
<1>4. Reads(block, NeonMasks(block))
  BY <1>1, <1>2, <1>3 DEF Reads, NeonMasks
<1>5. Reads(block, Sse2Masks(block))
  BY <1>1, <1>2 DEF Reads, Sse2Masks
<1>6. Reads(block, Avx2Masks(block))
  BY <1>1, <1>2, <1>3 DEF Reads, Avx2Masks
<1>7. Reads(block, ScalarMasks(block))
  BY <1>1, <1>2, <1>3 DEF Reads, ScalarMasks
<1>8. \A isa : Reads(block, Classify(isa, block))
  BY <1>4, <1>5, Zenon DEF Classify
<1>. QED
  BY <1>6, <1>7, <1>8

(* A quote is neither structural nor a space, to the tables as to the sets. *)
LEMMA QuoteIsScalar ==
    /\ ~ Misread(QUOTE)
    /\ QUOTE \notin Ops \cup Spaces
<1>1. 34 % 16 = 2 /\ 34 \div 16 = 2
  OBVIOUS
<1>2. LO_NIBBLE[2] = {}
  BY DEF LO_NIBBLE
<1>3. NibbleClass(34) = {}
  BY <1>1, <1>2 DEF NibbleClass
<1>4. 34 \notin NibbleOps /\ 34 \notin NibbleSpaces
  BY <1>3 DEF NibbleOps, NibbleSpaces
<1>5. 34 \notin Ops /\ 34 \notin Spaces
  BY DEF Ops, Openers, Closers, Spaces
<1>6. (34 \in NibbleOps) = (34 \in Ops) /\ (34 \in NibbleSpaces) = (34 \in Spaces)
  BY <1>4, <1>5
<1>. QED
  BY <1>5, <1>6, Zenon DEF Misread, QUOTE

(* What the text says of the places of the block, and of the first one     *)
(* behind it.                                                              *)
EscapedHere == {k \in 0..Width : base + k <= Len(text) /\ Escaped(base + k)}
QuotedHere  == {k \in 0..Width : WithinString(base + k)}
QuotesHere  == {k \in Bits : base + k \in RealQuotes}

(* The bytes of a block are those of the text, and zeros.                  *)
LEMMA BlockByte ==
    ASSUME text \in Seq(0..255), base \in Nat, NEW i \in Bits
    PROVE  /\ base + i < Len(text) => /\ BlockAt(base)[i] = text[base + i + 1]
                                      /\ base + i \in Offsets
           /\ ~ (base + i < Len(text)) => BlockAt(base)[i] = 0
<1>1. BlockAt(base)[i] = IF base + i < Len(text) THEN text[base + i + 1] ELSE 0
  BY DEF BlockAt
<1>2. i \in Nat /\ Len(text) \in Nat
  BY WidthFacts
<1>3. base + i < Len(text) => base + i \in Offsets
  BY <1>2 DEF Offsets
<1>. QED
  BY <1>1, <1>3

(* They are what find_escaped and prefix_xor go by.                        *)
LEMMA HereIsText ==
    ASSUME text \in Seq(0..255), base \in 0..Len(text), NEW c,
           c.in_string <=> WithinString(base), c.escaped <=> Escaped(base),
           NEW m, m.backslash = {i \in Bits : BlockAt(base)[i] = BACKSLASH},
           m.quote = {i \in Bits : BlockAt(base)[i] = QUOTE}
    PROVE  /\ Escapes(EscapedHere, c, m.backslash)
           /\ m.quote \ EscapedHere = QuotesHere
           /\ Strings(QuotedHere, c, m.quote \ EscapedHere)
<1>. DEFINE block == BlockAt(base)
<1>0. /\ base \in Nat /\ Len(text) \in Nat /\ base <= Len(text) /\ Width \in Nat
      /\ base + 0 = base /\ 0 \in 0..Width
  BY WidthFacts
<1>1. ASSUME NEW k \in Bits
      PROVE  /\ k \in Nat /\ k \in 0..Width /\ k + 1 \in 0..Width
             /\ base + k \in Nat /\ base + (k + 1) = (base + k) + 1
  BY <1>0, WidthFacts DEF Bits
<1>2. ASSUME NEW k \in Bits
      PROVE  /\ base + k < Len(text) => /\ block[k] = text[base + k + 1]
                                        /\ base + k \in Offsets
             /\ ~ (base + k < Len(text)) => block[k] = 0
  BY <1>0, BlockByte
<1>3. /\ \A k \in Bits : k \in m.backslash <=> block[k] = BACKSLASH
      /\ \A k \in Bits : k \in m.quote <=> block[k] = QUOTE
      /\ m.quote \subseteq Bits
  OBVIOUS
<1>. HIDE DEF block
<1>4. BACKSLASH # 0 /\ QUOTE # 0
  BY DEF BACKSLASH, QUOTE
<1>5. ASSUME NEW k \in Bits
      PROVE  k + 1 \in EscapedHere <=> k \in m.backslash /\ k \notin EscapedHere
  <2>1. Escaped((base + k) + 1) <=> text[(base + k) + 1] = BACKSLASH /\ ~ Escaped(base + k)
    BY <1>1, EscapedNext
  <2>2. k + 1 \in EscapedHere <=> (base + k) + 1 <= Len(text) /\ Escaped((base + k) + 1)
    BY <1>1 DEF EscapedHere
  <2>3. k \in EscapedHere <=> base + k <= Len(text) /\ Escaped(base + k)
    BY <1>1 DEF EscapedHere
  <2>4. CASE base + k < Len(text)
    <3>1. (base + k) + 1 <= Len(text) /\ base + k <= Len(text) /\ block[k] = text[(base + k) + 1]
      BY <1>0, <1>1, <1>2, <2>4
    <3>. QED
      BY <1>3, <2>1, <2>2, <2>3, <3>1
  <2>5. CASE ~ (base + k < Len(text))
    <3>1. ~ ((base + k) + 1 <= Len(text)) /\ block[k] = 0
      BY <1>0, <1>1, <1>2, <2>5
    <3>. QED
      BY <1>3, <1>4, <2>2, <3>1
  <2>. QED
    BY <2>4, <2>5
<1>6. 0 \in EscapedHere <=> c.escaped
  BY <1>0 DEF EscapedHere
<1>7. ASSUME NEW k \in Bits
      PROVE  k \in m.quote /\ k \notin EscapedHere <=> base + k \in RealQuotes
  <2>1. base + k \in RealQuotes <=>
            base + k \in Offsets /\ text[base + k + 1] = QUOTE /\ ~ Escaped(base + k)
    BY DEF RealQuotes
  <2>2. k \in EscapedHere <=> base + k <= Len(text) /\ Escaped(base + k)
    BY <1>1 DEF EscapedHere
  <2>3. CASE base + k < Len(text)
    <3>1. base + k <= Len(text) /\ block[k] = text[base + k + 1] /\ base + k \in Offsets
      BY <1>0, <1>1, <1>2, <2>3
    <3>. QED
      BY <1>3, <2>1, <2>2, <3>1
  <2>4. CASE ~ (base + k < Len(text))
    <3>1. base + k \notin Offsets /\ block[k] = 0
      BY <1>0, <1>1, <1>2, <2>4 DEF Offsets
    <3>. QED
      BY <1>3, <1>4, <2>1, <3>1
  <2>. QED
    BY <2>3, <2>4
<1>8. m.quote \ EscapedHere = QuotesHere
  BY <1>3, <1>7 DEF QuotesHere
<1>9. ASSUME NEW k \in Bits
      PROVE  k + 1 \in QuotedHere <=> ~ (k \in QuotedHere <=> k \in m.quote \ EscapedHere)
  <2>1. WithinString((base + k) + 1) <=> ~ (WithinString(base + k) <=> base + k \in RealQuotes)
    BY <1>1, WithinNext
  <2>2. /\ k + 1 \in QuotedHere <=> WithinString((base + k) + 1)
        /\ k \in QuotedHere <=> WithinString(base + k)
    BY <1>1 DEF QuotedHere
  <2>. QED
    BY <1>7, <2>1, <2>2
<1>10. 0 \in QuotedHere <=> c.in_string
  BY <1>0 DEF QuotedHere
<1>. QED
  BY <1>5, <1>6, <1>8, <1>9, <1>10 DEF Escapes, Strings

(* What a byte before `i` means for a token that starts there.             *)
ScalarBefore(i) == ScalarByte(i - 1) /\ i - 1 \notin RealQuotes

(* A place outside of strings is preceded by a quote that closes one or by *)
(* a byte outside of strings, which no table misreads in a benign text.    *)
LEMMA CutsScalar ==
    ASSUME text \in Seq(0..255), base \in Nat, Benign, NEW m, Reads(BlockAt(base), m),
           NEW k \in Bits, base + k < Len(text), ~ WithinString(base + k + 1)
    PROVE  k \notin m.op \cup m.ws \cup QuotesHere <=> ScalarBefore(base + k + 1)
<1>1. /\ base + k \in Nat /\ base + k \in Offsets /\ (base + k + 1) - 1 = base + k
      /\ BlockAt(base)[k] = text[base + k + 1]
  BY BlockByte, WidthFacts
<1>2. ScalarBefore(base + k + 1) <=> ScalarByte(base + k) /\ base + k \notin RealQuotes
  BY <1>1 DEF ScalarBefore
<1>3. k \in QuotesHere <=> base + k \in RealQuotes
  BY DEF QuotesHere
<1>4. CASE base + k \in RealQuotes
  BY <1>2, <1>3, <1>4
<1>5. CASE base + k \notin RealQuotes
  <2>1. ~ WithinString(base + k)
    BY <1>1, <1>5, WithinNext
  <2>2. ~ Misread(text[base + k + 1])
    BY <1>1, <2>1 DEF Benign
  <2>3. /\ k \in m.op <=> text[base + k + 1] \in Ops
        /\ k \in m.ws <=> text[base + k + 1] \in Spaces
    BY <1>1, <2>2 DEF Reads
  <2>4. ScalarByte(base + k) <=> text[base + k + 1] \notin Ops \cup Spaces
    BY DEF ScalarByte
  <2>. QED
    BY <1>2, <1>3, <1>5, <2>3, <2>4
<1>. QED
  BY <1>4, <1>5

(* block_structurals marks the token starts of a benign text, and hands on *)
(* what the text says at the next block's first place.                     *)
LEMMA BlockReads ==
    ASSUME text \in Seq(0..255), base \in 0..Len(text), NEW c \in Carries,
           c.in_string <=> WithinString(base), c.escaped <=> Escaped(base),
           NEW m, Reads(BlockAt(base), m)
    PROVE  LET next == BlockStructurals(c, m)
           IN  /\ next.bits \in SUBSET Bits
               /\ next.carries \in Carries
               /\ base + Width <= Len(text) =>
                     /\ next.carries.in_string <=> WithinString(base + Width)
                     /\ next.carries.escaped <=> Escaped(base + Width)
                     /\ Benign /\ ~ WithinString(base + Width) =>
                           (next.carries.scalar <=> ScalarBefore(base + Width))
               /\ Benign /\ (~ WithinString(base) => (c.scalar <=> base > 0 /\ ScalarBefore(base)))
                     => \A i \in Bits : base + i < Len(text) =>
                           (i \in next.bits <=> StartsToken(base + i))
<1>. DEFINE next == BlockStructurals(c, m)
            cut(i) == i \notin m.op \cup m.ws \cup (m.quote \ EscapedHere)
<1>0. base \in Nat /\ Len(text) \in Nat /\ Width \in Nat \ {0}
  BY WidthFacts
<1>1. /\ Escapes(EscapedHere, c, m.backslash)
      /\ m.quote \ EscapedHere = QuotesHere
      /\ Strings(QuotedHere, c, m.quote \ EscapedHere)
  BY HereIsText DEF Reads
<1>2. /\ m.backslash \in SUBSET Bits /\ m.quote \in SUBSET Bits
      /\ m.op \in SUBSET Bits /\ m.ws \in SUBSET Bits
  BY DEF Reads
<1>3. /\ \A i \in Bits : i \in next.bits <=>
            /\ i \notin QuotedHere
            /\ \/ i \in m.op
               \/ /\ i \notin m.op \cup m.ws
                  /\ ~ (i = 0 /\ c.scalar)
                  /\ ~ (i # 0 /\ cut(i - 1))
      /\ next.bits \in SUBSET Bits
      /\ next.carries \in Carries
      /\ next.carries.in_string <=> Width \in QuotedHere
      /\ next.carries.escaped <=> Width \in EscapedHere
      /\ next.carries.scalar <=> cut(Width - 1)
  BY <1>1, <1>2, BlockIs
<1>. HIDE DEF next
<1>4. ASSUME base + Width <= Len(text)
      PROVE  /\ next.carries.in_string <=> WithinString(base + Width)
             /\ next.carries.escaped <=> Escaped(base + Width)
             /\ Benign /\ ~ WithinString(base + Width) =>
                   (next.carries.scalar <=> ScalarBefore(base + Width))
  <2>1. /\ Width \in QuotedHere <=> WithinString(base + Width)
        /\ Width \in EscapedHere <=> Escaped(base + Width)
    BY <1>0, <1>4 DEF QuotedHere, EscapedHere
  <2>2. ASSUME Benign, ~ WithinString(base + Width)
        PROVE  next.carries.scalar <=> ScalarBefore(base + Width)
    <3>. DEFINE k == Width - 1
    <3>1. k \in Bits /\ base + k < Len(text) /\ base + k + 1 = base + Width
      BY <1>0, <1>4 DEF Bits
    <3>. HIDE DEF k
    <3>2. k \notin m.op \cup m.ws \cup QuotesHere <=> ScalarBefore(base + k + 1)
      BY <1>0, <2>2, <3>1, CutsScalar
    <3>3. next.carries.scalar <=> cut(k)
      BY <1>3 DEF k
    <3>. QED
      BY <1>1, <3>1, <3>2, <3>3
  <2>. QED
    BY <1>3, <2>1, <2>2
<1>5. ASSUME Benign, ~ WithinString(base) => (c.scalar <=> base > 0 /\ ScalarBefore(base)),
             NEW i \in Bits, base + i < Len(text)
      PROVE  i \in next.bits <=> StartsToken(base + i)
  <2>1. /\ i \in Nat /\ i \in 0..Width /\ base + i \in Nat /\ base + i \in Offsets
        /\ BlockAt(base)[i] = text[base + i + 1]
    BY <1>0, <1>5, WidthFacts, BlockByte DEF Bits
  <2>2. i \in QuotedHere <=> WithinString(base + i)
    BY <2>1 DEF QuotedHere
  <2>3. StartsToken(base + i) <=>
            /\ ~ WithinString(base + i)
            /\ \/ text[base + i + 1] \in Ops
               \/ ScalarByte(base + i) /\ ~ (base + i > 0 /\ ScalarBefore(base + i))
    BY DEF StartsToken, ScalarBefore
  <2>4. CASE WithinString(base + i)
    BY <1>3, <2>2, <2>3, <2>4
  <2>5. CASE ~ WithinString(base + i)
    <3>1. ~ Misread(text[base + i + 1])
      BY <1>5, <2>1, <2>5 DEF Benign
    <3>2. /\ i \in m.op <=> text[base + i + 1] \in Ops
          /\ i \in m.ws <=> text[base + i + 1] \in Spaces
      BY <2>1, <3>1 DEF Reads
    <3>3. ScalarByte(base + i) <=> text[base + i + 1] \notin Ops \cup Spaces
      BY DEF ScalarByte
    <3>4. (i = 0 /\ c.scalar) \/ (i # 0 /\ cut(i - 1)) <=> base + i > 0 /\ ScalarBefore(base + i)
      <4>1. CASE i = 0
        <5>1. base + i = base
          BY <1>0, <4>1
        <5>. QED
          BY <1>5, <2>5, <4>1, <5>1
      <4>2. CASE i # 0
        <5>. DEFINE k == i - 1
        <5>1. k \in Bits /\ base + k < Len(text) /\ base + k + 1 = base + i /\ base + i > 0
          BY <1>0, <1>5, <2>1, <4>2 DEF Bits
        <5>. HIDE DEF k
        <5>2. k \notin m.op \cup m.ws \cup QuotesHere <=> ScalarBefore(base + k + 1)
          BY <1>0, <1>5, <2>5, <5>1, CutsScalar
        <5>3. cut(i - 1) <=> ScalarBefore(base + i)
          BY <1>1, <5>1, <5>2 DEF k
        <5>. QED
          BY <4>2, <5>1, <5>3
      <4>. QED
        BY <4>1, <4>2
    <3>. HIDE DEF cut
    <3>. QED
      BY <1>3, <2>2, <2>3, <2>5, <3>2, <3>3, <3>4
  <2>. QED
    BY <2>4, <2>5
<1>. QED
  BY <1>3, <1>4, <1>5 DEF next

-----------------------------------------------------------------------------
(* The entries, as the tokens of the text.                                 *)

(* The positions of a mask are those BitAt finds.                          *)
LEMMA RankFound ==
    ASSUME NEW m \in Nat, NEW bits \in SUBSET (0..(m - 1)), NEW i \in bits
    PROVE  \E k \in 1..Cardinality(bits) : BitAt(bits, k) = i
<1>. DEFINE lower == {h \in bits : h < i}
            k == Cardinality(lower) + 1
<1>1. IsFiniteSet(bits) /\ Cardinality(bits) \in Nat
  BY MaskSize
<1>2. lower \subseteq bits /\ i \notin lower
  OBVIOUS
<1>3. /\ IsFiniteSet(lower) /\ Cardinality(lower) \in Nat
      /\ Cardinality(lower) <= Cardinality(bits) /\ Cardinality(lower) # Cardinality(bits)
  <2>. HIDE DEF lower
  <2>. QED
    BY <1>1, <1>2, FS_Subset, FS_CardinalityType
<1>4. Below(bits, i) = Cardinality(lower)
  BY DEF Below
<1>. HIDE DEF lower
<1>5. k \in 1..Cardinality(bits) /\ k - 1 = Cardinality(lower)
  BY <1>1, <1>3
<1>. HIDE DEF k
<1>6. BitAt(bits, k) \in bits /\ Below(bits, BitAt(bits, k)) = k - 1
  BY <1>5, RankTaken
<1>7. ~ (BitAt(bits, k) < i) /\ ~ (i < BitAt(bits, k))
  <2>1. BitAt(bits, k) < i => Below(bits, BitAt(bits, k)) < Below(bits, i)
    BY <1>6, BelowGrows
  <2>2. i < BitAt(bits, k) => Below(bits, i) < Below(bits, BitAt(bits, k))
    BY <1>6, BelowGrows
  <2>. QED
    BY <1>3, <1>4, <1>5, <1>6, <2>1, <2>2
<1>8. BitAt(bits, k) \in Int /\ i \in Int
  <2>1. \A h \in bits : h \in Int
    OBVIOUS
  <2>. QED
    BY <1>6, <2>1, Zenon
<1>. QED
  BY <1>5, <1>7, <1>8

EntryOffsets == {out[k].offset : k \in DOMAIN out}
EntryBytes == target.packed => \A k \in DOMAIN out : out[k].byte = text[out[k].offset + 1]

(* What flatten_bits adds: the place of each bit, and with a packed entry  *)
(* the byte there.                                                         *)
LEMMA FlattenAdds ==
    ASSUME IndexInv, pc = "index", NEW n \in Nat, base + n <= Len(text),
           NEW bits \in SUBSET (0..(n - 1)), bits \subseteq Bits,
           Flatten(bits, BlockAt(base)), UNCHANGED <<text, target>>
    PROVE  /\ EntryOffsets' = EntryOffsets \cup {base + i : i \in bits}
           /\ EntryBytes => EntryBytes'
<1>. DEFINE count == Cardinality(bits)
            block == BlockAt(base)
            new(k) == out'[Len(out) + k]
<1>1. base \in Nat /\ Len(text) \in Nat /\ text \in Seq(0..255) /\ out \in Seq(Entries)
  BY DEF IndexInv
<1>2. count \in Nat /\ Len(out) \in Nat
  BY <1>1, MaskSize
<1>3. block \in [Bits -> 0..255]
  BY <1>1, BlockBytes
<1>4. /\ \A k \in 1..count : BitAt(bits, k) \in bits
      /\ out' \in Seq(Entries) /\ Len(out') = Len(out) + count
      /\ \A k \in 1..Len(out) : out'[k] = out[k]
      /\ \A k \in 1..count : /\ new(k) = Entry(block, BitAt(bits, k))
                             /\ Entry(block, BitAt(bits, k)).offset = base + BitAt(bits, k)
  BY <1>3, FlattenStores
<1>5. DOMAIN out = 1..Len(out) /\ DOMAIN out' = 1..(Len(out) + count)
  BY <1>1, <1>4
<1>. HIDE DEF count, block
<1>6. \A k \in 1..(Len(out) + count) :
          k \in 1..Len(out) \/ \E h \in 1..count : k = Len(out) + h
  <2>. SUFFICES ASSUME NEW k \in 1..(Len(out) + count), k \notin 1..Len(out)
                PROVE  \E h \in 1..count : k = Len(out) + h
    OBVIOUS
  <2>1. k - Len(out) \in 1..count /\ k = Len(out) + (k - Len(out))
    BY <1>2
  <2>. QED
    BY <2>1
<1>7. \A k \in 1..Len(out) : k \in 1..(Len(out) + count)
  BY <1>2
<1>8. \A h \in 1..count : Len(out) + h \in 1..(Len(out) + count)
  BY <1>2
<1>9. \A h \in 1..count : new(h).offset = base + BitAt(bits, h)
  BY <1>4
<1>10. ASSUME NEW x PROVE x \in EntryOffsets' <=> x \in EntryOffsets \cup {base + i : i \in bits}
  <2>1. x \in EntryOffsets' <=> \E k \in 1..(Len(out) + count) : x = out'[k].offset
    BY <1>5 DEF EntryOffsets
  <2>2. x \in EntryOffsets <=> \E k \in 1..Len(out) : x = out[k].offset
    BY <1>5 DEF EntryOffsets
  <2>3. ASSUME NEW k \in 1..(Len(out) + count), x = out'[k].offset
        PROVE  x \in EntryOffsets \cup {base + i : i \in bits}
    <3>1. CASE k \in 1..Len(out)
      BY <1>4, <2>2, <2>3, <3>1
    <3>2. CASE \E h \in 1..count : k = Len(out) + h
      <4>1. PICK h \in 1..count : k = Len(out) + h
        BY <3>2
      <4>2. x = base + BitAt(bits, h) /\ BitAt(bits, h) \in bits
        BY <1>4, <1>9, <2>3, <4>1
      <4>. QED
        BY <4>2
    <3>. QED
      BY <1>6, <3>1, <3>2
  <2>4. ASSUME NEW k \in 1..Len(out), x = out[k].offset PROVE x \in EntryOffsets'
    BY <1>4, <1>7, <2>1, <2>4
  <2>5. ASSUME NEW i \in bits, x = base + i PROVE x \in EntryOffsets'
    <3>1. PICK h \in 1..count : BitAt(bits, h) = i
      BY RankFound DEF count
    <3>2. x = out'[Len(out) + h].offset
      BY <1>9, <2>5, <3>1
    <3>. QED
      BY <1>8, <2>1, <3>2
  <2>. QED
    BY <2>1, <2>2, <2>3, <2>4, <2>5
<1>11. ASSUME EntryBytes, target.packed, NEW k \in DOMAIN out'
       PROVE  out'[k].byte = text[out'[k].offset + 1]
  <2>1. CASE k \in 1..Len(out)
    BY <1>4, <1>5, <1>11, <2>1 DEF EntryBytes
  <2>2. CASE \E h \in 1..count : k = Len(out) + h
    <3>1. PICK h \in 1..count : k = Len(out) + h
      BY <2>2
    <3>. DEFINE i == BitAt(bits, h)
    <3>2. i \in bits /\ i \in Bits /\ i \in 0..(n - 1)
      BY <1>4
    <3>3. out'[k] = Entry(block, i) /\ out'[k].offset = base + i
      BY <1>4, <1>9, <3>1
    <3>. HIDE DEF i
    <3>4. base + i < Len(text)
      BY <1>1, <3>2
    <3>5. block[i] = text[base + i + 1]
      BY <1>1, <3>2, <3>4, BlockByte DEF block
    <3>6. Entry(block, i).byte = block[i]
      BY <1>11 DEF Entry
    <3>. QED
      BY <3>3, <3>5, <3>6
  <2>. QED
    BY <1>5, <1>6, <2>1, <2>2
<1>12. EntryBytes => EntryBytes'
  <2>. SUFFICES ASSUME EntryBytes, target'.packed
                PROVE  \A k \in DOMAIN out' : out'[k].byte = text'[out'[k].offset + 1]
    BY DEF EntryBytes
  <2>1. target.packed
    OBVIOUS
  <2>. QED
    BY <1>11, <2>1
<1>. QED
  BY <1>10, <1>12

(* What is said of a text is said of it as long as it is the same.         *)
LEMMA SameText ==
    ASSUME text' = text
    PROVE  /\ Benign' <=> Benign
           /\ RealQuotes' = RealQuotes /\ Offsets' = Offsets
           /\ \A i : Escaped(i)' <=> Escaped(i)
           /\ \A i : WithinString(i)' <=> WithinString(i)
           /\ \A i : ScalarBefore(i)' <=> ScalarBefore(i)
           /\ \A i : StartsToken(i)' <=> StartsToken(i)
<1>1. Offsets' = Offsets
  BY DEF Offsets
<1>2. \A i : Escaped(i)' <=> Escaped(i)
  BY DEF Escaped
<1>3. RealQuotes' = RealQuotes
  BY <1>1, <1>2 DEF RealQuotes
<1>4. \A i : WithinString(i)' <=> WithinString(i)
  BY <1>3 DEF WithinString
<1>5. \A i : ScalarByte(i)' <=> ScalarByte(i)
  BY DEF ScalarByte
<1>6. \A i : ScalarBefore(i)' <=> ScalarBefore(i)
  BY <1>3, <1>5 DEF ScalarBefore
<1>7. \A i : StartsToken(i)' <=> StartsToken(i)
  BY <1>3, <1>4, <1>5 DEF StartsToken
<1>8. Benign' <=> Benign
  BY <1>1, <1>4 DEF Benign
<1>. QED
  BY <1>1, <1>2, <1>3, <1>4, <1>6, <1>7, <1>8

-----------------------------------------------------------------------------

(* Multiples of w, and what lies between them.                             *)
LEMMA NextMultiple ==
    ASSUME NEW w \in Nat \ {0}, NEW a \in Nat, a % w = 0
    PROVE  /\ (a + w) % w = 0
           /\ \A n \in 1..(w - 1) : (a + n) % w = n
<1>. DEFINE q == a \div w
<1>1. q \in Nat /\ a = w * q
  OBVIOUS
<1>. HIDE DEF q
<1>2. ASSUME NEW b \in Nat, NEW d \in Nat, NEW r \in 0..(w - 1), b = w * d + r
      PROVE  b % w = r
  BY <1>2
<1>3. a + w = w * (q + 1) + 0 /\ a + w \in Nat /\ q + 1 \in Nat /\ 0 \in 0..(w - 1)
  BY <1>1
<1>4. (a + w) % w = 0
  <2>. HIDE <1>1
  <2>. QED
    BY <1>2, <1>3
<1>5. ASSUME NEW n \in 1..(w - 1) PROVE (a + n) % w = n
  <2>1. a + n = w * q + n /\ a + n \in Nat /\ n \in 0..(w - 1)
    BY <1>1
  <2>. QED
    BY <1>1, <1>2, <2>1
<1>. QED
  BY <1>4, <1>5

(* The inductive invariant: the carries say of the text what a scan from   *)
(* its start would at `base`, and the entries are the token starts before. *)
CarriedText ==
    /\ carries.in_string <=> WithinString(base)
    /\ carries.escaped <=> Escaped(base)
    /\ Benign /\ ~ WithinString(base) =>
           (carries.scalar <=> base > 0 /\ ScalarBefore(base))
TokenOffsets == {i \in Offsets : i < base /\ StartsToken(i)}

TokensInv ==
    /\ pc = "index" => /\ carries \in Carries
                       /\ base % Width = 0 \/ base = Len(text)
                       /\ base % Width = 0 => CarriedText
    /\ pc \in {"index", "indexed"} => EntryBytes
    /\ pc \in {"index", "indexed"} /\ Benign => EntryOffsets = TokenOffsets

(* The bytes between base and base + n are indexed in one step.            *)
LEMMA StretchIndexed ==
    ASSUME IndexInv, TokensInv, pc = "index", base % Width = 0,
           NEW n \in 1..Width, base + n <= Len(text),
           NEW m, Reads(BlockAt(base), m),
           Flatten(BlockStructurals(carries, m).bits \cap 0..(n - 1), BlockAt(base)),
           base' = base + n, UNCHANGED <<text, target, pc>>
    PROVE  EntryBytes' /\ (Benign' => EntryOffsets' = TokenOffsets')
<1>. DEFINE all == BlockStructurals(carries, m).bits
            bits == all \cap 0..(n - 1)
<1>0. /\ base \in Nat /\ base \in 0..Len(text) /\ Len(text) \in Nat /\ text \in Seq(0..255)
      /\ n \in Nat /\ Width \in Nat
  BY WidthFacts DEF IndexInv
<1>1. carries \in Carries /\ CarriedText
  BY DEF TokensInv
<1>2. /\ all \in SUBSET Bits
      /\ Benign => \A i \in Bits : base + i < Len(text) => (i \in all <=> StartsToken(base + i))
  BY <1>0, <1>1, BlockReads DEF CarriedText
<1>. HIDE DEF all
<1>3. bits \in SUBSET (0..(n - 1)) /\ bits \subseteq Bits
  BY <1>2
<1>4. Flatten(bits, BlockAt(base))
  BY DEF all
<1>. HIDE DEF bits
<1>5. /\ EntryOffsets' = EntryOffsets \cup {base + i : i \in bits}
      /\ EntryBytes => EntryBytes'
  BY <1>0, <1>3, <1>4, FlattenAdds
<1>6. ASSUME Benign' PROVE EntryOffsets' = TokenOffsets'
  <2>1. Benign /\ EntryOffsets = TokenOffsets
    BY <1>6, SameText DEF TokensInv
  <2>2. \A i \in Bits : base + i < Len(text) => (i \in all <=> StartsToken(base + i))
    BY <1>2, <2>1
  <2>3. TokenOffsets' = {i \in Offsets : i < base + n /\ StartsToken(i)}
    BY SameText DEF TokenOffsets
  <2>4. ASSUME NEW i \in bits PROVE base + i \in TokenOffsets'
    <3>1. i \in 0..(n - 1) /\ i \in Bits /\ i \in all
      BY <1>3 DEF bits
    <3>2. base + i < Len(text) /\ base + i < base + n /\ base + i \in Offsets
      BY <1>0, <3>1 DEF Offsets
    <3>. QED
      BY <2>2, <2>3, <3>1, <3>2
  <2>5. ASSUME NEW j \in TokenOffsets PROVE j \in TokenOffsets'
    <3>1. j \in Offsets /\ j < base /\ StartsToken(j)
      BY DEF TokenOffsets
    <3>2. j < base + n
      BY <1>0, <3>1 DEF Offsets
    <3>. QED
      BY <2>3, <3>1, <3>2
  <2>6. ASSUME NEW j \in TokenOffsets', j \notin TokenOffsets
        PROVE  j \in {base + i : i \in bits}
    <3>1. j \in Offsets /\ j < base + n /\ StartsToken(j) /\ ~ (j < base)
      BY <2>3, <2>6 DEF TokenOffsets
    <3>2. j \in 0..(Len(text) - 1)
      BY <3>1 DEF Offsets
    <3>. DEFINE i == j - base
    <3>3. base + i = j /\ i \in 0..(n - 1) /\ i \in Bits /\ base + i < Len(text)
      BY <1>0, <3>1, <3>2 DEF Bits
    <3>. HIDE DEF i
    <3>4. i \in bits
      BY <2>2, <3>1, <3>3 DEF bits
    <3>. QED
      BY <3>3, <3>4
  <2>. QED
    BY <1>5, <2>1, <2>4, <2>5, <2>6
<1>7. EntryBytes'
  BY <1>5 DEF TokensInv
<1>. QED
  BY <1>6, <1>7

(* A full block.                                                           *)
LEMMA BlockIndexed ==
    ASSUME IndexInv, TokensInv, NEW m, Reads(BlockAt(base), m), IndexBlock(m)
    PROVE  TokensInv'
<1>. DEFINE found == BlockStructurals(carries, m)
<1>1. /\ pc = "index" /\ base + Width <= Len(text) /\ base' = base + Width
      /\ carries' = found.carries /\ Flatten(found.bits, BlockAt(base))
      /\ UNCHANGED <<text, target, pc>>
  BY DEF IndexBlock
<1>2. /\ base \in Nat /\ base \in 0..Len(text) /\ Len(text) \in Nat /\ text \in Seq(0..255)
      /\ Width \in Nat \ {0} /\ Width \in 1..Width
  BY <1>1, WidthFacts DEF IndexInv
<1>3. base % Width = 0 /\ carries \in Carries /\ CarriedText
  <2>1. base # Len(text)
    BY <1>1, <1>2
  <2>. QED
    BY <1>1, <2>1 DEF TokensInv
<1>4. /\ found.bits \in SUBSET Bits /\ found.carries \in Carries
      /\ found.carries.in_string <=> WithinString(base + Width)
      /\ found.carries.escaped <=> Escaped(base + Width)
      /\ Benign /\ ~ WithinString(base + Width) =>
            (found.carries.scalar <=> ScalarBefore(base + Width))
  BY <1>1, <1>2, <1>3, BlockReads DEF CarriedText
<1>5. (base + Width) % Width = 0 /\ base + Width > 0
  <2>1. (base + Width) % Width = 0
    <3>1. Width \in Nat \ {0} /\ base \in Nat /\ base % Width = 0
      BY <1>2, <1>3
    <3>. QED
      BY <3>1, NextMultiple, Zenon
  <2>. QED
    BY <1>2, <2>1
<1>6. found.bits \cap 0..(Width - 1) = found.bits
  <2>. HIDE DEF found
  <2>. QED
    BY <1>4 DEF Bits
<1>. HIDE DEF found
<1>7. EntryBytes' /\ (Benign' => EntryOffsets' = TokenOffsets')
  BY <1>1, <1>2, <1>3, <1>6, StretchIndexed DEF found
<1>8. CarriedText'
  BY <1>1, <1>4, <1>5, SameText DEF CarriedText
<1>9. carries' \in Carries /\ base' % Width = 0 /\ pc' = "index"
  BY <1>1, <1>4, <1>5
<1>10. (base % Width = 0)'
  BY <1>9 DEF Width
<1>. QED
  BY <1>7, <1>8, <1>9, <1>10 DEF TokensInv, Carries

(* The rest of the text.                                                   *)
LEMMA TailIndexed ==
    ASSUME IndexInv, TokensInv, NEW m, Reads(BlockAt(base), m), IndexTail(m)
    PROVE  TokensInv'
<1>. DEFINE found == BlockStructurals(carries, m)
            n == Len(text) - base
<1>1. /\ pc = "index" /\ base < Len(text) /\ Len(text) < base + Width /\ base' = Len(text)
      /\ carries' = found.carries
      /\ Flatten(found.bits \cap 0..(n - 1), BlockAt(base))
      /\ UNCHANGED <<text, target, pc>>
  BY DEF IndexTail
<1>2. /\ base \in Nat /\ base \in 0..Len(text) /\ Len(text) \in Nat /\ text \in Seq(0..255)
      /\ Width \in Nat \ {0}
  BY <1>1, WidthFacts DEF IndexInv
<1>3. n \in 1..Width /\ n \in 1..(Width - 1) /\ base + n = Len(text)
  BY <1>1, <1>2
<1>4. base % Width = 0 /\ carries \in Carries /\ CarriedText
  <2>1. base # Len(text)
    BY <1>1, <1>2
  <2>. QED
    BY <1>1, <2>1 DEF TokensInv
<1>5. found.carries \in Carries
  BY <1>2, <1>4, BlockReads DEF CarriedText
<1>. HIDE DEF found, n
<1>6. EntryBytes' /\ (Benign' => EntryOffsets' = TokenOffsets')
  <2>1. base' = base + n /\ base + n <= Len(text)
    BY <1>1, <1>2, <1>3
  <2>. QED
    BY <1>1, <1>3, <1>4, <2>1, StretchIndexed DEF found
<1>7. Len(text) % Width = n /\ n # 0
  <2>1. (base + n) % Width = n
    <3>1. Width \in Nat \ {0} /\ base \in Nat /\ base % Width = 0 /\ n \in 1..(Width - 1)
      BY <1>2, <1>3, <1>4
    <3>. QED
      BY <3>1, NextMultiple, Zenon
  <2>2. n # 0
    BY <1>3
  <2>. QED
    BY <1>3, <2>1, <2>2, Zenon
<1>8. carries' \in Carries /\ base' = Len(text') /\ pc' = "index" /\ base' % Width # 0
  BY <1>1, <1>5, <1>7
<1>9. (base % Width # 0)'
  BY <1>8 DEF Width
<1>. QED
  BY <1>6, <1>8, <1>9 DEF TokensInv, Carries

(* TokensInv is inductive, given IndexInv.                                 *)
LEMMA TokensInit == Init => TokensInv
  BY DEF Init, TokensInv

(* One case per action.                                                    *)
LEMMA TokensNext == IndexInv /\ TokensInv /\ [Next]_vars => TokensInv'
<1>. SUFFICES ASSUME IndexInv, TokensInv, [Next]_vars PROVE TokensInv'
  OBVIOUS
<1>1. CASE Start
  <2>1. text' \in Seq(0..255) /\ out' = <<>> /\ base' = 0 /\ carries' = NoCarries /\ pc' = "index"
    BY <1>1, TextsAssumption DEF Start
  <2>2. 0 % Width = 0
    BY WidthFacts
  <2>3. /\ ~ Escaped(0) /\ (~ Escaped(0))'
        /\ (~ WithinString(0))'
    <3>1. (text \in Seq(0..255) => ~ WithinString(0))'
      BY WithinNext, PTL
    <3>2. (~ Escaped(0))'
      BY EscapedNext, PTL
    <3>. QED
      BY <2>1, <3>1, <3>2, EscapedNext
  <2>4. carries' \in Carries /\ CarriedText'
    <3>1. /\ carries'.in_string = FALSE /\ carries'.escaped = FALSE
          /\ carries'.scalar = FALSE /\ carries' \in Carries
      BY <2>1 DEF NoCarries, Carries
    <3>2. ~ (0 > 0)
      OBVIOUS
    <3>. QED
      BY <2>1, <2>3, <3>1, <3>2 DEF CarriedText
  <2>5. EntryOffsets' = {} /\ TokenOffsets' = {} /\ EntryBytes'
    <3>1. DOMAIN out' = {}
      BY <2>1
    <3>2. TokenOffsets' = {}
      <4>1. \A i \in Offsets' : ~ (i < 0)
        BY DEF Offsets
      <4>. QED
        BY <2>1, <4>1 DEF TokenOffsets
    <3>. QED
      BY <3>1, <3>2 DEF EntryOffsets, EntryBytes
  <2>6. base' % Width' = 0
    BY <2>1, <2>2 DEF Width
  <2>. QED
    BY <2>1, <2>4, <2>5, <2>6 DEF TokensInv, Carries
<1>2. CASE Refuse
  BY <1>2 DEF Refuse, TokensInv
<1>3. CASE DriverBlock
  BY <1>3, BlockIndexed, KernelsRead DEF DriverBlock
<1>4. CASE DriverTail
  BY <1>4, TailIndexed, KernelsRead DEF DriverTail
<1>5. CASE Avx2Block
  BY <1>5, BlockIndexed, KernelsRead DEF Avx2Block
<1>6. CASE Avx2Tail
  BY <1>6, TailIndexed, KernelsRead DEF Avx2Tail
<1>7. CASE ScalarBlock
  BY <1>7, BlockIndexed, KernelsRead DEF ScalarBlock
<1>8. CASE ScalarTail
  BY <1>8, TailIndexed, KernelsRead DEF ScalarTail
<1>9. CASE Indexed
  <2>1. UNCHANGED <<text, target, base, out>> /\ pc = "index" /\ pc' = "indexed"
    BY <1>9 DEF Indexed, indexVars
  <2>2. EntryBytes' = EntryBytes /\ EntryOffsets' = EntryOffsets
    BY <2>1 DEF EntryBytes, EntryOffsets
  <2>3. TokenOffsets' = TokenOffsets /\ (Benign' <=> Benign)
    BY <2>1, SameText DEF TokenOffsets
  <2>. QED
    BY <2>1, <2>2, <2>3 DEF TokensInv
<1>10. CASE BeginSkip
  BY <1>10 DEF BeginSkip, TokensInv
<1>11. CASE SkipBlock
  BY <1>11 DEF SkipBlock, SkipEnds, TokensInv
<1>12. CASE ScalarSkipByte
  BY <1>12 DEF ScalarSkipByte, SkipEnds, TokensInv
<1>13. CASE ScalarSkipQuoted
  BY <1>13 DEF ScalarSkipQuoted, TokensInv
<1>14. CASE SkipRunsOut
  BY <1>14 DEF SkipRunsOut, SkipEnds, TokensInv
<1>15. CASE Finish
  BY <1>15 DEF Finish, TokensInv
<1>16. CASE UNCHANGED vars
  <2>1. UNCHANGED <<text, target, base, out, carries, pc>>
    BY <1>16 DEF vars
  <2>2. EntryBytes' = EntryBytes /\ EntryOffsets' = EntryOffsets
    BY <2>1 DEF EntryBytes, EntryOffsets
  <2>3. TokenOffsets' = TokenOffsets /\ (Benign' <=> Benign)
    BY <2>1, SameText DEF TokenOffsets
  <2>4. CarriedText' <=> CarriedText
    BY <2>1, SameText DEF CarriedText
  <2>. QED
    BY <2>1, <2>2, <2>3, <2>4 DEF TokensInv, Width
<1>. QED
  BY <1>1, <1>2, <1>3, <1>4, <1>5, <1>6, <1>7, <1>8, <1>9, <1>10, <1>11, <1>12,
     <1>13, <1>14, <1>15, <1>16 DEF Next

(* Both invariants, together.                                              *)
LEMMA TokensInvariance == Spec => [](IndexInv /\ TokensInv)
  BY IndexInit, IndexNext, TokensInit, TokensNext, PTL DEF Spec

(* Every token start of a text in which no table misreads a byte outside a *)
(* string is in the index, once and in order, and nothing else: for every  *)
(* text, kernel, encoding and width of a block (stage1.rs 62-79, 646-679). *)
THEOREM TokenStartsIndexed == Spec => []IndexesTokenStarts
<1>1. IndexInv /\ TokensInv => IndexesTokenStarts
  BY DEF IndexInv, TokensInv, IndexesTokenStarts, Indexing, EntryOffsets, TokenOffsets, EntryBytes
<1>. QED
  BY <1>1, TokensInvariance, PTL

(* Between two blocks the carried words say of the text what a scan from   *)
(* its start would (stage1.rs 20-28, 46-79).                               *)
THEOREM CarriesAreTheText == Spec => []CarriesMatchText
<1>1. ASSUME IndexInv, TokensInv, pc = "index", Benign, base % Width = 0, base > 0
      PROVE  /\ carries.in_string = (Cardinality(RealQuotes \cap 0..(base - 1)) % 2 = 1)
             /\ carries.escaped = Escaped(base)
             /\ ~ carries.in_string =>
                    carries.scalar = (ScalarByte(base - 1) /\ base - 1 \notin RealQuotes)
  <2>1. carries \in Carries /\ CarriedText /\ base \in Nat /\ text \in Seq(0..255)
    BY <1>1 DEF TokensInv, IndexInv
  <2>2. RealQuotes \cap 0..(base - 1) = {q \in RealQuotes : q < base}
    <3>1. RealQuotes \subseteq Nat
      BY <2>1, WithinNext
    <3>2. \A q \in RealQuotes : q \in 0..(base - 1) <=> q < base
      BY <2>1, <3>1
    <3>. QED
      BY <3>2, Zenon
  <2>3. WithinString(base) <=> Cardinality(RealQuotes \cap 0..(base - 1)) % 2 = 1
    BY <2>2 DEF WithinString
  <2>4. carries.in_string \in BOOLEAN /\ carries.escaped \in BOOLEAN /\ carries.scalar \in BOOLEAN
    BY <2>1 DEF Carries
  <2>5. Escaped(base) \in BOOLEAN
    BY DEF Escaped
  <2>6. carries.in_string <=> WithinString(base)
    BY <2>1 DEF CarriedText
  <2>7. carries.escaped <=> Escaped(base)
    BY <2>1 DEF CarriedText
  <2>8. ~ WithinString(base) => (carries.scalar <=> ScalarByte(base - 1) /\ base - 1 \notin RealQuotes)
    BY <1>1, <2>1 DEF CarriedText, ScalarBefore
  <2>9. carries.in_string = (Cardinality(RealQuotes \cap 0..(base - 1)) % 2 = 1)
    BY <2>3, <2>4, <2>6
  <2>10. carries.escaped = Escaped(base)
    BY <2>4, <2>5, <2>7
  <2>11. ~ carries.in_string =>
             carries.scalar = (ScalarByte(base - 1) /\ base - 1 \notin RealQuotes)
    BY <2>4, <2>6, <2>8
  <2>. QED
    BY <2>9, <2>10, <2>11
<1>2. IndexInv /\ TokensInv => CarriesMatchText
  BY <1>1, Zenon DEF CarriesMatchText
<1>. QED
  BY <1>2, TokensInvariance, PTL

-----------------------------------------------------------------------------
(* The container skip.                                                     *)

(* The members of a set between two places.                                *)
CountOf(X, a, b) == Cardinality({i \in a..b : i \in X})

(* One place more.                                                         *)
LEMMA CountNext ==
    ASSUME NEW X, NEW a \in Int, NEW b \in Int
    PROVE  /\ CountOf(X, a, b) \in Nat
           /\ b < a => CountOf(X, a, b) = 0
           /\ a <= b + 1 =>
                 CountOf(X, a, b + 1) = CountOf(X, a, b) + (IF b + 1 \in X THEN 1 ELSE 0)
           /\ b + 1 \notin X => CountOf(X, a, b + 1) = CountOf(X, a, b)
<1>. DEFINE A == {i \in a..b : i \in X}
            B == {i \in a..(b + 1) : i \in X}
<1>1. IsFiniteSet(A) /\ Cardinality(A) \in Nat
  <2>1. IsFiniteSet(a..b) /\ A \subseteq a..b
    BY FS_Interval
  <2>. HIDE DEF A
  <2>. QED
    BY <2>1, FS_Subset, FS_CardinalityType
<1>2. b < a => A = {}
  OBVIOUS
<1>3. ASSUME b + 1 \notin X PROVE B = A
  <2>1. \A i \in a..(b + 1) : i \in X => i \in a..b
    BY <1>3
  <2>2. \A i \in a..b : i \in a..(b + 1)
    OBVIOUS
  <2>. QED
    BY <2>1, <2>2, Zenon
<1>4. ASSUME a <= b + 1, b + 1 \in X PROVE B = A \cup {b + 1} /\ b + 1 \notin A
  <2>1. \A i \in a..(b + 1) : i \in a..b \/ i = b + 1
    OBVIOUS
  <2>2. \A i \in a..b : i \in a..(b + 1)
    OBVIOUS
  <2>3. b + 1 \in a..(b + 1) /\ b + 1 \notin a..b
    BY <1>4
  <2>. QED
    BY <1>4, <2>1, <2>2, <2>3, Zenon
<1>. HIDE DEF A, B
<1>5. ASSUME a <= b + 1, b + 1 \in X PROVE Cardinality(B) = Cardinality(A) + 1
  BY <1>1, <1>4, <1>5, FS_AddElement
<1>6. Cardinality(A) + 0 = Cardinality(A)
  BY <1>1
<1>7. CountOf(X, a, b) = Cardinality(A) /\ CountOf(X, a, b + 1) = Cardinality(B)
  BY DEF CountOf, A, B
<1>. QED
  BY <1>1, <1>2, <1>3, <1>5, <1>6, <1>7, FS_EmptySet

(* The openers and the closers of the text, outside strings, and how many  *)
(* more of the first there are from `start` on.                            *)
Opens  == {i \in Offsets : text[i + 1] \in Openers /\ ~ WithinString(i)}
Closes == {i \in Offsets : text[i + 1] \in Closers /\ ~ WithinString(i)}
LevelTo(j) == CountOf(Opens, start, j) - CountOf(Closes, start, j)

(* Where the container that begins at `start` may end.                     *)
Closing == {j \in Closes : start <= j /\ LevelTo(j) = 0}
NoneBefore(b) == \A j \in Closing : ~ (j < b)
SkipResult ==
    \/ end = None /\ Closing = {}
    \/ \E j \in Closing : end = j + 1 /\ \A i \in Closing : j <= i

(* It is what SkipMatchesIndex says.                                       *)
LEMMA ResultIs ==
    ASSUME text \in Seq(0..255), start \in Offsets, SkipResult
    PROVE  SkipMatchesIndex
<1>. DEFINE Level(j) == Cardinality({i \in start..j : StartsToken(i) /\ text[i + 1] \in Openers})
                      - Cardinality({i \in start..j : StartsToken(i) /\ text[i + 1] \in Closers})
            closers == {j \in start..(Len(text) - 1) : /\ text[j + 1] \in Closers /\ StartsToken(j)
                                                       /\ Level(j) = 0}
            first == CHOOSE j \in closers : \A k \in closers : j <= k
<1>0. Len(text) \in Nat /\ start \in 0..(Len(text) - 1)
  BY DEF Offsets
<1>1. \A i \in Offsets : /\ i \in Opens <=> StartsToken(i) /\ text[i + 1] \in Openers
                         /\ i \in Closes <=> StartsToken(i) /\ text[i + 1] \in Closers
  BY DEF Opens, Closes, StartsToken, Ops
<1>2. ASSUME NEW j \in Offsets PROVE Level(j) = LevelTo(j)
  <2>1. \A i \in start..j : i \in Offsets
    BY <1>0 DEF Offsets
  <2>2. {i \in start..j : StartsToken(i) /\ text[i + 1] \in Openers} = {i \in start..j : i \in Opens}
    BY <1>1, <2>1, Zenon
  <2>3. {i \in start..j : StartsToken(i) /\ text[i + 1] \in Closers} = {i \in start..j : i \in Closes}
    BY <1>1, <2>1, Zenon
  <2>. QED
    BY <2>2, <2>3, Zenon DEF LevelTo, CountOf
<1>3. \A j : j \in start..(Len(text) - 1) <=> j \in Offsets /\ start <= j
  BY <1>0 DEF Offsets
<1>. HIDE DEF Level
<1>4. closers = Closing
  <2>1. \A j \in Closes : j \in Offsets
    BY DEF Closes
  <2>. QED
    BY <1>1, <1>2, <1>3, <2>1, Zenon DEF Closing
<1>5. \A j \in Closing : j \in Int
  BY DEF Closing, Closes, Offsets
<1>. HIDE DEF closers
<1>6. end = IF closers = {} THEN None ELSE first + 1
  <2>1. CASE Closing = {}
    BY <1>4, <2>1 DEF SkipResult
  <2>2. CASE Closing # {}
    <3>1. PICK j \in Closing : end = j + 1 /\ \A i \in Closing : j <= i
      BY <2>2 DEF SkipResult
    <3>2. first \in Closing /\ \A k \in Closing : first <= k
      BY <1>4, <3>1
    <3>. HIDE DEF first
    <3>3. first = j
      BY <1>5, <3>1, <3>2
    <3>. QED
      BY <1>4, <2>2, <3>1, <3>3
  <2>. QED
    BY <2>1, <2>2
<1>. QED
  BY <1>6, Zenon DEF SkipMatchesIndex, closers, first, Level

(* The level, a byte at a time.                                            *)
LEMMA LevelNext ==
    ASSUME start \in Nat, NEW j \in Int
    PROVE  /\ LevelTo(j) \in Int
           /\ j < start => LevelTo(j) = 0
           /\ start <= j + 1 /\ j + 1 \in Opens => LevelTo(j + 1) = LevelTo(j) + 1
           /\ start <= j + 1 /\ j + 1 \in Closes => LevelTo(j + 1) = LevelTo(j) - 1
           /\ j + 1 \notin Opens \cup Closes => LevelTo(j + 1) = LevelTo(j)
           /\ j + 1 < start => LevelTo(j + 1) = LevelTo(j)
<1>. DEFINE p == CountOf(Opens, start, j)
            q == CountOf(Closes, start, j)
            r == CountOf(Opens, start, j + 1)
            s == CountOf(Closes, start, j + 1)
<1>0. start \in Int /\ j + 1 \in Int
  OBVIOUS
<1>1. Opens \cap Closes = {}
  BY DEF Opens, Closes, Openers, Closers
<1>2. /\ p \in Nat
      /\ j < start => p = 0
      /\ start <= j + 1 => r = p + (IF j + 1 \in Opens THEN 1 ELSE 0)
      /\ j + 1 \notin Opens => r = p
  BY <1>0, CountNext
<1>3. /\ q \in Nat
      /\ j < start => q = 0
      /\ start <= j + 1 => s = q + (IF j + 1 \in Closes THEN 1 ELSE 0)
      /\ j + 1 \notin Closes => s = q
  BY <1>0, CountNext
<1>4. j + 1 < start => r = 0 /\ s = 0
  BY <1>0, CountNext
<1>5. LevelTo(j) = p - q /\ LevelTo(j + 1) = r - s
  BY DEF LevelTo
<1>6. j + 1 < start => j < start
  OBVIOUS
<1>. HIDE DEF p, q, r, s
<1>7. start <= j + 1 /\ j + 1 \in Opens => r = p + 1 /\ s = q
  BY <1>1, <1>2, <1>3
<1>8. start <= j + 1 /\ j + 1 \in Closes => r = p /\ s = q + 1
  BY <1>1, <1>2, <1>3
<1>9. j + 1 \notin Opens \cup Closes => r = p /\ s = q
  BY <1>2, <1>3
<1>. QED
  BY <1>2, <1>3, <1>4, <1>5, <1>6, <1>7, <1>8, <1>9

(* Zeros behind the text are nothing to the tables.                        *)
LEMMA ZeroIsNothing ==
    /\ ~ Misread(0)
    /\ 0 \notin Ops
<1>1. 0 % 16 = 0 /\ 0 \div 16 = 0
  OBVIOUS
<1>2. LO_NIBBLE[0] = {4} /\ HI_NIBBLE[0] = {3}
  BY DEF LO_NIBBLE, HI_NIBBLE
<1>3. NibbleClass(0) = {}
  BY <1>1, <1>2 DEF NibbleClass
<1>4. 0 \notin NibbleOps /\ 0 \notin NibbleSpaces
  BY <1>3 DEF NibbleOps, NibbleSpaces
<1>5. 0 \notin Ops /\ 0 \notin Spaces
  BY DEF Ops, Openers, Closers, Spaces
<1>6. (0 \in NibbleOps) = (0 \in Ops) /\ (0 \in NibbleSpaces) = (0 \in Spaces)
  BY <1>4, <1>5
<1>. QED
  BY <1>5, <1>6, Zenon DEF Misread

(* The masks a skip needs: quotes, backslashes and structural bytes.       *)
ReadsOps(block, m) ==
    /\ m.backslash = {i \in Bits : block[i] = BACKSLASH}
    /\ m.quote = {i \in Bits : block[i] = QUOTE}
    /\ m.op \in SUBSET Bits
    /\ \A i \in Bits : ~ Misread(block[i]) => (i \in m.op <=> block[i] \in Ops)

(* All kernels find them.                                                  *)
LEMMA SkipKernelsRead ==
    ASSUME NEW block
    PROVE  /\ \A isa : ReadsOps(block, Classify(isa, block))
           /\ ReadsOps(block, Avx2SkipMasks(block))
<1>1. \A m : Reads(block, m) => ReadsOps(block, m)
  BY DEF Reads, ReadsOps
<1>2. /\ Avx2SkipMasks(block).backslash = Avx2Masks(block).backslash
      /\ Avx2SkipMasks(block).quote = Avx2Masks(block).quote
      /\ Avx2SkipMasks(block).op = Avx2Masks(block).op
  BY DEF Avx2SkipMasks, Avx2Masks
<1>3. ReadsOps(block, Avx2Masks(block))
  BY <1>1, KernelsRead
<1>. QED
  BY <1>1, <1>2, <1>3, KernelsRead DEF ReadsOps

(* The structural bytes of the block that are outside strings and not      *)
(* before `start`.                                                         *)
OpsHere ==
    {i \in Bits : /\ base + i \in Offsets /\ start <= base + i
                  /\ text[base + i + 1] \in Ops /\ ~ WithinString(base + i)}

(* They are found in the mask of a benign text.                            *)
LEMMA OpsFound ==
    ASSUME text \in Seq(0..255), base \in Nat, Benign, NEW m, ReadsOps(BlockAt(base), m),
           NEW i \in Bits, ~ WithinString(base + i)
    PROVE  i \in m.op <=> base + i \in Offsets /\ text[base + i + 1] \in Ops
<1>1. /\ base + i < Len(text) => /\ BlockAt(base)[i] = text[base + i + 1]
                                 /\ base + i \in Offsets
      /\ ~ (base + i < Len(text)) => BlockAt(base)[i] = 0
  BY BlockByte
<1>2. ~ (base + i < Len(text)) => base + i \notin Offsets
  BY WidthFacts DEF Offsets
<1>3. CASE base + i < Len(text)
  <2>1. ~ Misread(text[base + i + 1])
    BY <1>1, <1>3 DEF Benign
  <2>. QED
    BY <1>1, <1>3, <2>1 DEF ReadsOps
<1>4. CASE ~ (base + i < Len(text))
  BY <1>1, <1>2, <1>4, ZeroIsNothing DEF ReadsOps
<1>. QED
  BY <1>3, <1>4

(* A block behind the one of `start`.                                      *)
LEMMA LaterBlock ==
    ASSUME text \in Seq(0..255), base \in 0..Len(text), start < base, start \in Offsets, Benign,
           NEW c \in Carries,
           c.in_string <=> WithinString(base), c.escaped <=> Escaped(base),
           NEW m, ReadsOps(BlockAt(base), m)
    PROVE  LET next == BlockOps(c, m)
           IN  /\ next.bits = OpsHere
               /\ next.carries \in Carries
               /\ next.carries.in_string <=> WithinString(base + Width)
               /\ base + Width <= Len(text) => (next.carries.escaped <=> Escaped(base + Width))
<1>. DEFINE next == BlockOps(c, m)
            full == [backslash |-> m.backslash, quote |-> m.quote]
<1>0. base \in Nat /\ Len(text) \in Nat /\ Width \in Nat \ {0} /\ start \in Nat
  BY WidthFacts DEF Offsets
<1>1. /\ Escapes(EscapedHere, c, m.backslash)
      /\ Strings(QuotedHere, c, m.quote \ EscapedHere)
  BY HereIsText DEF ReadsOps
<1>2. m.backslash \in SUBSET Bits /\ m.quote \in SUBSET Bits /\ m.op \in SUBSET Bits
  BY DEF ReadsOps
<1>3. /\ next.bits = {i \in Bits : i \in m.op /\ i \notin QuotedHere}
      /\ next.carries \in Carries
      /\ next.carries.in_string <=> Width \in QuotedHere
      /\ next.carries.escaped <=> Width \in EscapedHere
  BY <1>1, <1>2, BlockOpsIs
<1>. HIDE DEF next
<1>4. ASSUME NEW i \in Bits
      PROVE  i \in m.op /\ i \notin QuotedHere <=>
                 /\ base + i \in Offsets /\ start <= base + i
                 /\ text[base + i + 1] \in Ops /\ ~ WithinString(base + i)
  <2>1. i \in 0..Width /\ start <= base + i
    BY <1>0, WidthFacts DEF Bits
  <2>2. i \in QuotedHere <=> WithinString(base + i)
    BY <2>1 DEF QuotedHere
  <2>. QED
    BY <1>0, <2>1, <2>2, OpsFound
<1>5. next.bits = OpsHere
  BY <1>3, <1>4 DEF OpsHere
<1>6. Width \in QuotedHere <=> WithinString(base + Width)
  BY <1>0 DEF QuotedHere
<1>7. base + Width <= Len(text) => (Width \in EscapedHere <=> Escaped(base + Width))
  BY <1>0 DEF EscapedHere
<1>. QED
  BY <1>3, <1>5, <1>6, <1>7 DEF next

(* The block of `start`, cut to what is not before it: nothing is open or  *)
(* escaped there, and an opener neither quotes nor escapes.                *)
LEMMA FirstBlock ==
    ASSUME text \in Seq(0..255), base \in Nat, start \in Offsets, Benign,
           start - base \in Bits, text[start + 1] \in Openers, ~ WithinString(start),
           NEW m, ReadsOps(BlockAt(base), m),
           NEW n, n.backslash = m.backslash \cap (start - base)..(Width - 1),
           n.quote = m.quote \cap (start - base)..(Width - 1),
           n.op = m.op \cap (start - base)..(Width - 1)
    PROVE  LET next == BlockOps(NoCarries, n)
           IN  /\ next.bits = OpsHere
               /\ next.carries \in Carries
               /\ next.carries.in_string <=> WithinString(base + Width)
               /\ base + Width <= Len(text) => (next.carries.escaped <=> Escaped(base + Width))
<1>. DEFINE next == BlockOps(NoCarries, n)
            p == start - base
            E == {k \in EscapedHere : p < k}
            S == {k \in QuotedHere : p < k}
            block == BlockAt(base)
<1>0. /\ base \in Nat /\ Len(text) \in Nat /\ Width \in Nat \ {0} /\ start \in Nat
      /\ p \in Nat /\ p \in Bits /\ base + p = start /\ p < Width /\ start < Len(text)
  BY WidthFacts DEF Offsets, Bits
<1>. HIDE DEF p
<1>1. ASSUME NEW k \in Bits
      PROVE  /\ k \in Nat /\ k \in 0..Width /\ k + 1 \in 0..Width /\ k < Width
             /\ base + k \in Nat /\ base + (k + 1) = (base + k) + 1
             /\ p < k + 1 <=> p <= k
             /\ k \in p..(Width - 1) <=> p <= k
             /\ p <= k <=> start <= base + k
             /\ p <= k => p < k \/ k = p
  BY <1>0, WidthFacts DEF Bits
<1>2. ASSUME NEW k \in Bits
      PROVE  /\ base + k < Len(text) => /\ block[k] = text[base + k + 1]
                                        /\ base + k \in Offsets
             /\ ~ (base + k < Len(text)) => block[k] = 0
  BY <1>0, BlockByte
<1>3. /\ \A k \in Bits : k \in n.backslash <=> p <= k /\ block[k] = BACKSLASH
      /\ \A k \in Bits : k \in n.quote <=> p <= k /\ block[k] = QUOTE
      /\ \A k \in Bits : k \in n.op <=> p <= k /\ k \in m.op
      /\ n.backslash \in SUBSET Bits /\ n.quote \in SUBSET Bits /\ n.op \in SUBSET Bits
  BY <1>1 DEF ReadsOps, p
<1>4. BACKSLASH # 0 /\ QUOTE # 0 /\ BACKSLASH \notin Openers /\ QUOTE \notin Openers
  BY DEF BACKSLASH, QUOTE, Openers
<1>5. block[p] = text[start + 1] /\ block[p] # BACKSLASH /\ block[p] # QUOTE
  BY <1>0, <1>2, <1>4
<1>. HIDE DEF block
<1>6. ASSUME NEW k \in Bits
      PROVE  /\ k \in EscapedHere <=> base + k <= Len(text) /\ Escaped(base + k)
             /\ k + 1 \in EscapedHere <=> (base + k) + 1 <= Len(text) /\ Escaped((base + k) + 1)
             /\ k \in QuotedHere <=> WithinString(base + k)
             /\ k + 1 \in QuotedHere <=> WithinString((base + k) + 1)
  BY <1>1 DEF EscapedHere, QuotedHere
<1>7. ASSUME NEW k \in Bits
      PROVE  k + 1 \in E <=> k \in n.backslash /\ k \notin E
  <2>1. Escaped((base + k) + 1) <=> text[(base + k) + 1] = BACKSLASH /\ ~ Escaped(base + k)
    BY <1>1, EscapedNext
  <2>2. k + 1 \in E <=> k + 1 \in EscapedHere /\ p <= k
    BY <1>1
  <2>3. k \in E <=> k \in EscapedHere /\ p < k
    OBVIOUS
  <2>4. CASE ~ (p <= k)
    BY <1>3, <2>2, <2>4
  <2>5. CASE k = p
    <3>1. text[(base + k) + 1] # BACKSLASH
      BY <1>0, <1>5, <2>5
    <3>2. k \notin n.backslash
      BY <1>3, <1>5, <2>5
    <3>. QED
      BY <1>6, <2>1, <2>2, <3>1, <3>2
  <2>6. CASE p < k
    <3>1. p <= k
      BY <1>0, <1>1, <2>6
    <3>2. CASE base + k < Len(text)
      <4>1. (base + k) + 1 <= Len(text) /\ base + k <= Len(text) /\ block[k] = text[(base + k) + 1]
        <5>1. base + k \in Nat /\ Len(text) \in Nat
          BY <1>0, <1>1
        <5>2. (base + k) + 1 <= Len(text) /\ base + k <= Len(text)
          BY <3>2, <5>1
        <5>. QED
          BY <1>2, <3>2, <5>2
      <4>. HIDE DEF E
      <4>. QED
        BY <1>3, <1>6, <2>1, <2>2, <2>3, <2>6, <3>1, <4>1
    <3>3. CASE ~ (base + k < Len(text))
      <4>1. ~ ((base + k) + 1 <= Len(text)) /\ block[k] = 0
        BY <1>0, <1>1, <1>2, <3>3
      <4>. HIDE DEF E
      <4>. QED
        BY <1>3, <1>4, <1>6, <2>2, <4>1
    <3>. QED
      BY <3>2, <3>3
  <2>. QED
    BY <1>1, <2>4, <2>5, <2>6
<1>8. 0 \notin E /\ 0 \notin S /\ NoCarries.in_string = FALSE /\ NoCarries.escaped = FALSE
      /\ NoCarries \in Carries
  BY <1>0 DEF NoCarries, Carries
<1>9. Escapes(E, NoCarries, n.backslash)
  <2>. HIDE DEF E
  <2>. QED
    BY <1>7, <1>8 DEF Escapes
<1>10. ASSUME NEW k \in Bits
       PROVE  k \in n.quote \ E <=> p <= k /\ base + k \in RealQuotes
  <2>1. base + k \in RealQuotes <=>
            base + k \in Offsets /\ text[base + k + 1] = QUOTE /\ ~ Escaped(base + k)
    BY DEF RealQuotes
  <2>2. k \in E <=> k \in EscapedHere /\ p < k
    OBVIOUS
  <2>. HIDE DEF E
  <2>3. CASE ~ (p <= k)
    BY <1>3, <2>3
  <2>4. CASE k = p
    BY <1>0, <1>3, <1>5, <2>1, <2>4
  <2>5. CASE p < k
    <3>0. p <= k
      BY <1>0, <1>1, <2>5
    <3>1. CASE base + k < Len(text)
      <4>1. base + k <= Len(text) /\ block[k] = text[base + k + 1] /\ base + k \in Offsets
        <5>1. base + k \in Nat /\ Len(text) \in Nat
          BY <1>0, <1>1
        <5>2. base + k <= Len(text)
          BY <3>1, <5>1
        <5>. QED
          BY <1>2, <3>1, <5>2
      <4>. QED
        BY <1>3, <1>6, <2>1, <2>2, <2>5, <3>0, <4>1
    <3>2. CASE ~ (base + k < Len(text))
      <4>1. block[k] = 0
        BY <1>2, <3>2, Zenon
      <4>2. base + k \notin Offsets
        BY <1>0, <3>2 DEF Offsets
      <4>. QED
        BY <1>3, <1>4, <2>1, <4>1, <4>2
    <3>. QED
      BY <3>1, <3>2
  <2>. QED
    BY <1>1, <2>3, <2>4, <2>5
<1>11. ASSUME NEW k \in Bits
       PROVE  k + 1 \in S <=> ~ (k \in S <=> k \in n.quote \ E)
  <2>1. WithinString((base + k) + 1) <=> ~ (WithinString(base + k) <=> base + k \in RealQuotes)
    BY <1>1, WithinNext
  <2>2. k + 1 \in S <=> k + 1 \in QuotedHere /\ p <= k
    BY <1>1
  <2>3. k \in S <=> k \in QuotedHere /\ p < k
    OBVIOUS
  <2>. HIDE DEF S, E
  <2>4. CASE ~ (p <= k)
    <3>1. ~ (p < k)
      BY <1>0, <1>1, <2>4
    <3>. QED
      BY <1>10, <2>2, <2>3, <2>4, <3>1
  <2>5. CASE k = p
    <3>1. ~ (p < k) /\ p <= k /\ base + k = start
      BY <1>0, <2>5
    <3>. QED
      BY <1>6, <1>10, <2>1, <2>2, <2>3, <3>1
  <2>6. CASE p < k
    <3>1. p <= k
      BY <1>0, <1>1, <2>6
    <3>. QED
      BY <1>6, <1>10, <2>1, <2>2, <2>3, <2>6, <3>1
  <2>. QED
    BY <1>1, <2>4, <2>5, <2>6
<1>12. Strings(S, NoCarries, n.quote \ E)
  <2>. HIDE DEF S, E
  <2>. QED
    BY <1>8, <1>11 DEF Strings
<1>13. /\ next.bits = {i \in Bits : i \in n.op /\ i \notin S}
       /\ next.carries \in Carries
       /\ next.carries.in_string <=> Width \in S
       /\ next.carries.escaped <=> Width \in E
  <2>. HIDE DEF S, E
  <2>. QED
    BY <1>3, <1>8, <1>9, <1>12, BlockOpsIs
<1>. HIDE DEF next
<1>14. ASSUME NEW i \in Bits
       PROVE  i \in n.op /\ i \notin S <=>
                 /\ base + i \in Offsets /\ start <= base + i
                 /\ text[base + i + 1] \in Ops /\ ~ WithinString(base + i)
  <2>1. i \in S <=> WithinString(base + i) /\ p < i
    BY <1>6
  <2>. HIDE DEF S
  <2>2. CASE WithinString(base + i)
    <3>1. i # p
      BY <1>0, <2>2
    <3>. QED
      BY <1>1, <1>3, <2>1, <2>2, <3>1
  <2>3. CASE ~ WithinString(base + i)
    <3>1. i \in m.op <=> base + i \in Offsets /\ text[base + i + 1] \in Ops
      BY <1>0, <2>3, OpsFound
    <3>. QED
      BY <1>1, <1>3, <2>1, <2>3, <3>1
  <2>. QED
    BY <2>2, <2>3
<1>15. next.bits = OpsHere
  <2>. HIDE DEF S
  <2>. QED
    BY <1>13, <1>14 DEF OpsHere
<1>16. Width \in S <=> WithinString(base + Width)
  BY <1>0 DEF QuotedHere
<1>17. base + Width <= Len(text) => (Width \in E <=> Escaped(base + Width))
  BY <1>0 DEF EscapedHere
<1>. HIDE DEF S, E
<1>. QED
  BY <1>13, <1>15, <1>16, <1>17 DEF next

(* The depth a block's bits count up to is the level of the text.          *)
LEMMA DepthIsLevel ==
    ASSUME text \in Seq(0..255), base \in Nat, start \in Offsets, depth = LevelTo(base - 1)
    PROVE  /\ \A i \in Bits : DepthAfter(OpsHere, i) = LevelTo(base + i)
           /\ DepthAfter(OpsHere, Width) = LevelTo(base + Width - 1)
<1>. DEFINE X == {i \in OpsHere : text[base + i + 1] \in Openers}
            Y == {i \in OpsHere : text[base + i + 1] \in Closers}
            T == {i \in Nat : i \in Bits => depth + CountOf(X, 0, i) - CountOf(Y, 0, i) = LevelTo(base + i)}
<1>0. /\ base \in Nat /\ start \in Nat /\ start \in Int /\ Width \in Nat \ {0} /\ depth \in Int
      /\ base - 1 \in Int
  BY WidthFacts, LevelNext DEF Offsets
<1>1. ASSUME NEW i \in Bits
      PROVE  /\ i \in X <=> base + i \in Opens /\ start <= base + i
             /\ i \in Y <=> base + i \in Closes /\ start <= base + i
  BY DEF OpsHere, Opens, Closes, Ops
<1>2. ASSUME NEW i
      PROVE  DepthAfter(OpsHere, i) =
                 depth + Cardinality({j \in OpsHere : j <= i /\ text[base + j + 1] \in Openers})
                       - Cardinality({j \in OpsHere : j <= i /\ text[base + j + 1] \in Closers})
  BY DEF DepthAfter
<1>3. ASSUME NEW i \in Nat
      PROVE  DepthAfter(OpsHere, i) = depth + CountOf(X, 0, i) - CountOf(Y, 0, i)
  <2>1. \A j \in OpsHere : j \in 0..i <=> j <= i
    <3>1. \A j \in OpsHere : j \in Nat
      BY WidthFacts DEF OpsHere
    <3>. QED
      BY <3>1
  <2>2. {j \in OpsHere : j <= i /\ text[base + j + 1] \in Openers} = {j \in 0..i : j \in X}
    BY <2>1, Zenon
  <2>3. {j \in OpsHere : j <= i /\ text[base + j + 1] \in Closers} = {j \in 0..i : j \in Y}
    BY <2>1, Zenon
  <2>. QED
    BY <1>2, <2>2, <2>3, Zenon DEF CountOf
<1>. HIDE DEF X, Y
<1>4. ASSUME NEW i \in Nat, i \in Bits, NEW before \in Int,
             before = depth + CountOf(X, 0, i - 1) - CountOf(Y, 0, i - 1),
             before = LevelTo((base + i) - 1)
      PROVE  depth + CountOf(X, 0, i) - CountOf(Y, 0, i) = LevelTo(base + i)
  <2>1. /\ i - 1 \in Int /\ 0 \in Int /\ (i - 1) + 1 = i /\ 0 <= i /\ base + i \in Nat
        /\ (base + i) - 1 \in Int /\ ((base + i) - 1) + 1 = base + i
    BY <1>0
  <2>2. /\ CountOf(X, 0, i) = CountOf(X, 0, i - 1) + (IF i \in X THEN 1 ELSE 0)
        /\ CountOf(Y, 0, i) = CountOf(Y, 0, i - 1) + (IF i \in Y THEN 1 ELSE 0)
        /\ CountOf(X, 0, i - 1) \in Nat /\ CountOf(Y, 0, i - 1) \in Nat
    <3>. DEFINE h == i - 1
    <3>1. h \in Int /\ h + 1 = i /\ 0 <= h + 1
      BY <2>1
    <3>. HIDE DEF h
    <3>2. /\ CountOf(X, 0, h + 1) = CountOf(X, 0, h) + (IF h + 1 \in X THEN 1 ELSE 0)
          /\ CountOf(Y, 0, h + 1) = CountOf(Y, 0, h) + (IF h + 1 \in Y THEN 1 ELSE 0)
          /\ CountOf(X, 0, h) \in Nat /\ CountOf(Y, 0, h) \in Nat
      BY <2>1, <3>1, CountNext
    <3>. QED
      BY <3>1, <3>2 DEF h
  <2>3. /\ start <= base + i /\ base + i \in Opens => LevelTo(base + i) = before + 1
        /\ start <= base + i /\ base + i \in Closes => LevelTo(base + i) = before - 1
        /\ base + i \notin Opens \cup Closes => LevelTo(base + i) = before
        /\ base + i < start => LevelTo(base + i) = before
    <3>. DEFINE h == (base + i) - 1
    <3>1. h \in Int /\ h + 1 = base + i
      BY <2>1
    <3>. HIDE DEF h
    <3>2. /\ start <= h + 1 /\ h + 1 \in Opens => LevelTo(h + 1) = LevelTo(h) + 1
          /\ start <= h + 1 /\ h + 1 \in Closes => LevelTo(h + 1) = LevelTo(h) - 1
          /\ h + 1 \notin Opens \cup Closes => LevelTo(h + 1) = LevelTo(h)
          /\ h + 1 < start => LevelTo(h + 1) = LevelTo(h)
      BY <1>0, <3>1, LevelNext
    <3>3. before = LevelTo(h)
      BY <1>4 DEF h
    <3>. QED
      BY <3>1, <3>2, <3>3
  <2>4. Opens \cap Closes = {}
    BY DEF Opens, Closes, Openers, Closers
  <2>5. /\ i \in X <=> base + i \in Opens /\ start <= base + i
        /\ i \in Y <=> base + i \in Closes /\ start <= base + i
    BY <1>1, <1>4
  <2>6. base + i < start \/ start <= base + i
    BY <1>0, <2>1
  <2>7. ~ (base + i < start /\ start <= base + i)
    BY <1>0, <2>1
  <2>. DEFINE x == CountOf(X, 0, i - 1)
              y == CountOf(Y, 0, i - 1)
              x2 == CountOf(X, 0, i)
              y2 == CountOf(Y, 0, i)
              level == LevelTo(base + i)
  <2>8. x \in Nat /\ y \in Nat /\ before = depth + x - y
    BY <1>4, <2>2
  <2>9. x2 = x + (IF i \in X THEN 1 ELSE 0) /\ y2 = y + (IF i \in Y THEN 1 ELSE 0)
    BY <2>2
  <2>10. /\ i \in X => level = before + 1 /\ i \notin Y
         /\ i \in Y => level = before - 1
         /\ i \notin X /\ i \notin Y => level = before
    BY <2>3, <2>4, <2>5, <2>6, <2>7
  <2>. HIDE DEF x, y, x2, y2, level
  <2>11. depth + x2 - y2 = level
    BY <1>0, <2>8, <2>9, <2>10
  <2>. QED
    BY <2>11 DEF x2, y2, level
<1>5. 0 \in T
  <2>1. CountOf(X, 0, 0 - 1) = 0 /\ CountOf(Y, 0, 0 - 1) = 0
    <3>1. 0 \in Int /\ 0 - 1 \in Int /\ 0 - 1 < 0
      OBVIOUS
    <3>. QED
      BY <3>1, CountNext
  <2>2. (base + 0) - 1 = base - 1
    BY <1>0
  <2>3. depth = depth + CountOf(X, 0, 0 - 1) - CountOf(Y, 0, 0 - 1)
    BY <1>0, <2>1
  <2>4. 0 \in Bits /\ depth = LevelTo((base + 0) - 1)
    BY <2>2, WidthFacts
  <2>5. depth + CountOf(X, 0, 0) - CountOf(Y, 0, 0) = LevelTo(base + 0)
    BY <1>0, <1>4, <2>3, <2>4
  <2>. QED
    BY <2>5
<1>6. ASSUME NEW i \in Nat, i \in T PROVE i + 1 \in T
  <2>. SUFFICES ASSUME i + 1 \in Bits
                PROVE  depth + CountOf(X, 0, i + 1) - CountOf(Y, 0, i + 1) = LevelTo(base + (i + 1))
    OBVIOUS
  <2>1. i \in Bits /\ (i + 1) - 1 = i /\ i + 1 \in Nat /\ (base + (i + 1)) - 1 = base + i /\ i \in Int
        /\ base + i \in Int
    BY <1>0, WidthFacts DEF Bits
  <2>. DEFINE before == LevelTo(base + i)
  <2>2. before \in Int
    BY <1>0, <2>1, LevelNext
  <2>3. before = depth + CountOf(X, 0, (i + 1) - 1) - CountOf(Y, 0, (i + 1) - 1)
    BY <1>6, <2>1
  <2>4. before = LevelTo((base + (i + 1)) - 1)
    BY <2>1
  <2>. HIDE DEF before
  <2>. QED
    BY <1>4, <2>1, <2>2, <2>3, <2>4
<1>7. \A i \in Bits : i \in T
  <2>1. \A i \in 0..(Width - 1) : i \in T => i + 1 \in T
    BY <1>6
  <2>. HIDE DEF T
  <2>2. 0..Width \subseteq T
    BY <1>0, <1>5, <2>1, UpTo
  <2>. QED
    BY <1>0, <2>2 DEF Bits
<1>8. \A i \in Bits : DepthAfter(OpsHere, i) = LevelTo(base + i)
  BY <1>3, <1>7, WidthFacts
<1>9. DepthAfter(OpsHere, Width) = DepthAfter(OpsHere, Width - 1)
  <2>1. \A j \in OpsHere : j <= Width /\ j <= Width - 1
    BY <1>0 DEF OpsHere, Bits
  <2>2. ASSUME NEW A
        PROVE  {j \in OpsHere : j <= Width /\ text[base + j + 1] \in A}
             = {j \in OpsHere : j <= Width - 1 /\ text[base + j + 1] \in A}
    BY <2>1, Zenon
  <2>. QED
    BY <1>2, <2>2, Zenon
<1>10. Width - 1 \in Bits /\ base + (Width - 1) = base + Width - 1
  BY <1>0 DEF Bits
<1>. QED
  BY <1>8, <1>9, <1>10

-----------------------------------------------------------------------------

(* The inductive invariant of a skip: no closer of the container is behind *)
(* `base`, and depth and the open string are those of the text there.      *)
Skippable == Benign /\ (target.isa = "scalar" => EscapesInStrings)

AtOpener == start \in Offsets /\ text[start + 1] \in Openers /\ ~ WithinString(start)

BlockSkip ==
    /\ carries \in Carries
    /\ \/ base = BlockStart(start) /\ carries = NoCarries
       \/ /\ start < base
          /\ carries.in_string <=> WithinString(base)
          /\ base <= Len(text) => (carries.escaped <=> Escaped(base))

ByteSkip ==
    /\ start <= base
    /\ quoted \in BOOLEAN /\ quoted <=> WithinString(base)
    /\ ~ Escaped(base)

Skipping ==
    /\ base \in Nat
    /\ AtOpener
    /\ NoneBefore(base)
    /\ depth = LevelTo(base - 1)
    /\ IF target.isa = "scalar" THEN ByteSkip ELSE BlockSkip

SkipInv ==
    /\ pc = "skip" /\ Skippable => Skipping
    /\ pc = "skipped" /\ Skippable => AtOpener /\ SkipResult

(* Same text, same container.                                              *)
LEMMA SameSkip ==
    ASSUME text' = text, target' = target, start' = start
    PROVE  /\ Skippable' <=> Skippable
           /\ AtOpener' <=> AtOpener
           /\ \A j : LevelTo(j)' = LevelTo(j)
           /\ Closing' = Closing
           /\ \A b : NoneBefore(b)' <=> NoneBefore(b)
<1>1. /\ Benign' <=> Benign
      /\ Offsets' = Offsets
      /\ \A i : WithinString(i)' <=> WithinString(i)
  BY SameText
<1>2. Opens' = Opens /\ Closes' = Closes
  BY <1>1 DEF Opens, Closes
<1>3. \A j : LevelTo(j)' = LevelTo(j)
  BY <1>2 DEF LevelTo
<1>4. Closing' = Closing
  BY <1>2, <1>3 DEF Closing
<1>5. \A b : NoneBefore(b)' <=> NoneBefore(b)
  BY <1>4 DEF NoneBefore
<1>6. EscapesInStrings' <=> EscapesInStrings
  BY <1>1 DEF EscapesInStrings
<1>7. Skippable' <=> Skippable
  BY <1>1, <1>6 DEF Skippable
<1>8. AtOpener' <=> AtOpener
  BY <1>1 DEF AtOpener
<1>. QED
  BY <1>3, <1>4, <1>5, <1>7, <1>8

(* Places that close are offsets, from `start` on.                         *)
LEMMA ClosingFacts ==
    ASSUME text \in Seq(0..255)
    PROVE  /\ Closing \subseteq Nat
           /\ \A j \in Closing : j < Len(text) /\ start <= j
<1>1. Len(text) \in Nat
  OBVIOUS
<1>2. \A j \in Closes : j \in Nat /\ j < Len(text)
  BY <1>1 DEF Closes, Offsets
<1>. QED
  BY <1>2 DEF Closing

(* The opener of a container is an entry of the index.                     *)
LEMMA SkipBegins ==
    ASSUME IndexInv, TokensInv, BeginSkip
    PROVE  SkipInv'
<1>1. /\ pc = "indexed" /\ start' \in OpenerOffsets
      /\ base' = IF target.isa = "scalar" THEN start' ELSE BlockStart(start')
      /\ carries' = NoCarries /\ depth' = 0 /\ quoted' = FALSE /\ pc' = "skip"
      /\ UNCHANGED <<text, target>>
  BY DEF BeginSkip
<1>. SUFFICES ASSUME Skippable' PROVE Skipping'
  BY <1>1 DEF SkipInv
<1>2. Benign' /\ (target.isa = "scalar" => EscapesInStrings)
  <2>1. EscapesInStrings' <=> EscapesInStrings
    BY <1>1, SameText DEF EscapesInStrings
  <2>. QED
    BY <1>1, <2>1 DEF Skippable
<1>3. Benign /\ text \in Seq(0..255) /\ Len(text) \in Nat
  BY <1>1, <1>2, SameText DEF IndexInv
<1>4. start' \in TokenOffsets /\ text[start' + 1] \in Openers
  BY <1>1, <1>3 DEF TokensInv, OpenerOffsets, EntryOffsets
<1>5. start' \in Offsets /\ start' \in Nat /\ ~ WithinString(start')
  <2>1. start' \in Offsets /\ StartsToken(start')
    BY <1>4 DEF TokenOffsets
  <2>2. start' \in Nat
    BY <1>3, <2>1 DEF Offsets
  <2>. QED
    BY <2>1, <2>2 DEF StartsToken
<1>0. PICK s : s = start'
  OBVIOUS
<1>6. AtOpener'
  <2>1. ~ WithinString(s)'
    <3>1. WithinString(s)' <=> WithinString(s)
      BY <1>1, SameText
    <3>. QED
      BY <1>0, <1>5, <3>1
  <2>2. (~ WithinString(start))'
    BY <2>1, <1>0 DEF WithinString
  <2>3. start' \in Offsets' /\ text'[start' + 1] \in Openers
    BY <1>1, <1>4, <1>5, SameText
  <2>. QED
    BY <2>2, <2>3 DEF AtOpener, Openers
<1>7. base' \in Nat /\ base' <= start'
  <2>1. s \in Nat => s % Width \in 0..s /\ s - (s % Width) \in Nat /\ s - (s % Width) <= s
    <3>. DEFINE w == Width
    <3>1. w \in Nat \ {0}
      BY WidthFacts
    <3>. HIDE DEF w
    <3>2. s \in Nat => s % w \in 0..s
      BY <3>1
    <3>3. s \in Nat => s % w \in 0..s /\ s - (s % w) \in Nat /\ s - (s % w) <= s
      BY <3>2
    <3>. QED
      BY <3>3 DEF w
  <2>2. BlockStart(s) = s - (s % Width)
    BY DEF BlockStart
  <2>3. base' = IF target.isa = "scalar" THEN s ELSE BlockStart(s)
    BY <1>0, <1>1
  <2>4. s \in Nat /\ s <= s
    BY <1>0, <1>5
  <2>5. base' \in Nat /\ base' <= s
    BY <2>1, <2>2, <2>3, <2>4
  <2>. QED
    BY <1>0, <2>5
<1>8. depth' = LevelTo(base - 1)'
  <2>1. start' \in Int /\ base' - 1 \in Int /\ base' - 1 < start'
    <3>1. start' \in Nat /\ base' \in Nat /\ base' <= start'
      BY <1>5, <1>7
    <3>2. \A x, y \in Nat : x <= y => y \in Int /\ x - 1 \in Int /\ x - 1 < y
      OBVIOUS
    <3>. QED
      BY <3>1, <3>2, Zenon
  <2>2. CountOf(Opens', start', base' - 1) = 0 /\ CountOf(Closes', start', base' - 1) = 0
    BY <2>1, CountNext
  <2>3. 0 - 0 = 0
    OBVIOUS
  <2>. QED
    BY <1>1, <2>2, <2>3 DEF LevelTo
<1>9. NoneBefore(base)'
  <2>1. \A j \in Closing' : start' <= j /\ j \in Nat
    <3>1. \A j \in Closing' : start' <= j /\ j \in Offsets'
      BY DEF Closing, Closes
    <3>2. \A j \in Offsets' : j \in Nat
      BY DEF Offsets
    <3>. QED
      BY <3>1, <3>2
  <2>2. \A j \in Closing' : ~ (j < base')
    BY <1>5, <1>7, <2>1
  <2>. QED
    BY <2>2 DEF NoneBefore
<1>10. CASE target.isa = "scalar"
  <2>1. base' = start' /\ target'.isa = "scalar" /\ start' <= base'
    BY <1>1, <1>5, <1>10
  <2>2. ~ Escaped(s)
    <3>. SUFFICES ASSUME Escaped(s) PROVE FALSE
      OBVIOUS
    <3>1. s \in Nat /\ s # 0
      BY <1>0, <1>5, EscapedNext
    <3>2. s - 1 \in Nat /\ (s - 1) + 1 = s
      BY <3>1
    <3>3. text[s] = BACKSLASH
      BY <3>2, EscapedNext
    <3>4. s - 1 \in Offsets
      <4>1. s \in 0..(Len(text) - 1)
        BY <1>0, <1>1, <1>5, SameText DEF Offsets
      <4>. QED
        BY <1>3, <3>1, <4>1 DEF Offsets
    <3>5. WithinString(s - 1)
      BY <1>2, <1>10, <3>2, <3>3, <3>4 DEF EscapesInStrings
    <3>6. s - 1 \notin RealQuotes
      BY <3>2, <3>3 DEF RealQuotes, BACKSLASH, QUOTE
    <3>7. WithinString(s)
      BY <1>3, <3>2, <3>5, <3>6, WithinNext
    <3>. QED
      BY <1>0, <1>5, <3>7
  <2>3. ~ Escaped(base)'
    <3>1. Escaped(s)' <=> Escaped(s)
      BY <1>1, SameText
    <3>2. ~ Escaped(s)'
      BY <2>2, <3>1
    <3>. QED
      BY <1>0, <2>1, <3>2 DEF Escaped
  <2>4. ~ WithinString(base)'
    BY <1>1, <1>5, <2>1, SameText DEF WithinString
  <2>. QED
    BY <1>1, <1>6, <1>7, <1>8, <1>9, <2>1, <2>3, <2>4 DEF Skipping, ByteSkip
<1>11. CASE target.isa # "scalar"
  <2>1. base' = BlockStart(start)' /\ target'.isa # "scalar"
    BY <1>1, <1>11 DEF BlockStart, Width
  <2>2. NoCarries \in Carries
    BY DEF NoCarries, Carries
  <2>3. carries' \in Carries /\ carries' = NoCarries
    BY <1>1, <2>2
  <2>. QED
    BY <1>6, <1>7, <1>8, <1>9, <2>1, <2>3 DEF Skipping, BlockSkip, Carries, NoCarries
<1>. QED
  BY <1>10, <1>11

(* Where a scan finds nothing to end at, nothing closes.                   *)
LEMMA NoneNext ==
    ASSUME text \in Seq(0..255), NEW b \in Nat, NoneBefore(b), b \notin Closing
    PROVE  NoneBefore(b + 1)
<1>1. \A j \in Closing : j \in Nat
  BY ClosingFacts
<1>2. \A j \in Nat : j < b + 1 => j < b \/ j = b
  OBVIOUS
<1>. QED
  BY <1>1, <1>2, Zenon DEF NoneBefore

(* The first place that closes is the end.                                 *)
LEMMA EndIsFirst ==
    ASSUME text \in Seq(0..255), NEW b \in Nat, NoneBefore(b), b \in Closing
    PROVE  \A i \in Closing : b <= i
<1>1. \A j \in Closing : j \in Nat /\ ~ (j < b)
  BY ClosingFacts DEF NoneBefore
<1>. QED
  BY <1>1

(* The end of a skip, given the place.                                     *)
LEMMA SkipEnded ==
    ASSUME NEW b \in Closing, \A i \in Closing : b <= i, AtOpener,
           end' = b + 1, pc' = "skipped", UNCHANGED <<text, target, start>>
    PROVE  SkipInv'
<1>1. Closing' = Closing /\ (AtOpener' <=> AtOpener)
  BY SameSkip
<1>2. SkipResult'
  BY <1>1 DEF SkipResult
<1>. QED
  BY <1>1, <1>2 DEF SkipInv

(* A step of the scan that goes on.                                        *)
LEMMA SkipGoesOn ==
    ASSUME AtOpener, UNCHANGED <<text, target, start, pc>>, pc = "skip",
           NEW b \in Nat, base' = b, NoneBefore(b), depth' = LevelTo(b - 1),
           IF target.isa = "scalar" THEN ByteSkip' ELSE BlockSkip'
    PROVE  SkipInv'
<1>1. AtOpener' /\ (NoneBefore(b)' <=> NoneBefore(b)) /\ LevelTo(b - 1)' = LevelTo(b - 1)
  BY SameSkip
<1>2. NoneBefore(base)'
  BY <1>1 DEF NoneBefore
<1>3. depth' = LevelTo(base - 1)'
  BY <1>1 DEF LevelTo
<1>4. Skipping'
  BY <1>1, <1>2, <1>3 DEF Skipping
<1>. QED
  BY <1>4 DEF SkipInv

(* Scanned by bytes.                                                       *)
LEMMA ByteGoesOn ==
    ASSUME UNCHANGED <<text, start>>, NEW n, base' = n, start <= n, ~ Escaped(n),
           quoted' \in BOOLEAN, quoted' <=> WithinString(n)
    PROVE  ByteSkip'
<1>1. (Escaped(n)' <=> Escaped(n)) /\ (WithinString(n)' <=> WithinString(n))
  BY SameText
<1>2. (~ Escaped(base))'
  BY <1>1 DEF Escaped
<1>3. WithinString(base)' <=> WithinString(n)
  BY <1>1 DEF WithinString
<1>. QED
  BY <1>2, <1>3 DEF ByteSkip

(* A byte outside strings.                                                 *)
LEMMA ByteSkipped ==
    ASSUME IndexInv, SkipInv, ScalarSkipByte
    PROVE  SkipInv'
<1>. DEFINE b == text[base + 1]
            level == IF b \in Openers THEN depth + 1 ELSE IF b \in Closers THEN depth - 1 ELSE depth
<1>1. /\ pc = "skip" /\ target.isa = "scalar" /\ ~ quoted /\ base < Len(text)
      /\ UNCHANGED <<text, target, start>> /\ text \in Seq(0..255) /\ Len(text) \in Nat
  <2>1. pc = "skip" /\ target.isa = "scalar" /\ ~ quoted /\ base < Len(text)
    BY DEF ScalarSkipByte
  <2>2. UNCHANGED <<text, target, start>>
    BY DEF ScalarSkipByte, SkipEnds
  <2>3. text \in Seq(0..255) /\ Len(text) \in Nat
    BY DEF IndexInv
  <2>. QED
    BY <2>1, <2>2, <2>3
<1>2. IF b \in Closers /\ level = 0
      THEN end' = base + 1 /\ pc' = "skipped"
      ELSE depth' = level /\ quoted' = (b = QUOTE) /\ base' = base + 1 /\ pc' = pc
  BY DEF ScalarSkipByte, SkipEnds
<1>3. (Skippable' <=> Skippable) /\ (pc' = "skip" \/ pc' = "skipped")
  BY <1>1, <1>2, SameSkip
<1>. SUFFICES ASSUME Skippable PROVE SkipInv'
  BY <1>3 DEF SkipInv
<1>4. /\ base \in Nat /\ AtOpener /\ NoneBefore(base) /\ depth = LevelTo(base - 1)
      /\ start <= base /\ ~ WithinString(base) /\ ~ Escaped(base)
  BY <1>1 DEF SkipInv, Skipping, ByteSkip
<1>5. base \in Offsets /\ start \in Nat
  BY <1>1, <1>4 DEF Offsets, AtOpener
<1>6. /\ base \in Opens <=> b \in Openers
      /\ base \in Closes <=> b \in Closers
      /\ ~ (b \in Openers /\ b \in Closers)
  BY <1>4, <1>5 DEF Opens, Closes, Openers, Closers
<1>7. LevelTo(base) = level
  <2>. DEFINE h == base - 1
  <2>1. h \in Int /\ h + 1 = base
    BY <1>4
  <2>. HIDE DEF h
  <2>2. /\ start <= h + 1 /\ h + 1 \in Opens => LevelTo(h + 1) = LevelTo(h) + 1
        /\ start <= h + 1 /\ h + 1 \in Closes => LevelTo(h + 1) = LevelTo(h) - 1
        /\ h + 1 \notin Opens \cup Closes => LevelTo(h + 1) = LevelTo(h)
    BY <1>5, <2>1, LevelNext
  <2>3. depth = LevelTo(h)
    BY <1>4 DEF h
  <2>. QED
    BY <1>4, <1>6, <2>1, <2>2, <2>3
<1>8. base \in Closing <=> b \in Closers /\ level = 0
  BY <1>4, <1>6, <1>7 DEF Closing
<1>. HIDE DEF level
<1>9. CASE b \in Closers /\ level = 0
  <2>1. \A i \in Closing : base <= i
    BY <1>1, <1>4, <1>8, <1>9, EndIsFirst
  <2>2. end' = base + 1 /\ pc' = "skipped"
    BY <1>2, <1>9
  <2>. QED
    BY <1>1, <1>4, <1>8, <1>9, <2>1, <2>2, SkipEnded
<1>10. CASE ~ (b \in Closers /\ level = 0)
  <2>1. depth' = level /\ quoted' = (b = QUOTE) /\ base' = base + 1 /\ pc' = pc
    BY <1>2, <1>10
  <2>2. base + 1 \in Nat /\ NoneBefore(base + 1) /\ (base + 1) - 1 = base /\ start <= base + 1
    <3>1. NoneBefore(base + 1)
      BY <1>1, <1>4, <1>8, <1>10, NoneNext
    <3>. QED
      BY <1>4, <1>5, <3>1
  <2>3. b # BACKSLASH
    BY <1>1, <1>4, <1>5 DEF Skippable, EscapesInStrings
  <2>4. ~ Escaped(base + 1)
    BY <1>4, <2>3, EscapedNext
  <2>5. base \in RealQuotes <=> b = QUOTE
    BY <1>4, <1>5 DEF RealQuotes
  <2>6. WithinString(base + 1) <=> b = QUOTE
    BY <1>1, <1>4, <2>5, WithinNext
  <2>. DEFINE n == base + 1
  <2>7. base' = n /\ n \in Nat /\ NoneBefore(n) /\ depth' = LevelTo(n - 1)
    BY <1>7, <2>1, <2>2
  <2>8. ByteSkip'
    <3>1. ~ Escaped(n) /\ (WithinString(n) <=> quoted') /\ quoted' \in BOOLEAN /\ start <= n
      BY <2>1, <2>2, <2>4, <2>6
    <3>. HIDE DEF n
    <3>2. UNCHANGED <<text, start>>
      BY <1>1
    <3>. QED
      BY <2>7, <3>1, <3>2, ByteGoesOn
  <2>. HIDE DEF n
  <2>9. UNCHANGED <<text, target, start, pc>>
    BY <1>1, <2>1
  <2>. QED
    BY <1>1, <1>4, <2>7, <2>8, <2>9, SkipGoesOn
<1>. QED
  BY <1>9, <1>10

(* A byte of a string, with the one it escapes.                            *)
LEMMA QuotedSkipped ==
    ASSUME IndexInv, SkipInv, ScalarSkipQuoted
    PROVE  SkipInv'
<1>. DEFINE b == text[base + 1]
            n == base + (IF b = BACKSLASH THEN 2 ELSE 1)
<1>1. /\ pc = "skip" /\ target.isa = "scalar" /\ quoted /\ base < Len(text)
      /\ UNCHANGED <<text, target, start, pc, depth>> /\ text \in Seq(0..255) /\ Len(text) \in Nat
      /\ quoted' = (b # QUOTE) /\ base' = n
  BY DEF ScalarSkipQuoted, IndexInv
<1>2. Skippable' <=> Skippable
  BY <1>1, SameSkip
<1>. SUFFICES ASSUME Skippable PROVE SkipInv'
  BY <1>1, <1>2 DEF SkipInv
<1>3. /\ base \in Nat /\ AtOpener /\ NoneBefore(base) /\ depth = LevelTo(base - 1)
      /\ start <= base /\ WithinString(base) /\ ~ Escaped(base)
  BY <1>1 DEF SkipInv, Skipping, ByteSkip
<1>4. base \in Offsets /\ start \in Nat
  BY <1>1, <1>3 DEF Offsets, AtOpener
<1>5. ASSUME NEW i \in Nat, WithinString(i), NoneBefore(i)
      PROVE  LevelTo(i) = LevelTo(i - 1) /\ NoneBefore(i + 1)
  <2>1. i \notin Opens \cup Closes /\ i \notin Closing
    BY <1>5 DEF Opens, Closes, Closing
  <2>2. NoneBefore(i + 1)
    BY <1>1, <1>5, <2>1, NoneNext
  <2>. DEFINE h == i - 1
  <2>3. h \in Int /\ h + 1 = i
    OBVIOUS
  <2>. HIDE DEF h
  <2>4. h + 1 \notin Opens \cup Closes => LevelTo(h + 1) = LevelTo(h)
    BY <1>4, <2>3, LevelNext
  <2>5. LevelTo(i) = LevelTo(h)
    BY <2>1, <2>3, <2>4
  <2>. QED
    BY <2>2, <2>5 DEF h
<1>6. LevelTo(base) = depth /\ NoneBefore(base + 1)
  BY <1>3, <1>5
<1>7. Escaped(base + 1) <=> b = BACKSLASH
  BY <1>3, EscapedNext
<1>8. WithinString(base + 1) <=> b # QUOTE
  <2>1. base \in RealQuotes <=> b = QUOTE
    BY <1>3, <1>4 DEF RealQuotes
  <2>. QED
    BY <1>1, <1>3, <2>1, WithinNext
<1>9. n \in Nat /\ NoneBefore(n) /\ LevelTo(n - 1) = depth /\ start <= n
      /\ ~ Escaped(n) /\ (WithinString(n) <=> b # QUOTE)
  <2>1. CASE b = BACKSLASH
    <3>. DEFINE j == base + 1
    <3>1. j \in Nat /\ j - 1 = base /\ n = j + 1 /\ (j + 1) - 1 = j /\ start <= j + 1
      BY <1>3, <1>4, <2>1
    <3>2. b # QUOTE
      BY <2>1 DEF BACKSLASH, QUOTE
    <3>3. WithinString(j) /\ Escaped(j) /\ NoneBefore(j)
      BY <1>6, <1>7, <1>8, <2>1, <3>2
    <3>. HIDE DEF j, n
    <3>4. LevelTo(j) = depth /\ NoneBefore(j + 1)
      BY <1>5, <1>6, <3>1, <3>3
    <3>5. ~ Escaped(j + 1)
      BY <3>1, <3>3, EscapedNext
    <3>6. j \notin RealQuotes
      BY <3>3 DEF RealQuotes
    <3>7. WithinString(j + 1)
      BY <1>1, <3>1, <3>3, <3>6, WithinNext
    <3>. QED
      BY <3>1, <3>2, <3>4, <3>5, <3>7
  <2>2. CASE b # BACKSLASH
    <3>1. n = base + 1 /\ (base + 1) - 1 = base /\ base + 1 \in Nat /\ start <= base + 1
      BY <1>3, <1>4, <2>2
    <3>. HIDE DEF n
    <3>. QED
      BY <1>6, <1>7, <1>8, <2>2, <3>1
  <2>. QED
    BY <2>1, <2>2
<1>. HIDE DEF n
<1>10. ByteSkip'
  <2>1. quoted' \in BOOLEAN /\ (quoted' <=> WithinString(n))
    BY <1>1, <1>9
  <2>2. UNCHANGED <<text, start>> /\ base' = n
    BY <1>1
  <2>. QED
    BY <1>9, <2>1, <2>2, ByteGoesOn
<1>. QED
  BY <1>1, <1>3, <1>9, <1>10, SkipGoesOn

(* The masks of a skip's block.                                            *)
SkipMasks(block) == IF target.isa = "avx2" THEN Avx2SkipMasks(block) ELSE Classify(target.isa, block)

(* What is live of them.                                                   *)
LEMMA LiveOf ==
    ASSUME NEW block, NEW on, on = IF base = BlockStart(start) THEN (start - base)..(Width - 1) ELSE Bits
    PROVE  LET m == SkipMasks(block)
           IN  /\ Live(m).backslash = m.backslash \cap on
               /\ Live(m).quote = m.quote \cap on
               /\ Live(m).op = m.op \cap on
<1>1. ASSUME NEW b, NEW q, NEW o, NEW w, NEW m, m = [backslash |-> b, quote |-> q, op |-> o, ws |-> w]
      PROVE  /\ Live(m).backslash = m.backslash \cap on
             /\ Live(m).quote = m.quote \cap on
             /\ Live(m).op = m.op \cap on
  <2>1. Live(m) = [m EXCEPT !.backslash = @ \cap on, !.quote = @ \cap on, !.op = @ \cap on]
    BY Zenon DEF Live
  <2>. QED
    BY <1>1, <2>1
<1>. DEFINE m == SkipMasks(block)
<1>2. \E b, q, o, w : m = [backslash |-> b, quote |-> q, op |-> o, ws |-> w]
  <2>1. m = Avx2SkipMasks(block) \/ m = NeonMasks(block) \/ m = Sse2Masks(block)
    BY DEF SkipMasks, Classify
  <2>. HIDE DEF m
  <2>. QED
    BY <2>1, Zenon DEF Avx2SkipMasks, NeonMasks, Sse2Masks
<1>. HIDE DEF m
<1>3. /\ Live(m).backslash = m.backslash \cap on
      /\ Live(m).quote = m.quote \cap on
      /\ Live(m).op = m.op \cap on
  BY <1>1, <1>2
<1>. QED
  BY <1>3 DEF m

(* Where the block of an offset begins.                                    *)
LEMMA BlockStartIs ==
    ASSUME NEW s \in Nat
    PROVE  BlockStart(s) \in Nat /\ BlockStart(s) <= s /\ s - BlockStart(s) \in Bits
<1>. DEFINE w == Width
<1>1. w \in Nat \ {0}
  BY WidthFacts
<1>. HIDE DEF w
<1>2. s % w \in 0..(w - 1) /\ s % w <= s
  BY <1>1
<1>3. s - (s % w) \in Nat /\ s - (s % w) <= s /\ s - (s - (s % w)) = s % w
  BY <1>2
<1>4. BlockStart(s) = s - (s % w) /\ Bits = 0..(w - 1)
  BY DEF BlockStart, Bits, w
<1>. QED
  BY <1>2, <1>3, <1>4

(* A block's structural bits are the structural bytes outside strings, and *)
(* the words carried on are those of the text.                             *)
LEMMA BlockFinds ==
    ASSUME IndexInv, Benign, Skipping, target.isa # "scalar", base < Len(text)
    PROVE  LET next == BlockOps(carries, Live(SkipMasks(BlockAt(base))))
           IN  /\ next.bits = OpsHere
               /\ next.carries \in Carries
               /\ next.carries.in_string <=> WithinString(base + Width)
               /\ base + Width <= Len(text) => (next.carries.escaped <=> Escaped(base + Width))
<1>. DEFINE block == BlockAt(base)
            m == SkipMasks(block)
            n == Live(m)
<1>1. text \in Seq(0..255) /\ base \in Nat /\ AtOpener /\ BlockSkip /\ Len(text) \in Nat
  BY DEF IndexInv, Skipping
<1>2. start \in Offsets /\ text[start + 1] \in Openers /\ ~ WithinString(start) /\ start \in Nat
  BY <1>1 DEF AtOpener, Offsets
<1>3. ReadsOps(block, m)
  BY SkipKernelsRead DEF SkipMasks
<1>. HIDE DEF m
<1>4. CASE base = BlockStart(start) /\ carries = NoCarries
  <2>1. start - base \in Bits
    BY <1>2, <1>4, BlockStartIs
  <2>2. /\ n.backslash = m.backslash \cap (start - base)..(Width - 1)
        /\ n.quote = m.quote \cap (start - base)..(Width - 1)
        /\ n.op = m.op \cap (start - base)..(Width - 1)
    BY <1>4, LiveOf DEF m
  <2>. HIDE DEF n, block
  <2>3. ReadsOps(BlockAt(base), m)
    BY <1>3 DEF block
  <2>. DEFINE next == BlockOps(NoCarries, n)
  <2>4. /\ next.bits = OpsHere
        /\ next.carries \in Carries
        /\ next.carries.in_string <=> WithinString(base + Width)
        /\ base + Width <= Len(text) => (next.carries.escaped <=> Escaped(base + Width))
    <3>. HIDE DEF next
    <3>. QED
      BY <1>1, <1>2, <2>1, <2>2, <2>3, FirstBlock DEF next
  <2>5. next = BlockOps(carries, Live(SkipMasks(BlockAt(base))))
    BY <1>4 DEF n, m, block
  <2>. HIDE DEF next
  <2>. QED
    BY <2>4, <2>5
<1>5. CASE start < base
  <2>1. base # BlockStart(start)
    <3>1. BlockStart(start) \in Nat /\ BlockStart(start) <= start
      BY <1>2, BlockStartIs
    <3>. QED
      BY <1>1, <1>2, <1>5, <3>1
  <2>2. /\ n.backslash = m.backslash \cap Bits
        /\ n.quote = m.quote \cap Bits
        /\ n.op = m.op \cap Bits
    BY <2>1, LiveOf DEF m
  <2>3. n.backslash = m.backslash /\ n.quote = m.quote /\ n.op = m.op
    BY <1>3, <2>2 DEF ReadsOps
  <2>. HIDE DEF n, block
  <2>4. ReadsOps(BlockAt(base), n)
    BY <1>3, <2>3 DEF ReadsOps, block
  <2>5. carries \in Carries /\ (carries.in_string <=> WithinString(base)) /\ base \in 0..Len(text)
    <3>1. base # BlockStart(start)
      BY <2>1
    <3>. QED
      BY <1>1, <3>1 DEF BlockSkip
  <2>6. carries.escaped <=> Escaped(base)
    BY <1>1, <2>1, <2>5 DEF BlockSkip
  <2>. DEFINE next == BlockOps(carries, n)
  <2>7. /\ next.bits = OpsHere
        /\ next.carries \in Carries
        /\ next.carries.in_string <=> WithinString(base + Width)
        /\ base + Width <= Len(text) => (next.carries.escaped <=> Escaped(base + Width))
    <3>. HIDE DEF next
    <3>. QED
      BY <1>1, <1>2, <1>5, <2>4, <2>5, <2>6, LaterBlock DEF next
  <2>8. next = BlockOps(carries, Live(SkipMasks(BlockAt(base))))
    BY DEF n, m, block
  <2>. HIDE DEF next
  <2>. QED
    BY <2>7, <2>8
<1>. QED
  BY <1>1, <1>4, <1>5 DEF BlockSkip

(* Scanned by blocks.                                                      *)
LEMMA BlockGoesOn ==
    ASSUME UNCHANGED <<text, start>>, NEW n, base' = n, start < n,
           carries' \in Carries, carries'.in_string <=> WithinString(n),
           n <= Len(text) => (carries'.escaped <=> Escaped(n))
    PROVE  BlockSkip'
<1>1. (Escaped(n)' <=> Escaped(n)) /\ (WithinString(n)' <=> WithinString(n))
  BY SameText
<1>2. WithinString(base)' <=> WithinString(n)
  BY <1>1 DEF WithinString
<1>3. Escaped(base)' <=> Escaped(n)
  BY <1>1 DEF Escaped
<1>. QED
  BY <1>2, <1>3 DEF BlockSkip, Carries

(* A block with the end of the container, and one without.                 *)
LEMMA BlockSkipped ==
    ASSUME IndexInv, SkipInv, SkipBlock
    PROVE  SkipInv'
<1>. DEFINE found == BlockOps(carries, Live(SkipMasks(BlockAt(base))))
            closing == {i \in found.bits : /\ text[base + i + 1] \in Closers
                                           /\ DepthAfter(found.bits, i) = 0}
            first == CHOOSE i \in closing : \A j \in closing : i <= j
<1>1. /\ pc = "skip" /\ target.isa # "scalar" /\ base < Len(text)
      /\ IF closing # {}
         THEN SkipEnds(base + first + 1)
         ELSE /\ carries' = found.carries
              /\ depth' = DepthAfter(found.bits, Width)
              /\ base' = base + Width
              /\ UNCHANGED <<text, target, pc, out, fits, start, quoted, end>>
  BY Zenon DEF SkipBlock, SkipMasks
<1>2. UNCHANGED <<text, target, start>> /\ pc' \in {"skip", "skipped"}
  BY <1>1 DEF SkipEnds
<1>3. Skippable' <=> Skippable
  BY <1>2, SameSkip
<1>. SUFFICES ASSUME Skippable PROVE SkipInv'
  BY <1>2, <1>3 DEF SkipInv
<1>4. Skipping /\ Benign
  BY <1>1 DEF SkipInv, Skippable
<1>5. /\ text \in Seq(0..255) /\ Len(text) \in Nat /\ base \in Nat /\ AtOpener
      /\ NoneBefore(base) /\ depth = LevelTo(base - 1)
      /\ start \in Offsets /\ start \in Nat /\ Width \in Nat \ {0}
  BY <1>4, WidthFacts DEF IndexInv, Skipping, AtOpener, Offsets
<1>6. /\ found.bits = OpsHere
      /\ found.carries \in Carries
      /\ found.carries.in_string <=> WithinString(base + Width)
      /\ base + Width <= Len(text) => (found.carries.escaped <=> Escaped(base + Width))
  BY <1>1, <1>4, BlockFinds
<1>. HIDE DEF found
<1>7. /\ \A i \in Bits : DepthAfter(OpsHere, i) = LevelTo(base + i)
      /\ DepthAfter(OpsHere, Width) = LevelTo(base + Width - 1)
  BY <1>5, DepthIsLevel
<1>8. ASSUME NEW i
      PROVE  i \in closing <=> i \in Bits /\ base + i \in Closing
  <2>1. i \in OpsHere /\ text[base + i + 1] \in Closers
        <=> i \in Bits /\ base + i \in Closes /\ start <= base + i
    BY DEF OpsHere, Closes, Ops
  <2>. QED
    BY <1>6, <1>7, <2>1 DEF Closing, OpsHere
<1>. HIDE DEF closing
<1>9. \A j \in Closing : j \in Nat
  BY <1>5, ClosingFacts
<1>10. CASE closing # {}
  <2>1. PICK i \in closing : \A j \in closing : i <= j
    <3>1. closing \subseteq Nat
      BY <1>8, WidthFacts
    <3>. QED
      BY <1>10, <3>1, LeastElement
  <2>2. first \in closing /\ \A j \in closing : first <= j
    BY <2>1
  <2>. HIDE DEF first
  <2>3. first \in Bits /\ base + first \in Closing
    BY <1>8, <2>2
  <2>. DEFINE b == base + first
  <2>4. ASSUME NEW j \in Closing PROVE b <= j
    <3>1. j \in Nat /\ ~ (j < base) /\ first \in 0..(Width - 1)
      BY <1>5, <1>9, <2>3 DEF NoneBefore, Bits
    <3>2. CASE j < base + Width
      <4>1. j - base \in 0..(Width - 1) /\ base + (j - base) = j
        BY <1>5, <3>1, <3>2
      <4>2. j - base \in closing
        BY <1>8, <4>1 DEF Bits
      <4>3. first <= j - base
        BY <2>2, <4>2
      <4>. QED
        BY <1>5, <3>1, <4>1, <4>3
    <3>3. CASE ~ (j < base + Width)
      BY <1>5, <3>1, <3>3
    <3>. QED
      BY <3>2, <3>3
  <2>5. end' = b + 1 /\ pc' = "skipped"
    BY <1>1, <1>10 DEF SkipEnds
  <2>6. b \in Closing
    BY <2>3
  <2>. HIDE DEF b
  <2>. QED
    BY <1>2, <1>5, <2>4, <2>5, <2>6, SkipEnded
<1>11. CASE closing = {}
  <2>. DEFINE n == base + Width
  <2>1. /\ carries' = found.carries /\ depth' = DepthAfter(OpsHere, Width) /\ base' = n
        /\ UNCHANGED <<text, target, pc, start>>
    BY <1>1, <1>6, <1>11
  <2>2. n \in Nat /\ depth' = LevelTo(n - 1)
    BY <1>5, <1>7, <2>1
  <2>3. NoneBefore(n)
    <3>. SUFFICES ASSUME NEW j \in Closing, j < n PROVE FALSE
      BY DEF NoneBefore
    <3>1. j \in Nat /\ ~ (j < base)
      BY <1>5, <1>9 DEF NoneBefore
    <3>2. j - base \in 0..(Width - 1) /\ base + (j - base) = j
      BY <1>5, <3>1
    <3>. QED
      BY <1>8, <1>11, <3>2 DEF Bits
  <2>4. start < n
    <3>1. start <= base + (Width - 1)
      <4>1. CASE base = BlockStart(start)
        <5>1. start - base \in 0..(Width - 1)
          BY <1>5, <4>1, BlockStartIs DEF Bits
        <5>. QED
          BY <1>5, <5>1
      <4>2. CASE start < base
        BY <1>5, <4>2
      <4>. QED
        BY <1>1, <1>4, <4>1, <4>2 DEF Skipping, BlockSkip
    <3>. QED
      BY <1>5, <3>1
  <2>5. /\ carries' \in Carries
        /\ carries'.in_string <=> WithinString(n)
        /\ n <= Len(text) => (carries'.escaped <=> Escaped(n))
    BY <1>6, <2>1
  <2>. HIDE DEF n
  <2>6. BlockSkip'
    BY <2>1, <2>4, <2>5, BlockGoesOn
  <2>. QED
    BY <1>1, <1>5, <2>1, <2>2, <2>3, <2>6, SkipGoesOn
<1>. QED
  BY <1>10, <1>11

(* The end of the text, before a closer.                                   *)
LEMMA RanOut ==
    ASSUME IndexInv, SkipInv, SkipRunsOut
    PROVE  SkipInv'
<1>1. /\ pc = "skip" /\ base >= Len(text) /\ end' = None /\ pc' = "skipped"
      /\ UNCHANGED <<text, target, start>>
  BY DEF SkipRunsOut, SkipEnds
<1>2. (Skippable' <=> Skippable) /\ (AtOpener' <=> AtOpener) /\ Closing' = Closing
  BY <1>1, SameSkip
<1>. SUFFICES ASSUME Skippable PROVE SkipInv'
  BY <1>1, <1>2 DEF SkipInv
<1>3. AtOpener /\ NoneBefore(base) /\ base \in Nat /\ text \in Seq(0..255) /\ Len(text) \in Nat
  BY <1>1 DEF SkipInv, Skipping, IndexInv
<1>4. Closing = {}
  <2>1. \A j \in Closing : j \in Nat /\ j < Len(text) /\ ~ (j < base)
    BY <1>3, ClosingFacts DEF NoneBefore
  <2>. QED
    BY <1>1, <1>3, <2>1
<1>. QED
  BY <1>1, <1>2, <1>3, <1>4 DEF SkipInv, SkipResult, None

(* No skip has begun.                                                     *)
LEMMA SkipInit == Init => SkipInv
  BY DEF Init, SkipInv

(* Every step keeps what a skip relies on.                                 *)
LEMMA SkipNext ==
    ASSUME IndexInv, TokensInv, SkipInv, [Next]_vars
    PROVE  SkipInv'
<1>1. CASE Start
  BY <1>1 DEF Start, SkipInv
<1>2. CASE Refuse
  BY <1>2 DEF Refuse, SkipInv
<1>3. ASSUME NEW m, IndexBlock(m) PROVE SkipInv'
  BY <1>3 DEF IndexBlock, SkipInv
<1>4. ASSUME NEW m, IndexTail(m) PROVE SkipInv'
  BY <1>4 DEF IndexTail, SkipInv
<1>5. CASE DriverBlock \/ Avx2Block \/ ScalarBlock
  BY <1>3, <1>5 DEF DriverBlock, Avx2Block, ScalarBlock
<1>6. CASE DriverTail \/ Avx2Tail \/ ScalarTail
  BY <1>4, <1>6 DEF DriverTail, Avx2Tail, ScalarTail
<1>7. CASE Indexed
  BY <1>7 DEF Indexed, SkipInv
<1>8. CASE BeginSkip
  BY <1>8, SkipBegins
<1>9. CASE SkipBlock
  BY <1>9, BlockSkipped
<1>10. CASE ScalarSkipByte
  BY <1>10, ByteSkipped
<1>11. CASE ScalarSkipQuoted
  BY <1>11, QuotedSkipped
<1>12. CASE SkipRunsOut
  BY <1>12, RanOut
<1>13. CASE Finish
  BY <1>13 DEF Finish, SkipInv
<1>14. CASE UNCHANGED vars
  <2>1. UNCHANGED <<text, target, pc, base, carries, start, depth, quoted, end>>
    BY <1>14 DEF vars
  <2>2. /\ Skippable' <=> Skippable
        /\ AtOpener' <=> AtOpener
        /\ \A j : LevelTo(j)' = LevelTo(j)
        /\ Closing' = Closing
        /\ \A b : NoneBefore(b)' <=> NoneBefore(b)
    BY <2>1, SameSkip
  <2>3. LevelTo(base - 1)' = LevelTo(base - 1) /\ (NoneBefore(base)' <=> NoneBefore(base))
    BY <2>1, <2>2 DEF LevelTo, NoneBefore
  <2>4. /\ WithinString(base)' <=> WithinString(base)
        /\ Escaped(base)' <=> Escaped(base)
    BY <2>1, SameText DEF WithinString, Escaped
  <2>5. SkipResult' <=> SkipResult
    BY <2>1, <2>2 DEF SkipResult
  <2>6. (ByteSkip' <=> ByteSkip) /\ (BlockSkip' <=> BlockSkip)
    BY <2>1, <2>4 DEF ByteSkip, BlockSkip, BlockStart, Width, NoCarries, Carries
  <2>7. Skipping' <=> Skipping
    BY <2>1, <2>2, <2>3, <2>6 DEF Skipping
  <2>. QED
    BY <2>1, <2>2, <2>5, <2>7 DEF SkipInv
<1>. QED
  BY <1>1, <1>2, <1>5, <1>6, <1>7, <1>8, <1>9, <1>10, <1>11, <1>12, <1>13, <1>14 DEF Next

(* The three, together.                                                    *)
LEMMA SkipInvariance == Spec => [](IndexInv /\ TokensInv /\ SkipInv)
  BY IndexInit, IndexNext, TokensInit, TokensNext, SkipInit, SkipNext, PTL DEF Spec

(* A skip starts in the middle of a block, without the bytes before, and   *)
(* ends where the index of the whole text has the closer of its opener, or *)
(* nowhere if it has none: for every text in which no table misreads a     *)
(* byte outside a string, every kernel and width of a block; a scan by     *)
(* bytes needs the backslashes within strings (stage1.rs 757-799).         *)
THEOREM SkipEndsAtCloser == Spec => []SkipMatchesIndex
<1>1. ASSUME IndexInv, SkipInv PROVE SkipMatchesIndex
  <2>1. CASE pc = "skipped" /\ Skippable
    <3>1. text \in Seq(0..255) /\ start \in Offsets /\ SkipResult
      BY <1>1, <2>1 DEF IndexInv, SkipInv, AtOpener
    <3>. QED
      BY <3>1, ResultIs
  <2>2. CASE ~ (pc = "skipped" /\ Skippable)
    BY <2>2, Zenon DEF SkipMatchesIndex, Skippable
  <2>. QED
    BY <2>1, <2>2
<1>. QED
  BY <1>1, SkipInvariance, PTL
=============================================================================
