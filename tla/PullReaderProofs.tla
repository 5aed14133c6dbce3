-------------------------- MODULE PullReaderProofs --------------------------
(***************************************************************************)
(* The pull reader, for every set of documents (well-formed or not) and    *)
(* options, and every mixture of walking, skipping and sizing: the reader  *)
(* keeps its place (RInv), and container_len promises what the walk will   *)
(* meet (HintExact).  The walk moves entry by entry; skip_value and        *)
(* container_len look at the whole container at once.  What relates them,  *)
(* that the depth inside a container moves by at most one at an entry and  *)
(* so reaches no level unless it passed the one before, needs an induction *)
(* over positions: it is made on the least counterexample (LeastElement).  *)
(***************************************************************************)
EXTENDS PullReader, SequenceTheorems, FiniteSetTheorems, WellFoundedInduction, TLAPS

-----------------------------------------------------------------------------
(* A non-empty set of naturals has a least element: the way to an argument *)
(* by induction over positions of a document.                              *)
LEMMA LeastElement ==
    ASSUME NEW T, T \subseteq Nat, T # {}
    PROVE  \E n \in T : \A m \in T : n <= m
<1>. DEFINE Below == {0 .. n : n \in T}
<1>1. ASSUME NEW n \in T PROVE 0 .. n \in FiniteSubsetsOf(Nat)
  <2>1. 0 .. n \in SUBSET Nat /\ IsFiniteSet(0 .. n)
    BY FS_Interval
  <2>. QED
    BY <2>1 DEF FiniteSubsetsOf
<1>2. Below \subseteq FiniteSubsetsOf(Nat) /\ Below # {}
  BY <1>1
<1>3. PICK B \in Below : \A C \in Below : ~ (<<C, B>> \in StrictSubsetOrdering(Nat))
  <2>. HIDE DEF Below
  <2>. QED
    BY <1>2, FS_StrictSubsetOrderingWellFounded, WFMin
<1>4. PICK n \in T : B = 0 .. n
  BY <1>3
<1>5. ASSUME NEW m \in T, m < n PROVE FALSE
  <2>1. <<0 .. m, B>> \in StrictSubsetOrdering(Nat)
    BY <1>4, <1>5 DEF StrictSubsetOrdering
  <2>. QED
    BY <1>3, <2>1
<1>. QED
  BY <1>5

(* What First picks.                                                       *)
LEMMA FirstFacts ==
    ASSUME NEW T, T \subseteq Nat, T # {}
    PROVE  First(T) \in T /\ \A j \in T : First(T) <= j
BY LeastElement DEF First

-----------------------------------------------------------------------------
(* Counting brackets.                                                      *)

(* How many of the entries from..i are in a set of tokens.                 *)
CountOf(d, T, from, i) == Cardinality({j \in from .. i : d[j] \in T})

(* It is a number, none before the first entry, and counted entry by entry.*)
LEMMA CountStep ==
    ASSUME NEW d, NEW T, NEW from \in Nat, NEW i \in Int
    PROVE  /\ CountOf(d, T, from, i) \in Nat
           /\ i < from => CountOf(d, T, from, i) = 0
           /\ from <= i => CountOf(d, T, from, i) =
                 IF d[i] \in T THEN CountOf(d, T, from, i - 1) + 1 ELSE CountOf(d, T, from, i - 1)
<1>. DEFINE S(k) == {j \in from .. k : d[j] \in T}
<1>1. ASSUME NEW k \in Int PROVE IsFiniteSet(S(k)) /\ Cardinality(S(k)) \in Nat
  <2>1. IsFiniteSet(from .. k) /\ S(k) \in SUBSET (from .. k)
    BY FS_Interval
  <2>. QED
    BY <2>1, FS_Subset, FS_CardinalityType
<1>2. ASSUME i < from PROVE Cardinality(S(i)) = 0
  <2>1. S(i) = {}
    BY <1>2
  <2>. QED
    BY <2>1, FS_EmptySet
<1>3. ASSUME from <= i
      PROVE  Cardinality(S(i)) =
                IF d[i] \in T THEN Cardinality(S(i - 1)) + 1 ELSE Cardinality(S(i - 1))
  <2>1. from .. i = (from .. (i - 1)) \cup {i} /\ i \notin from .. (i - 1)
    BY <1>3
  <2>2. S(i) = IF d[i] \in T THEN S(i - 1) \cup {i} ELSE S(i - 1)
    BY <2>1
  <2>3. i \notin S(i - 1) /\ i - 1 \in Int
    BY <2>1
  <2>. HIDE DEF S
  <2>. QED
    BY <1>1, <2>2, <2>3, FS_AddElement
<1>. QED
  BY <1>1, <1>2, <1>3 DEF CountOf

(* The count over two stretches is the sum of theirs.                      *)
LEMMA CountSplit ==
    ASSUME NEW d, NEW T, NEW from \in Nat, NEW m \in Int, NEW i \in Int,
           from <= m + 1, m <= i
    PROVE  CountOf(d, T, from, i) = CountOf(d, T, from, m) + CountOf(d, T, m + 1, i)
<1>. DEFINE S(a, k) == {j \in a .. k : d[j] \in T}
<1>1. ASSUME NEW a \in Int, NEW k \in Int PROVE IsFiniteSet(S(a, k)) /\ Cardinality(S(a, k)) \in Nat
  <2>1. IsFiniteSet(a .. k) /\ S(a, k) \in SUBSET (a .. k)
    BY FS_Interval
  <2>. QED
    BY <2>1, FS_Subset, FS_CardinalityType
<1>2. from .. i = (from .. m) \cup ((m + 1) .. i) /\ (from .. m) \cap ((m + 1) .. i) = {}
  OBVIOUS
<1>3. S(from, i) = S(from, m) \cup S(m + 1, i) /\ S(from, m) \cap S(m + 1, i) = {}
  BY <1>2
<1>4. IsFiniteSet(S(from, m)) /\ IsFiniteSet(S(m + 1, i)) /\ m + 1 \in Int
  BY <1>1
<1>5. Cardinality(S(from, m)) \in Nat /\ Cardinality(S(m + 1, i)) \in Nat
  BY <1>1, <1>4
<1>. HIDE DEF S
<1>6. Cardinality(S(from, i)) = Cardinality(S(from, m)) + Cardinality(S(m + 1, i)) - 0
  BY <1>3, <1>4, FS_Union, FS_EmptySet
<1>. QED
  BY <1>5, <1>6 DEF CountOf, S

-----------------------------------------------------------------------------
(* Depth.                                                                  *)

(* One before the first entry; an opener adds one, a closer takes one, and *)
(* no other entry changes it.                                              *)
LEMMA DepthStep ==
    ASSUME NEW d, NEW from \in Nat, NEW i \in Int
    PROVE  /\ Depth(d, from, i) \in Int
           /\ i < from => Depth(d, from, i) = 1
           /\ from <= i /\ d[i] \in Openers => Depth(d, from, i) = Depth(d, from, i - 1) + 1
           /\ from <= i /\ d[i] \in Closers => Depth(d, from, i) = Depth(d, from, i - 1) - 1
           /\ from <= i /\ d[i] \notin Openers \cup Closers => Depth(d, from, i) = Depth(d, from, i - 1)
<1>. DEFINE O(k) == CountOf(d, Openers, from, k)
            C(k) == CountOf(d, Closers, from, k)
<1>1. \A k : Depth(d, from, k) = 1 + O(k) - C(k)
  BY DEF Depth, CountOf
<1>2. i - 1 \in Int
  OBVIOUS
<1>3. /\ O(i) \in Nat /\ O(i - 1) \in Nat
      /\ i < from => O(i) = 0
      /\ from <= i => O(i) = IF d[i] \in Openers THEN O(i - 1) + 1 ELSE O(i - 1)
  BY <1>2, CountStep
<1>4. /\ C(i) \in Nat /\ C(i - 1) \in Nat
      /\ i < from => C(i) = 0
      /\ from <= i => C(i) = IF d[i] \in Closers THEN C(i - 1) + 1 ELSE C(i - 1)
  BY <1>2, CountStep
<1>5. Openers \cap Closers = {}
  BY DEF Openers, Closers
<1>. HIDE DEF O, C
<1>. QED
  BY <1>1, <1>3, <1>4, <1>5

(* The depth at the end of two stretches.                                  *)
LEMMA DepthSplit ==
    ASSUME NEW d, NEW from \in Nat, NEW m \in Nat, NEW i \in Int, from <= m + 1, m <= i
    PROVE  Depth(d, from, i) = Depth(d, from, m) + Depth(d, m + 1, i) - 1
<1>1. m + 1 \in Nat /\ m \in Int
  OBVIOUS
<1>2. /\ CountOf(d, Openers, from, i) = CountOf(d, Openers, from, m) + CountOf(d, Openers, m + 1, i)
      /\ CountOf(d, Closers, from, i) = CountOf(d, Closers, from, m) + CountOf(d, Closers, m + 1, i)
  BY <1>1, CountSplit
<1>3. /\ CountOf(d, Openers, from, m) \in Nat /\ CountOf(d, Openers, m + 1, i) \in Nat
      /\ CountOf(d, Closers, from, m) \in Nat /\ CountOf(d, Closers, m + 1, i) \in Nat
  BY <1>1, CountStep
<1>4. \A a, k : Depth(d, a, k) = 1 + CountOf(d, Openers, a, k) - CountOf(d, Closers, a, k)
  BY DEF Depth, CountOf
<1>. QED
  BY <1>2, <1>3, <1>4

(* Up to the first entry where it is 0, it is 1 or more: it goes down one  *)
(* at a time.                                                              *)
LEMMA DepthAboveZero ==
    ASSUME NEW d, NEW from \in Nat, NEW n \in Int,
           \A i \in from .. n : Depth(d, from, i) # 0
    PROVE  \A i \in from .. n : Depth(d, from, i) >= 1
<1>. DEFINE D(k) == Depth(d, from, k)
            Low == {i \in from .. n : D(i) < 1}
<1>1. ASSUME NEW k \in Int
      PROVE  /\ D(k) \in Int
             /\ k < from => D(k) = 1
             /\ from <= k => D(k) >= D(k - 1) - 1
  <2>1. k - 1 \in Int
    OBVIOUS
  <2>2. D(k) \in Int /\ D(k - 1) \in Int
    BY <2>1, DepthStep
  <2>3. k < from => D(k) = 1
    BY DepthStep
  <2>4. from <= k => \/ D(k) = D(k - 1) + 1
                     \/ D(k) = D(k - 1) - 1
                     \/ D(k) = D(k - 1)
    BY DepthStep
  <2>. HIDE DEF D
  <2>. QED
    BY <2>2, <2>3, <2>4
<1>2. \A i \in from .. n : D(i) # 0
  OBVIOUS
<1>. HIDE DEF D
<1>3. ASSUME Low # {} PROVE FALSE
  <2>1. Low \subseteq Nat
    OBVIOUS
  <2>. HIDE DEF Low
  <2>2. PICK i \in Low : \A j \in Low : i <= j
    BY <1>3, <2>1, LeastElement
  <2>3. i \in Nat /\ from <= i /\ i <= n /\ i - 1 \in Int /\ D(i) < 1 /\ D(i) # 0
    BY <1>2, <2>1, <2>2 DEF Low
  <2>4. i - 1 \notin Low
    BY <2>2, <2>3
  <2>5. D(i - 1) >= 1
    BY <1>1, <2>3, <2>4 DEF Low
  <2>. QED
    BY <1>1, <2>3, <2>5
<1>4. \A i \in from .. n : D(i) >= 1
  BY <1>1, <1>3
<1>. QED
  BY <1>4 DEF D

-----------------------------------------------------------------------------
(* The commas between the members of a container, and what container_len   *)
(* makes of them.                                                          *)

(* They are members of one set, whatever the entry counted up to.          *)
TopCommas(d, from) == {j \in Int : d[j] = "," /\ Depth(d, from, j) = 1}

LEMMA CommasAre ==
    ASSUME NEW d, NEW from \in Nat, NEW i \in Int
    PROVE  Commas(d, from, i) = TopCommas(d, from) \cap (from .. i)
<1>1. \A j \in from .. i : j \in Int
  OBVIOUS
<1>. QED
  BY <1>1, Zenon DEF Commas, TopCommas

(* There are finitely many, none before the first entry, and an entry adds *)
(* itself or nothing.                                                      *)
LEMMA CommasStep ==
    ASSUME NEW d, NEW from \in Nat, NEW i \in Int
    PROVE  /\ IsFiniteSet(Commas(d, from, i)) /\ Cardinality(Commas(d, from, i)) \in Nat
           /\ i < from => Commas(d, from, i) = {}
           /\ from <= i /\ i \in TopCommas(d, from) =>
                 Cardinality(Commas(d, from, i)) = Cardinality(Commas(d, from, i - 1)) + 1
           /\ from <= i /\ i \notin TopCommas(d, from) =>
                 Commas(d, from, i) = Commas(d, from, i - 1)
<1>. DEFINE T == TopCommas(d, from)
<1>1. ASSUME NEW k \in Int
      PROVE  IsFiniteSet(T \cap (from .. k)) /\ Cardinality(T \cap (from .. k)) \in Nat
  <2>1. IsFiniteSet(from .. k)
    BY FS_Interval
  <2>. QED
    BY <2>1, FS_Intersection, FS_CardinalityType
<1>. HIDE DEF T
<1>2. i < from => T \cap (from .. i) = {}
  OBVIOUS
<1>3. ASSUME from <= i
      PROVE  T \cap (from .. i) = IF i \in T THEN (T \cap (from .. (i - 1))) \cup {i}
                                            ELSE T \cap (from .. (i - 1))
  <2>1. from .. i = (from .. (i - 1)) \cup {i}
    BY <1>3
  <2>. QED
    BY <2>1
<1>4. i \notin T \cap (from .. (i - 1)) /\ i - 1 \in Int
  OBVIOUS
<1>5. Cardinality((T \cap (from .. (i - 1))) \cup {i}) = Cardinality(T \cap (from .. (i - 1))) + 1
  BY <1>1, <1>4, FS_AddElement
<1>6. Commas(d, from, i) = T \cap (from .. i) /\ Commas(d, from, i - 1) = T \cap (from .. (i - 1))
  BY <1>4, CommasAre DEF T
<1>7. from <= i /\ i \in T => Cardinality(T \cap (from .. i)) = Cardinality(T \cap (from .. (i - 1))) + 1
  BY <1>3, <1>5
<1>. QED
  BY <1>1, <1>2, <1>3, <1>6, <1>7, Zenon DEF T

(* A stretch deeper in the container adds none.                            *)
LEMMA CommasStretch ==
    ASSUME NEW d, NEW from \in Nat, NEW m \in Int, NEW i \in Int, m <= i, from <= m + 1,
           \A j \in m + 1 .. i : j \notin TopCommas(d, from)
    PROVE  Commas(d, from, i) = Commas(d, from, m)
<1>1. from .. i = (from .. m) \cup ((m + 1) .. i)
  OBVIOUS
<1>. QED
  BY <1>1, CommasAre

(* Where a walk over a container ends.                                     *)
LEMMA FirstEnd ==
    ASSUME NEW d, NEW from \in Nat, Len(d) \in Nat, NEW k \in from .. Len(d),
           \A i \in from .. k - 1 : Depth(d, from, i) >= 1,
           Depth(d, from, k) = 0
    PROVE  EndsOf(d, from) # {} /\ First(EndsOf(d, from)) = k
<1>1. EndsOf(d, from) \subseteq Nat /\ k \in EndsOf(d, from)
  BY DEF EndsOf
<1>2. ASSUME NEW i \in EndsOf(d, from) PROVE k <= i
  <2>1. i \in from .. Len(d) /\ Depth(d, from, i) = 0
    BY DEF EndsOf
  <2>. QED
    BY <2>1
<1>3. /\ First(EndsOf(d, from)) \in EndsOf(d, from)
      /\ \A j \in EndsOf(d, from) : First(EndsOf(d, from)) <= j
  BY <1>1, FirstFacts
<1>. QED
  BY <1>1, <1>2, <1>3

(* What container_len says of a container, once its closer is known: none  *)
(* for an empty one, or one more than the commas before the closer without *)
(* one right before it.                                                    *)
LEMMA MembersAtEnd ==
    ASSUME NEW d, NEW s \in Nat, Len(d) \in Nat, NEW k \in s + 1 .. Len(d),
           \A i \in s + 1 .. k - 1 : Depth(d, s + 1, i) >= 1,
           Depth(d, s + 1, k) = 0, d[k] \in Closers
    PROVE  Members(d, s + 1) =
              IF k = s + 1 THEN 0
              ELSE Cardinality(Commas(d, s + 1, k - 1)) - (IF d[k - 1] = "," THEN 1 ELSE 0) + 1
<1>1. s + 1 \in Nat /\ k \in Nat /\ k \in Int /\ s + 1 <= Len(d) /\ s + 1 <= k
  OBVIOUS
<1>2. EndsOf(d, s + 1) # {} /\ First(EndsOf(d, s + 1)) = k
  BY <1>1, FirstEnd
<1>3. CASE k = s + 1
  BY <1>3 DEF Members
<1>4. CASE k # s + 1
  <2>1. s + 1 \in s + 1 .. k - 1
    BY <1>1, <1>4
  <2>2. Depth(d, s + 1, s + 1) >= 1 /\ Depth(d, s + 1, (s + 1) - 1) = 1
    <3>1. (s + 1) - 1 \in Int /\ (s + 1) - 1 < s + 1
      BY <1>1
    <3>. QED
      BY <1>1, <2>1, <3>1, DepthStep
  <2>3. d[s + 1] \notin Closers
    <3>1. s + 1 \in Int /\ s + 1 <= s + 1
      BY <1>1
    <3>2. d[s + 1] \in Closers => Depth(d, s + 1, s + 1) = Depth(d, s + 1, (s + 1) - 1) - 1
      BY <1>1, <3>1, DepthStep
    <3>. QED
      BY <2>2, <3>2
  <2>4. Commas(d, s + 1, k) = Commas(d, s + 1, k - 1)
    <3>1. d[k] # ","
      BY DEF Closers
    <3>2. k \notin TopCommas(d, s + 1)
      BY <3>1, Zenon DEF TopCommas
    <3>. QED
      BY <1>1, <3>2, CommasStep
  <2>5. ~ (s + 1 > Len(d) \/ d[s + 1] \in Closers)
    BY <1>1, <2>3
  <2>. QED
    BY <1>2, <1>4, <2>4, <2>5 DEF Members
<1>. QED
  BY <1>3, <1>4

-----------------------------------------------------------------------------
(* What the entries that are taken next make of a container a walk is in.  *)

(* The container just opened.                                              *)
LEMMA InsideStart ==
    ASSUME NEW d, NEW s \in Nat
    PROVE  Inside(d, s, s, 1, 0)
<1>1. s + 1 \in Nat /\ s \in Int /\ s < s + 1
  OBVIOUS
<1>2. Depth(d, s + 1, s) = 1 /\ Commas(d, s + 1, s) = {}
  BY <1>1, DepthStep, CommasStep
<1>. QED
  BY <1>1, <1>2, FS_EmptySet DEF Inside

(* What one more entry does to the depth and the commas.                   *)
LEMMA NextEntry ==
    ASSUME NEW d, NEW from \in Nat, NEW p \in Nat, from <= p + 1
    PROVE  /\ Depth(d, from, p) \in Int
           /\ d[p + 1] \in Openers => Depth(d, from, p + 1) = Depth(d, from, p) + 1
           /\ d[p + 1] \in Closers => Depth(d, from, p + 1) = Depth(d, from, p) - 1
           /\ d[p + 1] \notin Openers \cup Closers => Depth(d, from, p + 1) = Depth(d, from, p)
           /\ p + 1 \in TopCommas(d, from) =>
                 Cardinality(Commas(d, from, p + 1)) = Cardinality(Commas(d, from, p)) + 1
           /\ p + 1 \notin TopCommas(d, from) => Commas(d, from, p + 1) = Commas(d, from, p)
<1>1. p + 1 \in Int /\ (p + 1) - 1 = p /\ p \in Int
  OBVIOUS
<1>2. /\ Depth(d, from, p) \in Int
      /\ d[p + 1] \in Openers => Depth(d, from, p + 1) = Depth(d, from, (p + 1) - 1) + 1
      /\ d[p + 1] \in Closers => Depth(d, from, p + 1) = Depth(d, from, (p + 1) - 1) - 1
      /\ d[p + 1] \notin Openers \cup Closers => Depth(d, from, p + 1) = Depth(d, from, (p + 1) - 1)
  BY <1>1, DepthStep
<1>3. /\ p + 1 \in TopCommas(d, from) =>
            Cardinality(Commas(d, from, p + 1)) = Cardinality(Commas(d, from, (p + 1) - 1)) + 1
      /\ p + 1 \notin TopCommas(d, from) => Commas(d, from, p + 1) = Commas(d, from, (p + 1) - 1)
  BY <1>1, CommasStep
<1>. QED
  BY <1>1, <1>2, <1>3

(* A comma is between the members when the depth is 1, and only a comma is.*)
LEMMA TopComma ==
    ASSUME NEW d, NEW from, NEW i \in Int
    PROVE  i \in TopCommas(d, from) <=> d[i] = "," /\ Depth(d, from, i) = 1
BY Zenon DEF TopCommas

(* One entry more of a container the walk stays in.                        *)
LEMMA InsideNext ==
    ASSUME NEW d, NEW s \in Nat, NEW p \in Nat, s <= p, NEW n \in Nat \ {0}, NEW c,
           Inside(d, s, p, n, c)
    PROVE  /\ d[p + 1] \in Openers => Inside(d, s, p + 1, n + 1, c)
           /\ d[p + 1] \in Closers /\ n >= 2 => Inside(d, s, p + 1, n - 1, c)
           /\ d[p + 1] \notin Openers \cup Closers \cup {","} => Inside(d, s, p + 1, n, c)
           /\ d[p + 1] = "," /\ n = 1 => Inside(d, s, p + 1, 1, c + 1)
           /\ d[p + 1] = "," /\ n >= 2 => Inside(d, s, p + 1, n, c)
<1>. DEFINE D(i) == Depth(d, s + 1, i)
            N(i) == Cardinality(Commas(d, s + 1, i))
<1>1. s + 1 \in Nat /\ s + 1 <= p + 1 /\ p + 1 \in Int
  OBVIOUS
<1>2. (\A i \in s + 1 .. p : D(i) >= 1) /\ D(p) = n /\ N(p) = c
  BY DEF Inside
<1>3. p + 1 \in TopCommas(d, s + 1) <=> d[p + 1] = "," /\ D(p + 1) = 1
  BY <1>1, TopComma
<1>4. /\ d[p + 1] \in Openers => D(p + 1) = n + 1
      /\ d[p + 1] \in Closers => D(p + 1) = n - 1
      /\ d[p + 1] \notin Openers \cup Closers => D(p + 1) = n
  <2>1. /\ d[p + 1] \in Openers => D(p + 1) = D(p) + 1
        /\ d[p + 1] \in Closers => D(p + 1) = D(p) - 1
        /\ d[p + 1] \notin Openers \cup Closers => D(p + 1) = D(p)
    BY <1>1, NextEntry, ZenonT(40)
  <2>. HIDE DEF D
  <2>. QED
    BY <1>2, <2>1
<1>5. /\ p + 1 \in TopCommas(d, s + 1) => N(p + 1) = c + 1
      /\ p + 1 \notin TopCommas(d, s + 1) => N(p + 1) = c
  BY <1>1, <1>2, NextEntry
<1>6. ASSUME NEW depth \in Int, depth >= 1, D(p + 1) = depth, NEW commas, N(p + 1) = commas
      PROVE  Inside(d, s, p + 1, depth, commas)
  <2>1. \A i \in s + 1 .. p + 1 : i \in s + 1 .. p \/ i = p + 1
    OBVIOUS
  <2>2. \A i \in s + 1 .. p + 1 : D(i) >= 1
    BY <1>2, <1>6, <2>1
  <2>. QED
    BY <1>6, <2>2 DEF Inside
<1>7. "," \notin Openers \cup Closers
  BY DEF Openers, Closers
<1>. HIDE DEF D, N
<1>8. ASSUME d[p + 1] \in Openers PROVE Inside(d, s, p + 1, n + 1, c)
  <2>1. n + 1 \in Int /\ n + 1 >= 1
    BY <1>8
  <2>2. D(p + 1) = n + 1
    BY <1>7, <1>4, <1>8
  <2>3. p + 1 \notin TopCommas(d, s + 1)
    BY <1>7, <1>3, <1>8, <2>2
  <2>4. N(p + 1) = c
    BY <1>5, <2>3
  <2>. QED
    BY <1>6, <2>1, <2>2, <2>4
<1>9. ASSUME d[p + 1] \in Closers, n >= 2 PROVE Inside(d, s, p + 1, n - 1, c)
  <2>1. n - 1 \in Int /\ n - 1 >= 1
    BY <1>9
  <2>2. D(p + 1) = n - 1
    BY <1>7, <1>4, <1>9
  <2>3. p + 1 \notin TopCommas(d, s + 1)
    BY <1>7, <1>3, <1>9, <2>2
  <2>4. N(p + 1) = c
    BY <1>5, <2>3
  <2>. QED
    BY <1>6, <2>1, <2>2, <2>4
<1>10. ASSUME d[p + 1] \notin Openers \cup Closers \cup {","} PROVE Inside(d, s, p + 1, n, c)
  <2>1. n \in Int /\ n >= 1
    OBVIOUS
  <2>2. D(p + 1) = n
    BY <1>4, <1>10
  <2>3. p + 1 \notin TopCommas(d, s + 1)
    BY <1>3, <1>10, <2>2
  <2>4. N(p + 1) = c
    BY <1>5, <2>3
  <2>. QED
    BY <1>6, <2>1, <2>2, <2>4
<1>11. ASSUME d[p + 1] = ",", n = 1 PROVE Inside(d, s, p + 1, 1, c + 1)
  <2>1. 1 \in Int /\ 1 >= 1
    OBVIOUS
  <2>2. D(p + 1) = 1
    BY <1>7, <1>4, <1>11
  <2>3. p + 1 \in TopCommas(d, s + 1)
    BY <1>7, <1>3, <1>11, <2>2
  <2>4. N(p + 1) = c + 1
    BY <1>5, <2>3
  <2>. QED
    BY <1>6, <2>1, <2>2, <2>4
<1>12. ASSUME n >= 2 PROVE d[p + 1] = "," => Inside(d, s, p + 1, n, c)
  <2>1. n \in Int /\ n >= 1 /\ n # 1
    BY <1>12
  <2>2. ASSUME d[p + 1] = "," PROVE D(p + 1) = n
    BY <1>4, <1>7, <2>2
  <2>3. ASSUME d[p + 1] = "," PROVE D(p + 1) # 1
    BY <2>1, <2>2, <2>3
  <2>4. d[p + 1] = "," => N(p + 1) = c
    BY <1>3, <1>5, <2>3
  <2>. QED
    BY <1>6, <2>1, <2>2, <2>4
<1>. QED
  BY <1>8, <1>9, <1>10, <1>11, <1>12

(* A walk that stops where brackets balance stops at a closer.             *)
LEMMA SkipEnd ==
    ASSUME NEW d, NEW from \in Nat, NEW k \in Nat, from <= k,
           \A i \in from .. k - 1 : Depth(d, from, i) # 0,
           Depth(d, from, k) = 0
    PROVE  d[k] \in Closers
<1>1. k - 1 \in Int /\ k \in Int
  OBVIOUS
<1>2. Depth(d, from, k - 1) \in Int /\ Depth(d, from, k - 1) >= 1
  <2>1. \A i \in from .. k - 1 : Depth(d, from, i) >= 1
    BY <1>1, DepthAboveZero
  <2>2. CASE k - 1 < from
    <3>1. Depth(d, from, k - 1) = 1
      BY <1>1, <2>2, DepthStep
    <3>. QED
      BY <3>1
  <2>3. CASE k - 1 >= from
    <3>1. k - 1 \in from .. k - 1
      BY <1>1, <2>3
    <3>. QED
      BY <1>1, <2>1, <3>1, DepthStep
  <2>. QED
    BY <1>1, <2>2, <2>3
<1>3. /\ d[k] \in Openers => Depth(d, from, k) = Depth(d, from, k - 1) + 1
      /\ d[k] \notin Openers \cup Closers => Depth(d, from, k) = Depth(d, from, k - 1)
  BY <1>1, DepthStep
<1>. QED
  BY <1>2, <1>3

(* A container stepped over from its opener to the entry where brackets    *)
(* balance: that entry is a closer, and to the containers around it the    *)
(* whole is one value.                                                     *)
LEMMA InsideSkip ==
    ASSUME NEW d, NEW s \in Nat, NEW p \in Nat, s <= p, NEW n \in Nat \ {0}, NEW c,
           Inside(d, s, p, n, c),
           NEW k \in Nat, p + 2 <= k, d[p + 1] \in Openers,
           \A i \in p + 2 .. k - 1 : Depth(d, p + 2, i) # 0,
           Depth(d, p + 2, k) = 0
    PROVE  Inside(d, s, k, n, c)
<1>. DEFINE D(i) == Depth(d, s + 1, i)
            E(i) == Depth(d, p + 2, i)
<1>1. /\ s + 1 \in Nat /\ p + 1 \in Nat /\ p + 2 \in Nat /\ (p + 1) + 1 = p + 2
      /\ s + 1 <= p + 1 /\ s + 1 <= (p + 1) + 1 /\ k - 1 \in Int
  OBVIOUS
<1>2. \A i \in p + 2 .. k - 1 : E(i) >= 1
  BY <1>1, DepthAboveZero
<1>3. D(p + 1) = n + 1
  <2>1. D(p) = n
    BY DEF Inside
  <2>2. D(p + 1) = D(p) + 1
    BY <1>1, NextEntry, ZenonT(40)
  <2>. QED
    BY <2>1, <2>2
<1>4. ASSUME NEW i \in p + 1 .. k PROVE D(i) = n + E(i) /\ E(i) \in Int
  <2>1. i \in Int /\ p + 1 <= i
    BY <1>1
  <2>2. Depth(d, s + 1, i) = Depth(d, s + 1, p + 1) + Depth(d, (p + 1) + 1, i) - 1
    BY <1>1, <2>1, DepthSplit
  <2>3. E(i) \in Int
    BY <1>1, <2>1, DepthStep
  <2>. QED
    BY <1>1, <1>3, <2>2, <2>3
<1>5. \A i \in s + 1 .. p : D(i) >= 1
  BY DEF Inside
<1>6. E(k) = 0
  OBVIOUS
<1>. HIDE DEF D, E
<1>7. k \in p + 1 .. k /\ D(k) = n
  BY <1>1, <1>4, <1>6
<1>8. \A i \in s + 1 .. k : D(i) >= 1
  <2>1. ASSUME NEW i \in s + 1 .. k PROVE \/ i \in s + 1 .. p
                                          \/ i = p + 1
                                          \/ i \in p + 2 .. k - 1 /\ i \in p + 1 .. k
                                          \/ i = k
    BY <1>1
  <2>2. \A i \in p + 2 .. k - 1 : i \in p + 1 .. k => D(i) >= 1
    BY <1>2, <1>4
  <2>3. n >= 1 /\ n + 1 >= 1
    OBVIOUS
  <2>. QED
    BY <1>3, <1>5, <1>7, <2>1, <2>2, <2>3
<1>9. Commas(d, s + 1, k) = Commas(d, s + 1, p)
  <2>1. ASSUME NEW i \in p + 1 .. k PROVE i \notin TopCommas(d, s + 1)
    <3>1. i \in Int /\ (i = p + 1 \/ i \in p + 2 .. k - 1 \/ i = k)
      BY <1>1
    <3>2. CASE i = p + 1
      BY <3>1, <3>2, TopComma DEF Openers
    <3>3. CASE i \in p + 2 .. k - 1
      <4>1. D(i) # 1
        BY <1>2, <1>4, <2>1, <3>3
      <4>. QED
        BY <3>1, <4>1, TopComma DEF D
    <3>4. CASE i = k
      <4>1. d[k] \in Closers
        BY <1>1, SkipEnd
      <4>. QED
        BY <3>1, <3>4, <4>1, TopComma DEF Closers
    <3>. QED
      BY <3>1, <3>2, <3>3, <3>4
  <2>. QED
    BY <1>1, <2>1, CommasStretch
<1>. QED
  BY <1>7, <1>8, <1>9 DEF Inside, D

-----------------------------------------------------------------------------
(* The host's stack of containers.                                         *)

(* Its innermost entry, and the stack without it.                          *)
LEMMA FrontFacts ==
    ASSUME NEW o \in Seq(Container), o # <<>>
    PROVE  /\ Len(o) \in Nat \ {0} /\ Last(o) = o[Len(o)] /\ Last(o) \in Container
           /\ Front(o) \in Seq(Container)
           /\ Len(Front(o)) = Len(o) - 1
           /\ \A k \in 1 .. Len(o) - 1 : Front(o)[k] = o[k]
<1>1. Len(o) \in Nat \ {0} /\ Len(o) \in 1 .. Len(o)
  BY EmptySeq, LenProperties
<1>2. Last(o) = o[Len(o)] /\ Last(o) \in Container
  BY <1>1, ElementOfSeq DEF Last
<1>3. \A k \in 1 .. Len(o) - 1 : o[k] \in Container
  BY <1>1, ElementOfSeq
<1>4. /\ Front(o) \in Seq(Container)
      /\ Len(Front(o)) = Len(o) - 1
      /\ \A k \in 1 .. Len(o) - 1 : Front(o)[k] = o[k]
  <2>1. Front(o) = [k \in 1 .. Len(o) - 1 |-> o[k]]
    BY <1>1, <1>3, SubSeqProperties DEF Front
  <2>2. Len(o) - 1 \in Nat /\ Front(o) \in [1 .. Len(o) - 1 -> Container]
    BY <1>1, <1>3, <2>1
  <2>3. Front(o) \in Seq(Container)
    BY <2>2, SeqDef
  <2>4. DOMAIN Front(o) = 1 .. Len(o) - 1 /\ DOMAIN Front(o) = 1 .. Len(Front(o)) /\ Len(Front(o)) \in Nat
    BY <2>2, <2>3, LenProperties
  <2>. QED
    BY <2>1, <2>2, <2>3, <2>4
<1>. QED
  BY <1>1, <1>2, <1>4

(* A container with a member more.                                         *)
LEMMA CountedFacts ==
    ASSUME NEW c \in Container
    PROVE  LET e == [c EXCEPT !.len = c.len + 1]
           IN  e \in Container /\ e.hint = c.hint /\ e.kind = c.kind /\ e.len = c.len + 1
<1>1. c.len + 1 \in Nat
  BY DEF Container
<1>. QED
  BY <1>1 DEF Container

(* A member more: only the innermost container's count changes.            *)
LEMMA OneMoreFacts ==
    ASSUME NEW o \in Seq(Container)
    PROVE  /\ OneMore(o) \in Seq(Container)
           /\ Len(OneMore(o)) = Len(o)
           /\ \A k \in 1 .. Len(o) :
                 /\ OneMore(o)[k].hint = o[k].hint
                 /\ OneMore(o)[k].kind = o[k].kind
                 /\ OneMore(o)[k].len = IF k = Len(o) THEN o[k].len + 1 ELSE o[k].len
<1>1. CASE o = <<>>
  BY <1>1, EmptySeq DEF OneMore
<1>2. CASE o # <<>>
  <2>. DEFINE c == o[Len(o)]
              e == [c EXCEPT !.len = c.len + 1]
  <2>1. Len(o) \in Nat \ {0} /\ Last(o) = o[Len(o)] /\ Last(o) \in Container /\ Len(o) \in 1 .. Len(o)
    BY <1>2, FrontFacts
  <2>2. e \in Container /\ e.hint = o[Len(o)].hint /\ e.kind = o[Len(o)].kind /\ e.len = o[Len(o)].len + 1
    <3>1. c \in Container
      BY <2>1
    <3>. HIDE DEF c
    <3>2. e \in Container /\ e.hint = c.hint /\ e.kind = c.kind /\ e.len = c.len + 1
      BY <3>1, CountedFacts
    <3>. QED
      BY <3>2 DEF c
  <2>3. OneMore(o) = [o EXCEPT ![Len(o)] = e]
    BY <1>2, <2>1 DEF OneMore
  <2>. HIDE DEF e
  <2>4. /\ OneMore(o) \in Seq(Container)
        /\ Len(OneMore(o)) = Len(o)
        /\ \A k \in 1 .. Len(o) : OneMore(o)[k] = IF k = Len(o) THEN e ELSE o[k]
    BY <2>1, <2>2, <2>3, ExceptSeq
  <2>. QED
    BY <2>2, <2>4
<1>. QED
  BY <1>1, <1>2

(* One container more, at its start.                                       *)
LEMMA PushedFacts ==
    ASSUME NEW o \in Seq(Container), NEW e \in Container
    PROVE  /\ Append(o, e) \in Seq(Container)
           /\ Append(o, e) # <<>>
           /\ Len(Append(o, e)) = Len(o) + 1
           /\ \A k \in 1 .. Len(o) : Append(o, e)[k] = o[k]
           /\ Append(o, e)[Len(o) + 1] = e
BY AppendProperties

-----------------------------------------------------------------------------
(* What each kind of step makes of a walk.                                 *)

(* The facts of a walk, container by container.                            *)
LEMMA WalkedFacts ==
    ASSUME NEW d, NEW p \in Nat, NEW o \in Seq(Container), NEW at,
           NEW st \in [1 .. Len(o) -> 1 .. p], WalkedTo(d, p, at, o, st),
           NEW k \in 1 .. Len(o)
    PROVE  /\ st[k] \in Nat /\ st[k] <= p /\ st[k] \in 1 .. p
           /\ o[k].len \in Nat
           /\ Len(o) \in Nat /\ Len(o) - k + 1 \in Nat \ {0}
           /\ at = "next" /\ k = Len(o) => Inside(d, st[k], p, Len(o) - k + 1, o[k].len - 1)
           /\ ~ (at = "next" /\ k = Len(o)) => Inside(d, st[k], p, Len(o) - k + 1, o[k].len)
           /\ o[k].hint \in {NoHint, Members(d, st[k] + 1)}
<1>1. Len(o) \in Nat /\ o[k] \in Container
  BY LenProperties, ElementOfSeq
<1>2. o[k].len \in Nat /\ o[k].len - 0 = o[k].len
  BY <1>1 DEF Container
<1>3. st[k] \in 1 .. p
  OBVIOUS
<1>4. /\ Inside(d, st[k], p, Len(o) - k + 1,
                o[k].len - (IF at = "next" /\ k = Len(o) THEN 1 ELSE 0))
      /\ o[k].hint \in {NoHint, Members(d, st[k] + 1)}
  BY DEF WalkedTo
<1>. QED
  BY <1>1, <1>2, <1>3, <1>4

(* Every container a walk up to p is in stays as it is up to q.            *)
Passes(d, p, q) ==
    \A s \in 1 .. p, n \in Nat \ {0}, c \in Nat : Inside(d, s, p, n, c) => Inside(d, s, q, n, c)

(* The tokens that are no comma.                                           *)
NoComma == Token \ {","}

(* A whole value, from the entry after the last one taken to entry q.      *)
LEMMA ValueWalked ==
    ASSUME NEW d, NEW p \in Nat, NEW q \in Nat, p < q, NEW o \in Seq(Container),
           NEW st \in [1 .. Len(o) -> 1 .. p], WalkedTo(d, p, "value", o, st),
           Passes(d, p, q), d[q] \in NoComma
    PROVE  /\ st \in [1 .. Len(OneMore(o)) -> 1 .. q]
           /\ WalkedTo(d, q, AfterValue(o), OneMore(o), st)
<1>1. /\ Len(OneMore(o)) = Len(o) /\ Len(o) \in Nat
      /\ \A k \in 1 .. Len(o) :
            /\ OneMore(o)[k].hint = o[k].hint
            /\ OneMore(o)[k].len = IF k = Len(o) THEN o[k].len + 1 ELSE o[k].len
  BY OneMoreFacts, LenProperties
<1>2. st \in [1 .. Len(OneMore(o)) -> 1 .. q]
  BY <1>1
<1>3. AfterValue(o) \in {"next", "end"} /\ (AfterValue(o) = "next" <=> o # <<>>)
  BY DEF AfterValue
<1>4. ASSUME NEW k \in 1 .. Len(o)
      PROVE  /\ Inside(d, st[k], q, Len(o) - k + 1,
                       OneMore(o)[k].len - (IF AfterValue(o) = "next" /\ k = Len(o) THEN 1 ELSE 0))
             /\ OneMore(o)[k].hint \in {NoHint, Members(d, st[k] + 1)}
  <2>1. /\ st[k] \in 1 .. p /\ o[k].len \in Nat /\ Len(o) - k + 1 \in Nat \ {0}
        /\ Inside(d, st[k], p, Len(o) - k + 1, o[k].len)
        /\ o[k].hint \in {NoHint, Members(d, st[k] + 1)}
    BY WalkedFacts
  <2>2. Inside(d, st[k], q, Len(o) - k + 1, o[k].len)
    BY <2>1 DEF Passes
  <2>3. AfterValue(o) = "next"
    BY <1>1, <1>3, EmptySeq
  <2>4. OneMore(o)[k].len - (IF AfterValue(o) = "next" /\ k = Len(o) THEN 1 ELSE 0) = o[k].len
    BY <1>1, <2>1, <2>3
  <2>. QED
    BY <1>1, <2>1, <2>2, <2>4
<1>5. AfterValue(o) = "next" => st[Len(o)] < q
  <2>1. ASSUME o # <<>> PROVE Len(o) \in 1 .. Len(o)
    BY <1>1, <2>1, EmptySeq
  <2>2. ASSUME Len(o) \in 1 .. Len(o) PROVE st[Len(o)] < q
    <3>1. st[Len(o)] \in 1 .. p
      BY <2>2
    <3>. QED
      BY <3>1
  <2>. QED
    BY <1>3, <2>1, <2>2
<1>6. WalkedTo(d, q, AfterValue(o), OneMore(o), st)
  <2>1. d[q] # ","
    BY DEF NoComma
  <2>2. AfterValue(o) # "first"
    BY <1>3
  <2>. QED
    BY <1>1, <1>4, <1>5, <2>1, <2>2 DEF WalkedTo
<1>. QED
  BY <1>2, <1>6

(* A container that opens: it begins at the entry taken.                   *)
LEMMA OpenWalked ==
    ASSUME NEW d, NEW p \in Nat, NEW o \in Seq(Container),
           NEW st \in [1 .. Len(o) -> 1 .. p], WalkedTo(d, p, "value", o, st),
           d[p + 1] \in Openers,
           NEW e \in Container, e.len = 0, e.hint = NoHint
    PROVE  \E starts \in [1 .. Len(Append(o, e)) -> 1 .. p + 1] :
                WalkedTo(d, p + 1, "first", Append(o, e), starts)
<1>. DEFINE new == [k \in 1 .. Len(o) + 1 |-> IF k <= Len(o) THEN st[k] ELSE p + 1]
            o2 == Append(o, e)
<1>1. /\ Len(o2) = Len(o) + 1 /\ Len(o) \in Nat
      /\ \A k \in 1 .. Len(o) : o2[k] = o[k]
      /\ o2[Len(o) + 1] = e
  BY PushedFacts, LenProperties
<1>2. \A k \in 1 .. Len(o) : st[k] \in 1 .. p
  OBVIOUS
<1>3. new \in [1 .. Len(o2) -> 1 .. p + 1] /\ new[Len(o2)] = p + 1
  BY <1>1, <1>2
<1>4. ASSUME NEW k \in 1 .. Len(o)
      PROVE  /\ Inside(d, new[k], p + 1, Len(o2) - k + 1, o2[k].len)
             /\ o2[k].hint \in {NoHint, Members(d, new[k] + 1)}
  <2>1. /\ st[k] \in Nat /\ Len(o) - k + 1 \in Nat \ {0}
        /\ Inside(d, st[k], p, Len(o) - k + 1, o[k].len)
        /\ o[k].hint \in {NoHint, Members(d, st[k] + 1)}
    BY WalkedFacts
  <2>0. st[k] <= p
    BY WalkedFacts
  <2>2. Inside(d, st[k], p + 1, (Len(o) - k + 1) + 1, o[k].len)
    BY <2>0, <2>1, InsideNext
  <2>3. new[k] = st[k] /\ o2[k] = o[k] /\ Len(o2) - k + 1 = (Len(o) - k + 1) + 1
    BY <1>1
  <2>. QED
    BY <2>1, <2>2, <2>3
<1>5. Inside(d, p + 1, p + 1, 1, 0)
  <2>1. p + 1 \in Nat
    OBVIOUS
  <2>. QED
    BY <2>1, InsideStart
<1>6. /\ Len(o2) - Len(o2) + 1 = 1
      /\ \A k \in 1 .. Len(o2) : k \in 1 .. Len(o) \/ k = Len(o2)
      /\ o2[Len(o2)] = e
  BY <1>1
<1>. HIDE DEF new, o2
<1>7. ASSUME NEW k \in 1 .. Len(o2)
      PROVE  /\ Inside(d, new[k], p + 1, Len(o2) - k + 1, o2[k].len)
             /\ o2[k].hint \in {NoHint, Members(d, new[k] + 1)}
  BY <1>3, <1>4, <1>5, <1>6
<1>8. ASSUME NEW k \in 1 .. Len(o2) PROVE o2[k].len - 0 = o2[k].len
  <2>1. o2[k].len \in Nat
    <3>1. o2 \in Seq(Container)
      BY PushedFacts DEF o2
    <3>2. o2[k] \in Container
      BY <3>1, ElementOfSeq
    <3>. QED
      BY <3>2 DEF Container
  <2>. QED
    BY <2>1
<1>9. WalkedTo(d, p + 1, "first", o2, new)
  BY <1>3, <1>7, <1>8 DEF WalkedTo
<1>. QED
  BY <1>3, <1>9 DEF o2

(* A container that turns out not to be empty: nothing is taken yet.       *)
LEMMA FirstWalked ==
    ASSUME NEW d, NEW p, NEW o, NEW st, WalkedTo(d, p, "first", o, st)
    PROVE  WalkedTo(d, p, "value", o, st)
BY DEF WalkedTo

(* The tokens that are no bracket and no comma, and the comma.             *)
Plain == Token \ (Openers \cup Closers \cup {","})
Comma == {","}

(* A plain token changes nothing.                                          *)
LEMMA PlainPasses ==
    ASSUME NEW d, NEW p \in Nat, d[p + 1] \in Plain
    PROVE  Passes(d, p, p + 1)
<1>1. ASSUME NEW s \in 1 .. p, NEW n \in Nat \ {0}, NEW c \in Nat, Inside(d, s, p, n, c)
      PROVE  Inside(d, s, p + 1, n, c)
  <2>1. s \in Nat /\ s <= p
    OBVIOUS
  <2>2. d[p + 1] \notin Openers \cup Closers \cup {","}
    BY DEF Plain
  <2>. QED
    BY <1>1, <2>1, <2>2, InsideNext
<1>. QED
  BY <1>1 DEF Passes

(* So does a container stepped over as a whole.                            *)
LEMMA SkipPasses ==
    ASSUME NEW d, NEW p \in Nat, NEW k \in Nat, p + 2 <= k, d[p + 1] \in Openers,
           \A i \in p + 2 .. k - 1 : Depth(d, p + 2, i) # 0,
           Depth(d, p + 2, k) = 0
    PROVE  Passes(d, p, k)
<1>1. ASSUME NEW s \in 1 .. p, NEW n \in Nat \ {0}, NEW c \in Nat, Inside(d, s, p, n, c)
      PROVE  Inside(d, s, k, n, c)
  <2>1. s \in Nat /\ s <= p
    OBVIOUS
  <2>. QED
    BY <1>1, <2>1, InsideSkip
<1>. QED
  BY <1>1 DEF Passes

(* A walk waiting for a value may take such a token (a quote, a colon) and *)
(* still wait for it.                                                      *)
LEMMA PlainWalked ==
    ASSUME NEW d, NEW p \in Nat, NEW o \in Seq(Container),
           NEW st \in [1 .. Len(o) -> 1 .. p], WalkedTo(d, p, "value", o, st),
           d[p + 1] \in Plain
    PROVE  /\ st \in [1 .. Len(o) -> 1 .. p + 1]
           /\ WalkedTo(d, p + 1, "value", o, st)
<1>0. Passes(d, p, p + 1)
  BY PlainPasses
<1>1. \A k \in 1 .. Len(o) : st[k] \in 1 .. p + 1
  <2>1. ASSUME NEW k \in 1 .. Len(o) PROVE st[k] \in 1 .. p + 1
    <3>1. st[k] \in 1 .. p
      OBVIOUS
    <3>2. 1 .. p \subseteq 1 .. p + 1
      OBVIOUS
    <3>. QED
      BY <3>1, <3>2
  <2>. QED
    BY <2>1
<1>2. ASSUME NEW k \in 1 .. Len(o)
      PROVE  /\ Inside(d, st[k], p + 1, Len(o) - k + 1, o[k].len - 0)
             /\ o[k].hint \in {NoHint, Members(d, st[k] + 1)}
  <2>1. /\ st[k] \in 1 .. p /\ Len(o) - k + 1 \in Nat \ {0} /\ o[k].len \in Nat
        /\ Inside(d, st[k], p, Len(o) - k + 1, o[k].len)
        /\ o[k].hint \in {NoHint, Members(d, st[k] + 1)}
    BY WalkedFacts
  <2>2. Inside(d, st[k], p + 1, Len(o) - k + 1, o[k].len)
    BY <1>0, <2>1 DEF Passes
  <2>3. o[k].len - 0 = o[k].len
    BY <2>1
  <2>. QED
    BY <2>1, <2>2, <2>3
<1>3. st \in [1 .. Len(o) -> 1 .. p + 1]
  BY <1>1
<1>. QED
  BY <1>2, <1>3 DEF WalkedTo

(* A comma, in the container the walk is in.                               *)
LEMMA InsideComma ==
    ASSUME NEW d, NEW s \in Nat, NEW p \in Nat, s <= p, NEW c,
           Inside(d, s, p, 1, c), d[p + 1] \in Comma
    PROVE  Inside(d, s, p + 1, 1, c + 1)
<1>1. d[p + 1] = "," /\ 1 = 1
  BY DEF Comma
<1>2. 1 \in Nat \ {0}
  OBVIOUS
<1>. QED
  BY <1>1, <1>2, InsideNext

(* A comma after a member: it is between the members of the innermost      *)
(* container, and of no other.                                             *)
LEMMA CommaWalked ==
    ASSUME NEW d, NEW p \in Nat, NEW o \in Seq(Container), o # <<>>,
           NEW st \in [1 .. Len(o) -> 1 .. p], WalkedTo(d, p, "next", o, st),
           d[p + 1] \in Comma
    PROVE  /\ st \in [1 .. Len(o) -> 1 .. p + 1]
           /\ WalkedTo(d, p + 1, "value", o, st)
           /\ st[Len(o)] < p
<1>1. Len(o) \in Nat /\ Len(o) \in 1 .. Len(o)
  BY EmptySeq, LenProperties
<1>2. 1 .. p \subseteq 1 .. p + 1
  OBVIOUS
<1>3. st \in [1 .. Len(o) -> 1 .. p + 1]
  BY <1>2
<1>4. ASSUME NEW k \in 1 .. Len(o)
      PROVE  /\ Inside(d, st[k], p + 1, Len(o) - k + 1, o[k].len)
             /\ o[k].hint \in {NoHint, Members(d, st[k] + 1)}
             /\ o[k].len - 0 = o[k].len
  <2>1. /\ st[k] \in Nat /\ st[k] <= p /\ Len(o) - k + 1 \in Nat \ {0} /\ o[k].len \in Nat
        /\ o[k].hint \in {NoHint, Members(d, st[k] + 1)}
        /\ k = Len(o) => Inside(d, st[k], p, Len(o) - k + 1, o[k].len - 1)
        /\ k # Len(o) => Inside(d, st[k], p, Len(o) - k + 1, o[k].len)
    BY WalkedFacts
  <2>2. ASSUME k = Len(o) PROVE Inside(d, st[k], p + 1, 1, (o[k].len - 1) + 1)
    <3>1. Len(o) - k + 1 = 1
      BY <1>1, <2>2
    <3>2. Inside(d, st[k], p, 1, o[k].len - 1)
      BY <2>1, <2>2, <3>1
    <3>. DEFINE c == o[k].len - 1
    <3>3. Inside(d, st[k], p, 1, c) /\ st[k] \in Nat
      BY <2>1, <3>2
    <3>4. st[k] <= p
      BY <2>1
    <3>. HIDE DEF c
    <3>5. Inside(d, st[k], p + 1, 1, c + 1)
      BY <3>3, <3>4, InsideComma
    <3>. QED
      BY <3>5 DEF c
  <2>3. ASSUME k # Len(o) PROVE Inside(d, st[k], p + 1, Len(o) - k + 1, o[k].len)
    <3>1. Len(o) - k + 1 >= 2
      BY <1>1, <2>3
    <3>2. d[p + 1] = ","
      BY DEF Comma
    <3>. QED
      BY <2>1, <2>3, <3>1, <3>2, InsideNext
  <2>4. o[k].len - 0 = o[k].len /\ (o[k].len - 1) + 1 = o[k].len
    BY <2>1
  <2>5. k = Len(o) => Len(o) - k + 1 = 1
    BY <1>1
  <2>. QED
    BY <2>1, <2>2, <2>3, <2>4, <2>5
<1>5. st[Len(o)] < p
  BY DEF WalkedTo
<1>. QED
  BY <1>3, <1>4, <1>5 DEF WalkedTo

(* A host that asks for the length of the container it is about to walk.   *)
LEMMA HintWalked ==
    ASSUME NEW d, NEW p \in Nat, NEW o \in Seq(Container), o # <<>>,
           NEW st \in [1 .. Len(o) -> 1 .. p], WalkedTo(d, p, "first", o, st),
           NEW o2 \in Seq(Container), Len(o2) = Len(o),
           \A k \in 1 .. Len(o) :
              /\ o2[k].len = o[k].len
              /\ k # Len(o) => o2[k].hint = o[k].hint
              /\ k = Len(o) => o2[k].hint = Members(d, p + 1)
    PROVE  WalkedTo(d, p, "first", o2, st)
<1>1. st[Len(o)] = p
  BY DEF WalkedTo
<1>2. ASSUME NEW k \in 1 .. Len(o) PROVE o2[k].hint \in {NoHint, Members(d, st[k] + 1)}
  <2>1. o[k].hint \in {NoHint, Members(d, st[k] + 1)}
    BY DEF WalkedTo
  <2>2. CASE k = Len(o)
    BY <1>1, <2>2
  <2>3. CASE k # Len(o)
    BY <2>1, <2>3
  <2>. QED
    BY <2>2, <2>3
<1>. QED
  BY <1>1, <1>2 DEF WalkedTo

(* A closer: the container below has one member more.                      *)
LEMMA CloseWalked ==
    ASSUME NEW d, NEW p \in Nat, NEW o \in Seq(Container), o # <<>>, NEW at,
           NEW st \in [1 .. Len(o) -> 1 .. p], WalkedTo(d, p, at, o, st),
           d[p + 1] \in Closers
    PROVE  \E starts \in [1 .. Len(OneMore(Front(o))) -> 1 .. p + 1] :
                WalkedTo(d, p + 1, AfterValue(Front(o)), OneMore(Front(o)), starts)
<1>. DEFINE f == Front(o)
            o2 == OneMore(f)
            new == [k \in 1 .. Len(o) - 1 |-> st[k]]
<1>1. /\ Len(o) \in Nat \ {0} /\ f \in Seq(Container) /\ Len(f) = Len(o) - 1
      /\ \A k \in 1 .. Len(o) - 1 : f[k] = o[k]
  BY FrontFacts
<1>. HIDE DEF f
<1>2. /\ o2 \in Seq(Container) /\ Len(o2) = Len(f)
      /\ \A k \in 1 .. Len(f) :
            /\ o2[k].hint = f[k].hint
            /\ o2[k].len = IF k = Len(f) THEN f[k].len + 1 ELSE f[k].len
  BY <1>1, OneMoreFacts
<1>. HIDE DEF o2
<1>3. \A k \in 1 .. Len(o) - 1 : st[k] \in 1 .. p
  BY <1>1
<1>4. new \in [1 .. Len(o2) -> 1 .. p + 1]
  <2>1. 1 .. p \subseteq 1 .. p + 1
    OBVIOUS
  <2>. QED
    BY <1>1, <1>2, <1>3, <2>1
<1>5. AfterValue(f) \in {"next", "end"} /\ (AfterValue(f) = "next" <=> f # <<>>)
  BY DEF AfterValue
<1>6. ASSUME NEW k \in 1 .. Len(o2)
      PROVE  /\ Inside(d, new[k], p + 1, Len(o2) - k + 1,
                       o2[k].len - (IF AfterValue(f) = "next" /\ k = Len(o2) THEN 1 ELSE 0))
             /\ o2[k].hint \in {NoHint, Members(d, new[k] + 1)}
  <2>1. k \in 1 .. Len(o) /\ k \in 1 .. Len(o) - 1 /\ k # Len(o) /\ k \in 1 .. Len(f)
    BY <1>1, <1>2
  <2>2. /\ st[k] \in Nat /\ Len(o) - k + 1 \in Nat \ {0} /\ o[k].len \in Nat
        /\ Inside(d, st[k], p, Len(o) - k + 1, o[k].len)
        /\ o[k].hint \in {NoHint, Members(d, st[k] + 1)}
    BY <2>1, WalkedFacts
  <2>3. st[k] <= p
    BY <2>1, WalkedFacts
  <2>4. Len(o) - k + 1 >= 2 /\ (Len(o) - k + 1) - 1 = Len(o2) - k + 1
    BY <1>1, <1>2, <2>1
  <2>5. Inside(d, st[k], p + 1, (Len(o) - k + 1) - 1, o[k].len)
    BY <2>2, <2>3, <2>4, InsideNext
  <2>6. AfterValue(f) = "next"
    BY <1>1, <1>5, <2>1, EmptySeq
  <2>7. o2[k].len - (IF AfterValue(f) = "next" /\ k = Len(o2) THEN 1 ELSE 0) = o[k].len
    <3>1. k = Len(o2) => o2[k].len = o[k].len + 1
      BY <1>1, <1>2, <2>1
    <3>2. k # Len(o2) => o2[k].len = o[k].len
      BY <1>1, <1>2, <2>1
    <3>3. CASE k = Len(o2)
      <4>1. (IF AfterValue(f) = "next" /\ k = Len(o2) THEN 1 ELSE 0) = 1
        BY <2>6, <3>3
      <4>. QED
        BY <2>2, <3>1, <3>3, <4>1
    <3>4. CASE k # Len(o2)
      <4>1. (IF AfterValue(f) = "next" /\ k = Len(o2) THEN 1 ELSE 0) = 0
        BY <2>6, <3>4
      <4>. QED
        BY <2>2, <3>2, <3>4, <4>1
    <3>. QED
      BY <3>3, <3>4
  <2>8. new[k] = st[k]
    BY <2>1
  <2>9. o2[k].hint = o[k].hint
    BY <1>1, <1>2, <2>1
  <2>. QED
    BY <2>2, <2>4, <2>5, <2>7, <2>8, <2>9
<1>7. AfterValue(f) = "next" => new[Len(o2)] < p + 1
  <2>1. ASSUME f # <<>> PROVE Len(o2) \in 1 .. Len(o) - 1
    BY <1>1, <1>2, <2>1, EmptySeq
  <2>2. ASSUME Len(o2) \in 1 .. Len(o) - 1 PROVE new[Len(o2)] < p + 1
    <3>1. new[Len(o2)] \in 1 .. p
      BY <1>3, <2>2
    <3>. QED
      BY <3>1
  <2>. QED
    BY <1>5, <2>1, <2>2
<1>8. d[p + 1] # "," /\ AfterValue(f) # "first"
  BY <1>5 DEF Closers
<1>. HIDE DEF new
<1>9. WalkedTo(d, p + 1, AfterValue(f), o2, new)
  BY <1>6, <1>7, <1>8 DEF WalkedTo
<1>. QED
  BY <1>4, <1>9 DEF o2, f

(* What container_len says of the container the walk is in, at its closer. *)
LEMMA ClosedMembers ==
    ASSUME NEW d, Len(d) \in Nat, NEW s \in Nat, NEW p \in Nat, s <= p, p + 1 <= Len(d),
           NEW c \in Int, Inside(d, s, p, 1, c), d[p + 1] \in Closers
    PROVE  /\ s = p => Members(d, s + 1) = 0
           /\ s < p /\ d[p] \in Comma => Members(d, s + 1) = c
           /\ s < p /\ d[p] \notin Comma => Members(d, s + 1) = c + 1
<1>. DEFINE k == p + 1
<1>1. k \in s + 1 .. Len(d) /\ k - 1 = p /\ s + 1 \in Nat /\ s + 1 <= p + 1
      /\ (k = s + 1 <=> s = p)
  OBVIOUS
<1>2. \A i \in s + 1 .. k - 1 : Depth(d, s + 1, i) >= 1
  BY <1>1 DEF Inside
<1>3. Depth(d, s + 1, k) = 0
  <2>1. Depth(d, s + 1, p) = 1
    BY DEF Inside
  <2>2. Depth(d, s + 1, p + 1) = Depth(d, s + 1, p) - 1
    BY <1>1, NextEntry
  <2>. QED
    BY <2>1, <2>2
<1>4. d[k] \in Closers
  OBVIOUS
<1>. HIDE DEF k
<1>5. Members(d, s + 1) =
              IF k = s + 1 THEN 0
              ELSE Cardinality(Commas(d, s + 1, k - 1)) - (IF d[k - 1] = "," THEN 1 ELSE 0) + 1
  BY <1>1, <1>2, <1>3, <1>4, MembersAtEnd
<1>6. Cardinality(Commas(d, s + 1, k - 1)) = c
  BY <1>1 DEF Inside
<1>7. d[k - 1] = "," <=> d[p] \in Comma
  BY <1>1 DEF Comma
<1>8. c - 1 + 1 = c /\ c - 0 + 1 = c + 1
  OBVIOUS
<1>9. s < p => s # p
  OBVIOUS
<1>10. s = p => Members(d, s + 1) = 0
  BY <1>1, <1>5
<1>11. s # p /\ d[p] \in Comma => Members(d, s + 1) = c
  BY <1>1, <1>5, <1>6, <1>7, <1>8
<1>12. s # p /\ d[p] \notin Comma => Members(d, s + 1) = c + 1
  BY <1>1, <1>5, <1>6, <1>7, <1>8
<1>. QED
  BY <1>9, <1>10, <1>11, <1>12

(* When a walk reaches a closer, what container_len promised at the start  *)
(* of the container is the members the host received: none for a closer    *)
(* right after the opener, and otherwise the member before the closer, or  *)
(* before the trailing comma the closer follows, was the last.             *)
LEMMA ClosedHint ==
    ASSUME NEW d, Len(d) \in Nat, NEW p \in Nat, p + 1 <= Len(d),
           NEW o \in Seq(Container), o # <<>>,
           NEW at \in {"first", "next", "value"},
           NEW st \in [1 .. Len(o) -> 1 .. p], WalkedTo(d, p, at, o, st),
           at = "value" => st[Len(o)] < p /\ d[p] \in Comma,
           d[p + 1] \in Closers
    PROVE  Last(o).hint \in {NoHint, Last(o).len}
<1>1. Len(o) \in 1 .. Len(o) /\ Len(o) \in Nat /\ Len(o) - Len(o) + 1 = 1 /\ Last(o) = o[Len(o)]
  BY FrontFacts
<1>. DEFINE s == st[Len(o)]
            l == o[Len(o)].len
<1>2. s \in Nat /\ l \in Nat /\ o[Len(o)].hint \in {NoHint, Members(d, s + 1)}
  BY <1>1, WalkedFacts
<1>3. s <= p
  BY <1>1, WalkedFacts
<1>4. /\ at = "next" => Inside(d, s, p, 1, l - 1)
      /\ at # "next" => Inside(d, s, p, 1, l)
  BY <1>1, WalkedFacts
<1>5. /\ at = "first" => s = p
      /\ at = "next" => s < p /\ d[p] \notin Comma
      /\ at = "value" => s < p /\ d[p] \in Comma
  BY DEF WalkedTo, Comma
<1>. HIDE DEF s, l
<1>6. CASE at = "first"
  <2>1. Inside(d, s, p, 1, l) /\ s = p
    BY <1>4, <1>5, <1>6
  <2>2. Inside(d, s, s, 1, 0)
    BY <1>2, InsideStart
  <2>3. l = 0
    BY <2>1, <2>2 DEF Inside
  <2>4. Members(d, s + 1) = 0
    BY <1>2, <1>3, <2>1, ClosedMembers
  <2>. QED
    BY <1>1, <1>2, <2>3, <2>4 DEF l
<1>7. CASE at = "next"
  <2>1. l - 1 \in Int /\ (l - 1) + 1 = l
    BY <1>2
  <2>2. Members(d, s + 1) = (l - 1) + 1
    BY <1>2, <1>3, <1>4, <1>5, <1>7, <2>1, ClosedMembers
  <2>. QED
    BY <1>1, <1>2, <2>1, <2>2 DEF l
<1>8. CASE at = "value"
  <2>1. l \in Int
    BY <1>2
  <2>2. Members(d, s + 1) = l
    BY <1>2, <1>3, <1>4, <1>5, <1>8, <2>1, ClosedMembers
  <2>. QED
    BY <1>1, <1>2, <2>2 DEF l
<1>. QED
  BY <1>6, <1>7, <1>8

-----------------------------------------------------------------------------
(* The steps of the reader.                                                *)

(* A reader in use.                                                        *)
Parsing == outcome = "parsing"

(* What HintExact asks of a step.                                          *)
HintStep ==
    Len(open') < Len(open) /\ outcome' = "parsing" =>
        Last(open).hint \in {NoHint, Last(open).len}

(* The numbers of entries.                                                 *)
LEMMA Positions ==
    ASSUME TypeOK
    PROVE  Len(doc) \in Nat /\ pos \in Nat /\ pos <= Len(doc) /\ Len(open) \in Nat
<1>1. Len(doc) \in Nat /\ Len(open) \in Nat
  BY LenProperties DEF TypeOK
<1>. QED
  BY <1>1 DEF TypeOK

(* An entry of the index is a token, and only an entry is.                 *)
LEMMA Entries ==
    ASSUME TypeOK, NEW k \in Nat \ {0}
    PROVE  /\ k <= Len(doc) => At(k) = doc[k] /\ doc[k] \in Token /\ At(k) # "end"
           /\ ~ (k <= Len(doc)) => At(k) = "end"
<1>1. Len(doc) \in Nat
  BY Positions
<1>2. ASSUME k <= Len(doc) PROVE doc[k] \in Token
  <2>1. k \in 1 .. Len(doc)
    BY <1>1, <1>2
  <2>. QED
    BY <2>1, ElementOfSeq DEF TypeOK
<1>3. "end" \notin Token
  BY DEF Token, Delimiter, Openers, Closers, Scalars, PlainScalars, NanKeywords
<1>. QED
  BY <1>2, <1>3 DEF At

(* A call that fails.                                                      *)
LEMMA FailStep ==
    ASSUME RInv, NEW error \in ParseErrors, NEW at \in Nat, NEW taken \in 0 .. Len(doc),
           Fail(error, at, taken)
    PROVE  RInv' /\ HintStep
<1>1. outcome' \notin {"none", "parsing"} /\ outcome' \in ParseErrors
  BY DEF Fail, ParseErrors
<1>2. TypeOK'
  BY <1>1 DEF Fail, RInv, TypeOK
<1>3. pc' = "idle" /\ outcome' # "none" /\ outcome' # "parsing"
  BY <1>1 DEF Fail
<1>4. WalkInv'
  BY <1>3 DEF WalkInv
<1>. QED
  BY <1>2, <1>3, <1>4 DEF RInv, HintStep

(* The answers recorded are answers.                                       *)
LEMMA AnswersStep ==
    ASSUME TypeOK, NEW what \in {"node", "key", "close", "skip"},
           NEW from \in Nat, NEW to \in 0 .. Len(doc), NEW next,
           Answers(what, from, to, next)
    PROVE  /\ got' \in Seq(Answer) /\ pos' = to /\ pc' = next
           /\ doc' = doc /\ opts' = opts /\ outcome' = outcome /\ errorAt' = errorAt
<1>1. Len(doc) \in Nat
  BY Positions
<1>2. [what |-> what, from |-> from, to |-> to] \in Answer
  BY <1>1 DEF Answer
<1>3. got' \in Seq(Answer)
  BY <1>2, AppendProperties DEF Answers, TypeOK
<1>. QED
  BY <1>3 DEF Answers

(* What is left to show of a step that answers: the stack's type and where *)
(* the walk stands.                                                        *)
LEMMA AnsweredStep ==
    ASSUME RInv, Parsing, NEW what \in {"node", "key", "close", "skip"},
           NEW from \in Nat, NEW to \in 0 .. Len(doc),
           NEW next \in {"value", "first", "next", "end"},
           Answers(what, from, to, next),
           open' \in Seq(Container), next \in {"first", "next"} => open' # <<>>,
           \E starts \in [1 .. Len(open') -> 1 .. to] : WalkedTo(doc, to, next, open', starts)
    PROVE  RInv'
<1>1. /\ got' \in Seq(Answer) /\ pos' = to /\ pc' = next
      /\ doc' = doc /\ opts' = opts /\ outcome' = outcome /\ errorAt' = errorAt
  BY AnswersStep DEF RInv
<1>2. TypeOK'
  BY <1>1 DEF RInv, TypeOK
<1>3. WalkInv'
  BY <1>1 DEF WalkInv, Parsing
<1>. QED
  BY <1>2, <1>3 DEF RInv

(* A whole value.                                                          *)
LEMMA ValueStep ==
    ASSUME RInv, Running("value"), NEW q \in Nat, pos < q, q <= Len(doc),
           Passes(doc, pos, q), doc[q] \in NoComma,
           NEW what \in {"node", "skip"}, NEW from \in Nat, Value(what, from, q)
    PROVE  RInv' /\ HintStep
<1>1. pos \in Nat /\ Len(doc) \in Nat /\ Len(open) \in Nat /\ open \in Seq(Container)
  BY Positions DEF RInv, TypeOK
<1>2. PICK st \in [1 .. Len(open) -> 1 .. pos] : WalkedTo(doc, pos, "value", open, st)
  BY DEF RInv, WalkInv, Running
<1>3. /\ st \in [1 .. Len(OneMore(open)) -> 1 .. q]
      /\ WalkedTo(doc, q, AfterValue(open), OneMore(open), st)
  BY <1>1, <1>2, ValueWalked
<1>4. open' = OneMore(open) /\ Answers(what, from, q, AfterValue(open))
  BY DEF Value
<1>5. /\ open' \in Seq(Container) /\ Len(open') = Len(open)
  BY <1>1, <1>4, OneMoreFacts
<1>6. /\ AfterValue(open) \in {"value", "first", "next", "end"}
      /\ AfterValue(open) \in {"first", "next"} => open # <<>>
  BY DEF AfterValue
<1>7. open # <<>> => open' # <<>>
  BY <1>1, <1>5, EmptySeq
<1>8. q \in 0 .. Len(doc) /\ what \in {"node", "key", "close", "skip"}
  BY <1>1
<1>9. \E starts \in [1 .. Len(open') -> 1 .. q] : WalkedTo(doc, q, AfterValue(open), open', starts)
  BY <1>3, <1>4
<1>10. RInv'
  <2>1. Parsing
    BY DEF Running, Parsing
  <2>. QED
    BY <1>4, <1>5, <1>6, <1>7, <1>8, <1>9, <2>1, AnsweredStep
<1>11. ~ (Len(open') < Len(open))
  BY <1>1, <1>5
<1>. QED
  BY <1>10, <1>11 DEF HintStep

(* A closer, of a container where the walk stands as it must.              *)
LEMMA CloseStep ==
    ASSUME RInv, Parsing, open # <<>>, NEW p \in Nat, NEW k, k = p + 1, k <= Len(doc),
           NEW at \in {"first", "next", "value"},
           NEW st \in [1 .. Len(open) -> 1 .. p], WalkedTo(doc, p, at, open, st),
           at = "value" => st[Len(open)] < p /\ doc[p] \in Comma,
           doc[k] \in Closers, Close(k)
    PROVE  RInv' /\ HintStep
<1>1. Len(doc) \in Nat /\ open \in Seq(Container) /\ k \in Nat /\ k \in 0 .. Len(doc) /\ p + 1 <= Len(doc)
  BY Positions DEF RInv, TypeOK
<1>2. Last(open).hint \in {NoHint, Last(open).len}
  BY <1>1, ClosedHint
<1>. DEFINE f == Front(open)
<1>3. f \in Seq(Container)
  BY <1>1, FrontFacts
<1>4. \E starts \in [1 .. Len(OneMore(f)) -> 1 .. k] : WalkedTo(doc, k, AfterValue(f), OneMore(f), starts)
  BY <1>1, CloseWalked
<1>5. open' = OneMore(f) /\ Answers("close", k, k, AfterValue(f))
  BY DEF Close
<1>. HIDE DEF f
<1>6. open' \in Seq(Container) /\ Len(open') = Len(f)
  BY <1>3, <1>5, OneMoreFacts
<1>7. /\ AfterValue(f) \in {"value", "first", "next", "end"}
      /\ AfterValue(f) \in {"first", "next"} => f # <<>>
  BY DEF AfterValue
<1>8. f # <<>> => open' # <<>>
  BY <1>3, <1>6, EmptySeq
<1>9. RInv'
  BY <1>1, <1>4, <1>5, <1>6, <1>7, <1>8, AnsweredStep
<1>. QED
  BY <1>2, <1>9 DEF HintStep

(* A key and its colon.                                                    *)
LEMMA KeyStep ==
    ASSUME RInv, Parsing, NEW p \in Nat, NEW k, k = p + 1, k <= Len(doc),
           NEW st \in [1 .. Len(open) -> 1 .. p], WalkedTo(doc, p, "value", open, st),
           doc[k] \in Quoted, ReadKey(k)
    PROVE  RInv' /\ HintStep
<1>1. Len(doc) \in Nat /\ open \in Seq(Container) /\ k \in Nat \ {0} /\ k \in 0 .. Len(doc)
      /\ k + 1 \in Nat \ {0} /\ k + 1 = (p + 1) + 1
  BY Positions DEF RInv, TypeOK
<1>2. CASE At(k + 1) = "end" /\ Fail("unexpected_end", k + 1, k)
  BY <1>1, <1>2, FailStep DEF ParseErrors
<1>3. ASSUME At(k + 1) # "end" PROVE k + 1 <= Len(doc) /\ k + 1 \in 0 .. Len(doc) /\ At(k + 1) = doc[k + 1]
  <2>1. k + 1 <= Len(doc)
    BY <1>1, <1>3, Entries DEF RInv
  <2>. QED
    BY <1>1, <2>1, Entries DEF RInv
<1>4. CASE At(k + 1) \notin {"end", ":"} /\ Fail("expected", k + 1, k + 1)
  BY <1>1, <1>3, <1>4, FailStep DEF ParseErrors
<1>5. CASE At(k + 1) = ":" /\ At(k) # "str" /\ Fail("scalar_error", k, k + 1)
  BY <1>1, <1>3, <1>5, FailStep DEF ParseErrors
<1>6. CASE At(k + 1) = ":" /\ Answers("key", k, k + 1, "value") /\ UNCHANGED open
  <2>1. doc[k + 1] \in Plain /\ doc[k] \in Plain
    BY <1>3, <1>6 DEF Plain, Token, Delimiter, Openers, Closers, Quoted, Scalars, PlainScalars
  <2>2. p + 1 \in Nat /\ st \in [1 .. Len(open) -> 1 .. p + 1] /\ WalkedTo(doc, p + 1, "value", open, st)
    BY <1>1, <2>1, PlainWalked
  <2>3. /\ st \in [1 .. Len(open) -> 1 .. (p + 1) + 1]
        /\ WalkedTo(doc, (p + 1) + 1, "value", open, st)
    BY <1>1, <2>1, <2>2, PlainWalked
  <2>4. open' = open /\ open' \in Seq(Container)
    BY <1>1, <1>6
  <2>5. \E starts \in [1 .. Len(open') -> 1 .. k + 1] : WalkedTo(doc, k + 1, "value", open', starts)
    BY <1>1, <2>3, <2>4
  <2>6. k + 1 \in 0 .. Len(doc)
    BY <1>3, <1>6
  <2>7. RInv'
    BY <1>1, <1>6, <2>4, <2>5, <2>6, AnsweredStep
  <2>8. ~ (Len(open') < Len(open))
    BY <2>4, Positions DEF RInv
  <2>. QED
    BY <2>7, <2>8 DEF HintStep
<1>. QED
  BY <1>2, <1>4, <1>5, <1>6 DEF ReadKey

(* The entry about to be taken, and the one after it.                      *)
LEMMA Ahead ==
    ASSUME RInv, pos < Len(doc)
    PROVE  /\ Len(doc) \in Nat /\ pos \in Nat /\ pos < Len(doc) /\ open \in Seq(Container)
           /\ pos + 1 \in Nat \ {0} /\ pos + 1 \in 0 .. Len(doc) /\ pos < pos + 1 /\ pos + 1 <= Len(doc)
           /\ pos + 2 \in Nat \ {0} /\ pos + 2 = (pos + 1) + 1 /\ (pos + 2) - 1 = pos + 1
<1>1. Len(doc) \in Nat /\ pos \in Nat /\ open \in Seq(Container)
  BY Positions DEF RInv, TypeOK
<1>. QED
  BY <1>1

(* next_node.                                                              *)
LEMMA NextNodeStep ==
    ASSUME RInv, NextNode
    PROVE  RInv' /\ HintStep
<1>1. /\ Len(doc) \in Nat /\ pos \in Nat /\ open \in Seq(Container) /\ pos < Len(doc)
      /\ pos + 1 \in Nat /\ pos + 1 \in 0 .. Len(doc) /\ pos < pos + 1 /\ pos + 1 <= Len(doc)
      /\ pos + 1 \in Nat \ {0}
  BY Positions DEF RInv, TypeOK, NextNode, Taking
<1>2. Running("value") /\ Parsing /\ Tok = doc[pos + 1] /\ Tok \in Token
  BY <1>1, Entries DEF RInv, NextNode, Taking, Tok, Running, Parsing
<1>3. CASE /\ Tok \in Openers
           /\ Answers("node", pos + 1, pos + 1, "first")
           /\ open' = Append(open, [kind |-> KindOf(Tok), len |-> 0, hint |-> NoHint])
  <2>. DEFINE e == [kind |-> KindOf(Tok), len |-> 0, hint |-> NoHint]
  <2>1. e \in Container /\ e.len = 0 /\ e.hint = NoHint
    BY DEF Container, KindOf, Kinds
  <2>2. open' = Append(open, e)
    BY <1>3
  <2>. HIDE DEF e
  <2>3. PICK st \in [1 .. Len(open) -> 1 .. pos] : WalkedTo(doc, pos, "value", open, st)
    BY <1>2 DEF RInv, WalkInv, Running
  <2>4. doc[pos + 1] \in Openers
    BY <1>2, <1>3
  <2>5. \E starts \in [1 .. Len(open') -> 1 .. pos + 1] : WalkedTo(doc, pos + 1, "first", open', starts)
    BY <1>1, <2>1, <2>2, <2>3, <2>4, OpenWalked
  <2>6. open' \in Seq(Container) /\ open' # <<>> /\ Len(open') = Len(open) + 1 /\ Len(open) \in Nat
    BY <1>1, <2>1, <2>2, PushedFacts, LenProperties
  <2>7. RInv'
    BY <1>1, <1>2, <1>3, <2>5, <2>6, AnsweredStep
  <2>8. ~ (Len(open') < Len(open))
    BY <2>6
  <2>. QED
    BY <2>7, <2>8 DEF HintStep
<1>4. CASE Tok \in Accepted(opts.allow_nan) \ {"wtf8"} /\ Value("node", pos + 1, pos + 1)
  <2>1. doc[pos + 1] \in Plain /\ doc[pos + 1] \in NoComma
    BY <1>2, <1>4 DEF Plain, NoComma, Accepted, Token, Openers, Closers, Scalars, PlainScalars, NanKeywords
  <2>2. Passes(doc, pos, pos + 1)
    BY <1>1, <2>1, PlainPasses
  <2>. QED
    BY <1>1, <1>2, <1>4, <2>1, <2>2, ValueStep
<1>5. CASE Fail(NodeError(Tok), pos + 1, pos + 1)
  <2>1. NodeError(Tok) \in ParseErrors
    BY DEF NodeError, ValueError, ParseErrors
  <2>. QED
    BY <1>1, <1>5, <2>1, FailStep
<1>. QED
  BY <1>3, <1>4, <1>5 DEF NextNode

(* object_first_key.                                                       *)
LEMMA ObjectFirstKeyStep ==
    ASSUME RInv, ObjectFirstKey
    PROVE  RInv' /\ HintStep
<1>0. pos < Len(doc)
  BY DEF ObjectFirstKey, Taking
<1>1. /\ Len(doc) \in Nat /\ pos \in Nat
      /\ pos + 1 \in Nat /\ pos + 1 \in 0 .. Len(doc) /\ pos + 1 <= Len(doc)
      /\ pos + 2 \in Nat \ {0} /\ pos + 2 = (pos + 1) + 1 /\ (pos + 2) - 1 = pos + 1
  BY <1>0, Ahead
<1>2. Running("first") /\ Parsing /\ Tok = doc[pos + 1] /\ open # <<>>
  BY DEF ObjectFirstKey, Taking, Tok, In, Running, Parsing
<1>3. PICK st \in [1 .. Len(open) -> 1 .. pos] : WalkedTo(doc, pos, "first", open, st)
  BY <1>2 DEF RInv, WalkInv, Running
<1>4. CASE Tok = "}" /\ Close(pos + 1)
  <2>1. doc[pos + 1] \in Closers
    BY <1>2, <1>4 DEF Closers
  <2>. QED
    BY <1>1, <1>2, <1>3, <1>4, <2>1, CloseStep
<1>5. CASE Tok \in Quoted /\ ReadKey(pos + 1)
  BY <1>1, <1>2, <1>3, <1>5, FirstWalked, KeyStep
<1>6. CASE Fail("expected", pos + 1, pos + 1)
  BY <1>1, <1>6, FailStep DEF ParseErrors
<1>. QED
  BY <1>4, <1>5, <1>6 DEF ObjectFirstKey

(* array_first: the walk stands where it stood.                            *)
LEMMA ArrayFirstStep ==
    ASSUME RInv, ArrayFirst
    PROVE  RInv' /\ HintStep
<1>0. pos < Len(doc)
  BY DEF ArrayFirst, Taking
<1>1. /\ Len(doc) \in Nat /\ pos \in Nat
      /\ pos + 1 \in Nat /\ pos + 1 \in 0 .. Len(doc) /\ pos + 1 <= Len(doc)
      /\ pos + 2 \in Nat \ {0} /\ pos + 2 = (pos + 1) + 1 /\ (pos + 2) - 1 = pos + 1
  BY <1>0, Ahead
<1>2. Running("first") /\ Parsing /\ Tok = doc[pos + 1] /\ open # <<>>
  BY DEF ArrayFirst, Taking, Tok, In, Running, Parsing
<1>3. PICK st \in [1 .. Len(open) -> 1 .. pos] : WalkedTo(doc, pos, "first", open, st)
  BY <1>2 DEF RInv, WalkInv, Running
<1>4. CASE Tok = "]" /\ Close(pos + 1)
  <2>1. doc[pos + 1] \in Closers
    BY <1>2, <1>4 DEF Closers
  <2>. QED
    BY <1>1, <1>2, <1>3, <1>4, <2>1, CloseStep
<1>5. CASE pc' = "value" /\ UNCHANGED <<doc, opts, pos, open, outcome, errorAt, got>>
  <2>1. WalkedTo(doc, pos, "value", open, st)
    BY <1>3, FirstWalked
  <2>2. TypeOK'
    BY <1>5 DEF RInv, TypeOK
  <2>3. WalkInv'
    BY <1>2, <1>5, <2>1 DEF WalkInv, Parsing
  <2>4. ~ (Len(open') < Len(open))
    BY <1>5, Positions DEF RInv
  <2>. QED
    BY <2>2, <2>3, <2>4 DEF RInv, HintStep
<1>. QED
  BY <1>4, <1>5 DEF ArrayFirst

(* The innermost container began at an entry already taken.                *)
LEMMA LastStart ==
    ASSUME NEW p \in Nat, NEW o \in Seq(Container), o # <<>>, NEW st \in [1 .. Len(o) -> 1 .. p]
    PROVE  st[Len(o)] < p + 1
<1>1. Len(o) \in 1 .. Len(o)
  BY FrontFacts
<1>2. st[Len(o)] \in 1 .. p
  BY <1>1
<1>. QED
  BY <1>2

(* The comma after a member, when it is the next entry.                    *)
LEMMA AfterComma ==
    ASSUME RInv, Running("next"), pos < Len(doc), Tok = ","
    PROVE  \E st \in [1 .. Len(open) -> 1 .. pos + 1] :
              /\ WalkedTo(doc, pos + 1, "value", open, st)
              /\ st[Len(open)] < pos + 1
<1>1. pos \in Nat /\ open \in Seq(Container)
  BY Ahead
<1>2. open # <<>>
  BY DEF RInv, TypeOK, Running
<1>3. PICK st \in [1 .. Len(open) -> 1 .. pos] : WalkedTo(doc, pos, "next", open, st)
  BY DEF RInv, WalkInv, Running
<1>4. doc[pos + 1] \in Comma
  BY DEF Tok, Comma
<1>5. /\ st \in [1 .. Len(open) -> 1 .. pos + 1]
      /\ WalkedTo(doc, pos + 1, "value", open, st)
  BY <1>1, <1>2, <1>3, <1>4, CommaWalked
<1>6. st[Len(open)] < pos + 1
  BY <1>1, <1>2, <1>3, LastStart
<1>. QED
  BY <1>5, <1>6

(* object_next_key.                                                        *)
LEMMA ObjectNextKeyStep ==
    ASSUME RInv, ObjectNextKey
    PROVE  RInv' /\ HintStep
<1>0. pos < Len(doc)
  BY DEF ObjectNextKey, Taking
<1>1. /\ Len(doc) \in Nat /\ pos \in Nat
      /\ pos + 1 \in Nat /\ pos + 1 \in 0 .. Len(doc) /\ pos + 1 <= Len(doc)
      /\ pos + 2 \in Nat \ {0} /\ pos + 2 = (pos + 1) + 1 /\ (pos + 2) - 1 = pos + 1
  BY <1>0, Ahead
<1>2. Running("next") /\ Parsing /\ Tok = doc[pos + 1] /\ open # <<>>
  BY DEF ObjectNextKey, Taking, Tok, In, Running, Parsing
<1>3. PICK st \in [1 .. Len(open) -> 1 .. pos] : WalkedTo(doc, pos, "next", open, st)
  BY <1>2 DEF RInv, WalkInv, Running
<1>4. CASE Tok = "}" /\ Close(pos + 1)
  <2>1. doc[pos + 1] \in Closers
    BY <1>2, <1>4 DEF Closers
  <2>. QED
    BY <1>1, <1>2, <1>3, <1>4, <2>1, CloseStep
<1>5. CASE Tok = "," /\ KeyAfterComma(pos + 2)
  <2>1. PICK after \in [1 .. Len(open) -> 1 .. pos + 1] :
              /\ WalkedTo(doc, pos + 1, "value", open, after)
              /\ after[Len(open)] < pos + 1
    BY <1>0, <1>2, <1>5, AfterComma
  <2>2. ASSUME At(pos + 2) # "end"
        PROVE  pos + 2 <= Len(doc) /\ pos + 2 \in 0 .. Len(doc) /\ At(pos + 2) = doc[pos + 2]
    <3>1. pos + 2 <= Len(doc)
      BY <1>1, <2>2, Entries DEF RInv
    <3>. QED
      BY <1>1, <3>1, Entries DEF RInv
  <2>3. CASE Fail("unexpected_end", pos + 2, (pos + 2) - 1)
    BY <1>1, <2>3, FailStep DEF ParseErrors
  <2>4. CASE At(pos + 2) \in Quoted /\ ReadKey(pos + 2)
    <3>1. At(pos + 2) # "end"
      BY <2>4 DEF Quoted
    <3>. QED
      BY <1>1, <1>2, <2>1, <2>2, <2>4, <3>1, KeyStep
  <2>5. CASE At(pos + 2) = "}" /\ Close(pos + 2)
    <3>1. At(pos + 2) # "end"
      BY <2>5
    <3>2. doc[pos + 2] \in Closers
      BY <2>2, <2>5, <3>1 DEF Closers
    <3>3. doc[pos + 1] \in Comma
      BY <1>2, <1>5 DEF Comma
    <3>. QED
      BY <1>1, <1>2, <2>1, <2>2, <2>5, <3>1, <3>2, <3>3, CloseStep
  <2>6. CASE At(pos + 2) # "end" /\ Fail("expected", pos + 2, pos + 2)
    BY <1>1, <2>2, <2>6, FailStep DEF ParseErrors
  <2>. QED
    BY <1>5, <2>3, <2>4, <2>5, <2>6 DEF KeyAfterComma
<1>6. CASE Fail("expected", pos + 1, pos + 1)
  BY <1>1, <1>6, FailStep DEF ParseErrors
<1>. QED
  BY <1>4, <1>5, <1>6 DEF ObjectNextKey

(* array_next.                                                             *)
LEMMA ArrayNextStep ==
    ASSUME RInv, ArrayNext
    PROVE  RInv' /\ HintStep
<1>0. pos < Len(doc)
  BY DEF ArrayNext, Taking
<1>1. /\ Len(doc) \in Nat /\ pos \in Nat
      /\ pos + 1 \in Nat /\ pos + 1 \in 0 .. Len(doc) /\ pos + 1 <= Len(doc)
      /\ pos + 2 \in Nat \ {0} /\ pos + 2 = (pos + 1) + 1 /\ (pos + 2) - 1 = pos + 1
  BY <1>0, Ahead
<1>2. Running("next") /\ Parsing /\ Tok = doc[pos + 1] /\ open # <<>>
  BY DEF ArrayNext, Taking, Tok, In, Running, Parsing
<1>3. PICK st \in [1 .. Len(open) -> 1 .. pos] : WalkedTo(doc, pos, "next", open, st)
  BY <1>2 DEF RInv, WalkInv, Running
<1>4. CASE Tok = "]" /\ Close(pos + 1)
  <2>1. doc[pos + 1] \in Closers
    BY <1>2, <1>4 DEF Closers
  <2>. QED
    BY <1>1, <1>2, <1>3, <1>4, <2>1, CloseStep
<1>5. CASE Tok = "," /\ ElementAfterComma
  <2>1. PICK after \in [1 .. Len(open) -> 1 .. pos + 1] :
              /\ WalkedTo(doc, pos + 1, "value", open, after)
              /\ after[Len(open)] < pos + 1
    BY <1>0, <1>2, <1>5, AfterComma
  <2>2. CASE At(pos + 2) = "]" /\ Close(pos + 2)
    <3>1. pos + 2 <= Len(doc)
      BY <1>1, <2>2, Entries DEF RInv
    <3>2. At(pos + 2) = doc[pos + 2]
      BY <1>1, <3>1, Entries DEF RInv
    <3>3. doc[pos + 2] \in Closers
      BY <2>2, <3>2 DEF Closers
    <3>4. doc[pos + 1] \in Comma
      BY <1>2, <1>5 DEF Comma
    <3>. QED
      BY <1>1, <1>2, <2>1, <2>2, <3>1, <3>3, <3>4, CloseStep
  <2>3. CASE /\ pos' = pos + 1 /\ pc' = "value"
             /\ UNCHANGED <<doc, opts, open, outcome, errorAt, got>>
    <3>1. TypeOK'
      BY <1>1, <2>3 DEF RInv, TypeOK
    <3>2. WalkInv'
      BY <1>2, <2>1, <2>3 DEF WalkInv, Parsing
    <3>3. ~ (Len(open') < Len(open))
      BY <2>3, Positions DEF RInv
    <3>. QED
      BY <3>1, <3>2, <3>3 DEF RInv, HintStep
  <2>. QED
    BY <1>5, <2>2, <2>3 DEF ElementAfterComma
<1>6. CASE Fail("expected", pos + 1, pos + 1)
  BY <1>1, <1>6, FailStep DEF ParseErrors
<1>. QED
  BY <1>4, <1>5, <1>6 DEF ArrayNext

(* skip_value.                                                             *)
LEMMA SkipValueStep ==
    ASSUME RInv, SkipValue
    PROVE  RInv' /\ HintStep
<1>1. /\ Len(doc) \in Nat /\ pos \in Nat /\ pos < Len(doc)
      /\ pos + 1 \in Nat /\ pos + 1 \in 0 .. Len(doc) /\ pos < pos + 1 /\ pos + 1 <= Len(doc)
      /\ pos + 1 \in Nat \ {0} /\ pos + 2 \in Nat /\ Len(doc) \in 0 .. Len(doc) /\ Len(doc) + 1 \in Nat
      /\ (pos + 2) - 1 \in Nat
  BY Positions DEF RInv, SkipValue, Taking
<1>2. Running("value") /\ Tok = doc[pos + 1] /\ Tok \in Token
  BY <1>1, Entries DEF RInv, SkipValue, Taking, Tok
<1>3. ASSUME Tok \in Openers, NEW stops, SkipContainer(pos + 2, stops) PROVE RInv' /\ HintStep
  <2>. DEFINE ends == EndsOf(doc, pos + 2)
              bad  == {i \in pos + 2 .. Len(doc) : doc[i] \in stops}
  <2>1. CASE Fail("unexpected_end", Len(doc) + 1, Len(doc))
    BY <1>1, <2>1, FailStep DEF ParseErrors
  <2>2. ASSUME ends \cup bad # {}
        PROVE  /\ First(ends \cup bad) \in ends \cup bad
               /\ First(ends \cup bad) \in pos + 2 .. Len(doc)
               /\ \A j \in ends : First(ends \cup bad) <= j
    <3>1. ends \cup bad \subseteq pos + 2 .. Len(doc)
      BY DEF EndsOf
    <3>2. pos + 2 .. Len(doc) \subseteq Nat
      BY <1>1
    <3>. HIDE DEF ends, bad
    <3>3. ends \cup bad \subseteq Nat
      BY <3>1, <3>2
    <3>4. /\ First(ends \cup bad) \in ends \cup bad
          /\ \A j \in ends \cup bad : First(ends \cup bad) <= j
      BY <2>2, <3>3, FirstFacts
    <3>. QED
      BY <3>1, <3>4
  <2>. DEFINE k == First(ends \cup bad)
  <2>3. CASE /\ ends \cup bad # {} /\ k \notin ends
             /\ Fail("unexpected_character", k, k)
    <3>1. k \in pos + 2 .. Len(doc)
      BY <2>2, <2>3
    <3>. HIDE DEF k
    <3>2. k \in Nat /\ k \in 0 .. Len(doc)
      BY <1>1, <3>1
    <3>. QED
      BY <2>3, <3>2, FailStep DEF ParseErrors
  <2>4. CASE /\ ends \cup bad # {} /\ k \in ends
             /\ Value("skip", (pos + 2) - 1, k)
    <3>1. k \in pos + 2 .. Len(doc) /\ \A j \in ends : k <= j
      BY <2>2, <2>4
    <3>2. Depth(doc, pos + 2, k) = 0
      BY <2>4 DEF EndsOf
    <3>. HIDE DEF k
    <3>3. k \in Nat /\ pos + 2 <= k /\ k <= Len(doc) /\ pos < k
      BY <1>1, <3>1
    <3>4. ASSUME NEW i \in pos + 2 .. k - 1 PROVE Depth(doc, pos + 2, i) # 0
      <4>1. i \in pos + 2 .. Len(doc) /\ ~ (k <= i)
        BY <1>1, <3>3
      <4>2. i \notin ends
        BY <3>1, <4>1
      <4>. QED
        BY <4>1, <4>2 DEF EndsOf
    <3>5. doc[pos + 1] \in Openers
      BY <1>2, <1>3
    <3>6. Passes(doc, pos, k)
      BY <1>1, <3>2, <3>3, <3>4, <3>5, SkipPasses
    <3>7. doc[k] \in Closers
      BY <1>1, <3>2, <3>3, <3>4, SkipEnd
    <3>8. doc[k] \in NoComma
      BY <3>7 DEF NoComma, Closers, Token, Delimiter
    <3>. QED
      BY <1>1, <1>2, <2>4, <3>3, <3>6, <3>8, ValueStep
  <2>. QED
    BY <1>3, <2>1, <2>3, <2>4 DEF SkipContainer
<1>4. CASE Tok \in Accepted(opts.allow_nan) /\ Value("skip", pos + 1, pos + 1)
  <2>1. doc[pos + 1] \in Plain /\ doc[pos + 1] \in NoComma
    BY <1>2, <1>4 DEF Plain, NoComma, Accepted, Token, Openers, Closers, Scalars, PlainScalars, NanKeywords
  <2>2. Passes(doc, pos, pos + 1)
    BY <1>1, <2>1, PlainPasses
  <2>. QED
    BY <1>1, <1>2, <1>4, <2>1, <2>2, ValueStep
<1>5. CASE Fail(ValueError(Tok), pos + 1, pos + 1)
  <2>1. ValueError(Tok) \in ParseErrors
    BY DEF ValueError, ParseErrors
  <2>. QED
    BY <1>1, <1>5, <2>1, FailStep
<1>. QED
  BY <1>3, <1>4, <1>5 DEF SkipValue

(* What container_len counts is a number.                                  *)
LEMMA MembersNat ==
    ASSUME NEW d, Len(d) \in Nat, NEW from \in Nat
    PROVE  Members(d, from) \in Nat
<1>. DEFINE ends == EndsOf(d, from)
            last == IF ends = {} THEN Len(d) ELSE First(ends)
            trailing == IF ends # {} /\ d[last - 1] = "," THEN 1 ELSE 0
            n == Cardinality(Commas(d, from, last))
<1>1. last \in Int
  <2>1. CASE ends = {}
    BY <2>1
  <2>2. CASE ends # {}
    <3>1. ends \subseteq Nat
      BY DEF EndsOf
    <3>2. First(ends) \in ends
      BY <2>2, <3>1, FirstFacts
    <3>. QED
      BY <2>2, <3>1, <3>2
  <2>. QED
    BY <2>1, <2>2
<1>. HIDE DEF last
<1>2. n \in Nat
  BY <1>1, CommasStep
<1>3. trailing \in {0, 1}
  BY DEF trailing
<1>. HIDE DEF n, trailing
<1>4. n - trailing + 1 \in Nat
  BY <1>2, <1>3
<1>5. Members(d, from) = IF from > Len(d) \/ d[from] \in Closers THEN 0 ELSE n - trailing + 1
  BY Zenon DEF Members, n, trailing, last
<1>. QED
  BY <1>4, <1>5

(* container_len: a number is promised, and nothing moves.                 *)
LEMMA ContainerLenStep ==
    ASSUME RInv, ContainerLen
    PROVE  RInv' /\ HintStep
<1>1. /\ Len(doc) \in Nat /\ pos \in Nat /\ open \in Seq(Container) /\ pos + 1 \in Nat
  BY Positions DEF RInv, TypeOK
<1>2. Running("first") /\ Parsing /\ open # <<>>
  BY DEF ContainerLen, Running, Parsing, RInv, TypeOK
<1>3. PICK st \in [1 .. Len(open) -> 1 .. pos] : WalkedTo(doc, pos, "first", open, st)
  BY <1>2 DEF RInv, WalkInv, Running
<1>. DEFINE m == Members(doc, pos + 1)
<1>4. m \in Nat
  BY <1>1, MembersNat
<1>. HIDE DEF m
<1>. DEFINE e == [open[Len(open)] EXCEPT !.hint = m]
<1>5. Len(open) \in Nat \ {0} /\ Len(open) \in 1 .. Len(open) /\ open[Len(open)] \in Container
  BY <1>1, <1>2, FrontFacts
<1>6. e \in Container /\ e.len = open[Len(open)].len /\ e.hint = m
  BY <1>4, <1>5 DEF Container
<1>7. open' = [open EXCEPT ![Len(open)] = e]
  BY DEF ContainerLen, m
<1>. HIDE DEF e
<1>8. /\ open' \in Seq(Container) /\ Len(open') = Len(open)
      /\ \A k \in 1 .. Len(open) : open'[k] = IF k = Len(open) THEN e ELSE open[k]
  BY <1>1, <1>5, <1>6, <1>7, ExceptSeq
<1>9. open' # <<>>
  BY <1>5, <1>8, EmptySeq
<1>10. UNCHANGED <<doc, opts, pos, pc, outcome, errorAt, got>>
  BY DEF ContainerLen
<1>11. \A k \in 1 .. Len(open) :
              /\ open'[k].len = open[k].len
              /\ k # Len(open) => open'[k].hint = open[k].hint
              /\ k = Len(open) => open'[k].hint = Members(doc, pos + 1)
  BY <1>6, <1>8 DEF m
<1>12. WalkedTo(doc, pos, "first", open', st)
  BY <1>1, <1>2, <1>3, <1>8, <1>11, HintWalked
<1>13. TypeOK'
  BY <1>8, <1>9, <1>10 DEF RInv, TypeOK
<1>14. WalkInv'
  BY <1>2, <1>8, <1>10, <1>12 DEF WalkInv, Running, Parsing
<1>15. ~ (Len(open') < Len(open))
  BY <1>5, <1>8
<1>. QED
  BY <1>13, <1>14, <1>15 DEF RInv, HintStep

(* A reader starts without containers, and so inside none.                 *)
LEMMA EmptyWalk ==
    ASSUME NEW d
    PROVE  \E starts \in [1 .. Len(<<>>) -> 1 .. 0] : WalkedTo(d, 0, "value", <<>>, starts)
<1>. DEFINE none == [k \in 1 .. 0 |-> 0]
<1>1. Len(<<>>) = 0 /\ 1 .. 0 = {}
  BY EmptySeq
<1>2. none \in [1 .. Len(<<>>) -> 1 .. 0]
  BY <1>1
<1>3. 1 .. Len(<<>>) = {}
  BY <1>1
<1>4. "value" # "first" /\ "value" # "next"
  OBVIOUS
<1>5. WalkedTo(d, 0, "value", <<>>, none)
  BY <1>3, <1>4, Zenon DEF WalkedTo
<1>. QED
  BY <1>2, <1>5

(* The calls that return a result, and what the host does between two.     *)
LEMMA OtherSteps ==
    ASSUME RInv, UnexpectedEnd \/ Finish \/ Start \/ Collect
    PROVE  RInv' /\ HintStep
<1>1. Len(doc) \in Nat /\ pos \in Nat /\ pos + 1 \in Nat /\ pos \in 0 .. Len(doc) /\ Len(open) \in Nat
  BY Positions DEF RInv, TypeOK
<1>2. CASE UnexpectedEnd
  BY <1>1, <1>2, FailStep DEF UnexpectedEnd, ParseErrors
<1>3. CASE Finish
  <2>1. outcome' \in {"ok"} \cup ParseErrors /\ outcome' \notin {"none", "parsing"}
    BY <1>3 DEF Finish, ParseErrors
  <2>2. errorAt' \in Nat
    BY <1>1, <1>3 DEF Finish
  <2>3. TypeOK'
    BY <1>3, <2>1, <2>2 DEF Finish, RInv, TypeOK
  <2>4. pc' = "idle" /\ outcome' # "none" /\ outcome' # "parsing"
    BY <1>3, <2>1 DEF Finish
  <2>5. WalkInv'
    BY <2>4 DEF WalkInv
  <2>. QED
    BY <2>3, <2>4, <2>5 DEF RInv, HintStep
<1>4. CASE Start
  <2>1. open = <<>> /\ pos = 0 /\ open' = <<>> /\ pos' = 0 /\ pc' = "value"
    BY <1>4 DEF Start, RInv, WalkInv
  <2>2. doc' \in Seq(Token) /\ opts' \in [allow_nan: BOOLEAN, allow_trailing_comma: BOOLEAN]
    BY <1>4, DocsAssumption, OptionsAssumption DEF Start
  <2>3. Len(doc') \in Nat
    BY <2>2, LenProperties
  <2>4. pos' \in 0 .. Len(doc')
    BY <2>1, <2>3
  <2>5. TypeOK'
    BY <1>4, <2>1, <2>2, <2>4 DEF Start, RInv, TypeOK
  <2>6. outcome' = "parsing" /\ outcome' # "none"
    BY <1>4 DEF Start
  <2>7. \E starts \in [1 .. Len(<<>>) -> 1 .. 0] : WalkedTo(doc', 0, "value", <<>>, starts)
    BY EmptyWalk
  <2>8. \E starts \in [1 .. Len(open') -> 1 .. pos'] : WalkedTo(doc', pos', pc', open', starts)
    BY <2>1, <2>7, Zenon
  <2>9. WalkInv'
    BY <2>6, <2>8 DEF WalkInv
  <2>10. ~ (Len(open') < Len(open))
    BY <1>1, <2>1
  <2>. QED
    BY <2>5, <2>9, <2>10 DEF RInv, HintStep
<1>5. CASE Collect
  <2>1. doc' = <<>> /\ open' = <<>> /\ pos' = 0 /\ got' = <<>> /\ errorAt' = 0
        /\ opts' = Strict /\ outcome' = "none" /\ pc' = pc
    BY <1>5 DEF Collect
  <2>2. pc = "idle"
    BY <1>5 DEF Collect, RInv, WalkInv
  <2>3. <<>> \in Seq(Token) /\ <<>> \in Seq(Container) /\ <<>> \in Seq(Answer) /\ Len(<<>>) = 0
    BY EmptySeq
  <2>4. pos' \in 0 .. Len(doc')
    BY <2>1, <2>3
  <2>5. TypeOK'
    BY <2>1, <2>2, <2>3, <2>4 DEF RInv, TypeOK, Strict
  <2>6. outcome' = "none" /\ outcome' # "parsing"
    BY <2>1
  <2>7. WalkInv'
    BY <2>1, <2>2, <2>6 DEF WalkInv
  <2>. QED
    BY <2>5, <2>6, <2>7 DEF RInv, HintStep
<1>. QED
  BY <1>2, <1>3, <1>4, <1>5

(* Every step.                                                             *)
LEMMA EveryStep ==
    ASSUME RInv, [Next]_vars
    PROVE  RInv' /\ [HintStep]_vars
<1>1. CASE UNCHANGED vars
  BY <1>1 DEF vars, RInv, TypeOK, WalkInv
<1>2. CASE Next
  BY <1>2, OtherSteps, NextNodeStep, SkipValueStep, ContainerLenStep, ObjectFirstKeyStep,
     ObjectNextKeyStep, ArrayFirstStep, ArrayNextStep DEF Next, Step
<1>. QED
  BY <1>1, <1>2

(* And the first state.                                                    *)
LEMMA FirstState == Init => RInv
<1>1. <<>> \in Seq(Token) /\ <<>> \in Seq(Container) /\ <<>> \in Seq(Answer) /\ Len(<<>>) = 0
  BY EmptySeq
<1>2. ASSUME Init PROVE TypeOK
  BY <1>1, <1>2 DEF Init, TypeOK, Strict
<1>. QED
  BY <1>2 DEF Init, RInv, WalkInv

-----------------------------------------------------------------------------
(* A reader and its host keep their types and their place in the document, *)
(* whatever the documents and the options are and however the host mixes   *)
(* walking, skipping and sizing.                                           *)
THEOREM ReaderInvariance == Spec => []RInv
<1>1. RInv /\ [Next]_vars => RInv'
  BY EveryStep
<1>. QED
  BY <1>1, FirstState, PTL DEF Spec

(* container_len counts what the walk it precedes will meet, in every      *)
(* document, well-formed or not: a host that sized its container by it     *)
(* and came to the container's end has filled it exactly.                  *)
THEOREM HintsAreExact == Spec => HintExact
<1>1. RInv /\ [Next]_vars => [HintStep]_vars
  BY EveryStep
<1>2. Spec => [][HintStep]_vars
  BY <1>1, ReaderInvariance, PTL DEF Spec
<1>. QED
  BY <1>2 DEF HintExact, HintStep
=============================================================================
