--------------------------- MODULE FlatSinkProofs ---------------------------
(***************************************************************************)
(* Facts about the stacks of FlatSink, about what each call of the sink    *)
(* leaves unchanged, about the events of a log of calls and about the      *)
(* steps of PushParse they make, cited by the proofs about the modules     *)
(* that extend FlatSink.                                                   *)
(***************************************************************************)
EXTENDS FlatSink, PushParse, SequenceTheorems, FiniteSetTheorems, WellFoundedInduction, TLAPS

-----------------------------------------------------------------------------
(* The stacks: what is on top after a push, a pop and an update of the top.*)

(* A stack that is not empty has a top, and popped has one entry less.     *)
LEMMA PopFacts ==
    ASSUME NEW S, NEW s \in Seq(S), s # <<>>
    PROVE  /\ Len(s) \in Nat \ {0}
           /\ Top(s) \in S
           /\ Pop(s) \in Seq(S)
           /\ Len(Pop(s)) = Len(s) - 1
           /\ \A i \in 1 .. Len(s) - 1 : Pop(s)[i] = s[i]
<1>1. Len(s) \in Nat \ {0}
  BY EmptySeq, LenProperties
<1>2. Top(s) \in S
  BY <1>1, ElementOfSeq DEF Top
<1>3. \A i \in 1 .. Len(s) - 1 : s[i] \in S
  BY <1>1, ElementOfSeq
<1>4. Pop(s) \in Seq(S) /\ Len(Pop(s)) = Len(s) - 1
  <2>1. Pop(s) = [i \in 1 .. Len(s) - 1 |-> s[i]]
    BY <1>1, <1>3, SubSeqProperties DEF Pop
  <2>2. Len(s) - 1 \in Nat /\ Pop(s) \in [1 .. Len(s) - 1 -> S]
    BY <1>1, <1>3, <2>1
  <2>3. Pop(s) \in Seq(S)
    BY <2>2, SeqDef
  <2>4. DOMAIN Pop(s) = 1 .. Len(s) - 1 /\ DOMAIN Pop(s) = 1 .. Len(Pop(s)) /\ Len(Pop(s)) \in Nat
    BY <2>2, <2>3, LenProperties
  <2>. QED
    BY <2>2, <2>3, <2>4
<1>5. \A i \in 1 .. Len(s) - 1 : Pop(s)[i] = s[i]
  BY <1>1, <1>3, SubSeqProperties DEF Pop
<1>. QED
  BY <1>1, <1>2, <1>4, <1>5

(* What is pushed is on top, and nothing below it moves.                   *)
LEMMA PushFacts ==
    ASSUME NEW S, NEW s \in Seq(S), NEW e \in S
    PROVE  /\ Append(s, e) \in Seq(S)
           /\ Append(s, e) # <<>>
           /\ Len(Append(s, e)) = Len(s) + 1
           /\ \A i \in 1 .. Len(s) : Append(s, e)[i] = s[i]
           /\ Top(Append(s, e)) = e
BY AppendProperties DEF Top

(* Replacing the top changes neither the height nor what is below.         *)
LEMMA SetTopFacts ==
    ASSUME NEW S, NEW s \in Seq(S), s # <<>>, NEW e \in S
    PROVE  /\ SetTop(s, e) \in Seq(S)
           /\ SetTop(s, e) # <<>>
           /\ Len(SetTop(s, e)) = Len(s)
           /\ \A i \in 1 .. Len(s) - 1 : SetTop(s, e)[i] = s[i]
           /\ Top(SetTop(s, e)) = e
<1>1. Len(s) \in Nat \ {0} /\ Len(s) \in 1 .. Len(s)
  BY EmptySeq, LenProperties
<1>2. SetTop(s, e) \in Seq(S) /\ Len(SetTop(s, e)) = Len(s)
  BY <1>1, ExceptSeq DEF SetTop
<1>3. \A i \in 1 .. Len(s) : SetTop(s, e)[i] = IF i = Len(s) THEN e ELSE s[i]
  BY <1>1, LenProperties DEF SetTop
<1>4. SetTop(s, e) # <<>>
  BY <1>1, <1>2, EmptySeq
<1>5. Top(SetTop(s, e)) = e
  BY <1>1, <1>2, <1>3 DEF Top
<1>6. \A i \in 1 .. Len(s) - 1 : SetTop(s, e)[i] = s[i]
  BY <1>1, <1>3
<1>. QED
  BY <1>2, <1>4, <1>5, <1>6

(* A container with a key or a value more.                                 *)
LEMMA CountedFacts ==
    ASSUME NEW c \in Container
    PROVE  /\ OneMoreValue(c) \in Container
           /\ OneMoreValue(c).kind = c.kind /\ OneMoreValue(c).mark = c.mark
           /\ OneMoreValue(c).keys = c.keys /\ OneMoreValue(c).len = c.len + 1
           /\ OneMoreKey(c) \in Container
           /\ OneMoreKey(c).kind = c.kind /\ OneMoreKey(c).mark = c.mark
           /\ OneMoreKey(c).keys = c.keys + 1 /\ OneMoreKey(c).len = c.len
<1>1. c.len + 1 \in Nat /\ c.keys + 1 \in Nat
  BY DEF Container
<1>2. /\ OneMoreValue(c) \in Container
      /\ OneMoreValue(c).kind = c.kind /\ OneMoreValue(c).mark = c.mark
      /\ OneMoreValue(c).keys = c.keys /\ OneMoreValue(c).len = c.len + 1
  BY <1>1 DEF Container, OneMoreValue
<1>3. /\ OneMoreKey(c) \in Container
      /\ OneMoreKey(c).kind = c.kind /\ OneMoreKey(c).mark = c.mark
      /\ OneMoreKey(c).keys = c.keys + 1 /\ OneMoreKey(c).len = c.len
  BY <1>1 DEF Container, OneMoreKey
<1>. QED
  BY <1>2, <1>3

(* One more value in the innermost container, if there is one: only its    *)
(* count of values changes.                                                *)
LEMMA WithValueFacts ==
    ASSUME NEW s \in Seq(Container)
    PROVE  /\ WithValue(s) \in Seq(Container)
           /\ Len(WithValue(s)) = Len(s)
           /\ \A i \in 1 .. Len(s) - 1 : WithValue(s)[i] = s[i]
           /\ s = <<>> => WithValue(s) = <<>>
           /\ s # <<>> => /\ WithValue(s) # <<>>
                          /\ Top(WithValue(s)).kind = Top(s).kind
                          /\ Top(WithValue(s)).mark = Top(s).mark
                          /\ Top(WithValue(s)).keys = Top(s).keys
                          /\ Top(WithValue(s)).len = Top(s).len + 1
<1>1. CASE s = <<>>
  BY <1>1, EmptySeq DEF WithValue
<1>2. CASE s # <<>>
  <2>. DEFINE e == OneMoreValue(Top(s))
  <2>1. WithValue(s) = SetTop(s, e)
    BY <1>2 DEF WithValue
  <2>2. Top(s) \in Container
    BY <1>2, PopFacts
  <2>3. /\ OneMoreValue(Top(s)) \in Container
        /\ OneMoreValue(Top(s)).kind = Top(s).kind
        /\ OneMoreValue(Top(s)).mark = Top(s).mark
        /\ OneMoreValue(Top(s)).keys = Top(s).keys
        /\ OneMoreValue(Top(s)).len = Top(s).len + 1
    BY <2>2, CountedFacts
  <2>4. /\ WithValue(s) \in Seq(Container)
        /\ WithValue(s) # <<>>
        /\ Len(WithValue(s)) = Len(s)
        /\ \A i \in 1 .. Len(s) - 1 : WithValue(s)[i] = s[i]
        /\ Top(WithValue(s)) = e
    <3>. HIDE DEF e
    <3>1. e \in Container
      BY <2>3 DEF e
    <3>. QED
      BY <1>2, <2>1, <3>1, SetTopFacts
  <2>. QED
    BY <1>2, <2>3, <2>4
<1>. QED BY <1>1, <1>2

-----------------------------------------------------------------------------
(* The calls: the types they keep and what the innermost container becomes.*)

(* A scalar accepted: one value more, on the value stack and in the        *)
(* innermost container.                                                    *)
LEMMA SinkScalarFacts ==
    ASSUME SinkTypeOK, NEW t \in Token, SinkScalar(t)
    PROVE  /\ SinkTypeOK'
           /\ calls' # <<>>
           /\ vals' = vals + 1
           /\ Len(open') = Len(open)
           /\ \A i \in 1 .. Len(open) - 1 : open'[i] = open[i]
           /\ open = <<>> => open' = <<>>
           /\ open # <<>> => /\ open' # <<>>
                             /\ Top(open').kind = Top(open).kind
                             /\ Top(open').mark = Top(open).mark
                             /\ Top(open').keys = Top(open).keys
                             /\ Top(open').len = Top(open).len + 1
<1>1. ScalarCall(t) \in CallRecord
  BY DEF ScalarCall, Call, CallRecord
<1>2. calls' \in Seq(CallRecord) /\ calls' # <<>>
  BY <1>1, PushFacts DEF SinkTypeOK, SinkScalar
<1>. QED
  BY <1>2, WithValueFacts DEF SinkTypeOK, SinkScalar

(* A key accepted: one key more in the innermost container, no value.      *)
LEMMA SinkKeyFacts ==
    ASSUME SinkTypeOK, open # <<>>, NEW t \in Token, SinkKey(t)
    PROVE  /\ SinkTypeOK'
           /\ calls' # <<>>
           /\ vals' = vals
           /\ Len(open') = Len(open)
           /\ \A i \in 1 .. Len(open) - 1 : open'[i] = open[i]
           /\ open' # <<>>
           /\ Top(open').kind = Top(open).kind
           /\ Top(open').mark = Top(open).mark
           /\ Top(open').keys = Top(open).keys + 1
           /\ Top(open').len = Top(open).len
<1>1. KeyCall(t) \in CallRecord
  BY DEF KeyCall, Call, CallRecord
<1>2. calls' \in Seq(CallRecord) /\ calls' # <<>>
  BY <1>1, PushFacts DEF SinkTypeOK, SinkKey
<1>3. Top(open) \in Container
  BY PopFacts DEF SinkTypeOK
<1>4. /\ OneMoreKey(Top(open)) \in Container
      /\ OneMoreKey(Top(open)).kind = Top(open).kind
      /\ OneMoreKey(Top(open)).mark = Top(open).mark
      /\ OneMoreKey(Top(open)).keys = Top(open).keys + 1
      /\ OneMoreKey(Top(open)).len = Top(open).len
  BY <1>3, CountedFacts
<1>5. open' = SetTop(open, OneMoreKey(Top(open))) /\ open \in Seq(Container)
  BY DEF SinkKey, SinkTypeOK
<1>6. /\ open' \in Seq(Container) /\ open' # <<>>
      /\ Len(open') = Len(open)
      /\ \A i \in 1 .. Len(open) - 1 : open'[i] = open[i]
      /\ Top(open') = OneMoreKey(Top(open))
  BY <1>4, <1>5, SetTopFacts
<1>. QED
  BY <1>2, <1>4, <1>6 DEF SinkTypeOK, SinkKey

(* A container begun: it joins the open ones, empty, with the height of    *)
(* the value stack as its mark.                                            *)
LEMMA SinkBeginFacts ==
    ASSUME SinkTypeOK, NEW k \in Kinds, SinkBegin(k)
    PROVE  /\ SinkTypeOK'
           /\ calls' # <<>>
           /\ vals' = vals
           /\ open' # <<>>
           /\ Len(open') = Len(open) + 1
           /\ \A i \in 1 .. Len(open) : open'[i] = open[i]
           /\ Top(open') = [kind |-> k, mark |-> vals, keys |-> 0, len |-> 0]
<1>1. BeginCall(k) \in CallRecord
  BY DEF BeginCall, Call, CallRecord
<1>2. calls' \in Seq(CallRecord) /\ calls' # <<>>
  BY <1>1, PushFacts DEF SinkTypeOK, SinkBegin
<1>3. Opened(k) \in Container
  BY DEF Opened, Container, SinkTypeOK
<1>. QED
  BY <1>2, <1>3, PushFacts DEF SinkTypeOK, SinkBegin, Opened

(* A container ended at mark m: it leaves the open ones, the value stack   *)
(* is one higher than m, and the container below has one value more.       *)
LEMMA SinkEndFacts ==
    ASSUME SinkTypeOK, open # <<>>,
           NEW k \in Kinds, NEW m \in Nat, NEW n \in Nat, SinkEnd(k, m, n)
    PROVE  /\ SinkTypeOK'
           /\ calls' # <<>>
           /\ vals' = m + 1
           /\ Len(open) \in Nat \ {0}
           /\ Len(open') = Len(open) - 1
           /\ Len(open) = 1 => open' = <<>>
           /\ \A i \in 1 .. Len(open) - 2 : open'[i] = open[i]
           /\ Len(open) > 1 =>
                 /\ open' # <<>>
                 /\ Top(open').kind = open[Len(open) - 1].kind
                 /\ Top(open').mark = open[Len(open) - 1].mark
                 /\ Top(open').keys = open[Len(open) - 1].keys
                 /\ Top(open').len = open[Len(open) - 1].len + 1
<1>1. EndCall(k, m, n) \in CallRecord
  BY DEF EndCall, Call, CallRecord
<1>2. calls' \in Seq(CallRecord) /\ calls' # <<>>
  BY <1>1, PushFacts DEF SinkTypeOK, SinkEnd
<1>3. /\ Len(open) \in Nat \ {0}
      /\ Pop(open) \in Seq(Container)
      /\ Len(Pop(open)) = Len(open) - 1
      /\ \A i \in 1 .. Len(open) - 1 : Pop(open)[i] = open[i]
  BY PopFacts DEF SinkTypeOK
<1>4. open' = WithValue(Pop(open)) /\ vals' = m + 1
  BY DEF SinkEnd
<1>5. /\ open' \in Seq(Container) /\ Len(open') = Len(open) - 1
      /\ \A i \in 1 .. Len(open) - 2 : open'[i] = open[i]
  BY <1>3, <1>4, WithValueFacts
<1>6. Len(open) = 1 => open' = <<>>
  BY <1>3, <1>5, EmptySeq
<1>7. ASSUME Len(open) > 1
      PROVE  /\ open' # <<>>
             /\ Top(open').kind = open[Len(open) - 1].kind
             /\ Top(open').mark = open[Len(open) - 1].mark
             /\ Top(open').keys = open[Len(open) - 1].keys
             /\ Top(open').len = open[Len(open) - 1].len + 1
  <2>1. Pop(open) # <<>> /\ Top(Pop(open)) = open[Len(open) - 1]
    BY <1>3, <1>7, EmptySeq DEF Top
  <2>. QED
    BY <1>3, <1>4, <2>1, WithValueFacts
<1>. QED
  BY <1>2, <1>3, <1>4, <1>5, <1>6, <1>7 DEF SinkTypeOK

(* A checkpoint touches the value stack at most.                           *)
LEMMA SinkCheckpointFacts ==
    ASSUME SinkTypeOK, NEW m \in Nat, SinkCheckpoint(m)
    PROVE  SinkTypeOK' /\ open' = open /\ vals' \in {m, vals}
<1>1. CheckpointCall(m) \in CallRecord
  BY DEF CheckpointCall, Call, CallRecord, Kinds
<1>. QED
  BY <1>1, PushFacts DEF SinkTypeOK, SinkCheckpoint

(* A refused call is on record like any other.                             *)
LEMMA SinkRefusesFacts ==
    ASSUME SinkTypeOK, NEW c \in CallRecord, SinkRefuses(c)
    PROVE  SinkTypeOK'
<1>1. [c EXCEPT !.reply = "err"] \in CallRecord
  BY DEF CallRecord
<1>. QED
  BY <1>1, PushFacts DEF SinkTypeOK, SinkRefuses

-----------------------------------------------------------------------------
(* What the open containers hold on the value stack.                       *)

(* The last position, or one with a next.                                  *)
LEMMA NextPosition ==
    ASSUME NEW n \in Nat, NEW i \in 1 .. n
    PROVE  i = n \/ i + 1 \in 1 .. n
OBVIOUS

(* The marks, the counts and what is held are numbers.                     *)
LEMMA HeldTypes ==
    ASSUME NEW o \in Seq(Container), NEW v \in Nat
    PROVE  /\ Len(o) \in Nat /\ DOMAIN o = 1 .. Len(o)
           /\ \A i \in 1 .. Len(o) :
                 /\ o[i] \in Container /\ o[i].mark \in Nat /\ o[i].len \in Nat
                 /\ (IF i = Len(o) THEN v ELSE o[i + 1].mark) \in Nat
<1>1. Len(o) \in Nat /\ DOMAIN o = 1 .. Len(o)
  BY LenProperties
<1>2. \A i \in 1 .. Len(o) : o[i] \in Container
  BY ElementOfSeq
<1>3. \A i \in 1 .. Len(o) : o[i].mark \in Nat /\ o[i].len \in Nat
  BY <1>2 DEF Container
<1>4. ASSUME NEW i \in 1 .. Len(o)
      PROVE  (IF i = Len(o) THEN v ELSE o[i + 1].mark) \in Nat
  <2>1. i = Len(o) \/ i + 1 \in 1 .. Len(o)
    BY <1>1, NextPosition
  <2>. QED
    BY <1>3, <2>1
<1>. QED
  BY <1>1, <1>2, <1>3, <1>4

(* The innermost container keeps its mark: the others hold what they held. *)
LEMMA HeldBelow ==
    ASSUME open # <<>>, Len(open) \in Nat \ {0}, Len(open') = Len(open),
           \A i \in 1 .. Len(open) - 1 : open'[i] = open[i],
           Top(open').mark = Top(open).mark
    PROVE  \A i \in 1 .. Len(open) - 1 : ValuesUpTo(i)' = ValuesUpTo(i)
<1>1. ASSUME NEW i \in 1 .. Len(open) - 1
      PROVE  ValuesUpTo(i)' = ValuesUpTo(i)
  <2>1. ValuesUpTo(i)' = open'[i + 1].mark /\ ValuesUpTo(i) = open[i + 1].mark
    BY DEF ValuesUpTo
  <2>2. CASE i + 1 = Len(open)
    BY <2>1, <2>2 DEF Top
  <2>3. CASE i + 1 \in 1 .. Len(open) - 1
    BY <2>1, <2>3
  <2>. QED
    BY <2>2, <2>3
<1>. QED
  BY <1>1

(* A container begins: it holds nothing, the others what they held.        *)
LEMMA HeldAtBegin ==
    ASSUME SinkTypeOK, NEW k \in Kinds, SinkBegin(k), NEW l \in Nat, l = Len(open)
    PROVE  /\ \A i \in 1 .. l : open'[i] = open[i] /\ ValuesUpTo(i)' = ValuesUpTo(i)
           /\ Len(open') = l + 1
           /\ open'[l + 1].mark = vals /\ ValuesUpTo(l + 1)' = vals
<1>1. /\ vals' = vals /\ Len(open') = l + 1
      /\ \A i \in 1 .. l : open'[i] = open[i]
      /\ Top(open') = [kind |-> k, mark |-> vals, keys |-> 0, len |-> 0]
  BY SinkBeginFacts
<1>2. open'[l + 1].mark = vals
  BY <1>1 DEF Top
<1>3. ASSUME NEW i \in 1 .. l
      PROVE  ValuesUpTo(i)' = ValuesUpTo(i)
  <2>1. ValuesUpTo(i)' = open'[i + 1].mark
    BY <1>1 DEF ValuesUpTo
  <2>2. CASE i = l
    BY <1>1, <1>2, <2>1, <2>2 DEF ValuesUpTo
  <2>3. CASE i + 1 \in 1 .. l
    BY <1>1, <2>1, <2>3 DEF ValuesUpTo
  <2>. QED
    BY <1>1, <2>2, <2>3
<1>4. ValuesUpTo(l + 1)' = vals
  BY <1>1 DEF ValuesUpTo
<1>. QED
  BY <1>1, <1>2, <1>3, <1>4

(* A container inside another ends: its parent holds one value more than   *)
(* when it began, the others what they held.                               *)
LEMMA HeldAtEnd ==
    ASSUME SinkTypeOK, NEW l \in Nat, l = Len(open), l > 1,
           NEW k \in Kinds, NEW n \in Nat, SinkEnd(k, Top(open).mark, n)
    PROVE  /\ Len(open') = l - 1
           /\ \A i \in 1 .. l - 2 : open'[i] = open[i] /\ ValuesUpTo(i)' = ValuesUpTo(i)
           /\ open'[l - 1].kind = open[l - 1].kind
           /\ open'[l - 1].mark = open[l - 1].mark
           /\ open'[l - 1].len = open[l - 1].len + 1
           /\ ValuesUpTo(l - 1)' = ValuesUpTo(l - 1) + 1
<1>0. open # <<>> /\ open \in Seq(Container)
  BY EmptySeq DEF SinkTypeOK
<1>1. Top(open) \in Container
  BY <1>0, PopFacts
<1>2. Top(open).mark \in Nat
  BY <1>1 DEF Container
<1>3. /\ Len(open') = l - 1 /\ vals' = Top(open).mark + 1
      /\ \A i \in 1 .. l - 2 : open'[i] = open[i]
      /\ Top(open').kind = open[l - 1].kind
      /\ Top(open').mark = open[l - 1].mark
      /\ Top(open').len = open[l - 1].len + 1
  BY <1>0, <1>2, SinkEndFacts
<1>4. Top(open') = open'[l - 1] /\ Top(open) = open[l]
  BY <1>3 DEF Top
<1>5. ValuesUpTo(l - 1)' = vals' /\ ValuesUpTo(l - 1) = open[l].mark
  BY <1>3 DEF ValuesUpTo
<1>6. ASSUME NEW i \in 1 .. l - 2
      PROVE  ValuesUpTo(i)' = ValuesUpTo(i)
  <2>1. ValuesUpTo(i)' = open'[i + 1].mark /\ ValuesUpTo(i) = open[i + 1].mark
    BY <1>3 DEF ValuesUpTo
  <2>2. CASE i + 1 = l - 1
    BY <1>3, <1>4, <2>1, <2>2
  <2>3. CASE i + 1 \in 1 .. l - 2
    BY <1>3, <2>1, <2>3
  <2>. QED
    BY <2>2, <2>3
<1>. QED
  BY <1>3, <1>4, <1>5, <1>6

-----------------------------------------------------------------------------
(* Counting modulo a period.                                               *)

(* A multiple of p within p of zero is zero.                               *)
LEMMA SmallMultiple ==
    ASSUME NEW d \in Int, NEW p \in Nat \ {0}, d * p < p, -p < d * p
    PROVE  d = 0
<1>1. CASE d >= 1
  <2>1. (d - 1) * p >= 0 /\ (d - 1) * p = d * p - p
    BY <1>1
  <2>. QED
    BY <2>1
<1>2. CASE d <= -1
  <2>1. (-1 - d) * p >= 0 /\ (-1 - d) * p = -(d * p) - p
    BY <1>2
  <2>. QED
    BY <2>1
<1>. QED
  BY <1>1, <1>2

(* Division with remainder.                                                *)
LEMMA Remainder ==
    ASSUME NEW n \in Nat, NEW p \in Nat \ {0}
    PROVE  \E q \in Int, r \in 0 .. p - 1 : r = n % p /\ n = q * p + r
<1>. DEFINE q == n \div p
            r == n % p
<1>1. q \in Int /\ r \in 0 .. p - 1 /\ n - q * p = r
  OBVIOUS
<1>. HIDE DEF q, r
<1>2. n = q * p + r
  BY <1>1
<1>3. r = n % p
  BY DEF r
<1>. QED
  BY <1>1, <1>2, <1>3

(* The remainder is the only one below the period.                         *)
LEMMA RemainderIs ==
    ASSUME NEW n \in Nat, NEW p \in Nat \ {0}, NEW k \in Int, NEW r \in 0 .. p - 1,
           n = k * p + r
    PROVE  n % p = r
<1>1. PICK q \in Int, s \in 0 .. p - 1 : s = n % p /\ n = q * p + s
  BY Remainder
<1>2. (k - q) * p = s - r
  <2>1. (k - q) * p = k * p - q * p
    OBVIOUS
  <2>. QED
    BY <1>1, <2>1
<1>3. k - q = 0
  BY <1>1, <1>2, SmallMultiple
<1>4. (k - q) * p = 0
  BY <1>3
<1>. QED
  BY <1>1, <1>2, <1>4

(* Counting one more moves the remainder by one, except to zero.           *)
LEMMA NextRemainder ==
    ASSUME NEW n \in Nat, NEW p \in Nat \ {0}, (n + 1) % p # 0
    PROVE  (n + 1) % p = (n % p) + 1
<1>1. PICK q \in Int, r \in 0 .. p - 1 : r = n % p /\ n = q * p + r
  BY Remainder
<1>2. r + 1 # p
  <2>1. ASSUME r + 1 = p PROVE FALSE
    <3>1. n + 1 = (q + 1) * p + 0
      BY <1>1, <2>1
    <3>2. n + 1 \in Nat /\ q + 1 \in Int /\ 0 \in 0 .. p - 1
      OBVIOUS
    <3>3. (n + 1) % p = 0
      BY <3>1, <3>2, RemainderIs, Zenon
    <3>. QED
      BY <3>3
  <2>. QED
    BY <2>1
<1>3. n + 1 = q * p + (r + 1) /\ r + 1 \in 0 .. p - 1 /\ n + 1 \in Nat
  BY <1>1, <1>2
<1>4. (n + 1) % p = r + 1
  BY <1>3, RemainderIs, Zenon
<1>. QED
  BY <1>1, <1>4

-----------------------------------------------------------------------------
(* The events of a log of calls, and the parse they are the steps of.      *)

(* A non-empty set of naturals has a least element.                        *)
LEMMA LeastElement ==
    ASSUME NEW T, T \subseteq Nat, T # {}
    PROVE  \E n \in T : \A m \in T : n <= m
<1>. DEFINE Upto == {0..n : n \in T}
<1>1. ASSUME NEW n \in T PROVE 0..n \in FiniteSubsetsOf(Nat)
  <2>1. 0..n \in SUBSET Nat /\ IsFiniteSet(0..n)
    BY FS_Interval
  <2>. QED
    BY <2>1 DEF FiniteSubsetsOf
<1>2. Upto \subseteq FiniteSubsetsOf(Nat) /\ Upto # {}
  BY <1>1
<1>3. PICK B \in Upto : \A C \in Upto : ~ (<<C, B>> \in StrictSubsetOrdering(Nat))
  <2>. HIDE DEF Upto
  <2>. QED
    BY <1>2, FS_StrictSubsetOrderingWellFounded, WFMin
<1>4. PICK n \in T : B = 0..n
  BY <1>3
<1>5. ASSUME NEW m \in T, m < n PROVE FALSE
  <2>1. <<0..m, B>> \in StrictSubsetOrdering(Nat)
    BY <1>4, <1>5 DEF StrictSubsetOrdering
  <2>. QED
    BY <1>3, <2>1
<1>. QED
  BY <1>5

(* A set of naturals with 0 that goes on to the next up to n has all to n. *)
LEMMA UpTo ==
    ASSUME NEW n \in Nat, NEW T, 0 \in T,
           \A k \in 0..(n - 1) : k \in T => k + 1 \in T
    PROVE  0..n \subseteq T
<1>. DEFINE missed == {k \in 0..n : k \notin T}
<1>1. ASSUME missed # {} PROVE FALSE
  <2>1. PICK k \in missed : \A m \in missed : k <= m
    <3>1. missed \subseteq Nat
      OBVIOUS
    <3>. HIDE DEF missed
    <3>. QED
      BY <1>1, <3>1, LeastElement
  <2>2. k \in 0..n /\ k \notin T /\ k # 0
    BY <2>1
  <2>3. k - 1 \in 0..n /\ ~ (k <= k - 1)
    BY <2>2
  <2>4. k - 1 \in T
    BY <2>1, <2>3
  <2>5. k - 1 \in 0..(n - 1) /\ (k - 1) + 1 = k
    BY <2>2
  <2>. QED
    BY <2>2, <2>4, <2>5
<1>. QED
  BY <1>1

(* What is kept of a sequence, as the recursion of Without builds it.      *)
OneKept(s, unwanted, f, i) ==
    IF i = 0 THEN <<>>
    ELSE IF s[i] \in unwanted THEN f[i - 1]
    ELSE Append(f[i - 1], s[i])

Keeps(f, s, unwanted, n) == f = [i \in 0 .. n |-> OneKept(s, unwanted, f, i)]

LEMMA KeepsLonger ==
    ASSUME NEW s, NEW unwanted, NEW n \in Nat, NEW f, Keeps(f, s, unwanted, n),
           NEW g, g = [i \in 0 .. n + 1 |-> IF i = n + 1 THEN OneKept(s, unwanted, f, i) ELSE f[i]]
    PROVE  Keeps(g, s, unwanted, n + 1)
<1>1. ASSUME NEW i \in 0 .. n + 1 PROVE g[i] = OneKept(s, unwanted, g, i)
  <2>1. CASE i = 0
    <3>1. g[i] = f[i] /\ i \in 0 .. n
      BY <2>1
    <3>2. f[i] = OneKept(s, unwanted, f, i)
      BY <3>1 DEF Keeps
    <3>. QED
      BY <2>1, <3>1, <3>2 DEF OneKept
  <2>2. CASE i # 0
    <3>1. g[i - 1] = f[i - 1] /\ i - 1 \in 0 .. n
      BY <2>2
    <3>2. OneKept(s, unwanted, g, i) = OneKept(s, unwanted, f, i)
      BY <3>1 DEF OneKept
    <3>3. CASE i = n + 1
      BY <3>2, <3>3
    <3>4. CASE i # n + 1
      <4>1. i \in 0 .. n /\ g[i] = f[i]
        BY <3>4
      <4>2. f[i] = OneKept(s, unwanted, f, i)
        BY <4>1 DEF Keeps
      <4>. QED
        BY <3>2, <4>1, <4>2
    <3>. QED
      BY <3>3, <3>4
  <2>. QED
    BY <2>1, <2>2
<1>. QED
  BY <1>1 DEF Keeps

LEMMA KeepsExist ==
    ASSUME NEW s, NEW unwanted, NEW n \in Nat
    PROVE  \E f : Keeps(f, s, unwanted, n)
<1>. DEFINE T == {k \in Nat : \E f : Keeps(f, s, unwanted, k)}
<1>1. 0 \in T
  <2>. DEFINE f == [i \in 0 .. 0 |-> <<>>]
  <2>1. f = [i \in 0 .. 0 |-> OneKept(s, unwanted, f, i)]
    BY DEF OneKept
  <2>2. Keeps(f, s, unwanted, 0)
    BY <2>1, Zenon DEF Keeps
  <2>. QED
    BY <2>2
<1>2. ASSUME NEW k \in 0 .. n - 1, k \in T PROVE k + 1 \in T
  <2>1. PICK f : Keeps(f, s, unwanted, k)
    BY <1>2
  <2>. DEFINE g == [i \in 0 .. k + 1 |-> IF i = k + 1 THEN OneKept(s, unwanted, f, i) ELSE f[i]]
  <2>2. k \in Nat /\ k + 1 \in Nat
    BY <1>2
  <2>3. Keeps(g, s, unwanted, k + 1)
    <3>. HIDE DEF Keeps, OneKept
    <3>1. g = [i \in 0 .. k + 1 |-> IF i = k + 1 THEN OneKept(s, unwanted, f, i) ELSE f[i]]
      OBVIOUS
    <3>. HIDE DEF g
    <3>. QED
      BY <2>1, <2>2, <3>1, KeepsLonger
  <2>. QED
    BY <2>2, <2>3
<1>3. n \in 0 .. n
  OBVIOUS
<1>4. 0 .. n \subseteq T
  <2>. HIDE DEF T
  <2>. QED
    BY <1>1, <1>2, UpTo
<1>. QED
  BY <1>3, <1>4

LEMMA KeepsAlike ==
    ASSUME NEW s, NEW unwanted, NEW n \in Nat, NEW f, NEW g, Keeps(f, s, unwanted, n), Keeps(g, s, unwanted, n)
    PROVE  f[n] = g[n]
<1>. DEFINE T == {k \in Nat : k <= n => f[k] = g[k]}
<1>1. \A i \in 0 .. n : f[i] = OneKept(s, unwanted, f, i) /\ g[i] = OneKept(s, unwanted, g, i)
  BY DEF Keeps
<1>2. 0 \in T
  <2>1. 0 \in 0 .. n
    OBVIOUS
  <2>2. f[0] = OneKept(s, unwanted, f, 0) /\ g[0] = OneKept(s, unwanted, g, 0)
    BY <1>1, <2>1
  <2>. QED
    BY <2>2 DEF OneKept
<1>3. ASSUME NEW k \in 0 .. n - 1, k \in T PROVE k + 1 \in T
  <2>1. f[k] = g[k] /\ k + 1 \in 0 .. n /\ k + 1 \in Nat /\ k + 1 # 0 /\ (k + 1) - 1 = k
    BY <1>3
  <2>2. OneKept(s, unwanted, f, k + 1) = OneKept(s, unwanted, g, k + 1)
    BY <2>1 DEF OneKept
  <2>. QED
    BY <1>1, <2>1, <2>2
<1>4. 0 .. n \subseteq T
  <2>. HIDE DEF T
  <2>. QED
    BY <1>2, <1>3, UpTo
<1>. QED
  BY <1>4

LEMMA WithoutIs ==
    ASSUME NEW s, NEW unwanted, Len(s) \in Nat, NEW f, Keeps(f, s, unwanted, Len(s))
    PROVE  Without(s, unwanted) = f[Len(s)]
<1>. DEFINE R(x) == x = [i \in 0 .. Len(s) |-> IF i = 0 THEN <<>>
                             ELSE IF s[i] \in unwanted THEN x[i - 1]
                             ELSE Append(x[i - 1], s[i])]
<1>1. Without(s, unwanted) = (CHOOSE x : R(x))[Len(s)]
  BY Zenon DEF Without
<1>2. R(f)
  BY Zenon DEF Keeps, OneKept
<1>3. R(CHOOSE x : R(x))
  <2>. HIDE DEF R
  <2>. QED
    BY <1>2
<1>4. Keeps((CHOOSE x : R(x)), s, unwanted, Len(s))
  BY <1>3, Zenon DEF Keeps, OneKept
<1>. QED
  BY <1>1, <1>4, KeepsAlike

(* Of nothing, nothing is kept.                                            *)
LEMMA WithoutNone ==
    ASSUME NEW unwanted
    PROVE  Without(<<>>, unwanted) = <<>>
<1>1. Len(<<>>) = 0
  OBVIOUS
<1>2. PICK f : Keeps(f, <<>>, unwanted, 0)
  BY KeepsExist
<1>3. Without(<<>>, unwanted) = f[0]
  BY <1>1, <1>2, WithoutIs
<1>4. f[0] = OneKept(<<>>, unwanted, f, 0)
  BY <1>2 DEF Keeps
<1>. QED
  BY <1>3, <1>4 DEF OneKept

(* One element more is one more kept, unless it is unwanted.               *)
LEMMA WithoutMore ==
    ASSUME NEW S, NEW unwanted, NEW s \in Seq(S), NEW e \in S
    PROVE  Without(Append(s, e), unwanted) =
               IF e \in unwanted THEN Without(s, unwanted) ELSE Append(Without(s, unwanted), e)
<1>. DEFINE n == Len(s)
            longer == Append(s, e)
<1>1. n \in Nat /\ Len(longer) = n + 1 /\ longer[n + 1] = e
      /\ \A i \in 1 .. n : longer[i] = s[i]
  BY AppendProperties, LenProperties
<1>2. PICK f : Keeps(f, s, unwanted, n)
  BY <1>1, KeepsExist
<1>. DEFINE g == [i \in 0 .. n + 1 |->
                     IF i = n + 1 THEN OneKept(longer, unwanted, f, i) ELSE f[i]]
<1>3. Keeps(f, longer, unwanted, n)
  <2>. HIDE DEF n, longer
  <2>1. \A i \in 0 .. n : OneKept(longer, unwanted, f, i) = OneKept(s, unwanted, f, i)
    BY <1>1 DEF OneKept
  <2>2. f = [i \in 0 .. n |-> OneKept(s, unwanted, f, i)]
    BY <1>2, Zenon DEF Keeps
  <2>3. f = [i \in 0 .. n |-> OneKept(longer, unwanted, f, i)]
    BY <2>1, <2>2
  <2>. QED
    BY <2>3, Zenon DEF Keeps
<1>4. Keeps(g, longer, unwanted, n + 1)
  <2>1. g = [i \in 0 .. n + 1 |-> IF i = n + 1 THEN OneKept(longer, unwanted, f, i) ELSE f[i]]
    OBVIOUS
  <2>. HIDE DEF g, n, longer
  <2>. QED
    BY <1>1, <1>3, <2>1, KeepsLonger
<1>5. Without(s, unwanted) = f[n]
  <2>. HIDE DEF n
  <2>. QED
    BY <1>1, <1>2, WithoutIs DEF n
<1>6. Without(longer, unwanted) = g[n + 1]
  <2>1. Len(longer) \in Nat
    BY <1>1
  <2>2. Keeps(g, longer, unwanted, Len(longer))
    BY <1>1, <1>4, Zenon
  <2>3. Without(longer, unwanted) = g[Len(longer)]
    <3>. HIDE DEF g, longer
    <3>. QED
      BY <2>1, <2>2, WithoutIs
  <2>. QED
    BY <1>1, <2>3
<1>7. g[n + 1] = OneKept(longer, unwanted, f, n + 1)
  BY <1>1
<1>8. OneKept(longer, unwanted, f, n + 1) = IF e \in unwanted THEN f[n] ELSE Append(f[n], e)
  BY <1>1 DEF OneKept
<1>. QED
  BY <1>5, <1>6, <1>7, <1>8

(* What is kept is of the sequence, and none of it is unwanted.            *)
LEMMA WithoutType ==
    ASSUME NEW S, NEW unwanted, NEW s \in Seq(S)
    PROVE  Without(s, unwanted) \in Seq(S \ unwanted)
<1>. DEFINE n == Len(s)
<1>1. n \in Nat /\ \A i \in 1 .. n : s[i] \in S
  BY LenProperties, ElementOfSeq
<1>2. PICK f : Keeps(f, s, unwanted, n)
  BY <1>1, KeepsExist
<1>. DEFINE T == {k \in Nat : k <= n => f[k] \in Seq(S \ unwanted)}
<1>. HIDE DEF n
<1>3. \A i \in 0 .. n : f[i] = OneKept(s, unwanted, f, i)
  BY <1>2 DEF Keeps
<1>4. 0 \in T
  <2>1. f[0] = <<>>
    BY <1>1, <1>3 DEF OneKept
  <2>2. <<>> \in Seq(S \ unwanted)
    BY EmptySeq
  <2>. QED
    BY <2>1, <2>2
<1>5. ASSUME NEW k \in 0 .. n - 1, k \in T PROVE k + 1 \in T
  <2>1. k \in Nat /\ k + 1 \in 1 .. n /\ k + 1 \in 0 .. n /\ k + 1 # 0 /\ (k + 1) - 1 = k
        /\ k <= n
    BY <1>1
  <2>2. f[k] \in Seq(S \ unwanted)
    BY <1>5, <2>1
  <2>3. f[k + 1] = IF s[k + 1] \in unwanted THEN f[k] ELSE Append(f[k], s[k + 1])
    BY <1>3, <2>1 DEF OneKept
  <2>4. s[k + 1] \in S
    BY <1>1, <2>1
  <2>5. f[k + 1] \in Seq(S \ unwanted)
    BY <2>2, <2>3, <2>4, AppendProperties
  <2>. QED
    BY <2>1, <2>5
<1>6. 0 .. n \subseteq T
  <2>. HIDE DEF T
  <2>. QED
    BY <1>1, <1>4, <1>5, UpTo
<1>7. f[n] \in Seq(S \ unwanted)
  <2>1. n \in T /\ n <= n
    BY <1>1, <1>6
  <2>. QED
    BY <2>1
<1>8. Without(s, unwanted) = f[n]
  BY <1>1, <1>2, WithoutIs DEF n
<1>. QED
  BY <1>7, <1>8

(* Nothing is kept of a tail that is all unwanted.                         *)
LEMMA WithoutTail ==
    ASSUME NEW S, NEW unwanted, NEW s \in Seq(S), NEW tail \in Seq(S \cap unwanted)
    PROVE  Without(s \o tail, unwanted) = Without(s, unwanted)
<1>. DEFINE n == Len(s)
            m == Len(tail)
            all == s \o tail
<1>1. /\ n \in Nat /\ m \in Nat /\ Len(all) = n + m
      /\ \A i \in 1 .. n : all[i] = s[i]
      /\ \A i \in 1 .. m : all[n + i] \in unwanted
  BY LenProperties, ConcatProperties, ElementOfSeq
<1>. HIDE DEF n, m, all
<1>2. PICK f : Keeps(f, all, unwanted, n + m)
  <2>1. n + m \in Nat
    BY <1>1
  <2>. QED
    BY <2>1, KeepsExist
<1>3. Without(all, unwanted) = f[n + m]
  BY <1>1, <1>2, WithoutIs
<1>4. \A i \in 0 .. n + m : f[i] = OneKept(all, unwanted, f, i)
  BY <1>2 DEF Keeps
<1>5. f[n] = Without(s, unwanted)
  <2>. DEFINE g == [i \in 0 .. n |-> f[i]]
  <2>1. ASSUME NEW i \in 0 .. n PROVE f[i] = OneKept(s, unwanted, g, i)
    <3>1. i \in 0 .. n + m
      BY <1>1
    <3>2. i # 0 => i \in 1 .. n /\ i - 1 \in 0 .. n
      BY <1>1
    <3>3. OneKept(all, unwanted, f, i) = OneKept(s, unwanted, g, i)
      BY <1>1, <3>2 DEF OneKept
    <3>. QED
      BY <1>4, <3>1, <3>3
  <2>2. Keeps(g, s, unwanted, n)
    <3>1. g = [i \in 0 .. n |-> f[i]]
      OBVIOUS
    <3>. HIDE DEF g
    <3>. QED
      BY <2>1, <3>1 DEF Keeps
  <2>3. g[n] = f[n]
    BY <1>1
  <2>. HIDE DEF g
  <2>. QED
    BY <1>1, <2>2, <2>3, WithoutIs DEF n
<1>. DEFINE T == {k \in Nat : k <= m => f[n + k] = f[n]}
<1>6. 0 \in T
  BY <1>1
<1>7. ASSUME NEW k \in 0 .. m - 1, k \in T PROVE k + 1 \in T
  <2>1. /\ k \in Nat /\ k <= m /\ k + 1 \in 1 .. m /\ n + (k + 1) \in 0 .. n + m
        /\ n + (k + 1) # 0 /\ (n + (k + 1)) - 1 = n + k
    BY <1>1
  <2>2. all[n + (k + 1)] \in unwanted
    BY <1>1, <2>1
  <2>3. f[n + (k + 1)] = f[n + k]
    BY <1>4, <2>1, <2>2 DEF OneKept
  <2>. QED
    BY <1>7, <2>1, <2>3
<1>8. 0 .. m \subseteq T
  <2>. HIDE DEF T
  <2>. QED
    BY <1>1, <1>6, <1>7, UpTo
<1>9. f[n + m] = f[n]
  <2>1. m \in T /\ m <= m
    BY <1>1, <1>8
  <2>. QED
    BY <2>1
<1>. QED
  BY <1>3, <1>5, <1>9 DEF all

(* No call, no event.                                                      *)
LEMMA DeliveredNone == Delivered(<<>>) = <<>>
BY WithoutNone DEF Delivered

(* One call more is one event more, unless it is a checkpoint.             *)
LEMMA DeliveredMore ==
    ASSUME NEW log \in Seq(CallRecord), NEW c \in CallRecord
    PROVE  Delivered(Append(log, c)) = IF c.call = "checkpoint" THEN Delivered(log)
                                                              ELSE Append(Delivered(log), c)
<1>. DEFINE checkpoints == {x \in CallRecord : x.call = "checkpoint"}
<1>1. c \in checkpoints <=> c.call = "checkpoint"
  OBVIOUS
<1>2. Delivered(Append(log, c)) = Without(Append(log, c), checkpoints)
      /\ Delivered(log) = Without(log, checkpoints)
  BY DEF Delivered
<1>. HIDE DEF checkpoints
<1>. QED
  BY <1>1, <1>2, WithoutMore

-----------------------------------------------------------------------------
ParseResults == {"ok", "sink_error"} \cup ParseErrors

(* The next event of the parse is the one its sink refuses.                *)
RefusesNext(s, limit) == Len(s.events) + 1 = limit

(* A parse that returns keeps its events.                                  *)
LEMMA ReturningFacts ==
    ASSUME NEW s \in ParseStates, NEW result \in ParseResults, NEW offset \in Nat
    PROVE  /\ Returning(s, result, offset) \in ParseStates
           /\ Returning(s, result, offset).outcome = result
           /\ Returning(s, result, offset).errorAt = offset
           /\ Returning(s, result, offset).events = s.events
BY DEF Returning, ParseStates, ParseResults

(* A parse that moves on takes one token.                                  *)
LEMMA MovingFacts ==
    ASSUME NEW s \in ParseStates, NEW at \in Places
    PROVE  /\ Moving(s, at) \in ParseStates
           /\ Moving(s, at).at = at /\ Moving(s, at).taken = s.taken + 1
           /\ Moving(s, at).open = s.open /\ Moving(s, at).vals = s.vals
           /\ Moving(s, at).events = s.events
           /\ Moving(s, at).outcome = s.outcome
<1>1. s.taken + 1 \in Nat
  BY DEF ParseStates
<1>. QED
  BY <1>1 DEF Moving, ParseStates

(* An event accepted takes a token.                                        *)
LEMMA AcceptedFacts ==
    ASSUME NEW s \in ParseStates, NEW event \in CallRecord, NEW limit, NEW at \in Places,
           NEW o \in Seq(Container), NEW v \in Nat, ~ RefusesNext(s, limit),
           NEW t, t = Delivering(s, event, limit, at, o, v)
    PROVE  /\ t \in ParseStates /\ t.outcome = s.outcome
           /\ t.at = at /\ t.taken = s.taken + 1 /\ t.open = o /\ t.vals = v
           /\ t.events = Append(s.events, event)
<1>. DEFINE accepted == Append(s.events, event)
            m == Moving(s, at)
<1>1. accepted \in Seq(CallRecord)
  BY AppendProperties DEF ParseStates
<1>2. /\ m \in ParseStates /\ m.at = at /\ m.taken = s.taken + 1
      /\ m.outcome = s.outcome
  BY MovingFacts
<1>3. t = [m EXCEPT !.events = accepted, !.open = o, !.vals = v]
  BY Zenon DEF Delivering, RefusesNext
<1>. HIDE DEF accepted, m
<1>4. /\ t \in ParseStates /\ t.outcome = m.outcome /\ t.at = m.at /\ t.taken = m.taken
      /\ t.events = accepted /\ t.open = o /\ t.vals = v
  BY <1>1, <1>2, <1>3 DEF ParseStates
<1>. QED
  BY <1>2, <1>4 DEF accepted

(* An event refused ends the parse.                                        *)
LEMMA RefusedFacts ==
    ASSUME NEW s \in ParseStates, NEW event, NEW limit, NEW at,
           NEW o, NEW v, RefusesNext(s, limit),
           NEW e \in CallRecord, e = [event EXCEPT !.reply = "err"],
           NEW t, t = Delivering(s, event, limit, at, o, v)
    PROVE  /\ t \in ParseStates /\ t.outcome = "sink_error" /\ t.errorAt = 0
           /\ t.events = Append(s.events, e)
<1>. DEFINE refused == Append(s.events, e)
            r == Returning(s, "sink_error", 0)
<1>1. refused \in Seq(CallRecord)
  BY AppendProperties DEF ParseStates
<1>2. r \in ParseStates /\ r.outcome = "sink_error" /\ r.errorAt = 0
  BY ReturningFacts DEF ParseResults
<1>3. t = [r EXCEPT !.events = refused]
  BY Zenon DEF Delivering, RefusesNext
<1>. HIDE DEF refused, r
<1>4. t \in ParseStates /\ t.outcome = "sink_error" /\ t.errorAt = 0 /\ t.events = refused
  BY <1>1, <1>2, <1>3 DEF ParseStates
<1>. QED
  BY <1>4 DEF refused

(* The reply to an event says whether it was the one to refuse.            *)
LEMMA ReplyFacts ==
    ASSUME NEW log \in Seq(CallRecord), NEW c \in CallRecord, c.call # "checkpoint",
           NEW limit, RefusesAt(Append(log, c), limit)
    PROVE  /\ Delivered(Append(log, c)) = Append(Delivered(log), c)
           /\ c.reply = "err" <=> Len(Append(Delivered(log), c)) = limit
<1>1. Delivered(Append(log, c)) = Append(Delivered(log), c)
  BY DeliveredMore
<1>2. /\ Append(log, c) # <<>>
      /\ Append(log, c)[Len(Append(log, c))] = c
  BY AppendProperties
<1>. QED
  BY <1>1, <1>2 DEF RefusesAt

(* An engine's event accepted.                                             *)
LEMMA AcceptedState ==
    ASSUME NEW s, NEW at, NEW taken, NEW o, NEW v, NEW log \in Seq(CallRecord), NEW err,
           IsState(s, at, taken, o, v, log, "parsing", err),
           NEW c \in CallRecord, c.call # "checkpoint", c.reply = "ok",
           NEW limit, RefusesAt(Append(log, c), limit),
           NEW at2 \in Places, NEW o2 \in Seq(Container), NEW v2 \in Nat, NEW err2
    PROVE  IsState(Delivering(s, c, limit, at2, o2, v2),
                   at2, taken + 1, o2, v2, Append(log, c), "parsing", err2)
<1>1. /\ s \in ParseStates /\ s.events = Delivered(log) /\ s.outcome = "parsing"
      /\ s.taken = taken /\ s.events \in Seq(CallRecord)
  BY DEF IsState, ParseStates
<1>2. ~ RefusesNext(s, limit) /\ Delivered(Append(log, c)) = Append(s.events, c)
  BY <1>1, ReplyFacts, AppendProperties DEF RefusesNext
<1>. DEFINE t == Delivering(s, c, limit, at2, o2, v2)
<1>3. /\ t \in ParseStates /\ t.outcome = s.outcome
      /\ t.at = at2 /\ t.taken = s.taken + 1 /\ t.open = o2 /\ t.vals = v2
      /\ t.events = Append(s.events, c)
  <2>1. t = Delivering(s, c, limit, at2, o2, v2)
    OBVIOUS
  <2>. HIDE DEF t
  <2>. QED
    BY <1>1, <1>2, <2>1, AcceptedFacts
<1>. HIDE DEF t
<1>4. IsState(t, at2, taken + 1, o2, v2, Append(log, c), "parsing", err2)
  BY <1>1, <1>2, <1>3 DEF IsState
<1>. QED
  BY <1>4 DEF t

(* An engine's event refused.                                              *)
LEMMA RefusedState ==
    ASSUME NEW s, NEW at, NEW taken, NEW o, NEW v, NEW log \in Seq(CallRecord), NEW err,
           IsState(s, at, taken, o, v, log, "parsing", err),
           NEW c \in CallRecord, c.call # "checkpoint",
           NEW limit, RefusesAt(Append(log, [c EXCEPT !.reply = "err"]), limit),
           NEW at2 \in Places, NEW o2 \in Seq(Container), NEW v2 \in Nat,
           NEW a, NEW n, NEW o3, NEW v3
    PROVE  IsState(Delivering(s, c, limit, at2, o2, v2), a, n, o3, v3,
                   Append(log, [c EXCEPT !.reply = "err"]), "sink_error", 0)
<1>. DEFINE e == [c EXCEPT !.reply = "err"]
<1>1. /\ s \in ParseStates /\ s.events = Delivered(log) /\ s.outcome = "parsing"
      /\ s.events \in Seq(CallRecord)
  BY DEF IsState, ParseStates
<1>2. e \in CallRecord /\ e.call # "checkpoint" /\ e.reply = "err"
  BY DEF CallRecord
<1>3. RefusesNext(s, limit) /\ Delivered(Append(log, e)) = Append(s.events, e)
  <2>. HIDE DEF e
  <2>1. RefusesAt(Append(log, e), limit)
    BY DEF e
  <2>. QED
    BY <1>1, <1>2, <2>1, ReplyFacts, AppendProperties DEF RefusesNext
<1>. DEFINE t == Delivering(s, c, limit, at2, o2, v2)
<1>4. /\ t \in ParseStates /\ t.outcome = "sink_error" /\ t.errorAt = 0
      /\ t.events = Append(s.events, e)
  <2>1. t = Delivering(s, c, limit, at2, o2, v2)
    OBVIOUS
  <2>2. e = [c EXCEPT !.reply = "err"]
    OBVIOUS
  <2>. HIDE DEF t, e
  <2>. QED
    BY <1>1, <1>2, <1>3, <2>1, <2>2, RefusedFacts
<1>. HIDE DEF t, e
<1>5. IsState(t, a, n, o3, v3, Append(log, e), "sink_error", 0)
  BY <1>1, <1>3, <1>4 DEF IsState
<1>. QED
  BY <1>5 DEF t, e

(* An engine that returns a result of its own.                             *)
LEMMA ReturnedState ==
    ASSUME NEW s, NEW at, NEW taken, NEW o, NEW v, NEW log, NEW err,
           IsState(s, at, taken, o, v, log, "parsing", err),
           NEW result \in {"ok"} \cup ParseErrors, NEW offset \in Nat,
           NEW a, NEW n, NEW o3, NEW v3
    PROVE  IsState(Returning(s, result, offset), a, n, o3, v3, log, result, offset)
<1>1. s \in ParseStates /\ s.events = Delivered(log)
  BY DEF IsState
<1>2. result \in ParseResults /\ result # "parsing"
  BY DEF ParseResults, ParseErrors
<1>. QED
  BY <1>1, <1>2, ReturningFacts DEF IsState

(* An engine that takes a token the sink is not told of.                   *)
LEMMA MovedState ==
    ASSUME NEW s, NEW at, NEW taken, NEW o, NEW v, NEW log, NEW err,
           IsState(s, at, taken, o, v, log, "parsing", err),
           NEW at2 \in Places, NEW err2
    PROVE  IsState(Moving(s, at2), at2, taken + 1, o, v, log, "parsing", err2)
<1>1. s \in ParseStates
  BY DEF IsState
<1>. QED
  BY <1>1, MovingFacts DEF IsState

(* A checkpoint delivers nothing.                                          *)
LEMMA CheckpointState ==
    ASSUME NEW s, NEW at, NEW taken, NEW o, NEW v, NEW log \in Seq(CallRecord), NEW err,
           IsState(s, at, taken, o, v, log, "parsing", err),
           NEW c \in CallRecord, c.call = "checkpoint", NEW limit,
           RefusesAt(Append(log, c), limit)
    PROVE  /\ IsState(s, at, taken, o, v, Append(log, c), "parsing", err)
           /\ c.reply = "ok"
<1>1. Delivered(Append(log, c)) = Delivered(log)
  BY DeliveredMore
<1>2. /\ Append(log, c) # <<>>
      /\ Append(log, c)[Len(Append(log, c))] = c
  BY AppendProperties
<1>3. c.reply # "err"
  BY <1>2 DEF RefusesAt
<1>. QED
  BY <1>1, <1>3 DEF IsState, CallRecord

-----------------------------------------------------------------------------
(* The calls of the sink, as the steps of the parse they deliver: first of *)
(* an engine at place `at` that has taken `taken` tokens.                  *)
ShowsParsing(s, at, taken) == \E err : IsState(s, at, taken, open, vals, calls, "parsing", err)

(* What a parser passes the sink is a call of its trait, accepted until    *)
(* the sink says otherwise.                                                *)
LEMMA CallFacts ==
    /\ \A t \in Token : /\ ScalarCall(t) \in CallRecord /\ KeyCall(t) \in CallRecord
                        /\ ScalarCall(t).call = "scalar" /\ ScalarCall(t).reply = "ok"
                        /\ KeyCall(t).call = "key" /\ KeyCall(t).reply = "ok"
    /\ \A k \in Kinds : /\ BeginCall(k) \in CallRecord
                        /\ BeginCall(k).call = "begin" /\ BeginCall(k).reply = "ok"
    /\ \A k \in Kinds, m \in Nat, n \in Nat :
          /\ EndCall(k, m, n) \in CallRecord
          /\ EndCall(k, m, n).call = "end" /\ EndCall(k, m, n).reply = "ok"
    /\ \A m \in Nat : /\ CheckpointCall(m) \in CallRecord
                      /\ CheckpointCall(m).call = "checkpoint"
BY DEF CallRecord, Call, ScalarCall, KeyCall, BeginCall, EndCall, CheckpointCall, Kinds

(* A place behind a value, whatever is left open.                          *)
LEMMA BehindPlace ==
    ASSUME NEW containers
    PROVE  Behind(containers) \in Places
BY DEF Behind, Places

(* What is known of the innermost container.                               *)
LEMMA TopFields ==
    ASSUME SinkTypeOK, open # <<>>
    PROVE  Top(open).kind \in Kinds /\ Top(open).mark \in Nat /\ Top(open).len \in Nat
<1>. DEFINE c == Top(open)
<1>1. c \in Container
  BY PopFacts DEF SinkTypeOK
<1>. HIDE DEF c
<1>2. c.kind \in Kinds /\ c.mark \in Nat /\ c.len \in Nat
  BY <1>1 DEF Container
<1>. QED
  BY <1>2 DEF c

(* A scalar delivered.                                                     *)
LEMMA ScalarShown ==
    ASSUME SinkTypeOK, NEW s, NEW at, NEW taken, ShowsParsing(s, at, taken),
           NEW limit, RefusesAt(calls', limit), NEW t \in Token, SinkScalar(t), NEW err
    PROVE  IsState(TakeScalar(s, t, limit), Behind(open), taken + 1, open', vals', calls',
                   "parsing", err)
<1>1. /\ open' \in Seq(Container) /\ vals' \in Nat /\ vals' = vals + 1
      /\ calls \in Seq(CallRecord) /\ open' = WithValue(open)
      /\ calls' = Append(calls, ScalarCall(t))
  BY SinkScalarFacts DEF SinkTypeOK, SinkScalar
<1>2. PICK e : IsState(s, at, taken, open, vals, calls, "parsing", e)
  BY DEF ShowsParsing
<1>3. s.open = open /\ s.vals = vals
  BY <1>2 DEF IsState
<1>. DEFINE c == ScalarCall(t)
<1>4. c \in CallRecord /\ c.call # "checkpoint" /\ c.reply = "ok"
  BY CallFacts
<1>5. RefusesAt(Append(calls, c), limit)
  BY <1>1, Zenon
<1>. HIDE DEF c
<1>6. IsState(Delivering(s, c, limit, Behind(open), open', vals'),
              Behind(open), taken + 1, open', vals', Append(calls, c), "parsing", err)
  BY <1>1, <1>2, <1>4, <1>5, AcceptedState, BehindPlace, Zenon
<1>7. TakeScalar(s, t, limit) = Delivering(s, c, limit, Behind(open), open', vals')
  BY <1>1, <1>3, Zenon DEF TakeScalar, c
<1>. QED
  BY <1>1, <1>6, <1>7, Zenon DEF c

(* An event refused, whatever it would have left behind.                   *)
LEMMA RefusalShown ==
    ASSUME SinkTypeOK, NEW s, NEW at, NEW taken, ShowsParsing(s, at, taken),
           NEW limit, RefusesAt(calls', limit),
           NEW c \in CallRecord, c.call # "checkpoint", SinkRefuses(c),
           NEW at2 \in Places, NEW o2 \in Seq(Container), NEW v2 \in Nat, NEW a, NEW n
    PROVE  IsState(Delivering(s, c, limit, at2, o2, v2), a, n, open', vals', calls',
                   "sink_error", 0)
<1>1. calls \in Seq(CallRecord) /\ calls' = Append(calls, [c EXCEPT !.reply = "err"])
  BY DEF SinkTypeOK, SinkRefuses
<1>2. PICK e : IsState(s, at, taken, open, vals, calls, "parsing", e)
  BY DEF ShowsParsing
<1>3. RefusesAt(Append(calls, [c EXCEPT !.reply = "err"]), limit)
  BY <1>1, Zenon
<1>4. IsState(Delivering(s, c, limit, at2, o2, v2), a, n, open', vals',
              Append(calls, [c EXCEPT !.reply = "err"]), "sink_error", 0)
  BY <1>1, <1>2, <1>3, RefusedState, Zenon
<1>. QED
  BY <1>1, <1>4, Zenon

(* A scalar refused.                                                       *)
LEMMA ScalarRefused ==
    ASSUME SinkTypeOK, NEW s, NEW at, NEW taken, ShowsParsing(s, at, taken),
           NEW limit, RefusesAt(calls', limit), NEW t \in Token, SinkRefuses(ScalarCall(t)),
           NEW a, NEW n
    PROVE  IsState(TakeScalar(s, t, limit), a, n, open', vals', calls', "sink_error", 0)
<1>1. s.open = open /\ s.vals = vals
  BY DEF ShowsParsing, IsState
<1>2. WithValue(open) \in Seq(Container) /\ vals + 1 \in Nat
  BY WithValueFacts DEF SinkTypeOK
<1>3. ScalarCall(t) \in CallRecord /\ ScalarCall(t).call # "checkpoint"
  BY CallFacts
<1>4. IsState(Delivering(s, ScalarCall(t), limit, Behind(open), WithValue(open), vals + 1),
              a, n, open', vals', calls', "sink_error", 0)
  BY <1>2, <1>3, RefusalShown, BehindPlace, Zenon
<1>. QED
  BY <1>1, <1>4, Zenon DEF TakeScalar

(* A key delivered or refused, in an object.                               *)
LEMMA KeyShown ==
    ASSUME SinkTypeOK, open # <<>>, NEW s, NEW at, NEW taken, ShowsParsing(s, at, taken),
           NEW limit, RefusesAt(calls', limit), NEW t \in KeyText, SinkKey(t), NEW err
    PROVE  IsState(TakeKey(s, t, limit), "colon", taken + 1, open', vals', calls',
                   "parsing", err)
<1>0. t \in Token
  BY DEF KeyText, Token, Scalars, PlainScalars
<1>1. /\ open' \in Seq(Container) /\ vals' \in Nat /\ vals' = vals
      /\ calls \in Seq(CallRecord) /\ open' = SetTop(open, OneMoreKey(Top(open)))
      /\ calls' = Append(calls, KeyCall(t))
  BY <1>0, SinkKeyFacts DEF SinkTypeOK, SinkKey
<1>2. PICK e : IsState(s, at, taken, open, vals, calls, "parsing", e)
  BY DEF ShowsParsing
<1>3. s.open = open /\ s.vals = vals
  BY <1>2 DEF IsState
<1>. DEFINE c == KeyCall(t)
<1>4. c \in CallRecord /\ c.call # "checkpoint" /\ c.reply = "ok"
  BY <1>0, CallFacts
<1>5. RefusesAt(Append(calls, c), limit)
  BY <1>1, Zenon
<1>. HIDE DEF c
<1>6. IsState(Delivering(s, c, limit, "colon", open', vals'),
              "colon", taken + 1, open', vals', Append(calls, c), "parsing", err)
  <2>1. "colon" \in Places
    BY DEF Places
  <2>. QED
    BY <1>1, <1>2, <1>4, <1>5, <2>1, AcceptedState, Zenon
<1>7. TakeKey(s, t, limit) = Delivering(s, c, limit, "colon", open', vals')
  BY <1>1, <1>3, Zenon DEF TakeKey, c
<1>. QED
  BY <1>1, <1>6, <1>7, Zenon DEF c

(* A key refused.                                                          *)
LEMMA KeyRefused ==
    ASSUME SinkTypeOK, open # <<>>, NEW s, NEW at, NEW taken, ShowsParsing(s, at, taken),
           NEW limit, RefusesAt(calls', limit), NEW t \in KeyText, SinkRefuses(KeyCall(t)),
           NEW a, NEW n
    PROVE  IsState(TakeKey(s, t, limit), a, n, open', vals', calls', "sink_error", 0)
<1>0. t \in Token /\ "colon" \in Places
  BY DEF KeyText, Token, Scalars, PlainScalars, Places
<1>1. s.open = open /\ s.vals = vals
  BY DEF ShowsParsing, IsState
<1>2. SetTop(open, OneMoreKey(Top(open))) \in Seq(Container) /\ vals \in Nat
  BY SetTopFacts, PopFacts, CountedFacts DEF SinkTypeOK
<1>3. KeyCall(t) \in CallRecord /\ KeyCall(t).call # "checkpoint"
  BY <1>0, CallFacts
<1>4. IsState(Delivering(s, KeyCall(t), limit, "colon", SetTop(open, OneMoreKey(Top(open))), vals),
              a, n, open', vals', calls', "sink_error", 0)
  BY <1>0, <1>2, <1>3, RefusalShown, Zenon
<1>. QED
  BY <1>1, <1>4, Zenon DEF TakeKey

(* A container begun.                                                      *)
LEMMA BeginShown ==
    ASSUME SinkTypeOK, NEW s, NEW at, NEW taken, ShowsParsing(s, at, taken),
           NEW limit, RefusesAt(calls', limit), NEW t \in Openers, SinkBegin(KindOf(t)),
           NEW err
    PROVE  IsState(TakeOpener(s, t, limit), "first", taken + 1, open', vals', calls',
                   "parsing", err)
<1>0. KindOf(t) \in Kinds /\ "first" \in Places
  BY DEF KindOf, Kinds, Places
<1>1. /\ open' \in Seq(Container) /\ vals' \in Nat /\ vals' = vals
      /\ calls \in Seq(CallRecord) /\ open' = Append(open, Begun(KindOf(t), vals))
      /\ calls' = Append(calls, BeginCall(KindOf(t)))
  BY <1>0, SinkBeginFacts DEF SinkTypeOK, SinkBegin, Opened, Begun
<1>2. PICK e : IsState(s, at, taken, open, vals, calls, "parsing", e)
  BY DEF ShowsParsing
<1>3. s.open = open /\ s.vals = vals
  BY <1>2 DEF IsState
<1>. DEFINE c == BeginCall(KindOf(t))
<1>4. c \in CallRecord /\ c.call # "checkpoint" /\ c.reply = "ok"
  BY <1>0, CallFacts
<1>5. RefusesAt(Append(calls, c), limit)
  BY <1>1, Zenon
<1>. HIDE DEF c
<1>6. IsState(Delivering(s, c, limit, "first", open', vals'),
              "first", taken + 1, open', vals', Append(calls, c), "parsing", err)
  BY <1>0, <1>1, <1>2, <1>4, <1>5, AcceptedState, Zenon
<1>7. TakeOpener(s, t, limit) = Delivering(s, c, limit, "first", open', vals')
  BY <1>1, <1>3, Zenon DEF TakeOpener, c
<1>. QED
  BY <1>1, <1>6, <1>7, Zenon DEF c

(* A container not begun: its begin_* was refused.                         *)
LEMMA BeginRefused ==
    ASSUME SinkTypeOK, NEW s, NEW at, NEW taken, ShowsParsing(s, at, taken),
           NEW limit, RefusesAt(calls', limit), NEW t \in Openers,
           SinkRefuses(BeginCall(KindOf(t))), NEW a, NEW n
    PROVE  IsState(TakeOpener(s, t, limit), a, n, open', vals', calls', "sink_error", 0)
<1>0. KindOf(t) \in Kinds /\ "first" \in Places
  BY DEF KindOf, Kinds, Places
<1>1. s.open = open /\ s.vals = vals
  BY DEF ShowsParsing, IsState
<1>2. Append(open, Begun(KindOf(t), vals)) \in Seq(Container) /\ vals \in Nat
  <2>1. Begun(KindOf(t), vals) \in Container
    BY <1>0 DEF Begun, Container, SinkTypeOK
  <2>. QED
    BY <2>1, PushFacts DEF SinkTypeOK
<1>3. BeginCall(KindOf(t)) \in CallRecord /\ BeginCall(KindOf(t)).call # "checkpoint"
  BY <1>0, CallFacts
<1>4. IsState(Delivering(s, BeginCall(KindOf(t)), limit, "first",
                         Append(open, Begun(KindOf(t), vals)), vals),
              a, n, open', vals', calls', "sink_error", 0)
  BY <1>0, <1>2, <1>3, RefusalShown, Zenon
<1>. QED
  BY <1>1, <1>4, Zenon DEF TakeOpener

(* The innermost container ended with what the sink saw of it.             *)
LEMMA EndShown ==
    ASSUME SinkTypeOK, open # <<>>, NEW s, NEW at, NEW taken, ShowsParsing(s, at, taken),
           NEW limit, RefusesAt(calls', limit),
           SinkEnd(Top(open).kind, Top(open).mark, Top(open).len), NEW err
    PROVE  IsState(TakeCloser(s, limit), Behind(Pop(open)), taken + 1, open', vals', calls',
                   "parsing", err)
<1>. DEFINE k == Top(open).kind
            m == Top(open).mark
            l == Top(open).len
            c == EndCall(k, m, l)
<1>0. k \in Kinds /\ m \in Nat /\ l \in Nat
  BY TopFields
<1>1. /\ open' \in Seq(Container) /\ vals' \in Nat /\ vals' = m + 1
      /\ calls \in Seq(CallRecord) /\ open' = WithValue(Pop(open))
      /\ calls' = Append(calls, c)
  <2>. HIDE DEF k, m, l
  <2>1. SinkEnd(k, m, l)
    BY Zenon DEF k, m, l
  <2>. QED
    BY <1>0, <2>1, SinkEndFacts DEF SinkTypeOK, SinkEnd
<1>2. PICK e : IsState(s, at, taken, open, vals, calls, "parsing", e)
  BY DEF ShowsParsing
<1>3. s.open = open /\ s.vals = vals
  BY <1>2 DEF IsState
<1>4. c \in CallRecord /\ c.call # "checkpoint" /\ c.reply = "ok"
  <2>. HIDE DEF k, m, l
  <2>. QED
    BY <1>0, CallFacts
<1>5. RefusesAt(Append(calls, c), limit)
  BY <1>1, Zenon
<1>7. TakeCloser(s, limit) = Delivering(s, c, limit, Behind(Pop(open)), open', vals')
  BY <1>1, <1>3, Zenon DEF TakeCloser
<1>. HIDE DEF c
<1>6. IsState(Delivering(s, c, limit, Behind(Pop(open)), open', vals'),
              Behind(Pop(open)), taken + 1, open', vals', Append(calls, c), "parsing", err)
  BY <1>1, <1>2, <1>4, <1>5, AcceptedState, BehindPlace, Zenon
<1>. QED
  BY <1>1, <1>6, <1>7, Zenon

(* The end of a container refused.                                         *)
LEMMA EndRefused ==
    ASSUME SinkTypeOK, open # <<>>, NEW s, NEW at, NEW taken, ShowsParsing(s, at, taken),
           NEW limit, RefusesAt(calls', limit),
           SinkRefuses(EndCall(Top(open).kind, Top(open).mark, Top(open).len)), NEW a, NEW n
    PROVE  IsState(TakeCloser(s, limit), a, n, open', vals', calls', "sink_error", 0)
<1>. DEFINE k == Top(open).kind
            m == Top(open).mark
            l == Top(open).len
            c == EndCall(k, m, l)
<1>0. k \in Kinds /\ m \in Nat /\ l \in Nat /\ m + 1 \in Nat
  BY TopFields
<1>1. s.open = open /\ s.vals = vals
  BY DEF ShowsParsing, IsState
<1>2. WithValue(Pop(open)) \in Seq(Container)
  BY PopFacts, WithValueFacts DEF SinkTypeOK
<1>3. c \in CallRecord /\ c.call # "checkpoint"
  <2>. HIDE DEF k, m, l
  <2>. QED
    BY <1>0, CallFacts
<1>4. TakeCloser(s, limit) = Delivering(s, c, limit, Behind(Pop(open)), WithValue(Pop(open)), m + 1)
  BY <1>1, Zenon DEF TakeCloser
<1>5. IsState(Delivering(s, c, limit, Behind(Pop(open)), WithValue(Pop(open)), m + 1),
              a, n, open', vals', calls', "sink_error", 0)
  <2>1. SinkRefuses(c)
    BY Zenon
  <2>. HIDE DEF c, m, k, l
  <2>. QED
    BY <1>0, <1>2, <1>3, <2>1, RefusalShown, BehindPlace, Zenon
<1>. QED
  BY <1>4, <1>5, Zenon

(* A checkpoint, which a sink that does not spill takes no notice of and   *)
(* which is never the event to refuse.                                     *)
LEMMA CheckpointShown ==
    ASSUME SinkTypeOK, ~ Spills, NEW s, NEW at, NEW taken, ShowsParsing(s, at, taken),
           NEW limit, RefusesAt(calls', limit), NEW m \in Nat, SinkCheckpoint(m), NEW err
    PROVE  IsState(s, at, taken, open', vals', calls', "parsing", err)
<1>1. open' = open /\ vals' = vals /\ calls' = Append(calls, CheckpointCall(m))
  BY DEF SinkCheckpoint
<1>3. IsState(s, at, taken, open, vals, calls, "parsing", err)
  BY DEF ShowsParsing, IsState
<1>. DEFINE c == CheckpointCall(m)
<1>4. c \in CallRecord /\ c.call = "checkpoint"
  BY CallFacts
<1>5. RefusesAt(Append(calls, c), limit) /\ calls \in Seq(CallRecord)
  BY <1>1, Zenon DEF SinkTypeOK
<1>6. IsState(s, at, taken, open, vals, Append(calls, c), "parsing", err)
  <2>. HIDE DEF c
  <2>. QED
    BY <1>3, <1>4, <1>5, CheckpointState, Zenon
<1>. QED
  BY <1>1, <1>6, Zenon

(* The checkpoint of a comma: the token is taken all the same.             *)
LEMMA CheckpointMoved ==
    ASSUME SinkTypeOK, ~ Spills, NEW s, NEW at, NEW taken, ShowsParsing(s, at, taken),
           NEW limit, RefusesAt(calls', limit), NEW m \in Nat, SinkCheckpoint(m),
           NEW at2 \in Places, NEW err
    PROVE  IsState(Moving(s, at2), at2, taken + 1, open', vals', calls', "parsing", err)
<1>1. IsState(s, at, taken, open', vals', calls', "parsing", 0)
  BY CheckpointShown
<1>. QED
  BY <1>1, MovedState, Zenon

(* A checkpoint is not refused.                                            *)
LEMMA CheckpointRefused ==
    ASSUME SinkTypeOK, NEW limit, RefusesAt(calls', limit), NEW m \in Nat,
           SinkRefuses(CheckpointCall(m))
    PROVE  FALSE
<1>. DEFINE c == [CheckpointCall(m) EXCEPT !.reply = "err"]
<1>1. c \in CallRecord /\ c.call = "checkpoint" /\ c.reply = "err"
  BY CallFacts DEF CallRecord
<1>2. calls \in Seq(CallRecord) /\ calls' = Append(calls, c)
  BY DEF SinkTypeOK, SinkRefuses
<1>. HIDE DEF c
<1>3. calls' # <<>> /\ calls'[Len(calls')] = c
  BY <1>1, <1>2, AppendProperties
<1>. QED
  BY <1>1, <1>3 DEF RefusesAt

(* A token taken that the sink is not told of.                             *)
LEMMA MoveShown ==
    ASSUME NEW s, NEW at, NEW taken, ShowsParsing(s, at, taken), UNCHANGED sinkVars,
           NEW at2 \in Places, NEW err
    PROVE  IsState(Moving(s, at2), at2, taken + 1, open', vals', calls', "parsing", err)
<1>1. PICK e : IsState(s, at, taken, open, vals, calls, "parsing", e)
  BY DEF ShowsParsing
<1>2. IsState(Moving(s, at2), at2, taken + 1, open, vals, calls, "parsing", err)
  BY <1>1, MovedState, Zenon
<1>. QED
  BY <1>2 DEF sinkVars

(* A result returned, at the token to come or at none.                     *)
LEMMA ReturnShown ==
    ASSUME NEW s, NEW at, NEW taken, ShowsParsing(s, at, taken), UNCHANGED sinkVars,
           NEW result \in {"ok"} \cup ParseErrors, NEW offset \in Nat, NEW a, NEW n
    PROVE  IsState(Returning(s, result, offset), a, n, open', vals', calls', result, offset)
<1>1. PICK e : IsState(s, at, taken, open, vals, calls, "parsing", e)
  BY DEF ShowsParsing
<1>2. IsState(Returning(s, result, offset), a, n, open, vals, calls, result, offset)
  BY <1>1, ReturnedState, Zenon
<1>. QED
  BY <1>2 DEF sinkVars
=============================================================================
