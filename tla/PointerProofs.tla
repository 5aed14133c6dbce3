---------------------------- MODULE PointerProofs ----------------------------
(***************************************************************************)
(* Pointers, for every document, every batch and any depth.                *)
(*                                                                         *)
(* First the bookkeeping of the batch walk: a query is answered at most    *)
(* once, `remaining` counts the queries without an answer, and the walk    *)
(* stops when it is 0.  Then that it answers each query as the pointer     *)
(* alone: each has one walk (PointerWalk), and the batch is in between the *)
(* steps of all of them (InBetween) until each has returned.               *)
(***************************************************************************)
EXTENDS PointerDifferential, PointerWalk, SequenceTheorems, FiniteSetTheorems,
        WellFoundedInduction, TLAPS

-----------------------------------------------------------------------------
(* The values stepped over.                                                *)

(* A set of natural numbers that is not empty has a first element.         *)
LEMMA FirstIsIn ==
    ASSUME NEW Z \in SUBSET Nat, Z # {}
    PROVE  First(Z) \in Z /\ \A j \in Z : First(Z) <= j
<1>1. IsWellFoundedOn({ss \in Nat \X Nat : ss[1] < ss[2]}, Nat)
  BY NatLessThanWellFounded DEF OpToRel
<1>2. \E m \in Z : \A j \in Z : ~ (<<j, m>> \in {ss \in Nat \X Nat : ss[1] < ss[2]})
  <2>. DEFINE R == {ss \in Nat \X Nat : ss[1] < ss[2]}
  <2>1. IsWellFoundedOn(R, Nat)
    BY <1>1
  <2>. HIDE DEF R
  <2>2. \E m \in Z : \A j \in Z : ~ (<<j, m>> \in R)
    BY <2>1, WFMin
  <2>. QED
    BY <2>2 DEF R
<1>3. PICK m \in Z : \A j \in Z : ~ (<<j, m>> \in {ss \in Nat \X Nat : ss[1] < ss[2]})
  BY <1>2
<1>4. \A j \in Z : m <= j
  <2>. SUFFICES ASSUME NEW j \in Z PROVE m <= j
    OBVIOUS
  <2>1. ~ (<<j, m>> \in {ss \in Nat \X Nat : ss[1] < ss[2]})
    BY <1>3
  <2>2. ~ (j < m)
    BY <2>1
  <2>. QED
    BY <2>2
<1>. QED
  BY <1>4 DEF First

(* value_end either finds the last token of the value or has an error.     *)
LEMMA ValueEndFacts ==
    ASSUME NEW d \in Seq(Token), NEW at \in Nat \ {0}, NEW o,
           ValueFault(d, at, o) = "none"
    PROVE  ValueEnd(d, at) \in Nat \ {0}
<1>1. at <= Len(d) /\ At(d, at) = d[at]
  <2>. SUFFICES ASSUME ~ (at <= Len(d)) PROVE FALSE
    BY DEF At
  <2>1. At(d, at) = "end"
    BY DEF At
  <2>2. ValueFault(d, at, o) = "unexpected_end"
    BY <2>1 DEF ValueFault, Openers, Accepted, Scalars, PlainScalars, NanKeywords
  <2>. QED
    BY <2>2
<1>2. CASE d[at] \in Openers
  <2>1. ContainerEnds(d, at) # {}
    BY <1>1, <1>2 DEF ValueFault, Openers, Accepted, Scalars, PlainScalars, NanKeywords
  <2>2. ContainerEnds(d, at) \subseteq at .. Len(d)
    BY DEF ContainerEnds
  <2>3. at .. Len(d) \subseteq Nat \ {0}
    BY LenProperties
  <2>4. First(ContainerEnds(d, at)) \in ContainerEnds(d, at)
    BY <2>1, <2>2, <2>3, FirstIsIn
  <2>. QED
    BY <1>2, <2>2, <2>3, <2>4 DEF ValueEnd
<1>3. CASE d[at] \notin Openers
  BY <1>3 DEF ValueEnd
<1>. QED
  BY <1>2, <1>3

(* What it has instead is an error of the parsers.                         *)
LEMMA ValueFaultTyped ==
    ASSUME NEW d, NEW at, NEW o
    PROVE  ValueFault(d, at, o) \in {"none"} \cup ParseErrors
BY DEF ValueFault, ValueError, ParseErrors

-----------------------------------------------------------------------------
(* The frames.                                                             *)

(* The slots of a batch are finitely many.                                 *)
LEMMA IdsFinite ==
    ASSUME TypeOK
    PROVE  IsFiniteSet(Ids) /\ Ids = 1 .. Len(ptrs) /\ Len(ptrs) \in Nat
           /\ Cardinality(Ids) = Len(ptrs)
<1>1. Ids = 1 .. Len(ptrs) /\ Len(ptrs) \in Nat
  BY LenProperties DEF TypeOK, Ids
<1>. QED
  BY <1>1, FS_Interval, SMTT(30)

(* The innermost frame, and the frames below it.                           *)
LEMMA OuterFacts ==
    ASSUME TypeOK, Level > 0
    PROVE  /\ Level \in Nat \ {0}
           /\ Top \in Frame
           /\ Outer \in Seq(Frame)
           /\ Len(Outer) = Level - 1
           /\ \A k \in 1 .. Level - 1 : Outer[k] = frames[k]
<1>1. frames \in Seq(Frame) /\ Level \in Nat \ {0} /\ Level = Len(frames)
  BY LenProperties DEF TypeOK, Level
<1>2. \A k \in 1 .. Level - 1 : frames[k] \in Frame
  BY <1>1, ElementOfSeq
<1>3. Top \in Frame
  BY <1>1, ElementOfSeq DEF Top
<1>4. Outer = [k \in 1 .. Level - 1 |-> frames[k]]
  BY <1>1, <1>2, SubSeqProperties DEF Outer
<1>5. Level - 1 \in Nat /\ Outer \in [1 .. Level - 1 -> Frame]
  BY <1>1, <1>2, <1>4
<1>6. Outer \in Seq(Frame)
  BY <1>5, SeqDef
<1>7. DOMAIN Outer = 1 .. Level - 1 /\ DOMAIN Outer = 1 .. Len(Outer) /\ Len(Outer) \in Nat
  BY <1>5, <1>6, LenProperties
<1>. QED
  BY <1>1, <1>3, <1>4, <1>5, <1>6, <1>7

(* A query that goes deeper than a container has a token for it.           *)
LEMMA TokenTyped ==
    ASSUME TypeOK, ptrs \in Seq(Seq(RawTokens)), NEW k \in Nat \ {0},
           NEW q \in Ids, Len(ptrs[q]) > k - 1
    PROVE  TokenAt(q, k) \in RawTokens /\ Index[TokenAt(q, k)] \in Int
<1>1. ptrs[q] \in Seq(RawTokens)
  BY ElementOfSeq, LenProperties DEF Ids
<1>2. k \in 1 .. Len(ptrs[q])
  BY <1>1, LenProperties
<1>3. TokenAt(q, k) \in RawTokens
  BY <1>1, <1>2, ElementOfSeq DEF TokenAt
<1>. QED
  BY <1>3, IndexAssumption DEF NoIndex

-----------------------------------------------------------------------------
(* Answers.                                                                *)

(* Answering queries that have no answer takes that many from the count of *)
(* the ones without.                                                       *)
LEMMA AnswersCounted ==
    ASSUME TypeOK, NEW here \in SUBSET Ids, \A q \in here : results[q] = NoMatch,
           NEW m \in Nat \X Nat,
           results' = [q \in Ids |-> IF q \in here THEN m ELSE results[q]],
           ptrs' = ptrs
    PROVE  /\ Cardinality({q \in Ids : results[q] = NoMatch}) \in Nat
           /\ Cardinality(here) \in Nat
           /\ Cardinality(here) <= Cardinality({q \in Ids : results[q] = NoMatch})
           /\ Cardinality({q \in Ids : results'[q] = NoMatch})
                 = Cardinality({q \in Ids : results[q] = NoMatch}) - Cardinality(here)
<1>. DEFINE open == {q \in Ids : results[q] = NoMatch}
<1>1. IsFiniteSet(Ids)
  BY IdsFinite
<1>2. IsFiniteSet(open) /\ here \subseteq open
  BY <1>1, FS_Subset
<1>3. IsFiniteSet(here) /\ Cardinality(here) \in Nat /\ Cardinality(open) \in Nat
      /\ Cardinality(here) <= Cardinality(open)
  BY <1>2, FS_Subset, FS_CardinalityType
<1>4. m # NoMatch
  BY DEF NoMatch
<1>5. {q \in Ids : results'[q] = NoMatch} = open \ here
  BY <1>4
<1>6. open \cap here = here
  BY <1>2
<1>7. Cardinality(open \ here) = Cardinality(open) - Cardinality(here)
  <2>. HIDE DEF open
  <2>1. Cardinality(open \ here) = Cardinality(open) - Cardinality(open \cap here)
    BY <1>2, <1>3, FS_Difference
  <2>. QED
    BY <1>6, <2>1
<1>. QED
  BY <1>3, <1>5, <1>7

(* The queries a stack and its top value hold, when the value is settled.  *)
Holds(stack, qs) ==
    /\ stack \in Seq(Frame)
    /\ Len(stack) <= Level
    /\ \A k \in 1 .. Len(stack) : stack[k] = frames[k]
    /\ qs \subseteq Ids
    /\ \A k \in 1 .. Len(stack) : HandedDown(qs, k)
    /\ \A q \in Ending(qs, Len(stack)) : results[q] = NoMatch
    /\ Len(stack) = 0 => \A q \in Ids : ptrs[q] = <<>> => q \in qs

(* Settling a value that every frame below has handed down keeps the       *)
(* invariant: the queries that end there, and no others, get their answer. *)
LEMMA SettleKeeps ==
    ASSUME BInv, outcome = "walking",
           NEW stack, NEW qs, Holds(stack, qs),
           NEW from \in Nat \ {0}, NEW to \in Nat \ {0},
           Settle(stack, qs, from, to)
    PROVE  BInv'
<1>. DEFINE here == Ending(qs, Len(stack))
            left == remaining - Cardinality(here)
<1>. USE DEF BInv
<1>1. /\ UNCHANGED <<doc, ptrs, opts, outcome, errorAt>>
      /\ results' = [q \in Ids |-> IF q \in here THEN <<from, to>> ELSE results[q]]
      /\ remaining' = left
      /\ queries' = {}
      /\ i' = to + 1
      /\ frames' = stack
      /\ pc' = IF stack = <<>> THEN "done" ELSE IF left = 0 THEN "unwind" ELSE "after"
      /\ Ids' = Ids
  BY DEF Settle, inputs, Ids
<1>2. ptrs \in Seq(Seq(RawTokens)) /\ ptrs \in Seq(Seq(RawTokens) \cup {Malformed})
  BY DEF Places, TypeOK
<1>3. here \subseteq Ids /\ (\A q \in here : results[q] = NoMatch)
      /\ (\A q \in here : q \in qs /\ Len(ptrs[q]) = Len(stack))
  BY DEF Holds, Ending
<1>4. stack \in Seq(Frame) /\ Len(stack) \in Nat /\ Level \in Nat
  BY LenProperties DEF Holds, TypeOK, Level
<1>5. RemainingCounts' /\ remaining' \in Nat
  <2>1. <<from, to>> \in Nat \X Nat
    OBVIOUS
  <2>2. remaining = Cardinality({q \in Ids : results[q] = NoMatch})
    BY DEF RemainingCounts
  <2>3. /\ remaining \in Nat /\ Cardinality(here) \in Nat /\ Cardinality(here) <= remaining
        /\ Cardinality({q \in Ids : results'[q] = NoMatch}) = remaining - Cardinality(here)
    <3>. HIDE DEF here
    <3>. QED
      BY <1>1, <1>3, <2>1, <2>2, AnswersCounted
  <2>. QED
    BY <1>1, <2>3 DEF RemainingCounts
<1>6. frames' \in Seq(Frame) /\ Frame' = Frame
  BY <1>1, <1>4, EmptySeq DEF Frame
<1>7. TypeOK'
  <2>1. results' \in [Ids -> Match]
    <3>1. results \in [Ids -> Match]
      BY DEF TypeOK
    <3>. QED
      BY <1>1, <3>1 DEF Match
  <2>2. pc' \in {"idle", "value", "first", "member", "after", "unwind", "done"}
    BY <1>1
  <2>3. i' \in Nat \ {0} /\ queries' \subseteq Ids
    BY <1>1
  <2>. QED
    BY <1>1, <1>5, <1>6, <2>1, <2>2, <2>3 DEF TypeOK
<1>8. Level' = Len(stack) /\ Level' <= Len(stack)
  BY <1>1, <1>4 DEF Level
<1>9. \A k \in 1 .. Level' : /\ k \in 1 .. Len(stack) /\ k \in 1 .. Level
                             /\ frames'[k] = frames[k] /\ Ahead(k)' \subseteq Ahead(k)
  <2>. SUFFICES ASSUME NEW k \in 1 .. Level'
                PROVE  /\ k \in 1 .. Len(stack) /\ k \in 1 .. Level
                       /\ frames'[k] = frames[k] /\ Ahead(k)' \subseteq Ahead(k)
    OBVIOUS
  <2>1. k \in 1 .. Len(stack)
    BY <1>4, <1>8
  <2>2. k \in 1 .. Level /\ frames'[k] = frames[k]
    BY <1>1, <1>4, <2>1 DEF Holds
  <2>3. pc' # "first"
    BY <1>1
  <2>4. Ahead(k)' \subseteq Ahead(k)
    BY <1>1, <2>2, <2>3 DEF Ahead, TokenAt
  <2>. QED
    BY <2>1, <2>2, <2>4
<1>10. Nested'
  <2>1. ASSUME NEW k \in 1 .. Level' PROVE (frames[k].live \subseteq Deeper(frames[k].queries, k - 1))'
    <3>1. frames[k].live \subseteq Deeper(frames[k].queries, k - 1)
      BY <1>9 DEF Nested
    <3>. QED
      BY <1>1, <1>9, <3>1 DEF Deeper
  <2>2. ASSUME NEW k \in 1 .. Level', NEW j \in k + 1 .. Level' PROVE HandedDown(frames[j].queries, k)'
    <3>1. j \in 1 .. Level' /\ j \in k + 1 .. Level
      BY <1>8, <1>9, <1>4
    <3>2. HandedDown(frames[j].queries, k)
      BY <1>9, <3>1 DEF Nested
    <3>. QED
      BY <1>1, <1>9, <3>1, <3>2 DEF HandedDown, Deeper
  <2>3. ASSUME NEW k \in 1 .. Level' PROVE HandedDown(queries, k)'
    BY <1>1 DEF HandedDown
  <2>. QED
    BY <2>1, <2>2, <2>3 DEF Nested
<1>11. Unanswered'
  <2>1. ASSUME NEW k \in 1 .. Level',
               NEW q \in (Ending(frames[k].queries, k - 1) \cup Ahead(k))'
        PROVE  results'[q] = NoMatch
    <3>1. q \in Ending(frames[k].queries, k - 1) \cup Ahead(k)
      BY <1>1, <1>9 DEF Ending
    <3>2. results[q] = NoMatch
      BY <1>9, <3>1 DEF Unanswered
    <3>3. qs \subseteq Deeper(frames[k].queries, k - 1) \ Ahead(k)
      BY <1>9 DEF Holds, HandedDown
    <3>4. ptrs[q] \in Seq(RawTokens) /\ q \in Ids
      <4>1. frames[k].queries \subseteq Ids /\ frames[k].live \subseteq Ids
        <5>1. frames \in Seq(Frame) /\ k \in 1 .. Len(frames)
          BY <1>9 DEF TypeOK, Level
        <5>2. frames[k] \in Frame
          BY <5>1, ElementOfSeq
        <5>. QED
          BY <5>2 DEF Frame
      <4>2. q \in Ids
        BY <3>1, <4>1 DEF Ending, Ahead
      <4>. QED
        BY <1>2, <4>2, ElementOfSeq, LenProperties DEF Ids
    <3>5. q \notin here
      <4>1. CASE q \in Ahead(k)
        BY <1>3, <3>3, <4>1
      <4>2. CASE q \in Ending(frames[k].queries, k - 1)
        <5>1. Len(ptrs[q]) = k - 1 /\ Len(ptrs[q]) \in Nat
          BY <3>4, <4>2, LenProperties DEF Ending
        <5>2. q \notin qs
          BY <3>3, <5>1 DEF Deeper
        <5>. QED
          BY <1>3, <5>2
      <4>. QED
        BY <3>1, <4>1, <4>2
    <3>. QED
      BY <1>1, <3>2, <3>4, <3>5
  <2>. QED
    BY <1>1, <2>1 DEF Unanswered
<1>12. RootsWait'
  <2>1. ASSUME NEW q \in Ids, ptrs[q] = <<>>, Level' > 0 PROVE q \in frames'[1].queries
    <3>1. 1 \in 1 .. Level' /\ Level > 0
      BY <1>4, <1>8, <1>9, <2>1
    <3>2. q \in frames[1].queries
      BY <2>1, <3>1 DEF RootsWait
    <3>. QED
      BY <1>9, <3>1, <3>2
  <2>. QED
    BY <1>1, <2>1 DEF RootsWait
<1>13. RootMatched'
  <2>. SUFFICES ASSUME NEW q \in Ids, ptrs[q] = <<>>, pc' = "done"
                PROVE  results'[q] # NoMatch
    BY <1>1 DEF RootMatched
  <2>1. stack = <<>>
    BY <1>1
  <2>2. Len(stack) = 0 /\ Len(ptrs[q]) = 0
    BY <2>1, EmptySeq
  <2>3. q \in here
    BY <2>2 DEF Holds, Ending
  <2>. QED
    BY <1>1, <2>3 DEF NoMatch
<1>14. Places'
  <2>1. /\ pc' \in {"done", "unwind", "after"} /\ outcome' = "walking" /\ queries' = {}
        /\ ptrs' = ptrs
    BY <1>1
  <2>2. pc' = "done" => frames' = <<>>
    BY <1>1
  <2>3. pc' # "done" => Level' > 0
    <3>1. ASSUME pc' # "done" PROVE stack # <<>>
      BY <1>1, <3>1
    <3>. QED
      BY <1>4, <1>8, <3>1, EmptySeq
  <2>4. pc' = "after" => remaining' > 0
    <3>1. ASSUME pc' = "after" PROVE left # 0
      BY <1>1, <3>1
    <3>. QED
      BY <1>1, <1>5, <3>1
  <2>5. pc' = "unwind" => remaining' = 0
    BY <1>1
  <2>. QED
    BY <1>2, <2>1, <2>2, <2>3, <2>4, <2>5 DEF Places
<1>. QED
  BY <1>5, <1>7, <1>10, <1>11, <1>12, <1>13, <1>14

-----------------------------------------------------------------------------
(* The steps.                                                              *)

(* A step that leaves the frames and the answers alone keeps what they say *)
(* of each other.                                                          *)
LEMMA SameFramesKeep ==
    ASSUME BInv, UNCHANGED <<ptrs, frames, queries, results, remaining>>, pc' # "first"
    PROVE  /\ Ids' = Ids /\ Level' = Level /\ Frame' = Frame
           /\ RemainingCounts' /\ Nested' /\ Unanswered'
<1>. USE DEF BInv
<1>1. Ids' = Ids /\ Level' = Level /\ Frame' = Frame
  BY DEF Ids, Level, Frame
<1>2. \A k \in 1 .. Level : Ahead(k)' \subseteq Ahead(k)
  BY DEF Ahead, TokenAt, Level
<1>3. RemainingCounts'
  BY <1>1 DEF RemainingCounts
<1>4. Nested'
  <2>1. ASSUME NEW k \in 1 .. Level PROVE (frames[k].live \subseteq Deeper(frames[k].queries, k - 1))'
    BY DEF Nested, Deeper
  <2>2. ASSUME NEW k \in 1 .. Level, NEW j \in k + 1 .. Level PROVE HandedDown(frames[j].queries, k)'
    <3>1. HandedDown(frames[j].queries, k)
      BY DEF Nested
    <3>. QED
      BY <1>2, <3>1 DEF HandedDown, Deeper
  <2>3. ASSUME NEW k \in 1 .. Level PROVE HandedDown(queries, k)'
    <3>1. HandedDown(queries, k)
      BY DEF Nested
    <3>. QED
      BY <1>2, <3>1 DEF HandedDown, Deeper
  <2>. QED
    BY <1>1, <2>1, <2>2, <2>3 DEF Nested
<1>5. Unanswered'
  BY <1>1, <1>2 DEF Unanswered, Ending
<1>. QED
  BY <1>1, <1>3, <1>4, <1>5

(* An error ends the walk where it is.                                     *)
LEMMA FailKeeps ==
    ASSUME BInv, outcome = "walking", NEW error \in ParseErrors, NEW at \in Nat, Fail(error, at)
    PROVE  BInv'
<1>. USE DEF BInv
<1>1. /\ UNCHANGED <<doc, ptrs, opts, i, frames, queries, results, remaining>>
      /\ outcome' = error /\ errorAt' = at /\ pc' = "idle"
  BY DEF Fail, inputs, answers
<1>2. Ids' = Ids /\ Level' = Level /\ Frame' = Frame /\ RemainingCounts' /\ Nested' /\ Unanswered'
  BY <1>1, SameFramesKeep
<1>3. TypeOK'
  BY <1>1, <1>2 DEF TypeOK, Match
<1>4. RootMatched' /\ RootsWait'
  BY <1>1, <1>2 DEF RootMatched, RootsWait
<1>5. Places'
  BY <1>1 DEF Places, ParseErrors
<1>. QED
  BY <1>2, <1>3, <1>4, <1>5

(* Nothing is waiting in the initial state.                                *)
LEMMA InitKeeps ==
    ASSUME Init
    PROVE  BInv
<1>1. Ids = {} /\ Level = 0 /\ Len(ptrs) = 0
  BY EmptySeq DEF Init, Ids, Level
<1>2. TypeOK
  <2>1. results \in [Ids -> Match]
    BY <1>1 DEF Init
  <2>. QED
    BY <1>1, <2>1, EmptySeq DEF Init, TypeOK, NoDoc, Strict
<1>3. RemainingCounts
  BY <1>1, FS_EmptySet DEF Init, RemainingCounts
<1>4. RootMatched /\ Nested /\ Unanswered /\ RootsWait /\ Places
  BY <1>1 DEF Init, RootMatched, Nested, Unanswered, RootsWait, Places
<1>. QED
  BY <1>2, <1>3, <1>4 DEF BInv

(* Every query of a new batch is one for the root value.                   *)
LEMMA StartKeeps ==
    ASSUME Start
    PROVE  BInv'
<1>1. /\ doc' \in Docs /\ ptrs' \in Batches /\ opts' \in Options
      /\ i' = 1 /\ frames' = <<>> /\ queries' = Ids'
      /\ results' = [q \in Ids' |-> NoMatch]
      /\ remaining' = Len(ptrs') /\ errorAt' = 0
  BY DEF Start, Ids
<1>2. \/ outcome' = "invalid_pointer" /\ pc' = "idle"
      \/ /\ outcome' = "walking" /\ pc' = "value"
         /\ \A q \in Ids' : ptrs'[q] # Malformed
  BY DEF Start, Ids
<1>3. Level' = 0 /\ frames' \in Seq(Frame')
  BY <1>1, EmptySeq DEF Level
<1>4. ptrs' \in Seq(Seq(RawTokens) \cup {Malformed}) /\ Len(ptrs') \in Nat /\ Ids' = 1 .. Len(ptrs')
  BY <1>1, BatchesAssumption, LenProperties DEF Ids
<1>5. TypeOK'
  <2>1. results' \in [Ids' -> Match']
    BY <1>1 DEF Match
  <2>2. doc'.tokens \in Seq(Token) /\ opts' \in [allow_nan: BOOLEAN, allow_trailing_comma: BOOLEAN]
    BY <1>1, DocsAssumption, OptionsAssumption
  <2>3. /\ pc' \in {"idle", "value", "first", "member", "after", "unwind", "done"}
        /\ outcome' \in {"none", "walking", "ok", "invalid_pointer"} \cup ParseErrors
    BY <1>2
  <2>. QED
    BY <1>1, <1>3, <1>4, <2>1, <2>2, <2>3 DEF TypeOK
<1>6. RemainingCounts'
  <2>1. {q \in Ids' : results'[q] = NoMatch} = Ids'
    BY <1>1
  <2>2. Cardinality(Ids') = Len(ptrs')
    BY <1>4, FS_Interval
  <2>. QED
    BY <1>1, <2>1, <2>2 DEF RemainingCounts
<1>7. Nested' /\ Unanswered' /\ RootMatched' /\ RootsWait'
  BY <1>1, <1>2, <1>3 DEF Nested, Unanswered, RootMatched, RootsWait
<1>8. Places'
  <2>1. outcome' = "walking" => ptrs' \in Seq(Seq(RawTokens))
    <3>. SUFFICES ASSUME outcome' = "walking" PROVE ptrs' \in Seq(Seq(RawTokens))
      OBVIOUS
    <3>1. \A q \in 1 .. Len(ptrs') : ptrs'[q] \in Seq(RawTokens)
      BY <1>2, <1>4, ElementOfSeq
    <3>2. ptrs' \in [1 .. Len(ptrs') -> Seq(RawTokens)]
      BY <1>4, <3>1, LenProperties
    <3>. QED
      BY <1>4, <3>2, SeqDef
  <2>2. ptrs' # <<>> => remaining' > 0
    BY <1>1, <1>4, EmptySeq
  <2>. QED
    BY <1>2, <2>1, <2>2 DEF Places, ParseErrors
<1>. QED
  BY <1>5, <1>6, <1>7, <1>8 DEF BInv

(* The results are dropped: the state is the initial one.                  *)
LEMMA CollectKeeps ==
    ASSUME Collect
    PROVE  BInv'
<1>1. Init'
  BY DEF Collect, Init
<1>2. Init' => BInv'
  BY InitKeeps, PTL
<1>. QED
  BY <1>1, <1>2

(* A container walked into: its queries that go deeper are all ahead of it,*)
(* and the frames below have handed every one of its queries down.         *)
LEMMA WalkIntoKeeps ==
    ASSUME BInv, WalkInto
    PROVE  BInv'
<1>. USE DEF BInv
<1>. DEFINE deeper == Deeper(queries, Level)
            frame == [kind |-> KindOf(Tok), at |-> i, queries |-> queries,
                      live |-> deeper, element |-> 0]
<1>1. /\ UNCHANGED <<doc, ptrs, opts, results, remaining, outcome, errorAt>>
      /\ outcome = "walking" /\ pc = "value" /\ pc' = "first"
      /\ frames' = Append(frames, frame) /\ i' = i + 1 /\ queries' = {}
      /\ Ids' = Ids /\ Frame' = Frame
  BY DEF WalkInto, Walking, inputs, answers, Ids, Frame
<1>2. frames \in Seq(Frame) /\ Level \in Nat /\ Level = Len(frames)
  BY LenProperties DEF TypeOK, Level
<1>3. queries \subseteq Ids /\ deeper \subseteq queries /\ i \in Nat \ {0}
  BY DEF TypeOK, Deeper
<1>4. frame \in Frame
  BY <1>3 DEF Frame, KindOf, Kinds
<1>5. /\ frames' \in Seq(Frame) /\ Level' = Level + 1
      /\ \A k \in 1 .. Level : frames'[k] = frames[k]
      /\ frames'[Level + 1] = frame
  <2>. HIDE DEF frame
  <2>. QED
    BY <1>1, <1>2, <1>4, AppendProperties DEF Level
<1>6. \A k \in 1 .. Level : Ahead(k)' = Ahead(k)
  BY <1>1, <1>2, <1>5 DEF Ahead, TokenAt
<1>7. ASSUME NEW k \in Nat, k = Level + 1
      PROVE  frames'[k].queries = queries /\ Ahead(k)' \subseteq deeper
  <2>1. frames'[k].queries = queries /\ frames'[k].live = deeper
    BY <1>5, <1>7
  <2>2. Ahead(k)' \subseteq frames'[k].live
    BY DEF Ahead
  <2>. QED
    BY <2>1, <2>2
<1>8. TypeOK'
  <2>1. i' \in Nat \ {0} /\ Match' = Match
    BY <1>1, <1>3 DEF Match
  <2>. QED
    BY <1>1, <1>5, <2>1 DEF TypeOK
<1>9. RemainingCounts' /\ RootMatched'
  BY <1>1 DEF RemainingCounts, RootMatched
<1>10. Nested'
  <2>1. ASSUME NEW k \in 1 .. Level + 1
        PROVE  (frames[k].live \subseteq Deeper(frames[k].queries, k - 1))'
    <3>1. CASE k \in 1 .. Level
      BY <1>1, <1>5, <3>1 DEF Nested, Deeper
    <3>2. CASE k = Level + 1
      BY <1>1, <1>2, <1>5, <3>2 DEF Deeper
    <3>. QED
      BY <1>2, <3>1, <3>2
  <2>2. ASSUME NEW k \in 1 .. Level + 1, NEW j \in k + 1 .. Level + 1
        PROVE  HandedDown(frames[j].queries, k)'
    <3>1. k \in 1 .. Level
      BY <1>2
    <3>2. CASE j \in 1 .. Level
      <4>1. HandedDown(frames[j].queries, k)
        BY <1>2, <3>1, <3>2 DEF Nested
      <4>. QED
        BY <1>1, <1>5, <1>6, <3>1, <3>2, <4>1 DEF HandedDown, Deeper
    <3>3. CASE j = Level + 1
      <4>1. HandedDown(queries, k)
        BY <3>1 DEF Nested
      <4>. QED
        BY <1>1, <1>2, <1>5, <1>6, <1>7, <3>1, <3>3, <4>1 DEF HandedDown, Deeper
    <3>. QED
      BY <1>2, <3>2, <3>3
  <2>3. ASSUME NEW k \in 1 .. Level + 1 PROVE HandedDown(queries, k)'
    BY <1>1 DEF HandedDown
  <2>. QED
    BY <1>5, <2>1, <2>2, <2>3 DEF Nested
<1>11. Unanswered'
  <2>1. ASSUME NEW k \in 1 .. Level + 1,
               NEW q \in (Ending(frames[k].queries, k - 1) \cup Ahead(k))'
        PROVE  results'[q] = NoMatch
    <3>1. CASE k \in 1 .. Level
      <4>1. q \in Ending(frames[k].queries, k - 1) \cup Ahead(k)
        BY <1>1, <1>5, <1>6, <3>1 DEF Ending
      <4>. QED
        BY <1>1, <3>1, <4>1 DEF Unanswered
    <3>2. CASE k = Level + 1
      <4>1. q \in queries
        <5>1. q \in frames'[k].queries \cup Ahead(k)'
          BY <2>1 DEF Ending
        <5>. QED
          BY <1>2, <1>3, <1>7, <3>2, <5>1
      <4>. QED
        BY <1>1, <4>1 DEF Unanswered
    <3>. QED
      BY <1>2, <3>1, <3>2
  <2>. QED
    BY <1>1, <1>5, <2>1 DEF Unanswered
<1>12. RootsWait'
  <2>. SUFFICES ASSUME NEW q \in Ids, ptrs[q] = <<>> PROVE q \in frames'[1].queries
    BY <1>1, <1>2, <1>5 DEF RootsWait
  <2>1. CASE Level = 0
    BY <1>1, <1>5, <2>1 DEF RootsWait
  <2>2. CASE Level > 0
    BY <1>2, <1>5, <2>2 DEF RootsWait
  <2>. QED
    BY <1>2, <2>1, <2>2
<1>13. Places'
  BY <1>1, <1>2, <1>5 DEF Places
<1>. QED
  BY <1>8, <1>9, <1>10, <1>11, <1>12, <1>13

(* A value stepped over settles the queries for it, or is an error.        *)
LEMMA StepOverKeeps ==
    ASSUME BInv, StepOver
    PROVE  BInv'
<1>. USE DEF BInv
<1>. DEFINE fault == ValueFault(Tape, i, opts)
<1>1. outcome = "walking" /\ pc = "value"
  BY DEF StepOver, Walking
<1>2. i \in Nat \ {0} /\ Tape \in Seq(Token)
  BY DEF TypeOK, Tape
<1>3. CASE fault = "none"
  <2>1. Settle(frames, queries, i, ValueEnd(Tape, i))
    BY <1>3 DEF StepOver
  <2>2. ValueEnd(Tape, i) \in Nat \ {0}
    BY <1>2, <1>3, ValueEndFacts
  <2>3. Holds(frames, queries)
    <3>1. frames \in Seq(Frame) /\ Level = Len(frames) /\ Level \in Nat /\ queries \subseteq Ids
      BY LenProperties DEF TypeOK, Level
    <3>2. \A k \in 1 .. Level : HandedDown(queries, k)
      BY DEF Nested
    <3>3. \A q \in Ending(queries, Level) : results[q] = NoMatch
      BY DEF Unanswered, Ending
    <3>4. Level = 0 => \A q \in Ids : ptrs[q] = <<>> => q \in queries
      BY <1>1 DEF RootsWait
    <3>. QED
      BY <3>1, <3>2, <3>3, <3>4 DEF Holds
  <2>. QED
    BY <1>1, <1>2, <2>1, <2>2, <2>3, SettleKeeps
<1>4. CASE fault # "none"
  <2>1. Fail(fault, FaultAt(Tape, i, fault))
    BY <1>4 DEF StepOver
  <2>2. fault \in ParseErrors
    BY <1>4, ValueFaultTyped
  <2>3. FaultAt(Tape, i, fault) \in Nat
    BY <1>2, LenProperties DEF FaultAt
  <2>. HIDE DEF fault
  <2>. QED
    BY <1>1, <2>1, <2>2, <2>3, FailKeeps
<1>. QED
  BY <1>3, <1>4

(* The end of a container settles the queries that came to it.             *)
LEMMA EndContainerKeeps ==
    ASSUME BInv, outcome = "walking", Level > 0, NEW to \in Nat \ {0}, EndContainer(to)
    PROVE  BInv'
<1>. USE DEF BInv
<1>1. /\ Level \in Nat \ {0} /\ Top \in Frame /\ Outer \in Seq(Frame)
      /\ Len(Outer) = Level - 1
      /\ \A k \in 1 .. Level - 1 : Outer[k] = frames[k]
  BY OuterFacts
<1>2. Top = frames[Level]
  BY DEF Top, Level
<1>3. Top.queries \subseteq Ids /\ Top.at \in Nat \ {0}
  BY <1>1 DEF Frame
<1>4. Holds(Outer, Top.queries)
  <2>1. \A k \in 1 .. Level - 1 : HandedDown(Top.queries, k)
    BY <1>1, <1>2 DEF Nested
  <2>2. \A q \in Ending(Top.queries, Level - 1) : results[q] = NoMatch
    BY <1>1, <1>2 DEF Unanswered
  <2>3. Level = 1 => \A q \in Ids : ptrs[q] = <<>> => q \in Top.queries
    BY <1>2 DEF RootsWait
  <2>. QED
    BY <1>1, <1>3, <2>1, <2>2, <2>3 DEF Holds
<1>5. Settle(Outer, Top.queries, Top.at, to)
  BY DEF EndContainer
<1>. QED
  BY <1>3, <1>4, <1>5, SettleKeeps

(* Only the innermost frame changes when a member is visited.              *)
LEMMA VisitedFrames ==
    ASSUME BInv, Level > 0, NEW at, NEW wanted, NEW live, NEW element \in Nat,
           live \subseteq Top.live, Visit(at, wanted, live, element)
    PROVE  /\ Level' = Level
           /\ frames' \in Seq(Frame)
           /\ \A k \in 1 .. Level - 1 : frames'[k] = frames[k]
           /\ frames'[Level].live = live /\ frames'[Level].element = element
           /\ frames'[Level].kind = Top.kind /\ frames'[Level].queries = Top.queries
           /\ frames'[Level].at = Top.at
<1>. DEFINE frame == [Top EXCEPT !.live = live, !.element = element]
<1>1. frames \in Seq(Frame) /\ Level \in Nat \ {0} /\ Level = Len(frames) /\ Top \in Frame
  BY OuterFacts DEF BInv, TypeOK, Level
<1>2. live \subseteq Ids
  BY <1>1 DEF Frame
<1>3. frame \in Frame
  BY <1>1, <1>2 DEF Frame
<1>4. /\ frame.live = live /\ frame.element = element
      /\ frame.kind = Top.kind /\ frame.queries = Top.queries /\ frame.at = Top.at
  BY <1>1 DEF Frame
<1>5. frames' = [frames EXCEPT ![Level] = frame]
  BY DEF Visit
<1>. HIDE DEF frame
<1>6. frames' \in Seq(Frame) /\ Len(frames') = Len(frames)
      /\ \A k \in 1 .. Len(frames) : frames'[k] = IF k = Level THEN frame ELSE frames[k]
  BY <1>1, <1>3, <1>5, ExceptSeq
<1>. QED
  BY <1>1, <1>4, <1>6 DEF Level

(* A member's queries are taken from those ahead in its container, and are *)
(* not ahead of it any more.                                               *)
LEMMA VisitKeeps ==
    ASSUME BInv, pc \in {"first", "member", "after"},
           NEW at \in Nat \ {0}, NEW wanted, NEW live, NEW element \in Nat,
           wanted \subseteq Ahead(Level), live \subseteq Top.live,
           \A q \in live : (Top.kind = "object" \/ Index[TokenAt(q, Level)] > element)
                                => q \in Ahead(Level) \ wanted,
           Visit(at, wanted, live, element)
    PROVE  BInv'
<1>. USE DEF BInv
<1>1. /\ UNCHANGED <<doc, ptrs, opts, results, remaining, outcome, errorAt>>
      /\ frames' = [frames EXCEPT ![Level] = [Top EXCEPT !.live = live, !.element = element]]
      /\ queries' = wanted /\ i' = at /\ pc' = "value" /\ outcome = "walking"
      /\ Ids' = Ids /\ Frame' = Frame /\ Match' = Match
  BY DEF Visit, inputs, answers, Places, Ids, Frame, Match
<1>2. Level > 0
  BY DEF Places
<1>3. frames \in Seq(Frame) /\ Level \in Nat \ {0} /\ Level = Len(frames) /\ Top = frames[Level]
  BY <1>2, LenProperties DEF TypeOK, Level, Top
<1>4. Top \in Frame
  BY <1>2, OuterFacts
<1>5. live \subseteq Ids /\ wanted \subseteq Top.live /\ wanted \subseteq Ids
  <2>1. Ahead(Level) \subseteq Top.live
    BY <1>3 DEF Ahead
  <2>. QED
    BY <1>4, <2>1 DEF Frame
<1>6. /\ Level' = Level
      /\ frames' \in Seq(Frame)
      /\ \A k \in 1 .. Level - 1 : frames'[k] = frames[k]
      /\ frames'[Level].live = live /\ frames'[Level].element = element
      /\ frames'[Level].kind = Top.kind /\ frames'[Level].queries = Top.queries
  BY <1>2, VisitedFrames
<1>7. \A k \in 1 .. Level - 1 : Ahead(k)' = Ahead(k)
  BY <1>1, <1>3, <1>6 DEF Ahead, TokenAt
<1>8. ASSUME NEW k \in Nat, k = Level
      PROVE  Ahead(k)' \subseteq Ahead(Level) \ wanted
  <2>. SUFFICES ASSUME NEW q \in Ahead(k)' PROVE q \in Ahead(Level) \ wanted
    OBVIOUS
  <2>1. q \in live
    BY <1>6, <1>8 DEF Ahead
  <2>2. Top.kind = "object" \/ Index[TokenAt(q, Level)] > element
    BY <1>1, <1>6, <1>8 DEF Ahead, TokenAt
  <2>. QED
    BY <2>1, <2>2
<1>9. TypeOK'
  BY <1>1, <1>5, <1>6 DEF TypeOK
<1>10. RemainingCounts' /\ RootMatched'
  BY <1>1 DEF RemainingCounts, RootMatched
<1>11. ASSUME NEW k \in 1 .. Level, NEW qs, HandedDown(qs, k) PROVE HandedDown(qs, k)'
  <2>1. qs \subseteq Deeper(frames[k].queries, k - 1) \ Ahead(k)
    BY <1>11 DEF HandedDown
  <2>2. CASE k \in 1 .. Level - 1
    BY <1>1, <1>6, <1>7, <2>1, <2>2 DEF HandedDown, Deeper
  <2>3. CASE k = Level
    BY <1>1, <1>3, <1>6, <1>8, <2>1, <2>3 DEF HandedDown, Deeper
  <2>. QED
    BY <1>3, <2>2, <2>3
<1>12. Nested'
  <2>1. ASSUME NEW k \in 1 .. Level
        PROVE  (frames[k].live \subseteq Deeper(frames[k].queries, k - 1))'
    <3>1. frames[k].live \subseteq Deeper(frames[k].queries, k - 1)
      BY DEF Nested
    <3>2. CASE k \in 1 .. Level - 1
      BY <1>1, <1>6, <3>1, <3>2 DEF Deeper
    <3>3. CASE k = Level
      BY <1>1, <1>3, <1>6, <3>1, <3>3 DEF Deeper
    <3>. QED
      BY <1>3, <3>2, <3>3
  <2>2. ASSUME NEW k \in 1 .. Level, NEW j \in k + 1 .. Level
        PROVE  HandedDown(frames[j].queries, k)'
    <3>1. HandedDown(frames[j].queries, k)
      BY DEF Nested
    <3>2. frames'[j].queries = frames[j].queries
      <4>1. CASE j \in 1 .. Level - 1
        BY <1>6, <4>1
      <4>2. CASE j = Level
        BY <1>3, <1>6, <4>2
      <4>. QED
        BY <1>3, <4>1, <4>2
    <3>3. PICK qs : qs = frames[j].queries
      OBVIOUS
    <3>4. HandedDown(qs, k)'
      BY <1>11, <3>1, <3>3
    <3>. QED
      BY <3>2, <3>3, <3>4 DEF HandedDown
  <2>3. ASSUME NEW k \in 1 .. Level PROVE HandedDown(queries, k)'
    <3>1. CASE k \in 1 .. Level - 1
      <4>1. HandedDown(Top.queries, k)
        BY <1>3, <3>1 DEF Nested
      <4>2. wanted \subseteq Top.queries
        BY <1>3, <1>5 DEF Nested, Deeper
      <4>3. HandedDown(wanted, k)
        BY <4>1, <4>2 DEF HandedDown
      <4>4. HandedDown(wanted, k)'
        BY <1>11, <4>3
      <4>. QED
        BY <1>1, <4>4 DEF HandedDown
    <3>2. CASE k = Level
      <4>1. wanted \subseteq Deeper(Top.queries, Level - 1)
        BY <1>3, <1>5 DEF Nested
      <4>2. wanted \cap Ahead(k)' = {}
        BY <1>3, <1>8, <3>2
      <4>. QED
        BY <1>1, <1>6, <3>2, <4>1, <4>2 DEF HandedDown, Deeper
    <3>. QED
      BY <1>3, <3>1, <3>2
  <2>. QED
    BY <1>6, <2>1, <2>2, <2>3 DEF Nested
<1>13. Unanswered'
  <2>1. ASSUME NEW q \in wanted PROVE results'[q] = NoMatch
    BY <1>1, <1>3 DEF Unanswered
  <2>2. ASSUME NEW k \in 1 .. Level,
               NEW q \in (Ending(frames[k].queries, k - 1) \cup Ahead(k))'
        PROVE  results'[q] = NoMatch
    <3>1. CASE k \in 1 .. Level - 1
      <4>1. q \in Ending(frames[k].queries, k - 1) \cup Ahead(k)
        BY <1>1, <1>6, <1>7, <3>1 DEF Ending
      <4>. QED
        BY <1>1, <4>1 DEF Unanswered
    <3>2. CASE k = Level
      <4>1. q \in Ending(frames[k].queries, k - 1) \cup Ahead(k)
        BY <1>1, <1>3, <1>6, <1>8, <3>2 DEF Ending
      <4>. QED
        BY <1>1, <4>1 DEF Unanswered
    <3>. QED
      BY <1>3, <3>1, <3>2
  <2>. QED
    BY <1>1, <1>6, <2>1, <2>2 DEF Unanswered
<1>14. RootsWait'
  <2>. SUFFICES ASSUME NEW q \in Ids, ptrs[q] = <<>> PROVE q \in frames'[1].queries
    BY <1>1, <1>3, <1>6 DEF RootsWait
  <2>1. q \in frames[1].queries
    BY <1>2 DEF RootsWait
  <2>. QED
    BY <1>3, <1>6, <2>1
<1>15. Places'
  BY <1>1, <1>3, <1>6 DEF Places
<1>. QED
  BY <1>9, <1>10, <1>12, <1>13, <1>14, <1>15

(* A key consumes the queries that match it, hit or miss.                  *)
LEMMA ObjectMemberKeeps ==
    ASSUME BInv, ObjectMember
    PROVE  BInv'
<1>. USE DEF BInv
<1>1. pc \in {"first", "member"} /\ Top.kind = "object"
  BY DEF ObjectMember, Walking, Inside
<1>2. outcome = "walking" /\ Level > 0 /\ i \in Nat \ {0}
  BY <1>1 DEF Places, TypeOK
<1>3. ASSUME NEW to \in Nat \ {0}, EndContainer(to) PROVE BInv'
  BY <1>2, <1>3, EndContainerKeeps
<1>4. ASSUME NEW error \in {"expected", "scalar_error"}, NEW at \in {i, i + 1}, Fail(error, at)
      PROVE  BInv'
  <2>1. error \in ParseErrors /\ at \in Nat
    BY <1>2 DEF ParseErrors
  <2>. QED
    BY <1>2, <1>4, <2>1, FailKeeps
<1>5. ASSUME Member PROVE BInv'
  <2>. DEFINE wanted == {q \in Top.live : KeyIs(Tape, doc.names, i, TokenAt(q, Level))}
  <2>1. Visit(i + 2, wanted, Top.live \ wanted, 0)
    BY <1>5 DEF Member
  <2>2. Ahead(Level) = Top.live
    BY <1>1, <1>2 DEF Ahead, Top, Level
  <2>3. wanted \subseteq Ahead(Level) /\ i + 2 \in Nat \ {0}
    BY <1>2, <2>2
  <2>4. \A q \in Top.live \ wanted : q \in Ahead(Level) \ wanted
    BY <2>2
  <2>. HIDE DEF wanted
  <2>. QED
    BY <1>1, <2>1, <2>3, <2>4, VisitKeeps
<1>. QED
  BY <1>2, <1>3, <1>4, <1>5 DEF ObjectMember

(* The first element is for the queries whose token is 0.                  *)
LEMMA ArrayFirstKeeps ==
    ASSUME BInv, ArrayFirst
    PROVE  BInv'
<1>. USE DEF BInv
<1>1. pc = "first" /\ Top.kind = "array"
  BY DEF ArrayFirst, Walking, Inside
<1>2. outcome = "walking" /\ Level > 0 /\ i \in Nat \ {0}
  BY <1>1 DEF Places, TypeOK
<1>3. CASE EndContainer(i)
  BY <1>2, <1>3, EndContainerKeeps
<1>4. CASE Visit(i, Wanted(0), Top.live, 0)
  <2>1. Ahead(Level) = Top.live
    BY <1>1 DEF Ahead, Top, Level
  <2>2. Wanted(0) \subseteq Ahead(Level)
    BY <2>1 DEF Wanted
  <2>3. \A q \in Top.live : (Top.kind = "object" \/ Index[TokenAt(q, Level)] > 0)
                                => q \in Ahead(Level) \ Wanted(0)
    BY <1>1, <2>1 DEF Wanted
  <2>. QED
    BY <1>1, <1>2, <1>4, <2>2, <2>3, VisitKeeps
<1>. QED
  BY <1>3, <1>4 DEF ArrayFirst

(* The next element is for the queries whose token is its index.           *)
LEMMA ArrayNextKeeps ==
    ASSUME BInv, pc = "after", Top.kind = "array", ArrayNext
    PROVE  BInv'
<1>. USE DEF BInv
<1>. DEFINE next == Top.element + 1
<1>1. outcome = "walking" /\ Level > 0 /\ i \in Nat \ {0} /\ ptrs \in Seq(Seq(RawTokens))
  BY DEF Places, TypeOK
<1>2. Level \in Nat \ {0} /\ Top \in Frame /\ Top = frames[Level]
  BY <1>1, OuterFacts DEF Top, Level
<1>3. Top.element \in Nat /\ Top.live \subseteq Ids
  BY <1>2 DEF Frame
<1>4. Ahead(Level) = {q \in Top.live : Index[TokenAt(q, Level)] > Top.element}
  BY <1>2 DEF Ahead
<1>5. \A q \in Top.live : Index[TokenAt(q, Level)] \in Int
  <2>. SUFFICES ASSUME NEW q \in Top.live PROVE Index[TokenAt(q, Level)] \in Int
    OBVIOUS
  <2>1. q \in Ids /\ Len(ptrs[q]) > Level - 1
    BY <1>2, <1>3 DEF Nested, Deeper
  <2>. QED
    BY <1>1, <1>2, <2>1, TokenTyped
<1>6. Wanted(next) \subseteq Ahead(Level)
  BY <1>3, <1>4 DEF Wanted
<1>7. \A q \in Top.live : (Top.kind = "object" \/ Index[TokenAt(q, Level)] > next)
                              => q \in Ahead(Level) \ Wanted(next)
  BY <1>3, <1>4, <1>5 DEF Wanted
<1>8. Visit(i + 1, Wanted(next), Top.live, next) /\ next \in Nat /\ i + 1 \in Nat \ {0}
  BY <1>1, <1>3 DEF ArrayNext
<1>. HIDE DEF next
<1>. QED
  BY <1>6, <1>7, <1>8, VisitKeeps

(* After a member: the end of the container, or the next member.           *)
LEMMA AfterKeeps ==
    ASSUME BInv, After
    PROVE  BInv'
<1>. USE DEF BInv
<1>1. pc = "after" /\ outcome = "walking" /\ Level > 0 /\ i \in Nat \ {0}
  BY DEF After, Walking, Places, TypeOK
<1>2. ASSUME NEW to \in {i, i + 1}, EndContainer(to) PROVE BInv'
  <2>1. to \in Nat \ {0}
    BY <1>1
  <2>. QED
    BY <1>1, <1>2, <2>1, EndContainerKeeps
<1>3. ASSUME NEW error \in {"expected", "unexpected_end"}, Fail(error, i) PROVE BInv'
  <2>1. error \in ParseErrors /\ i \in Nat
    BY <1>1 DEF ParseErrors
  <2>. QED
    BY <1>1, <1>3, <2>1, FailKeeps
<1>4. ASSUME NextMember PROVE BInv'
  <2>1. /\ UNCHANGED <<doc, ptrs, opts, frames, queries, results, remaining, outcome, errorAt>>
        /\ pc' = "member" /\ i' = i + 1
    BY <1>4 DEF NextMember, inputs, answers
  <2>2. Ids' = Ids /\ Level' = Level /\ Frame' = Frame /\ RemainingCounts' /\ Nested' /\ Unanswered'
    BY <2>1, SameFramesKeep
  <2>3. TypeOK'
    BY <1>1, <2>1, <2>2 DEF TypeOK, Match
  <2>4. RootMatched' /\ RootsWait'
    BY <2>1, <2>2 DEF RootMatched, RootsWait
  <2>5. Places'
    BY <1>1, <2>1, <2>2 DEF Places
  <2>. QED
    BY <2>2, <2>3, <2>4, <2>5
<1>5. ASSUME Top.kind = "array", ArrayNext PROVE BInv'
  BY <1>1, <1>5, ArrayNextKeeps
<1>. QED
  BY <1>2, <1>3, <1>4, <1>5 DEF After

(* With no query left to count, each has its answer.                       *)
LEMMA AllAnswered ==
    ASSUME TypeOK, RemainingCounts, remaining = 0
    PROVE  \A q \in Ids : results[q] # NoMatch
<1>. DEFINE open == {q \in Ids : results[q] = NoMatch}
<1>1. Cardinality(open) = 0
  BY DEF RemainingCounts
<1>2. IsFiniteSet(Ids) /\ open \subseteq Ids
  BY IdsFinite
<1>. HIDE DEF open
<1>3. open = {}
  BY <1>1, <1>2, FS_Subset, FS_EmptySet
<1>. QED
  BY <1>3 DEF open

(* A walk left by the signal: the frames below hold what they held.        *)
LEMMA UnwindKeeps ==
    ASSUME BInv, Unwind
    PROVE  BInv'
<1>. USE DEF BInv
<1>1. /\ UNCHANGED <<doc, ptrs, opts, i, queries, results, remaining, outcome, errorAt>>
      /\ frames' = Outer /\ pc = "unwind"
      /\ pc' = IF Outer = <<>> THEN "done" ELSE "unwind"
      /\ Ids' = Ids /\ Frame' = Frame /\ Match' = Match
  BY DEF Unwind, Walking, inputs, answers, Ids, Frame, Match
<1>2. outcome = "walking" /\ queries = {} /\ remaining = 0 /\ Level > 0
  BY <1>1 DEF Places
<1>3. /\ Level \in Nat \ {0} /\ Outer \in Seq(Frame) /\ Len(Outer) = Level - 1
      /\ \A k \in 1 .. Level - 1 : Outer[k] = frames[k]
  BY <1>2, OuterFacts
<1>4. Level' = Level - 1 /\ \A k \in 1 .. Level - 1 : frames'[k] = frames[k]
  BY <1>1, <1>3 DEF Level
<1>5. \A k \in 1 .. Level - 1 : Ahead(k)' \subseteq Ahead(k)
  BY <1>1, <1>3, <1>4 DEF Ahead, TokenAt
<1>6. TypeOK'
  BY <1>1, <1>3 DEF TypeOK
<1>7. RemainingCounts'
  BY <1>1 DEF RemainingCounts
<1>8. RootMatched'
  <2>1. \A q \in Ids : results[q] # NoMatch
    BY <1>2, AllAnswered
  <2>. QED
    BY <1>1, <2>1 DEF RootMatched
<1>9. Nested'
  <2>1. ASSUME NEW k \in 1 .. Level - 1
        PROVE  (frames[k].live \subseteq Deeper(frames[k].queries, k - 1))'
    <3>1. frames[k].live \subseteq Deeper(frames[k].queries, k - 1)
      BY <1>3 DEF Nested
    <3>. QED
      BY <1>1, <1>4, <3>1 DEF Deeper
  <2>2. ASSUME NEW k \in 1 .. Level - 1, NEW j \in k + 1 .. Level - 1
        PROVE  HandedDown(frames[j].queries, k)'
    <3>1. HandedDown(frames[j].queries, k) /\ j \in 1 .. Level - 1
      BY <1>3 DEF Nested
    <3>. QED
      BY <1>1, <1>4, <1>5, <3>1 DEF HandedDown, Deeper
  <2>3. ASSUME NEW k \in 1 .. Level - 1 PROVE HandedDown(queries, k)'
    BY <1>1, <1>2 DEF HandedDown
  <2>. QED
    BY <1>4, <2>1, <2>2, <2>3 DEF Nested
<1>10. Unanswered'
  <2>1. ASSUME NEW k \in 1 .. Level - 1,
               NEW q \in (Ending(frames[k].queries, k - 1) \cup Ahead(k))'
        PROVE  results'[q] = NoMatch
    <3>1. q \in Ending(frames[k].queries, k - 1) \cup Ahead(k)
      BY <1>1, <1>4, <1>5 DEF Ending
    <3>. QED
      BY <1>1, <1>3, <3>1 DEF Unanswered
  <2>. QED
    BY <1>1, <1>2, <1>4, <2>1 DEF Unanswered
<1>11. RootsWait'
  <2>1. ASSUME NEW q \in Ids, ptrs[q] = <<>>, Level' > 0 PROVE q \in frames'[1].queries
    <3>1. 1 \in 1 .. Level - 1
      BY <1>3, <1>4, <2>1
    <3>2. q \in frames[1].queries
      BY <1>2, <2>1 DEF RootsWait
    <3>. QED
      BY <1>4, <3>1, <3>2
  <2>. QED
    BY <1>1, <2>1 DEF RootsWait
<1>12. Places'
  <2>1. pc' = "unwind" => Level' > 0
    BY <1>1, <1>3, <1>4, EmptySeq
  <2>. QED
    BY <1>1, <1>2, <2>1 DEF Places
<1>. QED
  BY <1>6, <1>7, <1>8, <1>9, <1>10, <1>11, <1>12

(* The end of the walk answers nothing more.                               *)
LEMMA FinishKeeps ==
    ASSUME BInv, Finish
    PROVE  BInv'
<1>. USE DEF BInv
<1>. DEFINE roots == {q \in Ids : ptrs[q] = <<>> /\ results[q] # NoMatch}
            ends == {results[q][2] : q \in roots}
            last == CHOOSE to \in ends : TRUE
            past == 1 + last
<1>1. outcome = "walking" /\ pc = "done"
  BY DEF Finish, Walking
<1>2. CASE \E to \in ends : to < Len(Tape)
  <2>1. Fail("trailing_characters", past)
    BY <1>2 DEF Finish
  <2>2. past \in Nat
    <3>1. ends \subseteq Nat
      <4>. SUFFICES ASSUME NEW q \in roots PROVE results[q][2] \in Nat
        OBVIOUS
      <4>1. results[q] \in Nat \X Nat
        BY DEF TypeOK, Match
      <4>. QED
        BY <4>1
    <3>2. last \in ends
      <4>1. \E to \in ends : TRUE
        BY <1>2
      <4>. HIDE DEF ends
      <4>. QED
        BY <4>1
    <3>3. last \in Nat
      <4>. HIDE DEF last, ends
      <4>. QED
        BY <3>1, <3>2
    <3>. HIDE DEF last
    <3>. QED
      BY <3>3
  <2>3. "trailing_characters" \in ParseErrors
    BY DEF ParseErrors
  <2>. HIDE DEF past
  <2>. QED
    BY <1>1, <2>1, <2>2, <2>3, FailKeeps
<1>3. CASE ~ (\E to \in ends : to < Len(Tape))
  <2>1. /\ UNCHANGED <<doc, ptrs, opts, i, frames, queries, results, remaining, errorAt>>
        /\ outcome' = "ok" /\ pc' = "idle"
    BY <1>3 DEF Finish, inputs, answers
  <2>2. Ids' = Ids /\ Level' = Level /\ Frame' = Frame /\ RemainingCounts' /\ Nested' /\ Unanswered'
    BY <2>1, SameFramesKeep
  <2>3. TypeOK'
    BY <2>1, <2>2 DEF TypeOK, Match
  <2>4. RootMatched' /\ RootsWait'
    BY <2>1, <2>2 DEF RootMatched, RootsWait
  <2>5. Places'
    BY <2>1 DEF Places
  <2>. QED
    BY <2>2, <2>3, <2>4, <2>5
<1>. QED
  BY <1>2, <1>3

-----------------------------------------------------------------------------
(* The theorems.                                                           *)

(* Every step keeps the invariant.                                         *)
LEMMA StepKeeps ==
    ASSUME BInv, [Next]_vars
    PROVE  BInv'
<1>1. CASE Next
  BY <1>1, StartKeeps, CollectKeeps, WalkIntoKeeps, StepOverKeeps, ObjectMemberKeeps,
     ArrayFirstKeeps, AfterKeeps, UnwindKeeps, FinishKeeps DEF Next, Step
<1>2. CASE UNCHANGED vars
  <2>1. UNCHANGED <<doc, ptrs, opts, i, frames, queries, results, remaining, pc, outcome, errorAt>>
        /\ Ids' = Ids /\ Level' = Level /\ Frame' = Frame /\ Match' = Match
    BY <1>2 DEF vars, Ids, Level, Frame, Match
  <2>2. \A k \in 1 .. Level : Ahead(k)' = Ahead(k)
    BY <2>1 DEF Ahead, TokenAt
  <2>3. Nested'
    BY <2>1, <2>2 DEF BInv, Nested, HandedDown, Deeper
  <2>4. Unanswered'
    BY <2>1, <2>2 DEF BInv, Unanswered, Ending
  <2>5. TypeOK' /\ RemainingCounts' /\ RootMatched' /\ RootsWait' /\ Places'
    BY <2>1 DEF BInv, TypeOK, RemainingCounts, RootMatched, RootsWait, Places
  <2>. QED
    BY <2>3, <2>4, <2>5 DEF BInv
<1>. QED
  BY <1>1, <1>2

(* Whatever the document, the pointers and the depth, a query is in the    *)
(* hands of one place of the recursion of resolve_set at a time, and what  *)
(* is in hand has no answer yet.                                           *)
THEOREM BatchInvariance == Spec => []BInv
<1>1. Init => BInv
  BY InitKeeps
<1>2. BInv /\ [Next]_vars => BInv'
  BY StepKeeps
<1>. QED
  BY <1>1, <1>2, PTL DEF Spec

(* Types, and with them that `*remaining -= 1` (434) cannot underflow.     *)
THEOREM BatchTypeCorrect == Spec => []TypeOK
<1>1. BInv => TypeOK
  BY DEF BInv
<1>. QED
  BY <1>1, BatchInvariance, PTL

(* remaining is exactly the number of queries without a result.            *)
THEOREM RemainingIsRight == Spec => []RemainingCounts
<1>1. BInv => RemainingCounts
  BY DEF BInv
<1>. QED
  BY <1>1, BatchInvariance, PTL

(* A query for the root has its result whenever the walk has returned, as  *)
(* the expect of 336 says.                                                 *)
THEOREM RootAlwaysMatches == Spec => []RootMatched
<1>1. BInv => RootMatched
  BY DEF BInv
<1>. QED
  BY <1>1, BatchInvariance, PTL

(* Once every pointer of a batch has its result no token is read and no    *)
(* answer changes while the signal leaves one walk after the other, and    *)
(* only what follows a root pointer's value can still be a fault.          *)
THEOREM BatchStopsWhenResolved == Spec => StopsWhenResolved
<1>1. BInv /\ [Next]_vars =>
        [outcome = "walking" /\ remaining = 0 /\ ptrs # <<>> =>
             /\ UNCHANGED <<i, answers>>
             /\ outcome' \in {"walking", "ok", "trailing_characters"}]_vars
  <2>. SUFFICES ASSUME BInv, Next, outcome = "walking", remaining = 0, ptrs # <<>>
                PROVE  /\ UNCHANGED <<i, answers>>
                       /\ outcome' \in {"walking", "ok", "trailing_characters"}
    OBVIOUS
  <2>1. pc \notin {"value", "first", "member", "after"}
    BY DEF BInv, Places
  <2>2. Unwind \/ Finish
    BY <2>1 DEF Next, Start, Collect, Step, WalkInto, StepOver, ObjectMember, ArrayFirst, After, Walking
  <2>3. CASE Unwind
    BY <2>3 DEF Unwind
  <2>4. CASE Finish
    BY <2>4 DEF Finish, Fail
  <2>. QED
    BY <2>2, <2>3, <2>4
<1>. QED
  BY <1>1, BatchInvariance, PTL DEF Spec, StopsWhenResolved

-----------------------------------------------------------------------------
(* Counting brackets.                                                      *)

(* How many of the tokens from..x are in a set of tokens.                  *)
CountOf(d, T, from, x) == Cardinality({j \in from .. x : d[j] \in T})

(* It is a number, none before the first token, and counted token by token.*)
LEMMA CountStep ==
    ASSUME NEW d, NEW T, NEW from \in Nat, NEW x \in Int
    PROVE  /\ CountOf(d, T, from, x) \in Nat
           /\ x < from => CountOf(d, T, from, x) = 0
           /\ from <= x => CountOf(d, T, from, x) =
                 IF d[x] \in T THEN CountOf(d, T, from, x - 1) + 1 ELSE CountOf(d, T, from, x - 1)
<1>. DEFINE Z(k) == {j \in from .. k : d[j] \in T}
<1>1. ASSUME NEW k \in Int PROVE IsFiniteSet(Z(k)) /\ Cardinality(Z(k)) \in Nat
  <2>1. IsFiniteSet(from .. k) /\ Z(k) \in SUBSET (from .. k)
    BY FS_Interval
  <2>. QED
    BY <2>1, FS_Subset, FS_CardinalityType
<1>2. ASSUME x < from PROVE Cardinality(Z(x)) = 0
  <2>1. Z(x) = {}
    BY <1>2
  <2>. QED
    BY <2>1, FS_EmptySet
<1>3. ASSUME from <= x
      PROVE  Cardinality(Z(x)) =
                IF d[x] \in T THEN Cardinality(Z(x - 1)) + 1 ELSE Cardinality(Z(x - 1))
  <2>1. from .. x = (from .. (x - 1)) \cup {x} /\ x \notin from .. (x - 1)
    BY <1>3
  <2>2. Z(x) = IF d[x] \in T THEN Z(x - 1) \cup {x} ELSE Z(x - 1)
    BY <2>1
  <2>3. x \notin Z(x - 1) /\ x - 1 \in Int
    BY <2>1
  <2>. HIDE DEF Z
  <2>. QED
    BY <1>1, <2>2, <2>3, FS_AddElement
<1>. QED
  BY <1>1, <1>2, <1>3 DEF CountOf

(* The count over two stretches is the sum of theirs.                      *)
LEMMA CountSplit ==
    ASSUME NEW d, NEW T, NEW from \in Nat, NEW m \in Int, NEW x \in Int,
           from <= m + 1, m <= x
    PROVE  CountOf(d, T, from, x) = CountOf(d, T, from, m) + CountOf(d, T, m + 1, x)
<1>. DEFINE Z(a, k) == {j \in a .. k : d[j] \in T}
<1>1. ASSUME NEW a \in Int, NEW k \in Int PROVE IsFiniteSet(Z(a, k)) /\ Cardinality(Z(a, k)) \in Nat
  <2>1. IsFiniteSet(a .. k) /\ Z(a, k) \in SUBSET (a .. k)
    BY FS_Interval
  <2>. QED
    BY <2>1, FS_Subset, FS_CardinalityType
<1>2. from .. x = (from .. m) \cup ((m + 1) .. x) /\ (from .. m) \cap ((m + 1) .. x) = {}
  OBVIOUS
<1>3. Z(from, x) = Z(from, m) \cup Z(m + 1, x) /\ Z(from, m) \cap Z(m + 1, x) = {}
  BY <1>2
<1>4. IsFiniteSet(Z(from, m)) /\ IsFiniteSet(Z(m + 1, x)) /\ m + 1 \in Int
  BY <1>1
<1>5. Cardinality(Z(from, m)) \in Nat /\ Cardinality(Z(m + 1, x)) \in Nat
  BY <1>1, <1>4
<1>. HIDE DEF Z
<1>6. Cardinality(Z(from, x)) = Cardinality(Z(from, m)) + Cardinality(Z(m + 1, x)) - 0
  BY <1>3, <1>4, FS_Union, FS_EmptySet
<1>. QED
  BY <1>5, <1>6 DEF CountOf, Z

-----------------------------------------------------------------------------
(* Depth.                                                                  *)

(* None before the first token; an opener adds one, a closer takes one,    *)
(* and no other token changes it.                                          *)
LEMMA DepthStep ==
    ASSUME NEW d, NEW from \in Nat, NEW x \in Int
    PROVE  /\ Depth(d, from, x) \in Int
           /\ x < from => Depth(d, from, x) = 0
           /\ from <= x /\ d[x] \in Openers => Depth(d, from, x) = Depth(d, from, x - 1) + 1
           /\ from <= x /\ d[x] \in Closers => Depth(d, from, x) = Depth(d, from, x - 1) - 1
           /\ from <= x /\ d[x] \notin Openers \cup Closers => Depth(d, from, x) = Depth(d, from, x - 1)
<1>. DEFINE O(k) == CountOf(d, Openers, from, k)
            C(k) == CountOf(d, Closers, from, k)
<1>1. \A k : Depth(d, from, k) = O(k) - C(k)
  BY DEF Depth, CountOf
<1>2. x - 1 \in Int
  OBVIOUS
<1>3. /\ O(x) \in Nat /\ O(x - 1) \in Nat
      /\ x < from => O(x) = 0
      /\ from <= x => O(x) = IF d[x] \in Openers THEN O(x - 1) + 1 ELSE O(x - 1)
  BY <1>2, CountStep
<1>4. /\ C(x) \in Nat /\ C(x - 1) \in Nat
      /\ x < from => C(x) = 0
      /\ from <= x => C(x) = IF d[x] \in Closers THEN C(x - 1) + 1 ELSE C(x - 1)
  BY <1>2, CountStep
<1>5. Openers \cap Closers = {}
  BY DEF Openers, Closers
<1>. HIDE DEF O, C
<1>. QED
  BY <1>1, <1>3, <1>4, <1>5

(* The depth at the end of two stretches.                                  *)
LEMMA DepthSplit ==
    ASSUME NEW d, NEW from \in Nat, NEW m \in Nat, NEW x \in Int, from <= m + 1, m <= x
    PROVE  Depth(d, from, x) = Depth(d, from, m) + Depth(d, m + 1, x)
<1>1. m + 1 \in Nat /\ m \in Int
  OBVIOUS
<1>2. /\ CountOf(d, Openers, from, x) = CountOf(d, Openers, from, m) + CountOf(d, Openers, m + 1, x)
      /\ CountOf(d, Closers, from, x) = CountOf(d, Closers, from, m) + CountOf(d, Closers, m + 1, x)
  BY <1>1, CountSplit
<1>3. /\ CountOf(d, Openers, from, m) \in Nat /\ CountOf(d, Openers, m + 1, x) \in Nat
      /\ CountOf(d, Closers, from, m) \in Nat /\ CountOf(d, Closers, m + 1, x) \in Nat
  BY <1>1, CountStep
<1>4. \A a, k : Depth(d, a, k) = CountOf(d, Openers, a, k) - CountOf(d, Closers, a, k)
  BY DEF Depth, CountOf
<1>. QED
  BY <1>2, <1>3, <1>4

(* From an opener up to the first token where it is 0, it is 1 or more: it *)
(* goes down one at a time.                                                *)
LEMMA DepthAboveZero ==
    ASSUME NEW d, NEW from \in Nat, NEW n \in Int, d[from] \in Openers,
           \A x \in from .. n : Depth(d, from, x) # 0
    PROVE  \A x \in from .. n : Depth(d, from, x) >= 1
<1>. DEFINE D(k) == Depth(d, from, k)
            Low == {x \in from .. n : D(x) < 1}
<1>1. ASSUME NEW k \in Int
      PROVE  /\ D(k) \in Int
             /\ k = from => D(k) = 1
             /\ from <= k => D(k) >= D(k - 1) - 1
  <2>1. k - 1 \in Int
    OBVIOUS
  <2>2. D(k) \in Int /\ D(k - 1) \in Int
    BY <2>1, DepthStep
  <2>3. k = from => D(k) = 1
    <3>. SUFFICES ASSUME k = from PROVE D(k) = 1
      OBVIOUS
    <3>1. D(k - 1) = 0
      BY <2>1, DepthStep
    <3>2. D(k) = D(k - 1) + 1
      BY DepthStep
    <3>. QED
      BY <3>1, <3>2
  <2>4. from <= k => \/ D(k) = D(k - 1) + 1
                     \/ D(k) = D(k - 1) - 1
                     \/ D(k) = D(k - 1)
    BY DepthStep
  <2>. HIDE DEF D
  <2>. QED
    BY <2>2, <2>3, <2>4
<1>2. \A x \in from .. n : D(x) # 0
  OBVIOUS
<1>. HIDE DEF D
<1>3. ASSUME Low # {} PROVE FALSE
  <2>1. Low \in SUBSET Nat
    OBVIOUS
  <2>. HIDE DEF Low
  <2>2. PICK x \in Low : \A j \in Low : x <= j
    BY <1>3, <2>1, FirstIsIn
  <2>3. x \in Nat /\ from <= x /\ x <= n /\ x - 1 \in Int /\ D(x) < 1 /\ D(x) # 0
    BY <1>2, <2>1, <2>2 DEF Low
  <2>4. x - 1 \notin Low /\ x # from
    BY <1>1, <2>2, <2>3
  <2>5. D(x - 1) >= 1
    BY <1>1, <2>3, <2>4 DEF Low
  <2>. QED
    BY <1>1, <2>3, <2>5
<1>4. \A x \in from .. n : D(x) >= 1
  BY <1>1, <1>3
<1>. QED
  BY <1>4 DEF D

(* A value's own first token.                                              *)
LEMMA DepthOfFirst ==
    ASSUME NEW d, NEW x \in Nat
    PROVE  /\ d[x] \in Openers => Depth(d, x, x) = 1
           /\ d[x] \notin Openers \cup Closers => Depth(d, x, x) = 0
<1>. DEFINE D(k) == Depth(d, x, k)
<1>1. x - 1 \in Int /\ x \in Int /\ x - 1 < x /\ x <= x
  OBVIOUS
<1>2. D(x - 1) = 0
  BY <1>1, DepthStep
<1>3. /\ d[x] \in Openers => D(x) = D(x - 1) + 1
      /\ d[x] \notin Openers \cup Closers => D(x) = D(x - 1)
  BY <1>1, DepthStep
<1>. HIDE DEF D
<1>4. /\ d[x] \in Openers => D(x) = 1
      /\ d[x] \notin Openers \cup Closers => D(x) = 0
  BY <1>2, <1>3
<1>. QED
  BY <1>4 DEF D

-----------------------------------------------------------------------------
(* Where values end.                                                       *)

(* A container ends at the first token where as many brackets have closed  *)
(* as have opened.                                                         *)
LEMMA EndsThere ==
    ASSUME NEW d \in Seq(Token), NEW from \in 1 .. Len(d), d[from] \in Openers,
           NEW to \in from .. Len(d), Depth(d, from, to) = 0,
           \A x \in from .. to - 1 : Depth(d, from, x) >= 1, NEW o
    PROVE  ValueEnd(d, from) = to /\ ValueFault(d, from, o) = "none"
<1>. DEFINE Z == ContainerEnds(d, from)
<1>1. Len(d) \in Nat /\ Z \in SUBSET Nat /\ to \in Z
  BY LenProperties DEF ContainerEnds
<1>2. \A x \in Z : to <= x
  <2>. SUFFICES ASSUME NEW x \in Z, x < to PROVE FALSE
    BY <1>1
  <2>1. x \in from .. to - 1 /\ Depth(d, from, x) = 0
    BY <1>1 DEF ContainerEnds
  <2>. QED
    BY <2>1
<1>3. First(Z) \in Z /\ \A x \in Z : First(Z) <= x
  <2>. HIDE DEF Z
  <2>. QED
    BY <1>1, FirstIsIn
<1>4. First(Z) = to
  <2>1. First(Z) <= to /\ to <= First(Z) /\ First(Z) \in Nat /\ to \in Nat
    BY <1>1, <1>2, <1>3
  <2>. HIDE DEF Z
  <2>. QED
    BY <2>1
<1>5. At(d, from) = d[from] /\ d[from] # "end"
  <2>1. from <= Len(d)
    BY <1>1
  <2>2. d[from] # "end"
    BY DEF Openers
  <2>. QED
    BY <2>1, <2>2, Zenon DEF At
<1>. QED
  BY <1>1, <1>4, <1>5 DEF ValueEnd, ValueFault

(* What value_end steps over has its brackets in pairs: none is left open  *)
(* behind it, and none is closed on the way that was open before.          *)
LEMMA SteppedOver ==
    ASSUME NEW d \in Seq(Token), NEW x \in Nat \ {0}, NEW o, ValueFault(d, x, o) = "none",
           NEW to, to = ValueEnd(d, x)
    PROVE  /\ x \in 1 .. Len(d) /\ to \in x .. Len(d)
           /\ At(d, x) = d[x] /\ d[x] # "end"
           /\ Depth(d, x, to) = 0
           /\ \A y \in x .. to : Depth(d, x, y) >= 0
<1>1. Len(d) \in Nat
  BY LenProperties
<1>2. x <= Len(d)
  <2>. SUFFICES ASSUME ~ (x <= Len(d)) PROVE FALSE
    OBVIOUS
  <2>1. At(d, x) = "end"
    BY DEF At
  <2>2. ValueFault(d, x, o) = "unexpected_end"
    BY <2>1 DEF ValueFault, Openers, Accepted, Scalars, PlainScalars, NanKeywords
  <2>. QED
    BY <2>2
<1>3. At(d, x) = d[x]
  BY <1>2 DEF At
<1>4. d[x] # "end"
  <2>. SUFFICES ASSUME d[x] = "end" PROVE FALSE
    OBVIOUS
  <2>1. ValueFault(d, x, o) = "unexpected_end"
    BY <1>3 DEF ValueFault, Openers, Accepted, Scalars, PlainScalars, NanKeywords
  <2>. QED
    BY <2>1
<1>5. CASE d[x] \in Openers
  <2>. DEFINE Z == ContainerEnds(d, x)
  <2>1. Z # {}
    <3>. SUFFICES ASSUME ContainerEnds(d, x) = {} PROVE FALSE
      OBVIOUS
    <3>1. ValueFault(d, x, o) = "unexpected_end"
      BY <1>3, <1>4, <1>5 DEF ValueFault, Openers, Accepted, Scalars, PlainScalars, NanKeywords
    <3>. QED
      BY <3>1
  <2>2. Z \in SUBSET Nat
    BY <1>1 DEF ContainerEnds
  <2>3. First(Z) \in Z /\ \A j \in Z : First(Z) <= j
    <3>. HIDE DEF Z
    <3>. QED
      BY <2>1, <2>2, FirstIsIn
  <2>4. to = First(Z)
    BY <1>5 DEF ValueEnd
  <2>5. to \in x .. Len(d) /\ Depth(d, x, to) = 0
    BY <2>3, <2>4 DEF ContainerEnds
  <2>6. \A y \in x .. to - 1 : Depth(d, x, y) # 0
    <3>. SUFFICES ASSUME NEW y \in x .. to - 1, Depth(d, x, y) = 0 PROVE FALSE
      OBVIOUS
    <3>1. y \in x .. Len(d) /\ y < to /\ to \in Int /\ y \in Int
      BY <1>1, <2>5
    <3>2. y \in Z
      BY <3>1 DEF ContainerEnds
    <3>3. to <= y
      BY <2>3, <2>4, <3>2
    <3>. QED
      BY <3>1, <3>3
  <2>7. \A y \in x .. to - 1 : Depth(d, x, y) >= 1
    <3>1. to - 1 \in Int
      BY <1>1, <2>5
    <3>. QED
      BY <1>5, <2>6, <3>1, DepthAboveZero
  <2>8. \A y \in x .. to : Depth(d, x, y) >= 0
    <3>. SUFFICES ASSUME NEW y \in x .. to PROVE Depth(d, x, y) >= 0
      OBVIOUS
    <3>1. y = to \/ y \in x .. to - 1
      BY <1>1, <2>5
    <3>2. Depth(d, x, y) \in Int
      BY DepthStep
    <3>. QED
      BY <2>5, <2>7, <3>1, <3>2
  <2>. QED
    BY <1>2, <1>3, <1>4, <2>5, <2>8
<1>6. CASE d[x] \notin Openers
  <2>1. to = x
    BY <1>6 DEF ValueEnd
  <2>2. d[x] \notin Closers
    <3>. SUFFICES ASSUME d[x] \in Closers PROVE FALSE
      OBVIOUS
    <3>1. ValueFault(d, x, o) = ValueError(d[x])
      BY <1>3, <1>4, <1>6 DEF ValueFault, Accepted, Scalars, PlainScalars, NanKeywords, Closers
    <3>. QED
      BY <3>1 DEF ValueError
  <2>3. Depth(d, x, x) = 0
    BY <1>6, <2>2, DepthOfFirst
  <2>. QED
    BY <1>1, <1>2, <1>3, <1>4, <2>1, <2>3
<1>. QED
  BY <1>5, <1>6

-----------------------------------------------------------------------------
(* The containers being walked, seen in the document.                      *)

(* The frames are the containers open before token x, outermost first.     *)
Bracketed(d, stack, x) ==
    /\ x \in 1 .. Len(d) + 1
    /\ \A k \in 1 .. Len(stack) :
          LET from == stack[k].at
          IN  /\ from \in 1 .. x - 1
              /\ d[from] \in Openers /\ KindOf(d[from]) = stack[k].kind
              /\ \A y \in from .. x - 1 : Depth(d, from, y) >= 1
              /\ Depth(d, from, x - 1) = Len(stack) - k + 1

(* Only where they begin and of what kind they are matters.                *)
LEMMA SameBrackets ==
    ASSUME NEW d, NEW stack, NEW x, Bracketed(d, stack, x),
           NEW other, Len(other) = Len(stack),
           \A k \in 1 .. Len(stack) : other[k].at = stack[k].at /\ other[k].kind = stack[k].kind
    PROVE  Bracketed(d, other, x)
BY Zenon DEF Bracketed

(* A value or a delimiter behind leaves the same containers open.          *)
LEMMA BracketsOver ==
    ASSUME NEW d \in Seq(Token), NEW stack, Len(stack) \in Nat, NEW x, Bracketed(d, stack, x),
           NEW to \in x .. Len(d), Depth(d, x, to) = 0, \A y \in x .. to : Depth(d, x, y) >= 0
    PROVE  Bracketed(d, stack, to + 1)
<1>1. Len(d) \in Nat /\ x \in 1 .. Len(d) + 1 /\ to \in Nat
  BY LenProperties DEF Bracketed
<1>2. SUFFICES ASSUME NEW k \in 1 .. Len(stack), NEW from, from = stack[k].at
               PROVE  /\ from \in 1 .. (to + 1) - 1
                      /\ d[from] \in Openers /\ KindOf(d[from]) = stack[k].kind
                      /\ \A y \in from .. (to + 1) - 1 : Depth(d, from, y) >= 1
                      /\ Depth(d, from, (to + 1) - 1) = Len(stack) - k + 1
  BY <1>1 DEF Bracketed
<1>3. /\ from \in 1 .. x - 1
      /\ d[from] \in Openers /\ KindOf(d[from]) = stack[k].kind
      /\ \A y \in from .. x - 1 : Depth(d, from, y) >= 1
      /\ Depth(d, from, x - 1) = Len(stack) - k + 1
  BY <1>2 DEF Bracketed
<1>4. ASSUME NEW y \in x .. to PROVE Depth(d, from, y) = Depth(d, from, x - 1) + Depth(d, x, y)
  <2>1. x - 1 \in Nat /\ from \in Nat /\ y \in Int /\ from <= (x - 1) + 1 /\ x - 1 <= y /\ (x - 1) + 1 = x
    BY <1>1, <1>3
  <2>2. Depth(d, from, y) = Depth(d, from, x - 1) + Depth(d, (x - 1) + 1, y)
    BY <2>1, DepthSplit
  <2>. QED
    BY <2>1, <2>2
<1>5. Depth(d, from, to) = Len(stack) - k + 1
  <2>1. to \in x .. to /\ Len(stack) - k + 1 \in Int
    BY <1>1
  <2>2. Depth(d, from, to) = Depth(d, from, x - 1) + Depth(d, x, to)
    BY <1>4, <2>1
  <2>. QED
    BY <1>3, <2>1, <2>2
<1>6. ASSUME NEW y \in from .. to PROVE Depth(d, from, y) >= 1
  <2>1. CASE y \in from .. x - 1
    BY <1>3, <2>1
  <2>2. CASE y \in x .. to
    <3>1. Depth(d, from, y) = Len(stack) - k + 1 + Depth(d, x, y)
      BY <1>3, <1>4, <2>2
    <3>2. Depth(d, x, y) >= 0 /\ Depth(d, x, y) \in Int
      <4>1. x \in Nat /\ y \in Int
        BY <1>1, <2>2
      <4>. QED
        BY <2>2, <4>1, DepthStep
    <3>3. Len(stack) - k + 1 >= 1 /\ Len(stack) - k + 1 \in Int
      OBVIOUS
    <3>. QED
      BY <3>1, <3>2, <3>3
  <2>. QED
    BY <1>1, <1>3, <2>1, <2>2
<1>. QED
  BY <1>1, <1>3, <1>5, <1>6

(* A delimiter that is no bracket.                                         *)
LEMMA BracketsPast ==
    ASSUME NEW d \in Seq(Token), NEW stack, Len(stack) \in Nat, NEW x, Bracketed(d, stack, x),
           At(d, x) # "end", At(d, x) \notin Openers \cup Closers
    PROVE  Bracketed(d, stack, x + 1)
<1>1. Len(d) \in Nat /\ x \in 1 .. Len(d) + 1
  BY LenProperties DEF Bracketed
<1>2. x <= Len(d) /\ d[x] \notin Openers \cup Closers
  BY DEF At
<1>3. x \in Nat /\ x \in Int /\ x - 1 \in Int /\ x - 1 < x /\ x \in x .. Len(d)
  BY <1>1, <1>2
<1>4. Depth(d, x, x) = 0
  BY <1>2, <1>3, DepthOfFirst
<1>5. \A y \in x .. x : Depth(d, x, y) >= 0
  BY <1>3, <1>4
<1>. QED
  BY <1>3, <1>4, <1>5, BracketsOver

(* An opener adds a container.                                             *)
LEMMA BracketsOpen ==
    ASSUME NEW d \in Seq(Token), NEW stack, Len(stack) \in Nat, NEW x, Bracketed(d, stack, x),
           At(d, x) \in Openers,
           NEW other, Len(other) = Len(stack) + 1,
           \A k \in 1 .. Len(stack) : other[k] = stack[k],
           other[Len(stack) + 1].at = x, other[Len(stack) + 1].kind = KindOf(At(d, x))
    PROVE  Bracketed(d, other, x + 1)
<1>1. Len(d) \in Nat /\ x \in 1 .. Len(d) + 1
  BY LenProperties DEF Bracketed
<1>2. x <= Len(d) /\ At(d, x) = d[x]
  BY DEF At, Openers
<1>3. x \in Nat /\ x \in Int /\ x - 1 \in Int /\ x - 1 < x /\ (x + 1) - 1 = x
  BY <1>1, <1>2
<1>4. SUFFICES ASSUME NEW k \in 1 .. Len(other), NEW from, from = other[k].at
               PROVE  /\ from \in 1 .. x
                      /\ d[from] \in Openers /\ KindOf(d[from]) = other[k].kind
                      /\ \A y \in from .. x : Depth(d, from, y) >= 1
                      /\ Depth(d, from, x) = Len(other) - k + 1
  BY <1>1, <1>2, <1>3 DEF Bracketed
<1>5. CASE k = Len(stack) + 1
  <2>1. from = x
    BY <1>4, <1>5
  <2>3. Depth(d, x, x) = 1
    BY <1>2, <1>3, DepthOfFirst
  <2>. QED
    BY <1>1, <1>2, <1>3, <1>5, <2>1, <2>3
<1>6. CASE k \in 1 .. Len(stack)
  <2>1. other[k] = stack[k] /\ from = stack[k].at
    BY <1>4, <1>6
  <2>2. /\ from \in 1 .. x - 1
        /\ d[from] \in Openers /\ KindOf(d[from]) = stack[k].kind
        /\ \A y \in from .. x - 1 : Depth(d, from, y) >= 1
        /\ Depth(d, from, x - 1) = Len(stack) - k + 1
    BY <1>6, <2>1 DEF Bracketed
  <2>3. Depth(d, from, x) = Depth(d, from, x - 1) + 1
    <3>1. from \in Nat /\ from <= x
      BY <1>1, <2>2
    <3>. QED
      BY <1>2, <1>3, <3>1, DepthStep
  <2>4. Depth(d, from, x) = Len(other) - k + 1 /\ Depth(d, from, x) >= 1
    BY <1>6, <2>2, <2>3
  <2>5. ASSUME NEW y \in from .. x PROVE Depth(d, from, y) >= 1
    <3>1. y = x \/ y \in from .. x - 1
      BY <1>1, <2>2
    <3>. QED
      BY <2>2, <2>4, <3>1
  <2>. QED
    BY <1>1, <2>1, <2>2, <2>4, <2>5
<1>. QED
  BY <1>5, <1>6

(* A closer ends the innermost container: value_end of it finds the same   *)
(* closer, and the others stay open.                                       *)
LEMMA BracketsClose ==
    ASSUME NEW d \in Seq(Token), NEW stack, Len(stack) \in Nat \ {0}, NEW x, Bracketed(d, stack, x),
           At(d, x) \in Closers, NEW o,
           NEW outer, Len(outer) = Len(stack) - 1, \A k \in 1 .. Len(stack) - 1 : outer[k] = stack[k]
    PROVE  /\ ValueEnd(d, stack[Len(stack)].at) = x
           /\ ValueFault(d, stack[Len(stack)].at, o) = "none"
           /\ Bracketed(d, outer, x + 1)
<1>1. Len(d) \in Nat /\ x \in 1 .. Len(d) + 1
  BY LenProperties DEF Bracketed
<1>2. x <= Len(d) /\ At(d, x) = d[x]
  BY DEF At, Closers
<1>3. x \in Nat /\ x \in Int /\ x - 1 \in Int /\ (x + 1) - 1 = x
  BY <1>1, <1>2
<1>4. ASSUME NEW k \in 1 .. Len(stack), NEW from, from = stack[k].at
      PROVE  /\ from \in 1 .. x - 1
             /\ d[from] \in Openers /\ KindOf(d[from]) = stack[k].kind
             /\ \A y \in from .. x - 1 : Depth(d, from, y) >= 1
             /\ Depth(d, from, x) = Len(stack) - k
  <2>1. /\ from \in 1 .. x - 1
        /\ d[from] \in Openers /\ KindOf(d[from]) = stack[k].kind
        /\ \A y \in from .. x - 1 : Depth(d, from, y) >= 1
        /\ Depth(d, from, x - 1) = Len(stack) - k + 1
    BY <1>4 DEF Bracketed
  <2>2. Depth(d, from, x) = Depth(d, from, x - 1) - 1
    <3>1. from \in Nat /\ from <= x
      BY <1>1, <2>1
    <3>. QED
      BY <1>2, <1>3, <3>1, DepthStep
  <2>3. Depth(d, from, x) = Len(stack) - k
    BY <2>1, <2>2
  <2>. QED
    BY <2>1, <2>3
<1>5. ValueEnd(d, stack[Len(stack)].at) = x /\ ValueFault(d, stack[Len(stack)].at, o) = "none"
  <2>1. PICK from : from = stack[Len(stack)].at
    OBVIOUS
  <2>2. /\ from \in 1 .. x - 1 /\ d[from] \in Openers
        /\ \A y \in from .. x - 1 : Depth(d, from, y) >= 1
        /\ Depth(d, from, x) = 0
    <3>1. Len(stack) \in 1 .. Len(stack) /\ Len(stack) - Len(stack) = 0
      OBVIOUS
    <3>. QED
      BY <1>4, <2>1, <3>1
  <2>3. from \in 1 .. Len(d) /\ x \in from .. Len(d)
    BY <1>1, <1>2, <2>2
  <2>. QED
    BY <2>1, <2>2, <2>3, EndsThere
<1>6. Bracketed(d, outer, x + 1)
  <2>. SUFFICES ASSUME NEW k \in 1 .. Len(outer), NEW from, from = outer[k].at
                PROVE  /\ from \in 1 .. (x + 1) - 1
                       /\ d[from] \in Openers /\ KindOf(d[from]) = outer[k].kind
                       /\ \A y \in from .. (x + 1) - 1 : Depth(d, from, y) >= 1
                       /\ Depth(d, from, (x + 1) - 1) = Len(outer) - k + 1
    <3>1. x + 1 \in 1 .. Len(d) + 1
      BY <1>1, <1>2
    <3>. QED
      BY <3>1, Zenon DEF Bracketed
  <2>1. k \in 1 .. Len(stack) /\ outer[k] = stack[k] /\ Len(outer) - k + 1 = Len(stack) - k
    OBVIOUS
  <2>2. /\ from \in 1 .. x - 1
        /\ d[from] \in Openers /\ KindOf(d[from]) = stack[k].kind
        /\ \A y \in from .. x - 1 : Depth(d, from, y) >= 1
        /\ Depth(d, from, x) = Len(stack) - k
    BY <1>4, <2>1
  <2>3. Depth(d, from, x) >= 1
    BY <2>2
  <2>4. ASSUME NEW y \in from .. x PROVE Depth(d, from, y) >= 1
    <3>1. y = x \/ y \in from .. x - 1
      BY <1>1, <2>2
    <3>. QED
      BY <2>2, <2>3, <3>1
  <2>. QED
    BY <1>1, <1>3, <2>1, <2>2, <2>4
<1>. QED
  BY <1>5, <1>6

-----------------------------------------------------------------------------
(* The walk of one pointer, from place to place.                           *)

(* A walk that has not returned goes on.                                   *)
LEMMA WalkOn ==
    ASSUME NEW s, NEW d, NEW p, NEW o, Reaches(s, d, p, o), s.outcome = "walking"
    PROVE  Reaches(WalkStep(s, d, p, o), d, p, o)
<1>1. PICK last \in Nat : \E run : IsWalk(run, last, d, p, o) /\ run[last] = s
  BY DEF Reaches
<1>2. PICK run : IsWalk(run, last, d, p, o) /\ run[last] = s
  BY <1>1
<1>3. PICK t : t = WalkStep(s, d, p, o)
  OBVIOUS
<1>. DEFINE longer == [n \in 0 .. last + 1 |-> IF n = last + 1 THEN t ELSE run[n]]
<1>4. \A n \in 0 .. last : longer[n] = run[n]
  OBVIOUS
<1>5. longer[last + 1] = t /\ longer[0] = run[0]
  OBVIOUS
<1>6. /\ run[0] = Standing(Aim(p, 0), 1, 0, "array", 0)
      /\ \A n \in 0 .. last - 1 :
            run[n].outcome = "walking" /\ run[n + 1] = WalkStep(run[n], d, p, o)
  BY <1>2 DEF IsWalk
<1>. HIDE DEF longer
<1>7. ASSUME NEW n \in 0 .. (last + 1) - 1
      PROVE  longer[n].outcome = "walking" /\ longer[n + 1] = WalkStep(longer[n], d, p, o)
  <2>1. CASE n = last
    <3>1. longer[n] = s /\ longer[n + 1] = t
      BY <1>2, <1>4, <1>5, <2>1
    <3>. QED
      BY <1>3, <3>1, Zenon
  <2>2. CASE n # last
    <3>1. n \in 0 .. last - 1 /\ n \in 0 .. last /\ n + 1 \in 0 .. last
      BY <2>2
    <3>2. longer[n] = run[n] /\ longer[n + 1] = run[n + 1]
      BY <1>4, <3>1
    <3>. QED
      BY <1>6, <3>1, <3>2, Zenon
  <2>. QED
    BY <2>1, <2>2
<1>8. IsWalk(longer, last + 1, d, p, o)
  BY <1>5, <1>6, <1>7, Zenon DEF IsWalk
<1>9. last + 1 \in Nat /\ longer[last + 1] = WalkStep(s, d, p, o)
  BY <1>3, <1>5
<1>. QED
  BY <1>8, <1>9, Zenon DEF Reaches

(* A step of it, from a place.                                             *)
LEMMA WalkFrom ==
    ASSUME NEW d, NEW p, NEW o, NEW s, NEW at, NEW x, NEW n, NEW c, NEW a,
           s = Standing(at, x, n, c, a)
    PROVE  /\ s.pc = at /\ s.i = x /\ s.level = n /\ s.kind = c /\ s.ahead = a
           /\ s.outcome = "walking"
           /\ at = "descend" => WalkStep(s, d, p, o) = FromDescend(s, d, p)
           /\ at = "member" => WalkStep(s, d, p, o) = FromMember(s, d, p, o)
           /\ at = "element" => WalkStep(s, d, p, o) = FromElement(s, p)
           /\ at = "skip" => WalkStep(s, d, p, o) = FromSkip(s, d, o)
           /\ at = "after" => WalkStep(s, d, p, o) = FromAfter(s, d, o)
           /\ at = "target" => WalkStep(s, d, p, o) = FromTarget(s, d, p, o)
<1>1. /\ s.pc = at /\ s.i = x /\ s.level = n /\ s.kind = c /\ s.ahead = a
      /\ s.outcome = "walking"
  BY DEF Standing
<1>. QED
  BY <1>1 DEF WalkStep

(* The walk of `p` stands there, whatever it remembers of other levels.    *)
Stood(at, x, n, d, p, o) == \E c, a : Reaches(Standing(at, x, n, c, a), d, p, o)

(* A value with a token of the pointer still to match.                     *)
LEMMA AtDescend ==
    ASSUME NEW d, NEW p, NEW o, NEW x, NEW n, Stood("descend", x, n, d, p, o)
    PROVE  /\ At(d.tokens, x) \notin Openers \cup {"end"} => Reaches(Missed, d, p, o)
           /\ At(d.tokens, x) = "{" /\ At(d.tokens, x + 1) = "}" => Reaches(Missed, d, p, o)
           /\ At(d.tokens, x) = "[" /\ At(d.tokens, x + 1) = "]" => Reaches(Missed, d, p, o)
           /\ At(d.tokens, x) = "[" /\ Index[p[n + 1]] = NoIndex => Reaches(Missed, d, p, o)
           /\ At(d.tokens, x) = "{" /\ At(d.tokens, x + 1) # "}" =>
                 \E a : Reaches(Standing("member", x + 1, n, "object", a), d, p, o)
           /\ At(d.tokens, x) = "[" /\ At(d.tokens, x + 1) # "]" /\ Index[p[n + 1]] # NoIndex =>
                 Reaches(Standing("element", x + 1, n, "array", Index[p[n + 1]]), d, p, o)
<1>1. PICK c, a : Reaches(Standing("descend", x, n, c, a), d, p, o)
  BY DEF Stood
<1>2. PICK s : s = Standing("descend", x, n, c, a)
  OBVIOUS
<1>3. /\ s.i = x /\ s.level = n /\ s.ahead = a
      /\ s.outcome = "walking" /\ WalkStep(s, d, p, o) = FromDescend(s, d, p)
  BY <1>2, WalkFrom
<1>4. Reaches(FromDescend(s, d, p), d, p, o)
  <2>1. Reaches(s, d, p, o)
    BY <1>1, <1>2, Zenon
  <2>. QED
    BY <1>3, <2>1, WalkOn
<1>5. FromDescend(s, d, p) =
          IF At(d.tokens, x) = "end" THEN Failed("unexpected_end")
          ELSE IF At(d.tokens, x) = "{" /\ At(d.tokens, x + 1) # "}"
               THEN Standing("member", x + 1, n, "object", a)
          ELSE IF At(d.tokens, x) = "[" /\ Index[p[n + 1]] # NoIndex /\ At(d.tokens, x + 1) # "]"
               THEN Standing("element", x + 1, n, "array", Index[p[n + 1]])
          ELSE Missed
  BY <1>3, Zenon DEF FromDescend
<1>6. "{" # "end" /\ "[" # "end" /\ "[" # "{" /\ "{" \in Openers /\ "[" \in Openers
  BY DEF Openers
<1>. QED
  BY <1>4, <1>5, <1>6

(* A member of an object the walk is in.                                   *)
LEMMA AtMember ==
    ASSUME NEW d, NEW p, NEW o, NEW x, NEW n, NEW c, NEW a,
           Reaches(Standing("member", x, n, c, a), d, p, o)
    PROVE  /\ TrailingClose(d.tokens, x, o, "}") => Reaches(Missed, d, p, o)
           /\ /\ At(d.tokens, x) \in KeyText /\ At(d.tokens, x + 1) = ":"
              /\ KeyIs(d.tokens, d.names, x, p[n + 1])
              => Stood(Aim(p, n + 1), x + 2, n + 1, d, p, o)
           /\ /\ At(d.tokens, x) \in KeyText /\ At(d.tokens, x + 1) = ":"
              /\ ~ KeyIs(d.tokens, d.names, x, p[n + 1])
              => Reaches(Standing("skip", x + 2, n, c, a), d, p, o)
<1>1. PICK s : s = Standing("member", x, n, c, a)
  OBVIOUS
<1>2. /\ s.i = x /\ s.level = n /\ s.kind = c /\ s.ahead = a
      /\ s.outcome = "walking" /\ WalkStep(s, d, p, o) = FromMember(s, d, p, o)
  BY <1>1, WalkFrom
<1>3. Reaches(FromMember(s, d, p, o), d, p, o)
  <2>1. Reaches(s, d, p, o)
    BY <1>1, Zenon
  <2>. QED
    BY <1>2, <2>1, WalkOn
<1>4. FromMember(s, d, p, o) =
          IF TrailingClose(d.tokens, x, o, "}") THEN Missed
          ELSE IF At(d.tokens, x) = "badstr" THEN Failed("scalar_error")
          ELSE IF At(d.tokens, x) \notin KeyText \/ At(d.tokens, x + 1) # ":" THEN Failed("expected")
          ELSE IF KeyIs(d.tokens, d.names, x, p[n + 1])
               THEN Standing(Aim(p, n + 1), x + 2, n + 1, c, a)
          ELSE Standing("skip", x + 2, n, c, a)
  BY <1>2, Zenon DEF FromMember, Matching, Going
<1>5. At(d.tokens, x) \in KeyText => At(d.tokens, x) # "badstr" /\ ~ TrailingClose(d.tokens, x, o, "}")
  BY DEF KeyText, TrailingClose
<1>. QED
  BY <1>3, <1>4, <1>5 DEF Stood

(* An element of an array the walk is in.                                  *)
LEMMA AtElement ==
    ASSUME NEW d, NEW p, NEW o, NEW x, NEW n, NEW c, NEW a,
           Reaches(Standing("element", x, n, c, a), d, p, o)
    PROVE  /\ a = 0 => Stood(Aim(p, n + 1), x, n + 1, d, p, o)
           /\ a # 0 => Reaches(Standing("skip", x, n, c, a), d, p, o)
<1>1. PICK s : s = Standing("element", x, n, c, a)
  OBVIOUS
<1>2. /\ s.i = x /\ s.level = n /\ s.kind = c /\ s.ahead = a
      /\ s.outcome = "walking" /\ WalkStep(s, d, p, o) = FromElement(s, p)
  BY <1>1, WalkFrom
<1>3. Reaches(FromElement(s, p), d, p, o)
  <2>1. Reaches(s, d, p, o)
    BY <1>1, Zenon
  <2>. QED
    BY <1>2, <2>1, WalkOn
<1>4. FromElement(s, p) = IF a = 0 THEN Standing(Aim(p, n + 1), x, n + 1, c, a)
                          ELSE Standing("skip", x, n, c, a)
  BY <1>2, Zenon DEF FromElement, Matching, Going
<1>. QED
  BY <1>3, <1>4 DEF Stood

(* A member that is not the one, and what follows it.                      *)
LEMMA AtSkip ==
    ASSUME NEW d, NEW p, NEW o, NEW x, NEW n, NEW c, NEW a,
           Reaches(Standing("skip", x, n, c, a), d, p, o), ValueFault(d.tokens, x, o) = "none"
    PROVE  Reaches(Standing("after", ValueEnd(d.tokens, x) + 1, n, c, a), d, p, o)
<1>1. PICK s : s = Standing("skip", x, n, c, a)
  OBVIOUS
<1>2. /\ s.i = x /\ s.level = n /\ s.kind = c /\ s.ahead = a
      /\ s.outcome = "walking" /\ WalkStep(s, d, p, o) = FromSkip(s, d, o)
  BY <1>1, WalkFrom
<1>3. Reaches(FromSkip(s, d, o), d, p, o)
  <2>1. Reaches(s, d, p, o)
    BY <1>1, Zenon
  <2>. QED
    BY <1>2, <2>1, WalkOn
<1>4. FromSkip(s, d, o) = Standing("after", ValueEnd(d.tokens, x) + 1, n, c, a)
  BY <1>2, Zenon DEF FromSkip, Going
<1>. QED
  BY <1>3, <1>4, Zenon

(* After a member the walk is over or goes on to the next one.             *)
LEMMA AtAfter ==
    ASSUME NEW d, NEW p, NEW o, NEW x, NEW n, NEW c \in Kinds, NEW a,
           Reaches(Standing("after", x, n, c, a), d, p, o)
    PROVE  /\ At(d.tokens, x) = CloserOf(c) => Reaches(Missed, d, p, o)
           /\ At(d.tokens, x) = "," /\ c = "object" =>
                 Reaches(Standing("member", x + 1, n, c, a), d, p, o)
           /\ At(d.tokens, x) = "," /\ c = "array" /\ TrailingClose(d.tokens, x + 1, o, "]") =>
                 Reaches(Missed, d, p, o)
           /\ At(d.tokens, x) = "," /\ c = "array" /\ ~ TrailingClose(d.tokens, x + 1, o, "]") =>
                 Reaches(Standing("element", x + 1, n, c, a - 1), d, p, o)
<1>1. PICK s : s = Standing("after", x, n, c, a)
  OBVIOUS
<1>2. /\ s.i = x /\ s.level = n /\ s.kind = c /\ s.ahead = a
      /\ s.outcome = "walking" /\ WalkStep(s, d, p, o) = FromAfter(s, d, o)
  BY <1>1, WalkFrom
<1>3. Reaches(FromAfter(s, d, o), d, p, o)
  <2>1. Reaches(s, d, p, o)
    BY <1>1, Zenon
  <2>. QED
    BY <1>2, <2>1, WalkOn
<1>4. FromAfter(s, d, o) =
          IF At(d.tokens, x) = CloserOf(c) THEN Missed
          ELSE IF At(d.tokens, x) = "end" THEN Failed("unexpected_end")
          ELSE IF At(d.tokens, x) # "," THEN Failed("expected")
          ELSE IF c = "object" THEN Standing("member", x + 1, n, c, a)
          ELSE IF TrailingClose(d.tokens, x + 1, o, "]") THEN Missed
          ELSE Standing("element", x + 1, n, c, a - 1)
  BY <1>2, Zenon DEF FromAfter, Going
<1>5. CloserOf(c) # "," /\ "," # "end" /\ "array" # "object"
  BY DEF CloserOf
<1>. QED
  BY <1>3, <1>4, <1>5

(* The value found.                                                        *)
LEMMA AtTarget ==
    ASSUME NEW d, NEW p, NEW o, NEW x, NEW n, Stood("target", x, n, d, p, o),
           ValueFault(d.tokens, x, o) = "none",
           p = <<>> => ~ (ValueEnd(d.tokens, x) < Len(d.tokens))
    PROVE  Reaches(Returned("ok", <<x, ValueEnd(d.tokens, x)>>), d, p, o)
<1>1. PICK c, a : Reaches(Standing("target", x, n, c, a), d, p, o)
  BY DEF Stood
<1>2. PICK s : s = Standing("target", x, n, c, a)
  OBVIOUS
<1>3. s.i = x /\ s.outcome = "walking" /\ WalkStep(s, d, p, o) = FromTarget(s, d, p, o)
  BY <1>2, WalkFrom
<1>4. Reaches(FromTarget(s, d, p, o), d, p, o)
  <2>1. Reaches(s, d, p, o)
    BY <1>1, <1>2, Zenon
  <2>. QED
    BY <1>3, <2>1, WalkOn
<1>5. FromTarget(s, d, p, o) = Returned("ok", <<x, ValueEnd(d.tokens, x)>>)
  BY <1>3, Zenon DEF FromTarget
<1>. QED
  BY <1>4, <1>5, Zenon

-----------------------------------------------------------------------------
(* Where the batch leaves the walk of each of its pointers.                *)

(* The container of frame k is what query q asks for.                      *)
Ends(stack, k, q, ps) == q \in stack[k].queries /\ Len(ps[q]) = k - 1

(* Frame k has walked no member yet.                                       *)
Fresh(stack, at, k) == at = "first" /\ k = Len(stack)

(* A member of frame k that is still to come may be for q: Ahead(k).       *)
Awaits(stack, at, k, q, ps) ==
    /\ q \in stack[k].live
    /\ \/ stack[k].kind = "object"
       \/ Fresh(stack, at, k)
       \/ Index[ps[q][k]] > stack[k].element

(* The member of frame k the batch is in, which q steps over, or the place *)
(* between two members where both are.                                     *)
MemberAt(stack, x, k) == IF k < Len(stack) THEN stack[k + 1].at ELSE x
WaitsAt(stack, at, k) == IF k < Len(stack) \/ at = "value" THEN "skip" ELSE at

Waiting(stack, at, x, k, d, p, o) ==
    IF Fresh(stack, at, k) THEN Stood("descend", stack[k].at, k - 1, d, p, o)
    ELSE \E a :
            /\ Reaches(Standing(WaitsAt(stack, at, k), MemberAt(stack, x, k), k - 1,
                                stack[k].kind, a), d, p, o)
            /\ stack[k].kind = "array" => a = Index[p[k]] - stack[k].element

Answered(m, d, p, o) ==
    \E from \in Nat \ {0} :
        /\ m = <<from, ValueEnd(d.tokens, from)>>
        /\ ValueFault(d.tokens, from, o) = "none"
        /\ Stood("target", from, Len(p), d, p, o)

(* The walk of query q: at the value it asks for; at the container; in a   *)
(* container whose member is not the one; at the match; or over, without.  *)
AskedFor(q, d, ps, o, x, stack, qs) ==
    q \in qs => /\ Len(stack) <= Len(ps[q])
                /\ Stood(Aim(ps[q], Len(stack)), x, Len(stack), d, ps[q], o)

AtContainer(q, d, ps, o, stack) ==
    \A k \in 1 .. Len(stack) :
        Ends(stack, k, q, ps) => Stood("target", stack[k].at, k - 1, d, ps[q], o)

InContainer(q, d, ps, o, at, x, stack) ==
    \A k \in 1 .. Len(stack) :
        Awaits(stack, at, k, q, ps) => Waiting(stack, at, x, k, d, ps[q], o)

AtMatch(q, d, ps, o, res) == res[q] # NoMatch => Answered(res[q], d, ps[q], o)

OrOver(q, d, ps, o, at, stack, qs, res) ==
    \/ res[q] # NoMatch
    \/ q \in qs
    \/ \E k \in 1 .. Len(stack) : Ends(stack, k, q, ps) \/ Awaits(stack, at, k, q, ps)
    \/ Reaches(Missed, d, ps[q], o)

Tracked(q, d, ps, o, at, x, stack, qs, res) ==
    /\ AskedFor(q, d, ps, o, x, stack, qs)
    /\ AtContainer(q, d, ps, o, stack)
    /\ InContainer(q, d, ps, o, at, x, stack)
    /\ AtMatch(q, d, ps, o, res)
    /\ OrOver(q, d, ps, o, at, stack, qs, res)

-----------------------------------------------------------------------------
(* The steps of the batch, for one query.                                  *)

(* The value from..to has been stepped over, and answers the queries that  *)
(* asked for it; the others that wait in a container step over it.         *)
LEMMA TrackedSettled ==
    ASSUME NEW q, NEW d, NEW ps, NEW o, NEW from \in Nat \ {0}, NEW stack, NEW here, NEW res,
           Len(stack) \in Nat,
           Tracked(q, d, ps, o, "value", from, stack, here, res),
           q \in here => Len(ps[q]) = Len(stack),
           ValueFault(d.tokens, from, o) = "none",
           NEW to, to = ValueEnd(d.tokens, from),
           NEW res2, res2[q] = IF q \in here THEN <<from, to>> ELSE res[q],
           NEW at2, Len(stack) > 0 => at2 = "after"
    PROVE  Tracked(q, d, ps, o, at2, to + 1, stack, {}, res2)
<1>1. <<from, to>> # NoMatch
  BY DEF NoMatch
<1>2. AskedFor(q, d, ps, o, to + 1, stack, {})
  BY DEF AskedFor
<1>3. AtContainer(q, d, ps, o, stack)
  BY DEF Tracked
<1>4. \A k \in 1 .. Len(stack) :
         /\ at2 = "after"
         /\ ~ Fresh(stack, at2, k) /\ ~ Fresh(stack, "value", k)
         /\ Awaits(stack, at2, k, q, ps) <=> Awaits(stack, "value", k, q, ps)
  BY DEF Awaits, Fresh
<1>5. InContainer(q, d, ps, o, at2, to + 1, stack)
  <2>. SUFFICES ASSUME NEW k \in 1 .. Len(stack), Awaits(stack, at2, k, q, ps)
                PROVE  Waiting(stack, at2, to + 1, k, d, ps[q], o)
    BY Zenon DEF InContainer
  <2>1. Waiting(stack, "value", from, k, d, ps[q], o)
    BY <1>4, Zenon DEF Tracked, InContainer
  <2>2. PICK a : /\ Reaches(Standing("skip", MemberAt(stack, from, k), k - 1, stack[k].kind, a), d, ps[q], o)
                 /\ stack[k].kind = "array" => a = Index[ps[q][k]] - stack[k].element
    BY <1>4, <2>1, Zenon DEF Waiting, WaitsAt
  <2>3. CASE k < Len(stack)
    <3>1. /\ WaitsAt(stack, at2, k) = "skip"
          /\ MemberAt(stack, to + 1, k) = MemberAt(stack, from, k)
      BY <2>3, Zenon DEF WaitsAt, MemberAt
    <3>. QED
      BY <1>4, <2>2, <3>1, Zenon DEF Waiting
  <2>4. CASE ~ (k < Len(stack))
    <3>1. /\ WaitsAt(stack, at2, k) = "after"
          /\ MemberAt(stack, to + 1, k) = to + 1 /\ MemberAt(stack, from, k) = from
      BY <1>4, <2>4 DEF WaitsAt, MemberAt
    <3>2. Reaches(Standing("skip", from, k - 1, stack[k].kind, a), d, ps[q], o)
      BY <2>2, <3>1, Zenon
    <3>3. Reaches(Standing("after", ValueEnd(d.tokens, from) + 1, k - 1, stack[k].kind, a), d, ps[q], o)
      BY <3>2, AtSkip
    <3>4. Reaches(Standing("after", to + 1, k - 1, stack[k].kind, a), d, ps[q], o)
      BY <3>3, Zenon
    <3>. QED
      BY <1>4, <2>2, <3>1, <3>4, Zenon DEF Waiting
  <2>. QED
    BY <2>3, <2>4
<1>6. AtMatch(q, d, ps, o, res2)
  <2>1. CASE q \in here
    <3>1. Stood("target", from, Len(ps[q]), d, ps[q], o)
      BY <2>1, Zenon DEF Tracked, AskedFor, Aim
    <3>. QED
      BY <2>1, <3>1, Zenon DEF AtMatch, Answered
  <2>2. CASE q \notin here
    BY <2>2, Zenon DEF Tracked, AtMatch
  <2>. QED
    BY <2>1, <2>2
<1>7. OrOver(q, d, ps, o, at2, stack, {}, res2)
  <2>1. CASE q \in here
    BY <1>1, <2>1 DEF OrOver
  <2>2. CASE q \notin here
    BY <1>4, <2>2, Zenon DEF Tracked, OrOver
  <2>. QED
    BY <2>1, <2>2
<1>. QED
  BY <1>2, <1>3, <1>5, <1>6, <1>7 DEF Tracked

(* Once every query has its answer nothing is left to walk.                *)
LEMMA TrackedUnwound ==
    ASSUME NEW q, NEW d, NEW ps, NEW o, NEW res, AtMatch(q, d, ps, o, res), res[q] # NoMatch,
           NEW at, NEW x, NEW stack, Len(stack) = 0
    PROVE  Tracked(q, d, ps, o, at, x, stack, {}, res)
BY DEF Tracked, AskedFor, AtContainer, InContainer, OrOver

(* A value no query goes into: a scalar, where those that would have miss. *)
LEMMA TrackedOver ==
    ASSUME NEW q, NEW d, NEW ps, NEW o, NEW x, NEW stack, NEW qs, NEW res,
           Len(stack) \in Nat, q \in qs => Len(ps[q]) \in Nat,
           Tracked(q, d, ps, o, "value", x, stack, qs, res),
           NEW here, q \in here <=> q \in qs /\ Len(ps[q]) = Len(stack),
           q \in qs /\ Len(ps[q]) > Len(stack) => At(d.tokens, x) \notin Openers \cup {"end"}
    PROVE  Tracked(q, d, ps, o, "value", x, stack, here, res)
<1>1. AskedFor(q, d, ps, o, x, stack, here)
  BY DEF Tracked, AskedFor
<1>2. AtContainer(q, d, ps, o, stack) /\ InContainer(q, d, ps, o, "value", x, stack) /\ AtMatch(q, d, ps, o, res)
  BY Zenon DEF Tracked
<1>3. ASSUME q \in qs, q \notin here PROVE Reaches(Missed, d, ps[q], o)
  <2>1. Len(stack) <= Len(ps[q]) /\ Stood(Aim(ps[q], Len(stack)), x, Len(stack), d, ps[q], o)
    BY <1>3, Zenon DEF Tracked, AskedFor
  <2>2. Len(ps[q]) > Len(stack) /\ Len(stack) # Len(ps[q])
    BY <1>3, <2>1
  <2>3. Stood("descend", x, Len(stack), d, ps[q], o)
    BY <2>1, <2>2, Zenon DEF Aim
  <2>. QED
    BY <1>3, <2>2, <2>3, AtDescend
<1>4. OrOver(q, d, ps, o, "value", stack, here, res)
  BY <1>3, Zenon DEF Tracked, OrOver
<1>. QED
  BY <1>1, <1>2, <1>4 DEF Tracked

(* A container walked into.                                                *)
LEMMA TrackedInto ==
    ASSUME NEW q, NEW d, NEW ps, NEW o, NEW x, NEW stack, NEW qs, NEW res,
           Len(stack) \in Nat, q \in qs => Len(ps[q]) \in Nat,
           Tracked(q, d, ps, o, "value", x, stack, qs, res),
           NEW other, Len(other) = Len(stack) + 1,
           \A k \in 1 .. Len(stack) : other[k] = stack[k],
           other[Len(stack) + 1].at = x, other[Len(stack) + 1].queries = qs,
           q \in other[Len(stack) + 1].live <=> q \in qs /\ Len(ps[q]) > Len(stack)
    PROVE  Tracked(q, d, ps, o, "first", x + 1, other, {}, res)
<1>. DEFINE n == Len(stack)
<1>1. AskedFor(q, d, ps, o, x + 1, other, {}) /\ AtMatch(q, d, ps, o, res)
  BY DEF Tracked, AskedFor
<1>2. \A k \in 1 .. n : /\ k \in 1 .. Len(other) /\ k < Len(other)
                        /\ other[k] = stack[k]
                        /\ ~ Fresh(other, "first", k) /\ ~ Fresh(stack, "value", k)
  BY DEF Fresh
<1>3. \A k \in 1 .. n : /\ Ends(other, k, q, ps) <=> Ends(stack, k, q, ps)
                        /\ Awaits(other, "first", k, q, ps) <=> Awaits(stack, "value", k, q, ps)
  BY <1>2, Zenon DEF Ends, Awaits
<1>4. (n + 1) - 1 = n /\ n + 1 \in 1 .. Len(other) /\ n + 1 = Len(other)
      /\ \A k \in 1 .. Len(other) : k \in 1 .. n \/ k = n + 1
  OBVIOUS
<1>5. Fresh(other, "first", n + 1)
  BY <1>4 DEF Fresh
<1>6. AtContainer(q, d, ps, o, other)
  <2>. SUFFICES ASSUME NEW k \in 1 .. Len(other), Ends(other, k, q, ps)
                PROVE  Stood("target", other[k].at, k - 1, d, ps[q], o)
    BY Zenon DEF AtContainer
  <2>1. CASE k \in 1 .. n
    BY <1>2, <1>3, <2>1, Zenon DEF Tracked, AtContainer
  <2>2. CASE k = n + 1
    <3>1. q \in qs /\ Len(ps[q]) = n
      BY <1>4, <2>2 DEF Ends
    <3>2. Stood("target", x, n, d, ps[q], o)
      BY <3>1, Zenon DEF Tracked, AskedFor, Aim
    <3>. QED
      BY <1>4, <2>2, <3>2, Zenon
  <2>. QED
    BY <1>4, <2>1, <2>2
<1>7. InContainer(q, d, ps, o, "first", x + 1, other)
  <2>. SUFFICES ASSUME NEW k \in 1 .. Len(other), Awaits(other, "first", k, q, ps)
                PROVE  Waiting(other, "first", x + 1, k, d, ps[q], o)
    BY Zenon DEF InContainer
  <2>1. CASE k \in 1 .. n
    <3>1. Waiting(stack, "value", x, k, d, ps[q], o)
      BY <1>3, <2>1, Zenon DEF Tracked, InContainer
    <3>2. WaitsAt(other, "first", k) = "skip" /\ WaitsAt(stack, "value", k) = "skip"
      BY <1>2, <2>1, Zenon DEF WaitsAt
    <3>3. MemberAt(other, x + 1, k) = MemberAt(stack, x, k)
      <4>1. CASE k < n
        <5>1. k + 1 \in 1 .. n
          BY <2>1, <4>1
        <5>. QED
          BY <1>2, <2>1, <4>1, <5>1, Zenon DEF MemberAt
      <4>2. CASE ~ (k < n)
        <5>1. k = n /\ k + 1 = Len(stack) + 1
          BY <2>1, <4>2
        <5>2. MemberAt(other, x + 1, k) = other[k + 1].at /\ MemberAt(stack, x, k) = x
          BY <1>2, <2>1, <4>2, Zenon DEF MemberAt
        <5>. QED
          BY <5>1, <5>2
      <4>. QED
        BY <4>1, <4>2
    <3>. QED
      BY <1>2, <2>1, <3>1, <3>2, <3>3, Zenon DEF Waiting
  <2>2. CASE k = n + 1
    <3>1. q \in qs /\ Len(ps[q]) > n
      BY <1>4, <2>2 DEF Awaits
    <3>2. n # Len(ps[q])
      BY <3>1
    <3>3. Stood("descend", x, n, d, ps[q], o)
      BY <3>1, <3>2, Zenon DEF Tracked, AskedFor, Aim
    <3>4. Stood("descend", other[k].at, k - 1, d, ps[q], o)
      BY <1>4, <2>2, <3>3, Zenon
    <3>. QED
      BY <1>5, <2>2, <3>4, Zenon DEF Waiting
  <2>. QED
    BY <1>4, <2>1, <2>2
<1>8. OrOver(q, d, ps, o, "first", other, {}, res)
  <2>1. ASSUME q \in qs PROVE Ends(other, n + 1, q, ps) \/ Awaits(other, "first", n + 1, q, ps)
    <3>1. Len(ps[q]) = n \/ Len(ps[q]) > n
      BY <2>1 DEF Tracked, AskedFor
    <3>. QED
      BY <1>4, <1>5, <2>1, <3>1 DEF Ends, Awaits
  <2>2. ASSUME NEW k \in 1 .. n, Ends(stack, k, q, ps) \/ Awaits(stack, "value", k, q, ps)
        PROVE  \E m \in 1 .. Len(other) : Ends(other, m, q, ps) \/ Awaits(other, "first", m, q, ps)
    BY <1>2, <1>3, <2>2, Zenon
  <2>3. \/ res[q] # NoMatch \/ q \in qs
        \/ \E k \in 1 .. n : Ends(stack, k, q, ps) \/ Awaits(stack, "value", k, q, ps)
        \/ Reaches(Missed, d, ps[q], o)
    BY Zenon DEF Tracked, OrOver
  <2>. QED
    BY <1>4, <2>1, <2>2, <2>3, Zenon DEF OrOver
<1>. QED
  BY <1>1, <1>6, <1>7, <1>8 DEF Tracked

-----------------------------------------------------------------------------
(* The delimiters a step looks at.                                         *)
ObjectAt(d, x)  == At(d.tokens, x) = "{"
CommaAt(d, x)   == At(d.tokens, x) = ","
TrailingObject(d, x, o) == TrailingClose(d.tokens, x, o, "}")

(* A frame the step does not touch: its queries wait where they waited.    *)
LEMMA FrameWaits ==
    ASSUME NEW q, NEW d, NEW ps, NEW o, NEW stack, NEW other, NEW at, NEW at2, NEW x, NEW y, NEW k,
           other[k] = stack[k], ~ Fresh(stack, at, k), ~ Fresh(other, at2, k),
           WaitsAt(stack, at, k) = WaitsAt(other, at2, k), MemberAt(stack, x, k) = MemberAt(other, y, k)
    PROVE  /\ Ends(other, k, q, ps) <=> Ends(stack, k, q, ps)
           /\ Awaits(other, at2, k, q, ps) <=> Awaits(stack, at, k, q, ps)
           /\ Waiting(stack, at, x, k, d, ps[q], o) => Waiting(other, at2, y, k, d, ps[q], o)
<1>1. Ends(other, k, q, ps) <=> Ends(stack, k, q, ps)
  BY Zenon DEF Ends
<1>2. Awaits(other, at2, k, q, ps) <=> Awaits(stack, at, k, q, ps)
  BY Zenon DEF Awaits
<1>3. Waiting(stack, at, x, k, d, ps[q], o) => Waiting(other, at2, y, k, d, ps[q], o)
  BY Zenon DEF Waiting
<1>. QED
  BY <1>1, <1>2, <1>3

(* The innermost container is behind, closed at its end: its value takes   *)
(* its place, for the queries that asked for it.                           *)
LEMMA TrackedClosed ==
    ASSUME NEW q, NEW d, NEW ps, NEW o, NEW at, NEW x, NEW stack, NEW res,
           NEW n \in Nat \ {0}, Len(stack) = n,
           Tracked(q, d, ps, o, at, x, stack, {}, res), at # "value",
           Awaits(stack, at, n, q, ps) => Reaches(Missed, d, ps[q], o),
           NEW outer, Len(outer) = n - 1, \A k \in 1 .. n - 1 : outer[k] = stack[k],
           NEW here, q \in here <=> q \in stack[n].queries /\ Len(ps[q]) = n - 1
    PROVE  Tracked(q, d, ps, o, "value", stack[n].at, outer, here, res)
<1>1. n \in 1 .. Len(stack) /\ n - 1 \in Nat /\ \A k \in 1 .. n : k \in 1 .. n - 1 \/ k = n
  OBVIOUS
<1>2. AskedFor(q, d, ps, o, stack[n].at, outer, here)
  <2>. SUFFICES ASSUME q \in here
                PROVE  /\ Len(outer) <= Len(ps[q])
                       /\ Stood(Aim(ps[q], Len(outer)), stack[n].at, Len(outer), d, ps[q], o)
    BY Zenon DEF AskedFor
  <2>1. Ends(stack, n, q, ps) /\ Len(ps[q]) = Len(outer) /\ Len(outer) <= Len(ps[q])
    BY <1>1 DEF Ends
  <2>2. Stood("target", stack[n].at, n - 1, d, ps[q], o)
    BY <1>1, <2>1, Zenon DEF Tracked, AtContainer
  <2>. QED
    BY <2>1, <2>2, Zenon DEF Aim
<1>3. ASSUME NEW k \in 1 .. n - 1
      PROVE  /\ k \in 1 .. Len(stack)
             /\ outer[k] = stack[k] /\ ~ Fresh(stack, at, k) /\ ~ Fresh(outer, "value", k)
             /\ WaitsAt(stack, at, k) = WaitsAt(outer, "value", k)
             /\ MemberAt(stack, x, k) = MemberAt(outer, stack[n].at, k)
  <2>1. k \in 1 .. Len(stack) /\ k < Len(stack) /\ k # Len(stack)
    BY <1>3
  <2>2. WaitsAt(stack, at, k) = "skip" /\ WaitsAt(outer, "value", k) = "skip"
    BY <2>1, Zenon DEF WaitsAt
  <2>3. MemberAt(stack, x, k) = stack[k + 1].at
    BY <2>1, Zenon DEF MemberAt
  <2>4. MemberAt(outer, stack[n].at, k) = stack[k + 1].at
    <3>1. CASE k < n - 1
      <4>1. k + 1 \in 1 .. n - 1 /\ k < Len(outer)
        BY <1>3, <3>1
      <4>. QED
        BY <4>1, Zenon DEF MemberAt
    <3>2. CASE ~ (k < n - 1)
      <4>1. k + 1 = n /\ ~ (k < Len(outer))
        BY <1>3, <3>2
      <4>. QED
        BY <4>1, Zenon DEF MemberAt
    <3>. QED
      BY <3>1, <3>2
  <2>. QED
    BY <1>3, <2>1, <2>2, <2>3, <2>4, Zenon DEF Fresh
<1>4. ASSUME NEW k \in 1 .. n - 1
      PROVE  /\ Ends(outer, k, q, ps) <=> Ends(stack, k, q, ps)
             /\ Awaits(outer, "value", k, q, ps) <=> Awaits(stack, at, k, q, ps)
             /\ Waiting(stack, at, x, k, d, ps[q], o) => Waiting(outer, "value", stack[n].at, k, d, ps[q], o)
  BY <1>3, <1>4, FrameWaits
<1>5. AtContainer(q, d, ps, o, outer)
  BY <1>3, <1>4, Zenon DEF Tracked, AtContainer
<1>6. InContainer(q, d, ps, o, "value", stack[n].at, outer)
  BY <1>3, <1>4, Zenon DEF Tracked, InContainer
<1>7. OrOver(q, d, ps, o, "value", outer, here, res)
  <2>1. ASSUME NEW k \in 1 .. n, Ends(stack, k, q, ps) \/ Awaits(stack, at, k, q, ps)
        PROVE  OrOver(q, d, ps, o, "value", outer, here, res)
    <3>1. CASE k \in 1 .. n - 1
      BY <1>4, <2>1, <3>1, Zenon DEF OrOver
    <3>2. CASE k = n /\ Ends(stack, n, q, ps)
      BY <3>2, Zenon DEF OrOver, Ends
    <3>3. CASE k = n /\ Awaits(stack, at, n, q, ps)
      BY <3>3, Zenon DEF OrOver
    <3>. QED
      BY <1>1, <2>1, <3>1, <3>2, <3>3
  <2>2. \/ res[q] # NoMatch
        \/ \E k \in 1 .. n : Ends(stack, k, q, ps) \/ Awaits(stack, at, k, q, ps)
        \/ Reaches(Missed, d, ps[q], o)
    BY DEF Tracked, OrOver
  <2>. QED
    BY <2>1, <2>2, Zenon DEF OrOver
<1>. QED
  BY <1>2, <1>5, <1>6, <1>7 DEF Tracked

(* A member comes next: wanted is asked for it, the queries still awaiting *)
(* a later one step over it, and the others are over.                      *)
LEMMA TrackedVisit ==
    ASSUME NEW q, NEW d, NEW ps, NEW o, NEW at, NEW x, NEW stack, NEW res,
           NEW n \in Nat \ {0}, Len(stack) = n,
           Tracked(q, d, ps, o, at, x, stack, {}, res), at # "value",
           NEW other, Len(other) = n, \A k \in 1 .. n - 1 : other[k] = stack[k],
           other[n].at = stack[n].at, other[n].kind = stack[n].kind,
           other[n].queries = stack[n].queries,
           NEW y, NEW wanted,
           q \in wanted => n <= Len(ps[q]) /\ Stood(Aim(ps[q], n), y, n, d, ps[q], o),
           Awaits(other, "value", n, q, ps) =>
               \E a : /\ Reaches(Standing("skip", y, n - 1, stack[n].kind, a), d, ps[q], o)
                      /\ stack[n].kind = "array" => a = Index[ps[q][n]] - other[n].element,
           Awaits(stack, at, n, q, ps) =>
               q \in wanted \/ Awaits(other, "value", n, q, ps) \/ Reaches(Missed, d, ps[q], o)
    PROVE  Tracked(q, d, ps, o, "value", y, other, wanted, res)
<1>1. n \in 1 .. Len(stack) /\ n - 1 \in Nat /\ \A k \in 1 .. n : k \in 1 .. n - 1 \/ k = n
  OBVIOUS
<1>2. AskedFor(q, d, ps, o, y, other, wanted)
  BY Zenon DEF AskedFor
<1>3. ASSUME NEW k \in 1 .. n - 1
      PROVE  /\ k \in 1 .. n
             /\ other[k] = stack[k] /\ ~ Fresh(stack, at, k) /\ ~ Fresh(other, "value", k)
             /\ WaitsAt(stack, at, k) = WaitsAt(other, "value", k)
             /\ MemberAt(stack, x, k) = MemberAt(other, y, k)
  <2>1. k \in 1 .. n /\ k < Len(stack) /\ k < Len(other) /\ k # Len(stack)
    BY <1>3
  <2>2. WaitsAt(stack, at, k) = "skip" /\ WaitsAt(other, "value", k) = "skip"
    BY <2>1, Zenon DEF WaitsAt
  <2>3. MemberAt(stack, x, k) = stack[k + 1].at /\ MemberAt(other, y, k) = other[k + 1].at
    BY <2>1, Zenon DEF MemberAt
  <2>4. other[k + 1].at = stack[k + 1].at
    <3>1. k + 1 \in 1 .. n - 1 \/ k + 1 = n
      BY <1>3
    <3>. QED
      BY <3>1, Zenon
  <2>. QED
    BY <1>3, <2>1, <2>2, <2>3, <2>4, Zenon DEF Fresh
<1>4. ASSUME NEW k \in 1 .. n - 1
      PROVE  /\ Ends(other, k, q, ps) <=> Ends(stack, k, q, ps)
             /\ Awaits(other, "value", k, q, ps) <=> Awaits(stack, at, k, q, ps)
             /\ Waiting(stack, at, x, k, d, ps[q], o) => Waiting(other, "value", y, k, d, ps[q], o)
  BY <1>3, <1>4, FrameWaits
<1>5. Ends(other, n, q, ps) <=> Ends(stack, n, q, ps)
  BY Zenon DEF Ends
<1>6. AtContainer(q, d, ps, o, other)
  <2>. SUFFICES ASSUME NEW k \in 1 .. n, Ends(other, k, q, ps)
                PROVE  Stood("target", other[k].at, k - 1, d, ps[q], o)
    BY Zenon DEF AtContainer
  <2>1. Ends(stack, k, q, ps) /\ other[k].at = stack[k].at
    BY <1>1, <1>4, <1>5
  <2>. QED
    BY <2>1, Zenon DEF Tracked, AtContainer
<1>7. InContainer(q, d, ps, o, "value", y, other)
  <2>. SUFFICES ASSUME NEW k \in 1 .. n, Awaits(other, "value", k, q, ps)
                PROVE  Waiting(other, "value", y, k, d, ps[q], o)
    BY Zenon DEF InContainer
  <2>1. CASE k \in 1 .. n - 1
    BY <1>3, <1>4, <2>1, Zenon DEF Tracked, InContainer
  <2>2. CASE k = n
    <3>1. ~ Fresh(other, "value", n) /\ ~ (n < Len(other))
      BY DEF Fresh
    <3>2. WaitsAt(other, "value", n) = "skip" /\ MemberAt(other, y, n) = y
      BY <3>1, Zenon DEF WaitsAt, MemberAt
    <3>. QED
      BY <2>2, <3>1, <3>2, Zenon DEF Waiting
  <2>. QED
    BY <1>1, <2>1, <2>2
<1>8. AtMatch(q, d, ps, o, res)
  BY DEF Tracked
<1>9. OrOver(q, d, ps, o, "value", other, wanted, res)
  <2>1. ASSUME NEW k \in 1 .. n, Ends(stack, k, q, ps) \/ Awaits(stack, at, k, q, ps)
        PROVE  OrOver(q, d, ps, o, "value", other, wanted, res)
    <3>1. CASE k \in 1 .. n - 1
      BY <1>3, <1>4, <2>1, <3>1, Zenon DEF OrOver
    <3>2. CASE k = n
      BY <1>5, <2>1, <3>2, Zenon DEF OrOver
    <3>. QED
      BY <1>1, <3>1, <3>2
  <2>2. \/ res[q] # NoMatch
        \/ \E k \in 1 .. n : Ends(stack, k, q, ps) \/ Awaits(stack, at, k, q, ps)
        \/ Reaches(Missed, d, ps[q], o)
    BY DEF Tracked, OrOver
  <2>. QED
    BY <2>1, <2>2, Zenon DEF OrOver
<1>. QED
  BY <1>2, <1>6, <1>7, <1>8, <1>9 DEF Tracked

(* What a query that awaits a member of the innermost container has done.  *)
LEMMA InnermostWaits ==
    ASSUME NEW q, NEW d, NEW ps, NEW o, NEW at, NEW x, NEW stack, NEW res,
           NEW n \in Nat \ {0}, Len(stack) = n,
           Tracked(q, d, ps, o, at, x, stack, {}, res), at # "value",
           Awaits(stack, at, n, q, ps)
    PROVE  /\ at = "first" => Stood("descend", stack[n].at, n - 1, d, ps[q], o)
           /\ at # "first" =>
                 \E a : /\ Reaches(Standing(at, x, n - 1, stack[n].kind, a), d, ps[q], o)
                        /\ stack[n].kind = "array" => a = Index[ps[q][n]] - stack[n].element
<1>1. n \in 1 .. Len(stack) /\ ~ (n < Len(stack))
  OBVIOUS
<1>2. Waiting(stack, at, x, n, d, ps[q], o)
  BY <1>1, Zenon DEF Tracked, InContainer
<1>3. Fresh(stack, at, n) <=> at = "first"
  BY DEF Fresh
<1>4. WaitsAt(stack, at, n) = at /\ MemberAt(stack, x, n) = x
  BY <1>1, Zenon DEF WaitsAt, MemberAt
<1>. QED
  BY <1>2, <1>3, <1>4, Zenon DEF Waiting

(* A key, its colon, and the member they name.                             *)
LEMMA TrackedMember ==
    ASSUME NEW q, NEW d, NEW ps, NEW o, NEW at \in {"first", "member"}, NEW x, NEW stack, NEW res,
           NEW n \in Nat \ {0}, Len(stack) = n,
           Tracked(q, d, ps, o, at, x, stack, {}, res),
           stack[n].kind = "object",
           at = "first" => x = stack[n].at + 1 /\ ObjectAt(d, stack[n].at),
           At(d.tokens, x) \in KeyText, At(d.tokens, x + 1) = ":",
           NEW other, Len(other) = n, \A k \in 1 .. n - 1 : other[k] = stack[k],
           other[n].at = stack[n].at, other[n].kind = stack[n].kind,
           other[n].queries = stack[n].queries,
           NEW wanted,
           q \in wanted <=> q \in stack[n].live /\ KeyIs(d.tokens, d.names, x, ps[q][n]),
           q \in other[n].live <=> q \in stack[n].live /\ q \notin wanted,
           q \in stack[n].live => n <= Len(ps[q])
    PROVE  Tracked(q, d, ps, o, "value", x + 2, other, wanted, res)
<1>1. at # "value" /\ (n - 1) + 1 = n /\ "object" # "array" /\ "member" # "first"
  OBVIOUS
<1>2. /\ Awaits(stack, at, n, q, ps) <=> q \in stack[n].live
      /\ Awaits(other, "value", n, q, ps) <=> q \in other[n].live
  BY Zenon DEF Awaits
<1>3. ASSUME q \in stack[n].live
      PROVE  \E a : Reaches(Standing("member", x, n - 1, "object", a), d, ps[q], o)
  <2>1. /\ at = "first" => Stood("descend", stack[n].at, n - 1, d, ps[q], o)
        /\ at # "first" => \E a : Reaches(Standing(at, x, n - 1, stack[n].kind, a), d, ps[q], o)
    BY <1>1, <1>2, <1>3, InnermostWaits
  <2>2. CASE at = "first"
    <3>1. Stood("descend", stack[n].at, n - 1, d, ps[q], o)
      BY <2>1, <2>2
    <3>2. ObjectAt(d, stack[n].at) /\ x = stack[n].at + 1
      BY <2>2
    <3>3. At(d.tokens, stack[n].at) = "{" /\ At(d.tokens, stack[n].at + 1) # "}"
      BY <3>2, Zenon DEF KeyText, ObjectAt
    <3>. QED
      BY <3>1, <3>2, <3>3, AtDescend, Zenon
  <2>3. CASE at # "first"
    BY <2>1, <2>3
  <2>. QED
    BY <2>2, <2>3
<1>4. ASSUME q \in stack[n].live, q \in wanted
      PROVE  Stood(Aim(ps[q], n), x + 2, n, d, ps[q], o)
  <2>1. PICK a : Reaches(Standing("member", x, n - 1, "object", a), d, ps[q], o)
    BY <1>3, <1>4
  <2>2. KeyIs(d.tokens, d.names, x, ps[q][(n - 1) + 1])
    BY <1>1, <1>4
  <2>3. Stood(Aim(ps[q], (n - 1) + 1), x + 2, (n - 1) + 1, d, ps[q], o)
    BY <2>1, <2>2, AtMember
  <2>. QED
    BY <1>1, <2>3
<1>5. ASSUME q \in stack[n].live, q \notin wanted
      PROVE  \E a : Reaches(Standing("skip", x + 2, n - 1, stack[n].kind, a), d, ps[q], o)
  <2>1. PICK a : Reaches(Standing("member", x, n - 1, "object", a), d, ps[q], o)
    BY <1>3, <1>5
  <2>2. ~ KeyIs(d.tokens, d.names, x, ps[q][(n - 1) + 1])
    BY <1>1, <1>5
  <2>3. Reaches(Standing("skip", x + 2, n - 1, "object", a), d, ps[q], o)
    BY <2>1, <2>2, AtMember
  <2>. QED
    BY <2>3
<1>6. q \in wanted => n <= Len(ps[q]) /\ Stood(Aim(ps[q], n), x + 2, n, d, ps[q], o)
  BY <1>4
<1>7. Awaits(other, "value", n, q, ps) =>
          \E a : /\ Reaches(Standing("skip", x + 2, n - 1, stack[n].kind, a), d, ps[q], o)
                 /\ stack[n].kind = "array" => a = Index[ps[q][n]] - other[n].element
  BY <1>1, <1>2, <1>5
<1>8. Awaits(stack, at, n, q, ps) =>
          q \in wanted \/ Awaits(other, "value", n, q, ps) \/ Reaches(Missed, d, ps[q], o)
  BY <1>2
<1>. QED
  BY <1>1, <1>6, <1>7, <1>8, TrackedVisit

ElementComes(q, d, ps, o, at, stack, n, y, e) ==
    /\ q \in stack[n].live => n <= Len(ps[q]) /\ Index[ps[q][n]] \in Int
    /\ q \in stack[n].live /\ Index[ps[q][n]] >= e =>
          Reaches(Standing("element", y, n - 1, "array", Index[ps[q][n]] - e), d, ps[q], o)
    /\ Awaits(stack, at, n, q, ps) /\ Index[ps[q][n]] < e => Reaches(Missed, d, ps[q], o)

(* An element, numbered e: the queries that await it are at it.            *)
LEMMA TrackedElement ==
    ASSUME NEW q, NEW d, NEW ps, NEW o, NEW at, NEW x, NEW stack, NEW res,
           NEW n \in Nat \ {0}, Len(stack) = n,
           Tracked(q, d, ps, o, at, x, stack, {}, res), at # "value",
           stack[n].kind = "array",
           NEW other, Len(other) = n, \A k \in 1 .. n - 1 : other[k] = stack[k],
           other[n].at = stack[n].at, other[n].kind = stack[n].kind,
           other[n].queries = stack[n].queries, other[n].live = stack[n].live,
           NEW e \in Nat, other[n].element = e, NEW y, NEW wanted,
           q \in wanted <=> q \in stack[n].live /\ Index[ps[q][n]] = e,
           ElementComes(q, d, ps, o, at, stack, n, y, e)
    PROVE  Tracked(q, d, ps, o, "value", y, other, wanted, res)
<1>1. (n - 1) + 1 = n /\ "array" # "object"
  OBVIOUS
<1>2. Awaits(other, "value", n, q, ps) <=> q \in stack[n].live /\ Index[ps[q][n]] > e
  BY <1>1 DEF Awaits, Fresh
<1>3. Awaits(stack, at, n, q, ps) => q \in stack[n].live
  BY DEF Awaits
<1>0. /\ q \in stack[n].live => n <= Len(ps[q]) /\ Index[ps[q][n]] \in Int
      /\ q \in stack[n].live /\ Index[ps[q][n]] >= e =>
             Reaches(Standing("element", y, n - 1, "array", Index[ps[q][n]] - e), d, ps[q], o)
      /\ Awaits(stack, at, n, q, ps) /\ Index[ps[q][n]] < e => Reaches(Missed, d, ps[q], o)
  BY Zenon DEF ElementComes
<1>4. q \in wanted => n <= Len(ps[q]) /\ Stood(Aim(ps[q], n), y, n, d, ps[q], o)
  <2>. SUFFICES ASSUME q \in wanted PROVE Stood(Aim(ps[q], n), y, n, d, ps[q], o)
    BY <1>0
  <2>1. PICK a : a = Index[ps[q][n]] - e
    OBVIOUS
  <2>2. Index[ps[q][n]] >= e /\ a = 0
    BY <1>0, <2>1
  <2>3. Reaches(Standing("element", y, n - 1, "array", a), d, ps[q], o)
    BY <1>0, <2>1, <2>2, Zenon
  <2>4. Stood(Aim(ps[q], (n - 1) + 1), y, (n - 1) + 1, d, ps[q], o)
    BY <2>2, <2>3, AtElement
  <2>. QED
    BY <1>1, <2>4
<1>5. Awaits(other, "value", n, q, ps) =>
          \E a : /\ Reaches(Standing("skip", y, n - 1, stack[n].kind, a), d, ps[q], o)
                 /\ stack[n].kind = "array" => a = Index[ps[q][n]] - other[n].element
  <2>. SUFFICES ASSUME q \in stack[n].live, Index[ps[q][n]] > e
                PROVE  \E a : /\ Reaches(Standing("skip", y, n - 1, stack[n].kind, a), d, ps[q], o)
                              /\ stack[n].kind = "array" => a = Index[ps[q][n]] - other[n].element
    BY <1>2
  <2>1. PICK a : a = Index[ps[q][n]] - e
    OBVIOUS
  <2>2. Index[ps[q][n]] >= e /\ a # 0
    BY <1>0, <2>1
  <2>3. Reaches(Standing("element", y, n - 1, "array", a), d, ps[q], o)
    BY <1>0, <2>1, <2>2, Zenon
  <2>4. Reaches(Standing("skip", y, n - 1, "array", a), d, ps[q], o)
    BY <2>2, <2>3, AtElement
  <2>. QED
    BY <2>1, <2>4, Zenon
<1>6. Awaits(stack, at, n, q, ps) =>
          q \in wanted \/ Awaits(other, "value", n, q, ps) \/ Reaches(Missed, d, ps[q], o)
  BY <1>0, <1>2, <1>3
<1>. QED
  BY <1>4, <1>5, <1>6, TrackedVisit

(* The first element of an array.                                          *)
LEMMA TrackedFirst ==
    ASSUME NEW q, NEW d, NEW ps, NEW o, NEW x, NEW stack, NEW res,
           NEW n \in Nat \ {0}, Len(stack) = n,
           Tracked(q, d, ps, o, "first", x, stack, {}, res),
           stack[n].kind = "array",
           x = stack[n].at + 1, At(d.tokens, stack[n].at) = "[", At(d.tokens, x) # "]",
           NEW other, Len(other) = n, \A k \in 1 .. n - 1 : other[k] = stack[k],
           other[n].at = stack[n].at, other[n].kind = stack[n].kind,
           other[n].queries = stack[n].queries, other[n].live = stack[n].live,
           other[n].element = 0, NEW wanted,
           q \in wanted <=> q \in stack[n].live /\ Index[ps[q][n]] = 0,
           q \in stack[n].live => n <= Len(ps[q]) /\ Index[ps[q][n]] \in Nat \cup {NoIndex}
    PROVE  Tracked(q, d, ps, o, "value", x, other, wanted, res)
<1>1. (n - 1) + 1 = n /\ "first" # "value" /\ 0 \in Nat
  OBVIOUS
<1>2. Awaits(stack, "first", n, q, ps) <=> q \in stack[n].live
  BY DEF Awaits, Fresh
<1>3. q \in stack[n].live => n <= Len(ps[q]) /\ Index[ps[q][n]] \in Int
  BY DEF NoIndex
<1>4. ASSUME q \in stack[n].live PROVE Stood("descend", stack[n].at, n - 1, d, ps[q], o)
  BY <1>1, <1>2, <1>4, InnermostWaits
<1>5. ASSUME q \in stack[n].live, Index[ps[q][n]] >= 0
      PROVE  Reaches(Standing("element", x, n - 1, "array", Index[ps[q][n]] - 0), d, ps[q], o)
  <2>1. PICK a : a = Index[ps[q][n]]
    OBVIOUS
  <2>2. a = Index[ps[q][n]] - 0 /\ a # NoIndex
    BY <1>3, <1>5, <2>1 DEF NoIndex
  <2>3. Index[ps[q][(n - 1) + 1]] = a
    BY <1>1, <2>1, Zenon
  <2>4. Reaches(Standing("element", stack[n].at + 1, n - 1, "array", Index[ps[q][(n - 1) + 1]]), d, ps[q], o)
    BY <1>4, <1>5, <2>2, <2>3, AtDescend
  <2>. QED
    BY <2>2, <2>3, <2>4, Zenon
<1>6. ASSUME q \in stack[n].live, Index[ps[q][n]] < 0 PROVE Reaches(Missed, d, ps[q], o)
  <2>1. Index[ps[q][n]] = NoIndex
    BY <1>6 DEF NoIndex
  <2>2. Index[ps[q][(n - 1) + 1]] = NoIndex
    BY <1>1, <2>1, Zenon
  <2>. QED
    BY <1>4, <1>6, <2>2, AtDescend
<1>7. /\ q \in stack[n].live /\ Index[ps[q][n]] >= 0 =>
             Reaches(Standing("element", x, n - 1, "array", Index[ps[q][n]] - 0), d, ps[q], o)
      /\ Awaits(stack, "first", n, q, ps) /\ Index[ps[q][n]] < 0 => Reaches(Missed, d, ps[q], o)
  BY <1>2, <1>5, <1>6, Zenon
<1>8. PICK e \in Nat : e = 0
  OBVIOUS
<1>9. /\ other[n].element = e
      /\ q \in wanted <=> q \in stack[n].live /\ Index[ps[q][n]] = e
      /\ ElementComes(q, d, ps, o, "first", stack, n, x, e)
  BY <1>3, <1>7, <1>8, Zenon DEF ElementComes
<1>. QED
  BY <1>1, <1>9, TrackedElement

(* The element after a comma.                                              *)
LEMMA NextElement ==
    ASSUME NEW q, NEW d, NEW ps, NEW o, NEW x, NEW stack, NEW res,
           NEW n \in Nat \ {0}, Len(stack) = n,
           Tracked(q, d, ps, o, "after", x, stack, {}, res),
           stack[n].kind = "array", NEW e \in Nat, stack[n].element = e,
           CommaAt(d, x), ~ TrailingClose(d.tokens, x + 1, o, "]"),
           q \in stack[n].live => n <= Len(ps[q]) /\ Index[ps[q][n]] \in Nat \cup {NoIndex},
           NEW f, f = e + 1
    PROVE  ElementComes(q, d, ps, o, "after", stack, n, x + 1, f)
<1>1. "after" # "value" /\ "after" # "first" /\ "array" # "object" /\ "array" \in Kinds /\ e + 1 \in Nat
  BY DEF Kinds
<1>2. Awaits(stack, "after", n, q, ps) <=> q \in stack[n].live /\ Index[ps[q][n]] > e
  BY <1>1 DEF Awaits, Fresh
<1>3. q \in stack[n].live => n <= Len(ps[q]) /\ Index[ps[q][n]] \in Int
  BY DEF NoIndex
<1>4. ASSUME q \in stack[n].live, Index[ps[q][n]] >= e + 1
      PROVE  Reaches(Standing("element", x + 1, n - 1, "array", Index[ps[q][n]] - (e + 1)), d, ps[q], o)
  <2>1. Awaits(stack, "after", n, q, ps)
    BY <1>2, <1>3, <1>4
  <2>2. PICK a : /\ Reaches(Standing("after", x, n - 1, stack[n].kind, a), d, ps[q], o)
                 /\ stack[n].kind = "array" => a = Index[ps[q][n]] - stack[n].element
    BY <1>1, <2>1, InnermostWaits
  <2>3. Reaches(Standing("after", x, n - 1, "array", a), d, ps[q], o)
    BY <2>2, Zenon
  <2>4. Reaches(Standing("element", x + 1, n - 1, "array", a - 1), d, ps[q], o)
    BY <1>1, <2>3, AtAfter, Zenon DEF CommaAt
  <2>5. a - 1 = Index[ps[q][n]] - (e + 1)
    <3>1. PICK r \in Int : r = Index[ps[q][n]]
      BY <1>3, <1>4
    <3>2. a = r - e
      BY <2>2, <3>1
    <3>3. a - 1 = r - (e + 1)
      BY <3>2
    <3>. QED
      BY <3>1, <3>3, Zenon
  <2>. QED
    BY <2>4, <2>5, Zenon
<1>5. Awaits(stack, "after", n, q, ps) /\ Index[ps[q][n]] < e + 1 => Reaches(Missed, d, ps[q], o)
  BY <1>2, <1>3
<1>6. q \in stack[n].live /\ Index[ps[q][n]] >= e + 1 =>
          Reaches(Standing("element", x + 1, n - 1, "array", Index[ps[q][n]] - (e + 1)), d, ps[q], o)
  BY <1>4, Zenon
<1>. QED
  BY <1>3, <1>5, <1>6, Zenon DEF ElementComes

(* A comma in an object: a member comes next.                              *)
LEMMA TrackedComma ==
    ASSUME NEW q, NEW d, NEW ps, NEW o, NEW x, NEW stack, NEW res,
           NEW n \in Nat \ {0}, Len(stack) = n,
           Tracked(q, d, ps, o, "after", x, stack, {}, res),
           stack[n].kind = "object", CommaAt(d, x)
    PROVE  Tracked(q, d, ps, o, "member", x + 1, stack, {}, res)
<1>1. "after" # "value" /\ "after" # "first" /\ "member" # "first" /\ "object" \in Kinds
      /\ "object" # "array" /\ \A k \in 1 .. n : k \in 1 .. n - 1 \/ k = n
  BY DEF Kinds
<1>2. AskedFor(q, d, ps, o, x + 1, stack, {})
  BY DEF AskedFor
<1>3. \A k \in 1 .. n : /\ ~ Fresh(stack, "after", k) /\ ~ Fresh(stack, "member", k)
                        /\ Awaits(stack, "member", k, q, ps) <=> Awaits(stack, "after", k, q, ps)
  BY <1>1, Zenon DEF Fresh, Awaits
<1>4. InContainer(q, d, ps, o, "member", x + 1, stack)
  <2>. SUFFICES ASSUME NEW k \in 1 .. n, Awaits(stack, "member", k, q, ps)
                PROVE  Waiting(stack, "member", x + 1, k, d, ps[q], o)
    BY Zenon DEF InContainer
  <2>1. CASE k \in 1 .. n - 1
    <3>1. k < Len(stack)
      BY <2>1
    <3>2. /\ WaitsAt(stack, "after", k) = WaitsAt(stack, "member", k)
          /\ MemberAt(stack, x, k) = MemberAt(stack, x + 1, k)
      BY <3>1, Zenon DEF WaitsAt, MemberAt
    <3>3. Waiting(stack, "after", x, k, d, ps[q], o) => Waiting(stack, "member", x + 1, k, d, ps[q], o)
      BY <1>3, <3>2, FrameWaits
    <3>. QED
      BY <1>3, <3>3, Zenon DEF Tracked, InContainer
  <2>2. CASE k = n
    <3>1. PICK a : Reaches(Standing("after", x, n - 1, stack[n].kind, a), d, ps[q], o)
      <4>1. Awaits(stack, "after", n, q, ps)
        BY <1>3, <2>2
      <4>. QED
        BY <1>1, <4>1, InnermostWaits
    <3>2. Reaches(Standing("member", x + 1, n - 1, stack[n].kind, a), d, ps[q], o)
      BY <1>1, <3>1, AtAfter, Zenon DEF CommaAt
    <3>3. ~ (n < Len(stack)) /\ "member" # "value"
      OBVIOUS
    <3>4. WaitsAt(stack, "member", n) = "member" /\ MemberAt(stack, x + 1, n) = x + 1
      BY <3>3, Zenon DEF WaitsAt, MemberAt
    <3>5. stack[n].kind = "array" => a = Index[ps[q][n]] - stack[n].element
      BY <1>1
    <3>. QED
      BY <1>3, <2>2, <3>2, <3>4, <3>5, Zenon DEF Waiting
  <2>. QED
    BY <1>1, <2>1, <2>2
<1>5. OrOver(q, d, ps, o, "member", stack, {}, res)
  BY <1>3, Zenon DEF Tracked, OrOver
<1>. QED
  BY <1>2, <1>4, <1>5 DEF Tracked

(* The end of a container is a miss for those that await a member of it.   *)
LEMMA MissAtEnd ==
    ASSUME NEW q, NEW d, NEW ps, NEW o, NEW at \in {"first", "member", "after"}, NEW x, NEW stack, NEW res,
           NEW n \in Nat \ {0}, Len(stack) = n,
           Tracked(q, d, ps, o, at, x, stack, {}, res), stack[n].kind \in Kinds,
           at = "first" => /\ x = stack[n].at + 1 /\ At(d.tokens, x) = CloserOf(stack[n].kind)
                           /\ At(d.tokens, stack[n].at) \in Openers
                           /\ KindOf(At(d.tokens, stack[n].at)) = stack[n].kind,
           at = "member" => TrailingObject(d, x, o),
           at = "after" => \/ At(d.tokens, x) = CloserOf(stack[n].kind)
                           \/ /\ CommaAt(d, x) /\ stack[n].kind = "array"
                              /\ TrailingClose(d.tokens, x + 1, o, "]")
    PROVE  Awaits(stack, at, n, q, ps) => Reaches(Missed, d, ps[q], o)
<1>. SUFFICES ASSUME Awaits(stack, at, n, q, ps) PROVE Reaches(Missed, d, ps[q], o)
  OBVIOUS
<1>1. /\ at = "first" => Stood("descend", stack[n].at, n - 1, d, ps[q], o)
      /\ at # "first" => \E a : Reaches(Standing(at, x, n - 1, stack[n].kind, a), d, ps[q], o)
  <2>1. at # "value"
    OBVIOUS
  <2>. QED
    BY <2>1, InnermostWaits
<1>2. CASE at = "first"
  <2>1. \/ At(d.tokens, stack[n].at) = "{" /\ At(d.tokens, stack[n].at + 1) = "}"
        \/ At(d.tokens, stack[n].at) = "[" /\ At(d.tokens, stack[n].at + 1) = "]"
    <3>1. /\ At(d.tokens, stack[n].at) \in Openers
          /\ KindOf(At(d.tokens, stack[n].at)) = stack[n].kind
          /\ At(d.tokens, stack[n].at + 1) = CloserOf(stack[n].kind)
      BY <1>2
    <3>2. KindOf("{") = "object" /\ KindOf("[") = "array" /\ CloserOf("object") = "}" /\ CloserOf("array") = "]"
      BY Zenon DEF KindOf, CloserOf
    <3>3. At(d.tokens, stack[n].at) = "{" \/ At(d.tokens, stack[n].at) = "["
      BY <3>1, Zenon DEF Openers
    <3>. QED
      BY <3>1, <3>2, <3>3, Zenon
  <2>2. Stood("descend", stack[n].at, n - 1, d, ps[q], o)
    BY <1>1, <1>2
  <2>. QED
    BY <2>1, <2>2, AtDescend, Zenon
<1>3. CASE at = "member"
  <2>1. PICK a : Reaches(Standing("member", x, n - 1, stack[n].kind, a), d, ps[q], o)
    BY <1>1, <1>3
  <2>2. TrailingObject(d, x, o)
    BY <1>3
  <2>. QED
    BY <2>1, <2>2, AtMember, Zenon DEF TrailingObject
<1>4. CASE at = "after"
  <2>1. PICK a : Reaches(Standing("after", x, n - 1, stack[n].kind, a), d, ps[q], o)
    BY <1>1, <1>4
  <2>2. \/ At(d.tokens, x) = CloserOf(stack[n].kind)
        \/ /\ CommaAt(d, x) /\ stack[n].kind = "array"
           /\ TrailingClose(d.tokens, x + 1, o, "]")
    BY <1>4
  <2>. QED
    BY <2>1, <2>2, AtAfter, Zenon DEF CommaAt
<1>. QED
  BY <1>2, <1>3, <1>4

-----------------------------------------------------------------------------
(* The walk of each pointer, as the batch goes on.                         *)

(* While the batch walks, it is in between the steps of every walk.        *)
InBetween ==
    /\ pc # "done" => Bracketed(doc.tokens, frames, i)
    /\ pc = "first" => i = Top.at + 1
    /\ pc = "done" => queries = {}
    /\ \A q \in Ids : Tracked(q, doc, ptrs, opts, pc, i, frames, queries, results)

(* Once the signal is on its way out only the answers count: what every    *)
(* walk that has one is at.                                                *)
Matched == \A q \in Ids : AtMatch(q, doc, ptrs, opts, results)

(* The walk of each pointer has returned what the batch has for it.        *)
Agreed ==
    /\ ptrs \in Seq(Seq(RawTokens))
    /\ \A q \in Ids : Reaches(Returned("ok", results[q]), doc, ptrs[q], opts)

Walked ==
    /\ outcome = "walking" /\ pc # "unwind" => InBetween
    /\ outcome = "walking" /\ pc = "unwind" => Matched
    /\ outcome = "ok" => Agreed

(* What the steps need of BInv.                                            *)
LEMMA WalkingFacts ==
    ASSUME BInv, outcome = "walking"
    PROVE  /\ doc.tokens \in Seq(Token) /\ i \in Nat \ {0}
           /\ Len(frames) \in Nat /\ Level = Len(frames) /\ frames \in Seq(Frame)
           /\ ptrs \in Seq(Seq(RawTokens))
           /\ \A q \in Ids : Len(ptrs[q]) \in Nat
           /\ \A k \in 1 .. Len(frames) : \A q \in frames[k].live :
                 /\ q \in Ids
                 /\ k <= Len(ptrs[q]) /\ Index[ptrs[q][k]] \in Nat \cup {NoIndex}
<1>. USE DEF BInv
<1>1. /\ doc.tokens \in Seq(Token) /\ i \in Nat \ {0}
      /\ Len(frames) \in Nat /\ Level = Len(frames) /\ frames \in Seq(Frame)
      /\ ptrs \in Seq(Seq(RawTokens))
  BY LenProperties DEF TypeOK, Level, Places
<1>2. \A q \in Ids : ptrs[q] \in Seq(RawTokens)
  BY <1>1, ElementOfSeq, LenProperties DEF Ids
<1>3. \A q \in Ids : Len(ptrs[q]) \in Nat
  BY <1>2, LenProperties
<1>4. ASSUME NEW k \in 1 .. Len(frames), NEW q \in frames[k].live
      PROVE  q \in Ids /\ k <= Len(ptrs[q]) /\ Index[ptrs[q][k]] \in Nat \cup {NoIndex}
  <2>1. frames[k] \in Frame
    BY <1>1, ElementOfSeq
  <2>2. q \in Ids
    BY <2>1 DEF Frame
  <2>3. Len(ptrs[q]) > k - 1
    BY <1>1 DEF Nested, Deeper
  <2>4. k \in 1 .. Len(ptrs[q])
    BY <1>1, <1>3, <2>2, <2>3
  <2>5. ptrs[q][k] \in RawTokens
    BY <1>2, <2>2, <2>4, ElementOfSeq
  <2>. QED
    BY <2>2, <2>4, <2>5, IndexAssumption
<1>. QED
  BY <1>1, <1>3, <1>4

(* A walk begins at the root value.                                        *)
LEMMA WalkBegins ==
    ASSUME NEW d, NEW p, NEW o
    PROVE  /\ Reaches(Standing(Aim(p, 0), 1, 0, "array", 0), d, p, o)
           /\ Stood(Aim(p, 0), 1, 0, d, p, o)
<1>1. PICK s : s = Standing(Aim(p, 0), 1, 0, "array", 0)
  OBVIOUS
<1>2. PICK run : run = [n \in {0} |-> s]
  OBVIOUS
<1>3. run[0] = s
  BY <1>2
<1>4. IsWalk(run, 0, d, p, o)
  <2>1. 0 .. 0 - 1 = {}
    OBVIOUS
  <2>. QED
    BY <1>1, <1>3, <2>1 DEF IsWalk
<1>5. Reaches(s, d, p, o)
  BY <1>3, <1>4 DEF Reaches
<1>. QED
  BY <1>1, <1>5, Zenon DEF Stood

(* The first step stands every walk at the root.                           *)
LEMMA StartWalks ==
    ASSUME Start
    PROVE  Walked'
<1>1. /\ doc' \in Docs /\ ptrs' \in Batches
      /\ i' = 1 /\ frames' = <<>> /\ queries' = DOMAIN ptrs'
      /\ results' = [q \in DOMAIN ptrs' |-> NoMatch]
  BY DEF Start
<1>2. \/ outcome' = "invalid_pointer"
      \/ /\ outcome' = "walking" /\ pc' = "value"
         /\ \A q \in DOMAIN ptrs' : ptrs'[q] # Malformed
  BY DEF Start
<1>. SUFFICES ASSUME outcome' = "walking" PROVE InBetween'
  BY <1>2 DEF Walked
<1>3. Len(doc'.tokens) \in Nat
  BY <1>1, DocsAssumption, LenProperties
<1>4. Len(frames') = 0
  BY <1>1
<1>5. Bracketed(doc'.tokens, frames', i')
  BY <1>1, <1>3, <1>4 DEF Bracketed
<1>6. BInv'
  BY StartKeeps
<1>7. \A q \in DOMAIN ptrs' : Len(ptrs'[q]) \in Nat
  <2>1. ptrs' \in Seq(Seq(RawTokens)) /\ DOMAIN ptrs' = 1 .. Len(ptrs')
    BY <1>6, LenProperties DEF BInv, Places
  <2>. QED
    BY <2>1, ElementOfSeq, LenProperties
<1>8. ASSUME NEW q \in DOMAIN ptrs'
      PROVE  Tracked(q, doc', ptrs', opts', pc', i', frames', queries', results')
  <2>1. Stood(Aim(ptrs'[q], 0), 1, 0, doc', ptrs'[q], opts')
    BY WalkBegins
  <2>2. 0 <= Len(ptrs'[q])
    BY <1>7, <1>8
  <2>3. AskedFor(q, doc', ptrs', opts', i', frames', queries')
    BY <1>1, <1>4, <2>1, <2>2, Zenon DEF AskedFor
  <2>4. 1 .. Len(frames') = {}
    BY <1>4
  <2>5. AtContainer(q, doc', ptrs', opts', frames') /\ InContainer(q, doc', ptrs', opts', pc', i', frames')
    BY <2>4 DEF AtContainer, InContainer
  <2>6. results'[q] = NoMatch
    BY <1>1, <1>8
  <2>7. AtMatch(q, doc', ptrs', opts', results') /\ q \in queries'
    BY <1>1, <1>8, <2>6, Zenon DEF AtMatch
  <2>. QED
    BY <2>3, <2>5, <2>7, Zenon DEF Tracked, OrOver
<1>. QED
  BY <1>2, <1>5, <1>8, Zenon DEF InBetween, Ids

(* An error is no answer.                                                  *)
LEMMA FailWalks ==
    ASSUME NEW error \in ParseErrors, NEW at, Fail(error, at)
    PROVE  Walked'
BY DEF Fail, ParseErrors, Walked

(* A value is behind, and the queries for it have their answer.            *)
LEMMA SettleWalks ==
    ASSUME BInv, BInv', outcome = "walking", NEW stack, NEW qs, Len(stack) \in Nat,
           NEW from \in Nat \ {0}, NEW to \in Nat \ {0},
           Settle(stack, qs, from, to),
           to = ValueEnd(doc.tokens, from), ValueFault(doc.tokens, from, opts) = "none",
           Bracketed(doc.tokens, stack, to + 1),
           stack # <<>> <=> Len(stack) > 0,
           \A q \in Ids : Tracked(q, doc, ptrs, opts, "value", from, stack, Ending(qs, Len(stack)), results)
    PROVE  Walked'
<1>. DEFINE here == Ending(qs, Len(stack))
            left == remaining - Cardinality(here)
<1>1. /\ doc' = doc /\ ptrs' = ptrs /\ opts' = opts /\ outcome' = "walking"
      /\ results' = [q \in Ids |-> IF q \in here THEN <<from, to>> ELSE results[q]]
      /\ remaining' = left /\ queries' = {} /\ i' = to + 1
      /\ frames' = stack
      /\ pc' = IF stack = <<>> THEN "done" ELSE IF left = 0 THEN "unwind" ELSE "after"
      /\ Ids' = Ids
  BY DEF Settle, inputs, Ids
<1>2. \A q \in here : Len(ptrs[q]) = Len(stack)
  BY DEF Ending
<1>3. PICK at2 : at2 = IF stack = <<>> THEN "done" ELSE "after"
  OBVIOUS
<1>. HIDE DEF here, left
<1>4. ASSUME NEW q \in Ids
      PROVE  Tracked(q, doc, ptrs, opts, at2, to + 1, stack, {}, results')
  <2>1. Tracked(q, doc, ptrs, opts, "value", from, stack, here, results)
    BY <1>4 DEF here
  <2>2. results'[q] = IF q \in here THEN <<from, to>> ELSE results[q]
    BY <1>1, <1>4
  <2>3. Len(stack) > 0 => at2 = "after"
    BY <1>3
  <2>4. q \in here => Len(ptrs[q]) = Len(stack)
    BY <1>2
  <2>. QED
    BY <2>1, <2>2, <2>3, <2>4, TrackedSettled
<1>5. CASE pc' = at2
  <2>1. frames' = stack /\ pc' # "first" /\ pc' # "unwind"
    BY <1>1, <1>3, <1>5
  <2>2. \A q \in Ids : Tracked(q, doc', ptrs', opts', pc', i', frames', queries', results')
    BY <1>1, <1>4, <1>5, <2>1, Zenon
  <2>3. Bracketed(doc'.tokens, frames', i')
    BY <1>1, <2>1, Zenon
  <2>. QED
    BY <1>1, <2>1, <2>2, <2>3, Zenon DEF Walked, InBetween
<1>6. CASE pc' = "unwind"
  <2>1. \A q \in Ids : AtMatch(q, doc, ptrs, opts, results')
    BY <1>4, Zenon DEF Tracked
  <2>. QED
    BY <1>1, <1>6, <2>1, Zenon DEF Walked, Matched
<1>7. pc' = at2 \/ pc' = "unwind"
  BY <1>1, <1>3
<1>. QED
  BY <1>5, <1>6, <1>7

(* A walk left by the signal, and at the last of them every query at its   *)
(* match: none is waited for.                                              *)
LEMMA UnwindWalks ==
    ASSUME BInv, Walked, Unwind
    PROVE  Walked'
<1>1. /\ doc' = doc /\ ptrs' = ptrs /\ opts' = opts /\ results' = results
      /\ i' = i /\ queries' = queries /\ outcome' = "walking" /\ Ids' = Ids
      /\ frames' = Outer /\ pc = "unwind" /\ outcome = "walking"
      /\ pc' = IF Outer = <<>> THEN "done" ELSE "unwind"
  BY DEF Unwind, Walking, inputs, answers, Ids
<1>2. queries = {} /\ \A q \in Ids : results[q] # NoMatch
  BY <1>1, AllAnswered DEF BInv, Places
<1>3. \A q \in Ids : AtMatch(q, doc, ptrs, opts, results)
  BY <1>1, Zenon DEF Walked, Matched
<1>4. CASE pc' = "unwind"
  BY <1>1, <1>3, <1>4, Zenon DEF Walked, Matched
<1>5. CASE pc' = "done"
  <2>1. frames' = <<>> /\ Len(frames') = 0
    BY <1>1, <1>5, EmptySeq
  <2>2. ASSUME NEW q \in Ids
        PROVE  Tracked(q, doc', ptrs', opts', pc', i', frames', queries', results')
    <3>1. AtMatch(q, doc, ptrs, opts, results) /\ results[q] # NoMatch
      BY <1>2, <1>3, <2>2, Zenon
    <3>2. Tracked(q, doc, ptrs, opts, pc', i', frames', {}, results)
      BY <2>1, <3>1, TrackedUnwound
    <3>. QED
      BY <1>1, <1>2, <3>2, Zenon
  <2>3. pc' # "first" /\ pc' # "unwind" /\ queries' = {}
    BY <1>1, <1>2, <1>5
  <2>. QED
    BY <1>1, <1>5, <2>2, <2>3, Zenon DEF Walked, InBetween
<1>. QED
  BY <1>1, <1>4, <1>5

(* The walks that go into a container do so with the batch.                *)
LEMMA WalkIntoWalks ==
    ASSUME BInv, Walked, WalkInto
    PROVE  Walked'
<1>. DEFINE frame == [kind |-> KindOf(Tok), at |-> i, queries |-> queries,
                      live |-> Deeper(queries, Level), element |-> 0]
<1>1. /\ UNCHANGED <<doc, ptrs, opts, results, outcome>>
      /\ outcome = "walking" /\ pc = "value" /\ pc' = "first"
      /\ frames' = Append(frames, frame) /\ i' = i + 1 /\ queries' = {}
      /\ Tok \in Openers /\ Ids' = Ids
  BY DEF WalkInto, Walking, Descends, inputs, answers, Ids
<1>2. InBetween
  BY <1>1 DEF Walked
<1>3. /\ doc.tokens \in Seq(Token) /\ Len(frames) \in Nat /\ Level = Len(frames)
      /\ frames \in Seq(Frame) /\ \A q \in Ids : Len(ptrs[q]) \in Nat
  BY <1>1, WalkingFacts
<1>4. /\ Len(frames') = Len(frames) + 1
      /\ \A k \in 1 .. Len(frames) : frames'[k] = frames[k]
      /\ frames'[Len(frames) + 1] = frame
  <2>. HIDE DEF frame
  <2>1. frames \in Seq({frames[k] : k \in 1 .. Len(frames)} \cup {frame})
    BY <1>3, LenProperties, SeqDef
  <2>. QED
    BY <1>1, <2>1, AppendProperties
<1>5. /\ frame.kind = KindOf(At(doc.tokens, i)) /\ frame.at = i /\ frame.queries = queries
      /\ frame.live = Deeper(queries, Len(frames))
  BY <1>3 DEF Tok
<1>. HIDE DEF frame
<1>6. Bracketed(doc.tokens, frames', i + 1)
  <2>1. Bracketed(doc.tokens, frames, i)
    BY <1>1, <1>2 DEF InBetween
  <2>2. At(doc.tokens, i) \in Openers
    BY <1>1 DEF Tok
  <2>. QED
    BY <1>3, <1>4, <1>5, <2>1, <2>2, BracketsOpen
<1>7. i' = Top'.at + 1
  <2>1. Top' = frame
    BY <1>4 DEF Top
  <2>. QED
    BY <1>1, <1>5, <2>1
<1>8. queries \subseteq Ids
  BY DEF BInv, TypeOK
<1>9. ASSUME NEW q \in Ids
      PROVE  Tracked(q, doc, ptrs, opts, "first", i + 1, frames', {}, results)
  <2>1. Tracked(q, doc, ptrs, opts, "value", i, frames, queries, results)
    BY <1>1, <1>2, <1>9, Zenon DEF InBetween
  <2>2. /\ frames'[Len(frames) + 1].at = i /\ frames'[Len(frames) + 1].queries = queries
        /\ q \in frames'[Len(frames) + 1].live <=> q \in queries /\ Len(ptrs[q]) > Len(frames)
    BY <1>4, <1>5 DEF Deeper
  <2>3. q \in queries => Len(ptrs[q]) \in Nat
    BY <1>3, <1>9
  <2>. QED
    BY <1>3, <1>4, <2>1, <2>2, <2>3, TrackedInto
<1>10. InBetween'
  <2>1. Bracketed(doc'.tokens, frames', i')
    BY <1>1, <1>6, Zenon
  <2>2. \A q \in Ids : Tracked(q, doc', ptrs', opts', pc', i', frames', queries', results')
    BY <1>1, <1>9, Zenon
  <2>3. pc' # "done"
    BY <1>1
  <2>. QED
    BY <1>1, <1>7, <2>1, <2>2, <2>3, Zenon DEF InBetween
<1>. QED
  BY <1>1, <1>10 DEF Walked

(* A value stepped over is stepped over by every walk that is there.       *)
LEMMA StepOverWalks ==
    ASSUME BInv, BInv', Walked, StepOver
    PROVE  Walked'
<1>. DEFINE fault == ValueFault(Tape, i, opts)
            here == Ending(queries, Level)
<1>1. outcome = "walking" /\ pc = "value" /\ ~ Descends
  BY DEF StepOver, Walking
<1>2. InBetween
  BY <1>1 DEF Walked
<1>3. /\ doc.tokens \in Seq(Token) /\ i \in Nat \ {0} /\ Len(frames) \in Nat /\ Level = Len(frames)
      /\ frames \in Seq(Frame) /\ \A q \in Ids : Len(ptrs[q]) \in Nat
  BY <1>1, WalkingFacts
<1>4. CASE fault = "none"
  <2>1. PICK to : to = ValueEnd(Tape, i)
    OBVIOUS
  <2>2. Settle(frames, queries, i, to)
    BY <1>4, <2>1 DEF StepOver
  <2>3. /\ ValueFault(doc.tokens, i, opts) = "none" /\ to = ValueEnd(doc.tokens, i)
        /\ Tok = At(doc.tokens, i)
    BY <1>4, <2>1 DEF Tape, Tok
  <2>4. /\ to \in i .. Len(doc.tokens)
        /\ At(doc.tokens, i) # "end"
        /\ Depth(doc.tokens, i, to) = 0
        /\ \A y \in i .. to : Depth(doc.tokens, i, y) >= 0
    BY <1>3, <2>3, SteppedOver
  <2>5. to \in Nat \ {0}
    BY <1>3, <2>4
  <2>6. Bracketed(doc.tokens, frames, to + 1)
    <3>1. Bracketed(doc.tokens, frames, i)
      BY <1>1, <1>2 DEF InBetween
    <3>. QED
      BY <1>3, <2>4, <3>1, BracketsOver
  <2>7. ASSUME NEW q \in Ids
        PROVE  Tracked(q, doc, ptrs, opts, "value", i, frames, here, results)
    <3>1. Tracked(q, doc, ptrs, opts, "value", i, frames, queries, results)
      BY <1>1, <1>2, <2>7, Zenon DEF InBetween
    <3>2. q \in here <=> q \in queries /\ Len(ptrs[q]) = Len(frames)
      BY <1>3 DEF Ending
    <3>3. q \in queries /\ Len(ptrs[q]) > Len(frames) =>
              At(doc.tokens, i) \notin Openers \cup {"end"}
      <4>. SUFFICES ASSUME q \in queries, Len(ptrs[q]) > Len(frames)
                    PROVE  At(doc.tokens, i) \notin Openers \cup {"end"}
        OBVIOUS
      <4>1. q \in Deeper(queries, Level)
        BY <1>3 DEF Deeper
      <4>. QED
        BY <1>1, <2>3, <2>4, <4>1 DEF Descends
    <3>4. q \in queries => Len(ptrs[q]) \in Nat
      BY <1>3, <2>7
    <3>. HIDE DEF here
    <3>. QED
      BY <1>3, <3>1, <3>2, <3>3, <3>4, TrackedOver
  <2>8. frames # <<>> <=> Len(frames) > 0
    BY <1>3, EmptySeq
  <2>9. \A q \in Ids : Tracked(q, doc, ptrs, opts, "value", i, frames, Ending(queries, Len(frames)), results)
    BY <1>3, <2>7, Zenon
  <2>. QED
    BY <1>1, <1>3, <2>2, <2>3, <2>5, <2>6, <2>8, <2>9, SettleWalks
<1>5. CASE fault # "none"
  <2>1. Fail(fault, FaultAt(Tape, i, fault))
    BY <1>5 DEF StepOver
  <2>2. fault \in ParseErrors
    BY <1>5, ValueFaultTyped
  <2>. HIDE DEF fault
  <2>. QED
    BY <2>1, <2>2, FailWalks
<1>. QED
  BY <1>4, <1>5

-----------------------------------------------------------------------------
(* What the steps inside a container need.                                 *)
LEMMA InsideFacts ==
    ASSUME BInv, Walked, pc \in {"first", "member", "after"}
    PROVE  /\ outcome = "walking" /\ queries = {} /\ Level = Len(frames) /\ Level \in Nat \ {0}
           /\ Top = frames[Level] /\ Top \in Frame /\ Top.kind \in Kinds
           /\ Top.at \in Nat \ {0} /\ Top.element \in Nat
           /\ Bracketed(doc.tokens, frames, i)
           /\ pc = "first" => i = Top.at + 1
           /\ At(doc.tokens, Top.at) \in Openers /\ KindOf(At(doc.tokens, Top.at)) = Top.kind
           /\ \A q \in Ids : Tracked(q, doc, ptrs, opts, pc, i, frames, {}, results)
<1>1. outcome = "walking" /\ queries = {} /\ Level > 0
  BY DEF BInv, Places
<1>2. InBetween
  BY <1>1 DEF Walked
<1>3. /\ Level \in Nat \ {0} /\ Top \in Frame /\ Level = Len(frames) /\ Top = frames[Level]
  BY <1>1, OuterFacts DEF BInv, Level, Top
<1>4. Top.kind \in Kinds /\ Top.at \in Nat \ {0} /\ Top.element \in Nat
  BY <1>3 DEF Frame
<1>5. Bracketed(doc.tokens, frames, i) /\ (pc = "first" => i = Top.at + 1)
  BY <1>2 DEF InBetween
<1>6. At(doc.tokens, Top.at) \in Openers /\ KindOf(At(doc.tokens, Top.at)) = Top.kind
  <2>1. Len(doc.tokens) \in Nat
    BY LenProperties DEF BInv, TypeOK
  <2>2. Level \in 1 .. Len(frames)
    BY <1>3
  <2>3. /\ i \in 1 .. Len(doc.tokens) + 1
        /\ Top.at \in 1 .. i - 1
        /\ doc.tokens[Top.at] \in Openers /\ KindOf(doc.tokens[Top.at]) = Top.kind
    BY <1>3, <1>5, <2>2, Zenon DEF Bracketed
  <2>4. At(doc.tokens, Top.at) = doc.tokens[Top.at]
    BY <2>1, <2>3 DEF At
  <2>. QED
    BY <2>3, <2>4
<1>7. \A q \in Ids : Tracked(q, doc, ptrs, opts, pc, i, frames, {}, results)
  BY <1>1, <1>2, Zenon DEF InBetween
<1>. QED
  BY <1>1, <1>3, <1>4, <1>5, <1>6, <1>7

(* The end of a container, by its closer at `to`.                          *)
LEMMA EndContainerWalks ==
    ASSUME BInv, BInv', Walked, pc \in {"first", "member", "after"},
           NEW to \in Nat \ {0}, Bracketed(doc.tokens, frames, to), At(doc.tokens, to) \in Closers,
           pc = "first" => At(doc.tokens, i) = CloserOf(Top.kind),
           pc = "member" => TrailingObject(doc, i, opts),
           pc = "after" => \/ At(doc.tokens, i) = CloserOf(Top.kind)
                           \/ /\ CommaAt(doc, i) /\ Top.kind = "array"
                              /\ TrailingClose(doc.tokens, i + 1, opts, "]"),
           EndContainer(to)
    PROVE  Walked'
<1>1. /\ outcome = "walking" /\ queries = {} /\ Level = Len(frames) /\ Level \in Nat \ {0}
      /\ Top = frames[Level] /\ Top.kind \in Kinds
      /\ Top.at \in Nat \ {0}
      /\ pc = "first" => i = Top.at + 1
      /\ At(doc.tokens, Top.at) \in Openers /\ KindOf(At(doc.tokens, Top.at)) = Top.kind
      /\ \A q \in Ids : Tracked(q, doc, ptrs, opts, pc, i, frames, {}, results)
  BY InsideFacts
<1>2. Len(Outer) = Level - 1 /\ \A k \in 1 .. Level - 1 : Outer[k] = frames[k]
  BY <1>1, OuterFacts DEF BInv
<1>3. doc.tokens \in Seq(Token)
  BY DEF BInv, TypeOK
<1>4. /\ ValueEnd(doc.tokens, Top.at) = to
      /\ ValueFault(doc.tokens, Top.at, opts) = "none"
      /\ Bracketed(doc.tokens, Outer, to + 1)
  <2>1. Len(frames) \in Nat \ {0} /\ Len(Outer) = Len(frames) - 1
        /\ \A k \in 1 .. Len(frames) - 1 : Outer[k] = frames[k]
    BY <1>1, <1>2
  <2>2. Top = frames[Len(frames)]
    BY <1>1
  <2>. HIDE DEF Top
  <2>. QED
    BY <1>3, <2>1, <2>2, BracketsClose
<1>5. ASSUME NEW q \in Ids
      PROVE  Tracked(q, doc, ptrs, opts, "value", Top.at, Outer, Ending(Top.queries, Len(Outer)), results)
  <2>1. Tracked(q, doc, ptrs, opts, pc, i, frames, {}, results)
    BY <1>1, <1>5
  <2>2. Awaits(frames, pc, Level, q, ptrs) => Reaches(Missed, doc, ptrs[q], opts)
    BY <1>1, <2>1, MissAtEnd
  <2>3. q \in Ending(Top.queries, Len(Outer)) <=> q \in frames[Level].queries /\ Len(ptrs[q]) = Level - 1
    BY <1>1, <1>2 DEF Ending
  <2>4. pc # "value"
    OBVIOUS
  <2>5. Tracked(q, doc, ptrs, opts, "value", frames[Level].at, Outer, Ending(Top.queries, Len(Outer)), results)
    BY <1>1, <1>2, <2>1, <2>2, <2>3, <2>4, TrackedClosed
  <2>. QED
    BY <1>1, <2>5, Zenon
<1>6. Settle(Outer, Top.queries, Top.at, to)
  BY DEF EndContainer
<1>7. Outer # <<>> <=> Len(Outer) > 0
  <2>1. Outer \in Seq(Frame)
    BY <1>1, OuterFacts DEF BInv
  <2>. QED
    BY <2>1, EmptySeq
<1>8. Len(Outer) \in Nat
  BY <1>1, <1>2
<1>. QED
  BY <1>1, <1>4, <1>5, <1>6, <1>7, <1>8, SettleWalks

(* A member visited: every walk that waits for it goes to it, and the rest *)
(* step over it.                                                           *)
LEMMA VisitWalks ==
    ASSUME BInv, Walked, pc \in {"first", "member", "after"},
           NEW at, Bracketed(doc.tokens, frames, at),
           NEW wanted, NEW live, NEW element \in Nat, live \subseteq Top.live,
           Visit(at, wanted, live, element),
           \A q \in Ids : Tracked(q, doc, ptrs, opts, "value", at, frames', wanted, results)
    PROVE  Walked'
<1>1. /\ Level = Len(frames) /\ Level \in Nat \ {0} /\ Top = frames[Level]
      /\ Top \in Frame /\ outcome = "walking"
  BY InsideFacts
<1>2. /\ UNCHANGED <<doc, ptrs, opts, results, outcome>>
      /\ queries' = wanted /\ i' = at /\ pc' = "value" /\ Ids' = Ids
  BY DEF Visit, inputs, answers, Ids
<1>3. /\ Level' = Level /\ \A k \in 1 .. Level - 1 : frames'[k] = frames[k]
      /\ frames'[Level].at = Top.at /\ frames'[Level].kind = Top.kind
  <2>1. Level > 0
    BY <1>1
  <2>. QED
    BY <2>1, VisitedFrames
<1>4. Bracketed(doc.tokens, frames', at)
  <2>1. Len(frames') = Len(frames)
    BY <1>1, <1>3 DEF Level
  <2>2. \A k \in 1 .. Len(frames) : frames'[k].at = frames[k].at /\ frames'[k].kind = frames[k].kind
    BY <1>1, <1>3
  <2>. QED
    BY <2>1, <2>2, SameBrackets
<1>5. InBetween'
  <2>1. Bracketed(doc'.tokens, frames', i')
    BY <1>2, <1>4, Zenon
  <2>2. \A q \in Ids : Tracked(q, doc', ptrs', opts', pc', i', frames', queries', results')
    BY <1>2, Zenon
  <2>3. pc' # "done" /\ pc' # "first"
    BY <1>2
  <2>. QED
    BY <1>2, <2>1, <2>2, <2>3, Zenon DEF InBetween
<1>. QED
  BY <1>1, <1>2, <1>5 DEF Walked

(* In an object.                                                           *)
LEMMA MemberWalks ==
    ASSUME BInv, Walked, pc \in {"first", "member"}, Top.kind = "object",
           Tok \in KeyText, At(Tape, i + 1) = ":", Member
    PROVE  Walked'
<1>. DEFINE wanted == {q \in Top.live : KeyIs(Tape, doc.names, i, TokenAt(q, Level))}
<1>1. /\ outcome = "walking" /\ Level = Len(frames) /\ Level \in Nat \ {0} /\ Level > 0
      /\ Top = frames[Level] /\ Top.kind \in Kinds
      /\ Bracketed(doc.tokens, frames, i)
      /\ pc = "first" => i = Top.at + 1
      /\ At(doc.tokens, Top.at) \in Openers /\ KindOf(At(doc.tokens, Top.at)) = Top.kind
      /\ \A q \in Ids : Tracked(q, doc, ptrs, opts, pc, i, frames, {}, results)
  BY InsideFacts
<1>2. /\ doc.tokens \in Seq(Token) /\ Len(frames) \in Nat /\ i \in Nat \ {0}
      /\ \A k \in 1 .. Len(frames) : \A q \in frames[k].live :
            /\ q \in Ids
            /\ k <= Len(ptrs[q]) /\ Index[ptrs[q][k]] \in Nat \cup {NoIndex}
  BY <1>1, WalkingFacts
<1>3. Visit(i + 2, wanted, Top.live \ wanted, 0)
  BY DEF Member
<1>4. At(doc.tokens, i) \in KeyText /\ At(doc.tokens, i + 1) = ":"
  BY DEF Tape, Tok
<1>5. ObjectAt(doc, Top.at)
  BY <1>1, Zenon DEF ObjectAt, Openers, KindOf
<1>6. /\ \A q : q \in wanted <=> /\ q \in Top.live
                                 /\ KeyIs(doc.tokens, doc.names, i, ptrs[q][Level])
  BY DEF Tape, TokenAt
<1>. HIDE DEF wanted
<1>7. /\ Level' = Level /\ \A k \in 1 .. Level - 1 : frames'[k] = frames[k]
      /\ frames'[Level].live = Top.live \ wanted
      /\ frames'[Level].kind = Top.kind /\ frames'[Level].queries = Top.queries
      /\ frames'[Level].at = Top.at
  BY <1>1, <1>3, VisitedFrames
<1>8. Len(frames') = Level
  BY <1>7 DEF Level
<1>9. ASSUME NEW q \in Ids
      PROVE  Tracked(q, doc, ptrs, opts, "value", i + 2, frames', wanted, results)
  <2>1. Tracked(q, doc, ptrs, opts, pc, i, frames, {}, results)
    BY <1>1, <1>9
  <2>2. q \in frames[Level].live => Level <= Len(ptrs[q])
    BY <1>1, <1>2
  <2>3. /\ q \in wanted <=> q \in frames[Level].live /\ KeyIs(doc.tokens, doc.names, i, ptrs[q][Level])
        /\ q \in frames'[Level].live <=> q \in frames[Level].live /\ q \notin wanted
    BY <1>1, <1>6, <1>7
  <2>. QED
    BY <1>1, <1>4, <1>5, <1>7, <1>8, <2>1, <2>2, <2>3, TrackedMember
<1>10. Bracketed(doc.tokens, frames, i + 2)
  <2>1. At(doc.tokens, i) # "end" /\ At(doc.tokens, i) \notin Openers \cup Closers
    BY <1>4, Zenon DEF KeyText, Openers, Closers
  <2>2. Bracketed(doc.tokens, frames, i + 1)
    BY <1>1, <1>2, <2>1, BracketsPast
  <2>3. At(doc.tokens, i + 1) # "end" /\ At(doc.tokens, i + 1) \notin Openers \cup Closers
    BY <1>4, Zenon DEF Openers, Closers
  <2>4. Bracketed(doc.tokens, frames, (i + 1) + 1)
    BY <1>2, <2>2, <2>3, BracketsPast
  <2>. QED
    BY <1>2, <2>4
<1>. QED
  BY <1>3, <1>9, <1>10, VisitWalks

(* The key of a member, in an object.                                      *)
LEMMA ObjectMemberWalks ==
    ASSUME BInv, BInv', Walked, ObjectMember
    PROVE  Walked'
<1>1. pc \in {"first", "member"} /\ Top.kind = "object"
  BY DEF ObjectMember, Walking, Inside
<1>2. Bracketed(doc.tokens, frames, i) /\ i \in Nat \ {0}
  BY <1>1, InsideFacts DEF BInv, TypeOK
<1>3. ASSUME At(doc.tokens, i) = "}", pc = "member" => TrailingObject(doc, i, opts), EndContainer(i)
      PROVE  Walked'
  <2>1. At(doc.tokens, i) \in Closers
    BY <1>3, Zenon DEF Closers
  <2>2. At(doc.tokens, i) = CloserOf(Top.kind)
    BY <1>1, <1>3, Zenon DEF CloserOf
  <2>3. pc # "after"
    BY <1>1
  <2>4. EndContainer(i) /\ (pc = "member" => TrailingObject(doc, i, opts))
    BY <1>3, Zenon
  <2>. HIDE <1>3
  <2>. QED
    BY <1>1, <1>2, <2>1, <2>2, <2>3, <2>4, EndContainerWalks
<1>4. ASSUME NEW error \in {"expected", "scalar_error"}, NEW at, Fail(error, at) PROVE Walked'
  <2>1. error \in ParseErrors
    BY DEF ParseErrors
  <2>. QED
    BY <1>4, <2>1, FailWalks
<1>5. ASSUME Tok \in KeyText, At(Tape, i + 1) = ":", Member PROVE Walked'
  BY <1>1, <1>5, MemberWalks
<1>6. \/ pc = "first" /\ Tok = "}" /\ EndContainer(i)
      \/ pc = "member" /\ TrailingClose(Tape, i, opts, "}") /\ EndContainer(i)
      \/ \E error \in {"expected", "scalar_error"} : \E at \in {i, i + 1} : Fail(error, at)
      \/ Tok \in KeyText /\ At(Tape, i + 1) = ":" /\ Member
  BY Zenon DEF ObjectMember
<1>7. CASE pc = "first" /\ Tok = "}" /\ EndContainer(i)
  BY <1>3, <1>7, Zenon DEF Tok
<1>8. CASE pc = "member" /\ TrailingClose(Tape, i, opts, "}") /\ EndContainer(i)
  BY <1>3, <1>8, Zenon DEF Tape, TrailingClose, TrailingObject
<1>. QED
  BY <1>4, <1>5, <1>6, <1>7, <1>8, Zenon

(* In an array.                                                            *)
LEMMA ArrayFirstWalks ==
    ASSUME BInv, BInv', Walked, ArrayFirst
    PROVE  Walked'
<1>1. pc = "first" /\ Top.kind = "array" /\ pc \in {"first", "member", "after"}
  BY DEF ArrayFirst, Walking, Inside
<1>2. /\ outcome = "walking" /\ Level = Len(frames) /\ Level \in Nat \ {0} /\ Level > 0
      /\ Top = frames[Level]
      /\ Bracketed(doc.tokens, frames, i)
      /\ i = Top.at + 1
      /\ At(doc.tokens, Top.at) \in Openers /\ KindOf(At(doc.tokens, Top.at)) = Top.kind
      /\ \A q \in Ids : Tracked(q, doc, ptrs, opts, pc, i, frames, {}, results)
  BY <1>1, InsideFacts
<1>3. /\ i \in Nat \ {0}
      /\ \A k \in 1 .. Len(frames) : \A q \in frames[k].live :
            /\ q \in Ids
            /\ k <= Len(ptrs[q]) /\ Index[ptrs[q][k]] \in Nat \cup {NoIndex}
  BY <1>2, WalkingFacts
<1>4. CASE Tok = "]" /\ EndContainer(i)
  <2>1. At(doc.tokens, i) \in Closers /\ At(doc.tokens, i) = CloserOf(Top.kind)
    BY <1>1, <1>4, Zenon DEF Closers, CloserOf, Tok
  <2>2. pc # "member" /\ pc # "after"
    BY <1>1
  <2>. QED
    BY <1>1, <1>2, <1>3, <1>4, <2>1, <2>2, EndContainerWalks
<1>5. CASE Tok # "]" /\ Visit(i, Wanted(0), Top.live, 0)
  <2>1. At(doc.tokens, i) # "]"
    BY <1>5 DEF Tok
  <2>2. At(doc.tokens, Top.at) = "["
    BY <1>1, <1>2, Zenon DEF Openers, KindOf
  <2>3. PICK wanted : wanted = Wanted(0)
    OBVIOUS
  <2>4. \A q : q \in wanted <=> q \in Top.live /\ Index[ptrs[q][Level]] = 0
    BY <2>3 DEF Wanted, TokenAt
  <2>5. Visit(i, wanted, Top.live, 0)
    BY <1>5, <2>3
  <2>6. /\ Level' = Level /\ \A k \in 1 .. Level - 1 : frames'[k] = frames[k]
        /\ frames'[Level].live = Top.live /\ frames'[Level].element = 0
        /\ frames'[Level].kind = Top.kind /\ frames'[Level].queries = Top.queries
        /\ frames'[Level].at = Top.at
    BY <1>2, <2>5, VisitedFrames
  <2>7. Len(frames') = Level
    BY <2>6 DEF Level
  <2>8. ASSUME NEW q \in Ids
        PROVE  Tracked(q, doc, ptrs, opts, "value", i, frames', wanted, results)
    <3>1. Tracked(q, doc, ptrs, opts, "first", i, frames, {}, results)
      BY <1>1, <1>2, <2>8, Zenon
    <3>2. q \in frames[Level].live => Level <= Len(ptrs[q]) /\ Index[ptrs[q][Level]] \in Nat \cup {NoIndex}
      BY <1>2, <1>3
    <3>3. q \in wanted <=> q \in frames[Level].live /\ Index[ptrs[q][Level]] = 0
      BY <1>2, <2>4
    <3>4. frames'[Level].live = frames[Level].live /\ frames[Level].kind = "array"
      BY <1>1, <1>2, <2>6
    <3>. QED
      BY <1>2, <2>1, <2>2, <2>6, <2>7, <3>1, <3>2, <3>3, <3>4, TrackedFirst
  <2>. QED
    BY <1>1, <1>2, <2>5, <2>8, VisitWalks
<1>. QED
  BY <1>4, <1>5 DEF ArrayFirst

(* The next element, in an array.                                          *)
LEMMA ArrayNextWalks ==
    ASSUME BInv, Walked, pc = "after", Top.kind = "array", CommaAt(doc, i),
           ~ TrailingClose(doc.tokens, i + 1, opts, "]"), ArrayNext
    PROVE  Walked'
<1>0. pc \in {"first", "member", "after"}
  OBVIOUS
<1>1. /\ outcome = "walking" /\ Level = Len(frames) /\ Level \in Nat \ {0} /\ Level > 0
      /\ Top = frames[Level] /\ Top.element \in Nat
      /\ Bracketed(doc.tokens, frames, i)
      /\ \A q \in Ids : Tracked(q, doc, ptrs, opts, pc, i, frames, {}, results)
  BY <1>0, InsideFacts
<1>2. /\ doc.tokens \in Seq(Token) /\ i \in Nat \ {0} /\ Len(frames) \in Nat
      /\ \A k \in 1 .. Len(frames) : \A q \in frames[k].live :
            /\ q \in Ids
            /\ k <= Len(ptrs[q]) /\ Index[ptrs[q][k]] \in Nat \cup {NoIndex}
  BY <1>1, WalkingFacts
<1>3. PICK next \in Nat : next = Top.element + 1
  BY <1>1
<1>4. PICK wanted : wanted = Wanted(next)
  OBVIOUS
<1>5. \A q : q \in wanted <=> q \in Top.live /\ Index[ptrs[q][Level]] = next
  BY <1>4 DEF Wanted, TokenAt
<1>6. Visit(i + 1, wanted, Top.live, next)
  BY <1>3, <1>4 DEF ArrayNext
<1>7. /\ Level' = Level /\ \A k \in 1 .. Level - 1 : frames'[k] = frames[k]
      /\ frames'[Level].live = Top.live /\ frames'[Level].element = next
      /\ frames'[Level].kind = Top.kind /\ frames'[Level].queries = Top.queries
      /\ frames'[Level].at = Top.at
  BY <1>1, <1>6, VisitedFrames
<1>8. Len(frames') = Level
  BY <1>7 DEF Level
<1>9. ASSUME NEW q \in Ids
      PROVE  Tracked(q, doc, ptrs, opts, "value", i + 1, frames', wanted, results)
  <2>1. Tracked(q, doc, ptrs, opts, "after", i, frames, {}, results)
    BY <1>1, <1>9, Zenon
  <2>2. q \in frames[Level].live => Level <= Len(ptrs[q]) /\ Index[ptrs[q][Level]] \in Nat \cup {NoIndex}
    BY <1>1, <1>2
  <2>3. q \in wanted <=> q \in frames[Level].live /\ Index[ptrs[q][Level]] = next
    BY <1>1, <1>5
  <2>4. /\ frames'[Level].live = frames[Level].live /\ frames[Level].kind = "array"
        /\ frames[Level].element = Top.element
    BY <1>1, <1>3, <1>7
  <2>5. ElementComes(q, doc, ptrs, opts, "after", frames, Level, i + 1, next)
    BY <1>1, <1>3, <2>1, <2>2, <2>4, NextElement
  <2>. QED
    BY <1>1, <1>3, <1>7, <1>8, <2>1, <2>3, <2>4, <2>5, TrackedElement
<1>10. Bracketed(doc.tokens, frames, i + 1)
  <2>1. At(doc.tokens, i) # "end" /\ At(doc.tokens, i) \notin Openers \cup Closers
    BY Zenon DEF CommaAt, Openers, Closers
  <2>. QED
    BY <1>1, <1>2, <2>1, BracketsPast
<1>. QED
  BY <1>0, <1>6, <1>9, <1>10, VisitWalks

(* After a member: the end of the container, a comma, or a fault.          *)
LEMMA AfterWalks ==
    ASSUME BInv, BInv', Walked, After
    PROVE  Walked'
<1>1. pc = "after" /\ pc \in {"first", "member", "after"} /\ pc # "first" /\ pc # "member"
  BY DEF After, Walking
<1>2. /\ outcome = "walking" /\ queries = {} /\ Level = Len(frames) /\ Level \in Nat \ {0}
      /\ Top = frames[Level] /\ Top.kind \in Kinds
      /\ Bracketed(doc.tokens, frames, i)
      /\ \A q \in Ids : Tracked(q, doc, ptrs, opts, pc, i, frames, {}, results)
  BY <1>1, InsideFacts
<1>3. doc.tokens \in Seq(Token) /\ i \in Nat \ {0} /\ Len(frames) \in Nat
  BY <1>2, WalkingFacts
<1>4. ASSUME CommaAt(doc, i) PROVE Bracketed(doc.tokens, frames, i + 1)
  <2>1. At(doc.tokens, i) # "end" /\ At(doc.tokens, i) \notin Openers \cup Closers
    BY <1>4, Zenon DEF CommaAt, Openers, Closers
  <2>. QED
    BY <1>2, <1>3, <2>1, BracketsPast
<1>5. ASSUME At(doc.tokens, i) = CloserOf(Top.kind), EndContainer(i) PROVE Walked'
  <2>1. At(doc.tokens, i) \in Closers
    BY <1>5, Zenon DEF CloserOf, Closers
  <2>. QED
    BY <1>1, <1>2, <1>3, <1>5, <2>1, EndContainerWalks
<1>6. ASSUME CommaAt(doc, i), Top.kind = "array", TrailingClose(doc.tokens, i + 1, opts, "]"),
             EndContainer(i + 1)
      PROVE  Walked'
  <2>1. At(doc.tokens, i + 1) \in Closers
    BY <1>6, Zenon DEF TrailingClose, Closers
  <2>2. i + 1 \in Nat \ {0} /\ Bracketed(doc.tokens, frames, i + 1)
    BY <1>3, <1>4, <1>6
  <2>. QED
    BY <1>1, <1>6, <2>1, <2>2, EndContainerWalks
<1>7. ASSUME CommaAt(doc, i), Top.kind = "object", NextMember PROVE Walked'
  <2>1. /\ UNCHANGED <<doc, ptrs, opts, frames, queries, results, outcome>>
        /\ pc' = "member" /\ i' = i + 1 /\ Ids' = Ids
    BY <1>7 DEF NextMember, inputs, answers, Ids
  <2>2. ASSUME NEW q \in Ids
        PROVE  Tracked(q, doc, ptrs, opts, "member", i + 1, frames, {}, results)
    <3>1. Tracked(q, doc, ptrs, opts, "after", i, frames, {}, results)
      BY <1>1, <1>2, <2>2, Zenon
    <3>2. frames[Level].kind = "object"
      BY <1>2, <1>7
    <3>. QED
      BY <1>2, <1>7, <3>1, <3>2, TrackedComma
  <2>3. \A q \in Ids : Tracked(q, doc', ptrs', opts', pc', i', frames', queries', results')
    BY <1>2, <2>1, <2>2, Zenon
  <2>4. Bracketed(doc'.tokens, frames', i')
    BY <1>4, <1>7, <2>1, Zenon
  <2>5. pc' # "done" /\ pc' # "first" /\ pc' # "unwind" /\ outcome' # "ok"
    BY <1>2, <2>1
  <2>. QED
    BY <2>1, <2>3, <2>4, <2>5, Zenon DEF Walked, InBetween
<1>8. ASSUME NEW error \in {"expected", "unexpected_end"}, Fail(error, i) PROVE Walked'
  <2>1. error \in ParseErrors
    BY DEF ParseErrors
  <2>. QED
    BY <1>8, <2>1, FailWalks
<1>9. ASSUME Top.kind = "array", CommaAt(doc, i),
             ~ TrailingClose(doc.tokens, i + 1, opts, "]"), ArrayNext
      PROVE  Walked'
  BY <1>1, <1>9, ArrayNextWalks
<1>10. \/ At(doc.tokens, i) = CloserOf(Top.kind) /\ EndContainer(i)
       \/ CommaAt(doc, i) /\ Top.kind = "object" /\ NextMember
       \/ /\ CommaAt(doc, i) /\ Top.kind = "array"
          /\ TrailingClose(doc.tokens, i + 1, opts, "]") /\ EndContainer(i + 1)
       \/ /\ CommaAt(doc, i) /\ Top.kind = "array"
          /\ ~ TrailingClose(doc.tokens, i + 1, opts, "]") /\ ArrayNext
       \/ \E error \in {"expected", "unexpected_end"} : Fail(error, i)
  BY Zenon DEF After, Tok, Tape, CommaAt
<1>. QED
  BY <1>5, <1>6, <1>7, <1>8, <1>9, <1>10, Zenon

(* The walk over: a query with a match is at it, and one without missed.   *)
LEMMA FinishWalks ==
    ASSUME BInv, Walked, Finish
    PROVE  Walked'
<1>. DEFINE roots == {q \in Ids : ptrs[q] = <<>> /\ results[q] # NoMatch}
            ends == {results[q][2] : q \in roots}
            last == CHOOSE to \in ends : TRUE
<1>1. outcome = "walking" /\ pc = "done"
  BY DEF Finish, Walking
<1>2. CASE \E to \in ends : to < Len(Tape)
  <2>1. Fail("trailing_characters", 1 + last)
    BY <1>2 DEF Finish
  <2>2. "trailing_characters" \in ParseErrors
    BY DEF ParseErrors
  <2>. HIDE DEF last
  <2>. QED
    BY <2>1, <2>2, FailWalks
<1>3. CASE ~ (\E to \in ends : to < Len(Tape))
  <2>1. /\ UNCHANGED <<doc, ptrs, opts, results>> /\ outcome' = "ok" /\ Ids' = Ids
    BY <1>3 DEF Finish, inputs, answers, Ids
  <2>2. InBetween
    BY <1>1 DEF Walked
  <2>3. Len(frames) = 0 /\ 1 .. Len(frames) = {} /\ queries = {}
    BY <1>1, <2>2 DEF BInv, Places, InBetween
  <2>4. ASSUME NEW q \in Ids
        PROVE  Reaches(Returned("ok", results[q]), doc, ptrs[q], opts)
    <3>1. Tracked(q, doc, ptrs, opts, pc, i, frames, queries, results)
      BY <2>2, <2>4, Zenon DEF InBetween
    <3>2. CASE results[q] = NoMatch
      <4>1. Reaches(Missed, doc, ptrs[q], opts)
        BY <2>3, <3>1, <3>2 DEF Tracked, OrOver
      <4>. QED
        BY <3>2, <4>1, Zenon DEF Missed
    <3>3. CASE results[q] # NoMatch
      <4>1. Answered(results[q], doc, ptrs[q], opts)
        BY <3>1, <3>3, Zenon DEF Tracked, AtMatch
      <4>2. PICK from \in Nat \ {0} :
               /\ results[q] = <<from, ValueEnd(doc.tokens, from)>>
               /\ ValueFault(doc.tokens, from, opts) = "none"
               /\ Stood("target", from, Len(ptrs[q]), doc, ptrs[q], opts)
        BY <4>1, Zenon DEF Answered
      <4>3. ptrs[q] = <<>> => ~ (ValueEnd(doc.tokens, from) < Len(doc.tokens))
        <5>. SUFFICES ASSUME ptrs[q] = <<>> PROVE ~ (ValueEnd(doc.tokens, from) < Len(doc.tokens))
          OBVIOUS
        <5>1. results[q][2] \in ends
          BY <2>4, <3>3
        <5>2. results[q][2] = ValueEnd(doc.tokens, from)
          BY <4>2
        <5>3. ~ (results[q][2] < Len(doc.tokens))
          BY <1>3, <5>1 DEF Tape
        <5>. QED
          BY <5>2, <5>3, Zenon
      <4>4. Reaches(Returned("ok", <<from, ValueEnd(doc.tokens, from)>>), doc, ptrs[q], opts)
        BY <4>2, <4>3, AtTarget
      <4>. QED
        BY <4>2, <4>4, Zenon
    <3>. QED
      BY <3>2, <3>3
  <2>5. ptrs \in Seq(Seq(RawTokens))
    BY <1>1 DEF BInv, Places
  <2>. QED
    BY <2>1, <2>4, <2>5, Zenon DEF Walked, Agreed
<1>. QED
  BY <1>2, <1>3

(* Every step of the batch is in step with the walk of each pointer.       *)
LEMMA StepWalks ==
    ASSUME BInv, Walked, Step
    PROVE  Walked'
<1>1. BInv'
  BY StepKeeps DEF Next
<1>. QED
  BY <1>1, WalkIntoWalks, StepOverWalks, ObjectMemberWalks, ArrayFirstWalks, AfterWalks,
     UnwindWalks, FinishWalks
  DEF Step

(* The batch is handed over, and none is walking.                          *)
LEMMA CollectWalks ==
    ASSUME Collect
    PROVE  Walked'
BY DEF Collect, Walked

-----------------------------------------------------------------------------
(* A pointer alone.                                                        *)

(* What the walk of the batch and of a pointer alone share.                *)
LEMMA SameTokens ==
    /\ \A d, x : S!At(d, x) = At(d, x)
    /\ \A d, x, o, c : S!TrailingClose(d, x, o, c) = TrailingClose(d, x, o, c)
    /\ \A d, x, o : S!ValueFault(d, x, o) = ValueFault(d, x, o)
    /\ \A d, x : S!ValueEnd(d, x) = ValueEnd(d, x)
    /\ \A d, names, x, raw : S!KeyIs(d, names, x, raw) = KeyIs(d, names, x, raw)
    /\ \A c : S!CloserOf(c) = CloserOf(c)
    /\ S!NoMatch = NoMatch /\ S!NoIndex = NoIndex /\ S!Malformed = Malformed
    /\ S!Openers = Openers /\ S!Quoted = Quoted /\ S!KeyText = KeyText
<1>1. \A d, x : S!At(d, x) = At(d, x)
  BY Zenon DEF S!At, At
<1>2. \A d, x, o, c : S!TrailingClose(d, x, o, c) = TrailingClose(d, x, o, c)
  BY Zenon DEF S!TrailingClose, TrailingClose, S!At, At
<1>3. S!Openers = Openers /\ S!Quoted = Quoted /\ S!KeyText = KeyText /\ S!Closers = Closers
  BY Zenon DEF S!Openers, S!Quoted, S!KeyText, S!Closers, Openers, Quoted, KeyText, Closers
<1>4. \A d, x, y : S!Depth(d, x, y) = Depth(d, x, y)
  <2>1. \A T : S!Cardinality(T) = Cardinality(T)
    BY Zenon DEF S!Cardinality, Cardinality
  <2>. QED
    BY <2>1, Zenon DEF S!Depth, Depth, S!Openers, Openers, S!Closers, Closers
<1>5. \A d, x : S!ContainerEnds(d, x) = ContainerEnds(d, x)
  BY <1>4, Zenon DEF S!ContainerEnds, ContainerEnds
<1>6. \A d, x : S!ValueEnd(d, x) = ValueEnd(d, x)
  <2>. SUFFICES ASSUME NEW d, NEW x PROVE S!ValueEnd(d, x) = ValueEnd(d, x)
    OBVIOUS
  <2>1. PICK T : T = ContainerEnds(d, x)
    OBVIOUS
  <2>2. S!First(T) = First(T)
    BY Zenon DEF S!First, First
  <2>. QED
    BY <1>3, <1>5, <2>1, <2>2, Zenon DEF S!ValueEnd, ValueEnd
<1>7. \A a : S!Accepted(a) = Accepted(a)
  BY Zenon DEF S!Accepted, Accepted, S!Scalars, Scalars, S!PlainScalars, PlainScalars,
     S!NanKeywords, NanKeywords
<1>8. \A t : S!ValueError(t) = ValueError(t)
  BY Zenon DEF S!ValueError, ValueError
<1>9. \A d, x, o : S!ValueFault(d, x, o) = ValueFault(d, x, o)
  BY <1>1, <1>3, <1>5, <1>7, <1>8, Zenon DEF S!ValueFault, ValueFault
<1>10. \A d, names, x, raw : S!KeyIs(d, names, x, raw) = KeyIs(d, names, x, raw)
  BY Zenon DEF S!KeyIs, KeyIs
<1>11. \A c : S!CloserOf(c) = CloserOf(c)
  BY Zenon DEF S!CloserOf, CloserOf
<1>12. S!NoMatch = NoMatch /\ S!NoIndex = NoIndex /\ S!Malformed = Malformed
  BY Zenon DEF S!NoMatch, NoMatch, S!NoIndex, NoIndex, S!Malformed, Malformed
<1>. QED
  BY <1>1, <1>2, <1>3, <1>6, <1>9, <1>10, <1>11, <1>12, Zenon

(* The state of the pointer alone, as a place of its walk.                 *)
Shown(s) ==
    IF soutcome = "walking" THEN s = Standing(spc, si, level, kind, ahead)
                            ELSE s = Returned(soutcome, match)

(* Its actions, in the terms of the walk.                                  *)
Returns(result, found) ==
    /\ UNCHANGED <<sdoc, ptr, sopts>>
    /\ soutcome' = result /\ match' = found

GoesOn(next, x, n, c, a) ==
    /\ UNCHANGED <<sdoc, ptr, sopts>>
    /\ soutcome' = soutcome /\ spc' = next /\ si' = x /\ level' = n /\ kind' = c /\ ahead' = a

(* A step that returns shows a walk that has returned.                     *)
LEMMA ShownReturn ==
    ASSUME NEW result, result # "walking", result # "none", NEW found, Returns(result, found)
    PROVE  /\ UNCHANGED <<sdoc, ptr, sopts>> /\ soutcome' # "none"
           /\ \A s : s = Returned(result, found) => Shown(s)'
BY DEF Returns, Shown

(* A step that goes on shows a walk that stands elsewhere.                 *)
LEMMA ShownGoing ==
    ASSUME soutcome = "walking", NEW next, NEW x, NEW n, NEW c, NEW a, GoesOn(next, x, n, c, a)
    PROVE  /\ UNCHANGED <<sdoc, ptr, sopts>> /\ soutcome' # "none"
           /\ \A s : s = Standing(next, x, n, c, a) => Shown(s)'
BY Zenon DEF GoesOn, Shown

(* Where the walk of a pointer alone stands tells which step it takes.     *)
LEMMA SingleActs ==
    /\ \A e, x : S!Fail(e, x) => Returns(e, NoMatch)
    /\ S!Miss => Returns("ok", NoMatch)
    /\ \A m, x : S!Return("ok", m, x) => Returns("ok", m)
    /\ \A x : S!Matched(x) => GoesOn(Aim(ptr, level + 1), x, level + 1, kind, ahead)
BY SameTokens, Zenon DEF S!Fail, S!Miss, S!Return, S!Matched, S!Go, S!inputs, Returns, GoesOn, Aim

(* A step of a pointer alone is the step of its walk.                      *)
LEMMA DescendShown ==
    ASSUME S!Descend, NEW s, Shown(s), NEW r, r = WalkStep(s, sdoc, ptr, sopts)
    PROVE  UNCHANGED <<sdoc, ptr, sopts>> /\ soutcome' # "none" /\ Shown(r)'
<1>. DEFINE t == At(sdoc.tokens, si)
            next == At(sdoc.tokens, si + 1)
<1>1. soutcome = "walking" /\ spc = "descend"
  BY Zenon DEF S!Descend, S!Walking
<1>2. s = Standing("descend", si, level, kind, ahead)
  BY <1>1, Zenon DEF Shown
<1>3. r =
          IF t = "end" THEN Failed("unexpected_end")
          ELSE IF t = "{" /\ next # "}" THEN Standing("member", si + 1, level, "object", ahead)
          ELSE IF t = "[" /\ Index[ptr[level + 1]] # NoIndex /\ next # "]"
               THEN Standing("element", si + 1, level, "array", Index[ptr[level + 1]])
          ELSE Missed
  <2>1. /\ s.i = si /\ s.level = level /\ s.ahead = ahead
        /\ WalkStep(s, sdoc, ptr, sopts) = FromDescend(s, sdoc, ptr)
    BY <1>2, WalkFrom
  <2>. QED
    BY <2>1, Zenon DEF FromDescend
<1>4. \/ t = "end" /\ Returns("unexpected_end", NoMatch)
      \/ t \notin Openers \cup {"end"} /\ Returns("ok", NoMatch)
      \/ t = "{" /\ next # "}" /\ GoesOn("member", si + 1, level, "object", ahead)
      \/ /\ t = "[" /\ Index[ptr[level + 1]] # NoIndex /\ next # "]"
         /\ GoesOn("element", si + 1, level, "array", Index[ptr[level + 1]])
      \/ t = "{" /\ next = "}" /\ Returns("ok", NoMatch)
      \/ t = "[" /\ (Index[ptr[level + 1]] = NoIndex \/ next = "]") /\ Returns("ok", NoMatch)
  <2>1. /\ S!Tok = t /\ \A x : S!At(S!Tape, x) = At(sdoc.tokens, x)
        /\ S!Raw = ptr[level + 1] /\ S!Openers = Openers /\ S!NoIndex = NoIndex
    BY SameTokens, Zenon DEF S!Tok, S!Tape, S!Raw
  <2>2. \A e, x : S!Fail(e, x) => Returns(e, NoMatch)
    BY SingleActs, Zenon
  <2>3. S!Miss => Returns("ok", NoMatch)
    BY SingleActs, Zenon
  <2>4. \A x, n, c, a : S!Go(x, n) /\ kind' = c /\ ahead' = a /\ level' = level
                           => GoesOn(n, x, level, c, a)
    BY Zenon DEF S!Go, S!inputs, GoesOn
  <2>. HIDE DEF t, next
  <2>. QED
    BY <2>1, <2>2, <2>3, <2>4, Zenon DEF S!Descend, next
<1>5. Openers = {"{", "["} /\ "{" # "end" /\ "[" # "end" /\ "[" # "{" 
  BY Zenon DEF Openers
<1>. HIDE DEF t, next
<1>6. CASE Returns("unexpected_end", NoMatch) /\ t = "end"
  BY <1>3, <1>6, ShownReturn, Zenon DEF Failed
<1>7. CASE Returns("ok", NoMatch) /\ r = Missed
  BY <1>7, ShownReturn, Zenon DEF Missed
<1>8. CASE GoesOn("member", si + 1, level, "object", ahead) /\ t = "{" /\ next # "}"
  BY <1>1, <1>3, <1>5, <1>8, ShownGoing, Zenon
<1>9. CASE /\ GoesOn("element", si + 1, level, "array", Index[ptr[level + 1]])
           /\ t = "[" /\ Index[ptr[level + 1]] # NoIndex /\ next # "]"
  BY <1>1, <1>3, <1>5, <1>9, ShownGoing, Zenon
<1>. QED
  BY <1>3, <1>4, <1>5, <1>6, <1>7, <1>8, <1>9, Zenon

(* At a key.                                                               *)
LEMMA MemberShown ==
    ASSUME S!ObjectMember, NEW s, Shown(s), NEW r, r = WalkStep(s, sdoc, ptr, sopts)
    PROVE  UNCHANGED <<sdoc, ptr, sopts>> /\ soutcome' # "none" /\ Shown(r)'
<1>. DEFINE t == At(sdoc.tokens, si)
            next == At(sdoc.tokens, si + 1)
            closes == TrailingClose(sdoc.tokens, si, sopts, "}")
            hit == KeyIs(sdoc.tokens, sdoc.names, si, ptr[level + 1])
<1>1. soutcome = "walking" /\ spc = "member"
  BY Zenon DEF S!ObjectMember, S!Walking
<1>2. s = Standing("member", si, level, kind, ahead)
  BY <1>1, Zenon DEF Shown
<1>3. r = IF closes THEN Missed
          ELSE IF t = "badstr" THEN Failed("scalar_error")
          ELSE IF t \notin KeyText \/ next # ":" THEN Failed("expected")
          ELSE IF hit THEN Standing(Aim(ptr, level + 1), si + 2, level + 1, kind, ahead)
          ELSE Standing("skip", si + 2, level, kind, ahead)
  <2>1. /\ s.i = si /\ s.level = level /\ s.kind = kind /\ s.ahead = ahead
        /\ WalkStep(s, sdoc, ptr, sopts) = FromMember(s, sdoc, ptr, sopts)
    BY <1>2, WalkFrom
  <2>. QED
    BY <2>1, Zenon DEF FromMember, Matching, Going
<1>4. \/ closes /\ Returns("ok", NoMatch)
      \/ t \notin Quoted /\ ~ closes /\ Returns("expected", NoMatch)
      \/ t = "badstr" /\ Returns("scalar_error", NoMatch)
      \/ t \in KeyText /\ next # ":" /\ Returns("expected", NoMatch)
      \/ t \in KeyText /\ next = ":" /\ hit
         /\ GoesOn(Aim(ptr, level + 1), si + 2, level + 1, kind, ahead)
      \/ t \in KeyText /\ next = ":" /\ ~ hit /\ GoesOn("skip", si + 2, level, kind, ahead)
  <2>1. /\ S!Tok = t /\ \A x : S!At(S!Tape, x) = At(sdoc.tokens, x)
        /\ S!TrailingClose(S!Tape, si, sopts, "}") = closes
        /\ S!KeyIs(S!Tape, sdoc.names, si, S!Raw) = hit
        /\ S!Quoted = Quoted /\ S!KeyText = KeyText
    BY SameTokens, Zenon DEF S!Tok, S!Tape, S!Raw
  <2>2. \A e, x : S!Fail(e, x) => Returns(e, NoMatch)
    BY SingleActs, Zenon
  <2>3. S!Miss => Returns("ok", NoMatch)
    BY SingleActs, Zenon
  <2>4. S!Go(si + 2, "skip") /\ UNCHANGED <<level, kind, ahead>>
           => GoesOn("skip", si + 2, level, kind, ahead)
    BY Zenon DEF S!Go, S!inputs, GoesOn
  <2>5. S!Matched(si + 2) => GoesOn(Aim(ptr, level + 1), si + 2, level + 1, kind, ahead)
    BY SingleActs, Zenon
  <2>. HIDE DEF t, next, closes, hit
  <2>6. S!Member => \/ hit /\ GoesOn(Aim(ptr, level + 1), si + 2, level + 1, kind, ahead)
                    \/ ~ hit /\ GoesOn("skip", si + 2, level, kind, ahead)
    BY <2>1, <2>4, <2>5, Zenon DEF S!Member
  <2>. QED
    BY <2>1, <2>2, <2>3, <2>6, Zenon DEF S!ObjectMember, next
<1>5. /\ t \in KeyText => t \in Quoted /\ t # "badstr"
      /\ t = "badstr" => t \in Quoted
      /\ closes => t \notin Quoted
  BY Zenon DEF Quoted, KeyText, TrailingClose
<1>. HIDE DEF t, next, closes, hit
<1>6. CASE Returns("ok", NoMatch) /\ r = Missed
  BY <1>6, ShownReturn, Zenon DEF Missed
<1>7. CASE Returns("expected", NoMatch) /\ r = Failed("expected")
  BY <1>7, ShownReturn, Zenon DEF Failed
<1>8. CASE Returns("scalar_error", NoMatch) /\ r = Failed("scalar_error")
  BY <1>8, ShownReturn, Zenon DEF Failed
<1>9. CASE /\ GoesOn(Aim(ptr, level + 1), si + 2, level + 1, kind, ahead)
           /\ r = Standing(Aim(ptr, level + 1), si + 2, level + 1, kind, ahead)
  BY <1>1, <1>9, ShownGoing, Zenon
<1>10. CASE /\ GoesOn("skip", si + 2, level, kind, ahead)
            /\ r = Standing("skip", si + 2, level, kind, ahead)
  BY <1>1, <1>10, ShownGoing, Zenon
<1>11. \/ Returns("ok", NoMatch) /\ r = Missed
       \/ Returns("expected", NoMatch) /\ r = Failed("expected")
       \/ Returns("scalar_error", NoMatch) /\ r = Failed("scalar_error")
       \/ /\ GoesOn(Aim(ptr, level + 1), si + 2, level + 1, kind, ahead)
          /\ r = Standing(Aim(ptr, level + 1), si + 2, level + 1, kind, ahead)
       \/ /\ GoesOn("skip", si + 2, level, kind, ahead)
          /\ r = Standing("skip", si + 2, level, kind, ahead)
  BY <1>3, <1>4, <1>5, Zenon
<1>. QED
  BY <1>6, <1>7, <1>8, <1>9, <1>10, <1>11, Zenon

(* At an element.                                                          *)
LEMMA ElementShown ==
    ASSUME S!ArrayElement, NEW s, Shown(s), NEW r, r = WalkStep(s, sdoc, ptr, sopts)
    PROVE  UNCHANGED <<sdoc, ptr, sopts>> /\ soutcome' # "none" /\ Shown(r)'
<1>1. soutcome = "walking" /\ spc = "element"
  BY Zenon DEF S!ArrayElement, S!Walking
<1>2. s = Standing("element", si, level, kind, ahead)
  BY <1>1, Zenon DEF Shown
<1>3. r = IF ahead = 0 THEN Standing(Aim(ptr, level + 1), si, level + 1, kind, ahead)
                       ELSE Standing("skip", si, level, kind, ahead)
  <2>1. /\ s.i = si /\ s.level = level /\ s.kind = kind /\ s.ahead = ahead
        /\ WalkStep(s, sdoc, ptr, sopts) = FromElement(s, ptr)
    BY <1>2, WalkFrom
  <2>. QED
    BY <2>1, Zenon DEF FromElement, Matching, Going
<1>4. \/ ahead = 0 /\ GoesOn(Aim(ptr, level + 1), si, level + 1, kind, ahead)
      \/ ahead > 0 /\ GoesOn("skip", si, level, kind, ahead)
  BY SingleActs, Zenon DEF S!ArrayElement, S!Go, S!inputs, GoesOn
<1>5. ahead > 0 => ahead # 0
  OBVIOUS
<1>. QED
  BY <1>1, <1>3, <1>4, <1>5, ShownGoing, Zenon

(* At a value of no match.                                                 *)
LEMMA SkipShown ==
    ASSUME S!Skip, NEW s, Shown(s), NEW r, r = WalkStep(s, sdoc, ptr, sopts)
    PROVE  UNCHANGED <<sdoc, ptr, sopts>> /\ soutcome' # "none" /\ Shown(r)'
<1>. DEFINE fault == ValueFault(sdoc.tokens, si, sopts)
            past == ValueEnd(sdoc.tokens, si) + 1
<1>1. soutcome = "walking" /\ spc = "skip"
  BY Zenon DEF S!Skip, S!Walking
<1>2. s = Standing("skip", si, level, kind, ahead)
  BY <1>1, Zenon DEF Shown
<1>3. r = IF fault = "none" THEN Standing("after", past, level, kind, ahead) ELSE Failed(fault)
  <2>1. /\ s.i = si /\ s.level = level /\ s.kind = kind /\ s.ahead = ahead
        /\ WalkStep(s, sdoc, ptr, sopts) = FromSkip(s, sdoc, sopts)
    BY <1>2, WalkFrom
  <2>. QED
    BY <2>1, Zenon DEF FromSkip, Going
<1>4. \/ fault = "none" /\ GoesOn("after", past, level, kind, ahead)
      \/ fault # "none" /\ Returns(fault, NoMatch)
  <2>1. S!ValueFault(S!Tape, si, sopts) = fault /\ S!ValueEnd(S!Tape, si) + 1 = past
    BY SameTokens, Zenon DEF S!Tape
  <2>2. \A e, x : S!Fail(e, x) => Returns(e, NoMatch)
    BY SingleActs, Zenon
  <2>3. S!Go(past, "after") /\ UNCHANGED <<level, kind, ahead>>
           => GoesOn("after", past, level, kind, ahead)
    BY Zenon DEF S!Go, S!inputs, GoesOn
  <2>. HIDE DEF fault, past
  <2>. QED
    BY <2>1, <2>2, <2>3, Zenon DEF S!Skip
<1>5. fault # "walking"
  BY ValueFaultTyped DEF ParseErrors
<1>. HIDE DEF fault, past
<1>. QED
  BY <1>1, <1>3, <1>4, <1>5, ShownGoing, ShownReturn, Zenon DEF Failed

(* After it.                                                               *)
LEMMA AfterShown ==
    ASSUME S!After, NEW s, Shown(s), NEW r, r = WalkStep(s, sdoc, ptr, sopts)
    PROVE  UNCHANGED <<sdoc, ptr, sopts>> /\ soutcome' # "none" /\ Shown(r)'
<1>. DEFINE t == At(sdoc.tokens, si)
            closes == TrailingClose(sdoc.tokens, si + 1, sopts, "]")
<1>1. soutcome = "walking" /\ spc = "after"
  BY Zenon DEF S!After, S!Walking
<1>2. s = Standing("after", si, level, kind, ahead)
  BY <1>1, Zenon DEF Shown
<1>3. r = IF t = CloserOf(kind) THEN Missed
          ELSE IF t = "end" THEN Failed("unexpected_end")
          ELSE IF t # "," THEN Failed("expected")
          ELSE IF kind = "object" THEN Standing("member", si + 1, level, kind, ahead)
          ELSE IF closes THEN Missed
          ELSE Standing("element", si + 1, level, kind, ahead - 1)
  <2>1. /\ s.i = si /\ s.level = level /\ s.kind = kind /\ s.ahead = ahead
        /\ WalkStep(s, sdoc, ptr, sopts) = FromAfter(s, sdoc, sopts)
    BY <1>2, WalkFrom
  <2>. QED
    BY <2>1, Zenon DEF FromAfter, Going
<1>4. \/ t = CloserOf(kind) /\ Returns("ok", NoMatch)
      \/ t = "," /\ kind = "array" /\ closes /\ Returns("ok", NoMatch)
      \/ t = "," /\ kind = "array" /\ ~ closes /\ GoesOn("element", si + 1, level, kind, ahead - 1)
      \/ t = "," /\ kind = "object" /\ GoesOn("member", si + 1, level, kind, ahead)
      \/ t = "end" /\ Returns("unexpected_end", NoMatch)
      \/ t \notin {",", "end", CloserOf(kind)} /\ Returns("expected", NoMatch)
  <2>1. /\ S!Tok = t /\ S!TrailingClose(S!Tape, si + 1, sopts, "]") = closes
        /\ S!CloserOf(kind) = CloserOf(kind)
    BY SameTokens, Zenon DEF S!Tok, S!Tape
  <2>2. \A e, x : S!Fail(e, x) => Returns(e, NoMatch)
    BY SingleActs, Zenon
  <2>3. S!Miss => Returns("ok", NoMatch)
    BY SingleActs, Zenon
  <2>4. /\ S!Go(si + 1, "member") /\ UNCHANGED <<level, kind, ahead>>
              => GoesOn("member", si + 1, level, kind, ahead)
        /\ S!Go(si + 1, "element") /\ ahead' = ahead - 1 /\ UNCHANGED <<level, kind>>
              => GoesOn("element", si + 1, level, kind, ahead - 1)
    BY Zenon DEF S!Go, S!inputs, GoesOn
  <2>. HIDE DEF t, closes
  <2>5. S!AfterElement => \/ closes /\ Returns("ok", NoMatch)
                          \/ ~ closes /\ GoesOn("element", si + 1, level, kind, ahead - 1)
    BY <2>1, <2>3, <2>4, Zenon DEF S!AfterElement
  <2>. QED
    BY <2>1, <2>2, <2>3, <2>4, <2>5, Zenon DEF S!After
<1>5. CloserOf(kind) # "," /\ CloserOf(kind) # "end" /\ "," # "end" /\ "array" # "object"
  BY Zenon DEF CloserOf
<1>. HIDE DEF t, closes
<1>6. CASE Returns("ok", NoMatch) /\ r = Missed
  BY <1>6, ShownReturn, Zenon DEF Missed
<1>7. CASE Returns("expected", NoMatch) /\ r = Failed("expected")
  BY <1>7, ShownReturn, Zenon DEF Failed
<1>8. CASE Returns("unexpected_end", NoMatch) /\ r = Failed("unexpected_end")
  BY <1>8, ShownReturn, Zenon DEF Failed
<1>9. CASE /\ GoesOn("element", si + 1, level, kind, ahead - 1)
           /\ r = Standing("element", si + 1, level, kind, ahead - 1)
  BY <1>1, <1>9, ShownGoing, Zenon
<1>10. CASE /\ GoesOn("member", si + 1, level, kind, ahead)
            /\ r = Standing("member", si + 1, level, kind, ahead)
  BY <1>1, <1>10, ShownGoing, Zenon
<1>11. \/ Returns("ok", NoMatch) /\ r = Missed
       \/ Returns("expected", NoMatch) /\ r = Failed("expected")
       \/ Returns("unexpected_end", NoMatch) /\ r = Failed("unexpected_end")
       \/ /\ GoesOn("element", si + 1, level, kind, ahead - 1)
          /\ r = Standing("element", si + 1, level, kind, ahead - 1)
       \/ /\ GoesOn("member", si + 1, level, kind, ahead)
          /\ r = Standing("member", si + 1, level, kind, ahead)
  BY <1>3, <1>4, <1>5, Zenon
<1>. QED
  BY <1>6, <1>7, <1>8, <1>9, <1>10, <1>11, Zenon

(* At the value that is asked for.                                         *)
LEMMA TargetShown ==
    ASSUME S!Target, NEW s, Shown(s), NEW r, r = WalkStep(s, sdoc, ptr, sopts)
    PROVE  UNCHANGED <<sdoc, ptr, sopts>> /\ soutcome' # "none" /\ Shown(r)'
<1>. DEFINE fault == ValueFault(sdoc.tokens, si, sopts)
            end == ValueEnd(sdoc.tokens, si)
<1>1. soutcome = "walking" /\ spc = "target"
  BY Zenon DEF S!Target, S!Walking
<1>2. s = Standing("target", si, level, kind, ahead)
  BY <1>1, Zenon DEF Shown
<1>3. r = IF fault # "none" THEN Failed(fault)
          ELSE IF ptr = <<>> /\ end < Len(sdoc.tokens) THEN Failed("trailing_characters")
          ELSE Returned("ok", <<si, end>>)
  <2>1. s.i = si /\ WalkStep(s, sdoc, ptr, sopts) = FromTarget(s, sdoc, ptr, sopts)
    BY <1>2, WalkFrom
  <2>. QED
    BY <2>1, Zenon DEF FromTarget
<1>4. \/ fault # "none" /\ Returns(fault, NoMatch)
      \/ /\ fault = "none" /\ ptr = <<>> /\ end < Len(sdoc.tokens)
         /\ Returns("trailing_characters", NoMatch)
      \/ /\ fault = "none" /\ ~ (ptr = <<>> /\ end < Len(sdoc.tokens))
         /\ Returns("ok", <<si, end>>)
  <2>1. /\ S!ValueFault(S!Tape, si, sopts) = fault /\ S!ValueEnd(S!Tape, si) = end
        /\ S!Tape = sdoc.tokens
    BY SameTokens, Zenon DEF S!Tape
  <2>2. \A e, x : S!Fail(e, x) => Returns(e, NoMatch)
    BY SingleActs, Zenon
  <2>3. \A m, x : S!Return("ok", m, x) => Returns("ok", m)
    BY SingleActs, Zenon
  <2>. HIDE DEF fault, end
  <2>. QED
    BY <2>1, <2>2, <2>3, Zenon DEF S!Target
<1>5. fault # "walking"
  BY ValueFaultTyped DEF ParseErrors
<1>. HIDE DEF fault, end
<1>. QED
  BY <1>3, <1>4, <1>5, ShownReturn, Zenon DEF Failed

(* A step of pointer_* is the step of its walk.                            *)
LEMMA SingleShown ==
    ASSUME S!Step, NEW s, Shown(s), NEW r, r = WalkStep(s, sdoc, ptr, sopts)
    PROVE  soutcome = "walking" /\ UNCHANGED <<sdoc, ptr, sopts>> /\ soutcome' # "none" /\ Shown(r)'
<1>1. soutcome = "walking"
  BY Zenon DEF S!Step, S!Descend, S!ObjectMember, S!ArrayElement, S!Skip, S!After, S!Target, S!Walking
<1>. QED
  BY <1>1, DescendShown, MemberShown, ElementShown, SkipShown, AfterShown, TargetShown, Zenon DEF S!Step

-----------------------------------------------------------------------------
(* Both, one after the other.                                              *)

(* The walk of a pointer has one end.                                      *)
LEMMA OneEnd ==
    ASSUME NEW d, NEW p, NEW o, NEW s1, NEW s2, Reaches(s1, d, p, o), Reaches(s2, d, p, o),
           s1.outcome # "walking", s2.outcome # "walking"
    PROVE  s1 = s2
<1>m. PICK m \in Nat : \E run : IsWalk(run, m, d, p, o) /\ run[m] = s1
  BY Zenon DEF Reaches
<1>1. PICK f : IsWalk(f, m, d, p, o) /\ f[m] = s1
  BY <1>m, Zenon
<1>n. PICK n \in Nat : \E run : IsWalk(run, n, d, p, o) /\ run[n] = s2
  BY Zenon DEF Reaches
<1>2. PICK g : IsWalk(g, n, d, p, o) /\ g[n] = s2
  BY <1>n, Zenon
<1>3. /\ f[0] = g[0]
      /\ \A k \in 0 .. m - 1 : f[k].outcome = "walking" /\ f[k + 1] = WalkStep(f[k], d, p, o)
      /\ \A k \in 0 .. n - 1 : g[k].outcome = "walking" /\ g[k + 1] = WalkStep(g[k], d, p, o)
  BY <1>1, <1>2, Zenon DEF IsWalk
<1>4. \A k \in Nat : k <= m /\ k <= n => f[k] = g[k]
  <2>. DEFINE apart == {k \in Nat : k <= m /\ k <= n /\ f[k] # g[k]}
  <2>. SUFFICES ASSUME apart # {} PROVE FALSE
    OBVIOUS
  <2>1. PICK k \in apart : \A j \in apart : k <= j
    <3>1. apart \in SUBSET Nat
      OBVIOUS
    <3>. HIDE DEF apart
    <3>2. First(apart) \in apart /\ \A j \in apart : First(apart) <= j
      BY <3>1, FirstIsIn
    <3>. QED
      BY <3>2
  <2>2. k \in Nat /\ k # 0 /\ k <= m /\ k <= n /\ f[k] # g[k]
    BY <1>3
  <2>3. PICK j \in Nat : k = j + 1
    <3>1. k - 1 \in Nat /\ k = (k - 1) + 1
      BY <2>2
    <3>. QED
      BY <3>1
  <2>4. j \in 0 .. m - 1 /\ j \in 0 .. n - 1 /\ j <= m /\ j <= n /\ ~ (k <= j)
    BY <2>2, <2>3
  <2>5. f[j] = g[j]
    BY <2>1, <2>4
  <2>6. f[j + 1] = WalkStep(f[j], d, p, o) /\ g[j + 1] = WalkStep(g[j], d, p, o)
    BY <1>3, <2>4
  <2>. HIDE DEF apart
  <2>. QED
    BY <2>2, <2>3, <2>5, <2>6, Zenon
<1>5. ~ (m < n)
  <2>. SUFFICES ASSUME m < n PROVE FALSE
    OBVIOUS
  <2>1. m \in 0 .. n - 1 /\ m <= m /\ m <= n
    OBVIOUS
  <2>. QED
    BY <1>1, <1>3, <1>4, <2>1
<1>6. ~ (n < m)
  <2>. SUFFICES ASSUME n < m PROVE FALSE
    OBVIOUS
  <2>1. n \in 0 .. m - 1 /\ n <= n /\ n <= m
    OBVIOUS
  <2>. QED
    BY <1>2, <1>3, <1>4, <2>1
<1>7. m = n /\ m <= m /\ m <= n
  BY <1>5, <1>6
<1>. QED
  BY <1>1, <1>2, <1>4, <1>7

(* What a walk returns is no place it stands at.                           *)
LEMMA ReturnedFields ==
    ASSUME NEW result, NEW found, NEW s, s = Returned(result, found)
    PROVE  s.outcome = result /\ s.match = found
BY DEF Returned

-----------------------------------------------------------------------------
(* The pointers alone come after the batch, in the order of their slots,   *)
(* and while the batch has succeeded each is in the walk of its slot and   *)
(* those that are over have the batch's answers.                           *)
SingleIdle ==
    /\ si = 1 /\ level = 0 /\ kind = "array" /\ ahead = 0 /\ match = NoMatch

InTurn ==
    /\ \E A : singles \in Seq(A)
    /\ outcome \in {"none", "walking"} => singles = <<>> /\ soutcome = "none"
    /\ Len(singles) <= Len(ptrs)
    /\ soutcome = "none" => SingleIdle
    /\ soutcome # "none" => Len(singles) < Len(ptrs)

SameAnswers ==
    outcome = "ok" =>
        /\ \A q \in 1 .. Len(singles) : singles[q] = [outcome |-> "ok", match |-> results[q]]
        /\ soutcome # "none" =>
              /\ sdoc = doc /\ sopts = opts /\ ptr = ptrs[1 + Len(singles)]
              /\ \E s : Shown(s) /\ Reaches(s, sdoc, ptr, sopts)

BothInv == BInv /\ Walked /\ InTurn /\ SameAnswers

(* Nothing has run.                                                        *)
LEMMA BothStart ==
    ASSUME BothInit
    PROVE  BothInv
<1>1. BInv
  BY InitKeeps DEF BothInit
<1>2. Walked
  BY DEF BothInit, Init, Walked
<1>3. singles = <<>> /\ soutcome = "none" /\ SingleIdle /\ outcome = "none"
  BY SameTokens, Zenon DEF BothInit, S!Init, SingleIdle, Init
<1>4. InTurn
  <2>1. singles \in Seq({}) /\ Len(singles) = 0
    BY <1>3
  <2>2. Len(ptrs) = 0
    BY EmptySeq DEF BothInit, Init
  <2>3. Len(singles) <= Len(ptrs)
    BY <2>1, <2>2
  <2>. QED
    BY <1>3, <2>1, <2>3, Zenon DEF InTurn
<1>5. SameAnswers
  BY <1>3 DEF SameAnswers
<1>. QED
  BY <1>1, <1>2, <1>4, <1>5 DEF BothInv

(* Nothing changes for the batch.                                          *)
LEMMA BatchRests ==
    ASSUME BInv, Walked, UNCHANGED vars
    PROVE  BInv' /\ Walked'
<1>1. BInv'
  BY StepKeeps
<1>2. UNCHANGED <<doc, ptrs, opts, i, frames, queries, results, remaining, pc, outcome, errorAt>>
  BY DEF vars
<1>3. Walked'
  <2>1. outcome = "walking" /\ pc # "unwind" => InBetween'
    BY <1>2, Zenon DEF Walked, InBetween, Ids, Top
  <2>2. outcome = "walking" /\ pc = "unwind" => Matched'
    BY <1>2, Zenon DEF Walked, Matched, Ids
  <2>3. outcome = "ok" => Agreed'
    BY <1>2, Zenon DEF Walked, Agreed, Ids
  <2>. QED
    BY <1>2, <2>1, <2>2, <2>3, Zenon DEF Walked
<1>. QED
  BY <1>1, <1>3

(* A step of the batch, while no pointer runs alone.                       *)
LEMMA BatchStep ==
    ASSUME BothInv, Batch
    PROVE  BothInv'
<1>1. outcome \in {"none", "walking"} /\ (Start \/ Step)
  BY DEF Batch, Start, Step, WalkInto, StepOver, ObjectMember, ArrayFirst, After, Unwind, Finish,
         Walking
<1>2. BInv' /\ Walked'
  BY <1>1, StepKeeps, StartWalks, StepWalks DEF BothInv, Next
<1>3. singles = <<>> /\ soutcome = "none" /\ SingleIdle
  BY <1>1 DEF BothInv, InTurn
<1>4. UNCHANGED <<sdoc, ptr, sopts, si, level, kind, ahead, match, spc, soutcome, serrorAt, singles>>
  BY DEF Batch, sVars
<1>5. InTurn'
  <2>1. singles' \in Seq({}) /\ Len(singles') = 0
    BY <1>3, <1>4
  <2>2. Len(ptrs') \in Nat
    BY <1>2, LenProperties DEF BInv, TypeOK
  <2>3. Len(singles') <= Len(ptrs')
    BY <2>1, <2>2
  <2>4. singles' = <<>> /\ soutcome' = "none" /\ SingleIdle'
    BY <1>3, <1>4 DEF SingleIdle
  <2>. QED
    BY <2>1, <2>3, <2>4, Zenon DEF InTurn
<1>6. SameAnswers'
  BY <1>3, <1>4 DEF SameAnswers
<1>. QED
  BY <1>2, <1>5, <1>6 DEF BothInv

(* A pointer without its slash is none that has been split.                *)
LEMMA MalformedApart ==
    ASSUME NEW p \in Seq(RawTokens)
    PROVE  p # Malformed
<1>1. \A k \in 1 .. Len(p) : p[k] \in RawTokens
  BY ElementOfSeq
<1>2. ASSUME p = <<"no slash">> PROVE "no slash" \in RawTokens
  <2>1. p[1] = "no slash"
    BY <1>2
  <2>2. Len(p) = 1
    BY <1>2
  <2>3. 1 \in 1 .. Len(p)
    BY <2>2
  <2>4. p[1] \in RawTokens
    BY <1>1, <2>3, Zenon
  <2>. QED
    BY <2>1, <2>4, Zenon
<1>. QED
  BY <1>2, MalformedAssumption DEF Malformed

(* A pointer alone begins where its walk does.                             *)
LEMMA StartSingleStep ==
    ASSUME BothInv, StartSingle
    PROVE  BothInv'
<1>1. UNCHANGED <<doc, ptrs, opts, results, outcome, singles>> /\ UNCHANGED vars
  BY DEF StartSingle, vars
<1>2. BInv' /\ Walked'
  BY <1>1, BatchRests DEF BothInv
<1>3. Len(ptrs) \in Nat /\ Len(singles) \in Nat /\ Len(singles) <= Len(ptrs)
  BY LenProperties DEF BothInv, BInv, TypeOK, InTurn
<1>4. Len(singles) < Len(ptrs) /\ outcome \notin {"none", "walking"}
  BY <1>3 DEF StartSingle, AllReturned, BatchReturned
<1>5. PICK p : p = ptrs[1 + Len(singles)]
  OBVIOUS
<1>6. /\ soutcome = "none"
      /\ sdoc' = doc /\ ptr' = p /\ sopts' = opts
      /\ IF p = Malformed THEN soutcome' = "invalid_pointer"
         ELSE soutcome' = "walking" /\ spc' = IF p = <<>> THEN "target" ELSE "descend"
      /\ UNCHANGED <<si, level, kind, ahead, match>>
  BY <1>5, SameTokens, Zenon DEF StartSingle, S!Begin
<1>7. SingleIdle
  BY <1>6 DEF BothInv, InTurn
<1>8. InTurn'
  <2>1. soutcome' # "none"
    BY <1>6
  <2>. QED
    BY <1>1, <1>4, <2>1 DEF BothInv, InTurn
<1>9. ASSUME outcome = "ok"
      PROVE  \E s : Shown(s)' /\ Reaches(s, doc, p, opts)
  <2>1. p \in Seq(RawTokens)
    <3>1. ptrs \in Seq(Seq(RawTokens)) /\ 1 + Len(singles) \in 1 .. Len(ptrs)
      BY <1>3, <1>4, <1>9 DEF BothInv, Walked, Agreed
    <3>. QED
      BY <1>5, <3>1, ElementOfSeq
  <2>2. p # Malformed
    BY <2>1, MalformedApart
  <2>3. spc' = Aim(p, 0) /\ soutcome' = "walking"
    <3>1. p = <<>> <=> 0 = Len(p)
      BY <2>1, EmptySeq, LenProperties
    <3>. QED
      BY <1>6, <2>2, <3>1, Zenon DEF Aim
  <2>4. PICK s : s = Standing(Aim(p, 0), 1, 0, "array", 0)
    OBVIOUS
  <2>5. Reaches(s, doc, p, opts)
    BY <2>4, WalkBegins, Zenon
  <2>6. Shown(s)'
    BY <1>6, <1>7, <2>3, <2>4, Zenon DEF Shown, SingleIdle
  <2>. QED
    BY <2>5, <2>6
<1>10. SameAnswers'
  <2>. SUFFICES ASSUME outcome = "ok"
                PROVE  /\ \A q \in 1 .. Len(singles) : singles[q] = [outcome |-> "ok", match |-> results[q]]
                       /\ sdoc' = doc /\ sopts' = opts /\ ptr' = ptrs[1 + Len(singles)]
                       /\ \E s : Shown(s)' /\ Reaches(s, sdoc', ptr', sopts')
    BY <1>1, Zenon DEF SameAnswers
  <2>1. \A q \in 1 .. Len(singles) : singles[q] = [outcome |-> "ok", match |-> results[q]]
    BY DEF BothInv, SameAnswers
  <2>2. \E s : Shown(s)' /\ Reaches(s, sdoc', ptr', sopts')
    BY <1>6, <1>9, Zenon
  <2>. QED
    BY <1>5, <1>6, <2>1, <2>2
<1>. QED
  BY <1>2, <1>8, <1>10 DEF BothInv

(* A step of a pointer alone is the step of its walk.                      *)
LEMMA StepSingleStep ==
    ASSUME BothInv, StepSingle
    PROVE  BothInv'
<1>1. UNCHANGED <<doc, ptrs, opts, results, outcome, singles>> /\ UNCHANGED vars /\ S!Step
  BY DEF StepSingle, vars
<1>2. BInv' /\ Walked'
  BY <1>1, BatchRests DEF BothInv
<1>3. soutcome = "walking"
  BY <1>1, Zenon DEF S!Step, S!Descend, S!ObjectMember, S!ArrayElement, S!Skip, S!After, S!Target, S!Walking
<1>4. PICK u : u = Standing(spc, si, level, kind, ahead)
  OBVIOUS
<1>5. Shown(u)
  BY <1>3, <1>4, Zenon DEF Shown
<1>6. PICK r : r = WalkStep(u, sdoc, ptr, sopts)
  OBVIOUS
<1>7. UNCHANGED <<sdoc, ptr, sopts>> /\ Shown(r)'
  BY <1>1, <1>5, <1>6, SingleShown, Zenon
<1>8. soutcome' # "none"
  BY <1>1, <1>5, <1>6, SingleShown, Zenon
<1>9. outcome \notin {"none", "walking"} /\ Len(singles) < Len(ptrs)
  BY <1>3 DEF BothInv, InTurn
<1>10. InTurn'
  BY <1>1, <1>8, <1>9 DEF BothInv, InTurn
<1>11. ASSUME outcome = "ok" PROVE Reaches(r, sdoc, ptr, sopts)
  <2>1. PICK s : Shown(s) /\ Reaches(s, sdoc, ptr, sopts)
    BY <1>3, <1>11 DEF BothInv, SameAnswers
  <2>2. s = u
    BY <1>3, <1>4, <2>1, Zenon DEF Shown
  <2>3. s.outcome = "walking"
    BY <1>4, <2>2 DEF Standing
  <2>4. Reaches(WalkStep(s, sdoc, ptr, sopts), sdoc, ptr, sopts)
    BY <2>1, <2>3, WalkOn
  <2>. QED
    BY <1>6, <2>2, <2>4, Zenon
<1>12. SameAnswers'
  <2>. SUFFICES ASSUME outcome = "ok"
                PROVE  /\ \A q \in 1 .. Len(singles) : singles[q] = [outcome |-> "ok", match |-> results[q]]
                       /\ sdoc' = doc /\ sopts' = opts /\ ptr' = ptrs[1 + Len(singles)]
                       /\ \E s : Shown(s)' /\ Reaches(s, sdoc', ptr', sopts')
    BY <1>1, Zenon DEF SameAnswers
  <2>1. /\ \A q \in 1 .. Len(singles) : singles[q] = [outcome |-> "ok", match |-> results[q]]
        /\ sdoc = doc /\ sopts = opts /\ ptr = ptrs[1 + Len(singles)]
    BY <1>3 DEF BothInv, SameAnswers
  <2>2. \E s : Shown(s)' /\ Reaches(s, sdoc', ptr', sopts')
    BY <1>7, <1>11, Zenon
  <2>. QED
    BY <1>7, <2>1, <2>2
<1>. QED
  BY <1>2, <1>10, <1>12 DEF BothInv

(* The answer of a pointer alone is the end of its walk, and so is the     *)
(* batch's.                                                                *)
LEMMA CollectSingleStep ==
    ASSUME BothInv, CollectSingle
    PROVE  BothInv'
<1>. DEFINE answer == [outcome |-> soutcome, match |-> match]
<1>1. UNCHANGED <<doc, ptrs, opts, results, outcome>> /\ UNCHANGED vars
  BY DEF CollectSingle, vars
<1>2. BInv' /\ Walked'
  BY <1>1, BatchRests DEF BothInv
<1>3. /\ soutcome \notin {"none", "walking"}
      /\ soutcome' = "none" /\ SingleIdle'
      /\ singles' = Append(singles, answer)
  BY SameTokens, Zenon DEF CollectSingle, S!Collect, SingleIdle
<1>4. Len(singles) < Len(ptrs) /\ outcome \notin {"none", "walking"}
  BY <1>3 DEF BothInv, InTurn
<1>5. PICK A : singles \in Seq(A)
  BY DEF BothInv, InTurn
<1>6. PICK n \in Nat : n = Len(singles)
  BY <1>5, LenProperties
<1>7. /\ singles' \in Seq(A \cup {answer}) /\ Len(singles') = n + 1
      /\ \A q \in 1 .. n : singles'[q] = singles[q]
      /\ singles'[n + 1] = answer
  <2>. HIDE DEF answer
  <2>1. singles \in Seq(A \cup {answer})
    BY <1>5, SeqDef, LenProperties
  <2>. QED
    BY <1>3, <1>6, <2>1, AppendProperties
<1>8. Len(ptrs) \in Nat
  BY LenProperties DEF BothInv, BInv, TypeOK
<1>9. InTurn'
  <2>1. Len(singles') <= Len(ptrs')
    BY <1>1, <1>4, <1>6, <1>7, <1>8
  <2>2. \E B : singles' \in Seq(B)
    BY <1>7
  <2>. QED
    BY <1>1, <1>3, <1>4, <2>1, <2>2 DEF InTurn
<1>10. ASSUME outcome = "ok" PROVE answer = [outcome |-> "ok", match |-> results[n + 1]]
  <2>1. sdoc = doc /\ sopts = opts /\ ptr = ptrs[n + 1]
    BY <1>3, <1>6, <1>10 DEF BothInv, SameAnswers
  <2>2. PICK s : Shown(s) /\ Reaches(s, sdoc, ptr, sopts)
    BY <1>3, <1>10 DEF BothInv, SameAnswers
  <2>3. s = Returned(soutcome, match)
    BY <1>3, <2>2 DEF Shown
  <2>4. PICK r : r = Returned("ok", results[n + 1])
    OBVIOUS
  <2>5. Reaches(r, doc, ptrs[n + 1], opts)
    <3>1. n + 1 \in Ids
      <4>1. Ids = 1 .. Len(ptrs)
        BY LenProperties DEF BothInv, BInv, TypeOK, Ids
      <4>. QED
        BY <1>4, <1>6, <1>8, <4>1
    <3>2. Agreed
      BY <1>10 DEF BothInv, Walked
    <3>. QED
      BY <2>4, <3>1, <3>2, Zenon DEF Agreed
  <2>6. s.outcome = soutcome /\ s.match = match /\ r.outcome = "ok" /\ r.match = results[n + 1]
    BY <2>3, <2>4, ReturnedFields
  <2>7. Reaches(s, doc, ptrs[n + 1], opts)
    BY <2>1, <2>2, Zenon
  <2>8. s = r
    BY <1>3, <2>5, <2>6, <2>7, OneEnd
  <2>. QED
    BY <2>6, <2>8, Zenon
<1>11. SameAnswers'
  <2>. SUFFICES ASSUME outcome = "ok", NEW q \in 1 .. n + 1
                PROVE  singles'[q] = [outcome |-> "ok", match |-> results[q]]
    BY <1>1, <1>3, <1>7, Zenon DEF SameAnswers
  <2>1. \A k \in 1 .. n : singles[k] = [outcome |-> "ok", match |-> results[k]]
    BY <1>6 DEF BothInv, SameAnswers
  <2>2. q \in 1 .. n \/ q = n + 1
    OBVIOUS
  <2>. HIDE DEF answer
  <2>. QED
    BY <1>7, <1>10, <2>1, <2>2, Zenon
<1>. QED
  BY <1>2, <1>9, <1>11 DEF BothInv

(* The next document: every answer is forgotten.                           *)
LEMMA CollectAllStep ==
    ASSUME BothInv, CollectAll
    PROVE  BothInv'
<1>1. Collect /\ Len(singles) = Len(ptrs)
  BY DEF CollectAll, AllReturned
<1>2. BInv' /\ Walked'
  BY <1>1, CollectKeeps, CollectWalks
<1>3. Len(ptrs) \in Nat
  BY LenProperties DEF BothInv, BInv, TypeOK
<1>4. soutcome = "none" /\ SingleIdle
  BY <1>1, <1>3 DEF BothInv, InTurn
<1>5. /\ singles' = <<>> /\ ptrs' = <<>> /\ outcome' = "none"
      /\ UNCHANGED <<soutcome, si, level, kind, ahead, match>>
  BY <1>1 DEF CollectAll, Collect, sVars
<1>6. soutcome' = "none" /\ SingleIdle'
  BY <1>4, <1>5 DEF SingleIdle
<1>7. InTurn'
  <2>1. singles' \in Seq({}) /\ Len(singles') <= Len(ptrs')
    BY <1>5
  <2>. QED
    BY <1>5, <1>6, <2>1, Zenon DEF InTurn
<1>8. SameAnswers'
  BY <1>5 DEF SameAnswers
<1>. QED
  BY <1>2, <1>7, <1>8 DEF BothInv

(* A step in which nothing changes.                                        *)
LEMMA BothRest ==
    ASSUME BothInv, UNCHANGED bothVars
    PROVE  BothInv'
<1>1. UNCHANGED vars /\ UNCHANGED <<sdoc, ptr, sopts, si, level, kind, ahead, match, spc, soutcome, singles>>
  BY DEF bothVars, sVars
<1>2. UNCHANGED <<doc, ptrs, opts, results, outcome>>
  BY <1>1 DEF vars
<1>3. BInv' /\ Walked'
  BY <1>1, BatchRests DEF BothInv
<1>4. InTurn'
  BY <1>1, <1>2, Zenon DEF BothInv, InTurn, SingleIdle
<1>5. SameAnswers'
  BY <1>1, <1>2, Zenon DEF BothInv, SameAnswers, Shown
<1>. QED
  BY <1>3, <1>4, <1>5 DEF BothInv

(* Any document, any batch of pointers and any options: when the batch     *)
(* succeeds, each of its pointers alone succeeds, with the same match, or  *)
(* as the batch without one (pointer_differential.rs 81-83).               *)
THEOREM BatchAgreesWithSingles == BothSpec => []BatchMatchesSingles
<1>1. BothInit => BothInv
  BY BothStart
<1>2. BothInv /\ [BothNext]_bothVars => BothInv'
  BY BatchStep, StartSingleStep, StepSingleStep, CollectSingleStep, CollectAllStep, BothRest DEF BothNext
<1>3. BothInv => BatchMatchesSingles
  <2>. SUFFICES ASSUME BothInv, AllReturned, outcome = "ok", NEW q \in DOMAIN ptrs
                PROVE  singles[q] = [outcome |-> "ok", match |-> results[q]]
    BY DEF BatchMatchesSingles
  <2>1. q \in 1 .. Len(singles)
    BY LenProperties DEF AllReturned, BothInv, BInv, TypeOK
  <2>. QED
    BY <2>1 DEF BothInv, SameAnswers
<1>. QED
  BY <1>1, <1>2, <1>3, PTL DEF BothSpec
=============================================================================
