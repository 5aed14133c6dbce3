-------------------------- MODULE FusedCursorProofs --------------------------
(***************************************************************************)
(* The fused cursor, for every set of documents and options and every      *)
(* checkpoint period.  First its inductive invariant: what the registers   *)
(* of the two loops and the frames say of the containers the sink has      *)
(* open.  From it, what of an array a sink that spills has to hold, and    *)
(* that every step keeps the promise of SinkProtocol.                      *)
(***************************************************************************)
EXTENDS FusedCursor, FlatSinkProofs

InLoop == InFlatLoop \/ InMainLoop

-----------------------------------------------------------------------------
(* A step that returns leaves only types to be checked.                    *)
LEMMA ReturnedStep ==
    ASSUME TypeOK', outcome' \notin {"none", "parsing"}, pc' = "idle"
    PROVE  CInv'
BY DEF CInv, NoUnderflow, FrameChain, Innermost, MarksOrdered, OutsideContainers,
       InFlatLoop, InMainLoop

(* The token at hand is one, and consuming it stays within the document.   *)
LEMMA TokFacts ==
    ASSUME TypeOK, pos < Len(doc)
    PROVE  Tok \in Token /\ pos + 1 \in 0 .. Len(doc) /\ pos + 1 \in Nat
<1>1. Len(doc) \in Nat /\ pos \in Nat /\ pos + 1 \in 1 .. Len(doc)
  BY LenProperties DEF TypeOK
<1>. QED
  BY <1>1, ElementOfSeq DEF TypeOK, Tok

(* A step that returns a parse error keeps the invariant.                  *)
LEMMA FailStep ==
    ASSUME CInv, pos < Len(doc), NEW error \in ParseErrors, Fail(error)
    PROVE  CInv'
<1>1. TypeOK'
  BY TokFacts DEF CInv, TypeOK, Fail, Return, sinkVars, SinkTypeOK, Pcs
<1>2. outcome' \notin {"none", "parsing"} /\ pc' = "idle"
  BY DEF Fail, Return, ParseErrors
<1>. QED
  BY <1>1, <1>2, ReturnedStep

(* The registers of both loops and the frames, of their types.             *)
RegistersOK ==
    /\ stack \in Seq(Frames)
    /\ mark \in Nat \cup {ROOT_MARK} /\ cnt \in Nat /\ kind \in Kinds
    /\ flat \in [kind: Kinds, mark: Nat, cnt: Nat]

(* A step whose sink call is refused keeps the invariant, whatever it had  *)
(* done to the frames and the registers before the call.                   *)
LEMMA RefusedStep ==
    ASSUME CInv, pos' \in {pos, pos + 1}, pos' \in 0 .. Len(doc),
           UNCHANGED <<doc, opts>>, RegistersOK',
           NEW c \in CallRecord, RefusedBy(c)
    PROVE  CInv'
<1>1. SinkTypeOK'
  BY SinkRefusesFacts DEF CInv, TypeOK, RefusedBy
<1>2. TypeOK'
  BY <1>1 DEF CInv, TypeOK, RegistersOK, RefusedBy, Return, Pcs
<1>3. outcome' \notin {"none", "parsing"} /\ pc' = "idle"
  BY DEF RefusedBy, Return
<1>. QED
  BY <1>2, <1>3, ReturnedStep

(* What the invariant says inside a loop, in one place.                    *)
LEMMA LoopFacts ==
    ASSUME CInv, InLoop
    PROVE  /\ open # <<>> /\ open \in Seq(Container) /\ Len(open) \in Nat \ {0}
           /\ stack \in Seq(Frames) /\ Len(stack) \in Nat \ {0}
           /\ Len(stack) = IF InFlatLoop THEN Len(open) ELSE Len(open) + 1
           /\ Top(open) \in Container /\ vals \in Nat
           /\ ~ (InFlatLoop /\ InMainLoop)
           /\ outcome = "parsing"
<1>1. open # <<>> /\ open \in Seq(Container) /\ stack \in Seq(Frames) /\ vals \in Nat
  BY DEF CInv, InLoop, NoUnderflow, Innermost, TypeOK, SinkTypeOK
<1>2. Len(open) \in Nat \ {0} /\ Top(open) \in Container
  BY <1>1, PopFacts
<1>3. ~ (InFlatLoop /\ InMainLoop) /\ outcome = "parsing"
  BY DEF InFlatLoop, InMainLoop, InLoop
<1>4. Len(stack) = IF InFlatLoop THEN Len(open) ELSE Len(open) + 1
  BY <1>3 DEF CInv, NoUnderflow, InLoop
<1>. QED
  BY <1>1, <1>2, <1>3, <1>4

-----------------------------------------------------------------------------
(* A step inside the innermost container: the loop goes on, and the        *)
(* ancestors and their frames are as they were.                            *)
SameAncestors ==
    /\ \/ InFlatLoop /\ InFlatLoop' /\ UNCHANGED <<stack, mark, cnt, kind>>
       \/ InMainLoop /\ InMainLoop' /\ UNCHANGED stack
    /\ open' # <<>>
    /\ Len(open') = Len(open)
    /\ \A i \in 1 .. Len(open) - 1 : open'[i] = open[i]
    /\ Top(open').mark = Top(open).mark

(* Such a step keeps the invariant when it keeps the registers in step     *)
(* with the innermost container and the value stack above its mark.        *)
LEMMA InsideStep ==
    ASSUME CInv, SameAncestors, TypeOK', Innermost',
           Top(open).mark <= vals', AfterValue' => Top(open).mark < vals'
    PROVE  CInv'
<1>1. InLoop /\ InLoop' /\ (InFlatLoop' <=> InFlatLoop) /\ (InMainLoop' <=> InMainLoop)
  BY DEF SameAncestors, InLoop, InFlatLoop, InMainLoop
<1>2. /\ Len(open) \in Nat \ {0} /\ Len(stack) \in Nat \ {0}
      /\ Len(stack) = IF InFlatLoop THEN Len(open) ELSE Len(open) + 1
      /\ stack' = stack /\ Len(open') = Len(open)
  BY <1>1, LoopFacts DEF SameAncestors
<1>3. NoUnderflow'
  <2>1. InFlatLoop' => Len(stack') = Len(open') /\ (mark' = ROOT_MARK <=> Len(stack') = 1)
    BY <1>1, <1>2, LoopFacts DEF CInv, NoUnderflow, SameAncestors
  <2>2. InMainLoop' => Len(stack') = Len(open') + 1 /\ open' # <<>>
    BY <1>1, <1>2, LoopFacts DEF SameAncestors
  <2>3. \A i \in DOMAIN stack : stack[i].kind = "root" <=> i <= 2
    BY <1>1 DEF CInv, NoUnderflow, InLoop
  <2>. QED
    BY <1>2, <2>1, <2>2, <2>3 DEF NoUnderflow
<1>4. FrameChain'
  <2>1. ASSUME NEW i \in 3 .. Len(stack')
        PROVE  AncestorOf(stack'[i], open'[i - 2])
    <3>1. i \in 3 .. Len(stack) /\ i - 2 \in 1 .. Len(open) - 1 /\ stack'[i] = stack[i]
      BY <1>2
    <3>2. open'[i - 2] = open[i - 2]
      BY <3>1 DEF SameAncestors
    <3>. QED
      BY <1>1, <3>1, <3>2 DEF CInv, FrameChain, InLoop
  <2>2. ASSUME InFlatLoop', Len(open') > 1
        PROVE  AncestorOf(Registers', open'[Len(open') - 1])
    <3>1. Len(open) - 1 \in 1 .. Len(open) - 1
      BY <1>2, <2>2
    <3>2. open'[Len(open') - 1] = open[Len(open) - 1]
      BY <1>2, <3>1 DEF SameAncestors
    <3>3. Registers' = Registers
      BY <1>1, <2>2 DEF SameAncestors, Registers, InFlatLoop, InMainLoop
    <3>. QED
      BY <1>1, <1>2, <2>2, <3>2, <3>3 DEF CInv, FrameChain
  <2>. QED
    BY <2>1, <2>2 DEF FrameChain
<1>5. MarksOrdered'
  <2>1. ASSUME NEW i \in 1 .. Len(open') - 1
        PROVE  open'[i].mark <= open'[i + 1].mark
    <3>1. /\ i \in 1 .. Len(open) - 1 /\ open[i].mark <= open[i + 1].mark
          /\ open'[i] = open[i]
      BY <1>1, <1>2 DEF CInv, MarksOrdered, SameAncestors, InLoop
    <3>2. CASE i + 1 = Len(open)
      BY <1>2, <3>1, <3>2 DEF SameAncestors, Top
    <3>3. CASE i + 1 \in 1 .. Len(open) - 1
      BY <1>2, <3>1, <3>3 DEF SameAncestors
    <3>. QED
      BY <1>2, <3>1, <3>2, <3>3
  <2>. QED
    BY <2>1 DEF MarksOrdered, SameAncestors, AfterValue
<1>6. OutsideContainers'
  BY <1>1 DEF OutsideContainers, InLoop, InFlatLoop, InMainLoop, AtRoot
<1>. QED
  BY <1>3, <1>4, <1>5, <1>6 DEF CInv

(* A container opens.  The frames and registers made ready for it describe *)
(* the containers that are open already.                                   *)
ReadyForChild ==
    /\ stack' \in Seq(Frames)
    /\ mark' \in Nat \cup {ROOT_MARK} /\ cnt' \in Nat /\ kind' \in Kinds
    /\ Len(stack') = Len(open) + 1
    /\ mark' = ROOT_MARK <=> open = <<>>
    /\ \A i \in 1 .. Len(stack') : stack'[i].kind = "root" <=> i <= 2
    /\ \A i \in 3 .. Len(stack') : AncestorOf(stack'[i], open[i - 2])
    /\ open # <<>> => AncestorOf([kind |-> kind', mark |-> mark', cnt |-> cnt'], Top(open))
    /\ \A i \in 1 .. Len(open) - 1 : open[i].mark <= open[i + 1].mark
    /\ open # <<>> => Top(open).mark <= vals

(* The opener's container begins over them, or the sink refuses it.        *)
LEMMA AttemptStep ==
    ASSUME CInv, outcome = "parsing", pos < Len(doc), Tok \in Openers, Consume, Attempt,
           ReadyForChild
    PROVE  CInv'
<1>1. /\ KindOf(Tok) \in Kinds /\ pos' = pos + 1 /\ pos' \in 0 .. Len(doc)
      /\ UNCHANGED <<doc, opts>> /\ vals \in Nat
      /\ flat \in [kind: Kinds, mark: Nat, cnt: Nat]
      /\ open \in Seq(Container) /\ Len(open) \in Nat
  BY TokFacts, LenProperties DEF KindOf, Kinds, Consume, CInv, TypeOK, SinkTypeOK
<1>2. CASE RefusedBy(BeginCall(KindOf(Tok))) /\ UNCHANGED flat
  <2>1. BeginCall(KindOf(Tok)) \in CallRecord
    BY <1>1 DEF BeginCall, Call, CallRecord
  <2>2. RegistersOK'
    BY <1>1, <1>2 DEF RegistersOK, ReadyForChild
  <2>. QED
    BY <1>1, <1>2, <2>1, <2>2, RefusedStep
<1>3. CASE /\ SinkBegin(KindOf(Tok))
           /\ flat' = [kind |-> KindOf(Tok), mark |-> vals, cnt |-> 0]
           /\ Continue("flat")
  <2>1. /\ SinkTypeOK'
        /\ vals' = vals
        /\ open' # <<>>
        /\ Len(open') = Len(open) + 1
        /\ \A i \in 1 .. Len(open) : open'[i] = open[i]
        /\ Top(open') = [kind |-> KindOf(Tok), mark |-> vals, keys |-> 0, len |-> 0]
    BY <1>1, <1>3, SinkBeginFacts DEF CInv, TypeOK
  <2>2. pc' = "flat" /\ outcome' = "parsing" /\ errorAt' = errorAt
    BY <1>3 DEF Continue
  <2>3. InFlatLoop' /\ ~ InMainLoop' /\ ~ AtRoot'
    BY <2>2 DEF InFlatLoop, InMainLoop, AtRoot
  <2>4. TypeOK'
    BY <1>1, <1>3, <2>1, <2>2 DEF CInv, TypeOK, Pcs, ReadyForChild
  <2>5. open # <<>> <=> Len(open) > 0
    BY <1>1, EmptySeq
  <2>6. NoUnderflow'
    <3>1. Len(stack') = Len(open') /\ (mark' = ROOT_MARK <=> Len(stack') = 1)
      BY <1>1, <2>1, <2>5 DEF ReadyForChild
    <3>2. DOMAIN stack' = 1 .. Len(stack')
      BY LenProperties DEF ReadyForChild
    <3>. QED
      BY <2>3, <3>1, <3>2 DEF NoUnderflow, ReadyForChild
  <2>7. FrameChain'
    <3>1. ASSUME NEW i \in 3 .. Len(stack')
          PROVE  AncestorOf(stack'[i], open'[i - 2])
      <4>1. Len(stack') = Len(open) + 1 /\ AncestorOf(stack'[i], open[i - 2])
        BY DEF ReadyForChild
      <4>2. i - 2 \in 1 .. Len(open)
        BY <1>1, <4>1
      <4>. QED
        BY <2>1, <4>1, <4>2
    <3>2. ASSUME Len(open') > 1
          PROVE  AncestorOf(Registers', open'[Len(open') - 1])
      <4>1. Len(open) \in 1 .. Len(open) /\ open'[Len(open') - 1] = open[Len(open)]
        BY <1>1, <2>1, <3>2
      <4>2. AncestorOf([kind |-> kind', mark |-> mark', cnt |-> cnt'], Top(open))
        BY <1>1, <2>1, <2>5, <3>2 DEF ReadyForChild
      <4>. QED
        BY <4>1, <4>2 DEF Registers, Top
    <3>. QED
      BY <3>1, <3>2 DEF FrameChain
  <2>8. Innermost'
    BY <1>3, <2>1, <2>2, <2>3 DEF Innermost, CurrentOf
  <2>9. MarksOrdered'
    <3>1. ASSUME NEW i \in 1 .. Len(open') - 1
          PROVE  open'[i].mark <= open'[i + 1].mark
      <4>1. CASE i = Len(open)
        BY <1>1, <2>1, <2>5, <4>1 DEF ReadyForChild, Top
      <4>2. CASE i \in 1 .. Len(open) - 1
        <5>1. open[i].mark <= open[i + 1].mark
          BY <4>2 DEF ReadyForChild
        <5>2. i \in 1 .. Len(open) /\ i + 1 \in 1 .. Len(open)
          BY <1>1, <4>2
        <5>. QED
          BY <2>1, <5>1, <5>2
      <4>. QED
        BY <1>1, <2>1, <4>1, <4>2
    <3>. QED
      BY <1>1, <2>1, <2>2, <3>1, SMTT(30) DEF MarksOrdered, AfterValue
  <2>10. OutsideContainers'
    BY <2>2, <2>3 DEF OutsideContainers
  <2>. QED
    BY <2>4, <2>6, <2>7, <2>8, <2>9, <2>10 DEF CInv
<1>. QED
  BY <1>2, <1>3 DEF Attempt

(* A nested container in the flat loop: the current registers join the     *)
(* frames, and the flat ones, with the child counted, become current.      *)
LEMMA DescendStep ==
    ASSUME CInv, InFlatLoop, pos < Len(doc), Tok \in Openers, Descend(Top(open).len + 1),
           flat.kind = "object" => Top(open).keys = Top(open).len + 1
    PROVE  CInv'
<1>1. /\ open # <<>> /\ Len(open) \in Nat \ {0} /\ Len(stack) = Len(open)
      /\ Top(open) \in Container /\ vals \in Nat /\ stack \in Seq(Frames)
      /\ outcome = "parsing" /\ InLoop
      /\ mark = ROOT_MARK <=> Len(stack) = 1
      /\ \A i \in DOMAIN stack : stack[i].kind = "root" <=> i <= 2
      /\ DOMAIN stack = 1 .. Len(stack)
  BY LoopFacts, LenProperties DEF InLoop, CInv, NoUnderflow
<1>2. /\ mark \in Nat \cup {ROOT_MARK} /\ cnt \in Nat /\ kind \in Kinds
      /\ flat.kind \in Kinds /\ flat.mark \in Nat
  BY DEF CInv, TypeOK
<1>3. CurrentFrame \in Frames /\ (CurrentFrame.kind = "root" <=> mark = ROOT_MARK)
  BY <1>2 DEF CurrentFrame, RootFrame, Frames, Kinds
<1>4. /\ stack' \in Seq(Frames) /\ Len(stack') = Len(stack) + 1
      /\ \A i \in 1 .. Len(stack) : stack'[i] = stack[i]
      /\ stack'[Len(stack) + 1] = CurrentFrame
  BY <1>1, <1>3, AppendProperties DEF Descend
<1>5. \A i \in 1 .. Len(stack') : stack'[i].kind = "root" <=> i <= 2
  <2>1. ASSUME NEW i \in 1 .. Len(stack') PROVE stack'[i].kind = "root" <=> i <= 2
    <3>1. CASE i \in 1 .. Len(stack)
      BY <1>1, <1>4, <3>1
    <3>2. CASE i = Len(stack) + 1
      BY <1>1, <1>3, <1>4, <3>2
    <3>. QED
      BY <1>1, <1>4, <3>1, <3>2
  <2>. QED
    BY <2>1
<1>6. \A i \in 3 .. Len(stack') : AncestorOf(stack'[i], open[i - 2])
  <2>1. ASSUME NEW i \in 3 .. Len(stack') PROVE AncestorOf(stack'[i], open[i - 2])
    <3>1. CASE i \in 3 .. Len(stack)
      BY <1>1, <1>4, <3>1 DEF CInv, FrameChain
    <3>2. CASE i = Len(stack) + 1
      <4>1. Len(open) > 1 /\ i - 2 = Len(open) - 1 /\ mark # ROOT_MARK
        BY <1>1, <1>4, <3>2
      <4>2. stack'[i] = Registers
        BY <1>4, <3>2, <4>1 DEF CurrentFrame, Registers
      <4>. QED
        BY <4>1, <4>2 DEF CInv, FrameChain
    <3>. QED
      BY <1>1, <1>4, <3>1, <3>2
  <2>. QED
    BY <2>1
<1>7. AncestorOf([kind |-> kind', mark |-> mark', cnt |-> cnt'], Top(open))
  BY DEF Descend, AncestorOf, CInv, Innermost, CurrentOf
<1>8. /\ \A i \in 1 .. Len(open) - 1 : open[i].mark <= open[i + 1].mark
      /\ Top(open).mark <= vals
  BY <1>1 DEF CInv, MarksOrdered, InLoop
<1>9. /\ mark' \in Nat /\ cnt' \in Nat /\ kind' \in Kinds /\ mark' # ROOT_MARK
  BY <1>1, <1>2 DEF Descend, Container, ROOT_MARK
<1>10. ReadyForChild
  BY <1>1, <1>4, <1>5, <1>6, <1>7, <1>8, <1>9 DEF ReadyForChild
<1>. QED
  BY <1>1, <1>10, AttemptStep DEF Descend

(* A scalar accepted inside a container, in either loop.                   *)
LEMMA ScalarInside ==
    ASSUME CInv, InLoop, NEW t \in Token, SinkScalar(t)
    PROVE  /\ SinkTypeOK'
           /\ Top(open).mark < vals'
           /\ Len(open') = Len(open)
           /\ \A i \in 1 .. Len(open) - 1 : open'[i] = open[i]
           /\ open' # <<>>
           /\ Top(open').kind = Top(open).kind
           /\ Top(open').mark = Top(open).mark
           /\ Top(open').keys = Top(open).keys
           /\ Top(open').len = Top(open).len + 1
<1>1. open # <<>> /\ Top(open) \in Container /\ vals \in Nat /\ Top(open).mark <= vals
  BY LoopFacts DEF CInv, MarksOrdered, InLoop
<1>2. Top(open).mark \in Nat
  BY <1>1 DEF Container
<1>. QED
  BY <1>1, <1>2, SinkScalarFacts DEF CInv, TypeOK

(* A scalar that the options accept is a token a sink may be given.        *)
LEMMA ScalarTokFacts ==
    ASSUME CInv, pos < Len(doc)
    PROVE  /\ ScalarCall(Tok) \in CallRecord
           /\ Tok \in Token /\ pos + 1 \in 0 .. Len(doc)
           /\ RegistersOK
<1>1. Tok \in Token /\ pos + 1 \in 0 .. Len(doc)
  BY TokFacts DEF CInv
<1>2. ScalarCall(Tok) \in CallRecord
  BY <1>1 DEF ScalarCall, Call, CallRecord
<1>. QED
  BY <1>1, <1>2 DEF RegistersOK, CInv, TypeOK

(* The value of an element or of a pair of the flat container.             *)
LEMMA FlatElementStep ==
    ASSUME CInv, InFlatLoop, pos < Len(doc), FlatElement(Top(open).len + 1),
           flat.kind = "object" => Top(open).keys = Top(open).len + 1
    PROVE  CInv'
<1>1. InLoop /\ Top(open) \in Container /\ outcome = "parsing"
  BY LoopFacts DEF InLoop
<1>2. CASE Tok \in Openers /\ Descend(Top(open).len + 1)
  BY <1>2, DescendStep
<1>3. CASE ErrorTok /\ Fail(ValueError(Tok))
  BY <1>3, FailStep DEF ValueError, ParseErrors
<1>4. CASE Consume /\ UNCHANGED <<stack, mark, cnt, kind>>
           /\ RefusedBy(ScalarCall(Tok)) /\ UNCHANGED flat
  BY <1>4, ScalarTokFacts, RefusedStep DEF Consume, RegistersOK
<1>5. CASE /\ Consume /\ UNCHANGED <<stack, mark, cnt, kind>>
           /\ SinkScalar(Tok)
           /\ flat' = [flat EXCEPT !.cnt = Top(open).len + 1]
           /\ Continue("separator")
  <2>1. Tok \in Token /\ pos + 1 \in 0 .. Len(doc)
    BY ScalarTokFacts
  <2>2. /\ SinkTypeOK' /\ Top(open).mark < vals'
        /\ Len(open') = Len(open)
        /\ \A i \in 1 .. Len(open) - 1 : open'[i] = open[i]
        /\ open' # <<>>
        /\ Top(open').kind = Top(open).kind
        /\ Top(open').mark = Top(open).mark
        /\ Top(open').keys = Top(open).keys
        /\ Top(open').len = Top(open).len + 1
    BY <1>1, <1>5, <2>1, ScalarInside
  <2>3. pc' = "separator" /\ outcome' = "parsing" /\ errorAt' = errorAt
    BY <1>1, <1>5 DEF Continue
  <2>4. InFlatLoop' /\ ~ InMainLoop'
    BY <2>3 DEF InFlatLoop, InMainLoop
  <2>5. /\ flat' \in [kind: Kinds, mark: Nat, cnt: Nat]
        /\ flat'.kind = flat.kind /\ flat'.mark = flat.mark /\ flat'.cnt = Top(open).len + 1
    <3>1. Top(open).len + 1 \in Nat /\ flat \in [kind: Kinds, mark: Nat, cnt: Nat]
      BY <1>1 DEF CInv, TypeOK, Container
    <3>. QED
      BY <1>5, <3>1
  <2>6. flat.kind = Top(open).kind /\ flat.mark = Top(open).mark
    BY DEF CInv, Innermost, CurrentOf
  <2>7. SameAncestors
    BY <1>5, <2>2, <2>4 DEF SameAncestors
  <2>8. TypeOK'
    BY <1>5, <2>1, <2>2, <2>3, <2>5 DEF CInv, TypeOK, Consume, Pcs
  <2>9. Innermost'
    BY <2>2, <2>3, <2>4, <2>5, <2>6 DEF Innermost, CurrentOf
  <2>10. vals' \in Nat /\ Top(open).mark \in Nat
    BY <1>1, <2>2 DEF SinkTypeOK, Container
  <2>. QED
    BY <2>2, <2>7, <2>8, <2>9, <2>10, InsideStep
<1>. QED
  BY <1>2, <1>3, <1>4, <1>5 DEF FlatElement

(* A step that consumes a token, or none, and calls no sink: only the      *)
(* count of the registers may move, with the place in the loop.            *)
LEMMA MoveOnStep ==
    ASSUME CInv, InLoop, SameAncestors, UNCHANGED <<doc, opts, outcome, errorAt, sinkVars>>,
           pos' \in 0 .. Len(doc), pc' \in Pcs, RegistersOK', Innermost',
           AfterValue' => AfterValue
    PROVE  CInv'
<1>1. SinkTypeOK' /\ open' = open /\ vals' = vals
  BY DEF CInv, TypeOK, SinkTypeOK, sinkVars
<1>2. TypeOK'
  BY <1>1 DEF CInv, TypeOK, RegistersOK
<1>3. Top(open).mark <= vals' /\ (AfterValue' => Top(open).mark < vals')
  BY <1>1 DEF CInv, MarksOrdered, InLoop, AfterValue
<1>. QED
  BY <1>2, <1>3, InsideStep

(* A key, in either loop: the pair counts once its colon has been seen.    *)
LEMMA EmitKeyStep ==
    ASSUME CInv, pos < Len(doc), NEW next, EmitKey(next),
           \/ InFlatLoop /\ pc = "flat" /\ flat.kind = "object" /\ next = "colon"
           \/ InMainLoop /\ pc = "key" /\ next = "main_colon"
    PROVE  CInv'
<1>1. InLoop /\ Top(open) \in Container /\ outcome = "parsing" /\ open # <<>> /\ vals \in Nat
  BY LoopFacts DEF InLoop
<1>2. CASE Tok = "badstr" /\ Fail("scalar_error")
  BY <1>2, FailStep DEF ParseErrors
<1>3. CASE Tok \notin Quoted /\ Fail("expected")
  BY <1>3, FailStep DEF ParseErrors
<1>4. Tok \in Token /\ pos + 1 \in 0 .. Len(doc) /\ KeyCall(Tok) \in CallRecord /\ RegistersOK
  BY ScalarTokFacts DEF KeyCall, Call, CallRecord
<1>5. CASE /\ Consume /\ UNCHANGED <<stack, mark, cnt, kind, flat>>
           /\ RefusedBy(KeyCall(Tok))
  BY <1>4, <1>5, RefusedStep DEF Consume, RegistersOK
<1>6. CASE /\ Consume /\ UNCHANGED <<stack, mark, cnt, kind, flat>>
           /\ SinkKey(Tok) /\ Continue(next)
  <2>1. /\ SinkTypeOK' /\ vals' = vals
        /\ Len(open') = Len(open)
        /\ \A i \in 1 .. Len(open) - 1 : open'[i] = open[i]
        /\ open' # <<>>
        /\ Top(open').kind = Top(open).kind
        /\ Top(open').mark = Top(open).mark
        /\ Top(open').keys = Top(open).keys + 1
        /\ Top(open').len = Top(open).len
    BY <1>1, <1>4, <1>6, SinkKeyFacts DEF CInv, TypeOK
  <2>2. pc' = next /\ outcome' = "parsing" /\ errorAt' = errorAt
    BY <1>1, <1>6 DEF Continue
  <2>3. SameAncestors
    BY <1>6, <2>1, <2>2 DEF SameAncestors, InFlatLoop, InMainLoop, AtRoot
  <2>4. TypeOK'
    BY <1>4, <1>6, <2>1, <2>2 DEF CInv, TypeOK, Consume, Pcs
  <2>5. Innermost'
    <3>1. CASE InFlatLoop /\ pc = "flat" /\ flat.kind = "object" /\ next = "colon"
      <4>1. ~ InMainLoop' /\ flat' = flat /\ pc' = "colon"
        BY <1>6, <2>2, <3>1 DEF InMainLoop
      <4>2. CurrentOf(flat, Top(open))
        BY <3>1 DEF CInv, Innermost
      <4>3. CurrentOf(flat, Top(open))'
        BY <2>1, <3>1, <4>1, <4>2 DEF CurrentOf
      <4>. QED
        BY <2>1, <4>1, <4>3 DEF Innermost
    <3>2. CASE InMainLoop /\ pc = "key" /\ next = "main_colon"
      <4>1. ~ InFlatLoop' /\ Registers' = Registers /\ pc' = "main_colon"
        BY <1>6, <2>2, <3>2 DEF InFlatLoop, Registers
      <4>2. CurrentOf(Registers, Top(open))
        BY <3>2 DEF CInv, Innermost
      <4>3. CurrentOf(Registers, Top(open))'
        BY <2>1, <3>2, <4>1, <4>2 DEF CurrentOf
      <4>. QED
        BY <2>1, <4>1, <4>3 DEF Innermost
    <3>. QED
      BY <3>1, <3>2
  <2>6. Top(open).mark <= vals' /\ ~ AfterValue'
    BY <1>1, <2>1, <2>2 DEF CInv, MarksOrdered, InLoop, AfterValue
  <2>. QED
    BY <2>3, <2>4, <2>5, <2>6, InsideStep
<1>. QED
  BY <1>2, <1>3, <1>5, <1>6 DEF EmitKey

(* The innermost container of several ends: the marks of the others keep   *)
(* their order, and the value it has become is above its parent's.         *)
LEMMA MarksAfterEnd ==
    ASSUME CInv, InLoop, Len(open) > 1, vals' = Top(open).mark + 1,
           Len(open') = Len(open) - 1,
           \A i \in 1 .. Len(open) - 2 : open'[i] = open[i],
           Top(open').mark = open[Len(open) - 1].mark
    PROVE  MarksOrdered'
<1>. DEFINE n == Len(open)
<1>1. open \in Seq(Container) /\ n \in Nat \ {0} /\ Top(open) \in Container
  BY LoopFacts
<1>2. n - 1 \in 1 .. n /\ n - 1 \in 1 .. n - 1 /\ (n - 1) + 1 = n
  BY <1>1
<1>3. open[n - 1] \in Container
  BY <1>1, <1>2, ElementOfSeq
<1>4. \A i \in 1 .. n - 1 : open[i].mark <= open[i + 1].mark
  BY DEF CInv, MarksOrdered, InLoop
<1>5. open[n - 1].mark <= Top(open).mark
  <2>1. open[n - 1].mark <= open[(n - 1) + 1].mark
    BY <1>2, <1>4, Zenon
  <2>. QED
    BY <1>2, <2>1 DEF Top
<1>6. Top(open').mark < vals' /\ Top(open').mark <= vals'
  <2>1. Top(open).mark \in Nat /\ open[n - 1].mark \in Nat /\ vals' = Top(open).mark + 1
    BY <1>1, <1>3 DEF Container
  <2>. QED
    BY <1>5, <2>1
<1>7. ASSUME NEW i \in 1 .. Len(open') - 1
      PROVE  open'[i].mark <= open'[i + 1].mark
  <2>1. i \in 1 .. n - 2 /\ open'[i] = open[i] /\ open[i].mark <= open[i + 1].mark
    BY <1>1, <1>4
  <2>2. CASE i + 1 = n - 1
    BY <2>1, <2>2 DEF Top
  <2>3. CASE i + 1 \in 1 .. n - 2
    BY <2>1, <2>3
  <2>. QED
    BY <1>1, <2>1, <2>2, <2>3
<1>. QED
  BY <1>6, <1>7 DEF MarksOrdered

(* The flat container ends: the current registers, which count it already, *)
(* are those of the container the main loop goes on with, if there is one. *)
LEMMA FlatEndStep ==
    ASSUME CInv, InFlatLoop, pc \in {"flat", "separator"}, pos < Len(doc), FlatEnd
    PROVE  CInv'
<1>. DEFINE n == Len(open)
<1>1. /\ open # <<>> /\ n \in Nat \ {0} /\ Len(stack) = n /\ stack \in Seq(Frames)
      /\ open \in Seq(Container) /\ vals \in Nat /\ outcome = "parsing" /\ InLoop
      /\ mark = ROOT_MARK <=> n = 1
      /\ DOMAIN stack = 1 .. n
      /\ \A i \in 1 .. n : stack[i].kind = "root" <=> i <= 2
  BY LoopFacts, LenProperties DEF InLoop, CInv, NoUnderflow
<1>2. /\ flat.kind \in Kinds /\ flat.mark \in Nat /\ flat.cnt \in Nat
      /\ flat.mark = Top(open).mark
      /\ Tok \in Token /\ pos + 1 \in 0 .. Len(doc) /\ RegistersOK
  BY ScalarTokFacts DEF CInv, TypeOK, Innermost, CurrentOf
<1>3. /\ Consume /\ UNCHANGED <<stack, mark, cnt, kind, flat>>
      /\ pos' = pos + 1 /\ UNCHANGED <<doc, opts>>
  BY DEF FlatEnd, Consume
<1>4. CASE RefusedBy(EndCall(flat.kind, flat.mark, flat.cnt))
  <2>1. EndCall(flat.kind, flat.mark, flat.cnt) \in CallRecord
    BY <1>2 DEF EndCall, Call, CallRecord
  <2>2. RegistersOK'
    BY <1>2, <1>3 DEF RegistersOK
  <2>. QED
    BY <1>2, <1>3, <1>4, <2>1, <2>2, RefusedStep
<1>5. CASE SinkEnd(flat.kind, flat.mark, flat.cnt) /\ Continue("main")
  <2>1. /\ SinkTypeOK'
        /\ calls' # <<>>
        /\ vals' = flat.mark + 1
        /\ Len(open') = n - 1
        /\ n = 1 => open' = <<>>
        /\ \A i \in 1 .. n - 2 : open'[i] = open[i]
        /\ n > 1 =>
              /\ open' # <<>>
              /\ Top(open').kind = open[n - 1].kind
              /\ Top(open').mark = open[n - 1].mark
              /\ Top(open').keys = open[n - 1].keys
              /\ Top(open').len = open[n - 1].len + 1
    BY <1>1, <1>2, <1>5, SinkEndFacts DEF CInv, TypeOK
  <2>2. pc' = "main" /\ outcome' = "parsing" /\ errorAt' = errorAt
    BY <1>1, <1>5 DEF Continue
  <2>3. TypeOK'
    BY <1>2, <1>3, <2>1, <2>2 DEF CInv, TypeOK, Pcs
  <2>4. ~ InFlatLoop' /\ (InMainLoop' <=> n # 1) /\ (AtRoot' <=> n = 1)
    BY <1>1, <1>3, <2>2 DEF InFlatLoop, InMainLoop, AtRoot
  <2>5. CASE n = 1
    BY <2>1, <2>2, <2>3, <2>4, <2>5
       DEF CInv, NoUnderflow, FrameChain, Innermost, MarksOrdered, OutsideContainers
  <2>6. CASE n > 1
    <3>1. n - 1 \in 1 .. n /\ n - 1 \in 1 .. n - 1 /\ (n - 1) + 1 = n
      BY <1>1, <2>6
    <3>2. NoUnderflow'
      <4>1. Len(stack') = Len(open') + 1 /\ DOMAIN stack' = 1 .. n
        BY <1>1, <1>3, <2>1
      <4>. QED
        BY <1>1, <1>3, <2>1, <2>4, <2>6, <4>1 DEF NoUnderflow
    <3>3. FrameChain'
      <4>1. ASSUME NEW i \in 3 .. Len(stack') PROVE AncestorOf(stack'[i], open'[i - 2])
        <5>1. AncestorOf(stack[i], open[i - 2]) /\ stack'[i] = stack[i] /\ i - 2 \in 1 .. n - 2
          BY <1>1, <1>3 DEF CInv, FrameChain
        <5>. QED
          BY <2>1, <5>1
      <4>. QED
        BY <2>4, <4>1 DEF FrameChain
    <3>4. AncestorOf(Registers, open[n - 1])
      BY <2>6 DEF CInv, FrameChain
    <3>5. Innermost'
      <4>1. Registers' = Registers
        BY <1>3 DEF Registers
      <4>2. CurrentOf(Registers, Top(open))'
        BY <2>1, <2>2, <2>6, <3>4, <4>1 DEF CurrentOf, AncestorOf
      <4>. QED
        BY <2>4, <4>2 DEF Innermost
    <3>6. MarksOrdered'
      BY <1>1, <1>2, <2>1, <2>6, MarksAfterEnd
    <3>7. OutsideContainers'
      BY <1>1, <2>2, <2>4, <2>6 DEF OutsideContainers
    <3>. QED
      BY <2>3, <3>2, <3>3, <3>5, <3>6, <3>7 DEF CInv
  <2>. QED
    BY <1>1, <2>5, <2>6
<1>. QED
  BY <1>4, <1>5 DEF FlatEnd

(* A container of the main loop ends: the frame popped holds what its      *)
(* parent's registers are to be.                                           *)
LEMMA MainEndStep ==
    ASSUME CInv, InMainLoop, pc = "main", pos < Len(doc), MainEnd
    PROVE  CInv'
<1>. DEFINE n == Len(open)
<1>1. /\ open # <<>> /\ n \in Nat \ {0} /\ Len(stack) = n + 1 /\ stack \in Seq(Frames)
      /\ open \in Seq(Container) /\ vals \in Nat /\ outcome = "parsing" /\ InLoop
      /\ DOMAIN stack = 1 .. n + 1
      /\ \A i \in 1 .. n + 1 : stack[i].kind = "root" <=> i <= 2
  BY LoopFacts, LenProperties DEF InLoop, CInv, NoUnderflow
<1>2. /\ stack # <<>> /\ Top(stack) = stack[n + 1] /\ Top(stack) \in Frames
      /\ Pop(stack) \in Seq(Frames) /\ Len(Pop(stack)) = n
      /\ \A i \in 1 .. n : Pop(stack)[i] = stack[i]
  <2>1. stack # <<>> /\ Top(stack) = stack[n + 1]
    BY <1>1, EmptySeq DEF Top
  <2>2. /\ Top(stack) \in Frames
        /\ Pop(stack) \in Seq(Frames) /\ Len(Pop(stack)) = Len(stack) - 1
        /\ \A i \in 1 .. Len(stack) - 1 : Pop(stack)[i] = stack[i]
    BY <1>1, <2>1, PopFacts
  <2>3. Len(stack) - 1 = n
    BY <1>1
  <2>. QED
    BY <2>1, <2>2, <2>3
<1>3. /\ mark = Top(open).mark /\ Top(open) \in Container
      /\ Tok \in Token /\ pos + 1 \in 0 .. Len(doc) /\ RegistersOK
  BY <1>1, LoopFacts, ScalarTokFacts DEF CInv, Innermost, CurrentOf, Registers
<1>4. mark \in Nat /\ kind \in Kinds /\ cnt \in Nat
  BY <1>3 DEF Container, RegistersOK
<1>5. Consume /\ flat' = flat /\ pos' = pos + 1 /\ UNCHANGED <<doc, opts>>
  BY DEF MainEnd, Consume
<1>6. CASE RefusedBy(EndCall(kind, mark, cnt)) /\ UNCHANGED <<stack, mark, cnt, kind>>
  <2>1. EndCall(kind, mark, cnt) \in CallRecord
    BY <1>4 DEF EndCall, Call, CallRecord
  <2>2. RegistersOK'
    BY <1>3, <1>5, <1>6 DEF RegistersOK
  <2>. QED
    BY <1>3, <1>5, <1>6, <2>1, <2>2, RefusedStep
<1>7. CASE /\ SinkEnd(kind, mark, cnt)
           /\ stack' = Pop(stack)
           /\ outcome' = outcome /\ errorAt' = errorAt
           /\ IF Top(stack).kind = "root"
              THEN UNCHANGED <<mark, cnt, kind>> /\ pc' = "finish"
              ELSE /\ mark' = Top(stack).mark
                   /\ cnt' = Top(stack).cnt
                   /\ kind' = Top(stack).kind
                   /\ pc' = "main"
  <2>1. /\ SinkTypeOK'
        /\ calls' # <<>>
        /\ vals' = mark + 1
        /\ Len(open') = n - 1
        /\ n = 1 => open' = <<>>
        /\ \A i \in 1 .. n - 2 : open'[i] = open[i]
        /\ n > 1 =>
              /\ open' # <<>>
              /\ Top(open').kind = open[n - 1].kind
              /\ Top(open').mark = open[n - 1].mark
              /\ Top(open').keys = open[n - 1].keys
              /\ Top(open').len = open[n - 1].len + 1
    BY <1>1, <1>4, <1>7, SinkEndFacts DEF CInv, TypeOK
  <2>2. Top(stack).kind = "root" <=> n = 1
    BY <1>1, <1>2
  <2>3. CASE n = 1 /\ UNCHANGED <<mark, cnt, kind>> /\ pc' = "finish"
    <3>1. TypeOK'
      BY <1>1, <1>2, <1>3, <1>5, <1>7, <2>1, <2>3 DEF CInv, TypeOK, Pcs
    <3>2. ~ InFlatLoop' /\ ~ InMainLoop' /\ outcome' = "parsing" /\ open' = <<>>
      BY <1>1, <1>7, <2>1, <2>3 DEF InFlatLoop, InMainLoop
    <3>. QED
      BY <2>1, <2>3, <3>1, <3>2
         DEF CInv, NoUnderflow, FrameChain, Innermost, MarksOrdered, OutsideContainers
  <2>4. CASE /\ n > 1
             /\ mark' = Top(stack).mark /\ cnt' = Top(stack).cnt /\ kind' = Top(stack).kind
             /\ pc' = "main"
    <3>1. n - 1 \in 1 .. n /\ n - 1 \in 1 .. n - 1 /\ (n - 1) + 1 = n
      BY <1>1, <2>4
    <3>2. open[n - 1] \in Container
      BY <1>1, <3>1, ElementOfSeq
    <3>3. AncestorOf(Top(stack), open[n - 1])
      <4>1. n + 1 \in 3 .. Len(stack) /\ (n + 1) - 2 = n - 1
        BY <1>1, <2>4
      <4>. QED
        BY <1>1, <1>2, <4>1 DEF CInv, FrameChain, InLoop
    <3>4. mark' \in Nat /\ cnt' \in Nat /\ kind' \in Kinds /\ mark' # ROOT_MARK
      BY <2>4, <3>2, <3>3 DEF AncestorOf, Container, ROOT_MARK
    <3>5. outcome' = "parsing" /\ InMainLoop' /\ ~ InFlatLoop' /\ ~ AtRoot'
      BY <1>1, <1>7, <2>4, <3>4 DEF InMainLoop, InFlatLoop, AtRoot
    <3>6. TypeOK'
      BY <1>1, <1>2, <1>3, <1>5, <1>7, <2>1, <2>4, <3>4 DEF CInv, TypeOK, Pcs
    <3>7. NoUnderflow'
      <4>1. Len(stack') = Len(open') + 1 /\ DOMAIN stack' = 1 .. n
        BY <1>1, <1>2, <1>7, <2>1, LenProperties
      <4>2. ASSUME NEW i \in DOMAIN stack' PROVE stack'[i].kind = "root" <=> i <= 2
        <5>1. i \in 1 .. n /\ i \in 1 .. n + 1
          BY <1>1, <4>1
        <5>2. stack'[i] = stack[i]
          BY <1>2, <1>7, <5>1
        <5>. QED
          BY <1>1, <5>1, <5>2
      <4>. QED
        BY <2>1, <2>4, <3>5, <4>1, <4>2 DEF NoUnderflow
    <3>8. FrameChain'
      <4>1. ASSUME NEW i \in 3 .. Len(stack') PROVE AncestorOf(stack'[i], open'[i - 2])
        <5>1. i \in 3 .. Len(stack) /\ stack'[i] = stack[i] /\ i - 2 \in 1 .. n - 2
          BY <1>1, <1>2, <1>7
        <5>2. AncestorOf(stack[i], open[i - 2])
          BY <1>1, <5>1 DEF CInv, FrameChain, InLoop
        <5>. QED
          BY <2>1, <5>1, <5>2
      <4>. QED
        BY <3>5, <4>1 DEF FrameChain
    <3>9. Innermost'
      <4>1. CurrentOf(Registers, Top(open))'
        BY <2>1, <2>4, <3>3 DEF CurrentOf, AncestorOf, Registers
      <4>. QED
        BY <3>5, <4>1 DEF Innermost
    <3>10. MarksOrdered'
      BY <1>1, <1>3, <2>1, <2>4, MarksAfterEnd
    <3>11. OutsideContainers'
      BY <2>4, <3>5 DEF OutsideContainers
    <3>. QED
      BY <3>6, <3>7, <3>8, <3>9, <3>10, <3>11 DEF CInv
  <2>. QED
    BY <1>1, <1>7, <2>2, <2>3, <2>4
<1>. QED
  BY <1>6, <1>7 DEF MainEnd, Continue

-----------------------------------------------------------------------------
(* The actions of the flat loop.                                           *)

(* Where the flat registers stand, by the place in the loop.               *)
LEMMA FlatAt ==
    ASSUME CInv, InFlatLoop
    PROVE  /\ pc \in {"flat", "separator"} =>
                 /\ flat.cnt = Top(open).len
                 /\ flat.kind = "object" => Top(open).keys = Top(open).len
           /\ pc = "value" => /\ flat.cnt = Top(open).len + 1
                              /\ flat.kind = "object" => Top(open).keys = Top(open).len + 1
           /\ pc \in {"colon", "value"} => flat.kind = "object"
           /\ flat.kind \in Kinds /\ flat.mark \in Nat /\ flat.cnt \in Nat
           /\ flat.mark = Top(open).mark
BY DEF CInv, Innermost, CurrentOf, TypeOK

(* A closer, a key or an element.                                          *)
LEMMA FlatStep ==
    ASSUME CInv, Flat
    PROVE  CInv'
<1>1. InFlatLoop /\ pc = "flat" /\ pos < Len(doc)
  BY DEF Flat, Reading, Running, InFlatLoop
<1>2. CASE FlatEnd
  BY <1>1, <1>2, FlatEndStep
<1>3. CASE flat.kind = "object" /\ EmitKey("colon")
  BY <1>1, <1>3, EmitKeyStep
<1>4. CASE flat.kind = "array" /\ FlatElement(flat.cnt + 1)
  <2>1. flat.cnt = Top(open).len /\ flat.kind # "object"
    BY <1>1, <1>4, FlatAt
  <2>. QED
    BY <1>1, <1>4, <2>1, FlatElementStep
<1>. QED
  BY <1>2, <1>3, <1>4 DEF Flat

(* The colon, at which the pair is counted.                                *)
LEMMA FlatColonStep ==
    ASSUME CInv, FlatColon
    PROVE  CInv'
<1>1. /\ InFlatLoop /\ InLoop /\ pc = "colon" /\ pos < Len(doc) /\ outcome = "parsing"
      /\ flat.kind = "object"
  BY FlatAt DEF FlatColon, Reading, Running, InFlatLoop, InLoop
<1>2. CASE Fail("expected")
  BY <1>1, <1>2, FailStep DEF ParseErrors
<1>3. CASE /\ Consume
           /\ flat' = [flat EXCEPT !.cnt = @ + 1]
           /\ Continue("value")
           /\ UNCHANGED <<stack, mark, cnt, kind, sinkVars>>
  <2>1. open' = open /\ vals' = vals /\ pc' = "value" /\ outcome' = "parsing" /\ errorAt' = errorAt
    BY <1>1, <1>3 DEF Continue, sinkVars
  <2>2. InFlatLoop' /\ ~ InMainLoop' /\ ~ AfterValue'
    BY <2>1 DEF InFlatLoop, InMainLoop, AfterValue
  <2>3. flat \in [kind: Kinds, mark: Nat, cnt: Nat] /\ RegistersOK /\ pos + 1 \in 0 .. Len(doc)
    BY <1>1, ScalarTokFacts DEF RegistersOK
  <2>4. /\ flat' \in [kind: Kinds, mark: Nat, cnt: Nat]
        /\ flat'.kind = flat.kind /\ flat'.mark = flat.mark /\ flat'.cnt = flat.cnt + 1
    BY <1>3, <2>3
  <2>5. SameAncestors
    BY <1>1, <1>3, <2>1, <2>2, LoopFacts DEF SameAncestors
  <2>6. CurrentOf(flat, Top(open)) /\ open # <<>>
    BY <1>1 DEF CInv, Innermost
  <2>7. Innermost'
    <3>1. CurrentOf(flat, Top(open))'
      BY <1>1, <2>1, <2>4, <2>6 DEF CurrentOf
    <3>. QED
      BY <2>1, <2>2, <2>6, <3>1 DEF Innermost
  <2>8. RegistersOK'
    BY <1>3, <2>3, <2>4 DEF RegistersOK
  <2>9. pc' \in Pcs
    BY <2>1 DEF Pcs
  <2>. QED
    BY <1>1, <1>3, <2>1, <2>2, <2>3, <2>5, <2>7, <2>8, <2>9, MoveOnStep DEF Consume
<1>. QED
  BY <1>2, <1>3 DEF FlatColon

(* The value of a pair.                                                    *)
LEMMA FlatValueStep ==
    ASSUME CInv, FlatValue
    PROVE  CInv'
<1>1. InFlatLoop /\ pc = "value" /\ pos < Len(doc) /\ FlatElement(flat.cnt)
  BY DEF FlatValue, Reading, Running, InFlatLoop
<1>2. flat.cnt = Top(open).len + 1 /\ (flat.kind = "object" => Top(open).keys = Top(open).len + 1)
  BY <1>1, FlatAt
<1>. QED
  BY <1>1, <1>2, FlatElementStep

(* A checkpoint inside a container leaves it and its ancestors alone, and  *)
(* the value stack no lower than its mark.                                 *)
LEMMA CheckpointInside ==
    ASSUME CInv, InLoop, SinkCheckpoint(Top(open).mark) \/ UNCHANGED sinkVars
    PROVE  SinkTypeOK' /\ open' = open /\ Top(open).mark <= vals'
<1>1. Top(open) \in Container /\ vals \in Nat /\ Top(open).mark <= vals
  BY LoopFacts DEF CInv, MarksOrdered, InLoop
<1>2. Top(open).mark \in Nat
  BY <1>1 DEF Container
<1>3. CASE SinkCheckpoint(Top(open).mark)
  BY <1>1, <1>2, <1>3, SinkCheckpointFacts DEF CInv, TypeOK
<1>4. CASE UNCHANGED sinkVars
  BY <1>1, <1>4 DEF sinkVars, CInv, TypeOK, SinkTypeOK
<1>. QED
  BY <1>3, <1>4

(* A comma: a checkpoint, or nothing to the sink.                          *)
LEMMA FlatCommaStep ==
    ASSUME CInv, InFlatLoop, pc = "separator", pos < Len(doc), FlatComma
    PROVE  CInv'
<1>1. InLoop /\ outcome = "parsing" /\ open # <<>> /\ CurrentOf(flat, Top(open))
  BY DEF InLoop, InFlatLoop, CInv, Innermost
<1>2. RegistersOK /\ pos + 1 \in 0 .. Len(doc)
  BY ScalarTokFacts
<1>3. Consume /\ UNCHANGED <<stack, mark, cnt, kind, flat>>
  BY DEF FlatComma
<1>4. RegistersOK' /\ pos' = pos + 1 /\ UNCHANGED <<doc, opts>>
  BY <1>2, <1>3 DEF RegistersOK, Consume
<1>5. CASE RefusedBy(CheckpointCall(flat.mark))
  <2>1. CheckpointCall(flat.mark) \in CallRecord
    BY FlatAt DEF CheckpointCall, Call, CallRecord, Kinds
  <2>. QED
    BY <1>2, <1>4, <1>5, <2>1, RefusedStep
<1>6. CASE (SinkCheckpoint(flat.mark) \/ UNCHANGED sinkVars) /\ Continue("flat")
  <2>1. SinkTypeOK' /\ open' = open /\ Top(open).mark <= vals'
    BY <1>1, <1>6, FlatAt, CheckpointInside
  <2>2. pc' = "flat" /\ outcome' = "parsing" /\ errorAt' = errorAt
    BY <1>1, <1>6 DEF Continue
  <2>3. InFlatLoop' /\ ~ InMainLoop' /\ ~ AfterValue'
    BY <2>2 DEF InFlatLoop, InMainLoop, AfterValue
  <2>4. SameAncestors
    BY <1>1, <1>3, <2>1, <2>3 DEF SameAncestors
  <2>5. TypeOK'
    BY <1>2, <1>4, <2>1, <2>2 DEF CInv, TypeOK, RegistersOK, Pcs
  <2>6. Innermost'
    <3>1. CurrentOf(flat, Top(open))'
      BY <1>1, <1>3, <2>1, <2>2 DEF CurrentOf
    <3>. QED
      BY <1>1, <2>1, <2>3, <3>1 DEF Innermost
  <2>. QED
    BY <2>1, <2>3, <2>4, <2>5, <2>6, InsideStep
<1>. QED
  BY <1>5, <1>6 DEF FlatComma

(* A comma, a closer, or neither.                                          *)
LEMMA FlatSeparatorStep ==
    ASSUME CInv, FlatSeparator
    PROVE  CInv'
<1>1. InFlatLoop /\ pc = "separator" /\ pos < Len(doc)
  BY DEF FlatSeparator, Reading, Running, InFlatLoop
<1>2. CASE FlatComma
  BY <1>1, <1>2, FlatCommaStep
<1>3. CASE FlatEnd
  BY <1>1, <1>3, FlatEndStep
<1>4. CASE Fail("expected")
  BY <1>1, <1>4, FailStep DEF ParseErrors
<1>. QED
  BY <1>2, <1>3, <1>4 DEF FlatSeparator

-----------------------------------------------------------------------------
(* The actions of the main loop.                                           *)

(* Where the registers stand, by the place in the loop.                    *)
LEMMA MainAt ==
    ASSUME CInv, InMainLoop
    PROVE  /\ mark = Top(open).mark /\ mark \in Nat /\ mark # ROOT_MARK
           /\ kind \in Kinds /\ cnt \in Nat /\ kind = Top(open).kind
           /\ pc \in {"main", "key", "next"} =>
                 /\ cnt = Top(open).len
                 /\ kind = "object" => Top(open).keys = Top(open).len
           /\ pc = "main_value" =>
                 /\ cnt = Top(open).len + 1
                 /\ kind = "object" => Top(open).keys = Top(open).len + 1
           /\ pc = "main_colon" =>
                 /\ cnt = Top(open).len
                 /\ Top(open).keys = Top(open).len + 1
           /\ pc \in {"key", "main_colon"} => kind = "object"
           /\ pc = "next" => kind = "array"
<1>1. Top(open) \in Container
  BY LoopFacts DEF InLoop
<1>2. CurrentOf(Registers, Top(open)) /\ kind \in Kinds /\ cnt \in Nat
  BY DEF CInv, Innermost, TypeOK
<1>3. /\ mark = Top(open).mark /\ kind = Top(open).kind
  BY <1>2 DEF CurrentOf, Registers
<1>4. mark \in Nat /\ mark # ROOT_MARK
  BY <1>1, <1>3 DEF Container, ROOT_MARK
<1>. QED
  BY <1>2, <1>3, <1>4 DEF CurrentOf, Registers

(* A move inside the main loop that asks nothing of the sink: a comma, a   *)
(* trailing comma's closer found, a colon, an element counted.             *)
LEMMA MainMoveStep ==
    ASSUME CInv, InMainLoop, pos' \in {pos, pos + 1}, pos' \in 0 .. Len(doc),
           UNCHANGED <<doc, opts, stack, mark, kind, flat, outcome, errorAt, sinkVars>>,
           \/ pc = "main" /\ pc' = "key" /\ cnt' = cnt /\ kind = "object"
           \/ pc = "main" /\ pc' = "next" /\ cnt' = cnt /\ kind = "array"
           \/ pc \in {"key", "next"} /\ pc' = "main" /\ cnt' = cnt
           \/ pc = "main_colon" /\ pc' = "main_value" /\ cnt' = cnt + 1
           \/ pc = "next" /\ pc' = "main_value" /\ cnt' = cnt + 1
    PROVE  CInv'
<1>1. /\ InLoop /\ outcome = "parsing" /\ open # <<>> /\ ~ InFlatLoop
      /\ open' = open /\ vals' = vals /\ cnt \in Nat
  BY LoopFacts, MainAt DEF InLoop, sinkVars
<1>2. InMainLoop' /\ ~ InFlatLoop'
  BY <1>1, MainAt DEF InMainLoop, InFlatLoop, AtRoot
<1>3. SameAncestors
  BY <1>1, <1>2 DEF SameAncestors
<1>4. RegistersOK'
  BY <1>1 DEF RegistersOK, CInv, TypeOK
<1>5. Innermost'
  <2>1. /\ Registers'.kind = kind /\ Registers'.mark = mark /\ Registers'.cnt = cnt'
    BY DEF Registers
  <2>2. CurrentOf(Registers, Top(open))'
    BY <1>1, <2>1, MainAt DEF CurrentOf
  <2>. QED
    BY <1>1, <1>2, <2>2 DEF Innermost
<1>6. pc' \in Pcs /\ (AfterValue' => AfterValue)
  BY DEF Pcs, AfterValue
<1>. QED
  BY <1>1, <1>3, <1>4, <1>5, <1>6, MoveOnStep

(* A comma, a closer, or neither.                                          *)
LEMMA MainStep ==
    ASSUME CInv, Main
    PROVE  CInv'
<1>1. InMainLoop /\ pc = "main" /\ pos < Len(doc) /\ kind \in Kinds
  BY MainAt DEF Main, Reading, Running, InMainLoop
<1>2. CASE MainComma
  <2>1. pos' = pos + 1 /\ pos' \in 0 .. Len(doc)
    BY <1>1, <1>2, ScalarTokFacts DEF MainComma, Consume
  <2>. QED
    BY <1>1, <1>2, <2>1, MainMoveStep DEF MainComma, Consume, Continue, Kinds
<1>3. CASE MainEnd
  BY <1>1, <1>3, MainEndStep
<1>4. CASE Fail("expected")
  BY <1>1, <1>4, FailStep DEF ParseErrors
<1>. QED
  BY <1>2, <1>3, <1>4 DEF Main

(* A trailing comma: back to the closer.                                   *)
LEMMA TrailingCommaStep ==
    ASSUME CInv, InMainLoop, pc \in {"key", "next"}, TrailingComma
    PROVE  CInv'
<1>1. pos \in 0 .. Len(doc)
  BY DEF CInv, TypeOK
<1>. QED
  BY <1>1, MainMoveStep DEF TrailingComma, Continue

(* After a comma, a key or a trailing comma's closer.                      *)
LEMMA MainKeyStep ==
    ASSUME CInv, MainKey
    PROVE  CInv'
<1>1. InMainLoop /\ pc = "key" /\ pos < Len(doc)
  BY DEF MainKey, Reading, Running, InMainLoop, AtRoot
<1>2. CASE TrailingComma
  BY <1>1, <1>2, TrailingCommaStep
<1>3. CASE EmitKey("main_colon")
  BY <1>1, <1>3, EmitKeyStep
<1>. QED
  BY <1>2, <1>3 DEF MainKey

(* The colon, at which the pair is counted.                                *)
LEMMA MainColonStep ==
    ASSUME CInv, MainColon
    PROVE  CInv'
<1>1. InMainLoop /\ pc = "main_colon" /\ pos < Len(doc)
  BY DEF MainColon, Reading, Running, InMainLoop, AtRoot
<1>2. CASE Fail("expected")
  BY <1>1, <1>2, FailStep DEF ParseErrors
<1>3. CASE /\ Consume
           /\ cnt' = cnt + 1
           /\ Continue("main_value")
           /\ UNCHANGED <<stack, mark, kind, flat, sinkVars>>
  <2>1. pos' = pos + 1 /\ pos' \in 0 .. Len(doc)
    BY <1>1, <1>3, ScalarTokFacts DEF Consume
  <2>. QED
    BY <1>1, <1>3, <2>1, MainMoveStep DEF Consume, Continue
<1>. QED
  BY <1>2, <1>3 DEF MainColon

(* After an array's comma: a trailing comma's closer, or the next element  *)
(* counted, behind the checkpoint when one is due.                         *)
LEMMA MainNextStep ==
    ASSUME CInv, MainNext
    PROVE  CInv'
<1>1. InMainLoop /\ pc = "next" /\ outcome = "parsing"
  BY DEF MainNext, Running, InMainLoop, AtRoot
<1>2. CASE TrailingComma
  BY <1>1, <1>2, TrailingCommaStep
<1>3. CASE CountElement
  <2>1. /\ pos' = pos /\ pos \in 0 .. Len(doc) /\ InLoop /\ open # <<>>
        /\ UNCHANGED <<doc, opts, stack, mark, kind, flat>>
    BY <1>1, <1>3, LoopFacts DEF CountElement, CInv, TypeOK, InLoop
  <2>2. CASE RefusedBy(CheckpointCall(mark)) /\ cnt' = cnt
    <3>1. CheckpointCall(mark) \in CallRecord
      BY <1>1, MainAt DEF CheckpointCall, Call, CallRecord, Kinds
    <3>2. RegistersOK'
      BY <2>1, <2>2 DEF RegistersOK, CInv, TypeOK
    <3>. QED
      BY <2>1, <2>2, <3>1, <3>2, RefusedStep
  <2>3. CASE UNCHANGED sinkVars /\ cnt' = cnt + 1 /\ Continue("main_value")
    BY <1>1, <2>1, <2>3, MainMoveStep DEF Continue
  <2>4. CASE SinkCheckpoint(mark) /\ cnt' = cnt + 1 /\ Continue("main_value")
    <3>1. SinkTypeOK' /\ open' = open /\ Top(open).mark <= vals'
      BY <1>1, <2>1, <2>4, MainAt, CheckpointInside
    <3>2. pc' = "main_value" /\ outcome' = "parsing" /\ errorAt' = errorAt
      BY <1>1, <2>4 DEF Continue
    <3>3. InMainLoop' /\ ~ InFlatLoop' /\ ~ AfterValue'
      BY <3>2 DEF InMainLoop, InFlatLoop, AfterValue, AtRoot
    <3>4. SameAncestors
      BY <1>1, <2>1, <3>1, <3>3 DEF SameAncestors
    <3>5. TypeOK'
      BY <2>1, <2>4, <3>1, <3>2 DEF CInv, TypeOK, Pcs
    <3>6. Innermost'
      <4>1. Registers'.kind = kind /\ Registers'.mark = mark /\ Registers'.cnt = cnt + 1
        BY <2>1, <2>4 DEF Registers
      <4>2. CurrentOf(Registers, Top(open))'
        BY <1>1, <3>1, <3>2, <4>1, MainAt DEF CurrentOf
      <4>. QED
        BY <3>3, <4>2 DEF Innermost
    <3>. QED
      BY <3>1, <3>3, <3>4, <3>5, <3>6, InsideStep
  <2>. QED
    BY <1>3, <2>2, <2>3, <2>4 DEF CountElement
<1>. QED
  BY <1>2, <1>3 DEF MainNext

(* A value of the main loop, already counted.                              *)
LEMMA MainValueStep ==
    ASSUME CInv, MainValue
    PROVE  CInv'
<1>1. InMainLoop /\ InLoop /\ pc = "main_value" /\ pos < Len(doc) /\ outcome = "parsing"
  BY DEF MainValue, Reading, Running, InMainLoop, InLoop, AtRoot
<1>2. /\ open # <<>> /\ open \in Seq(Container) /\ Len(open) \in Nat \ {0}
      /\ stack \in Seq(Frames) /\ Len(stack) = Len(open) + 1 /\ ~ InFlatLoop
      /\ Top(open) \in Container
  BY <1>1, LoopFacts
<1>3. Tok \in Token /\ pos + 1 \in 0 .. Len(doc) /\ RegistersOK /\ ScalarCall(Tok) \in CallRecord
  BY <1>1, ScalarTokFacts
<1>4. CASE Fail(ValueError(Tok))
  BY <1>1, <1>4, FailStep DEF ValueError, ParseErrors
<1>5. CASE Tok \in Openers /\ Consume /\ UNCHANGED <<stack, mark, cnt, kind>> /\ Attempt
  <2>1. DOMAIN stack = 1 .. Len(stack) /\ \A i \in DOMAIN stack : stack[i].kind = "root" <=> i <= 2
    BY <1>1, <1>2, LenProperties DEF CInv, NoUnderflow
  <2>2. \A i \in 3 .. Len(stack) : AncestorOf(stack[i], open[i - 2])
    BY <1>1 DEF CInv, FrameChain
  <2>3. AncestorOf([kind |-> kind', mark |-> mark', cnt |-> cnt'], Top(open))
    BY <1>1, <1>5, MainAt DEF AncestorOf
  <2>4. /\ \A i \in 1 .. Len(open) - 1 : open[i].mark <= open[i + 1].mark
        /\ Top(open).mark <= vals
    BY <1>1 DEF CInv, MarksOrdered
  <2>5. ReadyForChild
    BY <1>1, <1>2, <1>5, <2>1, <2>2, <2>3, <2>4, MainAt DEF ReadyForChild
  <2>. QED
    BY <1>1, <1>5, <2>5, AttemptStep
<1>6. CASE /\ Consume /\ UNCHANGED <<stack, mark, cnt, kind, flat>>
           /\ RefusedBy(ScalarCall(Tok))
  BY <1>3, <1>6, RefusedStep DEF Consume, RegistersOK
<1>7. CASE /\ Consume /\ UNCHANGED <<stack, mark, cnt, kind, flat>>
           /\ SinkScalar(Tok) /\ Continue("main")
  <2>1. /\ SinkTypeOK' /\ Top(open).mark < vals'
        /\ Len(open') = Len(open)
        /\ \A i \in 1 .. Len(open) - 1 : open'[i] = open[i]
        /\ open' # <<>>
        /\ Top(open').kind = Top(open).kind
        /\ Top(open').mark = Top(open).mark
        /\ Top(open').keys = Top(open).keys
        /\ Top(open').len = Top(open).len + 1
    BY <1>1, <1>3, <1>7, ScalarInside
  <2>2. pc' = "main" /\ outcome' = "parsing" /\ errorAt' = errorAt
    BY <1>1, <1>7 DEF Continue
  <2>3. InMainLoop' /\ ~ InFlatLoop'
    BY <1>1, <1>7, <2>2, MainAt DEF InMainLoop, InFlatLoop, AtRoot
  <2>4. SameAncestors
    BY <1>1, <1>7, <2>1, <2>3 DEF SameAncestors
  <2>5. TypeOK'
    BY <1>3, <1>7, <2>1, <2>2 DEF CInv, TypeOK, Consume, Pcs
  <2>6. Innermost'
    <3>1. Registers'.kind = kind /\ Registers'.mark = mark /\ Registers'.cnt = cnt
      BY <1>7 DEF Registers
    <3>2. CurrentOf(Registers, Top(open))'
      BY <1>1, <2>1, <2>2, <3>1, MainAt DEF CurrentOf
    <3>. QED
      BY <2>3, <3>2 DEF Innermost
  <2>7. vals' \in Nat /\ Top(open).mark \in Nat
    BY <1>2, <2>1 DEF SinkTypeOK, Container
  <2>. QED
    BY <2>1, <2>4, <2>5, <2>6, <2>7, InsideStep
<1>. QED
  BY <1>4, <1>5, <1>6, <1>7 DEF MainValue

-----------------------------------------------------------------------------
(* Before the loops and after them.                                        *)

(* Nothing has been parsed and no sink is there.                           *)
LEMMA InitCInv == Init => CInv
BY EmptySeq DEF Init, CInv, TypeOK, SinkTypeOK, Kinds, Pcs, Strict, EmptyFlat, ROOT_MARK,
   NoUnderflow, FrameChain, Innermost, MarksOrdered, OutsideContainers, InFlatLoop,
   InMainLoop, AtRoot

(* A parse starts, over whatever frames the last one left.                 *)
LEMMA StartStep ==
    ASSUME CInv, Start
    PROVE  CInv'
<1>1. /\ doc' \in Seq(Token) /\ pos' = 0 /\ stack' = <<>> /\ stack' \in Seq(Frames)
      /\ open' = <<>> /\ calls' = <<>> /\ vals' = 0 /\ SinkTypeOK'
      /\ pc' = "root" /\ outcome' = "parsing" /\ mark' = ROOT_MARK
      /\ opts' \in [allow_nan: BOOLEAN, allow_trailing_comma: BOOLEAN]
  BY DocsAssumption, OptionsAssumption, EmptySeq
     DEF Start, CInv, OutsideContainers, TypeOK, SinkTypeOK, sinkVars
<1>2. TypeOK'
  BY <1>1, LenProperties DEF Start, CInv, TypeOK, Pcs
<1>. QED
  BY <1>1, <1>2 DEF CInv, NoUnderflow, FrameChain, Innermost, MarksOrdered,
     OutsideContainers, InFlatLoop, InMainLoop, AtRoot

(* The result is used: what is left is a sink that has seen nothing.       *)
LEMMA CollectStep ==
    ASSUME CInv, Collect
    PROVE  CInv'
<1>1. pc' = "idle" /\ pc' \in Pcs /\ stack' \in Seq(Frames)
  BY DEF Collect, CInv, OutsideContainers, TypeOK, Pcs
<1>2. TypeOK'
  BY <1>1, EmptySeq
     DEF Collect, SinkStart, TypeOK, SinkTypeOK, Kinds, Strict, EmptyFlat, ROOT_MARK
<1>. QED
  BY <1>1, <1>2
     DEF Collect, SinkStart, CInv, NoUnderflow, FrameChain, Innermost, MarksOrdered,
         OutsideContainers, InFlatLoop, InMainLoop

(* The parse returns without a call: the input ends, or the root value is  *)
(* complete.                                                               *)
LEMMA ReturnStep ==
    ASSUME CInv, UnexpectedEnd \/ Finish
    PROVE  CInv'
<1>1. /\ UNCHANGED <<doc, opts, pos, stack, mark, cnt, kind, flat, sinkVars>>
      /\ pc' = "idle" /\ errorAt' \in {0, pos + 1}
      /\ outcome' \in {"unexpected_end", "trailing_characters", "ok"}
  BY DEF UnexpectedEnd, Finish, Return
<1>2. pos + 1 \in Nat /\ SinkTypeOK'
  BY <1>1, LenProperties DEF CInv, TypeOK, SinkTypeOK, sinkVars
<1>3. TypeOK'
  BY <1>1, <1>2 DEF CInv, TypeOK, Pcs, ParseErrors
<1>. QED
  BY <1>1, <1>3, ReturnedStep

(* The root value: a container opens below the root frame, or a scalar     *)
(* leaves nothing open.                                                    *)
LEMMA RootStep ==
    ASSUME CInv, Root
    PROVE  CInv'
<1>1. /\ outcome = "parsing" /\ pc = "root" /\ pos < Len(doc)
      /\ open = <<>> /\ stack = <<>> /\ vals = 0 /\ mark = ROOT_MARK
      /\ open \in Seq(Container) /\ stack \in Seq(Frames) /\ Len(open) = 0
  BY EmptySeq DEF Root, Reading, Running, CInv, OutsideContainers, TypeOK, SinkTypeOK
<1>2. Tok \in Token /\ pos + 1 \in 0 .. Len(doc) /\ RegistersOK /\ ScalarCall(Tok) \in CallRecord
  BY <1>1, ScalarTokFacts
<1>3. CASE Fail(ValueError(Tok))
  BY <1>1, <1>3, FailStep DEF ValueError, ParseErrors
<1>4. CASE /\ Consume /\ UNCHANGED <<stack, mark, cnt, kind, flat>>
           /\ RefusedBy(ScalarCall(Tok))
  BY <1>2, <1>4, RefusedStep DEF Consume, RegistersOK
<1>5. CASE /\ Consume /\ UNCHANGED <<stack, mark, cnt, kind, flat>>
           /\ SinkScalar(Tok) /\ Continue("finish")
  <2>1. SinkTypeOK' /\ open' = <<>> /\ calls' # <<>>
    BY <1>1, <1>2, <1>5, SinkScalarFacts DEF CInv, TypeOK
  <2>2. pc' = "finish" /\ outcome' = "parsing" /\ errorAt' = errorAt
    BY <1>1, <1>5 DEF Continue
  <2>3. TypeOK'
    BY <1>2, <1>5, <2>1, <2>2 DEF CInv, TypeOK, Consume, Pcs
  <2>. QED
    BY <2>1, <2>2, <2>3
       DEF CInv, NoUnderflow, FrameChain, Innermost, MarksOrdered, OutsideContainers,
           InFlatLoop, InMainLoop
<1>6. CASE /\ Tok \in Openers /\ Consume /\ UNCHANGED <<mark, cnt, kind>>
           /\ stack' = Append(stack, RootFrame) /\ Attempt
  <2>1. RootFrame \in Frames /\ RootFrame.kind = "root"
    BY DEF RootFrame, Frames
  <2>2. stack' \in Seq(Frames) /\ Len(stack') = 1 /\ stack'[1] = RootFrame
    BY <1>1, <1>6, <2>1, AppendProperties, EmptySeq
  <2>3. mark' \in Nat \cup {ROOT_MARK} /\ cnt' \in Nat /\ kind' \in Kinds
    BY <1>2, <1>6 DEF RegistersOK
  <2>4. ReadyForChild
    BY <1>1, <1>6, <2>1, <2>2, <2>3 DEF ReadyForChild
  <2>. QED
    BY <1>1, <1>6, <2>4, AttemptStep
<1>. QED
  BY <1>3, <1>4, <1>5, <1>6 DEF Root

-----------------------------------------------------------------------------
(* The invariant is inductive: every action of the cursor keeps it.        *)
LEMMA NextCInv ==
    ASSUME CInv, [Next]_vars
    PROVE  CInv'
<1>1. CASE Start
  BY <1>1, StartStep
<1>2. CASE Collect
  BY <1>2, CollectStep
<1>3. CASE UnexpectedEnd \/ Finish
  BY <1>3, ReturnStep
<1>4. CASE Root
  BY <1>4, RootStep
<1>5. CASE Flat \/ FlatColon \/ FlatValue \/ FlatSeparator
  BY <1>5, FlatStep, FlatColonStep, FlatValueStep, FlatSeparatorStep
<1>6. CASE Main \/ MainKey \/ MainColon \/ MainNext \/ MainValue
  BY <1>6, MainStep, MainKeyStep, MainColonStep, MainNextStep, MainValueStep
<1>7. CASE UNCHANGED vars
  BY <1>7 DEF vars, CInv, TypeOK, SinkTypeOK, NoUnderflow, FrameChain, Innermost,
     CurrentOf, Registers, MarksOrdered, AfterValue, OutsideContainers, InFlatLoop,
     InMainLoop, AtRoot
<1>. QED
  BY <1>1, <1>2, <1>3, <1>4, <1>5, <1>6, <1>7 DEF Next, Step

(* The inductive invariant holds of every parse, whatever the documents,   *)
(* the options, the period and the sink's replies (cursor.rs 101-426): the *)
(* frames are there whenever one is popped, expect("frame stack            *)
(* underflow") never fires.                                                *)
THEOREM CursorInvariance == Spec => []CInv
<1>. QED
  BY InitCInv, NextCInv, PTL DEF Spec

(* The mark and the count an end_* would be called with are those of the   *)
(* container it closes (driver.rs 16-17), whichever of the two loops reads *)
(* the closer and for every nesting.                                       *)
THEOREM CursorMarksAndCounts == Spec => []MarkCountContract
<1>1. ASSUME CInv, InFlatLoop, pc \in {"flat", "separator"}
      PROVE  Describes(flat.kind, flat.mark, flat.cnt)
  BY <1>1 DEF CInv, Innermost, CurrentOf, Describes
<1>2. ASSUME CInv, InMainLoop, pc \in {"main", "key"}
      PROVE  Describes(kind, mark, cnt)
  BY <1>2, LoopFacts DEF CInv, Innermost, CurrentOf, Registers, Describes, InLoop
<1>3. CInv => MarkCountContract
  BY <1>1, <1>2 DEF MarkCountContract
<1>. QED
  BY <1>3, CursorInvariance, PTL
-----------------------------------------------------------------------------
(* What a sink that spills has to hold of an array.                        *)

(* Counting the elements since the last multiple of the period.            *)
LEMMA SinceCheckpointFacts ==
    ASSUME NEW n \in Nat
    PROVE  /\ SinceCheckpoint(n) \in 0 .. CheckpointEvery - 1
           /\ SinceCheckpoint(n + 1) # 0 => SinceCheckpoint(n + 1) = SinceCheckpoint(n) + 1
           /\ CheckpointEvery \in Nat \ {0}
<1>1. CheckpointEvery \in Nat \ {0}
  BY CheckpointAssumption
<1>2. n % CheckpointEvery \in 0 .. CheckpointEvery - 1
  BY <1>1
<1>3. (n + 1) % CheckpointEvery # 0 => (n + 1) % CheckpointEvery = (n % CheckpointEvery) + 1
  BY <1>1, NextRemainder
<1>. QED
  BY <1>1, <1>2, <1>3 DEF SinceCheckpoint

(* Container i holds no more than it accepted since its last checkpoint.   *)
Settled(i) == ValuesUpTo(i) - open[i].mark <= SinceCheckpoint(open[i].len)

(* The innermost one may hold a period, of which the comma has not come.   *)
AtPeriod(i) ==
    /\ i = Len(open) /\ AfterValue /\ SinceCheckpoint(open[i].len) = 0
    /\ vals - open[i].mark <= CheckpointEvery

(* An array holds what was accepted since the last multiple of the period: *)
(* so it is in a loop, unless the period has just been filled.             *)
LEMMA ArraysHeld ==
    ASSUME CInv, PInv, InLoop, Spills, NEW i \in 1 .. Len(open), open[i].kind = "array"
    PROVE  /\ Settled(i) \/ AtPeriod(i)
           /\ i # Len(open) => Settled(i)
<1>1. DOMAIN open = 1 .. Len(open)
  BY HeldTypes DEF CInv, TypeOK, SinkTypeOK
<1>. QED
  BY <1>1 DEF PInv, HeldByCount, InLoop, Settled, AtPeriod

(* It is enough to look at each array after a step.                        *)
LEMMA HeldBounds ==
    ASSUME CInv', InLoop',
           Spills => \A i \in 1 .. Len(open') :
                        open'[i].kind = "array" => Settled(i)' \/ AtPeriod(i)'
    PROVE  PInv'
<1>1. open' \in Seq(Container) /\ vals' \in Nat
  BY DEF CInv, TypeOK, SinkTypeOK
<1>2. Len(open') \in Nat /\ DOMAIN open' = 1 .. Len(open')
  BY <1>1, HeldTypes
<1>3. ASSUME Spills, NEW i \in 1 .. Len(open'), open'[i].kind = "array"
      PROVE  ValuesUpTo(i)' - open'[i].mark <= CheckpointEvery
  <2>1. open'[i].mark \in Nat /\ open'[i].len \in Nat /\ ValuesUpTo(i)' \in Nat
    BY <1>1, HeldTypes DEF ValuesUpTo
  <2>2. SinceCheckpoint(open'[i].len) \in 0 .. CheckpointEvery - 1 /\ CheckpointEvery \in Nat
    BY <2>1, SinceCheckpointFacts
  <2>3. CASE Settled(i)'
    BY <2>1, <2>2, <2>3 DEF Settled
  <2>4. CASE AtPeriod(i)'
    BY <1>2, <2>4 DEF AtPeriod, ValuesUpTo
  <2>. QED
    BY <1>3, <2>3, <2>4
<1>4. PendingBounded'
  BY <1>2, <1>3 DEF PendingBounded
<1>5. HeldByCount'
  BY <1>2 DEF HeldByCount, Settled, AtPeriod
<1>. QED
  BY <1>4, <1>5 DEF PInv

(* Outside the loops nothing is open, or nothing is done to what is.       *)
LEMMA OutsidePInv ==
    ASSUME PInv, ~ InLoop', open' = <<>> \/ UNCHANGED <<open, vals>>
    PROVE  PInv'
<1>1. PendingBounded'
  BY EmptySeq DEF PInv, PendingBounded, ValuesUpTo
<1>. QED
  BY <1>1 DEF PInv, HeldByCount, InLoop

(* While it parses with a container open, the cursor is in a loop.          *)
LEMMA StillInLoop ==
    ASSUME CInv', outcome' = "parsing", open' # <<>>
    PROVE  InLoop'
<1>1. pc' \in Pcs /\ pc' \notin {"idle", "root", "finish"} /\ ~ AtRoot'
  BY DEF CInv, TypeOK, OutsideContainers
<1>. QED
  BY <1>1 DEF Pcs, InLoop, InFlatLoop, InMainLoop

(* A container begins, where no value has just been accepted.              *)
LEMMA BeginPInv ==
    ASSUME CInv, PInv, CInv', InLoop', NEW k \in Kinds, SinkBegin(k),
           (InLoop /\ ~ AfterValue) \/ open = <<>>
    PROVE  PInv'
<1>1. /\ SinkTypeOK /\ open \in Seq(Container) /\ vals \in Nat
      /\ open' \in Seq(Container) /\ vals' \in Nat
  BY DEF CInv, TypeOK, SinkTypeOK
<1>2. Len(open) \in Nat
  BY <1>1, HeldTypes
<1>3. PICK l \in Nat : l = Len(open)
  BY <1>2
<1>4. /\ \A i \in 1 .. l : open'[i] = open[i] /\ ValuesUpTo(i)' = ValuesUpTo(i)
      /\ Len(open') = l + 1
      /\ open'[l + 1].mark = vals /\ ValuesUpTo(l + 1)' = vals
  BY <1>1, <1>3, HeldAtBegin
<1>5. ASSUME Spills, NEW i \in 1 .. Len(open'), open'[i].kind = "array"
      PROVE  Settled(i)'
  <2>1. CASE i = l + 1
    <3>1. open'[i].len \in Nat
      BY <1>1, HeldTypes
    <3>2. SinceCheckpoint(open'[i].len) \in 0 .. CheckpointEvery - 1
      BY <3>1, SinceCheckpointFacts
    <3>3. ValuesUpTo(i)' - open'[i].mark = 0
      BY <1>1, <1>4, <2>1
    <3>. QED
      BY <3>2, <3>3 DEF Settled
  <2>2. CASE i \in 1 .. l
    <3>1. InLoop /\ ~ AfterValue
      BY <1>3, <2>2, EmptySeq
    <3>2. Settled(i)
      BY <1>3, <1>4, <1>5, <2>2, <3>1, ArraysHeld DEF AtPeriod
    <3>. QED
      BY <1>4, <2>2, <3>2 DEF Settled
  <2>. QED
    BY <1>4, <2>1, <2>2
<1>. QED
  BY <1>5, HeldBounds

(* A scalar is accepted: an array holds one element more, up to a period.  *)
LEMMA ScalarPInv ==
    ASSUME CInv, PInv, CInv', InLoop, InLoop', ~ AfterValue, AfterValue',
           NEW t \in Token, SinkScalar(t)
    PROVE  PInv'
<1>1. /\ SinkTypeOK /\ open \in Seq(Container) /\ vals \in Nat
      /\ open' \in Seq(Container) /\ vals' \in Nat
  BY DEF CInv, TypeOK, SinkTypeOK
<1>2. /\ open # <<>> /\ Len(open) \in Nat \ {0} /\ Len(open') = Len(open)
      /\ \A i \in 1 .. Len(open) - 1 : open'[i] = open[i]
      /\ Top(open').kind = Top(open).kind
      /\ Top(open').mark = Top(open).mark
      /\ Top(open').len = Top(open).len + 1
      /\ vals' = vals + 1
  BY <1>1, LoopFacts, ScalarInside, SinkScalarFacts
<1>3. \A i \in 1 .. Len(open) - 1 : ValuesUpTo(i)' = ValuesUpTo(i)
  BY <1>2, HeldBelow
<1>4. ASSUME Spills, NEW i \in 1 .. Len(open'), open'[i].kind = "array"
      PROVE  Settled(i)' \/ AtPeriod(i)'
  <2>1. CASE i \in 1 .. Len(open) - 1
    <3>1. Settled(i)
      BY <1>2, <1>4, <2>1, ArraysHeld
    <3>. QED
      BY <1>2, <1>3, <2>1, <3>1 DEF Settled
  <2>2. CASE i = Len(open)
    <3>1. Settled(i)
      BY <1>2, <1>4, <2>2, ArraysHeld DEF AtPeriod, Top
    <3>2. /\ open'[i].mark = open[i].mark /\ open'[i].len = open[i].len + 1
          /\ ValuesUpTo(i) = vals /\ ValuesUpTo(i)' = vals + 1
      BY <1>2, <2>2 DEF Top, ValuesUpTo
    <3>3. open[i].mark \in Nat /\ open[i].len \in Nat
      BY <1>1, <1>2, <2>2, HeldTypes
    <3>4. /\ SinceCheckpoint(open[i].len) \in 0 .. CheckpointEvery - 1 /\ CheckpointEvery \in Nat
          /\ SinceCheckpoint(open'[i].len) # 0 =>
                SinceCheckpoint(open'[i].len) = SinceCheckpoint(open[i].len) + 1
      BY <3>2, <3>3, SinceCheckpointFacts
    <3>5. vals + 1 - open'[i].mark <= SinceCheckpoint(open[i].len) + 1
      BY <1>1, <3>1, <3>2, <3>3, <3>4, SMTT(30) DEF Settled
    <3>6. CASE SinceCheckpoint(open'[i].len) # 0
      <4>1. SinceCheckpoint(open'[i].len) = SinceCheckpoint(open[i].len) + 1
        BY <3>4, <3>6
      <4>2. ValuesUpTo(i)' - open'[i].mark <= SinceCheckpoint(open'[i].len)
        BY <1>1, <3>1, <3>2, <3>3, <3>4, <4>1, SMTT(30) DEF Settled
      <4>. QED
        BY <4>2 DEF Settled
    <3>7. CASE SinceCheckpoint(open'[i].len) = 0
      <4>1. SinceCheckpoint(open[i].len) + 1 <= CheckpointEvery
        BY <3>4
      <4>2. vals' = vals + 1
        BY <1>2
      <4>3. open'[i].mark \in Nat
        BY <1>1, <2>2, <1>2, HeldTypes
      <4>4. vals' - open'[i].mark <= CheckpointEvery
        BY <1>1, <3>4, <3>5, <4>1, <4>2, <4>3
      <4>. QED
        BY <1>2, <2>2, <3>7, <4>4 DEF AtPeriod
    <3>. QED
      BY <3>6, <3>7
  <2>. QED
    BY <1>2, <2>1, <2>2
<1>. QED
  BY <1>4, HeldBounds

(* A container ends: its parent holds one value more.                      *)
LEMMA EndPInv ==
    ASSUME CInv, PInv, CInv', InLoop, outcome' = "parsing", pc' \in {"main", "finish"},
           NEW k \in Kinds, NEW n \in Nat, SinkEnd(k, Top(open).mark, n)
    PROVE  PInv'
<1>1. /\ SinkTypeOK /\ open \in Seq(Container) /\ vals \in Nat
      /\ open' \in Seq(Container) /\ vals' \in Nat
  BY DEF CInv, TypeOK, SinkTypeOK
<1>2. open # <<>> /\ Len(open) \in Nat \ {0} /\ Top(open) \in Container
  BY LoopFacts
<1>3. PICK l \in Nat \ {0} : l = Len(open)
  BY <1>2
<1>4. CASE l = 1
  <2>1. Top(open).mark \in Nat
    BY <1>2 DEF Container
  <2>2. open' = <<>>
    BY <1>1, <1>2, <1>3, <1>4, <2>1, SinkEndFacts
  <2>3. ~ InLoop'
    BY <2>2 DEF CInv, NoUnderflow, Innermost, InLoop
  <2>. QED
    BY <2>2, <2>3, OutsidePInv
<1>5. CASE l > 1
  <2>1. /\ Len(open') = l - 1
        /\ \A i \in 1 .. l - 2 : open'[i] = open[i] /\ ValuesUpTo(i)' = ValuesUpTo(i)
        /\ open'[l - 1].kind = open[l - 1].kind
        /\ open'[l - 1].mark = open[l - 1].mark
        /\ open'[l - 1].len = open[l - 1].len + 1
        /\ ValuesUpTo(l - 1)' = ValuesUpTo(l - 1) + 1
    BY <1>1, <1>3, <1>5, HeldAtEnd
  <2>0. InLoop' /\ AfterValue'
    <3>1. open' # <<>>
      BY <1>3, <1>5, <2>1, EmptySeq
    <3>2. InLoop'
      BY <3>1, StillInLoop
    <3>. QED
      BY <3>2 DEF InLoop, InFlatLoop, InMainLoop, AfterValue
  <2>2. ASSUME Spills, NEW i \in 1 .. Len(open'), open'[i].kind = "array"
        PROVE  Settled(i)' \/ AtPeriod(i)'
    <3>1. open[i].kind = "array" /\ i \in 1 .. Len(open) /\ i # Len(open)
      BY <1>3, <2>1, <2>2
    <3>2. Settled(i)
      BY <2>2, <3>1, ArraysHeld
    <3>3. CASE i \in 1 .. l - 2
      BY <2>1, <3>2, <3>3 DEF Settled
    <3>4. CASE i = l - 1
      <4>1. /\ open[i].mark \in Nat /\ open[i].len \in Nat /\ ValuesUpTo(i) \in Nat
        BY <1>1, <3>1, HeldTypes DEF ValuesUpTo
      <4>2. /\ SinceCheckpoint(open[i].len) \in 0 .. CheckpointEvery - 1
            /\ CheckpointEvery \in Nat
            /\ SinceCheckpoint(open'[i].len) # 0 =>
                  SinceCheckpoint(open'[i].len) = SinceCheckpoint(open[i].len) + 1
        BY <2>1, <3>4, <4>1, SinceCheckpointFacts
      <4>3. /\ ValuesUpTo(i)' - open'[i].mark <= SinceCheckpoint(open[i].len) + 1
        BY <2>1, <3>2, <3>4, <4>1, <4>2 DEF Settled
      <4>4. CASE SinceCheckpoint(open'[i].len) # 0
        <5>1. ValuesUpTo(i)' - open'[i].mark <= SinceCheckpoint(open'[i].len)
          BY <4>2, <4>3, <4>4
        <5>. QED
          BY <5>1 DEF Settled
      <4>5. CASE SinceCheckpoint(open'[i].len) = 0
        <5>1. ValuesUpTo(i)' = vals' /\ i = Len(open')
          BY <2>1, <3>4 DEF ValuesUpTo
        <5>2. SinceCheckpoint(open[i].len) + 1 <= CheckpointEvery
          BY <4>2
        <5>3. open'[i].mark \in Nat
          BY <2>1, <3>4, <4>1
        <5>4. vals' - open'[i].mark <= CheckpointEvery
          BY <1>1, <4>2, <4>3, <5>1, <5>2, <5>3
        <5>. QED
          BY <2>0, <4>5, <5>1, <5>4 DEF AtPeriod
      <4>. QED
        BY <4>4, <4>5
    <3>. QED
      BY <1>3, <2>1, <3>3, <3>4
  <2>. QED
    BY <2>0, <2>2, HeldBounds
<1>. QED
  BY <1>4, <1>5

(* A step inside the innermost container accepts no value.  One that       *)
(* leaves a full period behind it has spilled it.                          *)
LEMMA InsidePInv ==
    ASSUME CInv, PInv, CInv', InLoop, InLoop',
           Len(open') = Len(open),
           \A i \in 1 .. Len(open) - 1 : open'[i] = open[i],
           Top(open').kind = Top(open).kind,
           Top(open').mark = Top(open).mark,
           Top(open').len = Top(open).len,
           \/ /\ vals' = vals
              /\ \/ AfterValue => AfterValue'
                 \/ Top(open).kind # "array"
                 \/ SinceCheckpoint(Top(open).len) # 0
           \/ Spills => vals' = Top(open).mark
    PROVE  PInv'
<1>1. /\ SinkTypeOK /\ open \in Seq(Container) /\ vals \in Nat
      /\ open' \in Seq(Container) /\ vals' \in Nat
  BY DEF CInv, TypeOK, SinkTypeOK
<1>2. open # <<>> /\ Len(open) \in Nat \ {0}
  BY LoopFacts
<1>3. \A i \in 1 .. Len(open) - 1 : ValuesUpTo(i)' = ValuesUpTo(i)
  BY <1>2, HeldBelow
<1>4. ASSUME Spills, NEW i \in 1 .. Len(open'), open'[i].kind = "array"
      PROVE  Settled(i)' \/ AtPeriod(i)'
  <2>1. CASE i \in 1 .. Len(open) - 1
    <3>1. Settled(i)
      BY <1>2, <1>4, <2>1, ArraysHeld
    <3>. QED
      BY <1>2, <1>3, <2>1, <3>1 DEF Settled
  <2>2. CASE i = Len(open)
    <3>1. /\ open'[i].kind = open[i].kind /\ open'[i].mark = open[i].mark
          /\ open'[i].len = open[i].len
          /\ ValuesUpTo(i) = vals /\ ValuesUpTo(i)' = vals'
          /\ Top(open) = open[i] /\ i \in 1 .. Len(open) /\ i = Len(open')
      BY <1>2, <2>2 DEF Top, ValuesUpTo
    <3>2. open[i].mark \in Nat /\ open[i].len \in Nat
      BY <1>1, <3>1, HeldTypes
    <3>3. CASE vals' = open[i].mark
      <4>1. ValuesUpTo(i)' - open'[i].mark = 0
        BY <3>1, <3>2, <3>3
      <4>2. SinceCheckpoint(open'[i].len) \in 0 .. CheckpointEvery - 1
        BY <3>1, <3>2, SinceCheckpointFacts
      <4>. QED
        BY <4>1, <4>2 DEF Settled
    <3>4. CASE vals' = vals /\ Settled(i)
      BY <3>1, <3>4 DEF Settled
    <3>5. CASE vals' = vals /\ AtPeriod(i) /\ (AfterValue => AfterValue')
      BY <3>1, <3>5 DEF AtPeriod
    <3>6. Settled(i) \/ AtPeriod(i)
      BY <1>4, <3>1, ArraysHeld
    <3>7. AtPeriod(i) => SinceCheckpoint(open[i].len) = 0
      BY DEF AtPeriod
    <3>. QED
      BY <1>4, <3>1, <3>3, <3>4, <3>5, <3>6, <3>7
  <2>. QED
    BY <1>2, <2>1, <2>2
<1>. QED
  BY <1>4, HeldBounds

(* So it does when the innermost container is not touched at all.          *)
LEMMA SameOpenPInv ==
    ASSUME CInv, PInv, CInv', InLoop, outcome' = "parsing", open' = open,
           \/ /\ vals' = vals
              /\ \/ AfterValue => AfterValue'
                 \/ Top(open).kind # "array"
                 \/ SinceCheckpoint(Top(open).len) # 0
           \/ Spills => vals' = Top(open).mark
    PROVE  PInv'
<1>1. InLoop'
  BY LoopFacts, StillInLoop
<1>. QED
  BY <1>1, InsidePInv

(* A return leaves what is held as it is.                                  *)
LEMMA ReturnedPInv ==
    ASSUME PInv, pc' = "idle", UNCHANGED <<open, vals>>
    PROVE  PInv'
<1>1. ~ InLoop'
  BY DEF InLoop, InFlatLoop, InMainLoop
<1>. QED
  BY <1>1, OutsidePInv

(* A parse error is a return.                                              *)
LEMMA FailPInv ==
    ASSUME PInv, NEW error, Fail(error)
    PROVE  PInv'
BY ReturnedPInv DEF Fail, Return, sinkVars

(* A refused call is one too.                                              *)
LEMMA RefusedPInv ==
    ASSUME PInv, NEW c, RefusedBy(c)
    PROVE  PInv'
BY ReturnedPInv DEF RefusedBy, Return, SinkRefuses

-----------------------------------------------------------------------------
(* The same, action by action.                                             *)

(* The container of the opener just read begins, or is refused.            *)
LEMMA AttemptPInv ==
    ASSUME CInv, PInv, CInv', Attempt, outcome = "parsing",
           (InLoop /\ ~ AfterValue) \/ open = <<>>
    PROVE  PInv'
<1>1. KindOf(Tok) \in Kinds
  BY DEF KindOf, Kinds
<1>2. CASE RefusedBy(BeginCall(KindOf(Tok)))
  BY <1>2, RefusedPInv
<1>3. CASE SinkBegin(KindOf(Tok)) /\ Continue("flat")
  <2>1. InLoop'
    BY <1>3 DEF Continue, InLoop, InFlatLoop
  <2>. QED
    BY <1>1, <1>3, <2>1, BeginPInv
<1>. QED
  BY <1>2, <1>3 DEF Attempt

(* A scalar inside a container, in either loop.                            *)
LEMMA ScalarStepPInv ==
    ASSUME CInv, PInv, CInv', InLoop, pos < Len(doc), ~ AfterValue,
           \/ SinkScalar(Tok) /\ Continue("separator")
           \/ SinkScalar(Tok) /\ Continue("main")
           \/ RefusedBy(ScalarCall(Tok))
    PROVE  PInv'
<1>1. CASE RefusedBy(ScalarCall(Tok))
  BY <1>1, RefusedPInv
<1>2. CASE SinkScalar(Tok) /\ (Continue("separator") \/ Continue("main"))
  <2>1. Tok \in Token
    BY ScalarTokFacts
  <2>2. open' # <<>>
    BY <1>2, <2>1, ScalarInside
  <2>3. outcome' = "parsing" /\ AfterValue'
    BY <1>2, LoopFacts DEF Continue, AfterValue
  <2>4. InLoop'
    BY <2>2, <2>3, StillInLoop
  <2>. QED
    BY <1>2, <2>1, <2>3, <2>4, ScalarPInv
<1>. QED
  BY <1>1, <1>2

(* An element or the value of a pair in the flat loop.                     *)
LEMMA FlatElementPInv ==
    ASSUME CInv, PInv, CInv', InFlatLoop, pc \in {"flat", "value"}, pos < Len(doc),
           NEW c, FlatElement(c)
    PROVE  PInv'
<1>1. InLoop /\ outcome = "parsing" /\ ~ AfterValue
  BY DEF InLoop, InFlatLoop, AfterValue
<1>2. CASE Descend(c)
  BY <1>1, <1>2, AttemptPInv DEF Descend
<1>3. CASE \/ SinkScalar(Tok) /\ Continue("separator")
           \/ RefusedBy(ScalarCall(Tok))
  BY <1>1, <1>3, ScalarStepPInv
<1>4. CASE Fail(ValueError(Tok))
  BY <1>4, FailPInv
<1>. QED
  BY <1>2, <1>3, <1>4 DEF FlatElement

(* A key: the innermost container is an object.                            *)
LEMMA EmitKeyPInv ==
    ASSUME CInv, PInv, CInv', InLoop, Top(open).kind = "object", pos < Len(doc),
           NEW next, EmitKey(next)
    PROVE  PInv'
<1>1. CASE Fail("scalar_error") \/ Fail("expected")
  BY <1>1, FailPInv
<1>2. CASE RefusedBy(KeyCall(Tok))
  BY <1>2, RefusedPInv
<1>3. CASE SinkKey(Tok) /\ Continue(next)
  <2>1. Tok \in Token /\ open # <<>> /\ SinkTypeOK /\ outcome = "parsing"
    BY ScalarTokFacts, LoopFacts DEF CInv, TypeOK
  <2>2. /\ vals' = vals
        /\ Len(open') = Len(open)
        /\ \A i \in 1 .. Len(open) - 1 : open'[i] = open[i]
        /\ open' # <<>>
        /\ Top(open').kind = Top(open).kind
        /\ Top(open').mark = Top(open).mark
        /\ Top(open').len = Top(open).len
    BY <1>3, <2>1, SinkKeyFacts
  <2>3. InLoop'
    BY <1>3, <2>1, <2>2, StillInLoop DEF Continue
  <2>. QED
    BY <2>2, <2>3, InsidePInv
<1>. QED
  BY <1>1, <1>2, <1>3 DEF EmitKey

(* The flat container ends.                                                *)
LEMMA FlatEndPInv ==
    ASSUME CInv, PInv, CInv', InFlatLoop, FlatEnd
    PROVE  PInv'
<1>1. /\ InLoop /\ outcome = "parsing"
      /\ flat.kind \in Kinds /\ flat.cnt \in Nat /\ flat.mark = Top(open).mark
  BY FlatAt DEF InLoop, InFlatLoop
<1>2. CASE RefusedBy(EndCall(flat.kind, flat.mark, flat.cnt))
  BY <1>2, RefusedPInv
<1>3. CASE SinkEnd(flat.kind, flat.mark, flat.cnt) /\ Continue("main")
  BY <1>1, <1>3, EndPInv DEF Continue
<1>. QED
  BY <1>2, <1>3 DEF FlatEnd

(* A comma of the flat loop spills a full period.                          *)
LEMMA FlatCommaPInv ==
    ASSUME CInv, PInv, CInv', InFlatLoop, pc = "separator", FlatComma
    PROVE  PInv'
<1>1. /\ InLoop /\ outcome = "parsing" /\ flat.cnt = Top(open).len
      /\ flat.mark = Top(open).mark /\ flat.kind = Top(open).kind
  BY FlatAt DEF InLoop, InFlatLoop, CInv, Innermost, CurrentOf
<1>2. CASE RefusedBy(CheckpointCall(flat.mark))
  BY <1>2, RefusedPInv
<1>3. CASE SinkCheckpoint(flat.mark) /\ Continue("flat")
  BY <1>1, <1>3, SameOpenPInv DEF SinkCheckpoint, Continue
<1>4. CASE /\ flat.kind = "object" \/ ~ CheckpointDue(flat.cnt)
           /\ Continue("flat") /\ UNCHANGED sinkVars
  <2>1. Top(open).kind # "array" \/ SinceCheckpoint(Top(open).len) # 0
    BY <1>1, <1>4 DEF CheckpointDue, SinceCheckpoint
  <2>. QED
    BY <1>1, <1>4, <2>1, SameOpenPInv DEF sinkVars, Continue
<1>. QED
  BY <1>2, <1>3, <1>4 DEF FlatComma

(* Every action of the flat loop.                                          *)
LEMMA FlatLoopPInv ==
    ASSUME CInv, PInv, CInv', Flat \/ FlatColon \/ FlatValue \/ FlatSeparator
    PROVE  PInv'
<1>1. InFlatLoop /\ InLoop /\ pos < Len(doc) /\ outcome = "parsing"
  BY DEF Flat, FlatColon, FlatValue, FlatSeparator, Reading, Running, InFlatLoop, InLoop
<1>2. flat.kind = Top(open).kind
  BY <1>1 DEF CInv, Innermost, CurrentOf
<1>3. CASE Flat
  <2>1. pc = "flat"
    BY <1>3 DEF Flat, Reading, Running
  <2>. QED
    BY <1>1, <1>2, <1>3, <2>1, FlatEndPInv, EmitKeyPInv, FlatElementPInv DEF Flat
<1>4. CASE FlatColon
  <2>1. pc = "colon" /\ ~ AfterValue
    BY <1>4 DEF FlatColon, Reading, Running, AfterValue
  <2>2. CASE Fail("expected")
    BY <2>2, FailPInv
  <2>3. CASE Continue("value") /\ UNCHANGED sinkVars
    BY <1>1, <2>1, <2>3, SameOpenPInv DEF sinkVars, Continue
  <2>. QED
    BY <1>4, <2>2, <2>3 DEF FlatColon, sinkVars
<1>5. CASE FlatValue
  BY <1>1, <1>5, FlatElementPInv DEF FlatValue, Reading, Running
<1>6. CASE FlatSeparator
  <2>1. pc = "separator"
    BY <1>6 DEF FlatSeparator, Reading, Running
  <2>. QED
    BY <1>1, <1>6, <2>1, FlatCommaPInv, FlatEndPInv, FailPInv DEF FlatSeparator
<1>. QED
  BY <1>3, <1>4, <1>5, <1>6

(* A container of the main loop ends.                                      *)
LEMMA MainEndPInv ==
    ASSUME CInv, PInv, CInv', InMainLoop, MainEnd
    PROVE  PInv'
<1>1. /\ InLoop /\ outcome = "parsing"
      /\ kind \in Kinds /\ cnt \in Nat /\ mark = Top(open).mark
  BY MainAt DEF InLoop, InMainLoop
<1>2. CASE RefusedBy(EndCall(kind, mark, cnt))
  BY <1>2, RefusedPInv
<1>3. CASE SinkEnd(kind, mark, cnt) /\ (Continue("finish") \/ Continue("main"))
  BY <1>1, <1>3, EndPInv DEF Continue
<1>. QED
  BY <1>2, <1>3 DEF MainEnd

(* A trailing comma's closer is left to be read again.                     *)
LEMMA TrailingCommaPInv ==
    ASSUME CInv, PInv, CInv', InMainLoop, TrailingComma
    PROVE  PInv'
BY SameOpenPInv DEF TrailingComma, Continue, sinkVars, InMainLoop, InLoop, AfterValue

(* Every action of the main loop: a comma leads to the key of the next     *)
(* pair, or to the checkpoint before the next element.                     *)
LEMMA MainLoopPInv ==
    ASSUME CInv, PInv, CInv', Main \/ MainKey \/ MainColon \/ MainNext \/ MainValue
    PROVE  PInv'
<1>1. InMainLoop /\ InLoop /\ outcome = "parsing"
  BY DEF Main, MainKey, MainColon, MainNext, MainValue, Reading, Running, InMainLoop,
     InLoop, AtRoot
<1>2. kind = Top(open).kind /\ mark = Top(open).mark
  BY <1>1, MainAt
<1>3. CASE Main
  <2>1. CASE MainComma
    BY <1>1, <2>1, SameOpenPInv DEF MainComma, Continue, sinkVars, AfterValue
  <2>. QED
    BY <1>1, <1>3, <2>1, MainEndPInv, FailPInv DEF Main
<1>4. CASE MainKey
  <2>1. pc = "key" /\ pos < Len(doc) /\ kind = "object"
    BY <1>1, <1>4, MainAt DEF MainKey, Reading, Running
  <2>. QED
    BY <1>1, <1>2, <1>4, <2>1, TrailingCommaPInv, EmitKeyPInv DEF MainKey
<1>5. CASE MainColon
  <2>1. pc = "main_colon" /\ ~ AfterValue
    BY <1>5 DEF MainColon, Reading, Running, AfterValue
  <2>2. CASE Fail("expected")
    BY <2>2, FailPInv
  <2>3. CASE Continue("main_value") /\ UNCHANGED sinkVars
    BY <1>1, <2>1, <2>3, SameOpenPInv DEF sinkVars, Continue
  <2>. QED
    BY <1>5, <2>2, <2>3 DEF MainColon, sinkVars
<1>6. CASE MainNext
  <2>1. pc = "next" /\ cnt = Top(open).len
    BY <1>1, <1>6, MainAt DEF MainNext, Running
  <2>2. CASE TrailingComma
    BY <1>1, <2>2, TrailingCommaPInv
  <2>3. CASE RefusedBy(CheckpointCall(mark))
    BY <2>3, RefusedPInv
  <2>4. CASE SinkCheckpoint(mark) /\ Continue("main_value")
    BY <1>1, <1>2, <2>4, SameOpenPInv DEF SinkCheckpoint, Continue
  <2>5. CASE ~ CheckpointDue(cnt) /\ Continue("main_value") /\ UNCHANGED sinkVars
    <3>1. SinceCheckpoint(Top(open).len) # 0
      BY <2>1, <2>5 DEF CheckpointDue, SinceCheckpoint
    <3>. QED
      BY <1>1, <2>5, <3>1, SameOpenPInv DEF sinkVars, Continue
  <2>. QED
    BY <1>6, <2>2, <2>3, <2>4, <2>5 DEF MainNext, CountElement
<1>7. CASE MainValue
  <2>1. pc = "main_value" /\ ~ AfterValue /\ pos < Len(doc)
    BY <1>7 DEF MainValue, Reading, Running, AfterValue
  <2>. QED
    BY <1>1, <1>7, <2>1, AttemptPInv, ScalarStepPInv, FailPInv DEF MainValue
<1>. QED
  BY <1>3, <1>4, <1>5, <1>6, <1>7

(* The root value: the first container begins, or nothing is open.         *)
LEMMA RootPInv ==
    ASSUME CInv, PInv, CInv', Root
    PROVE  PInv'
<1>1. open = <<>> /\ outcome = "parsing" /\ pos < Len(doc)
  BY DEF Root, Reading, Running, CInv, OutsideContainers
<1>2. CASE Attempt
  BY <1>1, <1>2, AttemptPInv
<1>3. CASE RefusedBy(ScalarCall(Tok))
  BY <1>3, RefusedPInv
<1>4. CASE Fail(ValueError(Tok))
  BY <1>4, FailPInv
<1>5. CASE SinkScalar(Tok) /\ Continue("finish")
  <2>1. open' = <<>>
    BY <1>1, <1>5 DEF SinkScalar, WithValue
  <2>2. ~ InLoop'
    BY <1>5 DEF Continue, InLoop, InFlatLoop, InMainLoop
  <2>. QED
    BY <2>1, <2>2, OutsidePInv
<1>. QED
  BY <1>2, <1>3, <1>4, <1>5 DEF Root

(* The bound with its explanation, over the cursor's invariant, is         *)
(* inductive.                                                              *)
LEMMA NextPInv ==
    ASSUME CInv, PInv, CInv', [Next]_vars
    PROVE  PInv'
<1>1. CASE Start
  <2>1. ~ InLoop' /\ UNCHANGED <<open, vals>>
    BY <1>1 DEF Start, sinkVars, InLoop, InFlatLoop, InMainLoop
  <2>. QED
    BY <2>1, OutsidePInv
<1>2. CASE Collect
  <2>1. ~ InLoop' /\ open' = <<>>
    BY <1>2 DEF Collect, SinkStart, InLoop, InFlatLoop, InMainLoop
  <2>. QED
    BY <2>1, OutsidePInv
<1>3. CASE UnexpectedEnd \/ Finish
  BY <1>3, ReturnedPInv DEF UnexpectedEnd, Finish, Return, sinkVars
<1>4. CASE Root
  BY <1>4, RootPInv
<1>5. CASE Flat \/ FlatColon \/ FlatValue \/ FlatSeparator
  BY <1>5, FlatLoopPInv
<1>6. CASE Main \/ MainKey \/ MainColon \/ MainNext \/ MainValue
  BY <1>6, MainLoopPInv
<1>7. CASE UNCHANGED vars
  BY <1>7 DEF vars, PInv, PendingBounded, ValuesUpTo, HeldByCount, AfterValue, InFlatLoop,
     InMainLoop, AtRoot
<1>. QED
  BY <1>1, <1>2, <1>3, <1>4, <1>5, <1>6, <1>7 DEF Next, Step

(* No array ever has more than one period of elements on the value stack   *)
(* of a sink that spills at its checkpoints (driver.rs 139-141), however   *)
(* the array is split between the two loops and whatever it nests.         *)
THEOREM CursorPendingBounded == Spec => []PendingBounded
<1>1. Init => PInv
  BY EmptySeq DEF Init, PInv, PendingBounded, HeldByCount, InFlatLoop, InMainLoop
<1>2. CInv /\ CInv' /\ PInv /\ [Next]_vars => PInv'
  BY NextPInv
<1>3. PInv => PendingBounded
  BY DEF PInv
<1>. QED
  BY <1>1, <1>2, <1>3, CursorInvariance, PTL DEF Spec

-----------------------------------------------------------------------------
(* The cursor keeps the promise of SinkProtocol: every step of a parse is  *)
(* a step of the protocol or changes nothing a sink or its owner can see.  *)

(* The sink of the protocol is the sink of the cursor, call by call.       *)
LEMMA SameSink ==
    /\ \A t : Protocol!SinkScalar(t) <=> SinkScalar(t)
    /\ \A t : Protocol!SinkKey(t) <=> SinkKey(t)
    /\ \A k : Protocol!SinkBegin(k) <=> SinkBegin(k)
    /\ \A k, m, n : Protocol!SinkEnd(k, m, n) <=> SinkEnd(k, m, n)
    /\ \A m : Protocol!SinkCheckpoint(m) <=> SinkCheckpoint(m)
    /\ \A c : Protocol!SinkRefuses(c) <=> SinkRefuses(c)
    /\ Protocol!SinkStart <=> SinkStart
    /\ Protocol!Top(open) = Top(open)
    /\ \A t : Protocol!ScalarCall(t) = ScalarCall(t)
    /\ \A t : Protocol!KeyCall(t) = KeyCall(t)
    /\ \A k : Protocol!BeginCall(k) = BeginCall(k)
    /\ \A k, m, n : Protocol!EndCall(k, m, n) = EndCall(k, m, n)
    /\ \A m : Protocol!CheckpointCall(m) = CheckpointCall(m)
BY DEF Protocol!SinkScalar, Protocol!SinkKey, Protocol!SinkBegin, Protocol!SinkEnd,
       Protocol!SinkCheckpoint, Protocol!SinkRefuses, Protocol!SinkStart,
       Protocol!ScalarCall, Protocol!KeyCall, Protocol!BeginCall, Protocol!EndCall,
       Protocol!CheckpointCall, Protocol!Call, Protocol!WithValue, Protocol!SetTop,
       Protocol!OneMoreValue, Protocol!OneMoreKey, Protocol!Opened, Protocol!Pop,
       Protocol!Top,
       SinkScalar, SinkKey, SinkBegin, SinkEnd, SinkCheckpoint, SinkRefuses, SinkStart,
       ScalarCall, KeyCall, BeginCall, EndCall, CheckpointCall, Call, WithValue, SetTop,
       OneMoreValue, OneMoreKey, Opened, Pop, Top

(* What the place in the loop says a document may go on with is what the   *)
(* protocol expects of the sink's innermost container: for the flat loop.  *)
LEMMA FlatGuards ==
    ASSUME CInv, InFlatLoop
    PROVE  /\ pc = "flat" /\ flat.kind = "array" => Protocol!ValueExpected
           /\ pc = "value" => Protocol!ValueExpected
           /\ pc = "flat" /\ flat.kind = "object" => Protocol!KeyExpected
           /\ pc \in {"flat", "separator"} =>
                 /\ Protocol!EndExpected
                 /\ flat.kind = Top(open).kind /\ flat.mark = Top(open).mark
                 /\ flat.cnt = Top(open).len
           /\ pc = "separator" /\ flat.kind = "array" => Protocol!CheckpointExpected
<1>1. Protocol!Top(open) = Top(open)
  BY SameSink
<1>2. /\ open # <<>> /\ flat.kind = Top(open).kind /\ flat.mark = Top(open).mark
      /\ flat.kind \in Kinds
  BY LoopFacts DEF CInv, Innermost, CurrentOf, TypeOK, InLoop
<1>3. pc = "separator" => Top(open).mark < vals
  BY DEF CInv, MarksOrdered, InLoop, AfterValue
<1>. QED
  BY <1>1, <1>2, <1>3, FlatAt
     DEF Kinds, Protocol!ValueExpected, Protocol!KeyExpected, Protocol!EndExpected,
         Protocol!CheckpointExpected

(* And for the main loop.                                                  *)
LEMMA MainGuards ==
    ASSUME CInv, InMainLoop
    PROVE  /\ pc = "main_value" => Protocol!ValueExpected
           /\ pc = "key" => Protocol!KeyExpected
           /\ pc = "main" =>
                 /\ Protocol!EndExpected
                 /\ kind = Top(open).kind /\ mark = Top(open).mark /\ cnt = Top(open).len
           /\ pc = "next" => Protocol!CheckpointExpected /\ mark = Top(open).mark
<1>1. Protocol!Top(open) = Top(open)
  BY SameSink
<1>2. open # <<>>
  BY LoopFacts DEF InLoop
<1>3. pc = "next" => Top(open).mark < vals
  BY DEF CInv, MarksOrdered, InLoop, AfterValue
<1>. QED
  BY <1>1, <1>2, <1>3, MainAt
     DEF Kinds, Protocol!ValueExpected, Protocol!KeyExpected, Protocol!EndExpected,
         Protocol!CheckpointExpected

(* A parse error is a step of the protocol.                                *)
LEMMA FailRefined ==
    ASSUME outcome = "parsing", NEW error \in ParseErrors, Fail(error)
    PROVE  Protocol!Next
<1>. QED
  BY DEF Fail, Return, sinkVars, ParseErrors, Protocol!Next, Protocol!Reject, Protocol!ParseErrors,
         Protocol!sinkVars

(* A scalar is one, accepted or refused.                                   *)
LEMMA ScalarRefined ==
    ASSUME outcome = "parsing", Protocol!ValueExpected, ScalarTok,
           \/ SinkScalar(Tok) /\ outcome' = outcome
           \/ RefusedBy(ScalarCall(Tok))
    PROVE  Protocol!Next
<1>1. Tok \in Protocol!Scalars
  BY DEF ScalarTok, Accepted, Scalars, PlainScalars, NanKeywords,
     Protocol!Scalars, Protocol!PlainScalars, Protocol!NanKeywords
<1>2. Protocol!Scalar(Tok)
  BY SameSink DEF Protocol!Scalar, Protocol!Answered, RefusedBy, Return
<1>. QED
  BY <1>1, <1>2 DEF Protocol!Next

(* So is a container that opens.                                           *)
LEMMA AttemptRefined ==
    ASSUME outcome = "parsing", Protocol!ValueExpected, Attempt
    PROVE  Protocol!Next
<1>1. KindOf(Tok) \in Protocol!Kinds
  BY DEF KindOf, Protocol!Kinds
<1>2. Protocol!Begin(KindOf(Tok))
  BY SameSink DEF Attempt, Protocol!Begin, Protocol!Answered, RefusedBy, Return, Continue
<1>. QED
  BY <1>1, <1>2 DEF Protocol!Next

(* So is an element, or the value of a pair, of the flat loop.             *)
LEMMA FlatElementRefined ==
    ASSUME outcome = "parsing", Protocol!ValueExpected, NEW c, FlatElement(c)
    PROVE  Protocol!Next
<1>1. CASE Descend(c)
  BY <1>1, AttemptRefined DEF Descend
<1>2. CASE /\ ScalarTok
           /\ \/ SinkScalar(Tok) /\ Continue("separator")
              \/ RefusedBy(ScalarCall(Tok))
  BY <1>2, ScalarRefined DEF Continue
<1>3. CASE Fail(ValueError(Tok))
  BY <1>3, FailRefined DEF ValueError, ParseErrors
<1>. QED
  BY <1>1, <1>2, <1>3 DEF FlatElement

(* So is a key, of either loop.                                            *)
LEMMA KeyRefined ==
    ASSUME outcome = "parsing", Protocol!KeyExpected, NEW next, EmitKey(next)
    PROVE  Protocol!Next
<1>1. CASE Fail("scalar_error") \/ Fail("expected")
  BY <1>1, FailRefined DEF ParseErrors
<1>2. CASE /\ Tok \in KeyText
           /\ \/ SinkKey(Tok) /\ Continue(next)
              \/ RefusedBy(KeyCall(Tok))
  <2>1. Tok \in Protocol!KeyText
    BY <1>2 DEF Protocol!KeyText, KeyText
  <2>2. Protocol!Key(Tok)
    BY <1>2, SameSink DEF Protocol!Key, Protocol!Answered, RefusedBy, Return, Continue
  <2>. QED
    BY <2>1, <2>2 DEF Protocol!Next
<1>. QED
  BY <1>1, <1>2 DEF EmitKey

(* A closer calls end_* with the arguments the protocol asks for, whichever*)
(* loop's registers they come from.                                        *)
LEMMA EndRefined ==
    ASSUME outcome = "parsing", Protocol!EndExpected, NEW k, NEW m, NEW n,
           k = Top(open).kind, m = Top(open).mark, n = Top(open).len,
           \/ SinkEnd(k, m, n) /\ outcome' = outcome
           \/ RefusedBy(EndCall(k, m, n))
    PROVE  Protocol!Next
<1>1. CASE SinkEnd(k, m, n) /\ outcome' = outcome
  BY <1>1, SameSink DEF Protocol!Next, Protocol!End, Protocol!Answered
<1>2. CASE RefusedBy(EndCall(k, m, n))
  BY <1>2, SameSink DEF Protocol!Next, Protocol!End, Protocol!Answered, RefusedBy, Return
<1>. QED
  BY <1>1, <1>2

(* A checkpoint spills at the mark of the innermost container.             *)
LEMMA CheckpointRefined ==
    ASSUME outcome = "parsing", Protocol!CheckpointExpected, NEW m, m = Top(open).mark,
           \/ SinkCheckpoint(m) /\ outcome' = outcome
           \/ RefusedBy(CheckpointCall(m))
    PROVE  Protocol!Next
<1>1. Protocol!Checkpoint
  BY SameSink DEF Protocol!Checkpoint, Protocol!Answered, RefusedBy, Return
<1>. QED
  BY <1>1 DEF Protocol!Next

(* A step of the cursor no sink and no owner of one sees.                  *)
Unseen == UNCHANGED <<open, vals, calls, outcome>>

(* The flat loop, step by step.                                            *)
LEMMA FlatLoopRefined ==
    ASSUME CInv, Flat \/ FlatColon \/ FlatValue \/ FlatSeparator
    PROVE  Protocol!Next \/ Unseen
<1>1. InFlatLoop /\ outcome = "parsing" /\ flat.kind \in Kinds
  BY DEF Flat, FlatColon, FlatValue, FlatSeparator, Reading, Running, InFlatLoop, CInv, TypeOK
<1>2. ASSUME pc \in {"flat", "separator"}, FlatEnd PROVE Protocol!Next
  BY <1>1, <1>2, FlatGuards, EndRefined DEF FlatEnd, Continue
<1>3. CASE Flat
  <2>1. pc = "flat"
    BY <1>3 DEF Flat, Reading, Running
  <2>. QED
    BY <1>1, <1>2, <1>3, <2>1, FlatGuards, KeyRefined, FlatElementRefined DEF Flat
<1>4. CASE FlatColon
  <2>1. CASE Fail("expected")
    BY <1>1, <2>1, FailRefined DEF ParseErrors
  <2>2. CASE Continue("value") /\ UNCHANGED sinkVars
    BY <2>2 DEF Continue, sinkVars, Unseen
  <2>. QED
    BY <1>4, <2>1, <2>2 DEF FlatColon, sinkVars
<1>5. CASE FlatValue
  BY <1>1, <1>5, FlatGuards, FlatElementRefined DEF FlatValue, Reading, Running
<1>6. CASE FlatSeparator
  <2>1. pc = "separator"
    BY <1>6 DEF FlatSeparator, Reading, Running
  <2>2. CASE UNCHANGED sinkVars /\ Continue("flat")
    BY <2>2 DEF Continue, sinkVars, Unseen
  <2>3. CASE /\ flat.kind = "array"
             /\ \/ SinkCheckpoint(flat.mark) /\ Continue("flat")
                \/ RefusedBy(CheckpointCall(flat.mark))
    BY <1>1, <2>1, <2>3, FlatGuards, CheckpointRefined DEF Continue
  <2>4. CASE FlatEnd
    BY <1>2, <2>1, <2>4
  <2>5. CASE Fail("expected")
    BY <1>1, <2>5, FailRefined DEF ParseErrors
  <2>. QED
    BY <1>6, <2>2, <2>3, <2>4, <2>5 DEF FlatSeparator, FlatComma
<1>. QED
  BY <1>3, <1>4, <1>5, <1>6

(* The main loop, step by step.                                            *)
LEMMA MainLoopRefined ==
    ASSUME CInv, Main \/ MainKey \/ MainColon \/ MainNext \/ MainValue
    PROVE  Protocol!Next \/ Unseen
<1>1. InMainLoop /\ outcome = "parsing"
  BY DEF Main, MainKey, MainColon, MainNext, MainValue, Reading, Running, InMainLoop, AtRoot
<1>2. CASE TrailingComma
  BY <1>2 DEF TrailingComma, Continue, sinkVars, Unseen
<1>3. CASE Main
  <2>1. pc = "main"
    BY <1>3 DEF Main, Reading, Running
  <2>2. CASE MainComma
    BY <2>2 DEF MainComma, Continue, sinkVars, Unseen
  <2>3. CASE MainEnd
    BY <1>1, <2>1, <2>3, MainGuards, EndRefined DEF MainEnd, Continue
  <2>4. CASE Fail("expected")
    BY <1>1, <2>4, FailRefined DEF ParseErrors
  <2>. QED
    BY <1>3, <2>2, <2>3, <2>4 DEF Main
<1>4. CASE MainKey
  BY <1>1, <1>2, <1>4, MainGuards, KeyRefined DEF MainKey, Reading, Running
<1>5. CASE MainColon
  <2>1. CASE Fail("expected")
    BY <1>1, <2>1, FailRefined DEF ParseErrors
  <2>2. CASE Continue("main_value") /\ UNCHANGED sinkVars
    BY <2>2 DEF Continue, sinkVars, Unseen
  <2>. QED
    BY <1>5, <2>1, <2>2 DEF MainColon, sinkVars
<1>6. CASE MainNext
  <2>1. pc = "next"
    BY <1>6 DEF MainNext, Running
  <2>2. CASE UNCHANGED sinkVars /\ Continue("main_value")
    BY <2>2 DEF Continue, sinkVars, Unseen
  <2>3. CASE \/ SinkCheckpoint(mark) /\ Continue("main_value")
             \/ RefusedBy(CheckpointCall(mark))
    BY <1>1, <2>1, <2>3, MainGuards, CheckpointRefined DEF Continue
  <2>. QED
    BY <1>2, <1>6, <2>2, <2>3 DEF MainNext, CountElement
<1>7. CASE MainValue
  <2>1. Protocol!ValueExpected
    BY <1>1, <1>7, MainGuards DEF MainValue, Reading, Running
  <2>2. CASE Attempt
    BY <1>1, <2>1, <2>2, AttemptRefined
  <2>3. CASE /\ ScalarTok
             /\ \/ SinkScalar(Tok) /\ Continue("main")
                \/ RefusedBy(ScalarCall(Tok))
    BY <1>1, <2>1, <2>3, ScalarRefined DEF Continue
  <2>4. CASE Fail(ValueError(Tok))
    BY <1>1, <2>4, FailRefined DEF ValueError, ParseErrors
  <2>. QED
    BY <1>7, <2>2, <2>3, <2>4 DEF MainValue
<1>. QED
  BY <1>3, <1>4, <1>5, <1>6, <1>7

(* The root value.                                                         *)
LEMMA RootRefined ==
    ASSUME CInv, Root
    PROVE  Protocol!Next
<1>1. Protocol!ValueExpected /\ outcome = "parsing"
  BY DEF Root, Reading, Running, CInv, OutsideContainers, Protocol!ValueExpected
<1>2. CASE Attempt
  BY <1>1, <1>2, AttemptRefined
<1>3. CASE /\ ScalarTok
           /\ \/ SinkScalar(Tok) /\ Continue("finish")
              \/ RefusedBy(ScalarCall(Tok))
  BY <1>1, <1>3, ScalarRefined DEF Continue
<1>4. CASE Fail(ValueError(Tok))
  BY <1>1, <1>4, FailRefined DEF ValueError, ParseErrors
<1>. QED
  BY <1>2, <1>3, <1>4 DEF Root

(* A parse that returns: with an error, or with success after the value.   *)
LEMMA ReturnRefined ==
    ASSUME CInv, UnexpectedEnd \/ Finish
    PROVE  Protocol!Next
<1>1. CASE outcome' \in ParseErrors
  BY <1>1 DEF UnexpectedEnd, Finish, Return, sinkVars, ParseErrors,
     Protocol!Next, Protocol!Reject, Protocol!ParseErrors, Protocol!sinkVars
<1>2. CASE outcome' = "ok"
  <2>1. outcome = "parsing" /\ open = <<>> /\ calls # <<>>
    BY <1>2 DEF UnexpectedEnd, Finish, Return, CInv, OutsideContainers
  <2>. QED
    BY <1>2, <2>1 DEF UnexpectedEnd, Finish, Return, sinkVars,
       Protocol!Next, Protocol!Accept, Protocol!sinkVars
<1>. QED
  BY <1>1, <1>2 DEF UnexpectedEnd, Finish, Return, ParseErrors

(* Every step of the cursor is a step of the protocol, or one the sink and *)
(* the caller do not see.                                                  *)
LEMMA NextRefined ==
    ASSUME CInv, [Next]_vars
    PROVE  [Protocol!Next]_(Protocol!protocolVars)
<1>1. CASE Start
  BY <1>1 DEF Start, sinkVars, Protocol!Next, Protocol!Start, Protocol!sinkVars
<1>2. CASE Collect
  BY <1>2, SameSink DEF Collect, Protocol!Next, Protocol!Collect
<1>3. CASE UnexpectedEnd \/ Finish
  BY <1>3, ReturnRefined
<1>4. CASE Root
  BY <1>4, RootRefined
<1>5. CASE Flat \/ FlatColon \/ FlatValue \/ FlatSeparator
  BY <1>5, FlatLoopRefined DEF Unseen, Protocol!protocolVars
<1>6. CASE Main \/ MainKey \/ MainColon \/ MainNext \/ MainValue
  BY <1>6, MainLoopRefined DEF Unseen, Protocol!protocolVars
<1>7. CASE UNCHANGED vars
  BY <1>7 DEF vars, Protocol!protocolVars
<1>. QED
  BY <1>1, <1>2, <1>3, <1>4, <1>5, <1>6, <1>7 DEF Next, Step

(* The fused cursor implements the protocol every Sink is written against, *)
(* the one the driver over the index implements (IndexedDriverProofs):     *)
(* calls in a legal order, each with the arguments of the container it is  *)
(* about, none after a refusal, success after exactly one value.           *)
THEOREM CursorRefinement == Spec => ImplementsSinkProtocol
<1>1. Init => Protocol!Init
  BY DEF Init, Protocol!Init
<1>2. CInv /\ [Next]_vars => [Protocol!Next]_(Protocol!protocolVars)
  BY NextRefined
<1>. QED
  BY <1>1, <1>2, CursorInvariance, PTL DEF Spec, ImplementsSinkProtocol, Protocol!Spec

-----------------------------------------------------------------------------
(* The parse the cursor makes under the strict options: each of its steps  *)
(* takes the next token of PushParse or returns as PushParse does, but for *)
(* the counting of an element after its comma, which PushParse does not    *)
(* see.                                                                    *)

(* Where in the parse of PushParse the loops stand.                        *)
FlatPlace ==
    IF flat.cnt = 0 THEN "first" ELSE IF flat.kind = "object" THEN "key" ELSE "value"

Place ==
    IF pc = "flat" THEN FlatPlace
    ELSE IF pc = "separator" THEN "after"
    ELSE IF pc = "main" THEN IF mark = ROOT_MARK THEN "finish" ELSE "after"
    ELSE IF pc = "main_colon" THEN "colon"
    ELSE IF pc \in {"next", "main_value"} THEN "value"
    ELSE pc

(* What the cursor shows of a state of the parse.                          *)
Shows(s) == IsState(s, Place, pos, open, vals, calls, outcome, errorAt)

(* Where the flat loop looks for a separator it has counted a value.       *)
SeparatorCounted == pc = "separator" => flat.cnt # 0

(* The initial registers are at no separator.                              *)
LEMMA InitCounted == Init => SeparatorCounted
BY DEF Init, SeparatorCounted

(* The flat loop comes to a separator from a value it counts.              *)
LEMMA NextCounted ==
    ASSUME CInv, SeparatorCounted, [Next]_vars
    PROVE  SeparatorCounted'
<1>1. CASE pc' # "separator"
  BY <1>1 DEF SeparatorCounted
<1>2. CASE UNCHANGED vars \/ Collect
  BY <1>2 DEF SeparatorCounted, vars, Collect, CInv, OutsideContainers
<1>3. CASE pc' = "separator" /\ (Start \/ Step)
  <2>1. ASSUME NEW c \in Nat, c # 0, FlatElement(c) PROVE SeparatorCounted'
    <3>1. flat' = [flat EXCEPT !.cnt = c] /\ flat \in [kind: Kinds, mark: Nat, cnt: Nat]
      BY <1>3, <2>1
         DEF FlatElement, Descend, Attempt, RefusedBy, Continue, Return, Fail, CInv, TypeOK
    <3>2. flat'.cnt = c
      BY <3>1
    <3>. QED
      BY <2>1, <3>2 DEF SeparatorCounted
  <2>2. CASE Flat
    <3>1. FlatElement(flat.cnt + 1)
      BY <1>3, <2>2 DEF Flat, FlatEnd, EmitKey, RefusedBy, Continue, Return, Fail
    <3>2. flat.cnt + 1 \in Nat /\ flat.cnt + 1 # 0
      BY DEF CInv, TypeOK
    <3>. QED
      BY <2>1, <3>1, <3>2
  <2>3. CASE FlatValue
    <3>1. FlatElement(flat.cnt) /\ InFlatLoop /\ pc = "value"
      BY <2>3 DEF FlatValue, Reading, Running, InFlatLoop
    <3>2. flat.cnt \in Nat /\ flat.cnt # 0
      <4>1. Top(open) \in Container /\ flat.cnt = Top(open).len + 1
        BY <3>1, FlatAt, LoopFacts DEF InLoop
      <4>2. Top(open).len \in Nat
        BY <4>1 DEF Container
      <4>. QED
        BY <4>1, <4>2
    <3>. QED
      BY <2>1, <3>1, <3>2
  <2>. QED
    BY <1>3, <2>2, <2>3
       DEF Step, Start, UnexpectedEnd, Finish, Root, FlatColon, FlatSeparator, FlatComma,
           FlatEnd, Main, MainKey, MainColon, MainNext, MainValue, Attempt, MainEnd, MainComma,
           TrailingComma, CountElement, EmitKey, RefusedBy, Continue, Return, Fail
<1>. QED
  BY <1>1, <1>2, <1>3 DEF Next

(* Inside a parse the cursor shows the state of one.                       *)
LEMMA ShownParsing ==
    ASSUME NEW s, Shows(s), outcome = "parsing", NEW at, at = Place
    PROVE  ShowsParsing(s, at, pos)
BY DEF Shows, ShowsParsing

(* The strict options accept the plain scalars and no trailing comma.      *)
LEMMA StrictFacts ==
    ASSUME opts = Strict
    PROVE  /\ ~ opts.allow_trailing_comma
           /\ ScalarTok <=> Tok \in PlainScalars
           /\ ErrorTok <=> Tok \notin Openers \cup PlainScalars
<1>1. opts.allow_nan = FALSE /\ opts.allow_trailing_comma = FALSE
  BY DEF Strict
<1>. QED
  BY <1>1 DEF ScalarTok, ErrorTok, Accepted

(* A parse error at the token looked at.                                   *)
LEMMA FailFollows ==
    ASSUME CInv, NEW s, Shows(s), outcome = "parsing", NEW error \in ParseErrors, Fail(error),
           NEW t, t = Rejecting(s, error)
    PROVE  Shows(t)'
<1>1. /\ outcome' = error /\ errorAt' = pos + 1 /\ UNCHANGED sinkVars
      /\ pos + 1 \in Nat /\ error \in {"ok"} \cup ParseErrors
  BY DEF Fail, Return, sinkVars, CInv, TypeOK
<1>2. s.taken = pos
  BY DEF Shows, IsState
<1>3. ASSUME NEW at, at = Place, NEW n, NEW m, n = Place', m = pos'
      PROVE  IsState(t, n, m, open', vals', calls', error, pos + 1)
  BY <1>1, <1>2, <1>3, ShownParsing, ReturnShown, Zenon DEF Rejecting
<1>. QED
  BY <1>1, <1>3, Zenon DEF Shows

(* The sink's refusal: the result at once.                                 *)
LEMMA RefusalFollows ==
    ASSUME NEW t, IsState(t, Place', pos', open', vals', calls', "sink_error", 0),
           Return("sink_error", 0)
    PROVE  Shows(t)'
BY Zenon DEF Return, Shows

(* A scalar, in either loop or for the root.                               *)
LEMMA ScalarFollows ==
    ASSUME CInv, NEW s, Shows(s), outcome = "parsing", Tok \in PlainScalars, pos' = pos + 1,
           NEW limit, RefusesAt(calls', limit), NEW t, t = TakeScalar(s, Tok, limit),
           \/ SinkScalar(Tok) /\ Place' = Behind(open) /\ UNCHANGED outcome
           \/ RefusedBy(ScalarCall(Tok))
    PROVE  Shows(t)'
<1>. DEFINE k == Tok
<1>1. k \in Token /\ SinkTypeOK
  BY DEF PlainScalars, Token, Scalars, CInv, TypeOK
<1>2. PICK at : at = Place
  OBVIOUS
<1>3. ShowsParsing(s, at, pos)
  BY <1>2, ShownParsing
<1>4. CASE SinkScalar(k) /\ Place' = Behind(open) /\ UNCHANGED outcome
  <2>1. IsState(t, Behind(open), pos + 1, open', vals', calls', "parsing", errorAt')
    <3>. HIDE DEF k
    <3>1. t = TakeScalar(s, k, limit)
      BY DEF k
    <3>. QED
      BY <1>1, <1>3, <1>4, <3>1, ScalarShown, Zenon
  <2>. QED
    BY <1>4, <2>1, Zenon DEF Shows
<1>5. CASE RefusedBy(ScalarCall(k))
  <2>1. SinkRefuses(ScalarCall(k)) /\ Return("sink_error", 0)
    BY <1>5, Zenon DEF RefusedBy
  <2>2. IsState(t, Place', pos', open', vals', calls', "sink_error", 0)
    <3>. HIDE DEF k
    <3>1. t = TakeScalar(s, k, limit)
      BY DEF k
    <3>. QED
      BY <1>1, <1>3, <2>1, <3>1, ScalarRefused, Zenon
  <2>. QED
    BY <2>1, <2>2, RefusalFollows, Zenon
<1>. QED
  BY <1>4, <1>5

(* A container begun, whichever registers it leaves behind.                *)
LEMMA AttemptFollows ==
    ASSUME CInv, NEW s, Shows(s), outcome = "parsing", Tok \in Openers, Attempt, Consume,
           NEW limit, RefusesAt(calls', limit), NEW t, t = TakeOpener(s, Tok, limit)
    PROVE  Shows(t)'
<1>. DEFINE k == Tok
<1>1. SinkTypeOK /\ k \in Openers /\ pos' = pos + 1
  BY DEF CInv, TypeOK, Consume
<1>2. PICK at : at = Place
  OBVIOUS
<1>3. ShowsParsing(s, at, pos)
  BY <1>2, ShownParsing
<1>4. CASE /\ SinkBegin(KindOf(k)) /\ Continue("flat")
           /\ flat' = [kind |-> KindOf(Tok), mark |-> vals, cnt |-> 0]
  <2>1. Place' = "first" /\ outcome' = "parsing"
    <3>1. flat'.cnt = 0
      BY <1>4
    <3>. QED
      BY <1>4, <3>1 DEF Place, FlatPlace, Continue
  <2>2. IsState(t, "first", pos + 1, open', vals', calls', "parsing", errorAt')
    <3>. HIDE DEF k
    <3>1. t = TakeOpener(s, k, limit)
      BY DEF k
    <3>. QED
      BY <1>1, <1>3, <1>4, <3>1, BeginShown, Zenon
  <2>. QED
    BY <1>1, <2>1, <2>2, Zenon DEF Shows
<1>5. CASE RefusedBy(BeginCall(KindOf(k)))
  <2>1. SinkRefuses(BeginCall(KindOf(k))) /\ Return("sink_error", 0)
    BY <1>5, Zenon DEF RefusedBy
  <2>2. IsState(t, Place', pos', open', vals', calls', "sink_error", 0)
    <3>. HIDE DEF k
    <3>1. t = TakeOpener(s, k, limit)
      BY DEF k
    <3>. QED
      BY <1>1, <1>3, <2>1, <3>1, BeginRefused, Zenon
  <2>. QED
    BY <2>1, <2>2, RefusalFollows, Zenon
<1>. QED
  BY <1>4, <1>5, Zenon DEF Attempt

(* A value where one is due: an opener, a scalar or an error.              *)
LEMMA ValueFollows ==
    ASSUME CInv, opts = Strict, NEW s, Shows(s), outcome = "parsing",
           NEW limit, RefusesAt(calls', limit), NEW t, t = TakeValue(s, Tok, limit),
           \/ Tok \in Openers /\ Consume /\ Attempt
           \/ /\ ScalarTok /\ Consume
              /\ \/ SinkScalar(Tok) /\ Place' = Behind(open) /\ UNCHANGED outcome
                 \/ RefusedBy(ScalarCall(Tok))
           \/ ErrorTok /\ Fail(ValueError(Tok))
    PROVE  Shows(t)'
<1>1. CASE Tok \in Openers /\ Consume /\ Attempt
  <2>1. t = TakeOpener(s, Tok, limit)
    BY <1>1, Zenon DEF TakeValue
  <2>. QED
    BY <1>1, <2>1, AttemptFollows
<1>2. CASE /\ ScalarTok /\ Consume
           /\ \/ SinkScalar(Tok) /\ Place' = Behind(open) /\ UNCHANGED outcome
              \/ RefusedBy(ScalarCall(Tok))
  <2>1. Tok \in PlainScalars /\ Tok \notin Openers /\ pos' = pos + 1
    BY <1>2, StrictFacts DEF Openers, PlainScalars, Consume
  <2>2. t = TakeScalar(s, Tok, limit)
    BY <2>1, Zenon DEF TakeValue
  <2>. QED
    BY <1>2, <2>1, <2>2, ScalarFollows
<1>3. CASE ErrorTok /\ Fail(ValueError(Tok))
  <2>1. Tok \notin Openers \cup PlainScalars
    BY <1>3, StrictFacts
  <2>2. t = Rejecting(s, ValueError(Tok))
    BY <2>1, Zenon DEF TakeValue
  <2>3. ValueError(Tok) \in ParseErrors
    BY DEF ValueError, ParseErrors
  <2>. QED
    BY <1>3, <2>2, <2>3, FailFollows
<1>. QED
  BY <1>1, <1>2, <1>3

(* A key where one is due, in either loop.                                 *)
LEMMA KeyFollows ==
    ASSUME CInv, NEW s, Shows(s), outcome = "parsing", open # <<>>,
           NEW next \in {"colon", "main_colon"}, EmitKey(next),
           NEW limit, RefusesAt(calls', limit), NEW t, t = TakeKey(s, Tok, limit)
    PROVE  Shows(t)'
<1>. DEFINE k == Tok
<1>1. CASE k \in KeyText
  <2>1. SinkTypeOK /\ pos' = pos + 1
    BY <1>1 DEF CInv, TypeOK, EmitKey, KeyText, Quoted, Consume
  <2>2. PICK at : at = Place
    OBVIOUS
  <2>3. ShowsParsing(s, at, pos)
    BY <2>2, ShownParsing
  <2>4. (SinkKey(k) /\ Continue(next)) \/ RefusedBy(KeyCall(k))
    <3>1. k # "badstr" /\ k \in Quoted
      BY <1>1 DEF KeyText, Quoted
    <3>. QED
      BY <1>1, <3>1, Zenon DEF EmitKey
  <2>5. CASE SinkKey(k) /\ Continue(next)
    <3>1. Place' = "colon" /\ outcome' = "parsing"
      BY <2>5 DEF Place, Continue
    <3>2. IsState(t, "colon", pos + 1, open', vals', calls', "parsing", errorAt')
      <4>. HIDE DEF k
      <4>1. t = TakeKey(s, k, limit)
        BY DEF k
      <4>. QED
        BY <1>1, <2>1, <2>3, <2>5, <4>1, KeyShown, Zenon
    <3>. QED
      BY <2>1, <3>1, <3>2, Zenon DEF Shows
  <2>6. CASE RefusedBy(KeyCall(k))
    <3>1. SinkRefuses(KeyCall(k)) /\ Return("sink_error", 0)
      BY <2>6, Zenon DEF RefusedBy
    <3>2. IsState(t, Place', pos', open', vals', calls', "sink_error", 0)
      <4>. HIDE DEF k
      <4>1. t = TakeKey(s, k, limit)
        BY DEF k
      <4>. QED
        BY <1>1, <2>1, <2>3, <3>1, <4>1, KeyRefused, Zenon
    <3>. QED
      BY <3>1, <3>2, RefusalFollows, Zenon
  <2>. QED
    BY <2>4, <2>5, <2>6
<1>2. CASE k \notin KeyText
  <2>1. KeyError(k) \in ParseErrors /\ Fail(KeyError(k))
    <3>1. CASE k = "badstr"
      BY <1>2, <3>1 DEF KeyError, EmitKey, ParseErrors, Quoted
    <3>2. CASE k # "badstr"
      BY <1>2, <3>2 DEF KeyError, EmitKey, ParseErrors, Quoted, KeyText
    <3>. QED
      BY <3>1, <3>2
  <2>2. t = Rejecting(s, KeyError(k))
    BY <1>2, Zenon DEF TakeKey
  <2>. QED
    BY <2>1, <2>2, FailFollows
<1>. QED
  BY <1>1, <1>2

(* The innermost container ended, whichever loop it was in.                *)
LEMMA EndFollows ==
    ASSUME CInv, open # <<>>, outcome = "parsing", NEW s, Shows(s), Consume,
           NEW k, NEW m, NEW c, k = Top(open).kind, m = Top(open).mark, c = Top(open).len,
           \/ SinkEnd(k, m, c) /\ Place' = Behind(Pop(open)) /\ UNCHANGED outcome
           \/ RefusedBy(EndCall(k, m, c)),
           NEW limit, RefusesAt(calls', limit), NEW t, t = TakeCloser(s, limit)
    PROVE  Shows(t)'
<1>1. SinkTypeOK /\ pos' = pos + 1
  BY DEF CInv, TypeOK, Consume
<1>2. PICK at : at = Place
  OBVIOUS
<1>3. ShowsParsing(s, at, pos)
  BY <1>2, ShownParsing
<1>4. CASE SinkEnd(k, m, c) /\ Place' = Behind(Pop(open)) /\ UNCHANGED outcome
  <2>1. IsState(t, Behind(Pop(open)), pos + 1, open', vals', calls', "parsing", errorAt')
    <3>1. SinkEnd(Top(open).kind, Top(open).mark, Top(open).len)
      BY <1>4, Zenon
    <3>. QED
      BY <1>1, <1>3, <3>1, EndShown, Zenon
  <2>. QED
    BY <1>1, <1>4, <2>1, Zenon DEF Shows
<1>5. CASE RefusedBy(EndCall(k, m, c))
  <2>1. SinkRefuses(EndCall(Top(open).kind, Top(open).mark, Top(open).len))
        /\ Return("sink_error", 0)
    BY <1>5, Zenon DEF RefusedBy
  <2>2. IsState(t, Place', pos', open', vals', calls', "sink_error", 0)
    BY <1>1, <1>3, <2>1, EndRefused, Zenon
  <2>. QED
    BY <2>1, <2>2, RefusalFollows, Zenon
<1>. QED
  BY <1>4, <1>5

(* A colon or a comma, of which the sink hears nothing.                    *)
LEMMA MoveFollows ==
    ASSUME CInv, NEW s, Shows(s), outcome = "parsing", Consume, UNCHANGED <<sinkVars, outcome>>,
           NEW at \in Places, Place' = at, NEW t, t = Moving(s, at)
    PROVE  Shows(t)'
<1>1. PICK a : a = Place
  OBVIOUS
<1>2. IsState(t, at, pos + 1, open', vals', calls', "parsing", errorAt')
  BY <1>1, ShownParsing, MoveShown, Zenon
<1>. QED
  BY <1>2, Zenon DEF Shows, Consume

(* What is left open behind the innermost container.                       *)
LEMMA BehindInnermost ==
    ASSUME CInv, open # <<>>
    PROVE  Behind(Pop(open)) = IF Len(open) = 1 THEN "finish" ELSE "after"
<1>1. /\ Len(open) \in Nat \ {0} /\ Pop(open) \in Seq(Container)
      /\ Len(Pop(open)) = Len(open) - 1
  BY PopFacts DEF CInv, TypeOK, SinkTypeOK
<1>2. Pop(open) = <<>> <=> Len(open) = 1
  BY <1>1, EmptySeq
<1>. QED
  BY <1>2 DEF Behind

(* The flat container ended: the main loop takes over.                     *)
LEMMA FlatEndFollows ==
    ASSUME CInv, InFlatLoop, pc \in {"flat", "separator"}, FlatEnd, NEW s, Shows(s),
           NEW limit, RefusesAt(calls', limit), NEW t, t = TakeCloser(s, limit)
    PROVE  Shows(t)'
<1>1. /\ outcome = "parsing" /\ open # <<>> /\ Consume
      /\ flat.kind = Top(open).kind /\ flat.mark = Top(open).mark /\ flat.cnt = Top(open).len
  BY DEF FlatEnd, InFlatLoop, CInv, Innermost, CurrentOf
<1>2. \/ SinkEnd(flat.kind, flat.mark, flat.cnt) /\ UNCHANGED mark /\ Continue("main")
      \/ RefusedBy(EndCall(flat.kind, flat.mark, flat.cnt))
  BY DEF FlatEnd
<1>3. ASSUME UNCHANGED mark, Continue("main")
      PROVE  Place' = Behind(Pop(open)) /\ UNCHANGED outcome
  <2>1. mark = ROOT_MARK <=> Len(open) = 1
    BY DEF CInv, NoUnderflow
  <2>. QED
    BY <1>1, <1>3, <2>1, BehindInnermost DEF Continue, Place
<1>. QED
  BY <1>1, <1>2, <1>3, EndFollows

(* A container of the main loop ended: its parent goes on, or the root is  *)
(* complete.                                                               *)
LEMMA MainEndFollows ==
    ASSUME CInv, InMainLoop, pc = "main", MainEnd, NEW s, Shows(s),
           NEW limit, RefusesAt(calls', limit), NEW t, t = TakeCloser(s, limit)
    PROVE  Shows(t)'
<1>1. /\ outcome = "parsing" /\ open # <<>> /\ Consume
      /\ kind = Top(open).kind /\ mark = Top(open).mark /\ cnt = Top(open).len
  <2>1. CurrentOf(Registers, Top(open)) /\ open # <<>> /\ outcome = "parsing"
    BY DEF InMainLoop, CInv, Innermost, NoUnderflow
  <2>2. Registers.kind = kind /\ Registers.mark = mark /\ Registers.cnt = cnt
    BY DEF Registers
  <2>. QED
    BY <2>1, <2>2 DEF CurrentOf, MainEnd
<1>2. CASE /\ SinkEnd(kind, mark, cnt)
           /\ IF Top(stack).kind = "root"
              THEN UNCHANGED <<mark, cnt, kind>> /\ Continue("finish")
              ELSE mark' = Top(stack).mark /\ Continue("main")
  <2>1. /\ Len(stack) = Len(open) + 1 /\ Len(open) \in Nat \ {0}
        /\ \A i \in DOMAIN stack : stack[i].kind = "root" <=> i <= 2
        /\ stack \in Seq(Frames)
    BY LoopFacts DEF InLoop, CInv, NoUnderflow, TypeOK
  <2>2. Len(stack) \in DOMAIN stack /\ Top(stack) \in Frames
    BY <2>1, LenProperties, ElementOfSeq DEF Top
  <2>3. Top(stack).kind = "root" <=> Len(open) = 1
    <3>1. Top(stack) = stack[Len(stack)]
      BY Zenon DEF Top
    <3>2. Top(stack).kind = "root" <=> Len(stack) <= 2
      BY <2>1, <2>2, <3>1, Zenon
    <3>3. Len(stack) <= 2 <=> Len(open) = 1
      <4>1. \A n \in Nat \ {0} : n + 1 <= 2 <=> n = 1
        OBVIOUS
      <4>. QED
        BY <2>1, <4>1, Zenon
    <3>. QED
      BY <3>2, <3>3, Zenon
  <2>4. Top(stack).mark # ROOT_MARK
    <3>. HIDE DEF Top
    <3>1. Top(stack).mark \in Nat
      BY <2>2 DEF Frames
    <3>. QED
      BY <3>1 DEF ROOT_MARK
  <2>5. Place' = Behind(Pop(open)) /\ UNCHANGED outcome
    BY <1>1, <1>2, <2>3, <2>4, BehindInnermost DEF Continue, Place
  <2>. QED
    BY <1>1, <1>2, <2>5, EndFollows
<1>3. CASE RefusedBy(EndCall(kind, mark, cnt))
  BY <1>1, <1>3, EndFollows
<1>. QED
  BY <1>2, <1>3 DEF MainEnd

(* A value of the flat container.                                          *)
LEMMA FlatElementFollows ==
    ASSUME CInv, opts = Strict, InFlatLoop, NEW s, Shows(s), NEW c, FlatElement(c),
           NEW limit, RefusesAt(calls', limit), NEW t, t = TakeValue(s, Tok, limit)
    PROVE  Shows(t)'
<1>1. outcome = "parsing" /\ open # <<>>
  BY DEF InFlatLoop, CInv, Innermost
<1>2. Continue("separator") => Place' = Behind(open) /\ UNCHANGED outcome
  BY <1>1 DEF Continue, Place, Behind
<1>3. \/ Tok \in Openers /\ Consume /\ Attempt
      \/ /\ ScalarTok /\ Consume
         /\ \/ SinkScalar(Tok) /\ Place' = Behind(open) /\ UNCHANGED outcome
            \/ RefusedBy(ScalarCall(Tok))
      \/ ErrorTok /\ Fail(ValueError(Tok))
  BY <1>2, Zenon DEF FlatElement, Descend
<1>. QED
  BY <1>1, <1>3, ValueFollows

(* A token read where the loops stand at `p`.                              *)
LEMMA Reads ==
    ASSUME CInv, NEW p, Reading(p), Place # "finish", NEW s, Shows(s), NEW limit,
           NEW t, t = ParseStep(s, doc, limit)
    PROVE  /\ outcome = "parsing" /\ pc = p /\ pos < Len(doc)
           /\ t = TokenStep(s, Tok, limit) /\ s.at = Place /\ s.open = open
<1>1. outcome = "parsing" /\ pc = p /\ pos < Len(doc)
  BY DEF Reading, Running
<1>2. s.at = Place /\ s.taken = pos /\ s.open = open
  BY <1>1 DEF Shows, IsState
<1>3. s.taken # Len(doc) /\ s.at # "finish"
  BY <1>1, <1>2 DEF CInv, TypeOK
<1>4. t = TokenStep(s, Tok, limit)
  BY <1>2, <1>3, Zenon DEF ParseStep, Tok
<1>. QED
  BY <1>1, <1>2, <1>4

(* The flat loop at its top: a container just entered, or behind a comma.  *)
LEMMA FlatFollows ==
    ASSUME CInv, opts = Strict, Flat, NEW s, Shows(s), NEW limit, RefusesAt(calls', limit),
           NEW t, t = ParseStep(s, doc, limit)
    PROVE  Shows(t)'
<1>1. /\ Reading("flat") /\ InFlatLoop /\ pc = "flat" /\ Place = FlatPlace
      /\ FlatPlace # "finish" /\ open # <<>> /\ flat.kind = Top(open).kind
      /\ outcome = "parsing"
  BY DEF Flat, Reading, Running, InFlatLoop, Place, FlatPlace, CInv, Innermost, CurrentOf
<1>2. t = TokenStep(s, Tok, limit) /\ s.at = FlatPlace /\ s.open = open
  BY <1>1, Reads
<1>3. FlatCloses <=> flat.cnt = 0 /\ Tok = CloserOf(flat.kind)
  BY StrictFacts DEF FlatCloses, FlatMayClose
<1>4. CASE FlatCloses /\ FlatEnd
  <2>1. t = TakeCloser(s, limit)
    <3>0. s.at = "first"
      BY <1>2, <1>3, <1>4 DEF FlatPlace
    <3>1. t = TakeFirst(s, Tok, limit)
      BY <1>2, <3>0 DEF TokenStep
    <3>. QED
      BY <1>1, <1>2, <1>3, <1>4, <3>1, Zenon DEF TakeFirst
  <2>. QED
    BY <1>1, <1>4, <2>1, FlatEndFollows
<1>5. CASE ~ FlatCloses /\ flat.kind = "object" /\ EmitKey("colon")
  <2>1. t = TakeKey(s, Tok, limit)
    <3>1. CASE flat.cnt = 0
      <4>1. s.at = "first" /\ t = TakeFirst(s, Tok, limit)
        BY <1>2, <3>1 DEF FlatPlace, TokenStep
      <4>. QED
        BY <1>1, <1>2, <1>3, <1>5, <3>1, <4>1, Zenon DEF TakeFirst
    <3>2. CASE flat.cnt # 0
      BY <1>2, <1>5, <3>2 DEF FlatPlace, TokenStep
    <3>. QED
      BY <3>1, <3>2
  <2>. QED
    BY <1>1, <1>5, <2>1, KeyFollows
<1>6. CASE ~ FlatCloses /\ flat.kind = "array" /\ FlatElement(flat.cnt + 1)
  <2>1. t = TakeValue(s, Tok, limit)
    <3>0. flat.kind # "object"
      BY <1>6
    <3>1. CASE flat.cnt = 0
      <4>1. s.at = "first" /\ t = TakeFirst(s, Tok, limit)
        BY <1>2, <3>1 DEF FlatPlace, TokenStep
      <4>. QED
        BY <1>1, <1>2, <1>3, <1>6, <3>0, <3>1, <4>1, Zenon DEF TakeFirst
    <3>2. CASE flat.cnt # 0
      BY <1>2, <3>0, <3>2 DEF FlatPlace, TokenStep
    <3>. QED
      BY <3>1, <3>2
  <2>. QED
    BY <1>1, <1>6, <2>1, FlatElementFollows
<1>. QED
  BY <1>4, <1>5, <1>6 DEF Flat

(* The flat loop behind a value.                                           *)
LEMMA FlatSeparatorFollows ==
    ASSUME CInv, SeparatorCounted, ~ Spills, FlatSeparator, NEW s, Shows(s),
           NEW limit, RefusesAt(calls', limit), NEW t, t = ParseStep(s, doc, limit)
    PROVE  Shows(t)'
<1>1. /\ Reading("separator") /\ InFlatLoop /\ pc = "separator" /\ Place = "after"
      /\ flat.cnt # 0 /\ open # <<>> /\ flat.kind = Top(open).kind
      /\ outcome = "parsing" /\ SinkTypeOK /\ flat.mark \in Nat /\ flat.kind \in Kinds
  BY DEF FlatSeparator, Reading, Running, InFlatLoop, Place, CInv, Innermost, CurrentOf,
         SeparatorCounted, TypeOK
<1>2. t = TakeSeparator(s, Tok, limit) /\ s.open = open
  <2>1. t = TokenStep(s, Tok, limit) /\ s.at = "after" /\ s.open = open
    BY <1>1, Reads
  <2>. QED
    BY <2>1 DEF TokenStep
<1>3. CloserOf(flat.kind) # "," /\ "expected" \in ParseErrors
  BY DEF CloserOf, ParseErrors
<1>4. CASE Tok = "," /\ FlatComma
  <2>. DEFINE at == IF flat.kind = "object" THEN "key" ELSE "value"
  <2>1. at \in Places /\ t = Moving(s, at)
    BY <1>1, <1>2, <1>4, Zenon DEF TakeSeparator, Places
  <2>2. Continue("flat") => Place' = at /\ UNCHANGED outcome
    BY <1>1, <1>4 DEF FlatComma, Continue, Place, FlatPlace
  <2>. HIDE DEF at
  <2>3. CASE Continue("flat") /\ UNCHANGED sinkVars
    BY <1>1, <1>4, <2>1, <2>2, <2>3, MoveFollows DEF FlatComma
  <2>4. CASE SinkCheckpoint(flat.mark) /\ Continue("flat")
    <3>1. PICK a : a = Place
      OBVIOUS
    <3>2. IsState(t, at, pos + 1, open', vals', calls', "parsing", errorAt')
      BY <1>1, <2>1, <2>4, <3>1, ShownParsing, CheckpointMoved, Zenon
    <3>3. pos' = pos + 1
      BY <1>4 DEF FlatComma, Consume
    <3>. QED
      BY <1>1, <2>2, <2>4, <3>2, <3>3, Zenon DEF Shows
  <2>5. CASE RefusedBy(CheckpointCall(flat.mark))
    BY <1>1, <2>5, CheckpointRefused DEF RefusedBy
  <2>. QED
    BY <1>4, <2>3, <2>4, <2>5 DEF FlatComma
<1>5. CASE Tok = CloserOf(flat.kind) /\ FlatEnd
  <2>1. t = TakeCloser(s, limit)
    BY <1>1, <1>2, <1>3, <1>5, Zenon DEF TakeSeparator
  <2>. QED
    BY <1>1, <1>5, <2>1, FlatEndFollows
<1>6. CASE Tok \notin {",", CloserOf(flat.kind)} /\ Fail("expected")
  <2>1. t = Rejecting(s, "expected")
    BY <1>1, <1>2, <1>6, Zenon DEF TakeSeparator
  <2>. QED
    BY <1>1, <1>3, <1>6, <2>1, FailFollows
<1>. QED
  BY <1>4, <1>5, <1>6 DEF FlatSeparator

(* A colon, in either loop.                                                *)
LEMMA ColonFollows ==
    ASSUME CInv, FlatColon \/ MainColon, NEW s, Shows(s), NEW limit,
           NEW t, t = ParseStep(s, doc, limit)
    PROVE  Shows(t)'
<1>1. /\ pc \in {"colon", "main_colon"} /\ Reading(pc) /\ Place = "colon"
      /\ outcome = "parsing"
  BY DEF FlatColon, MainColon, Reading, Running, Place
<1>2. t = TakeColon(s, Tok)
  <2>1. t = TokenStep(s, Tok, limit) /\ s.at = "colon"
    BY <1>1, Reads
  <2>. QED
    BY <2>1 DEF TokenStep
<1>3. CASE /\ Tok = ":" /\ Consume /\ (Continue("value") \/ Continue("main_value"))
           /\ UNCHANGED sinkVars
  <2>1. t = Moving(s, "value") /\ "value" \in Places
    BY <1>2, <1>3, Zenon DEF TakeColon, Places
  <2>2. Place' = "value" /\ UNCHANGED outcome
    BY <1>3 DEF Continue, Place
  <2>. QED
    BY <1>1, <1>3, <2>1, <2>2, MoveFollows
<1>4. CASE Tok # ":" /\ Fail("expected")
  <2>1. t = Rejecting(s, "expected") /\ "expected" \in ParseErrors
    BY <1>2, <1>4, Zenon DEF TakeColon, ParseErrors
  <2>. QED
    BY <1>1, <1>4, <2>1, FailFollows
<1>. QED
  BY <1>3, <1>4 DEF FlatColon, MainColon

(* The root value.                                                         *)
LEMMA RootFollows ==
    ASSUME CInv, opts = Strict, Root, NEW s, Shows(s), NEW limit, RefusesAt(calls', limit),
           NEW t, t = ParseStep(s, doc, limit)
    PROVE  Shows(t)'
<1>1. /\ Reading("root") /\ pc = "root" /\ Place = "root" /\ outcome = "parsing"
      /\ open = <<>>
  BY DEF Root, Reading, Running, Place, CInv, OutsideContainers
<1>2. t = TakeValue(s, Tok, limit)
  <2>1. t = TokenStep(s, Tok, limit) /\ s.at = "root"
    BY <1>1, Reads
  <2>. QED
    BY <2>1 DEF TokenStep
<1>3. Continue("finish") => Place' = Behind(open) /\ UNCHANGED outcome
  BY <1>1 DEF Continue, Place, Behind
<1>4. \/ Tok \in Openers /\ Consume /\ Attempt
      \/ /\ ScalarTok /\ Consume
         /\ \/ SinkScalar(Tok) /\ Place' = Behind(open) /\ UNCHANGED outcome
            \/ RefusedBy(ScalarCall(Tok))
      \/ ErrorTok /\ Fail(ValueError(Tok))
  BY <1>3, Zenon DEF Root
<1>. QED
  BY <1>1, <1>2, <1>4, ValueFollows

(* The main loop behind a value.                                           *)
LEMMA MainFollows ==
    ASSUME CInv, Main, NEW s, Shows(s), NEW limit, RefusesAt(calls', limit),
           NEW t, t = ParseStep(s, doc, limit)
    PROVE  Shows(t)'
<1>1. /\ Reading("main") /\ InMainLoop /\ pc = "main" /\ Place = "after"
      /\ outcome = "parsing"
  BY DEF Main, Reading, Running, InMainLoop, AtRoot, Place
<1>2. kind = Top(open).kind /\ kind \in Kinds
  BY <1>1, MainAt
<1>3. t = TakeSeparator(s, Tok, limit) /\ s.open = open
  <2>1. t = TokenStep(s, Tok, limit) /\ s.at = "after" /\ s.open = open
    BY <1>1, Reads
  <2>. QED
    BY <2>1 DEF TokenStep
<1>4. CloserOf(kind) # "," /\ "expected" \in ParseErrors
  BY DEF CloserOf, ParseErrors
<1>5. CASE Tok = "," /\ MainComma
  <2>. DEFINE at == IF kind = "object" THEN "key" ELSE "value"
  <2>1. at \in Places /\ t = Moving(s, at)
    BY <1>2, <1>3, <1>5, Zenon DEF TakeSeparator, Places
  <2>2. Place' = at /\ UNCHANGED <<sinkVars, outcome>> /\ Consume
    BY <1>5 DEF MainComma, Continue, Place
  <2>. HIDE DEF at
  <2>. QED
    BY <1>1, <2>1, <2>2, MoveFollows
<1>6. CASE Tok = CloserOf(kind) /\ MainEnd
  <2>1. t = TakeCloser(s, limit)
    BY <1>2, <1>3, <1>4, <1>6, Zenon DEF TakeSeparator
  <2>. QED
    BY <1>1, <1>6, <2>1, MainEndFollows
<1>7. CASE Tok \notin {",", CloserOf(kind)} /\ Fail("expected")
  <2>1. t = Rejecting(s, "expected")
    BY <1>2, <1>3, <1>7, Zenon DEF TakeSeparator
  <2>. QED
    BY <1>1, <1>4, <1>7, <2>1, FailFollows
<1>. QED
  BY <1>5, <1>6, <1>7 DEF Main

(* A key of the main loop, which under the strict options no closer is     *)
(* taken for.                                                              *)
LEMMA MainKeyFollows ==
    ASSUME CInv, opts = Strict, MainKey, NEW s, Shows(s), NEW limit, RefusesAt(calls', limit),
           NEW t, t = ParseStep(s, doc, limit)
    PROVE  Shows(t)'
<1>1. /\ Reading("key") /\ pc = "key" /\ Place = "key" /\ outcome = "parsing" /\ open # <<>>
      /\ EmitKey("main_colon")
  BY StrictFacts DEF MainKey, TrailingComma, Reading, Running, InMainLoop, AtRoot, Place,
                     CInv, NoUnderflow
<1>2. t = TakeKey(s, Tok, limit)
  <2>1. t = TokenStep(s, Tok, limit) /\ s.at = "key"
    BY <1>1, Reads
  <2>. QED
    BY <2>1 DEF TokenStep
<1>. QED
  BY <1>1, <1>2, KeyFollows

(* A value of the main loop.                                               *)
LEMMA MainValueFollows ==
    ASSUME CInv, opts = Strict, MainValue, NEW s, Shows(s), NEW limit,
           RefusesAt(calls', limit), NEW t, t = ParseStep(s, doc, limit)
    PROVE  Shows(t)'
<1>1. /\ Reading("main_value") /\ pc = "main_value" /\ Place = "value"
      /\ outcome = "parsing" /\ InMainLoop /\ open # <<>>
  BY DEF MainValue, Reading, Running, InMainLoop, AtRoot, Place, CInv, NoUnderflow
<1>2. t = TakeValue(s, Tok, limit)
  <2>1. t = TokenStep(s, Tok, limit) /\ s.at = "value"
    BY <1>1, Reads
  <2>. QED
    BY <2>1 DEF TokenStep
<1>3. mark # ROOT_MARK
  BY <1>1, MainAt
<1>4. Continue("main") /\ UNCHANGED mark => Place' = Behind(open) /\ UNCHANGED outcome
  BY <1>1, <1>3 DEF Continue, Place, Behind
<1>5. \/ Tok \in Openers /\ Consume /\ Attempt
      \/ /\ ScalarTok /\ Consume
         /\ \/ SinkScalar(Tok) /\ Place' = Behind(open) /\ UNCHANGED outcome
            \/ RefusedBy(ScalarCall(Tok))
      \/ ErrorTok /\ Fail(ValueError(Tok))
  BY <1>4 DEF MainValue
<1>. QED
  BY <1>1, <1>2, <1>5, ValueFollows

(* The element behind a comma counted: no step of the parse.               *)
LEMMA MainNextFollows ==
    ASSUME CInv, opts = Strict, ~ Spills, MainNext, NEW s, Shows(s),
           NEW limit, RefusesAt(calls', limit)
    PROVE  Shows(s)'
<1>1. /\ pc = "next" /\ outcome = "parsing" /\ Place = "value" /\ CountElement
      /\ pos' = pos /\ SinkTypeOK
  BY StrictFacts DEF MainNext, TrailingComma, Running, Place, CountElement, CInv, TypeOK
<1>2. mark \in Nat
  BY <1>1, MainAt DEF InMainLoop, AtRoot
<1>3. CASE UNCHANGED sinkVars /\ Continue("main_value")
  BY <1>1, <1>3 DEF Shows, Continue, Place, sinkVars, IsState
<1>4. CASE SinkCheckpoint(mark) /\ Continue("main_value")
  <2>1. PICK a : a = Place
    OBVIOUS
  <2>2. IsState(s, a, pos, open', vals', calls', "parsing", errorAt')
    BY <1>1, <1>2, <1>4, <2>1, ShownParsing, CheckpointShown, Zenon
  <2>3. Place' = "value" /\ outcome' = "parsing"
    BY <1>1, <1>4 DEF Continue, Place
  <2>. QED
    BY <1>1, <2>1, <2>2, <2>3, Zenon DEF Shows
<1>5. CASE RefusedBy(CheckpointCall(mark))
  BY <1>1, <1>2, <1>5, CheckpointRefused DEF RefusedBy
<1>. QED
  BY <1>1, <1>3, <1>4, <1>5 DEF CountElement

(* The return without a token: the input ended, or the value did.          *)
LEMMA ReturnFollows ==
    ASSUME CInv, opts = Strict, NEW s, Shows(s), UnexpectedEnd \/ Finish, NEW limit,
           NEW t, t = ParseStep(s, doc, limit)
    PROVE  Shows(t)'
<1>1. /\ outcome = "parsing" /\ UNCHANGED sinkVars /\ pos + 1 \in Nat
      /\ pos \in Nat /\ Len(doc) \in Nat /\ pos <= Len(doc)
  BY LenProperties DEF UnexpectedEnd, Finish, sinkVars, CInv, TypeOK
<1>2. s.taken = pos /\ s.at = Place
  BY <1>1 DEF Shows, IsState
<1>3. PICK a : a = Place
  OBVIOUS
<1>4. ShowsParsing(s, a, pos)
  BY <1>1, <1>3, ShownParsing
<1>5. ASSUME NEW result \in {"ok"} \cup ParseErrors, NEW offset \in Nat,
             Return(result, offset), t = Returning(s, result, offset)
      PROVE  Shows(t)'
  <2>1. IsState(t, Place', pos', open', vals', calls', result, offset)
    BY <1>1, <1>4, <1>5, ReturnShown, Zenon
  <2>. QED
    BY <1>5, <2>1, Zenon DEF Return, Shows
<1>6. CASE UnexpectedEnd
  <2>1. s.at # "finish" /\ s.taken = Len(doc)
    BY <1>2, <1>6 DEF UnexpectedEnd, Place, FlatPlace, AtRoot
  <2>2. t = Returning(s, "unexpected_end", pos + 1)
    BY <1>2, <2>1, Zenon DEF ParseStep, Rejecting
  <2>. QED
    BY <1>1, <1>5, <1>6, <2>2 DEF UnexpectedEnd, ParseErrors
<1>7. CASE Finish
  <2>1. s.at = "finish"
    BY <1>2, <1>7 DEF Finish, AtRoot, Place
  <2>2. CASE pos < Len(doc)
    <3>1. t = Returning(s, "trailing_characters", pos + 1)
      BY <1>2, <2>1, <2>2, Zenon DEF ParseStep, Rejecting
    <3>. QED
      BY <1>1, <1>5, <1>7, <2>2, <3>1 DEF Finish, ParseErrors
  <2>3. CASE ~ pos < Len(doc)
    <3>1. t = Returning(s, "ok", 0)
      BY <1>2, <2>1, <2>3, Zenon DEF ParseStep
    <3>. QED
      BY <1>1, <1>5, <1>7, <2>3, <3>1 DEF Finish
  <2>. QED
    BY <2>2, <2>3
<1>. QED
  BY <1>6, <1>7

(* Each step of the cursor is the step of the parse, or none.              *)
LEMMA StepFollows ==
    ASSUME CInv, SeparatorCounted, opts = Strict, ~ Spills, Step, NEW s, Shows(s),
           NEW limit, RefusesAt(calls', limit), NEW t, t = ParseStep(s, doc, limit)
    PROVE  Shows(s)' \/ Shows(t)'
<1>1. CASE FlatValue
  <2>1. /\ Reading("value") /\ InFlatLoop /\ FlatElement(flat.cnt) /\ Place = "value"
    BY <1>1 DEF FlatValue, Reading, Running, InFlatLoop, Place
  <2>2. t = TokenStep(s, Tok, limit) /\ s.at = "value"
    BY <2>1, Reads
  <2>3. t = TakeValue(s, Tok, limit)
    BY <2>2 DEF TokenStep
  <2>. QED
    BY <2>1, <2>3, FlatElementFollows
<1>2. CASE UnexpectedEnd \/ Finish
  BY <1>2, ReturnFollows
<1>3. CASE Root
  BY <1>3, RootFollows
<1>4. CASE Flat
  BY <1>4, FlatFollows
<1>5. CASE FlatColon \/ MainColon
  BY <1>5, ColonFollows
<1>6. CASE FlatSeparator
  BY <1>6, FlatSeparatorFollows
<1>7. CASE Main
  BY <1>7, MainFollows
<1>8. CASE MainKey
  BY <1>8, MainKeyFollows
<1>9. CASE MainValue
  BY <1>9, MainValueFollows
<1>10. CASE MainNext
  BY <1>10, MainNextFollows
<1>. QED
  BY <1>1, <1>2, <1>3, <1>4, <1>5, <1>6, <1>7, <1>8, <1>9, <1>10 DEF Step

(* A parse starts as every parse does.                                     *)
LEMMA StartShows ==
    ASSUME CInv, Start
    PROVE  Shows(Unread)'
<1>1. /\ pos' = 0 /\ open' = <<>> /\ vals' = 0 /\ calls' = <<>>
      /\ outcome' = "parsing" /\ Place' = "root"
  BY DEF Start, CInv, OutsideContainers, sinkVars, Place
<1>2. Unread \in ParseStates
  BY EmptySeq DEF Unread, ParseStates, Places
<1>3. IsState(Unread, "root", 0, <<>>, 0, <<>>, "parsing", errorAt')
  BY <1>2, DeliveredNone DEF IsState, Unread
<1>. QED
  BY <1>1, <1>3, Zenon DEF Shows

(* A step is one of a parse that runs, and leaves the document and the     *)
(* options alone.                                                          *)
LEMMA StepRuns ==
    ASSUME Step
    PROVE  outcome = "parsing" /\ UNCHANGED <<doc, opts>>
<1>1. outcome = "parsing"
  BY DEF Step, UnexpectedEnd, Finish, Root, Flat, FlatColon, FlatValue, FlatSeparator, Main,
         MainKey, MainColon, MainNext, MainValue, Reading, Running
<1>2. ASSUME NEW c, FlatElement(c) PROVE UNCHANGED <<doc, opts>>
  BY <1>2 DEF FlatElement, Descend, Consume, Fail
<1>3. ASSUME NEW next, EmitKey(next) PROVE UNCHANGED <<doc, opts>>
  BY <1>3 DEF EmitKey, Consume, Fail
<1>4. FlatSeparator \/ Main \/ MainNext \/ MainValue \/ Root => UNCHANGED <<doc, opts>>
  BY DEF FlatSeparator, FlatComma, FlatEnd, Main, MainComma, MainEnd, MainNext, TrailingComma,
         CountElement, MainValue, Root, Consume, Fail
<1>5. Flat \/ MainKey \/ FlatColon \/ MainColon \/ FlatValue => UNCHANGED <<doc, opts>>
  BY <1>2, <1>3
     DEF Flat, FlatEnd, MainKey, TrailingComma, FlatColon, MainColon, FlatValue, Consume, Fail
<1>6. UNCHANGED <<doc, opts>>
  BY <1>4, <1>5 DEF Step, UnexpectedEnd, Finish
<1>. QED
  BY <1>1, <1>6

(* Frames another parse leaves in the Buffers are no concern of a parse    *)
(* that does not run.                                                      *)
LEMMA IdleStep ==
    ASSUME CInv, outcome # "parsing", stack' \in Seq(Frames),
           UNCHANGED <<doc, opts, pos, mark, cnt, kind, flat, pc, outcome, errorAt,
                       open, vals, calls>>
    PROVE  CInv'
<1>1. TypeOK'
  BY DEF CInv, TypeOK, SinkTypeOK
<1>. QED
  BY <1>1 DEF CInv, NoUnderflow, FrameChain, Innermost, MarksOrdered, OutsideContainers,
              InFlatLoop, InMainLoop, AtRoot
=============================================================================
