------------------------ MODULE IndexedDriverProofs ------------------------
(***************************************************************************)
(* The inductive invariant of IndexedDriver, for every set of documents    *)
(* and every checkpoint period: what the registers and the frames say of   *)
(* the containers the sink has open.  From it, what of an array a sink     *)
(* that spills has to hold, and that the driver keeps the promise of       *)
(* SinkProtocol.                                                           *)
(***************************************************************************)
EXTENDS IndexedDriver, FlatSinkProofs

-----------------------------------------------------------------------------
(* A step that returns leaves only types to be checked.                    *)
LEMMA ReturnedStep ==
    ASSUME TypeOK', outcome' \notin {"none", "parsing"}, pc' = "idle"
    PROVE  IInv'
BY DEF IInv, FrameChain, Registers, MarksOrdered, OutsideContainers, InContainer

(* The token at hand is one, and consuming it stays within the document.   *)
LEMMA TokFacts ==
    ASSUME TypeOK, pos < Len(doc)
    PROVE  Tok \in Token /\ pos + 1 \in 0 .. Len(doc) /\ pos + 1 \in Nat
<1>1. Len(doc) \in Nat /\ pos \in Nat /\ pos + 1 \in 1 .. Len(doc)
  BY LenProperties DEF TypeOK
<1>. QED
  BY <1>1, ElementOfSeq DEF TypeOK, Tok

(* A step that returns a parse error keeps the invariant.                  *)
LEMMA FailStep ==
    ASSUME IInv, pos < Len(doc), NEW error \in ParseErrors, Fail(error)
    PROVE  IInv'
<1>1. TypeOK'
  BY TokFacts DEF IInv, TypeOK, Fail, Return, sinkVars, SinkTypeOK, Pcs, Outcomes
<1>2. outcome' \notin {"none", "parsing"} /\ pc' = "idle"
  BY DEF Fail, Return, ParseErrors
<1>. QED
  BY <1>1, <1>2, ReturnedStep

(* A step whose sink call is refused keeps the invariant, whatever frame   *)
(* it had pushed before the call.                                          *)
LEMMA RefusedStep ==
    ASSUME IInv, pos < Len(doc), pos' = pos + 1, doc' = doc, stack' \in Seq(Frames),
           NEW c \in CallRecord, RefusedBy(c)
    PROVE  IInv'
<1>1. SinkTypeOK'
  BY SinkRefusesFacts DEF IInv, TypeOK, RefusedBy
<1>2. TypeOK'
  BY <1>1, TokFacts DEF IInv, TypeOK, RefusedBy, Return, Pcs, Outcomes
<1>3. outcome' \notin {"none", "parsing"} /\ pc' = "idle"
  BY DEF RefusedBy, Return
<1>. QED
  BY <1>2, <1>3, ReturnedStep

-----------------------------------------------------------------------------
(* The pieces the actions share.                                           *)

(* A child is entered: its parent's registers, with the child counted, are *)
(* the frame that joins the chain.                                         *)
LEMMA EnterStep ==
    ASSUME IInv, InContainer, pos < Len(doc), Tok \in Openers, Enter(Frame(Top(open).len + 1)),
           kind = "object" => Top(open).keys = Top(open).len + 1
    PROVE  IInv'
<1>. DEFINE f == Frame(Top(open).len + 1)
<1>1. KindOf(Tok) \in Kinds
  BY DEF KindOf, Kinds
<1>2. /\ open # <<>> /\ stack # <<>>
      /\ Len(open) \in Nat \ {0} /\ Len(stack) = Len(open)
      /\ Top(open) \in Container
      /\ open \in Seq(Container) /\ stack \in Seq(Frames)
  BY PopFacts, EmptySeq DEF IInv, TypeOK, SinkTypeOK, FrameChain
<1>3. /\ f \in Frames /\ f.kind = kind /\ f.mark = mark /\ f.cnt = Top(open).len + 1
  BY <1>2, SMTT(30) DEF Frame, Frames, IInv, TypeOK, Container
<1>4. /\ stack' \in Seq(Frames) /\ stack' # <<>> /\ Len(stack') = Len(stack) + 1
      /\ \A i \in 1 .. Len(stack) : stack'[i] = stack[i]
      /\ stack'[Len(stack) + 1] = f
  BY <1>2, <1>3, AppendProperties DEF Enter
<1>5. pos' = pos + 1 /\ doc' = doc
  BY DEF Enter
<1>6. CASE RefusedBy(BeginCall(KindOf(Tok)))
  <2>1. BeginCall(KindOf(Tok)) \in CallRecord
    BY <1>1 DEF BeginCall, Call, CallRecord
  <2>. QED
    BY <1>4, <1>5, <1>6, <2>1, RefusedStep
<1>7. CASE /\ SinkBegin(KindOf(Tok))
           /\ mark' = vals /\ cnt' = 0 /\ kind' = KindOf(Tok)
           /\ Continue("fresh")
  <2>1. /\ SinkTypeOK'
        /\ vals' = vals
        /\ open' # <<>>
        /\ Len(open') = Len(open) + 1
        /\ \A i \in 1 .. Len(open) : open'[i] = open[i]
        /\ Top(open') = [kind |-> KindOf(Tok), mark |-> vals, keys |-> 0, len |-> 0]
    BY <1>1, <1>7, SinkBeginFacts DEF IInv, TypeOK
  <2>2. vals \in Nat /\ mark \in Nat
    BY DEF IInv, TypeOK, SinkTypeOK
  <2>3. pc' = "fresh" /\ outcome' = outcome /\ errorAt' = errorAt /\ outcome = "parsing"
    BY <1>7 DEF Continue, InContainer
  <2>4. TypeOK'
    BY <1>1, <1>4, <1>5, <1>7, <2>1, <2>2, <2>3, TokFacts DEF IInv, TypeOK, Pcs
  <2>5. FrameChain'
    <3>1. stack'[1].kind = "root"
      BY <1>2, <1>4 DEF IInv, FrameChain
    <3>2. ASSUME NEW i \in 2 .. Len(stack')
          PROVE  /\ stack'[i].kind = open'[i - 1].kind
                 /\ stack'[i].mark = open'[i - 1].mark
                 /\ stack'[i].cnt = open'[i - 1].len + 1
                 /\ stack'[i].kind = "object" => stack'[i].cnt = open'[i - 1].keys
      <4>1. i - 1 \in 1 .. Len(open) /\ open'[i - 1] = open[i - 1]
        BY <1>2, <1>4, <2>1, SMTT(30)
      <4>2. CASE i = Len(stack) + 1
        <5>1. open[i - 1] = Top(open) /\ stack'[i] = f
          BY <1>2, <1>4, <4>2 DEF Top
        <5>2. kind = Top(open).kind /\ mark = Top(open).mark
          BY DEF IInv, Registers
        <5>. QED
          BY <1>3, <4>1, <5>1, <5>2
      <4>3. CASE i \in 2 .. Len(stack)
        BY <1>2, <1>4, <4>1, <4>3 DEF IInv, FrameChain
      <4>. QED
        BY <1>2, <1>4, <4>2, <4>3
    <3>. QED
      BY <1>2, <1>4, <2>1, <3>1, <3>2 DEF FrameChain
  <2>6. Registers'
    BY <1>7, <2>1, <2>3 DEF Registers
  <2>7. MarksOrdered'
    <3>1. ASSUME NEW i \in 1 .. Len(open') - 1
          PROVE  open'[i].mark <= open'[i + 1].mark
      <4>1. CASE i = Len(open)
        BY <1>2, <2>1, <2>2, <4>1 DEF IInv, MarksOrdered, Top
      <4>2. CASE i \in 1 .. Len(open) - 1
        BY <1>2, <2>1, <4>2 DEF IInv, MarksOrdered
      <4>. QED
        BY <1>2, <2>1, <4>1, <4>2
    <3>. QED
      BY <2>1, <2>2, <2>3, <3>1 DEF MarksOrdered
  <2>8. OutsideContainers'
    BY <2>3 DEF OutsideContainers
  <2>. QED
    BY <2>4, <2>5, <2>6, <2>7, <2>8 DEF IInv
<1>. QED
  BY <1>6, <1>7 DEF Enter

(* A step inside the innermost container: the ancestors and their frames   *)
(* are as they were.                                                       *)
SameAncestors ==
    /\ stack' = stack
    /\ open' # <<>>
    /\ Len(open') = Len(open)
    /\ \A i \in 1 .. Len(open) - 1 : open'[i] = open[i]
    /\ Top(open').mark = Top(open).mark

(* A step inside the innermost container keeps the chain of frames.        *)
LEMMA ChainKept ==
    ASSUME IInv, InContainer, SameAncestors
    PROVE  FrameChain'
<1>1. /\ Len(open) \in Nat \ {0} /\ Len(stack) = Len(open)
  BY PopFacts DEF IInv, TypeOK, SinkTypeOK, FrameChain
<1>2. \A i \in 2 .. Len(stack) : i - 1 \in 1 .. Len(open) - 1
  BY <1>1
<1>3. \A i \in 2 .. Len(stack) : open'[i - 1] = open[i - 1]
  BY <1>2 DEF SameAncestors
<1>. QED
  BY <1>1, <1>3 DEF IInv, FrameChain, SameAncestors

(* It keeps the order of the marks when the value stack stays above the    *)
(* mark of the innermost container.                                        *)
LEMMA MarksKept ==
    ASSUME IInv, InContainer, SameAncestors, vals' \in Nat,
           Top(open).mark <= vals',
           pc' \in {"after", "closed"} => Top(open).mark < vals'
    PROVE  MarksOrdered'
<1>1. Len(open) \in Nat \ {0}
  BY PopFacts DEF IInv, TypeOK, SinkTypeOK, FrameChain
<1>2. ASSUME NEW i \in 1 .. Len(open') - 1
      PROVE  open'[i].mark <= open'[i + 1].mark
  <2>1. /\ i \in 1 .. Len(open) - 1 /\ open[i].mark <= open[i + 1].mark
        /\ open'[i] = open[i]
    BY <1>1 DEF IInv, MarksOrdered, SameAncestors
  <2>2. CASE i + 1 = Len(open)
    BY <1>1, <2>1, <2>2 DEF SameAncestors, Top
  <2>3. CASE i + 1 \in 1 .. Len(open) - 1
    BY <1>1, <2>1, <2>3 DEF SameAncestors
  <2>. QED
    BY <1>1, <2>1, <2>2, <2>3
<1>. QED
  BY <1>2 DEF MarksOrdered, SameAncestors

(* A scalar in a container counts in the registers as it does in the sink. *)
LEMMA EmitScalarStep ==
    ASSUME IInv, InContainer, pos < Len(doc), EmitScalar(Top(open).len + 1),
           kind = "object" => Top(open).keys = Top(open).len + 1
    PROVE  IInv'
<1>1. /\ pos' = pos + 1 /\ doc' = doc /\ stack' = stack /\ stack \in Seq(Frames)
      /\ Tok \in PlainScalars /\ Tok \in Token
  BY DEF EmitScalar, IInv, TypeOK, Token, Scalars
<1>2. CASE RefusedBy(ScalarCall(Tok))
  <2>1. ScalarCall(Tok) \in CallRecord
    BY <1>1 DEF ScalarCall, Call, CallRecord
  <2>. QED
    BY <1>1, <1>2, <2>1, RefusedStep
<1>3. CASE /\ SinkScalar(Tok)
           /\ cnt' = Top(open).len + 1 /\ UNCHANGED <<mark, kind>>
           /\ Continue("after")
  <2>1. open # <<>> /\ Top(open) \in Container /\ vals \in Nat
    BY PopFacts DEF IInv, FrameChain, TypeOK, SinkTypeOK
  <2>2. /\ SinkTypeOK' /\ vals' = vals + 1
        /\ Len(open') = Len(open)
        /\ \A i \in 1 .. Len(open) - 1 : open'[i] = open[i]
        /\ open' # <<>>
        /\ Top(open').kind = Top(open).kind
        /\ Top(open').mark = Top(open).mark
        /\ Top(open').keys = Top(open).keys
        /\ Top(open').len = Top(open).len + 1
    BY <1>1, <1>3, <2>1, SinkScalarFacts DEF IInv, TypeOK
  <2>3. SameAncestors
    BY <1>1, <2>2 DEF SameAncestors
  <2>4. pc' = "after" /\ outcome' = outcome /\ errorAt' = errorAt /\ outcome = "parsing"
    BY <1>3 DEF Continue, InContainer
  <2>5. Top(open).mark <= vals /\ Top(open).mark \in Nat /\ Top(open).len \in Nat
    BY <2>1 DEF IInv, MarksOrdered, Container
  <2>6. TypeOK'
    BY <1>1, <1>3, <2>2, <2>4, <2>5, TokFacts DEF IInv, TypeOK, Pcs
  <2>7. FrameChain'
    BY <2>3, ChainKept
  <2>8. Registers'
    BY <1>3, <2>2, <2>4 DEF IInv, Registers
  <2>9. MarksOrdered'
    BY <2>1, <2>2, <2>3, <2>5, MarksKept
  <2>10. OutsideContainers'
    BY <2>4 DEF OutsideContainers
  <2>. QED
    BY <2>6, <2>7, <2>8, <2>9, <2>10 DEF IInv
<1>. QED
  BY <1>2, <1>3 DEF EmitScalar

(* A value, whichever it is, keeps the invariant.                          *)
LEMMA ValueStep ==
    ASSUME IInv, InContainer, pos < Len(doc), Value(Top(open).len + 1),
           kind = "object" => Top(open).keys = Top(open).len + 1
    PROVE  IInv'
<1>1. ValueError(Tok) \in ParseErrors
  BY DEF ValueError, ParseErrors
<1>. QED
  BY <1>1, EnterStep, EmitScalarStep, FailStep DEF Value

(* A key, which counts as a pair only once its colon has been seen, keeps  *)
(* the invariant.                                                          *)
LEMMA EmitKeyStep ==
    ASSUME IInv, InContainer, pos < Len(doc), EmitKey, pc \in {"fresh", "key"},
           kind = "object"
    PROVE  IInv'
<1>1. CASE Tok = "badstr" /\ Fail("scalar_error")
  BY <1>1, FailStep DEF ParseErrors
<1>2. CASE Tok \notin Quoted /\ Fail("expected")
  BY <1>2, FailStep DEF ParseErrors
<1>3. CASE /\ Tok \in KeyText
           /\ pos' = pos + 1
           /\ UNCHANGED <<doc, stack>>
           /\ RefusedBy(KeyCall(Tok))
  <2>1. KeyCall(Tok) \in CallRecord
    BY <1>3 DEF KeyCall, Call, CallRecord, KeyText, Token, Scalars, PlainScalars
  <2>2. stack' \in Seq(Frames)
    BY <1>3 DEF IInv, TypeOK
  <2>. QED
    BY <1>3, <2>1, <2>2, RefusedStep
<1>4. CASE /\ Tok \in KeyText
           /\ pos' = pos + 1
           /\ UNCHANGED <<doc, stack>>
           /\ SinkKey(Tok) /\ UNCHANGED <<mark, cnt, kind>> /\ Continue("colon")
  <2>1. /\ open # <<>> /\ Tok \in Token
    BY <1>4 DEF IInv, FrameChain, KeyText, Token, Scalars, PlainScalars
  <2>2. /\ SinkTypeOK' /\ vals' = vals
        /\ Len(open') = Len(open)
        /\ \A i \in 1 .. Len(open) - 1 : open'[i] = open[i]
        /\ open' # <<>>
        /\ Top(open').kind = Top(open).kind
        /\ Top(open').mark = Top(open).mark
        /\ Top(open').keys = Top(open).keys + 1
        /\ Top(open').len = Top(open).len
    BY <1>4, <2>1, SinkKeyFacts DEF IInv, TypeOK
  <2>3. SameAncestors
    BY <1>4, <2>2 DEF SameAncestors
  <2>4. pc' = "colon" /\ outcome' = outcome /\ errorAt' = errorAt /\ outcome = "parsing"
    BY <1>4 DEF Continue, InContainer
  <2>5. TypeOK'
    BY <1>4, <2>2, <2>4, TokFacts DEF IInv, TypeOK, Pcs
  <2>6. FrameChain'
    BY <2>3, ChainKept
  <2>7. Registers'
    BY <1>4, <2>2, <2>4 DEF IInv, Registers
  <2>8. MarksOrdered'
    BY <2>2, <2>3, <2>4, MarksKept DEF IInv, MarksOrdered, TypeOK, SinkTypeOK
  <2>9. OutsideContainers'
    BY <2>4 DEF OutsideContainers
  <2>. QED
    BY <2>5, <2>6, <2>7, <2>8, <2>9 DEF IInv
<1>. QED
  BY <1>1, <1>2, <1>3, <1>4 DEF EmitKey

(* The innermost container ends: the frame popped holds what the parent's  *)
(* registers are to be, its count with the child that has just become one  *)
(* of its values.                                                          *)
LEMMA EndContainerStep ==
    ASSUME IInv, InContainer, pos < Len(doc), EndContainer
    PROVE  IInv'
<1>. DEFINE n == Len(open)
<1>1. /\ open # <<>> /\ stack # <<>>
      /\ n \in Nat \ {0} /\ Len(stack) = n
      /\ Top(open) \in Container /\ Top(stack) \in Frames
      /\ open \in Seq(Container) /\ stack \in Seq(Frames)
      /\ Pop(stack) \in Seq(Frames) /\ Len(Pop(stack)) = n - 1
      /\ \A i \in 1 .. n - 1 : Pop(stack)[i] = stack[i]
  BY PopFacts, EmptySeq DEF IInv, TypeOK, SinkTypeOK, FrameChain
<1>2. /\ kind \in Kinds /\ mark \in Nat /\ cnt \in Nat
      /\ mark = Top(open).mark /\ outcome = "parsing"
  BY DEF IInv, TypeOK, Registers, InContainer
<1>3. pos' = pos + 1 /\ doc' = doc
  BY DEF EndContainer
<1>4. CASE RefusedBy(EndCall(kind, mark, cnt)) /\ UNCHANGED stack
  <2>1. EndCall(kind, mark, cnt) \in CallRecord
    BY <1>2 DEF EndCall, Call, CallRecord
  <2>. QED
    BY <1>1, <1>3, <1>4, <2>1, RefusedStep
<1>5. CASE /\ SinkEnd(kind, mark, cnt)
           /\ stack' = Pop(stack)
           /\ Top(stack).kind = "root"
           /\ UNCHANGED <<mark, cnt, kind>> /\ Continue("finish")
  <2>1. n = 1
    <3>1. ASSUME n # 1 PROVE FALSE
      <4>1. n \in 2 .. Len(stack) /\ n - 1 \in 1 .. Len(open)
        BY <1>1, <3>1
      <4>2. stack[n].kind = open[n - 1].kind /\ open[n - 1] \in Container
        BY <1>1, <4>1, ElementOfSeq DEF IInv, FrameChain
      <4>. QED
        BY <1>1, <1>5, <4>2 DEF Top, Container, Kinds
    <3>. QED
      BY <3>1
  <2>2. SinkTypeOK' /\ open' = <<>> /\ calls' # <<>>
    BY <1>1, <1>2, <1>5, <2>1, SinkEndFacts DEF IInv, TypeOK
  <2>3. pc' = "finish" /\ outcome' = "parsing" /\ errorAt' = errorAt
    BY <1>2, <1>5 DEF Continue
  <2>4. TypeOK'
    BY <1>1, <1>3, <1>5, <2>2, <2>3, TokFacts DEF IInv, TypeOK, Pcs, Outcomes
  <2>. QED
    BY <2>2, <2>3, <2>4
       DEF IInv, FrameChain, Registers, MarksOrdered, OutsideContainers, InContainer
<1>6. CASE /\ SinkEnd(kind, mark, cnt)
           /\ stack' = Pop(stack)
           /\ Top(stack).kind # "root"
           /\ mark' = Top(stack).mark
           /\ cnt' = Top(stack).cnt
           /\ kind' = Top(stack).kind
           /\ Continue("closed")
  <2>1. n > 1 /\ n \in 2 .. Len(stack) /\ n - 1 \in 1 .. Len(open)
    BY <1>1, <1>6 DEF IInv, FrameChain, Top
  <2>2. /\ SinkTypeOK' /\ vals' = mark + 1
        /\ Len(open') = n - 1
        /\ \A i \in 1 .. n - 2 : open'[i] = open[i]
        /\ open' # <<>>
        /\ Top(open').kind = open[n - 1].kind
        /\ Top(open').mark = open[n - 1].mark
        /\ Top(open').keys = open[n - 1].keys
        /\ Top(open').len = open[n - 1].len + 1
    BY <1>1, <1>2, <1>6, <2>1, SinkEndFacts DEF IInv, TypeOK
  <2>3. pc' = "closed" /\ outcome' = "parsing" /\ errorAt' = errorAt
    BY <1>2, <1>6 DEF Continue
  <2>4. /\ kind' = open[n - 1].kind /\ mark' = open[n - 1].mark
        /\ cnt' = open[n - 1].len + 1
        /\ kind' = "object" => cnt' = open[n - 1].keys
        /\ open[n - 1] \in Container
    BY <1>1, <1>6, <2>1, ElementOfSeq DEF IInv, FrameChain, Top
  <2>5. TypeOK'
    <3>1. kind' \in Kinds /\ mark' \in Nat /\ cnt' \in Nat
      BY <2>4 DEF Container
    <3>. QED
      BY <1>1, <1>3, <1>6, <2>2, <2>3, <3>1, TokFacts DEF IInv, TypeOK, Pcs, Outcomes
  <2>6. FrameChain'
    <3>1. stack'[1].kind = "root" /\ Len(stack') = Len(open')
      BY <1>1, <1>6, <2>1, <2>2 DEF IInv, FrameChain
    <3>2. ASSUME NEW i \in 2 .. Len(stack')
          PROVE  stack'[i] = stack[i] /\ open'[i - 1] = open[i - 1] /\ i \in 2 .. Len(stack)
      BY <1>1, <1>6, <2>1, <2>2
    <3>. QED
      BY <2>2, <3>1, <3>2, SMTT(30) DEF IInv, FrameChain
  <2>7. Registers'
    BY <2>2, <2>3, <2>4 DEF Registers
  <2>8. MarksOrdered'
    <3>1. ASSUME NEW i \in 1 .. Len(open') - 1
          PROVE  open'[i].mark <= open'[i + 1].mark
      <4>1. i \in 1 .. n - 1 /\ open'[i] = open[i] /\ open[i].mark <= open[i + 1].mark
        BY <1>1, <2>2 DEF IInv, MarksOrdered
      <4>2. CASE i + 1 = n - 1
        BY <2>2, <4>1, <4>2 DEF Top
      <4>3. CASE i + 1 \in 1 .. n - 2
        BY <2>2, <4>1, <4>3
      <4>. QED
        BY <1>1, <2>2, <4>2, <4>3
    <3>2. open[n - 1].mark <= open[n].mark
      <4>1. n - 1 \in 1 .. n - 1 /\ (n - 1) + 1 = n
        BY <1>1, <2>1
      <4>2. \A i \in 1 .. n - 1 : open[i].mark <= open[i + 1].mark
        BY DEF IInv, MarksOrdered
      <4>3. open[n - 1].mark <= open[(n - 1) + 1].mark
        BY <4>1, <4>2, Zenon
      <4>. QED
        BY <4>1, <4>3, Zenon
    <3>3. Top(open').mark < vals'
      <4>1. mark = open[n].mark
        BY <1>2 DEF Top
      <4>2. mark \in Nat /\ open[n - 1].mark \in Nat
        BY <1>2, <2>4 DEF Container
      <4>. QED
        BY <2>2, <3>2, <4>1, <4>2
    <3>4. Top(open').mark <= vals'
      BY <1>2, <2>2, <2>4, <3>3 DEF Container
    <3>. QED
      BY <3>1, <3>3, <3>4 DEF MarksOrdered
  <2>9. OutsideContainers'
    BY <2>3 DEF OutsideContainers
  <2>. QED
    BY <2>5, <2>6, <2>7, <2>8, <2>9 DEF IInv
<1>. QED
  BY <1>4, <1>5, <1>6 DEF EndContainer, Resume

-----------------------------------------------------------------------------
(* A comma in an array: the registers count the element that is to come,   *)
(* before or after the checkpoint, which touches only the value stack.     *)
LEMMA NextElementStep ==
    ASSUME IInv, InContainer, pos < Len(doc), NextElement, kind = "array",
           pc \in {"after", "closed"}
    PROVE  IInv'
<1>1. /\ pos' = pos + 1 /\ doc' = doc /\ stack' = stack /\ stack \in Seq(Frames)
      /\ outcome = "parsing" /\ mark \in Nat /\ cnt \in Nat /\ mark = Top(open).mark
      /\ open # <<>> /\ vals \in Nat /\ Top(open).mark < vals
  BY DEF NextElement, IInv, TypeOK, SinkTypeOK, InContainer, Registers, FrameChain, MarksOrdered
<1>2. CASE RefusedBy(CheckpointCall(mark))
  <2>1. CheckpointCall(mark) \in CallRecord
    BY <1>1 DEF CheckpointCall, Call, CallRecord, Kinds
  <2>. QED
    BY <1>1, <1>2, <2>1, RefusedStep
<1>3. ASSUME SinkCheckpoint(mark) \/ UNCHANGED sinkVars,
             cnt' = cnt + 1, UNCHANGED <<mark, kind>>, Continue("value")
      PROVE  IInv'
  <2>1. SinkTypeOK' /\ open' = open /\ vals' \in {mark, vals}
    <3>1. CASE SinkCheckpoint(mark)
      BY <1>1, <3>1, SinkCheckpointFacts DEF IInv, TypeOK
    <3>2. CASE UNCHANGED sinkVars
      BY <3>2 DEF sinkVars, IInv, TypeOK, SinkTypeOK
    <3>. QED
      BY <1>3, <3>1, <3>2
  <2>2. pc' = "value" /\ outcome' = "parsing" /\ errorAt' = errorAt
    BY <1>1, <1>3 DEF Continue
  <2>3. SameAncestors
    BY <1>1, <2>1 DEF SameAncestors
  <2>4. TypeOK'
    BY <1>1, <1>3, <2>1, <2>2, TokFacts DEF IInv, TypeOK, Pcs, Outcomes
  <2>5. FrameChain'
    BY <2>3, ChainKept
  <2>6. Registers'
    BY <1>1, <1>3, <2>1, <2>2 DEF IInv, Registers, InContainer
  <2>7. MarksOrdered'
    <3>1. vals' \in Nat /\ Top(open).mark <= vals'
      BY <1>1, <2>1
    <3>. QED
      BY <2>2, <2>3, <3>1, MarksKept
  <2>8. OutsideContainers'
    BY <2>2 DEF OutsideContainers
  <2>. QED
    BY <2>4, <2>5, <2>6, <2>7, <2>8 DEF IInv
<1>. QED
  BY <1>2, <1>3 DEF NextElement

(* The other moves inside a container that call no sink: a comma in an     *)
(* object, and the colon, at which the pair is counted.                    *)
LEMMA MoveOnStep ==
    ASSUME IInv, InContainer, pos < Len(doc), pos' = pos + 1, kind = "object",
           UNCHANGED <<doc, stack, mark, kind, sinkVars>>,
           \/ pc = "colon" /\ Continue("value") /\ cnt' = cnt + 1
           \/ pc \in {"after", "closed"} /\ Continue("key") /\ cnt' = cnt
    PROVE  IInv'
<1>1. /\ open' = open /\ vals' = vals /\ calls' = calls /\ SinkTypeOK'
      /\ stack' = stack /\ doc' = doc /\ mark' = mark /\ kind' = kind
  BY DEF sinkVars, IInv, TypeOK, SinkTypeOK
<1>2. pc' \in {"value", "key"} /\ outcome' = "parsing" /\ errorAt' = errorAt
  BY DEF Continue, InContainer
<1>3. SameAncestors
  BY <1>1 DEF SameAncestors, IInv, FrameChain
<1>4. TypeOK'
  BY <1>1, <1>2, TokFacts DEF IInv, TypeOK, Pcs, Outcomes
<1>5. FrameChain'
  BY <1>3, ChainKept
<1>6. Registers'
  BY <1>1, <1>2 DEF IInv, Registers, InContainer, Continue
<1>7. MarksOrdered'
  BY <1>1, <1>2, <1>3, MarksKept DEF IInv, MarksOrdered, TypeOK, SinkTypeOK
<1>8. OutsideContainers'
  BY <1>2 DEF OutsideContainers
<1>. QED
  BY <1>4, <1>5, <1>6, <1>7, <1>8 DEF IInv

(* The root value: a container opens below the root frame, or a scalar     *)
(* leaves nothing open.                                                    *)
LEMMA RootStep ==
    ASSUME IInv, Root
    PROVE  IInv'
<1>1. /\ outcome = "parsing" /\ pc = "root" /\ pos < Len(doc)
      /\ open = <<>> /\ stack = <<>> /\ vals = 0
      /\ open \in Seq(Container) /\ stack \in Seq(Frames)
  BY DEF Root, Taking, Running, IInv, OutsideContainers, TypeOK, SinkTypeOK
<1>2. CASE Tok \notin Openers \cup PlainScalars /\ Fail(ValueError(Tok))
  BY <1>1, <1>2, FailStep DEF ValueError, ParseErrors
<1>3. CASE /\ Tok \in PlainScalars
           /\ pos' = pos + 1
           /\ UNCHANGED <<doc, stack, mark, cnt, kind>>
           /\ \/ SinkScalar(Tok) /\ Continue("finish")
              \/ RefusedBy(ScalarCall(Tok))
  <2>1. Tok \in Token
    BY <1>1, TokFacts DEF IInv
  <2>2. CASE RefusedBy(ScalarCall(Tok))
    <3>1. ScalarCall(Tok) \in CallRecord
      BY <2>1 DEF ScalarCall, Call, CallRecord
    <3>. QED
      BY <1>1, <1>3, <2>2, <3>1, RefusedStep
  <2>3. CASE SinkScalar(Tok) /\ Continue("finish")
    <3>1. SinkTypeOK' /\ open' = <<>> /\ calls' # <<>>
      BY <1>1, <2>1, <2>3, SinkScalarFacts DEF IInv, TypeOK
    <3>2. pc' = "finish" /\ outcome' = "parsing" /\ errorAt' = errorAt
      BY <1>1, <1>3, <2>3 DEF Continue
    <3>3. TypeOK'
      BY <1>1, <1>3, <3>1, <3>2, TokFacts DEF IInv, TypeOK, Pcs, Outcomes
    <3>. QED
      BY <3>1, <3>2, <3>3
         DEF IInv, FrameChain, Registers, MarksOrdered, OutsideContainers, InContainer
  <2>. QED
    BY <1>3, <2>2, <2>3
<1>4. CASE Tok \in Openers /\ Enter(RootFrame)
  <2>1. KindOf(Tok) \in Kinds /\ RootFrame \in Frames /\ RootFrame.kind = "root"
    BY DEF KindOf, Kinds, RootFrame, Frames
  <2>2. /\ stack' \in Seq(Frames) /\ Len(stack') = 1 /\ stack'[1] = RootFrame
        /\ pos' = pos + 1 /\ doc' = doc
    BY <1>1, <1>4, <2>1, AppendProperties, EmptySeq DEF Enter
  <2>3. CASE RefusedBy(BeginCall(KindOf(Tok)))
    <3>1. BeginCall(KindOf(Tok)) \in CallRecord
      BY <2>1 DEF BeginCall, Call, CallRecord
    <3>. QED
      BY <1>1, <2>2, <2>3, <3>1, RefusedStep
  <2>4. CASE /\ SinkBegin(KindOf(Tok))
             /\ mark' = vals /\ cnt' = 0 /\ kind' = KindOf(Tok)
             /\ Continue("fresh")
    <3>1. /\ SinkTypeOK' /\ vals' = 0 /\ open' # <<>> /\ Len(open') = 1
          /\ Top(open') = [kind |-> KindOf(Tok), mark |-> 0, keys |-> 0, len |-> 0]
      BY <1>1, <2>1, <2>4, EmptySeq, SinkBeginFacts DEF IInv, TypeOK
    <3>2. pc' = "fresh" /\ outcome' = "parsing" /\ errorAt' = errorAt
      BY <1>1, <2>4 DEF Continue
    <3>3. TypeOK'
      BY <1>1, <2>1, <2>2, <2>4, <3>1, <3>2, TokFacts DEF IInv, TypeOK, Pcs, Outcomes
    <3>4. FrameChain'
      BY <2>1, <2>2, <3>1 DEF FrameChain
    <3>5. Registers'
      BY <1>1, <2>4, <3>1, <3>2 DEF Registers
    <3>6. MarksOrdered'
      BY <3>1, <3>2 DEF MarksOrdered
    <3>7. OutsideContainers'
      BY <3>2 DEF OutsideContainers
    <3>. QED
      BY <3>3, <3>4, <3>5, <3>6, <3>7 DEF IInv
  <2>. QED
    BY <1>4, <2>3, <2>4 DEF Enter
<1>. QED
  BY <1>2, <1>3, <1>4 DEF Root

(* A separator, a closer, or neither.                                      *)
LEMMA SeparatorOrCloserStep ==
    ASSUME IInv, InContainer, pos < Len(doc), SeparatorOrCloser,
           pc \in {"after", "closed"}
    PROVE  IInv'
<1>1. CASE Tok = "," /\ kind = "array" /\ NextElement
  BY <1>1, NextElementStep
<1>2. CASE Tok = "," /\ kind = "object" /\ NextPair
  BY <1>2, MoveOnStep DEF NextPair
<1>3. CASE Tok = CloserOf(kind) /\ EndContainer
  BY <1>3, EndContainerStep
<1>4. CASE Tok \notin {",", CloserOf(kind)} /\ Fail("expected")
  BY <1>4, FailStep DEF ParseErrors
<1>. QED
  BY <1>1, <1>2, <1>3, <1>4 DEF SeparatorOrCloser

-----------------------------------------------------------------------------
(* The actions.                                                            *)

(* Nothing has been parsed and no sink is there.                           *)
LEMMA InitIInv == Init => IInv
BY EmptySeq DEF Init, IInv, TypeOK, SinkTypeOK, Kinds, Pcs, Outcomes,
   FrameChain, Registers, MarksOrdered, OutsideContainers, InContainer

(* Where the registers stand, by the place in the loop.                    *)
LEMMA RegistersAt ==
    ASSUME IInv, InContainer
    PROVE  /\ pc = "fresh" => /\ cnt = Top(open).len
                              /\ kind = "object" => Top(open).keys = Top(open).len
           /\ pc = "value" => /\ cnt = Top(open).len + 1
                              /\ kind = "object" => Top(open).keys = Top(open).len + 1
           /\ pc \in {"colon", "key"} => kind = "object"
BY DEF IInv, Registers

(* A parse starts, over whatever frames the last one left.                 *)
LEMMA StartStep ==
    ASSUME IInv, Start
    PROVE  IInv'
<1>1. /\ doc' \in Seq(Token) /\ pos' = 0 /\ stack' = <<>> /\ stack' \in Seq(Frames)
      /\ open' = <<>> /\ calls' = <<>> /\ vals' = 0 /\ SinkTypeOK'
      /\ pc' = "root" /\ outcome' = "parsing"
  BY DocsAssumption, EmptySeq
     DEF Start, IInv, OutsideContainers, TypeOK, SinkTypeOK, sinkVars
<1>2. TypeOK'
  BY <1>1, LenProperties DEF Start, IInv, TypeOK, Pcs, Outcomes
<1>. QED
  BY <1>1, <1>2
     DEF IInv, FrameChain, Registers, MarksOrdered, OutsideContainers, InContainer

(* The result is used: what is left is a sink that has seen nothing.       *)
LEMMA CollectStep ==
    ASSUME IInv, Collect
    PROVE  IInv'
<1>1. pc' = "idle" /\ pc' \in Pcs /\ stack' \in Seq(Frames)
  BY DEF Collect, IInv, OutsideContainers, TypeOK, Pcs
<1>2. TypeOK'
  BY <1>1, EmptySeq DEF Collect, SinkStart, TypeOK, SinkTypeOK, Outcomes, Kinds
<1>. QED
  BY <1>1, <1>2
     DEF Collect, SinkStart, IInv, FrameChain, Registers, MarksOrdered, OutsideContainers,
         InContainer

(* The parse returns without a call: the index ends, or the root value is  *)
(* complete.                                                               *)
LEMMA ReturnStep ==
    ASSUME IInv, UnexpectedEnd \/ Finish
    PROVE  IInv'
<1>1. /\ UNCHANGED <<doc, pos, stack, mark, cnt, kind, sinkVars>>
      /\ pc' = "idle" /\ errorAt' \in {0, pos + 1}
      /\ outcome' \in {"unexpected_end", "trailing_characters", "ok"}
  BY DEF UnexpectedEnd, Finish, Return
<1>2. pos + 1 \in Nat /\ SinkTypeOK'
  BY <1>1, LenProperties DEF IInv, TypeOK, SinkTypeOK, sinkVars
<1>3. TypeOK'
  BY <1>1, <1>2 DEF IInv, TypeOK, Pcs, Outcomes, ParseErrors
<1>. QED
  BY <1>1, <1>3, ReturnedStep

(* A closer, a key or an element where a container has just been entered.  *)
LEMMA FreshStep ==
    ASSUME IInv, Fresh
    PROVE  IInv'
<1>1. InContainer /\ pos < Len(doc) /\ pc = "fresh"
  BY DEF Fresh, Taking, Running, InContainer
<1>2. CASE Tok = CloserOf(kind) /\ EndContainer
  BY <1>1, <1>2, EndContainerStep
<1>3. CASE Tok # CloserOf(kind) /\ kind = "object" /\ EmitKey
  BY <1>1, <1>3, EmitKeyStep
<1>4. CASE Tok # CloserOf(kind) /\ kind = "array" /\ Value(cnt + 1)
  <2>1. Value(Top(open).len + 1) /\ kind # "object"
    BY <1>1, <1>4, RegistersAt
  <2>. QED
    BY <1>1, <2>1, ValueStep
<1>. QED
  BY <1>2, <1>3, <1>4 DEF Fresh

(* The colon of a pair.                                                    *)
LEMMA ColonStep ==
    ASSUME IInv, Colon
    PROVE  IInv'
<1>1. InContainer /\ pos < Len(doc) /\ pc = "colon" /\ kind = "object"
  BY RegistersAt DEF Colon, Taking, Running, InContainer
<1>2. CASE Tok # ":" /\ Fail("expected")
  BY <1>1, <1>2, FailStep DEF ParseErrors
<1>3. CASE /\ pos' = pos + 1
           /\ cnt' = cnt + 1
           /\ Continue("value")
           /\ UNCHANGED <<doc, stack, mark, kind, sinkVars>>
  BY <1>1, <1>3, MoveOnStep
<1>. QED
  BY <1>2, <1>3 DEF Colon

(* The value of a pair or of an element already counted.                   *)
LEMMA NextValueStep ==
    ASSUME IInv, NextValue
    PROVE  IInv'
<1>1. InContainer /\ pos < Len(doc) /\ pc = "value" /\ Value(cnt)
  BY DEF NextValue, Taking, Running, InContainer
<1>2. Value(Top(open).len + 1) /\ (kind = "object" => Top(open).keys = Top(open).len + 1)
  BY <1>1, RegistersAt
<1>. QED
  BY <1>1, <1>2, ValueStep

(* A key after a comma, and what follows a scalar or a closed child.       *)
LEMMA OtherSteps ==
    ASSUME IInv, Key \/ AfterScalar \/ AfterChild
    PROVE  IInv'
<1>1. CASE Key
  <2>1. InContainer /\ pos < Len(doc) /\ pc = "key" /\ EmitKey /\ kind = "object"
    BY <1>1, RegistersAt DEF Key, Taking, Running, InContainer
  <2>. QED
    BY <2>1, EmitKeyStep
<1>2. CASE AfterScalar \/ AfterChild
  <2>1. InContainer /\ pos < Len(doc) /\ pc \in {"after", "closed"} /\ SeparatorOrCloser
    BY <1>2 DEF AfterScalar, AfterChild, Taking, Running, InContainer
  <2>. QED
    BY <2>1, SeparatorOrCloserStep
<1>. QED
  BY <1>1, <1>2

(* The invariant is inductive: every action of the driver keeps it.        *)
LEMMA NextIInv ==
    ASSUME IInv, [Next]_vars
    PROVE  IInv'
<1>1. CASE Start
  BY <1>1, StartStep
<1>2. CASE Collect
  BY <1>2, CollectStep
<1>3. CASE UnexpectedEnd \/ Finish
  BY <1>3, ReturnStep
<1>4. CASE Root
  BY <1>4, RootStep
<1>5. CASE Fresh
  BY <1>5, FreshStep
<1>6. CASE Colon
  BY <1>6, ColonStep
<1>7. CASE NextValue
  BY <1>7, NextValueStep
<1>8. CASE Key \/ AfterScalar \/ AfterChild
  BY <1>8, OtherSteps
<1>9. CASE UNCHANGED vars
  BY <1>9 DEF vars, IInv, TypeOK, SinkTypeOK, FrameChain, Registers, MarksOrdered,
     OutsideContainers, InContainer
<1>. QED
  BY <1>1, <1>2, <1>3, <1>4, <1>5, <1>6, <1>7, <1>8, <1>9 DEF Next, Step

-----------------------------------------------------------------------------
(* The inductive invariant holds of every parse, whatever the documents,   *)
(* the period and the sink's replies (drive_inner, driver.rs 340-650).     *)
THEOREM Invariance == Spec => []IInv
<1>. QED
  BY InitIInv, NextIInv, PTL DEF Spec

(* Every register, frame and sink container keeps its type.                *)
THEOREM TypeCorrect == Spec => []TypeOK
<1>1. IInv => TypeOK
  BY DEF IInv
<1>. QED
  BY <1>1, Invariance, PTL

(* The mark and the count an end_* would be called with are those of the   *)
(* container it closes (driver.rs 16-17), for every nesting.               *)
THEOREM MarksAndCounts == Spec => []MarkCountContract
<1>1. IInv => MarkCountContract
  BY DEF IInv, FrameChain, Registers, MarkCountContract, InContainer
<1>. QED
  BY <1>1, Invariance, PTL

(* expect("frame stack underflow") (driver.rs 578) never fires: inside a   *)
(* container there is a frame for each one open, the root's at the bottom. *)
THEOREM NeverUnderflows == Spec => []NoUnderflow
<1>1. ASSUME IInv, InContainer
      PROVE  /\ Len(stack) = Len(open) /\ stack # <<>>
             /\ \A i \in DOMAIN stack : stack[i].kind = "root" <=> i = 1
  <2>1. /\ Len(stack) = Len(open) /\ Len(stack) \in Nat \ {0}
        /\ open \in Seq(Container) /\ stack \in Seq(Frames) /\ stack # <<>>
        /\ DOMAIN stack = 1 .. Len(stack)
        /\ stack[1].kind = "root"
    BY <1>1, PopFacts, EmptySeq, LenProperties DEF IInv, TypeOK, SinkTypeOK, FrameChain
  <2>2. ASSUME NEW i \in 2 .. Len(stack)
        PROVE  stack[i].kind # "root"
    <3>1. i - 1 \in 1 .. Len(open) /\ stack[i].kind = open[i - 1].kind
      BY <1>1, <2>1 DEF IInv, FrameChain
    <3>2. open[i - 1] \in Container
      BY <2>1, <3>1, ElementOfSeq
    <3>. QED
      BY <3>1, <3>2 DEF Container, Kinds
  <2>. QED
    BY <2>1, <2>2
<1>2. IInv => NoUnderflow
  BY <1>1 DEF NoUnderflow
<1>. QED
  BY <1>2, Invariance, PTL

-----------------------------------------------------------------------------
(* What a sink that spills has to hold of an array.                        *)

(* Counting the elements since the last multiple of the period.            *)
LEMMA SinceCheckpointFacts ==
    ASSUME NEW n \in Nat
    PROVE  /\ SinceCheckpoint(n) \in 0 .. CheckpointEvery - 1
           /\ SinceCheckpoint(n + 1) \in 0 .. CheckpointEvery - 1
           /\ SinceCheckpoint(n + 1) # 0 => SinceCheckpoint(n + 1) = SinceCheckpoint(n) + 1
           /\ CheckpointEvery \in Nat \ {0}
<1>1. CheckpointEvery \in Nat \ {0}
  BY CheckpointAssumption
<1>2. /\ n % CheckpointEvery \in 0 .. CheckpointEvery - 1
      /\ (n + 1) % CheckpointEvery \in 0 .. CheckpointEvery - 1
  BY <1>1
<1>3. (n + 1) % CheckpointEvery # 0 => (n + 1) % CheckpointEvery = (n % CheckpointEvery) + 1
  BY <1>1, NextRemainder
<1>. QED
  BY <1>1, <1>2, <1>3 DEF SinceCheckpoint

(* With the element to come counted, container i holds what came since the *)
(* last multiple of the period.                                            *)
Counted(i) == ValuesUpTo(i) - open[i].mark <= SinceCheckpoint(open[i].len + 1)

(* It is the innermost one, and its last element is just accepted.         *)
JustAccepted(i) ==
    /\ i = Len(open) /\ AfterValue
    /\ vals - open[i].mark <= SinceCheckpoint(open[i].len) + 1

(* Every array is one or the other, those that are not innermost the       *)
(* first.                                                                  *)
LEMMA ArraysHeld ==
    ASSUME IInv, PInv, InContainer, Spills, NEW i \in 1 .. Len(open), open[i].kind = "array"
    PROVE  /\ i # Len(open) \/ ~ AfterValue => Counted(i)
           /\ Counted(i) \/ JustAccepted(i)
<1>1. DOMAIN open = 1 .. Len(open)
  BY HeldTypes DEF IInv, TypeOK, SinkTypeOK
<1>. QED
  BY <1>1 DEF PInv, HeldByCount, Counted, JustAccepted

(* It is enough to look at each array after a step.                        *)
LEMMA HeldBounds ==
    ASSUME IInv', InContainer',
           Spills => \A i \in 1 .. Len(open') :
                        open'[i].kind = "array" =>
                            IF i = Len(open') /\ AfterValue' THEN JustAccepted(i)' ELSE Counted(i)'
    PROVE  PInv'
<1>1. open' \in Seq(Container) /\ vals' \in Nat
  BY DEF IInv, TypeOK, SinkTypeOK
<1>2. Len(open') \in Nat /\ DOMAIN open' = 1 .. Len(open')
  BY <1>1, HeldTypes
<1>3. ASSUME Spills, NEW i \in 1 .. Len(open'), open'[i].kind = "array"
      PROVE  ValuesUpTo(i)' - open'[i].mark <= CheckpointEvery
  <2>1. open'[i].mark \in Nat /\ open'[i].len \in Nat /\ ValuesUpTo(i)' \in Nat
    BY <1>1, HeldTypes DEF ValuesUpTo
  <2>2. /\ SinceCheckpoint(open'[i].len) \in 0 .. CheckpointEvery - 1 /\ CheckpointEvery \in Nat
        /\ SinceCheckpoint(open'[i].len + 1) \in 0 .. CheckpointEvery - 1
    BY <2>1, SinceCheckpointFacts
  <2>3. CASE Counted(i)'
    BY <2>1, <2>2, <2>3 DEF Counted
  <2>4. CASE JustAccepted(i)'
    <3>1. ValuesUpTo(i)' = vals' /\ vals' - open'[i].mark <= SinceCheckpoint(open'[i].len) + 1
      BY <1>2, <2>4 DEF JustAccepted, ValuesUpTo
    <3>. QED
      BY <2>1, <2>2, <3>1
  <2>. QED
    BY <1>3, <2>3, <2>4
<1>4. PendingBounded'
  BY <1>2, <1>3 DEF PendingBounded
<1>5. HeldByCount'
  BY <1>2 DEF HeldByCount, Counted, JustAccepted
<1>. QED
  BY <1>4, <1>5 DEF PInv

(* Outside the containers none is open, or nothing is done to what is.     *)
LEMMA OutsidePInv ==
    ASSUME PInv, ~ InContainer', open' = <<>> \/ UNCHANGED <<open, vals>>
    PROVE  PInv'
<1>1. PendingBounded'
  BY EmptySeq DEF PInv, PendingBounded, ValuesUpTo
<1>. QED
  BY <1>1 DEF PInv, HeldByCount

(* A return leaves what is held as it is.                                  *)
LEMMA ReturnedPInv ==
    ASSUME PInv, outcome' \notin {"none", "parsing"}, UNCHANGED <<open, vals>>
    PROVE  PInv'
<1>1. ~ InContainer'
  BY DEF InContainer
<1>. QED
  BY <1>1, OutsidePInv

(* A parse error is a return.                                              *)
LEMMA FailPInv ==
    ASSUME PInv, NEW error \in ParseErrors, Fail(error)
    PROVE  PInv'
BY ReturnedPInv DEF Fail, Return, sinkVars, ParseErrors

(* A refused call is one too.                                              *)
LEMMA RefusedPInv ==
    ASSUME PInv, NEW c, RefusedBy(c)
    PROVE  PInv'
BY ReturnedPInv DEF RefusedBy, Return, SinkRefuses

(* A container begins, where no value has just been accepted.              *)
LEMMA EnterPInv ==
    ASSUME IInv, PInv, IInv', outcome = "parsing", NEW frame, Enter(frame),
           (InContainer /\ ~ AfterValue) \/ open = <<>>
    PROVE  PInv'
<1>1. /\ SinkTypeOK /\ open \in Seq(Container) /\ vals \in Nat
      /\ open' \in Seq(Container) /\ vals' \in Nat /\ KindOf(Tok) \in Kinds
  BY DEF IInv, TypeOK, SinkTypeOK, KindOf, Kinds
<1>2. CASE RefusedBy(BeginCall(KindOf(Tok)))
  BY <1>2, RefusedPInv
<1>3. CASE SinkBegin(KindOf(Tok)) /\ Continue("fresh")
  <2>1. InContainer' /\ ~ AfterValue'
    BY <1>3 DEF Continue, InContainer, AfterValue
  <2>2. Len(open) \in Nat
    BY <1>1, HeldTypes
  <2>3. PICK l \in Nat : l = Len(open)
    BY <2>2
  <2>4. /\ \A i \in 1 .. l : open'[i] = open[i] /\ ValuesUpTo(i)' = ValuesUpTo(i)
        /\ Len(open') = l + 1
        /\ open'[l + 1].mark = vals /\ ValuesUpTo(l + 1)' = vals
    BY <1>1, <1>3, <2>3, HeldAtBegin
  <2>5. ASSUME Spills, NEW i \in 1 .. Len(open'), open'[i].kind = "array"
        PROVE  Counted(i)'
    <3>1. CASE i = l + 1
      <4>1. open'[i].len \in Nat
        BY <1>1, HeldTypes
      <4>2. SinceCheckpoint(open'[i].len + 1) \in 0 .. CheckpointEvery - 1
        BY <4>1, SinceCheckpointFacts
      <4>3. ValuesUpTo(i)' - open'[i].mark = 0
        BY <1>1, <2>4, <3>1
      <4>. QED
        BY <4>2, <4>3 DEF Counted
    <3>2. CASE i \in 1 .. l
      <4>1. InContainer /\ ~ AfterValue
        BY <2>3, <3>2, EmptySeq
      <4>2. Counted(i)
        BY <2>3, <2>4, <2>5, <3>2, <4>1, ArraysHeld
      <4>. QED
        BY <2>4, <3>2, <4>2 DEF Counted
    <3>. QED
      BY <2>4, <3>1, <3>2
  <2>. QED
    BY <2>1, <2>5, HeldBounds
<1>. QED
  BY <1>2, <1>3 DEF Enter

(* A scalar is accepted: an array holds one element more.                  *)
LEMMA EmitScalarPInv ==
    ASSUME IInv, PInv, IInv', InContainer, ~ AfterValue, NEW c, EmitScalar(c)
    PROVE  PInv'
<1>1. /\ SinkTypeOK /\ open \in Seq(Container) /\ vals \in Nat
      /\ open' \in Seq(Container) /\ vals' \in Nat
      /\ Tok \in PlainScalars /\ Tok \in Token
  BY DEF EmitScalar, IInv, TypeOK, SinkTypeOK, Token, Scalars
<1>2. open # <<>> /\ Len(open) \in Nat \ {0}
  BY <1>1, PopFacts DEF IInv, FrameChain
<1>3. CASE RefusedBy(ScalarCall(Tok))
  BY <1>3, RefusedPInv
<1>4. CASE SinkScalar(Tok) /\ Continue("after")
  <2>1. InContainer' /\ AfterValue'
    BY <1>4 DEF Continue, InContainer, AfterValue
  <2>2. /\ Len(open') = Len(open)
        /\ \A i \in 1 .. Len(open) - 1 : open'[i] = open[i]
        /\ Top(open').kind = Top(open).kind
        /\ Top(open').mark = Top(open).mark
        /\ Top(open').len = Top(open).len + 1
        /\ vals' = vals + 1
    BY <1>1, <1>2, <1>4, SinkScalarFacts
  <2>3. \A i \in 1 .. Len(open) - 1 : ValuesUpTo(i)' = ValuesUpTo(i)
    BY <1>2, <2>2, HeldBelow
  <2>4. ASSUME Spills, NEW i \in 1 .. Len(open'), open'[i].kind = "array"
        PROVE  IF i = Len(open') /\ AfterValue' THEN JustAccepted(i)' ELSE Counted(i)'
    <3>1. CASE i \in 1 .. Len(open) - 1
      <4>1. Counted(i) /\ i # Len(open')
        BY <1>2, <2>2, <2>4, <3>1, ArraysHeld
      <4>. QED
        BY <2>2, <2>3, <3>1, <4>1 DEF Counted
    <3>2. CASE i = Len(open)
      <4>1. /\ open'[i].mark = open[i].mark /\ open'[i].len = open[i].len + 1
            /\ open'[i].kind = open[i].kind /\ ValuesUpTo(i) = vals
            /\ i \in 1 .. Len(open) /\ i = Len(open')
        BY <1>2, <2>2, <3>2 DEF Top, ValuesUpTo
      <4>2. Counted(i)
        BY <2>4, <4>1, ArraysHeld
      <4>3. open[i].mark \in Nat /\ open[i].len \in Nat
        BY <1>1, <4>1, HeldTypes
      <4>4. SinceCheckpoint(open[i].len + 1) \in 0 .. CheckpointEvery - 1 /\ CheckpointEvery \in Nat
        BY <4>3, SinceCheckpointFacts
      <4>5. vals - open[i].mark <= SinceCheckpoint(open[i].len + 1)
        BY <4>1, <4>2 DEF Counted
      <4>6. vals' - open'[i].mark <= SinceCheckpoint(open[i].len + 1) + 1
        BY <1>1, <2>2, <4>1, <4>3, <4>4, <4>5
      <4>7. JustAccepted(i)'
        BY <2>1, <4>1, <4>6 DEF JustAccepted
      <4>. QED
        BY <2>1, <4>1, <4>7
    <3>. QED
      BY <1>2, <2>2, <3>1, <3>2
  <2>. QED
    BY <2>1, <2>4, HeldBounds
<1>. QED
  BY <1>3, <1>4 DEF EmitScalar

(* A value, whichever it is.                                               *)
LEMMA ValuePInv ==
    ASSUME IInv, PInv, IInv', InContainer, ~ AfterValue, NEW c, Value(c)
    PROVE  PInv'
<1>1. ValueError(Tok) \in ParseErrors /\ outcome = "parsing"
  BY DEF ValueError, ParseErrors, InContainer
<1>. QED
  BY <1>1, EnterPInv, EmitScalarPInv, FailPInv DEF Value

(* A container ends: its parent holds one value more.                      *)
LEMMA EndContainerPInv ==
    ASSUME IInv, PInv, IInv', InContainer, EndContainer
    PROVE  PInv'
<1>1. /\ SinkTypeOK /\ open \in Seq(Container) /\ vals \in Nat
      /\ open' \in Seq(Container) /\ vals' \in Nat
      /\ kind \in Kinds /\ cnt \in Nat /\ mark \in Nat /\ mark = Top(open).mark
      /\ open # <<>> /\ outcome = "parsing"
  BY DEF IInv, TypeOK, SinkTypeOK, FrameChain, Registers, InContainer
<1>2. Len(open) \in Nat \ {0}
  BY <1>1, PopFacts
<1>3. PICK l \in Nat \ {0} : l = Len(open)
  BY <1>2
<1>4. CASE RefusedBy(EndCall(kind, mark, cnt))
  BY <1>4, RefusedPInv
<1>5. CASE SinkEnd(kind, mark, cnt) /\ Continue("finish")
  <2>1. open' = <<>>
    BY <1>1, <1>5 DEF IInv, OutsideContainers, Continue
  <2>2. ~ InContainer'
    BY <1>5 DEF Continue, InContainer
  <2>. QED
    BY <2>1, <2>2, OutsidePInv
<1>6. CASE SinkEnd(kind, mark, cnt) /\ Continue("closed")
  <2>1. InContainer' /\ AfterValue' /\ open' # <<>>
    BY <1>1, <1>6 DEF Continue, InContainer, AfterValue, IInv, FrameChain
  <2>2. l > 1
    BY <1>1, <1>3, <1>6, <2>1, SinkEndFacts
  <2>3. /\ Len(open') = l - 1
        /\ \A i \in 1 .. l - 2 : open'[i] = open[i] /\ ValuesUpTo(i)' = ValuesUpTo(i)
        /\ open'[l - 1].kind = open[l - 1].kind
        /\ open'[l - 1].mark = open[l - 1].mark
        /\ open'[l - 1].len = open[l - 1].len + 1
        /\ ValuesUpTo(l - 1)' = ValuesUpTo(l - 1) + 1
    BY <1>1, <1>3, <1>6, <2>2, HeldAtEnd
  <2>4. ASSUME Spills, NEW i \in 1 .. Len(open'), open'[i].kind = "array"
        PROVE  IF i = Len(open') /\ AfterValue' THEN JustAccepted(i)' ELSE Counted(i)'
    <3>1. open[i].kind = "array" /\ i \in 1 .. Len(open) /\ i # Len(open)
      BY <1>3, <2>3, <2>4
    <3>2. Counted(i)
      BY <2>4, <3>1, ArraysHeld
    <3>3. CASE i \in 1 .. l - 2
      <4>1. Counted(i)' /\ i # Len(open')
        BY <2>3, <3>2, <3>3 DEF Counted
      <4>. QED
        BY <4>1
    <3>4. CASE i = l - 1
      <4>1. /\ open[i].mark \in Nat /\ open[i].len \in Nat /\ ValuesUpTo(i) \in Nat
        BY <1>1, <3>1, HeldTypes DEF ValuesUpTo
      <4>2. SinceCheckpoint(open[i].len + 1) \in 0 .. CheckpointEvery - 1 /\ CheckpointEvery \in Nat
        BY <4>1, SinceCheckpointFacts
      <4>3. vals' = ValuesUpTo(i) + 1 /\ i = Len(open')
        BY <2>3, <3>4 DEF ValuesUpTo
      <4>4. open'[i].mark = open[i].mark /\ open'[i].len = open[i].len + 1
        BY <2>3, <3>4
      <4>5. vals' - open'[i].mark <= SinceCheckpoint(open[i].len + 1) + 1
        BY <3>2, <4>1, <4>2, <4>3, <4>4 DEF Counted
      <4>6. JustAccepted(i)'
        BY <2>1, <4>3, <4>4, <4>5 DEF JustAccepted
      <4>. QED
        BY <2>1, <4>3, <4>6
    <3>. QED
      BY <1>3, <2>3, <3>3, <3>4
  <2>. QED
    BY <2>1, <2>4, HeldBounds
<1>. QED
  BY <1>4, <1>5, <1>6 DEF EndContainer, Resume

(* A step inside the innermost container that accepts no value of an       *)
(* array.                                                                  *)
LEMMA InsidePInv ==
    ASSUME IInv, PInv, IInv', InContainer, InContainer', ~ AfterValue',
           Len(open') = Len(open),
           \A i \in 1 .. Len(open) - 1 : open'[i] = open[i],
           Top(open').kind = Top(open).kind,
           Top(open').mark = Top(open).mark,
           Spills /\ Top(open).kind = "array" => Counted(Len(open))'
    PROVE  PInv'
<1>1. open # <<>> /\ Len(open) \in Nat \ {0}
  BY PopFacts DEF IInv, FrameChain, TypeOK, SinkTypeOK
<1>2. \A i \in 1 .. Len(open) - 1 : ValuesUpTo(i)' = ValuesUpTo(i)
  BY <1>1, HeldBelow
<1>3. ASSUME Spills, NEW i \in 1 .. Len(open'), open'[i].kind = "array"
      PROVE  Counted(i)'
  <2>1. CASE i \in 1 .. Len(open) - 1
    <3>1. Counted(i)
      BY <1>1, <1>3, <2>1, ArraysHeld
    <3>. QED
      BY <1>1, <1>2, <2>1, <3>1 DEF Counted
  <2>2. CASE i = Len(open)
    BY <1>3, <2>2 DEF Top
  <2>. QED
    BY <1>1, <2>1, <2>2
<1>. QED
  BY <1>3, HeldBounds

(* In an object.                                                           *)
LEMMA InObjectPInv ==
    ASSUME IInv, PInv, IInv', InContainer, kind = "object", pos < Len(doc),
           \/ EmitKey
           \/ UNCHANGED sinkVars /\ (Continue("key") \/ Continue("value"))
    PROVE  PInv'
<1>1. /\ SinkTypeOK /\ open # <<>> /\ Top(open).kind = "object" /\ outcome = "parsing"
      /\ Tok \in Token
  BY TokFacts DEF IInv, TypeOK, FrameChain, Registers, InContainer
<1>2. CASE UNCHANGED sinkVars /\ (Continue("key") \/ Continue("value"))
  <2>1. InContainer' /\ ~ AfterValue'
    BY <1>1, <1>2 DEF Continue, InContainer, AfterValue
  <2>. QED
    BY <1>1, <1>2, <2>1, InsidePInv DEF sinkVars
<1>3. CASE Fail("scalar_error") \/ Fail("expected")
  BY <1>3, FailPInv DEF ParseErrors
<1>4. CASE RefusedBy(KeyCall(Tok))
  BY <1>4, RefusedPInv
<1>5. CASE SinkKey(Tok) /\ Continue("colon")
  <2>1. InContainer' /\ ~ AfterValue'
    BY <1>1, <1>5 DEF Continue, InContainer, AfterValue
  <2>2. /\ Len(open') = Len(open)
        /\ \A i \in 1 .. Len(open) - 1 : open'[i] = open[i]
        /\ Top(open').kind = Top(open).kind
        /\ Top(open').mark = Top(open).mark
    BY <1>1, <1>5, SinkKeyFacts
  <2>. QED
    BY <1>1, <2>1, <2>2, InsidePInv
<1>. QED
  BY <1>2, <1>3, <1>4, <1>5 DEF EmitKey

(* A comma in an array counts the element to come and spills a period.     *)
LEMMA NextElementPInv ==
    ASSUME IInv, PInv, IInv', InContainer, kind = "array", AfterValue, NextElement
    PROVE  PInv'
<1>1. /\ SinkTypeOK /\ open # <<>> /\ Top(open).kind = "array" /\ outcome = "parsing"
      /\ cnt = Top(open).len /\ mark = Top(open).mark /\ vals \in Nat
      /\ open \in Seq(Container)
  BY DEF IInv, TypeOK, SinkTypeOK, FrameChain, Registers, InContainer, AfterValue
<1>2. /\ Len(open) \in Nat \ {0} /\ Len(open) \in 1 .. Len(open)
      /\ Top(open) = open[Len(open)]
  BY <1>1, PopFacts DEF Top
<1>3. open[Len(open)].mark \in Nat /\ open[Len(open)].len \in Nat
  BY <1>1, <1>2, HeldTypes
<1>4. cnt \in Nat
  BY <1>1, <1>2, <1>3
<1>5. /\ SinceCheckpoint(cnt + 1) \in 0 .. CheckpointEvery - 1
      /\ SinceCheckpoint(cnt + 1) # 0 => SinceCheckpoint(cnt + 1) = SinceCheckpoint(cnt) + 1
  BY <1>4, SinceCheckpointFacts
<1>6. CASE RefusedBy(CheckpointCall(mark))
  BY <1>6, RefusedPInv
<1>7. ASSUME open' = open, Continue("value"), Spills => vals' - mark <= SinceCheckpoint(cnt + 1)
      PROVE  PInv'
  <2>1. InContainer' /\ ~ AfterValue'
    BY <1>1, <1>7 DEF Continue, InContainer, AfterValue
  <2>2. Spills => Counted(Len(open))'
    BY <1>1, <1>2, <1>7 DEF Counted, ValuesUpTo
  <2>. QED
    BY <1>7, <2>1, <2>2, InsidePInv
<1>8. CASE SinkCheckpoint(mark) /\ Continue("value")
  <2>1. open' = open /\ (Spills => vals' - mark = 0)
    BY <1>1, <1>2, <1>3, <1>8 DEF SinkCheckpoint
  <2>. QED
    BY <1>5, <1>7, <1>8, <2>1
<1>9. CASE ~ CheckpointDue(cnt + 1) /\ Continue("value") /\ UNCHANGED sinkVars
  <2>1. SinceCheckpoint(cnt + 1) = SinceCheckpoint(cnt) + 1
    BY <1>5, <1>9 DEF CheckpointDue, SinceCheckpoint
  <2>2. ASSUME Spills PROVE vals - mark <= SinceCheckpoint(cnt) + 1
    <3>1. Counted(Len(open)) \/ JustAccepted(Len(open))
      BY <1>1, <1>2, <2>2, ArraysHeld
    <3>2. Counted(Len(open)) => vals - mark <= SinceCheckpoint(cnt + 1)
      BY <1>1, <1>2 DEF Counted, ValuesUpTo
    <3>3. JustAccepted(Len(open)) => vals - mark <= SinceCheckpoint(cnt) + 1
      BY <1>1, <1>2 DEF JustAccepted
    <3>. QED
      BY <2>1, <3>1, <3>2, <3>3
  <2>. QED
    BY <1>7, <1>9, <2>1, <2>2 DEF sinkVars
<1>. QED
  BY <1>6, <1>8, <1>9 DEF NextElement

(* A separator, a closer, or neither.                                      *)
LEMMA SeparatorOrCloserPInv ==
    ASSUME IInv, PInv, IInv', InContainer, AfterValue, pos < Len(doc), SeparatorOrCloser
    PROVE  PInv'
<1>1. CASE kind = "array" /\ NextElement
  BY <1>1, NextElementPInv
<1>2. CASE kind = "object" /\ NextPair
  BY <1>2, InObjectPInv DEF NextPair
<1>3. CASE EndContainer
  BY <1>3, EndContainerPInv
<1>4. CASE Fail("expected")
  BY <1>4, FailPInv DEF ParseErrors
<1>. QED
  BY <1>1, <1>2, <1>3, <1>4 DEF SeparatorOrCloser

(* The root value: the first container begins, or nothing is open.         *)
LEMMA RootPInv ==
    ASSUME IInv, PInv, IInv', Root
    PROVE  PInv'
<1>1. open = <<>> /\ outcome = "parsing" /\ ValueError(Tok) \in ParseErrors
  BY DEF Root, Taking, Running, IInv, OutsideContainers, ValueError, ParseErrors
<1>2. CASE Enter(RootFrame)
  BY <1>1, <1>2, EnterPInv
<1>3. CASE RefusedBy(ScalarCall(Tok))
  BY <1>3, RefusedPInv
<1>4. CASE Fail(ValueError(Tok))
  BY <1>1, <1>4, FailPInv
<1>5. CASE SinkScalar(Tok) /\ Continue("finish")
  <2>1. open' = <<>>
    BY <1>1, <1>5 DEF SinkScalar, WithValue
  <2>2. ~ InContainer'
    BY <1>5 DEF Continue, InContainer
  <2>. QED
    BY <2>1, <2>2, OutsidePInv
<1>. QED
  BY <1>2, <1>3, <1>4, <1>5 DEF Root

(* The bound with its explanation, over the driver's invariant, is         *)
(* inductive.                                                              *)
LEMMA NextPInv ==
    ASSUME IInv, PInv, IInv', [Next]_vars
    PROVE  PInv'
<1>1. CASE Start
  <2>1. ~ InContainer' /\ UNCHANGED <<open, vals>>
    BY <1>1 DEF Start, sinkVars, InContainer
  <2>. QED
    BY <2>1, OutsidePInv
<1>2. CASE Collect
  <2>1. ~ InContainer' /\ open' = <<>>
    BY <1>2 DEF Collect, SinkStart, InContainer
  <2>. QED
    BY <2>1, OutsidePInv
<1>3. CASE UnexpectedEnd \/ Finish
  BY <1>3, ReturnedPInv DEF UnexpectedEnd, Finish, Return, sinkVars
<1>4. CASE Root
  BY <1>4, RootPInv
<1>5. CASE Fresh
  <2>1. InContainer /\ ~ AfterValue /\ pos < Len(doc)
    BY <1>5 DEF Fresh, Taking, Running, InContainer, AfterValue
  <2>. QED
    BY <1>5, <2>1, EndContainerPInv, InObjectPInv, ValuePInv DEF Fresh
<1>6. CASE Colon
  <2>1. InContainer /\ pos < Len(doc) /\ kind = "object"
    BY <1>6, RegistersAt DEF Colon, Taking, Running, InContainer
  <2>2. CASE Fail("expected")
    BY <2>2, FailPInv DEF ParseErrors
  <2>3. CASE Continue("value") /\ UNCHANGED sinkVars
    BY <2>1, <2>3, InObjectPInv
  <2>. QED
    BY <1>6, <2>2, <2>3 DEF Colon, sinkVars
<1>7. CASE NextValue
  <2>1. InContainer /\ ~ AfterValue
    BY <1>7 DEF NextValue, Taking, Running, InContainer, AfterValue
  <2>. QED
    BY <1>7, <2>1, ValuePInv DEF NextValue
<1>8. CASE Key
  <2>1. InContainer /\ pos < Len(doc) /\ kind = "object"
    BY <1>8, RegistersAt DEF Key, Taking, Running, InContainer
  <2>. QED
    BY <1>8, <2>1, InObjectPInv DEF Key
<1>9. CASE AfterScalar \/ AfterChild
  <2>1. InContainer /\ AfterValue /\ pos < Len(doc) /\ SeparatorOrCloser
    BY <1>9 DEF AfterScalar, AfterChild, Taking, Running, InContainer, AfterValue
  <2>. QED
    BY <2>1, SeparatorOrCloserPInv
<1>10. CASE UNCHANGED vars
  BY <1>10 DEF vars, PInv, PendingBounded, ValuesUpTo, HeldByCount, AfterValue, InContainer
<1>. QED
  BY <1>1, <1>2, <1>3, <1>4, <1>5, <1>6, <1>7, <1>8, <1>9, <1>10 DEF Next, Step

(* No array ever has more than one period of elements on the value stack   *)
(* of a sink that spills at its checkpoints (driver.rs 139-141), although  *)
(* the count a comma looks at is one ahead of what was accepted.           *)
THEOREM PendingStaysBounded == Spec => []PendingBounded
<1>1. Init => PInv
  BY EmptySeq DEF Init, PInv, PendingBounded, HeldByCount, InContainer
<1>2. IInv /\ IInv' /\ PInv /\ [Next]_vars => PInv'
  BY NextPInv
<1>3. PInv => PendingBounded
  BY DEF PInv
<1>. QED
  BY <1>1, <1>2, <1>3, Invariance, PTL DEF Spec

-----------------------------------------------------------------------------
(* The driver keeps the promise of SinkProtocol: every step of a parse is  *)
(* a step of the protocol or changes nothing a sink or its owner can see.  *)
(* The inductive invariant supplies the guards: what the place in the loop *)
(* says of the innermost container of the sink.                            *)

(* The sink of the protocol is the sink of the driver, call by call.       *)
LEMMA SameSink ==
    /\ \A t : Protocol!SinkScalar(t) <=> SinkScalar(t)
    /\ \A t : Protocol!SinkKey(t) <=> SinkKey(t)
    /\ \A k : Protocol!SinkBegin(k) <=> SinkBegin(k)
    /\ \A k, m, n : Protocol!SinkEnd(k, m, n) <=> SinkEnd(k, m, n)
    /\ \A m : Protocol!SinkCheckpoint(m) <=> SinkCheckpoint(m)
    /\ \A c : Protocol!SinkRefuses(c) <=> SinkRefuses(c)
    /\ Protocol!SinkStart <=> SinkStart
    /\ Protocol!Top(open) = Top(open)
    /\ \A t : Protocol!ScalarCall(t) = ScalarCall(t)
    /\ \A t : Protocol!KeyCall(t) = KeyCall(t)
    /\ \A k : Protocol!BeginCall(k) = BeginCall(k)
    /\ \A k, m, n : Protocol!EndCall(k, m, n) = EndCall(k, m, n)
    /\ \A m : Protocol!CheckpointCall(m) = CheckpointCall(m)
BY DEF Protocol!SinkScalar, Protocol!SinkKey, Protocol!SinkBegin, Protocol!SinkEnd,
       Protocol!SinkCheckpoint, Protocol!SinkRefuses, Protocol!SinkStart,
       Protocol!ScalarCall, Protocol!KeyCall, Protocol!BeginCall, Protocol!EndCall,
       Protocol!CheckpointCall, Protocol!Call, Protocol!WithValue, Protocol!SetTop,
       Protocol!OneMoreValue, Protocol!OneMoreKey, Protocol!Opened, Protocol!Pop,
       Protocol!Top,
       SinkScalar, SinkKey, SinkBegin, SinkEnd, SinkCheckpoint, SinkRefuses, SinkStart,
       ScalarCall, KeyCall, BeginCall, EndCall, CheckpointCall, Call, WithValue, SetTop,
       OneMoreValue, OneMoreKey, Opened, Pop, Top

(* What the place in the loop says a document may go on with is what the   *)
(* protocol expects of the sink's innermost container.                     *)
LEMMA Guards ==
    ASSUME IInv, outcome = "parsing"
    PROVE  /\ pc = "root" => Protocol!ValueExpected
           /\ pc = "fresh" /\ kind = "array" => Protocol!ValueExpected
           /\ pc = "value" => Protocol!ValueExpected
           /\ pc = "fresh" /\ kind = "object" => Protocol!KeyExpected
           /\ pc = "key" => Protocol!KeyExpected
           /\ pc \in {"fresh", "after", "closed"} =>
                 /\ Protocol!EndExpected
                 /\ kind = Top(open).kind /\ mark = Top(open).mark /\ cnt = Top(open).len
           /\ pc \in {"after", "closed"} /\ kind = "array" => Protocol!CheckpointExpected
<1>1. Protocol!Top(open) = Top(open)
  BY SameSink
<1>2. CASE pc = "root"
  BY <1>2 DEF IInv, OutsideContainers, Protocol!ValueExpected
<1>3. CASE pc \in {"fresh", "value", "key", "after", "closed"}
  <2>1. /\ InContainer /\ open # <<>>
        /\ kind = Top(open).kind /\ mark = Top(open).mark
        /\ kind \in Kinds
    BY <1>3 DEF IInv, FrameChain, Registers, InContainer, TypeOK
  <2>2. pc # "value" => cnt = Top(open).len /\ (kind = "object" => Top(open).keys = Top(open).len)
    BY <1>3, <2>1 DEF IInv, Registers
  <2>3. pc = "value" => (kind = "object" => Top(open).keys = Top(open).len + 1)
    BY <2>1 DEF IInv, Registers
  <2>4. pc = "key" => kind = "object"
    BY <2>1, RegistersAt
  <2>5. pc \in {"after", "closed"} => Top(open).mark < vals
    BY <2>1 DEF IInv, MarksOrdered
  <2>. QED
    BY <1>1, <1>3, <2>1, <2>2, <2>3, <2>4, <2>5
       DEF Kinds, Protocol!ValueExpected, Protocol!KeyExpected, Protocol!EndExpected,
           Protocol!CheckpointExpected
<1>. QED
  BY <1>2, <1>3

-----------------------------------------------------------------------------
(* A parse error, and a value, as steps of the protocol.                   *)
LEMMA FailRefined ==
    ASSUME outcome = "parsing", NEW error \in ParseErrors, Fail(error)
    PROVE  Protocol!Next
<1>. QED
  BY DEF Fail, Return, sinkVars, ParseErrors, Protocol!Next, Protocol!Reject, Protocol!ParseErrors,
         Protocol!sinkVars

(* A scalar is a step of the protocol, accepted or refused.                *)
LEMMA ScalarRefined ==
    ASSUME outcome = "parsing", Protocol!ValueExpected, NEW t \in PlainScalars,
           \/ SinkScalar(t) /\ outcome' = outcome
           \/ RefusedBy(ScalarCall(t))
    PROVE  Protocol!Next
<1>1. t \in Protocol!Scalars
  BY DEF Protocol!Scalars, Protocol!PlainScalars, PlainScalars
<1>2. Protocol!Scalar(t)
  BY SameSink DEF Protocol!Scalar, Protocol!Answered, RefusedBy, Return
<1>. QED
  BY <1>1, <1>2 DEF Protocol!Next

(* So is a container that opens.                                           *)
LEMMA EnterRefined ==
    ASSUME outcome = "parsing", Protocol!ValueExpected, NEW frame, Enter(frame)
    PROVE  Protocol!Next
<1>1. KindOf(Tok) \in Protocol!Kinds
  BY DEF KindOf, Protocol!Kinds
<1>2. Protocol!Begin(KindOf(Tok))
  BY SameSink DEF Enter, Protocol!Begin, Protocol!Answered, RefusedBy, Return, Continue
<1>. QED
  BY <1>1, <1>2 DEF Protocol!Next

(* So is a value, whichever it is.                                         *)
LEMMA ValueRefined ==
    ASSUME outcome = "parsing", Protocol!ValueExpected, NEW c, Value(c)
    PROVE  Protocol!Next
<1>1. CASE Tok \in Openers /\ Enter(Frame(c))
  BY <1>1, EnterRefined
<1>2. CASE EmitScalar(c)
  BY <1>2, ScalarRefined DEF EmitScalar, Continue
<1>3. CASE Fail(ValueError(Tok))
  BY <1>3, FailRefined DEF ValueError, ParseErrors
<1>. QED
  BY <1>1, <1>2, <1>3 DEF Value

(* A key, a closer and an array's comma.                                   *)
LEMMA KeyRefined ==
    ASSUME outcome = "parsing", Protocol!KeyExpected, EmitKey
    PROVE  Protocol!Next
<1>1. CASE Fail("scalar_error") \/ Fail("expected")
  BY <1>1, FailRefined DEF ParseErrors
<1>2. CASE /\ Tok \in KeyText
           /\ \/ SinkKey(Tok) /\ Continue("colon")
              \/ RefusedBy(KeyCall(Tok))
  <2>1. Tok \in Protocol!KeyText
    BY <1>2 DEF Protocol!KeyText, KeyText
  <2>2. Protocol!Key(Tok)
    BY <1>2, SameSink DEF Protocol!Key, Protocol!Answered, RefusedBy, Return, Continue
  <2>. QED
    BY <2>1, <2>2 DEF Protocol!Next
<1>. QED
  BY <1>1, <1>2 DEF EmitKey

(* A closer calls end_* with the arguments the protocol asks for.          *)
LEMMA EndRefined ==
    ASSUME outcome = "parsing", Protocol!EndExpected, EndContainer,
           kind = Top(open).kind, mark = Top(open).mark, cnt = Top(open).len
    PROVE  Protocol!Next
<1>1. CASE SinkEnd(kind, mark, cnt) /\ outcome' = "parsing"
  BY <1>1, SameSink DEF Protocol!Next, Protocol!End, Protocol!Answered
<1>2. CASE RefusedBy(EndCall(kind, mark, cnt))
  BY <1>2, SameSink DEF Protocol!Next, Protocol!End, Protocol!Answered, RefusedBy, Return
<1>. QED
  BY <1>1, <1>2 DEF EndContainer, Resume, Continue

(* A separator is a checkpoint or nothing to the sink.                     *)
LEMMA SeparatorRefined ==
    ASSUME IInv, outcome = "parsing", pc \in {"after", "closed"}, SeparatorOrCloser
    PROVE  Protocol!Next \/ UNCHANGED <<open, vals, calls, outcome>>
<1>1. CASE kind = "array" /\ NextElement
  <2>1. CASE UNCHANGED sinkVars /\ Continue("value")
    BY <2>1 DEF sinkVars, Continue
  <2>2. CASE \/ SinkCheckpoint(mark) /\ Continue("value")
             \/ RefusedBy(CheckpointCall(mark))
    <3>1. Protocol!CheckpointExpected /\ mark = Protocol!Top(open).mark
      BY <1>1, Guards, SameSink
    <3>2. Protocol!Checkpoint
      BY <2>2, <3>1, SameSink
         DEF Protocol!Checkpoint, Protocol!Answered, RefusedBy, Return, Continue
    <3>. QED
      BY <3>2 DEF Protocol!Next
  <2>. QED
    BY <1>1, <2>1, <2>2 DEF NextElement
<1>2. CASE NextPair
  BY <1>2 DEF NextPair, Continue, sinkVars
<1>3. CASE EndContainer
  BY <1>3, Guards, EndRefined
<1>4. CASE Fail("expected")
  BY <1>4, FailRefined DEF ParseErrors
<1>. QED
  BY <1>1, <1>2, <1>3, <1>4 DEF SeparatorOrCloser

(* A parse that returns: with an error, or with success after the value.   *)
LEMMA ReturnRefined ==
    ASSUME IInv, UnexpectedEnd \/ Finish
    PROVE  Protocol!Next
<1>1. CASE outcome' \in ParseErrors
  BY <1>1 DEF UnexpectedEnd, Finish, Return, Running, sinkVars, ParseErrors,
     Protocol!Next, Protocol!Reject, Protocol!ParseErrors, Protocol!sinkVars
<1>2. CASE outcome' = "ok"
  <2>1. outcome = "parsing" /\ open = <<>> /\ calls # <<>>
    BY <1>2 DEF UnexpectedEnd, Finish, Return, Running, IInv, OutsideContainers
  <2>. QED
    BY <1>2, <2>1 DEF UnexpectedEnd, Finish, Return, sinkVars,
       Protocol!Next, Protocol!Accept, Protocol!sinkVars
<1>. QED
  BY <1>1, <1>2 DEF UnexpectedEnd, Finish, Return, ParseErrors

-----------------------------------------------------------------------------
(* Every step of the driver is a step of the protocol, or one the sink and *)
(* the caller do not see.                                                  *)
LEMMA NextRefined ==
    ASSUME IInv, [Next]_vars
    PROVE  [Protocol!Next]_(Protocol!protocolVars)
<1>. USE DEF Taking, Running
<1>1. CASE Start
  BY <1>1 DEF Start, sinkVars, Protocol!Next, Protocol!Start, Protocol!sinkVars
<1>2. CASE Collect
  BY <1>2, SameSink DEF Collect, Protocol!Next, Protocol!Collect
<1>3. CASE UnexpectedEnd \/ Finish
  BY <1>3, ReturnRefined
<1>4. CASE Root
  <2>1. Protocol!ValueExpected /\ outcome = "parsing"
    BY <1>4, Guards DEF Root
  <2>2. CASE Tok \in Openers /\ Enter(RootFrame)
    BY <2>1, <2>2, EnterRefined
  <2>3. CASE Tok \in PlainScalars /\ ((SinkScalar(Tok) /\ Continue("finish")) \/ RefusedBy(ScalarCall(Tok)))
    BY <2>1, <2>3, ScalarRefined DEF Continue
  <2>4. CASE Fail(ValueError(Tok))
    BY <2>1, <2>4, FailRefined DEF ValueError, ParseErrors
  <2>. QED
    BY <1>4, <2>2, <2>3, <2>4 DEF Root
<1>5. CASE Fresh
  <2>1. outcome = "parsing" /\ pc = "fresh"
    BY <1>5 DEF Fresh
  <2>2. CASE EndContainer
    BY <2>1, <2>2, Guards, EndRefined
  <2>3. CASE kind = "object" /\ EmitKey
    BY <2>1, <2>3, Guards, KeyRefined
  <2>4. CASE kind = "array" /\ Value(cnt + 1)
    BY <2>1, <2>4, Guards, ValueRefined
  <2>. QED
    BY <1>5, <2>2, <2>3, <2>4 DEF Fresh
<1>6. CASE Colon
  <2>1. CASE Fail("expected")
    BY <1>6, <2>1, FailRefined DEF ParseErrors, Colon
  <2>2. CASE Continue("value") /\ UNCHANGED sinkVars
    BY <2>2 DEF Continue, sinkVars, Protocol!protocolVars
  <2>. QED
    BY <1>6, <2>1, <2>2 DEF Colon
<1>7. CASE NextValue
  BY <1>7, Guards, ValueRefined DEF NextValue
<1>8. CASE Key
  BY <1>8, Guards, KeyRefined DEF Key
<1>9. CASE AfterScalar \/ AfterChild
  BY <1>9, SeparatorRefined DEF AfterScalar, AfterChild, Protocol!protocolVars
<1>10. CASE UNCHANGED vars
  BY <1>10 DEF vars, Protocol!protocolVars
<1>. QED
  BY <1>1, <1>2, <1>3, <1>4, <1>5, <1>6, <1>7, <1>8, <1>9, <1>10 DEF Next, Step

(* parse_indexed implements the protocol every Sink is written against:    *)
(* calls in a legal order, each with the arguments of the container it is  *)
(* about, none after a refusal, success after exactly one value.           *)
THEOREM Refinement == Spec => ImplementsSinkProtocol
<1>1. Init => Protocol!Init
  BY DEF Init, Protocol!Init
<1>2. IInv /\ [Next]_vars => [Protocol!Next]_(Protocol!protocolVars)
  BY NextRefined
<1>. QED
  BY <1>1, <1>2, Invariance, PTL DEF Spec, ImplementsSinkProtocol, Protocol!Spec

-----------------------------------------------------------------------------
(* The parse the driver makes: each of its steps takes the next token of   *)
(* PushParse, or returns as PushParse does.                                *)

(* Where in the parse of PushParse the loop stands.                        *)
Place == IF pc = "fresh" THEN "first" ELSE IF pc = "closed" THEN "after" ELSE pc

(* What the driver shows of a state of the parse.                          *)
Shows(s) == IsState(s, Place, pos, open, vals, calls, outcome, errorAt)

(* Inside a parse the driver shows the state of one.                       *)
LEMMA ShownParsing ==
    ASSUME NEW s, Shows(s), outcome = "parsing", NEW at, at = Place
    PROVE  ShowsParsing(s, at, pos)
BY DEF Shows, ShowsParsing

(* A parse error at the token just taken.                                  *)
LEMMA FailFollows ==
    ASSUME IInv, NEW s, Shows(s), outcome = "parsing", NEW error \in ParseErrors, Fail(error),
           NEW t, t = Rejecting(s, error)
    PROVE  Shows(t)'
<1>1. /\ outcome' = error /\ errorAt' = pos + 1 /\ UNCHANGED sinkVars
      /\ pos + 1 \in Nat /\ error \in {"ok"} \cup ParseErrors
  BY DEF Fail, Return, sinkVars, IInv, TypeOK
<1>2. s.taken = pos
  BY DEF Shows, IsState
<1>3. ASSUME NEW at, at = Place, NEW n, NEW m, n = Place', m = pos'
      PROVE  IsState(t, n, m, open', vals', calls', error, pos + 1)
  BY <1>1, <1>2, <1>3, ShownParsing, ReturnShown, Zenon DEF Rejecting
<1>. QED
  BY <1>1, <1>3, Zenon DEF Shows

(* The sink's refusal: the result at once.                                 *)
LEMMA RefusalFollows ==
    ASSUME NEW t, IsState(t, Place', pos', open', vals', calls', "sink_error", 0),
           Return("sink_error", 0)
    PROVE  Shows(t)'
BY Zenon DEF Return, Shows

(* A scalar, in a container or for the root.                               *)
LEMMA ScalarFollows ==
    ASSUME IInv, NEW s, Shows(s), outcome = "parsing", Tok \in PlainScalars, pos' = pos + 1,
           NEW limit, RefusesAt(calls', limit), NEW t, t = TakeScalar(s, Tok, limit),
           \/ SinkScalar(Tok) /\ Place' = Behind(open) /\ UNCHANGED outcome
           \/ RefusedBy(ScalarCall(Tok))
    PROVE  Shows(t)'
<1>. DEFINE k == Tok
<1>1. k \in Token /\ SinkTypeOK
  BY DEF PlainScalars, Token, Scalars, IInv, TypeOK
<1>2. PICK at : at = Place
  OBVIOUS
<1>3. ShowsParsing(s, at, pos)
  BY <1>2, ShownParsing
<1>4. CASE SinkScalar(k) /\ Place' = Behind(open) /\ UNCHANGED outcome
  <2>1. IsState(t, Behind(open), pos + 1, open', vals', calls', "parsing", errorAt')
    <3>. HIDE DEF k
    <3>1. t = TakeScalar(s, k, limit)
      BY DEF k
    <3>. QED
      BY <1>1, <1>3, <1>4, <3>1, ScalarShown, Zenon
  <2>. QED
    BY <1>4, <2>1, Zenon DEF Shows
<1>5. CASE RefusedBy(ScalarCall(k))
  <2>1. SinkRefuses(ScalarCall(k)) /\ Return("sink_error", 0)
    BY <1>5, Zenon DEF RefusedBy
  <2>2. IsState(t, Place', pos', open', vals', calls', "sink_error", 0)
    <3>. HIDE DEF k
    <3>1. t = TakeScalar(s, k, limit)
      BY DEF k
    <3>. QED
      BY <1>1, <1>3, <2>1, <3>1, ScalarRefused, Zenon
  <2>. QED
    BY <2>1, <2>2, RefusalFollows, Zenon
<1>. QED
  BY <1>4, <1>5

(* A container entered, whatever frame it leaves below.                    *)
LEMMA EnterFollows ==
    ASSUME IInv, NEW s, Shows(s), outcome = "parsing", Tok \in Openers, NEW frame, Enter(frame),
           NEW limit, RefusesAt(calls', limit), NEW t, t = TakeOpener(s, Tok, limit)
    PROVE  Shows(t)'
<1>. DEFINE k == Tok
<1>1. SinkTypeOK /\ k \in Openers /\ pos' = pos + 1
  BY DEF IInv, TypeOK, Enter
<1>2. PICK at : at = Place
  OBVIOUS
<1>3. ShowsParsing(s, at, pos)
  BY <1>2, ShownParsing
<1>4. CASE SinkBegin(KindOf(k)) /\ Continue("fresh")
  <2>1. Place' = "first" /\ outcome' = "parsing"
    BY <1>4 DEF Place, Continue
  <2>2. IsState(t, "first", pos + 1, open', vals', calls', "parsing", errorAt')
    <3>. HIDE DEF k
    <3>1. t = TakeOpener(s, k, limit)
      BY DEF k
    <3>. QED
      BY <1>1, <1>3, <1>4, <3>1, BeginShown, Zenon
  <2>. QED
    BY <1>1, <2>1, <2>2, Zenon DEF Shows
<1>5. CASE RefusedBy(BeginCall(KindOf(k)))
  <2>1. SinkRefuses(BeginCall(KindOf(k))) /\ Return("sink_error", 0)
    BY <1>5, Zenon DEF RefusedBy
  <2>2. IsState(t, Place', pos', open', vals', calls', "sink_error", 0)
    <3>. HIDE DEF k
    <3>1. t = TakeOpener(s, k, limit)
      BY DEF k
    <3>. QED
      BY <1>1, <1>3, <2>1, <3>1, BeginRefused, Zenon
  <2>. QED
    BY <2>1, <2>2, RefusalFollows, Zenon
<1>. QED
  BY <1>4, <1>5, Zenon DEF Enter

(* A value where one is due, in a container.                               *)
LEMMA ValueFollows ==
    ASSUME IInv, NEW s, Shows(s), outcome = "parsing", pos < Len(doc), open # <<>>,
           NEW c, Value(c), NEW limit, RefusesAt(calls', limit),
           NEW t, t = TakeValue(s, Tok, limit)
    PROVE  Shows(t)'
<1>1. CASE Tok \in Openers
  <2>1. t = TakeOpener(s, Tok, limit) /\ Enter(Frame(c))
    <3>1. Tok \notin PlainScalars
      BY <1>1 DEF Openers, PlainScalars
    <3>. QED
      BY <1>1, <3>1, Zenon DEF TakeValue, Value, EmitScalar
  <2>. QED
    BY <1>1, <2>1, EnterFollows
<1>2. CASE Tok \in PlainScalars
  <2>1. Tok \notin Openers
    BY <1>2 DEF Openers, PlainScalars
  <2>2. t = TakeScalar(s, Tok, limit) /\ EmitScalar(c)
    BY <1>2, <2>1, Zenon DEF TakeValue, Value
  <2>3. pos' = pos + 1
    BY <2>2, Zenon DEF EmitScalar
  <2>4. \/ SinkScalar(Tok) /\ Continue("after")
        \/ RefusedBy(ScalarCall(Tok))
    BY <2>2, Zenon DEF EmitScalar
  <2>5. Continue("after") => Place' = Behind(open) /\ UNCHANGED outcome
    BY DEF Continue, Place, Behind
  <2>. QED
    BY <1>2, <2>2, <2>3, <2>4, <2>5, ScalarFollows
<1>3. CASE Tok \notin Openers \cup PlainScalars
  <2>1. t = Rejecting(s, ValueError(Tok)) /\ Fail(ValueError(Tok))
    BY <1>3, Zenon DEF TakeValue, Value, EmitScalar
  <2>2. ValueError(Tok) \in ParseErrors
    BY DEF ValueError, ParseErrors
  <2>. QED
    BY <2>1, <2>2, FailFollows
<1>. QED
  BY <1>1, <1>2, <1>3

(* A key where one is due, in an object.                                   *)
LEMMA KeyFollows ==
    ASSUME IInv, NEW s, Shows(s), outcome = "parsing", open # <<>>, EmitKey,
           NEW limit, RefusesAt(calls', limit), NEW t, t = TakeKey(s, Tok, limit)
    PROVE  Shows(t)'
<1>. DEFINE k == Tok
<1>1. CASE k \in KeyText
  <2>1. SinkTypeOK /\ pos' = pos + 1
    BY <1>1 DEF IInv, TypeOK, EmitKey, KeyText, Quoted
  <2>2. PICK at : at = Place
    OBVIOUS
  <2>3. ShowsParsing(s, at, pos)
    BY <2>2, ShownParsing
  <2>4. (SinkKey(k) /\ Continue("colon")) \/ RefusedBy(KeyCall(k))
    <3>1. k # "badstr" /\ k \in Quoted
      BY <1>1 DEF KeyText, Quoted
    <3>. QED
      BY <1>1, <3>1, Zenon DEF EmitKey
  <2>5. CASE SinkKey(k) /\ Continue("colon")
    <3>1. Place' = "colon" /\ outcome' = "parsing"
      BY <2>5 DEF Place, Continue
    <3>2. IsState(t, "colon", pos + 1, open', vals', calls', "parsing", errorAt')
      <4>. HIDE DEF k
      <4>1. t = TakeKey(s, k, limit)
        BY DEF k
      <4>. QED
        BY <1>1, <2>1, <2>3, <2>5, <4>1, KeyShown, Zenon
    <3>. QED
      BY <2>1, <3>1, <3>2, Zenon DEF Shows
  <2>6. CASE RefusedBy(KeyCall(k))
    <3>1. SinkRefuses(KeyCall(k)) /\ Return("sink_error", 0)
      BY <2>6, Zenon DEF RefusedBy
    <3>2. IsState(t, Place', pos', open', vals', calls', "sink_error", 0)
      <4>. HIDE DEF k
      <4>1. t = TakeKey(s, k, limit)
        BY DEF k
      <4>. QED
        BY <1>1, <2>1, <2>3, <3>1, <4>1, KeyRefused, Zenon
    <3>. QED
      BY <3>1, <3>2, RefusalFollows, Zenon
  <2>. QED
    BY <2>4, <2>5, <2>6
<1>2. CASE k \notin KeyText
  <2>1. KeyError(k) \in ParseErrors /\ Fail(KeyError(k))
    <3>1. CASE k = "badstr"
      BY <1>2, <3>1 DEF KeyError, EmitKey, ParseErrors, Quoted
    <3>2. CASE k # "badstr"
      BY <1>2, <3>2 DEF KeyError, EmitKey, ParseErrors, Quoted, KeyText
    <3>. QED
      BY <3>1, <3>2
  <2>2. t = Rejecting(s, KeyError(k))
    BY <1>2, Zenon DEF TakeKey
  <2>. QED
    BY <2>1, <2>2, FailFollows
<1>. QED
  BY <1>1, <1>2

(* The innermost container ended.                                          *)
LEMMA EndFollows ==
    ASSUME IInv, InContainer, NEW s, Shows(s), EndContainer,
           kind = Top(open).kind, mark = Top(open).mark, cnt = Top(open).len,
           NEW limit, RefusesAt(calls', limit), NEW t, t = TakeCloser(s, limit)
    PROVE  Shows(t)'
<1>1. SinkTypeOK /\ pos' = pos + 1 /\ open # <<>> /\ outcome = "parsing"
  BY DEF IInv, TypeOK, FrameChain, EndContainer, InContainer
<1>2. PICK at : at = Place
  OBVIOUS
<1>3. ShowsParsing(s, at, pos)
  BY <1>1, <1>2, ShownParsing
<1>4. CASE SinkEnd(kind, mark, cnt) /\ Resume(Top(stack))
  <2>1. Place' = Behind(Pop(open)) /\ outcome' = "parsing"
    <3>1. /\ Len(open) \in Nat \ {0} /\ Pop(open) \in Seq(Container)
          /\ Len(Pop(open)) = Len(open) - 1
      BY <1>1, PopFacts DEF SinkTypeOK
    <3>2. Top(stack).kind = "root" <=> Len(open) = 1
      <4>1. /\ Len(stack) = Len(open) /\ stack[1].kind = "root"
            /\ \A i \in 2 .. Len(stack) : stack[i].kind = open[i - 1].kind
        BY DEF IInv, FrameChain
      <4>2. ASSUME Len(open) # 1 PROVE Top(stack).kind # "root"
        <5>1. Len(stack) \in 2 .. Len(stack) /\ Len(open) - 1 \in 1 .. Len(open)
          BY <3>1, <4>1, <4>2
        <5>2. open[Len(open) - 1] \in Container
          BY <1>1, <5>1, ElementOfSeq DEF SinkTypeOK
        <5>3. open[Len(open) - 1].kind \in Kinds
          BY <5>2 DEF Container
        <5>4. Top(stack).kind = open[Len(open) - 1].kind
          BY <4>1, <5>1 DEF Top
        <5>. QED
          BY <5>3, <5>4 DEF Kinds
      <4>. QED
        BY <4>1, <4>2 DEF Top
    <3>3. Pop(open) = <<>> <=> Len(open) = 1
      BY <3>1, EmptySeq
    <3>. QED
      BY <1>1, <1>4, <3>2, <3>3 DEF Resume, Continue, Behind, Place
  <2>2. IsState(t, Behind(Pop(open)), pos + 1, open', vals', calls', "parsing", errorAt')
    <3>1. SinkEnd(Top(open).kind, Top(open).mark, Top(open).len)
      BY <1>4, Zenon
    <3>. QED
      BY <1>1, <1>3, <3>1, EndShown, Zenon
  <2>. QED
    BY <1>1, <2>1, <2>2, Zenon DEF Shows
<1>5. CASE RefusedBy(EndCall(kind, mark, cnt))
  <2>1. SinkRefuses(EndCall(Top(open).kind, Top(open).mark, Top(open).len))
        /\ Return("sink_error", 0)
    BY <1>5, Zenon DEF RefusedBy
  <2>2. IsState(t, Place', pos', open', vals', calls', "sink_error", 0)
    BY <1>1, <1>3, <2>1, EndRefused, Zenon
  <2>. QED
    BY <2>1, <2>2, RefusalFollows, Zenon
<1>. QED
  BY <1>4, <1>5, Zenon DEF EndContainer

(* A colon or a comma, of which the sink hears nothing.                    *)
LEMMA MoveFollows ==
    ASSUME IInv, NEW s, Shows(s), outcome = "parsing", pos' = pos + 1, UNCHANGED sinkVars,
           NEW at \in Places, Continue(at), at \in {"value", "key"},
           NEW t, t = Moving(s, at)
    PROVE  Shows(t)'
<1>1. PICK a : a = Place
  OBVIOUS
<1>2. IsState(t, at, pos + 1, open', vals', calls', "parsing", errorAt')
  BY <1>1, ShownParsing, MoveShown, Zenon
<1>3. Place' = at /\ outcome' = "parsing"
  BY DEF Continue, Place
<1>. QED
  BY <1>2, <1>3, Zenon DEF Shows

(* The comma of an array, with or without a checkpoint.                    *)
LEMMA NextElementFollows ==
    ASSUME IInv, ~ Spills, NEW s, Shows(s), outcome = "parsing", NextElement,
           NEW limit, RefusesAt(calls', limit), NEW t, t = Moving(s, "value")
    PROVE  Shows(t)'
<1>1. "value" \in Places /\ SinkTypeOK /\ mark \in Nat /\ pos' = pos + 1
  BY DEF Places, IInv, TypeOK, NextElement
<1>2. CASE UNCHANGED sinkVars /\ Continue("value")
  BY <1>1, <1>2, MoveFollows
<1>3. CASE SinkCheckpoint(mark) /\ Continue("value")
  <2>1. PICK a : a = Place
    OBVIOUS
  <2>2. IsState(t, "value", pos + 1, open', vals', calls', "parsing", errorAt')
    BY <1>1, <1>3, <2>1, ShownParsing, CheckpointMoved, Zenon
  <2>3. Place' = "value" /\ outcome' = "parsing"
    BY <1>3 DEF Continue, Place
  <2>. QED
    BY <1>1, <2>2, <2>3, Zenon DEF Shows
<1>4. CASE RefusedBy(CheckpointCall(mark))
  BY <1>1, <1>4, CheckpointRefused DEF RefusedBy
<1>. QED
  BY <1>2, <1>3, <1>4 DEF NextElement

(* What follows a value in a container.                                    *)
LEMMA SeparatorFollows ==
    ASSUME IInv, InContainer, pc \in {"after", "closed"}, ~ Spills, NEW s, Shows(s),
           SeparatorOrCloser, NEW limit, RefusesAt(calls', limit),
           NEW t, t = TakeSeparator(s, Tok, limit)
    PROVE  Shows(t)'
<1>1. /\ outcome = "parsing" /\ kind = Top(open).kind /\ mark = Top(open).mark
      /\ cnt = Top(open).len /\ kind \in Kinds
  BY DEF InContainer, IInv, Registers, TypeOK
<1>2. s.open = open
  BY <1>1 DEF Shows, IsState
<1>3. CloserOf(kind) # "," /\ "key" \in Places /\ "expected" \in ParseErrors
      /\ "key" \in {"value", "key"}
  BY DEF CloserOf, Places, ParseErrors
<1>4. CASE Tok = "," /\ kind = "array" /\ NextElement
  <2>1. t = Moving(s, "value")
    <3>1. kind # "object"
      BY <1>4
    <3>. QED
      BY <1>1, <1>2, <1>4, <3>1, Zenon DEF TakeSeparator
  <2>. QED
    BY <1>1, <1>4, <2>1, NextElementFollows
<1>5. CASE Tok = "," /\ kind = "object" /\ NextPair
  <2>1. t = Moving(s, "key")
    BY <1>1, <1>2, <1>5, Zenon DEF TakeSeparator
  <2>. QED
    BY <1>1, <1>3, <1>5, <2>1, MoveFollows DEF NextPair
<1>6. CASE Tok = CloserOf(kind) /\ EndContainer
  <2>1. t = TakeCloser(s, limit)
    BY <1>1, <1>2, <1>3, <1>6, Zenon DEF TakeSeparator
  <2>. QED
    BY <1>1, <1>6, <2>1, EndFollows
<1>7. CASE Tok \notin {",", CloserOf(kind)} /\ Fail("expected")
  <2>1. t = Rejecting(s, "expected")
    BY <1>1, <1>2, <1>7, Zenon DEF TakeSeparator
  <2>. QED
    BY <1>1, <1>3, <1>7, <2>1, FailFollows
<1>. QED
  BY <1>4, <1>5, <1>6, <1>7 DEF SeparatorOrCloser

(* The return without a token: the index ended, or the value did.          *)
LEMMA ReturnFollows ==
    ASSUME IInv, NEW s, Shows(s), UnexpectedEnd \/ Finish, NEW limit,
           NEW t, t = ParseStep(s, doc, limit)
    PROVE  Shows(t)'
<1>1. /\ outcome = "parsing" /\ UNCHANGED sinkVars /\ pos + 1 \in Nat
      /\ pos \in Nat /\ Len(doc) \in Nat /\ pos <= Len(doc)
  BY LenProperties DEF UnexpectedEnd, Finish, Running, sinkVars, IInv, TypeOK
<1>2. s.taken = pos /\ s.at = Place
  BY <1>1 DEF Shows, IsState
<1>3. PICK a : a = Place
  OBVIOUS
<1>4. ShowsParsing(s, a, pos)
  BY <1>1, <1>3, ShownParsing
<1>5. ASSUME NEW result \in {"ok"} \cup ParseErrors, NEW offset \in Nat,
             Return(result, offset), t = Returning(s, result, offset)
      PROVE  Shows(t)'
  <2>1. IsState(t, Place', pos', open', vals', calls', result, offset)
    BY <1>1, <1>4, <1>5, ReturnShown, Zenon
  <2>. QED
    BY <1>5, <2>1, Zenon DEF Return, Shows
<1>6. CASE UnexpectedEnd
  <2>1. s.at # "finish" /\ s.taken = Len(doc)
    BY <1>2, <1>6 DEF UnexpectedEnd, Place
  <2>2. t = Returning(s, "unexpected_end", pos + 1)
    BY <1>2, <2>1, Zenon DEF ParseStep, Rejecting
  <2>. QED
    BY <1>1, <1>5, <1>6, <2>2 DEF UnexpectedEnd, ParseErrors
<1>7. CASE Finish
  <2>1. s.at = "finish"
    BY <1>2, <1>7 DEF Finish, Running, Place
  <2>2. CASE pos < Len(doc)
    <3>1. t = Returning(s, "trailing_characters", pos + 1)
      BY <1>2, <2>1, <2>2, Zenon DEF ParseStep, Rejecting
    <3>. QED
      BY <1>1, <1>5, <1>7, <2>2, <3>1 DEF Finish, ParseErrors
  <2>3. CASE ~ pos < Len(doc)
    <3>1. t = Returning(s, "ok", 0)
      BY <1>2, <2>1, <2>3, Zenon DEF ParseStep
    <3>. QED
      BY <1>1, <1>5, <1>7, <2>3, <3>1 DEF Finish
  <2>. QED
    BY <2>2, <2>3
<1>. QED
  BY <1>6, <1>7

(* Each step of the driver is the step of the parse.                       *)
LEMMA StepFollows ==
    ASSUME IInv, ~ Spills, Step, NEW s, Shows(s), NEW limit, RefusesAt(calls', limit),
           NEW t, t = ParseStep(s, doc, limit)
    PROVE  Shows(t)'
<1>1. CASE UnexpectedEnd \/ Finish
  BY <1>1, ReturnFollows
<1>2. ASSUME NEW p \in Pcs, Taking(p), p \notin {"idle", "finish"}
      PROVE  /\ outcome = "parsing" /\ pc = p /\ pos < Len(doc)
             /\ t = TokenStep(s, Tok, limit) /\ s.at = Place /\ s.open = open
             /\ p # "root" => InContainer /\ open # <<>>
  <2>1. outcome = "parsing" /\ pc = p /\ pos < Len(doc)
    BY <1>2 DEF Taking, Running
  <2>2. s.at = Place /\ s.taken = pos /\ s.open = open
    BY <2>1 DEF Shows, IsState
  <2>3. s.at # "finish" /\ s.taken # Len(doc)
    BY <1>2, <2>1, <2>2 DEF Place, IInv, TypeOK
  <2>4. t = TokenStep(s, Tok, limit)
    BY <2>2, <2>3, Zenon DEF ParseStep, Tok
  <2>5. p # "root" => InContainer /\ open # <<>>
    BY <1>2, <2>1 DEF InContainer, IInv, FrameChain
  <2>. QED
    BY <2>1, <2>2, <2>4, <2>5
<1>3. CASE Root
  <2>1. /\ outcome = "parsing" /\ pc = "root" /\ pos < Len(doc)
        /\ t = TokenStep(s, Tok, limit) /\ s.at = "root" /\ open = <<>>
    BY <1>2, <1>3 DEF Root, Pcs, Place, IInv, OutsideContainers
  <2>2. t = TakeValue(s, Tok, limit)
    BY <2>1 DEF TokenStep
  <2>3. CASE Tok \in Openers
    <3>1. Tok \notin PlainScalars
      BY <2>3 DEF Openers, PlainScalars
    <3>2. t = TakeOpener(s, Tok, limit) /\ Enter(RootFrame)
      BY <1>3, <2>2, <2>3, <3>1, Zenon DEF TakeValue, Root
    <3>. QED
      BY <2>1, <2>3, <3>2, EnterFollows
  <2>4. CASE Tok \in PlainScalars
    <3>1. Tok \notin Openers
      BY <2>4 DEF Openers, PlainScalars
    <3>2. t = TakeScalar(s, Tok, limit) /\ pos' = pos + 1
      BY <1>3, <2>2, <2>4, <3>1, Zenon DEF TakeValue, Root
    <3>3. (SinkScalar(Tok) /\ Continue("finish")) \/ RefusedBy(ScalarCall(Tok))
      BY <1>3, <2>4, <3>1, Zenon DEF Root
    <3>4. Continue("finish") => Place' = Behind(open) /\ UNCHANGED outcome
      BY <2>1 DEF Continue, Place, Behind
    <3>. QED
      BY <2>1, <2>4, <3>2, <3>3, <3>4, ScalarFollows
  <2>5. CASE Tok \notin Openers \cup PlainScalars
    <3>1. t = Rejecting(s, ValueError(Tok)) /\ Fail(ValueError(Tok))
      BY <1>3, <2>2, <2>5, Zenon DEF TakeValue, Root
    <3>2. ValueError(Tok) \in ParseErrors
      BY DEF ValueError, ParseErrors
    <3>. QED
      BY <2>1, <3>1, <3>2, FailFollows
  <2>. QED
    BY <2>3, <2>4, <2>5
<1>4. CASE Fresh
  <2>1. /\ outcome = "parsing" /\ pc = "fresh" /\ pos < Len(doc) /\ InContainer
        /\ t = TokenStep(s, Tok, limit) /\ s.at = "first" /\ s.open = open /\ open # <<>>
    BY <1>2, <1>4 DEF Fresh, Pcs, Place
  <2>2. t = TakeFirst(s, Tok, limit)
    BY <2>1 DEF TokenStep
  <2>3. kind = Top(open).kind /\ mark = Top(open).mark /\ cnt = Top(open).len
    BY <2>1 DEF IInv, Registers
  <2>4. CASE Tok = CloserOf(kind) /\ EndContainer
    <3>1. t = TakeCloser(s, limit)
      BY <2>1, <2>2, <2>3, <2>4, Zenon DEF TakeFirst
    <3>. QED
      BY <2>1, <2>3, <2>4, <3>1, EndFollows
  <2>5. CASE Tok # CloserOf(kind) /\ kind = "object" /\ EmitKey
    <3>1. t = TakeKey(s, Tok, limit)
      BY <2>1, <2>2, <2>3, <2>5, Zenon DEF TakeFirst
    <3>. QED
      BY <2>1, <2>5, <3>1, KeyFollows
  <2>6. CASE Tok # CloserOf(kind) /\ kind = "array" /\ Value(cnt + 1)
    <3>1. t = TakeValue(s, Tok, limit)
      <4>1. kind # "object"
        BY <2>6
      <4>. QED
        BY <2>1, <2>2, <2>3, <2>6, <4>1, Zenon DEF TakeFirst
    <3>. QED
      BY <2>1, <2>6, <3>1, ValueFollows
  <2>. QED
    BY <1>4, <2>4, <2>5, <2>6 DEF Fresh
<1>5. CASE Colon
  <2>1. /\ outcome = "parsing" /\ pos < Len(doc)
        /\ t = TokenStep(s, Tok, limit) /\ s.at = "colon"
    BY <1>2, <1>5 DEF Colon, Pcs, Place
  <2>2. t = TakeColon(s, Tok)
    BY <2>1 DEF TokenStep
  <2>3. "value" \in Places /\ "expected" \in ParseErrors
    BY DEF Places, ParseErrors
  <2>4. CASE Tok = ":" /\ pos' = pos + 1 /\ Continue("value") /\ UNCHANGED sinkVars
    <3>1. t = Moving(s, "value")
      BY <2>2, <2>4, Zenon DEF TakeColon
    <3>. QED
      BY <2>1, <2>3, <2>4, <3>1, MoveFollows
  <2>5. CASE Tok # ":" /\ Fail("expected")
    <3>1. t = Rejecting(s, "expected")
      BY <2>2, <2>5, Zenon DEF TakeColon
    <3>. QED
      BY <2>1, <2>3, <2>5, <3>1, FailFollows
  <2>. QED
    BY <1>5, <2>4, <2>5 DEF Colon
<1>6. CASE NextValue
  <2>1. /\ outcome = "parsing" /\ pos < Len(doc) /\ open # <<>>
        /\ t = TokenStep(s, Tok, limit) /\ s.at = "value"
    BY <1>2, <1>6 DEF NextValue, Pcs, Place
  <2>2. t = TakeValue(s, Tok, limit)
    BY <2>1 DEF TokenStep
  <2>. QED
    BY <1>6, <2>1, <2>2, ValueFollows DEF NextValue
<1>7. CASE Key
  <2>1. /\ outcome = "parsing" /\ open # <<>>
        /\ t = TokenStep(s, Tok, limit) /\ s.at = "key"
    BY <1>2, <1>7 DEF Key, Pcs, Place
  <2>2. t = TakeKey(s, Tok, limit)
    BY <2>1 DEF TokenStep
  <2>. QED
    BY <1>7, <2>1, <2>2, KeyFollows DEF Key
<1>8. CASE AfterScalar \/ AfterChild
  <2>1. /\ pc \in {"after", "closed"} /\ InContainer
        /\ t = TokenStep(s, Tok, limit) /\ s.at = "after" /\ SeparatorOrCloser
    BY <1>2, <1>8 DEF AfterScalar, AfterChild, Pcs, Place
  <2>2. t = TakeSeparator(s, Tok, limit)
    BY <2>1 DEF TokenStep
  <2>. QED
    BY <2>1, <2>2, SeparatorFollows
<1>. QED
  BY <1>1, <1>3, <1>4, <1>5, <1>6, <1>7, <1>8 DEF Step

(* A parse starts as every parse does.                                     *)
LEMMA StartShows ==
    ASSUME IInv, Start
    PROVE  Shows(Unread)'
<1>1. /\ pos' = 0 /\ open' = <<>> /\ vals' = 0 /\ calls' = <<>>
      /\ outcome' = "parsing" /\ Place' = "root"
  BY DEF Start, IInv, OutsideContainers, sinkVars, Place
<1>2. Unread \in ParseStates
  BY EmptySeq DEF Unread, ParseStates, Places
<1>3. IsState(Unread, "root", 0, <<>>, 0, <<>>, "parsing", errorAt')
  BY <1>2, DeliveredNone DEF IsState, Unread
<1>. QED
  BY <1>1, <1>3, Zenon DEF Shows

(* A step is one of a parse that runs, and leaves the document alone.      *)
LEMMA StepRuns ==
    ASSUME Step
    PROVE  outcome = "parsing" /\ UNCHANGED doc
<1>1. outcome = "parsing"
  BY DEF Step, UnexpectedEnd, Root, Fresh, Colon, NextValue, Key, AfterScalar, AfterChild,
         Finish, Taking, Running
<1>2. ASSUME NEW c, Value(c) PROVE UNCHANGED doc
  BY <1>2 DEF Value, Enter, EmitScalar, Fail
<1>3. EmitKey \/ EndContainer \/ SeparatorOrCloser => UNCHANGED doc
  BY DEF EmitKey, EndContainer, SeparatorOrCloser, NextElement, NextPair, Fail
<1>4. UNCHANGED doc
  BY <1>2, <1>3
     DEF Step, UnexpectedEnd, Root, Enter, Fail, Fresh, Colon, NextValue, Key, AfterScalar,
         AfterChild, Finish
<1>. QED
  BY <1>1, <1>4

(* Frames another parse leaves in the Buffers are no concern of a parse    *)
(* that does not run.                                                      *)
LEMMA IdleStep ==
    ASSUME IInv, outcome # "parsing", stack' \in Seq(Frames),
           UNCHANGED <<doc, pos, mark, cnt, kind, pc, outcome, errorAt, open, vals, calls>>
    PROVE  IInv'
<1>1. TypeOK'
  BY DEF IInv, TypeOK, SinkTypeOK
<1>. QED
  BY <1>1 DEF IInv, FrameChain, Registers, MarksOrdered, OutsideContainers, InContainer
=============================================================================
