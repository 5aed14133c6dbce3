---------------------------- MODULE IndexedDriver ----------------------------
(***************************************************************************)
(* driver.rs: the push driver over the stage-1 index (drive_inner).  The   *)
(* index is the sequence of the document's tokens; `pos` counts the ones   *)
(* taken.  Registers mark, cnt and kind (is_object) describe the container *)
(* being parsed, frames on `stack` its ancestors.  One action per take! of *)
(* the loop: what is done with the token up to the next take!, the sink    *)
(* call it makes included, which the sink may refuse.                      *)
(*                                                                         *)
(* A definition named Slip_X is X with a plausible bug in it; no other     *)
(* definition uses it.  It is there to be put in X's place, to see which   *)
(* property notices.                                                       *)
(***************************************************************************)
EXTENDS FlatSink

CONSTANTS Docs,             \* the documents parsed: sequences of tokens
          CheckpointEvery   \* elements between array checkpoints (256)

ASSUME DocsAssumption == Docs \subseteq Seq(Token)
ASSUME CheckpointAssumption == CheckpointEvery \in Nat \ {0}

VARIABLES doc, pos, stack, mark, cnt, kind, pc, outcome, errorAt

driverVars == <<doc, pos, stack, mark, cnt, kind, pc, outcome, errorAt>>
vars == <<doc, pos, stack, mark, cnt, kind, pc, outcome, errorAt, open, vals, calls>>

(* The Frame enum; a root frame has neither mark nor count.                *)
Frames == [kind: Kinds \cup {"root"}, mark: Nat, cnt: Nat]

RootFrame == [kind |-> "root", mark |-> 0, cnt |-> 0]

Slip_Frame(c) == [kind |-> kind, mark |-> mark, cnt |-> cnt]  \* the child not counted

(* The registers as a frame: Frame::Object or Frame::Array.                *)
Frame(c) == [kind |-> kind, mark |-> mark, cnt |-> c]

Running(at) == outcome = "parsing" /\ pc = at

(* take!: the next index entry, when there is one.                         *)
Taking(at) == Running(at) /\ pos < Len(doc)
Tok == doc[pos + 1]

(* The parse returns; the frames stay in the Buffers as they are.          *)
Return(result, offset) ==
    /\ outcome' = result
    /\ errorAt' = offset
    /\ pc' = "idle"

Fail(error) ==
    /\ Return(error, pos + 1)
    /\ pos' = pos + 1
    /\ UNCHANGED <<doc, stack, mark, cnt, kind, sinkVars>>

(* A sink call: either it is accepted and the parse goes on, or `?` turns  *)
(* the refusal into the result at once.                                    *)
Continue(at) ==
    /\ pc' = at
    /\ UNCHANGED <<outcome, errorAt>>

Slip_RefusedBy(c) ==  \* the `?` forgotten
    /\ SinkRefuses(c)
    /\ UNCHANGED <<pc, outcome, errorAt, mark, cnt, kind>>

RefusedBy(c) ==
    /\ SinkRefuses(c)
    /\ Return("sink_error", 0)
    /\ UNCHANGED <<mark, cnt, kind>>

-----------------------------------------------------------------------------
(* parse_indexed: the index is built, the sink is the caller's fresh one   *)
(* and the frame stack, whatever an earlier parse left there, is cleared.  *)
Start ==
    /\ outcome = "none"
    /\ doc' \in Docs
    /\ stack' = <<>>
    /\ pc' = "root"
    /\ outcome' = "parsing"
    /\ UNCHANGED <<pos, mark, cnt, kind, errorAt, sinkVars>>

(* The caller has used the result and drops the sink; the Buffers, with    *)
(* the frames the parse left in them, are kept for the next call.          *)
Collect ==
    /\ outcome \notin {"none", "parsing"}
    /\ doc' = <<>> /\ pos' = 0
    /\ mark' = 0 /\ cnt' = 0 /\ kind' = "array"
    /\ outcome' = "none" /\ errorAt' = 0
    /\ SinkStart
    /\ UNCHANGED <<stack, pc>>

(* take! with the index exhausted, wherever the driver stands.             *)
UnexpectedEnd ==
    /\ outcome = "parsing"
    /\ pc # "finish"
    /\ pos = Len(doc)
    /\ Return("unexpected_end", pos + 1)
    /\ UNCHANGED <<doc, pos, stack, mark, cnt, kind, sinkVars>>

Slip_Enter(frame) ==  \* the mark is the parent's
    /\ stack' = Append(stack, frame)
    /\ pos' = pos + 1
    /\ UNCHANGED doc
    /\ \/ /\ SinkBegin(KindOf(Tok))
          /\ mark' = mark /\ cnt' = 0 /\ kind' = KindOf(Tok)
          /\ Continue("fresh")
       \/ RefusedBy(BeginCall(KindOf(Tok)))

(* A container opens below the frame given: the frame is pushed, then      *)
(* begin_* and mark() are called and the registers start afresh.           *)
Enter(frame) ==
    /\ stack' = Append(stack, frame)
    /\ pos' = pos + 1
    /\ UNCHANGED doc
    /\ \/ /\ SinkBegin(KindOf(Tok))
          /\ mark' = vals /\ cnt' = 0 /\ kind' = KindOf(Tok)
          /\ Continue("fresh")
       \/ RefusedBy(BeginCall(KindOf(Tok)))

(* emit_scalar!, inside a container that has counted `c` values with it.   *)
EmitScalar(c) ==
    /\ pos' = pos + 1
    /\ UNCHANGED <<doc, stack>>
    /\ \/ /\ Tok \in PlainScalars
          /\ SinkScalar(Tok)
          /\ cnt' = c /\ UNCHANGED <<mark, kind>>
          /\ Continue("after")
       \/ Tok \in PlainScalars /\ RefusedBy(ScalarCall(Tok))

(* The value of an array element or of a pair, already counted in `c`.     *)
Value(c) ==
    \/ Tok \in Openers /\ Enter(Frame(c))
    \/ EmitScalar(c)
    \/ Tok \notin Openers \cup PlainScalars /\ Fail(ValueError(Tok))

(* The key of a pair: sink_key comes before the colon is looked at.        *)
EmitKey ==
    \/ /\ Tok \in KeyText
       /\ pos' = pos + 1
       /\ UNCHANGED <<doc, stack>>
       /\ \/ SinkKey(Tok) /\ UNCHANGED <<mark, cnt, kind>> /\ Continue("colon")
          \/ RefusedBy(KeyCall(Tok))
    \/ Tok = "badstr" /\ Fail("scalar_error")
    \/ Tok \notin Quoted /\ Fail("expected")

(* The frame popped: the root's ends the parse, the parent's goes back to  *)
(* the registers.                                                          *)
Resume(frame) ==
    \/ /\ frame.kind = "root"
       /\ UNCHANGED <<mark, cnt, kind>>
       /\ Continue("finish")
    \/ /\ frame.kind # "root"
       /\ mark' = frame.mark /\ cnt' = frame.cnt /\ kind' = frame.kind
       /\ Continue("closed")

(* Scope end: end_* with the registers, then the frame below is resumed.   *)
EndContainer ==
    /\ pos' = pos + 1
    /\ UNCHANGED doc
    /\ \/ /\ SinkEnd(kind, mark, cnt)
          /\ stack' = Pop(stack)
          /\ Resume(Top(stack))
       \/ RefusedBy(EndCall(kind, mark, cnt)) /\ UNCHANGED stack

-----------------------------------------------------------------------------
Root ==
    /\ Taking("root")
    /\ \/ Tok \in Openers /\ Enter(RootFrame)
       \/ /\ Tok \in PlainScalars
          /\ pos' = pos + 1
          /\ UNCHANGED <<doc, stack, mark, cnt, kind>>
          /\ \/ SinkScalar(Tok) /\ Continue("finish")
             \/ RefusedBy(ScalarCall(Tok))
       \/ Tok \notin Openers \cup PlainScalars /\ Fail(ValueError(Tok))

(* A container just entered: its closer, a first key or a first element.   *)
Fresh ==
    /\ Taking("fresh")
    /\ \/ Tok = CloserOf(kind) /\ EndContainer
       \/ Tok # CloserOf(kind) /\ kind = "object" /\ EmitKey
       \/ Tok # CloserOf(kind) /\ kind = "array" /\ Value(cnt + 1)

Slip_Colon ==  \* the pair not counted
    /\ Taking("colon")
    /\ \/ /\ Tok = ":"
          /\ pos' = pos + 1
          /\ Continue("value")
          /\ UNCHANGED <<doc, stack, mark, cnt, kind, sinkVars>>
       \/ Tok # ":" /\ Fail("expected")

(* The take! of emit_key!, after which the pair is counted.                *)
Colon ==
    /\ Taking("colon")
    /\ \/ /\ Tok = ":"
          /\ pos' = pos + 1
          /\ cnt' = cnt + 1
          /\ Continue("value")
          /\ UNCHANGED <<doc, stack, mark, kind, sinkVars>>
       \/ Tok # ":" /\ Fail("expected")

(* The value of the pair or of the element just counted.                   *)
NextValue == Taking("value") /\ Value(cnt)

Slip_CheckpointDue(count) == count = CheckpointEvery  \* the first time only
CheckpointDue(count) == count % CheckpointEvery = 0

(* The separator of an array counts the coming element, then calls the     *)
(* checkpoint when that count is a multiple of the period.                 *)
NextElement ==
    /\ pos' = pos + 1
    /\ UNCHANGED <<doc, stack>>
    /\ \/ /\ ~ CheckpointDue(cnt + 1)
          /\ cnt' = cnt + 1 /\ UNCHANGED <<mark, kind, sinkVars>>
          /\ Continue("value")
       \/ /\ CheckpointDue(cnt + 1)
          /\ \/ /\ SinkCheckpoint(mark)
                /\ cnt' = cnt + 1 /\ UNCHANGED <<mark, kind>>
                /\ Continue("value")
             \/ RefusedBy(CheckpointCall(mark))

Slip_NextPair ==  \* a closer accepted in place of the key
    /\ pos' = pos + 1
    /\ Continue("fresh")
    /\ UNCHANGED <<doc, stack, mark, cnt, kind, sinkVars>>

Stuck_NextPair ==  \* the comma not consumed
    /\ Continue(pc)
    /\ UNCHANGED <<doc, pos, stack, mark, cnt, kind, sinkVars>>

(* The separator of an object only moves on to the key.                    *)
NextPair ==
    /\ pos' = pos + 1
    /\ Continue("key")
    /\ UNCHANGED <<doc, stack, mark, cnt, kind, sinkVars>>

Key == Taking("key") /\ EmitKey

SeparatorOrCloser ==
    \/ Tok = "," /\ kind = "array" /\ NextElement
    \/ Tok = "," /\ kind = "object" /\ NextPair
    \/ Tok = CloserOf(kind) /\ EndContainer
    \/ Tok \notin {",", CloserOf(kind)} /\ Fail("expected")

(* After a scalar, and after a closed child: the loop has a copy for each. *)
AfterScalar == Taking("after") /\ SeparatorOrCloser
AfterChild  == Taking("closed") /\ SeparatorOrCloser

(* finish!: an index entry left over is an error.                          *)
Finish ==
    /\ Running("finish")
    /\ IF pos < Len(doc) THEN Return("trailing_characters", pos + 1) ELSE Return("ok", 0)
    /\ UNCHANGED <<doc, pos, stack, mark, cnt, kind, sinkVars>>

-----------------------------------------------------------------------------
Init ==
    /\ doc = <<>> /\ pos = 0
    /\ stack = <<>>
    /\ mark = 0 /\ cnt = 0 /\ kind = "array"
    /\ pc = "idle"
    /\ outcome = "none" /\ errorAt = 0
    /\ open = <<>> /\ vals = 0 /\ calls = <<>>

Step ==
    \/ UnexpectedEnd
    \/ Root \/ Fresh \/ Colon \/ NextValue
    \/ Key \/ AfterScalar \/ AfterChild
    \/ Finish

Next == Start \/ Step \/ Collect

Spec == Init /\ [][Next]_vars

(* The parser is a function call: once entered it runs until it returns.   *)
FairSpec == Spec /\ WF_vars(Step)

-----------------------------------------------------------------------------
Pcs == {"idle", "root", "fresh", "colon", "value", "key", "after", "closed", "finish"}

Outcomes == {"none", "parsing", "ok", "sink_error"} \cup ParseErrors

(* Types of the driver's registers, frames and of the sink's containers.   *)
TypeOK ==
    /\ doc \in Seq(Token)
    /\ pos \in 0 .. Len(doc)
    /\ stack \in Seq(Frames)
    /\ mark \in Nat /\ cnt \in Nat /\ kind \in Kinds
    /\ pc \in Pcs
    /\ outcome \in Outcomes /\ errorAt \in Nat
    /\ SinkTypeOK

InContainer == outcome = "parsing" /\ pc \notin {"root", "finish"}

(* "The matching end_* receives that mark back along with the element/pair *)
(* count" (driver.rs 16-17): wherever a closer may be the next token, the  *)
(* registers, restored from frames any number of levels down, are what the *)
(* sink itself saw of the innermost open container.                        *)
MarkCountContract ==
    outcome = "parsing" /\ pc \in {"fresh", "after", "closed"} =>
        /\ open # <<>>
        /\ kind = Top(open).kind
        /\ mark = Top(open).mark
        /\ cnt = Top(open).len
        /\ kind = "object" => cnt = Top(open).keys

(* The expect("frame stack underflow") of the scope end never fires, and   *)
(* the frame below every ancestor is there: one frame per open container,  *)
(* the root's at the bottom and nowhere else.                              *)
NoUnderflow ==
    InContainer =>
        /\ Len(stack) = Len(open)
        /\ stack # <<>>
        /\ \A i \in DOMAIN stack : stack[i].kind = "root" <=> i = 1

(* What makes both hold.  The frame of an ancestor holds the ancestor's    *)
(* mark and the count of its values with the one being parsed; the         *)
(* registers hold those of the innermost container, the value that follows *)
(* a colon or a comma already counted.                                     *)
FrameChain ==
    InContainer =>
        /\ open # <<>>
        /\ Len(stack) = Len(open)
        /\ stack[1].kind = "root"
        /\ \A i \in 2 .. Len(stack) :
              /\ stack[i].kind = open[i - 1].kind
              /\ stack[i].mark = open[i - 1].mark
              /\ stack[i].cnt = open[i - 1].len + 1
              /\ stack[i].kind = "object" => stack[i].cnt = open[i - 1].keys

Registers ==
    InContainer =>
        /\ kind = Top(open).kind
        /\ mark = Top(open).mark
        /\ cnt = IF pc = "value" THEN Top(open).len + 1 ELSE Top(open).len
        /\ kind = "object" =>
              Top(open).keys = IF pc \in {"colon", "value"} THEN Top(open).len + 1
                                                           ELSE Top(open).len
        /\ pc \in {"colon", "key"} => kind = "object"

(* The marks grow with the depth, and a value just accepted is on the      *)
(* value stack, above the mark of its container.                           *)
MarksOrdered ==
    InContainer =>
        /\ \A i \in 1 .. Len(open) - 1 : open[i].mark <= open[i + 1].mark
        /\ Top(open).mark <= vals
        /\ pc \in {"after", "closed"} => Top(open).mark < vals

(* No container is open before the root value and after it.                *)
OutsideContainers ==
    /\ outcome = "none" => open = <<>> /\ calls = <<>> /\ vals = 0 /\ pos = 0
    /\ outcome = "parsing" <=> pc # "idle"
    /\ outcome = "parsing" /\ pc = "root" =>
           open = <<>> /\ calls = <<>> /\ stack = <<>> /\ vals = 0
    /\ outcome = "parsing" /\ pc = "finish" => open = <<>> /\ calls # <<>>

IInv ==
    /\ TypeOK
    /\ FrameChain
    /\ Registers
    /\ MarksOrdered
    /\ OutsideContainers

(* array_checkpoint bounds the pending state of a sink that spills         *)
(* (driver.rs 139-141): of an array, the value stack never holds more than *)
(* one period of elements.                                                 *)
PendingBounded ==
    Spills => \A i \in DOMAIN open :
        open[i].kind = "array" => ValuesUpTo(i) - open[i].mark <= CheckpointEvery

(* Why: the comma counts the element to come before it spills.  With that  *)
(* one counted an array holds what came since the last multiple of the     *)
(* period; an element just accepted is one more.                           *)
SinceCheckpoint(count) == count % CheckpointEvery

AfterValue == pc \in {"after", "closed"}

HeldByCount ==
    Spills /\ InContainer =>
        \A i \in DOMAIN open :
            open[i].kind = "array" =>
                IF i = Len(open) /\ AfterValue
                THEN vals - open[i].mark <= SinceCheckpoint(open[i].len) + 1
                ELSE ValuesUpTo(i) - open[i].mark <= SinceCheckpoint(open[i].len + 1)

PInv == PendingBounded /\ HeldByCount

(* "The sink returned an error; parsing stopped immediately" (driver.rs    *)
(* 178), the calls come in a legal order with the arguments of the         *)
(* container they close, and success means one complete value.             *)
Protocol == INSTANCE SinkProtocol
ImplementsSinkProtocol == Protocol!Spec

(* Whatever the document, the parse returns.                               *)
Returns == (outcome = "parsing") ~> (outcome # "parsing")
=============================================================================
